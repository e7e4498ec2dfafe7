------------------------------- MODULE ProcCpu -------------------------------
(***************************************************************************)
(* TelemetryCollector._accumulated_proc_cpu_ns (collector.py): the CPU     *)
(* time of a job on a cluster that gives it no cpuacct cgroup, kept by     *)
(* polling /proc/<pid>/stat of the processes the job's cgroups list.       *)
(*                                                                         *)
(* A process's figure is its own ticks and those of the children it has    *)
(* reaped, so a child's ticks are seen twice: under its own pid, and under *)
(* its parent's once that has reaped it.  The accumulator therefore hands  *)
(* a vanished pid's ticks back if an ancestor inside the job is going to   *)
(* report them again.  The processes move between any two reads of a poll. *)
(***************************************************************************)
EXTENDS Naturals, FiniteSets, FiniteSetsExt, Functions

CONSTANTS
    Pids,       \* pids the job's processes get
    Outside,    \* pid 1 or the step daemon: a parent that is not in the job
    MaxTicks    \* bound on the CPU time the job uses

ASSUME ProcCpuAssumption ==
    /\ IsFiniteSet(Pids) /\ Outside \notin Pids
    /\ MaxTicks \in Nat

VARIABLES
    proc,       \* the kernel's process table
    used,       \* history: ticks the job's processes have used
    missed,     \* history: ticks that died unsampled with a process no one
                \* inside the job reaps
    orphaned,   \* history: processes read once whose parent has exited since
    stray,      \* history: ticks read of such processes until they died
    pids,       \* the pids of the poll under way
    toRead,     \* those whose stat file it has still to read
    polling,    \* a poll is under way
    seen,       \* _proc_cpu_seen: the figure last read of a pid
    fromJob,    \* _proc_cpu_from_job: will an ancestor report it again
    accum,      \* _proc_cpu_accum_ticks
    quiet       \* history: whole polls since a process last did something, to 2

world == <<proc, used, missed, orphaned, stray>>
account == <<pids, toRead, polling, seen, fromJob, accum>>
procCpuVars == <<world, account, quiet>>

NoProcess == [st |-> "none", parent |-> Outside, own |-> 0, kids |-> 0]
Exists(p) == proc[p].st # "none"
Live == {p \in Pids : proc[p].st = "live"}
Children(p) == {c \in Pids : Exists(c) /\ proc[c].parent = p}
Figure(p) == proc[p].own + proc[p].kids

ProcCpuTypeOK ==
    /\ proc \in [Pids -> [st : {"none", "live", "zombie"}, parent : Pids \cup {Outside},
                          own : Nat, kids : Nat]]
    /\ used \in 0..MaxTicks /\ missed \in Nat
    /\ orphaned \subseteq Pids /\ stray \in Nat
    /\ toRead \subseteq pids /\ pids \subseteq Pids
    /\ polling \in BOOLEAN /\ quiet \in 0..2
    /\ DOMAIN seen \subseteq Pids /\ \A p \in DOMAIN seen : seen[p] \in Nat \ {0}
    /\ DOMAIN fromJob \subseteq Pids /\ \A p \in DOMAIN fromJob : fromJob[p] \in BOOLEAN
    /\ accum \in Nat

ProcCpuInit ==
    /\ proc = [p \in Pids |-> NoProcess]
    /\ used = 0 /\ missed = 0 /\ orphaned = {} /\ stray = 0
    /\ pids = {} /\ toRead = {} /\ polling = FALSE
    /\ seen = <<>> /\ fromJob = <<>> /\ accum = 0
    /\ quiet = 0

-----------------------------------------------------------------------------
(* The job's processes. *)

WorldMoves == quiet' = 0 /\ UNCHANGED account

Untracked(p) == ~Exists(p) /\ p \notin pids \cup DOMAIN seen \cup DOMAIN fromJob

(* A pid is not given out again before a poll has noticed it was free.     *)
Fork(parent, p) ==
    /\ Untracked(p)
    /\ parent \in Live \cup {Outside}
    /\ proc' = [proc EXCEPT ![p] = [NoProcess EXCEPT !.st = "live", !.parent = parent]]
    /\ UNCHANGED <<used, missed, orphaned, stray>>
    /\ WorldMoves

Run(p) ==
    /\ p \in Live
    /\ used < MaxTicks
    /\ used' = used + 1
    /\ proc' = [proc EXCEPT ![p].own = @ + 1]
    /\ UNCHANGED <<missed, orphaned, stray>>
    /\ WorldMoves

Sampled == [p \in Pids |-> IF p \in DOMAIN seen THEN seen[p] ELSE 0]
Unsampled == [p \in Pids |-> Figure(p) - Sampled[p]]

(* Whom an exit of p takes out of the table: a parent outside the job, or  *)
(* pid 1 for those p leaves behind, reaps at once.                         *)
Reaped(p) == {q \in Children(p) : proc[q].st = "zombie"} \cup {q \in {p} : proc[p].parent = Outside}

(* Who was read in the job and has lost, with p, the parent it was read of. *)
Bereft(p) == orphaned \cup (Children(p) \cap DOMAIN fromJob)

(* A process exits; what children it leaves, pid 1 takes over.             *)
Exit(p) ==
    /\ p \in Live
    /\ proc' = [q \in Pids |->
                   IF q \in Reaped(p) THEN NoProcess
                   ELSE IF q = p THEN [proc[q] EXCEPT !.st = "zombie"]
                   ELSE IF q \in Children(p) THEN [proc[q] EXCEPT !.parent = Outside]
                   ELSE proc[q]]
    /\ missed' = missed + SumFunctionOnSet(Unsampled, Reaped(p))
    /\ stray' = stray + SumFunctionOnSet(Sampled, Reaped(p) \cap Bereft(p))
    /\ orphaned' = Bereft(p) \ Reaped(p)
    /\ UNCHANGED used
    /\ WorldMoves

Reap(p) ==
    /\ proc[p].st = "zombie"
    /\ proc' = [proc EXCEPT ![p] = NoProcess, ![proc[p].parent].kids = @ + Figure(p)]
    /\ UNCHANGED <<used, missed, orphaned, stray>>
    /\ WorldMoves

-----------------------------------------------------------------------------
(* The poll. *)

(* _get_job_pids: cgroup.procs lists what lives; a zombie may be there too. *)
ListPids(listed) ==
    /\ ~polling
    /\ Live \subseteq listed /\ listed \subseteq {p \in Pids : Exists(p)}
    /\ pids' = listed /\ toRead' = listed /\ polling' = TRUE
    /\ UNCHANGED <<world, seen, fromJob, accum, quiet>>

Put(f, p, v) == [q \in DOMAIN f \cup {p} |-> IF q = p THEN v ELSE f[q]]

InJob(parent) == parent # Outside /\ parent \in pids \cup DOMAIN seen

(* The progress of a pid since its last read; a lower figure is a new      *)
(* process under an old number.                                            *)
Credit(p) ==
    IF Figure(p) = 0 THEN UNCHANGED <<accum, seen>>
    ELSE LET prev == IF p \in DOMAIN seen THEN seen[p] ELSE 0
         IN  /\ accum' = accum + (IF Figure(p) >= prev THEN Figure(p) - prev ELSE Figure(p))
             /\ seen' = Put(seen, p, Figure(p))

ReadStat(p) ==
    /\ p \in toRead
    /\ toRead' = toRead \ {p}
    /\ IF Exists(p)
       THEN /\ fromJob' = IF p \in DOMAIN fromJob THEN fromJob
                          ELSE Put(fromJob, p, InJob(proc[p].parent))
            /\ Credit(p)
       ELSE UNCHANGED <<fromJob, accum, seen>>
    /\ UNCHANGED <<world, pids, polling, quiet>>

Gone(p) == p \notin pids /\ ~Exists(p)

(* Mutant: the hand-back asks for the parent when the pid has gone.        *)
HandedBackLate(p) == proc[p].parent \in Live

HandedBack(p) == p \in DOMAIN fromJob /\ fromJob[p]

(* The end of a poll: pids that are gone from /proc are forgotten, and     *)
(* what an ancestor will report again is taken off.                        *)
Forget ==
    /\ polling /\ toRead = {}
    /\ LET gone == {p \in DOMAIN seen : Gone(p)}
           back == {p \in gone : HandedBack(p)}
           owed == SumFunctionOnSet(seen, back)
       IN  /\ accum' = IF accum >= owed THEN accum - owed ELSE 0
           /\ seen' = [p \in DOMAIN seen \ gone |-> seen[p]]
           /\ fromJob' = [p \in {q \in DOMAIN fromJob \ back : q \in DOMAIN seen' \/ ~Gone(q)}
                            |-> fromJob[p]]
    /\ pids' = {} /\ polling' = FALSE
    /\ quiet' = IF quiet < 2 THEN quiet + 1 ELSE quiet
    /\ UNCHANGED <<world, toRead>>

ProcCpuNext ==
    \/ \E p \in Pids : \/ Run(p) \/ Exit(p) \/ Reap(p) \/ ReadStat(p)
                       \/ \E parent \in Pids \cup {Outside} : Fork(parent, p)
    \/ \E listed \in SUBSET Pids : ListPids(listed)
    \/ Forget

ProcCpuSpec == ProcCpuInit /\ [][ProcCpuNext]_procCpuVars

-----------------------------------------------------------------------------
(* A conservation law.  Once the processes have been still for a whole     *)
(* poll, with no child left to reap, the total is the CPU time the job has *)
(* used, with nothing lost or counted twice, except for what no poll could *)
(* have seen and what was read of processes that lost their parent after   *)
(* their first read and died: that is handed back, and no one reports it.  *)
Settled == quiet = 2 /\ ~polling /\ \A p \in Pids : proc[p].st # "zombie"

AccountSettles == Settled => accum + missed + stray = used

(* "No interval can lose or duplicate a generation" (collector.py:1321),   *)
(* orphans included.                                                       *)
NoneIsLost == Settled => accum + missed = used
=============================================================================
