----------------------------- MODULE RemoteMeter -----------------------------
(***************************************************************************)
(* TelemetryCollector._collect_remote (collector.py) over                  *)
(* resolve_remote_usage (slurm.py): the figures of a job watched from      *)
(* another machine.  sstat is asked at most once per _remote_min_interval, *)
(* its last good answer outlives its failures, and every frame says how    *)
(* old the answer it shows is.                                             *)
(***************************************************************************)
EXTENDS Naturals, FiniteSets, FiniteSetsExt

CONSTANTS
    MinInterval,    \* _remote_min_interval, in units of time
    MaxAge,        \* bound on the time that passes
    Steps,          \* the job's steps, as sstat lists them
    Tasks,          \* NTasks of each step
    Nodes           \* node_count

ASSUME RemoteAssumption ==
    /\ MinInterval \in Nat \ {0} /\ MaxAge \in Nat
    /\ IsFiniteSet(Steps) /\ Tasks \in [Steps -> Nat \ {0}]
    /\ Nodes \in Nat \ {0}

VARIABLES
    now,        \* time.time(); the job started at 0
    stepCpu,    \* CPU time of a step's busiest task so far
    asked,      \* _remote_cache: when sstat was last asked, 0 before ...
    usage,      \* ... the usage kept, ...
    elapsed,    \* ... the job's age it goes with ...
    measuredAt, \* ... and when it was measured
    age,        \* _usage_age_seconds of the last frame
    shown,      \* the average the last frame showed, and when
    sampled,    \* _usage_sampled
    calls,      \* history: when sstat was asked last
    truth       \* history: the last answer sstat really gave, and its time

remoteCache == <<asked, usage, elapsed, measuredAt>>
remoteVars == <<now, stepCpu, remoteCache, age, shown, sampled, calls, truth>>

NoSample == [cpu |-> 0, sampled |-> FALSE]

RemoteTypeOK ==
    /\ now \in 1..MaxAge /\ asked \in 0..now /\ elapsed \in 0..now
    /\ measuredAt \in 0..now /\ age \in 0..MaxAge
    /\ stepCpu \in [Steps -> 0..MaxAge]
    /\ usage \in [cpu : Nat, sampled : BOOLEAN]
    /\ shown \in [cpu : Nat, over : 0..now, at : 0..now] /\ sampled \in BOOLEAN
    /\ calls \in 0..now /\ truth \in [cpu : Nat, at : 0..now]

RemoteInit ==
    /\ now = 1 /\ stepCpu = [s \in Steps |-> 0]
    /\ asked = 0 /\ usage = NoSample /\ elapsed = 0 /\ measuredAt = 0
    /\ age = 0 /\ shown = [cpu |-> 0, over |-> 0, at |-> 0] /\ sampled = FALSE
    /\ calls = 0 /\ truth = [cpu |-> 0, at |-> 0]

TimePasses(busy) ==
    /\ now < MaxAge
    /\ now' = now + 1
    /\ stepCpu' = [s \in Steps |-> IF s \in busy THEN stepCpu[s] + 1 ELSE stepCpu[s]]
    /\ UNCHANGED <<remoteCache, age, shown, sampled, calls, truth>>

-----------------------------------------------------------------------------
(* The busiest node's share of a step's tasks.                             *)
TasksPerNode(s) == Max({1, (Tasks[s] + Nodes - 1) \div Nodes})

(* resolve_remote_usage: the rows of this job that have an RSS sample      *)
(* count, each scaled to one node; a row whose CPU time is Slurm's "not    *)
(* sampled" value gives its memory only, and no row at all is no sample.   *)
Resolve(rows, novalue) ==
    [cpu |-> MapThenSumSet(LAMBDA s : stepCpu[s] * TasksPerNode(s), rows \ novalue),
     sampled |-> rows # {}]

Fresh == asked > 0 /\ now - asked < MinInterval

Show(u, e) == shown' = [cpu |-> u.cpu, over |-> e, at |-> now] /\ sampled' = u.sampled

RemoteFrameCached ==
    /\ Fresh
    /\ age' = now - measuredAt
    /\ Show(usage, elapsed)
    /\ UNCHANGED <<now, stepCpu, remoteCache, calls, truth>>

(* Mutant: a failed query makes the kept answer new again.                 *)
KeepAsNew == measuredAt' = now /\ age' = 0 /\ UNCHANGED <<usage, elapsed>>

(* A failed query leaves the last answer, the elapsed it was computed      *)
(* against and the time it was measured at.                                *)
Keep == UNCHANGED <<usage, elapsed, measuredAt>> /\ age' = now - measuredAt

RemoteFrameFailed ==
    /\ ~Fresh /\ asked > 0 /\ usage.sampled
    /\ asked' = now /\ calls' = now
    /\ Keep
    /\ Show(usage, elapsed)
    /\ UNCHANGED <<now, stepCpu, truth>>

RemoteFrameAnswered(u) ==
    /\ ~Fresh
    /\ u.sampled \/ asked = 0 \/ ~usage.sampled
    /\ asked' = now /\ calls' = now
    /\ usage' = u /\ elapsed' = now /\ measuredAt' = now
    /\ age' = 0
    /\ Show(u, now)
    /\ truth' = IF u.sampled THEN [cpu |-> u.cpu, at |-> now] ELSE truth
    /\ UNCHANGED <<now, stepCpu>>

RemoteNext ==
    \/ \E busy \in SUBSET Steps : TimePasses(busy)
    \/ RemoteFrameCached
    \/ RemoteFrameFailed
    \/ RemoteFrameAnswered(NoSample)
    \/ \E rows \in SUBSET Steps : \E novalue \in SUBSET rows :
           rows # {} /\ RemoteFrameAnswered(Resolve(rows, novalue))

RemoteSpec == RemoteInit /\ [][RemoteNext]_remoteVars

-----------------------------------------------------------------------------
(* A frame's average is the last answer over the age the job had when it   *)
(* was given, so that it neither decays between answers nor jumps with     *)
(* them, and the frame's age says when that was, through any number of     *)
(* failed queries.                                                         *)
SampleIsWhole ==
    sampled => /\ shown.cpu = truth.cpu /\ shown.over = truth.at
               /\ shown.at = truth.at + age

(* A job that has been measured is not declared unmeasured again, and      *)
(* sstat is not asked more often than its interval allows.                 *)
SampleIsKept ==
    [][/\ sampled => sampled'
       /\ calls' # calls /\ calls > 0 => calls' - calls >= MinInterval]_remoteVars
=============================================================================
