------------------------------- MODULE JobQuery -------------------------------
(***************************************************************************)
(* Which job, and in what state: cli.main's discovery of the caller's job, *)
(* slurm.resolve_job_context's ladder of queries about one, the pending    *)
(* view's second look, and what `--once` prints of it.                     *)
(*                                                                         *)
(* Slurm answers each query from the job as it is at that moment, refuses  *)
(* it, or does not answer; the job goes on living between two queries.     *)
(* The module asks whether what is said of it was ever true of it.         *)
(***************************************************************************)
EXTENDS Naturals, FiniteSets

CONSTANT MaxJobMoves    \* bound: how often the job changes while it is asked about

ASSUME JobQueryAssumption == MaxJobMoves \in Nat

VARIABLES
    call,      \* the call and the host it is made on: constant after Init
    job,       \* external: the state of the caller's job
    seen,      \* history: the states it has had since the call began
    moves,     \* bound: how often it changed
    stage,     \* where the program stands
    asking,    \* what the listing failed with, "none" if it did not
    refused,   \* what `scontrol show job` failed with
    record,    \* the state the program last read of the job
    rows,      \* rows on stdout
    said,      \* the token or sentence the user is left with
    code       \* the exit code, 9 while it runs

queryVars == <<call, job, seen, moves, stage, asking, refused, record, rows, said, code>>

JobStates == {"never", "queued", "running", "suspended", "completing", "ended", "purged"}
InQueue == {"queued", "running", "suspended", "completing"}
Left == {"ended", "purged"}

Errors == {"none", "identity", "busy", "entity", "absent", "invalid"}

Tokens == {"job_unknown", "job_finished", "slurm_error", "slurm_unavailable",
           "slurm_query_unsupported", "pending", "foreign", "usage_not_sampled", "row",
           "timeout", "picker", "screen", "no jobs", "unmonitorable", "cannot ask"}

JobQueryTypeOK ==
    /\ call \in [named : BOOLEAN, once : BOOLEAN, names : BOOLEAN, uids : BOOLEAN,
                 exit0 : BOOLEAN, inside : BOOLEAN, slurm : BOOLEAN, here : BOOLEAN,
                 foreign : BOOLEAN, hop : BOOLEAN]
    /\ job \in JobStates /\ seen \subseteq JobStates /\ moves \in 0..MaxJobMoves
    /\ stage \in {"byName", "byUid", "deferred", "scan", "listed", "others", "scontrol",
                  "sacct", "facts", "again", "once", "onNode", "collect", "over"}
    /\ asking \in Errors /\ refused \in Errors
    /\ record \in JobStates
    /\ rows \in Nat /\ said \in Tokens \cup {""} /\ code \in {0, 1, 9}

(* Whether the user named a job, wants one row or a screen; whether this   *)
(* host maps uids to names, this Slurm takes uids, and squeue's exit code  *)
(* tells; whether the shell is inside the job, Slurm is installed, the     *)
(* job's cgroup is on this host, the job is somebody else's, and a step on *)
(* its node may be tried.                                                  *)
JobQueryInit ==
    /\ call \in [named : BOOLEAN, once : BOOLEAN, names : BOOLEAN, uids : BOOLEAN,
                 exit0 : BOOLEAN, inside : BOOLEAN, slurm : BOOLEAN, here : BOOLEAN,
                 foreign : BOOLEAN, hop : BOOLEAN]
    /\ call.foreign => call.named /\ ~call.inside
    /\ call.names => call.uids /\ ~call.exit0
    /\ call.named => call.names /\ ~call.inside
    /\ ~call.once => ~call.foreign /\ ~call.hop
    /\ ~call.slurm => call.names /\ ~call.foreign /\ ~call.hop
    /\ job \in JobStates /\ (call.inside => job \notin {"never", "queued", "purged"})
    /\ seen = {job} /\ moves = 0
    /\ stage = IF call.named THEN "scontrol" ELSE "byName"
    /\ asking = "none" /\ refused = "none" /\ record = "never"
    /\ rows = 0 /\ said = "" /\ code = 9

-----------------------------------------------------------------------------
(* External: the job, as Slurm moves it. *)

After(s) ==
    CASE s = "never" -> {"queued"}
      [] s = "queued" -> {"running", "ended"}
      [] s = "running" -> {"queued", "suspended", "completing"}
      [] s = "suspended" -> {"running", "queued", "completing"}
      [] s = "completing" -> {"ended", "queued"}
      [] s = "ended" -> {"purged"}
      [] OTHER -> {}

JobMoves ==
    /\ stage # "over" /\ moves < MaxJobMoves
    /\ job' \in After(job)
    /\ job = "never" => ~call.named
    /\ seen' = seen \cup {job'} /\ moves' = moves + 1
    /\ UNCHANGED <<call, stage, asking, refused, record, rows, said, code>>

Asked == UNCHANGED <<call, job, seen, moves>>

-----------------------------------------------------------------------------
(* _run_slurm_cmd: what a client printed, and whether that is an answer.   *)

Answer(r) == [rc |-> 0, rows |-> r, why |-> "none"]
Failure(rc, why) == [rc |-> rc, rows |-> {}, why |-> why]

(* Mutant: an exit code of 0 is an answer, as if Slurm's clients agreed.   *)
RaisesOnCode(r) == r.rc # 0
Raises(r) == r.rc # 0 \/ (r.rows = {} /\ r.why = "identity")

(* What any query may meet instead of an answer.                           *)
Mishaps == IF call.slurm THEN {Failure(1, "busy")} ELSE {Failure(1, "absent")}

(* squeue for the caller's jobs, by one way of naming the caller; only the *)
(* running and the queued are kept.                                        *)
Listing(known) ==
    Mishaps \cup (IF ~call.slurm THEN {}
                  ELSE IF known THEN {Answer({job} \cap {"running", "queued"})}
                  ELSE {Failure(IF call.exit0 THEN 0 ELSE 1, "identity")})

Stop(token, c) == said' = token /\ code' = c /\ stage' = "over"
Silent == UNCHANGED <<rows, said, code>>

(* _auto_discover_job_id with a listing in hand.  A job the shell is       *)
(* inside is taken only when the listing failed or is empty.               *)
Discovered(r) ==
    IF r.rows # {}
    THEN /\ IF call.once THEN stage' = "scontrol" /\ UNCHANGED <<said, code>>
            ELSE Stop("picker", 0)
         /\ UNCHANGED asking
    ELSE IF call.inside THEN stage' = "scontrol" /\ UNCHANGED <<asking, said, code>>
    ELSE IF Raises(r) THEN asking' = r.why /\ Stop("cannot ask", 1)
    ELSE stage' = "others" /\ UNCHANGED <<asking, said, code>>

(* _resolve_filtered: a caller nobody can name is asked about by uid.      *)
ListByName ==
    /\ stage = "byName"
    /\ \E r \in Listing(call.names) :
         IF Raises(r) /\ r.why = "identity"
         THEN stage' = "byUid" /\ UNCHANGED <<asking, said, code>>
         ELSE Discovered(r)
    /\ UNCHANGED <<refused, record, rows>> /\ Asked

ListByUid ==
    /\ stage = "byUid"
    /\ \E r \in Listing(call.uids) :
         IF Raises(r) /\ r.why = "identity"
         THEN stage' = "deferred" /\ UNCHANGED <<asking, said, code>>
         ELSE Discovered(r)
    /\ UNCHANGED <<refused, record, rows>> /\ Asked

(* UnfilteredScanDeferredError: the job the shell is inside comes before   *)
(* the whole cluster's queue.                                              *)
Deferred ==
    /\ stage = "deferred"
    /\ stage' = IF call.inside THEN "scontrol" ELSE "scan"
    /\ UNCHANGED <<asking, refused, record>> /\ Silent /\ Asked

ScanQueue ==
    /\ stage = "scan"
    /\ \E r \in Listing(TRUE) : Discovered(r)
    /\ UNCHANGED <<refused, record, rows>> /\ Asked

(* resolve_unmonitorable_jobs, best effort.                                *)
Others ==
    /\ stage = "others"
    /\ \E r \in {{}, IF call.names THEN {job} \cap {"suspended", "completing"} ELSE {}} :
         Stop(IF r = {} THEN "no jobs" ELSE "unmonitorable", 1)
    /\ UNCHANGED <<asking, refused, record, rows>> /\ Asked

-----------------------------------------------------------------------------
(* resolve_job_context. *)

Scontrol ==
    IF ~call.slurm THEN Mishaps
    ELSE Mishaps \cup {Failure(1, "entity")}
         \cup (IF job \in {"never", "purged"} THEN {Failure(1, "invalid")} ELSE {Answer({job})})

ShowJob ==
    /\ stage = "scontrol"
    /\ \E r \in Scontrol :
         IF Raises(r) THEN stage' = "sacct" /\ refused' = r.why /\ UNCHANGED record
         ELSE /\ stage' = "facts" /\ UNCHANGED refused
              /\ record' = CHOOSE s \in r.rows : TRUE
    /\ UNCHANGED asking /\ Silent /\ Asked

IsMissing(why) == why = "invalid"

Verdict(why) ==
    CASE why = "entity" -> "slurm_query_unsupported"
      [] why = "absent" -> "slurm_unavailable"
      [] ~IsMissing(why) -> "slurm_error"
      [] OTHER -> "job_unknown"

(* `--once` answers a failure in its own format too, the screens do not.   *)
Die(token) == Stop(token, 1) /\ rows' = IF call.once THEN rows + 1 ELSE rows

(* _sacct_final_state: the accounting records, only to tell a job that has *)
(* finished from one that never was.                                       *)
AskAccounting ==
    /\ stage = "sacct"
    /\ \E final \in {FALSE, call.slurm /\ job \in Left} :
         IF final THEN stage' = "again" /\ record' = "ended" /\ UNCHANGED <<rows, said, code>>
         ELSE Die(Verdict(refused)) /\ UNCHANGED record
    /\ UNCHANGED <<asking, refused>> /\ Asked

(* _authoritative_job_facts: squeue's word for the state where it has one, *)
(* the record's otherwise; then the state decides, and whether the cgroup  *)
(* is on this host.                                                        *)
ReadFacts ==
    /\ stage = "facts"
    /\ \E state \in {record} \cup ({job} \cap InQueue) :
         /\ record' = state
         /\ stage' = IF state \in {"running", "completing"} THEN "once" ELSE "again"
    /\ UNCHANGED <<asking, refused>> /\ Silent /\ Asked

(* _resolve_running_or_pending: a job that does not run may be queued; if  *)
(* that cannot be shown, it is as the first look had it.                   *)
LookAgain ==
    /\ stage = "again"
    /\ \E r \in Scontrol :
         IF r = Answer({"queued"})
         THEN Stop("pending", IF call.once THEN 1 ELSE 0)
              /\ rows' = IF call.once THEN rows + 1 ELSE rows
         ELSE Die("job_finished")
    /\ UNCHANGED <<asking, refused, record>> /\ Asked

-----------------------------------------------------------------------------
(* _run_once. *)

Measure ==
    /\ stage = "once"
    /\ IF ~call.once THEN Stop("screen", 0) /\ UNCHANGED rows
       ELSE IF call.foreign /\ ~call.here THEN Stop("foreign", 0) /\ rows' = rows + 1
       ELSE /\ stage' = IF call.hop /\ ~call.here THEN "onNode" ELSE "collect"
            /\ Silent
    /\ UNCHANGED <<asking, refused, record>> /\ Asked

(* _once_on_node: another slurmwatch on the node; one that fails may have  *)
(* printed a row about why.                                                *)
(* Mutant: its output is passed on before its exit code is read.           *)
PassOnAnyOutput(rc, out) == out
PassOn(rc, out) == IF rc = 0 THEN out ELSE 0

OnNode ==
    /\ stage = "onNode"
    /\ \E rc \in {0, 1}, out \in {0, 1} :
         /\ rows' = rows + PassOn(rc, out)
         /\ IF rc = 0 /\ out = 1 THEN Stop("row", 0)
            ELSE stage' = "collect" /\ UNCHANGED <<said, code>>
    /\ UNCHANGED <<asking, refused, record>> /\ Asked

(* _once_loop: a sample, none yet off the node, or none in time.           *)
FirstSample ==
    /\ stage = "collect"
    /\ \/ Stop("row", 0) /\ rows' = rows + 1
       \/ ~call.here /\ Stop("usage_not_sampled", 1) /\ rows' = rows + 1
       \/ Stop("timeout", 1) /\ UNCHANGED rows
    /\ UNCHANGED <<asking, refused, record>> /\ Asked

JobQueryNext ==
    \/ JobMoves
    \/ ListByName \/ ListByUid \/ Deferred \/ ScanQueue \/ Others
    \/ ShowJob \/ AskAccounting \/ ReadFacts \/ LookAgain
    \/ Measure \/ OnNode \/ FirstSample

JobQuerySpec == JobQueryInit /\ [][JobQueryNext]_queryVars

-----------------------------------------------------------------------------
(* Properties. *)

(* "could not ask" is not "nothing there": no jobs are reported only to a  *)
(* user who, at some moment of the call, had none running or queued.       *)
NoJobsIsTrue == said \in {"no jobs", "unmonitorable"} => ~(seen \subseteq {"running", "queued"})

(* A job that was in the queue or in Slurm's memory all along is never     *)
(* said not to exist, whatever went wrong with the asking.                 *)
LiveJobIsNotMissing == said = "job_unknown" => seen \cap {"never", "purged"} # {}

(* Nothing is said to be absent because asking for it failed.              *)
AbsenceIsTrue == NoJobsIsTrue /\ LiveJobIsNotMissing

(* A machine that asked for one row never gets two, and a success has one. *)
OnePayload == rows <= 1 /\ (code = 0 /\ call.once => rows = 1)

(* The row a poller reads as "job_finished" is about a job that has left   *)
(* the queue: held and resuming jobs "are NOT ended".                      *)
FinishedIsTrue == said = "job_finished" /\ call.once => seen \cap Left # {}
=============================================================================
