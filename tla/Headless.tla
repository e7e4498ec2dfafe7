------------------------------- MODULE Headless -------------------------------
(***************************************************************************)
(* One `slurmwatch --log` run (cli.py, _run_headless and _headless_loop)   *)
(* as the owner and consumer of a Collector: the loop, the write raced     *)
(* against a shutdown signal, the end of the job, the exit code, and       *)
(* asyncio.run's finalizer, which joins every executor thread.             *)
(*                                                                         *)
(* What is in the file, and other runs on it, is LogFile's subject; here   *)
(* opening and claiming it succeeds or fails, and a record is the number   *)
(* of its frame.                                                           *)
(***************************************************************************)
EXTENDS Collector

CONSTANTS
    Signals,        \* numbers of the signals that may be sent
    NoCode          \* the process has not exited

ASSUME HeadlessAssumption ==
    /\ Signals \subseteq Nat \ {0}
    /\ NoCode \notin Nat

VARIABLES
    hpc,        \* the await _headless_loop is at
    stoppedBy,  \* the first of stopped_by, 0 when shutdown_event is not set
    writer,     \* the thread in _write, and its outcome
    written,    \* the frame written last
    query,      \* the thread of _remote_job_gone, and its answer
    why,        \* what ended the loop
    code        \* the exit code

headVars == <<hpc, stoppedBy, writer, written, query, why, code>>
vars == <<collectorVars, headVars>>

TypeOK ==
    /\ CollectorTypeOK
    /\ hpc \in {"begin", "start", "wait", "gone", "race", "grace", "stop",
                "final", "exited"}
    /\ stoppedBy \in Signals \cup {0}
    /\ writer \in {"idle", "busy", "ok", "failed"}
    /\ written \in 0..MaxFrames
    /\ query \in {"idle", "asked", "active", "gone", "unknown"}
    /\ why \in {"none", "job", "signal", "error", "stuck"}
    /\ code \in {NoCode, 0, 1} \cup {128 + s : s \in Signals}

Init ==
    /\ CollectorInit
    /\ hpc = "begin" /\ stoppedBy = 0 /\ writer = "idle" /\ written = 0
    /\ query = "idle" /\ why = "none" /\ code = NoCode

-----------------------------------------------------------------------------
(* The loop is left: the file is closed and stop() begins.                 *)
Leave(reason) ==
    /\ hpc' = "stop" /\ why' = reason
    /\ Stop

(* `while not shutdown_event.is_set()`, up to the wait for a frame.        *)
Again ==
    IF stoppedBy # 0
    THEN Leave("signal")
    ELSE hpc' = "wait" /\ UNCHANGED <<why, collectorVars>>

(* The answer of _remote_job_gone's squeue.                                *)
JobOver ==
    /\ hpc = "gone" /\ query \in {"active", "gone", "unknown"}
    /\ query' = "idle"
    /\ IF query = "gone" THEN Leave("job") ELSE Again
    /\ UNCHANGED <<stoppedBy, writer, written, code>>

(* `collector.job_ended or await _remote_job_gone()`: the latter asks only *)
(* off the node, and only when its interval has elapsed.                   *)
GoOn ==
    \/ jobEnded /\ Leave("job") /\ UNCHANGED query
    \/ /\ ~jobEnded /\ remote
       /\ hpc' = "gone" /\ query' = "asked"
       /\ UNCHANGED <<why, collectorVars>>
    \/ ~jobEnded /\ Again /\ UNCHANGED query

Begin ==
    /\ hpc = "begin"
    /\ Start
    /\ hpc' = "start"
    /\ UNCHANGED <<stoppedBy, writer, written, query, why, code>>

(* collector.start() has returned: open, claim and prepare the file.       *)
OpenLog(ok) ==
    /\ hpc = "start" /\ caller = "up"
    /\ IF ok THEN Again ELSE Leave("error")
    /\ UNCHANGED <<stoppedBy, writer, written, query, code>>

(* Mutant: the frames left in the queue are written while stop() runs.     *)
FrameWhileStopping ==
    /\ hpc \in {"wait", "stop"} /\ writer = "idle"
    /\ Take
    /\ writer' = "busy"
    /\ hpc' = IF hpc = "wait" THEN "race" ELSE "stop"
    /\ UNCHANGED <<stoppedBy, written, query, why, code>>

(* A frame: its write is handed to a thread.                               *)
Frame ==
    /\ hpc = "wait"
    /\ Take
    /\ writer' = "busy"
    /\ hpc' = "race"
    /\ UNCHANGED <<stoppedBy, written, query, why, code>>

(* No frame for a second. *)
NoFrame ==
    /\ hpc = "wait" /\ queue = <<>>
    /\ GoOn
    /\ UNCHANGED <<stoppedBy, writer, written, code>>

(* The writing thread: the record is out, or the write failed.             *)
WriteEnds(ok) ==
    /\ writer = "busy" /\ hpc # "exited"
    /\ writer' = IF ok THEN "ok" ELSE "failed"
    /\ written' = IF ok THEN taken ELSE written
    /\ UNCHANGED <<collectorVars, hpc, stoppedBy, query, why, code>>

(* The write is over, in the race or within the grace.                     *)
Written ==
    /\ hpc \in {"race", "grace"} /\ writer \in {"ok", "failed"}
    /\ writer' = "idle"
    /\ IF writer = "ok" THEN GoOn ELSE Leave("error") /\ UNCHANGED query
    /\ UNCHANGED <<stoppedBy, written, code>>

(* The shutdown event wins the race: the write gets a grace.               *)
ShutdownInWrite ==
    /\ hpc = "race" /\ writer = "busy" /\ stoppedBy # 0
    /\ hpc' = "grace"
    /\ UNCHANGED <<collectorVars, stoppedBy, writer, written, query, why, code>>

(* Mutant: a stuck sink is left by the ordinary way out.                   *)
StuckLeaves ==
    /\ hpc = "grace" /\ writer = "busy"
    /\ Leave("signal")
    /\ UNCHANGED <<stoppedBy, writer, written, query, code>>

(* The grace is over and the sink is not draining: _bounded_exit(0).       *)
Stuck ==
    /\ hpc = "grace" /\ writer = "busy"
    /\ hpc' = "exited" /\ why' = "stuck" /\ code' = 0
    /\ UNCHANGED <<collectorVars, stoppedBy, writer, written, query>>

(* collector.stop() has returned: the run's code is settled.               *)
Stopped ==
    /\ hpc = "stop" /\ caller = "stopped"
    /\ hpc' = "final"
    /\ code' = IF why = "error" THEN 1
               ELSE IF stoppedBy # 0 THEN 128 + stoppedBy ELSE 0
    /\ UNCHANGED <<collectorVars, stoppedBy, writer, written, query, why>>

ThreadsIdle ==
    /\ worker = "idle" /\ initThread \notin {"init", "enum"}
    /\ squeue # "asked" /\ query # "asked" /\ shutter # "waiting"
    /\ writer # "busy"

(* asyncio.run joins the default executor, and the process exits.          *)
Finalize ==
    /\ hpc = "final" /\ ThreadsIdle
    /\ hpc' = "exited"
    /\ UNCHANGED <<collectorVars, stoppedBy, writer, written, query, why, code>>

QueryAnswers(definite) ==
    /\ query = "asked" /\ hpc # "exited"
    /\ query' = IF ~definite THEN "unknown" ELSE IF jobGone THEN "gone" ELSE "active"
    /\ UNCHANGED <<collectorVars, hpc, stoppedBy, writer, written, why, code>>

(* _signal_handler. *)
Signal(s) ==
    /\ hpc \notin {"begin", "final", "exited"} /\ stoppedBy = 0
    /\ stoppedBy' = s
    /\ UNCHANGED <<collectorVars, hpc, writer, written, query, why, code>>

MainStep ==
    \/ \E ok \in BOOLEAN : OpenLog(ok)
    \/ Frame \/ NoFrame \/ JobOver \/ Written \/ ShutdownInWrite \/ Stuck
    \/ Stopped \/ Finalize

(* The collector's tasks and threads end with the process. *)
Background == hpc # "exited" /\ CollectorStep /\ UNCHANGED headVars

Next ==
    \/ Begin \/ MainStep \/ Background
    \/ \E ok \in BOOLEAN : WriteEnds(ok)
    \/ \E definite \in BOOLEAN : QueryAnswers(definite)
    \/ \E s \in Signals : Signal(s)

Spec == Init /\ [][Next]_vars

(* The event loop runs its tasks and every wait of the main task is        *)
(* bounded, but for the write and for the joins of the finalizer; squeue   *)
(* and sstat have a timeout, squeue answers in the end; NVML returns.      *)
HangFairness ==
    /\ WF_vars(Begin) /\ WF_vars(MainStep)
    /\ WF_vars(RunStep /\ Background) /\ WF_vars(LiveStep /\ Background)
    /\ WF_vars(OwnerStep /\ Background)
    /\ WF_vars(LivenessAnswer /\ Background)
    /\ SF_vars(SqueueAnswers(TRUE) /\ Background)
    /\ WF_vars(\E definite \in BOOLEAN : QueryAnswers(definite))
    /\ WF_vars(NvmlStep /\ Background)
    /\ WF_vars(remote /\ SampleStep /\ Background)

(* With a thread that reads the node's files for ever possible, and without. *)
HangSpec == Spec /\ HangFairness
FairSpec == HangSpec /\ WF_vars(SampleStep /\ Background)

-----------------------------------------------------------------------------
(* The loop ends with "job ended" only when the job has left, never on a   *)
(* squeue that failed (_remote_job_gone, _liveness_loop).                  *)
EndNoteIsTrue == why = "job" => jobGone

(* Every frame taken from the collector is in the log when the run is      *)
(* over, a signal in the middle of its write included; and the file is not *)
(* closed under a write.                                                   *)
TakenIsWritten ==
    /\ why \in {"job", "signal"} => written = taken /\ writer = "idle"
    /\ writer = "busy" => why \in {"none", "stuck"}

(* Frames reach the log in the order they were collected, none twice.      *)
LogInOrder == [][writer = "busy" /\ writer' = "ok" => written' > written]_vars

(* The run uses the collector as its owner may: it stops it once, after    *)
(* start() has returned, and takes frames only in between.                 *)
OwnsCollector == CollectorSpec

(* What the log says of the run is true: every frame taken is in it, in    *)
(* order and once, and "job ended" is written only of a job that ended.    *)
LogIsTrue == []TakenIsWritten /\ []EndNoteIsTrue /\ LogInOrder

(* A signal ends the run, with the sink draining or not (B-C6).            *)
SignalEndsRun == stoppedBy # 0 ~> hpc = "exited"

(* The end of the job ends the run, unless its sink never drains again.    *)
JobEndEndsRun == (<>jobGone => <>(hpc = "exited")) \/ <>[](writer = "busy")

(* A run ends when it should, and by itself.                               *)
RunEnds == SignalEndsRun /\ JobEndEndsRun

=============================================================================
