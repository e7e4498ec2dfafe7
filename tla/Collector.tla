------------------------------ MODULE Collector ------------------------------
(***************************************************************************)
(* TelemetryCollector (collector.py): start(), stop() and stop_sync(), the *)
(* sampling task _run_loop, the liveness task _liveness_loop, the bounded  *)
(* frame queue, and the shutdown of NVML.                                  *)
(*                                                                         *)
(* The tasks run on one event loop; what they await runs on executor       *)
(* threads, which a cancelled task leaves running.  An action is the code  *)
(* of a task between two awaits, or of a thread between two points another *)
(* actor can see.  A frame is its number in the order of collection.       *)
(***************************************************************************)
EXTENDS Naturals, Sequences

CONSTANTS
    QueueSize,      \* maxsize of _queue
    MaxFrames       \* bound on the frames collected

ASSUME CollectorAssumption ==
    /\ QueueSize \in Nat \ {0}
    /\ MaxFrames \in Nat

VARIABLES
    remote,     \* job_ctx.remote: sampled through sstat, without NVML
    caller,     \* where the owner of the collector is in start() and stop()
    stopSet,    \* _stop_event
    runPc,      \* the await _run_loop is at
    livePc,     \* the await _liveness_loop is at
    inflight,   \* _inflight_collect, the future of the collection
    held,       \* what the future stop() captured has become
    graced,     \* stop() has waited for the collection it found in flight
    worker,     \* the sampling thread: what it is doing
    initThread, \* the thread in _init_nvml
    squeue,     \* the thread in is_job_active, and its answer
    shutter,    \* the thread in _nvml_shutdown_locked
    nvml,       \* the NVML library
    nvmlInit,   \* _nvml_initialized
    shutDone,   \* _nvml_shutdown_done
    shuts,      \* history: calls of nvmlShutdown
    queue,      \* _queue
    made,       \* frames collected so far
    taken,      \* the frame next_snapshot returned last, 0 before any
    jobEnded,   \* _job_ended
    jobGone     \* the job has left squeue

taskVars == <<caller, stopSet, runPc, livePc, inflight, held, graced>>
nvmlVars == <<shutter, nvml, nvmlInit, shutDone, shuts>>
frameVars == <<queue, made, taken>>
lifeVars == <<remote, squeue, jobEnded, jobGone>>
collectorVars == <<taskVars, worker, initThread, nvmlVars, frameVars, lifeVars>>

Callers == {"new", "starting", "up", "joinLive", "joinRun", "grace",
            "shutting", "stopped", "dropped"}

CollectorTypeOK ==
    /\ remote \in BOOLEAN
    /\ caller \in Callers
    /\ stopSet \in BOOLEAN
    /\ runPc \in {"off", "prime", "sleep", "collect", "done"}
    /\ livePc \in {"off", "wait", "check", "done"}
    /\ inflight \in {"none", "pending", "frame", "error"}
    /\ held \in {"none", "pending", "settled"}
    /\ graced \in BOOLEAN
    /\ worker \in {"idle", "prime", "read", "nvml"}
    /\ initThread \in {"off", "init", "enum", "up", "down"}
    /\ squeue \in {"idle", "asked", "active", "gone", "unknown"}
    /\ shutter \in {"off", "waiting", "done"}
    /\ nvml \in {"off", "on", "shut"}
    /\ nvmlInit \in BOOLEAN /\ shutDone \in BOOLEAN /\ shuts \in 0..1
    /\ queue \in Seq(1..MaxFrames) /\ Len(queue) <= QueueSize
    /\ made \in 0..MaxFrames /\ taken \in 0..MaxFrames
    /\ jobEnded \in BOOLEAN /\ jobGone \in BOOLEAN

CollectorInit ==
    /\ remote \in BOOLEAN
    /\ caller = "new" /\ stopSet = FALSE
    /\ runPc = "off" /\ livePc = "off"
    /\ inflight = "none" /\ held = "none" /\ graced = FALSE
    /\ worker = "idle" /\ initThread = "off" /\ squeue = "idle" /\ shutter = "off"
    /\ nvml = "off" /\ nvmlInit = FALSE /\ shutDone = FALSE /\ shuts = 0
    /\ queue = <<>> /\ made = 0 /\ taken = 0
    /\ jobEnded = FALSE /\ jobGone = FALSE

-----------------------------------------------------------------------------
(* start(). *)

CreateTasks ==
    /\ caller' = "up"
    /\ runPc' = "prime" /\ worker' = "prime"
    /\ livePc' = "wait"

(* start() up to its await; a remote collector has nothing to await.       *)
Start ==
    /\ caller = "new"
    /\ IF remote
       THEN CreateTasks /\ UNCHANGED initThread
       ELSE /\ caller' = "starting" /\ initThread' = "init"
            /\ UNCHANGED <<runPc, livePc, worker>>
    /\ UNCHANGED <<stopSet, inflight, held, graced, nvmlVars, frameVars, lifeVars>>

(* _init_nvml: the job has no GPU, or the library or the driver is missing. *)
NvmlAbsent ==
    /\ initThread = "init"
    /\ initThread' = "down"
    /\ UNCHANGED <<taskVars, worker, nvmlVars, frameVars, lifeVars>>

(* nvmlInit() succeeds: recorded at once, before the devices are listed.   *)
NvmlUp ==
    /\ initThread = "init"
    /\ initThread' = "enum"
    /\ nvml' = "on" /\ nvmlInit' = TRUE
    /\ UNCHANGED <<taskVars, worker, shutter, shutDone, shuts, frameVars, lifeVars>>

(* _shutdown_nvml_sync: it waits for the NVML lock, but not for ever.      *)
ShutNvml ==
    IF nvmlInit /\ ~shutDone
    THEN shutDone' = TRUE /\ nvml' = "shut" /\ shuts' = shuts + 1
    ELSE UNCHANGED <<shutDone, nvml, shuts>>

(* The devices are listed, or that fails and NVML goes down again.         *)
NvmlEnumerated(ok) ==
    /\ initThread = "enum"
    /\ initThread' = IF ok THEN "up" ELSE "down"
    /\ IF ok THEN UNCHANGED <<shutDone, nvml, shuts>> ELSE ShutNvml
    /\ UNCHANGED <<taskVars, worker, shutter, nvmlInit, frameVars, lifeVars>>

(* The await of start() returns: the two tasks are created.                *)
StartReturns ==
    /\ caller = "starting" /\ initThread \in {"up", "down"}
    /\ nvmlInit' = (initThread = "up")
    /\ CreateTasks
    /\ UNCHANGED <<stopSet, inflight, held, graced, initThread, shutter, nvml,
                   shutDone, shuts, frameVars, lifeVars>>

-----------------------------------------------------------------------------
(* The sampling thread. *)

PrimeDone ==
    /\ worker = "prime"
    /\ worker' = "idle"
    /\ UNCHANGED <<taskVars, initThread, nvmlVars, frameVars, lifeVars>>

(* _collect_gpus takes the NVML lock for its sweep.                        *)
EnterNvml ==
    /\ worker = "read" /\ nvmlInit
    /\ worker' = "nvml"
    /\ UNCHANGED <<taskVars, initThread, nvmlVars, frameVars, lifeVars>>

(* The collection ends with a frame or an exception; the future learns of  *)
(* it unless it has been cancelled.                                        *)
CollectionEnds(outcome) ==
    /\ worker \in {"read", "nvml"}
    /\ worker' = "idle"
    /\ inflight' = IF inflight = "pending" THEN outcome ELSE inflight
    /\ held' = IF held = "pending" THEN "settled" ELSE held
    /\ UNCHANGED <<caller, stopSet, runPc, livePc, graced, initThread, nvmlVars,
                   frameVars, lifeVars>>

-----------------------------------------------------------------------------
(* _run_loop. *)

Primed ==
    /\ runPc = "prime" /\ worker = "idle"
    /\ runPc' = "sleep"
    /\ UNCHANGED <<caller, stopSet, livePc, inflight, held, graced, worker,
                   initThread, nvmlVars, frameVars, lifeVars>>

(* A sleep is over: the next collection, unless a stop was asked for.      *)
CollectOrLeave ==
    /\ runPc = "sleep"
    /\ IF stopSet
       THEN runPc' = "done" /\ UNCHANGED <<inflight, worker>>
       ELSE /\ made < MaxFrames
            /\ runPc' = "collect" /\ inflight' = "pending" /\ worker' = "read"
    /\ UNCHANGED <<caller, stopSet, livePc, held, graced, initThread, nvmlVars,
                   frameVars, lifeVars>>

(* Mutant: a full queue keeps its oldest frames.                           *)
EnqueueDropsNewest(frame) ==
    queue' = IF Len(queue) < QueueSize THEN Append(queue, frame) ELSE queue

(* _enqueue: the oldest frame makes room for the newest.                   *)
Enqueue(frame) ==
    queue' = IF Len(queue) < QueueSize
             THEN Append(queue, frame)
             ELSE Append(Tail(queue), frame)

(* The awaited collection is over: enqueue its frame, or log its exception *)
(* and go on.                                                              *)
Collected ==
    /\ runPc = "collect" /\ inflight \in {"frame", "error"}
    /\ inflight' = "none"
    /\ IF inflight = "frame"
       THEN Enqueue(made + 1) /\ made' = made + 1
       ELSE UNCHANGED <<queue, made>>
    /\ runPc' = "sleep"
    /\ UNCHANGED <<caller, stopSet, livePc, held, graced, worker, initThread,
                   nvmlVars, taken, lifeVars>>

(* Mutant: the task is joined with the collection it waits for.            *)
RunCancelledAfterThread ==
    /\ caller = "joinRun" /\ runPc # "done"
    /\ runPc = "collect" => inflight # "pending"
    /\ runPc' = "done" /\ inflight' = "none"
    /\ UNCHANGED <<caller, stopSet, livePc, held, graced, worker, initThread,
                   nvmlVars, frameVars, lifeVars>>

(* CancelledError at whatever _run_loop awaits.  Cancelling a task cancels *)
(* the future it awaits, which settles it; the thread goes on.             *)
RunCancelled ==
    /\ caller = "joinRun" /\ runPc # "done"
    /\ runPc' = "done"
    /\ inflight' = "none"
    /\ held' = IF held = "pending" THEN "settled" ELSE held
    /\ UNCHANGED <<caller, stopSet, livePc, graced, worker, initThread, nvmlVars,
                   frameVars, lifeVars>>

-----------------------------------------------------------------------------
(* _liveness_loop. *)

(* The interval has elapsed, or the stop event has cut it short.           *)
CheckOrLeave ==
    /\ livePc = "wait"
    /\ IF stopSet
       THEN livePc' = "done" /\ UNCHANGED squeue
       ELSE livePc' = "check" /\ squeue' = "asked"
    /\ UNCHANGED <<caller, stopSet, runPc, inflight, held, graced, worker,
                   initThread, nvmlVars, frameVars, remote, jobEnded, jobGone>>

(* is_job_active: a definite answer is right when it is given, and any     *)
(* failure of squeue is no answer.                                         *)
SqueueAnswers(definite) ==
    /\ squeue = "asked"
    /\ squeue' = IF ~definite THEN "unknown" ELSE IF jobGone THEN "gone" ELSE "active"
    /\ UNCHANGED <<taskVars, worker, initThread, nvmlVars, frameVars, remote, jobEnded, jobGone>>

(* The answer arrives: only a definite no ends the session.                *)
Checked ==
    /\ livePc = "check" /\ squeue \in {"active", "gone", "unknown"}
    /\ squeue' = "idle"
    /\ jobEnded' = (jobEnded \/ squeue = "gone")
    /\ livePc' = IF squeue = "gone" \/ stopSet THEN "done" ELSE "wait"
    /\ UNCHANGED <<caller, stopSet, runPc, inflight, held, graced, worker,
                   initThread, nvmlVars, frameVars, remote, jobGone>>

LiveCancelled ==
    /\ caller = "joinLive" /\ livePc # "done"
    /\ livePc' = "done"
    /\ UNCHANGED <<caller, stopSet, runPc, inflight, held, graced, worker,
                   initThread, nvmlVars, frameVars, lifeVars>>

(* An answer nobody waits for any more is dropped.                         *)
AnswerDropped ==
    /\ livePc = "done" /\ squeue \in {"active", "gone", "unknown"}
    /\ squeue' = "idle"
    /\ UNCHANGED <<taskVars, worker, initThread, nvmlVars, frameVars, remote, jobEnded, jobGone>>

-----------------------------------------------------------------------------
(* stop() and stop_sync(). *)

(* The stop event, the capture of the collection in flight, the first      *)
(* cancellation.                                                           *)
Stop ==
    /\ caller = "up"
    /\ stopSet' = TRUE
    /\ held' = IF inflight = "none" THEN "none"
               ELSE IF inflight = "pending" THEN "pending" ELSE "settled"
    /\ caller' = "joinLive"
    /\ UNCHANGED <<runPc, livePc, inflight, graced, worker, initThread, nvmlVars,
                   frameVars, lifeVars>>

(* Mutant: the cancelled liveness task is not joined.                      *)
LiveNotJoined ==
    /\ caller = "joinLive"
    /\ caller' = "joinRun"
    /\ UNCHANGED <<stopSet, runPc, livePc, inflight, held, graced, worker,
                   initThread, nvmlVars, frameVars, lifeVars>>

(* join_bounded returns.  A cancelled task ends at its next step, before   *)
(* the timer of the bound, so the bound does not show.                     *)
LiveJoined ==
    /\ caller = "joinLive" /\ livePc = "done"
    /\ caller' = "joinRun"
    /\ UNCHANGED <<stopSet, runPc, livePc, inflight, held, graced, worker,
                   initThread, nvmlVars, frameVars, lifeVars>>

(* Mutant: the cancelled sampling task is not joined.                      *)
RunNotJoined ==
    /\ caller = "joinRun"
    /\ caller' = "grace"
    /\ UNCHANGED <<stopSet, runPc, livePc, inflight, held, graced, worker,
                   initThread, nvmlVars, frameVars, lifeVars>>

RunJoined ==
    /\ caller = "joinRun" /\ runPc = "done"
    /\ caller' = "grace"
    /\ UNCHANGED <<stopSet, runPc, livePc, inflight, held, graced, worker,
                   initThread, nvmlVars, frameVars, lifeVars>>

(* The wait of at most two seconds for a captured future that is not done; *)
(* then _shutdown_nvml up to its await.                                    *)
GraceOver ==
    /\ caller = "grace"
    /\ graced' = (held = "pending")
    /\ IF nvmlInit /\ ~shutDone
       THEN caller' = "shutting" /\ shutDone' = TRUE /\ shutter' = "waiting"
       ELSE caller' = "stopped" /\ UNCHANGED <<shutDone, shutter>>
    /\ UNCHANGED <<stopSet, runPc, livePc, inflight, held, worker, initThread,
                   nvml, nvmlInit, shuts, frameVars, lifeVars>>

(* The shutter thread: it has the lock, or two seconds are over.           *)
NvmlShutdown ==
    /\ shutter = "waiting"
    /\ shutter' = "done"
    /\ nvml' = "shut" /\ shuts' = shuts + 1
    /\ UNCHANGED <<taskVars, worker, initThread, nvmlInit, shutDone, frameVars, lifeVars>>

(* The thread is done, or the bound of its join has elapsed as well.       *)
StopReturns ==
    /\ caller = "shutting"
    /\ caller' = "stopped"
    /\ UNCHANGED <<stopSet, runPc, livePc, inflight, held, graced, worker,
                   initThread, nvmlVars, frameVars, lifeVars>>

(* stop_sync(), from the app's on_unmount and from _run_interactive.       *)
StopSync ==
    /\ caller # "new"
    /\ stopSet' = TRUE
    /\ ShutNvml
    /\ UNCHANGED <<caller, runPc, livePc, inflight, held, graced, worker, initThread,
                   shutter, nvmlInit, frameVars, lifeVars>>

(* The app cancels the worker that awaits start().                         *)
StartCancelled ==
    /\ caller = "starting"
    /\ caller' = "dropped"
    /\ UNCHANGED <<stopSet, runPc, livePc, inflight, held, graced, worker, initThread,
                   nvmlVars, frameVars, lifeVars>>

-----------------------------------------------------------------------------
(* Mutant: the frame is looked at, and stays in the queue.                 *)
TakeKeepsFrame ==
    /\ queue # <<>>
    /\ taken' = Head(queue)
    /\ UNCHANGED <<taskVars, worker, initThread, nvmlVars, queue, made, lifeVars>>

(* next_snapshot: the oldest frame of the queue.                           *)
Take ==
    /\ queue # <<>>
    /\ taken' = Head(queue)
    /\ queue' = Tail(queue)
    /\ UNCHANGED <<taskVars, worker, initThread, nvmlVars, made, lifeVars>>

(* Any consumer. *)
NextSnapshot == caller = "up" /\ Take

JobLeaves ==
    /\ ~jobGone
    /\ jobGone' = TRUE
    /\ UNCHANGED <<taskVars, worker, initThread, nvmlVars, frameVars, remote, squeue, jobEnded>>

RunStep == Primed \/ CollectOrLeave \/ Collected \/ RunCancelled
LiveStep == CheckOrLeave \/ Checked \/ LiveCancelled
OwnerStep == StartReturns \/ LiveJoined \/ RunJoined \/ GraceOver \/ StopReturns

LivenessAnswer == \E definite \in BOOLEAN : SqueueAnswers(definite)
SampleStep ==
    \/ PrimeDone \/ EnterNvml
    \/ \E outcome \in {"frame", "error"} : CollectionEnds(outcome)
NvmlStep ==
    NvmlAbsent \/ NvmlUp \/ (\E ok \in BOOLEAN : NvmlEnumerated(ok)) \/ NvmlShutdown

(* What goes on by itself once start() has been called.                    *)
CollectorStep ==
    \/ RunStep \/ LiveStep \/ OwnerStep
    \/ SampleStep \/ NvmlStep \/ LivenessAnswer \/ AnswerDropped
    \/ JobLeaves

CollectorNext ==
    \/ Start \/ Stop \/ StopSync \/ StartCancelled \/ NextSnapshot
    \/ CollectorStep

CollectorSpec == CollectorInit /\ [][CollectorNext]_collectorVars

(* The event loop runs every task whose await is over; squeue has a        *)
(* timeout, and does not go for ever without a definite answer.  Nothing   *)
(* is assumed of the thread that samples, of NVML, of the owner or of the  *)
(* consumer.                                                               *)
CollectorFairness ==
    /\ WF_collectorVars(RunStep) /\ WF_collectorVars(LiveStep)
    /\ WF_collectorVars(OwnerStep)
    /\ WF_collectorVars(LivenessAnswer) /\ SF_collectorVars(SqueueAnswers(TRUE))

CollectorFairSpec == CollectorSpec /\ CollectorFairness

-----------------------------------------------------------------------------
(* The queue holds the newest frames not yet taken, in order, and a frame  *)
(* is lost only to newer ones (_enqueue).                                  *)
FreshestSurvives ==
    /\ \A i \in DOMAIN queue : queue[i] = made - Len(queue) + i
    /\ taken <= made - Len(queue)
    /\ queue = <<>> => taken = made

(* The session is declared over only when the job has left: a squeue that  *)
(* fails or does not answer never ends it (_liveness_loop).                *)
EndedOnlyIfGone ==
    /\ jobEnded => jobGone
    /\ squeue = "gone" => jobGone

(* Once stop() has returned nothing reaches the owner any more, although a *)
(* thread may still be collecting or asking squeue.                        *)
StoppedIsQuiet == [][caller = "stopped" => UNCHANGED <<made, jobEnded>>]_collectorVars

(* A collection is in flight exactly while _run_loop waits for it, so that *)
(* at most one thread collects, and the tasks are over before NVML is shut *)
(* down by stop().                                                         *)
TasksInOrder ==
    /\ inflight # "none" <=> runPc = "collect"
    /\ runPc = "collect" /\ inflight = "pending" => worker \in {"read", "nvml"}
    /\ worker # "idle" => \/ runPc = "prime" /\ worker = "prime"
                          \/ runPc = "collect" /\ inflight = "pending"
                          \/ runPc = "done"
    /\ caller \in {"joinLive", "joinRun", "grace", "shutting", "stopped"} => stopSet
    /\ caller \in {"joinRun", "grace", "shutting", "stopped"} => livePc = "done"
    /\ caller \in {"grace", "shutting", "stopped"} => runPc = "done"

(* The session runs in order to its end: one collection at a time, tasks   *)
(* over before what they use, and no end declared of a job still there.    *)
SessionInOrder == EndedOnlyIfGone /\ TasksInOrder

(* NVML is shut down at most once, by whoever gets there first: a failed   *)
(* start, stop() or stop_sync() (_nvml_shutdown_done).                     *)
ShutOnce ==
    /\ shuts = 1 => shutDone
    /\ shutter = "waiting" => shutDone /\ shuts = 0

(* Nothing runs before start() has returned, and room is left for the      *)
(* frame being collected.                                                  *)
OffBefore ==
    /\ caller \in {"new", "starting", "dropped"}
           => runPc = "off" /\ livePc = "off" /\ worker = "idle"
    /\ runPc = "collect" => made < MaxFrames

(* The inductive invariant of the proofs.                                  *)
CollectorInv ==
    /\ FreshestSurvives /\ EndedOnlyIfGone /\ TasksInOrder /\ ShutOnce /\ OffBefore

(* stop() ends however long the threads take: squeue, sstat, a cgroup read *)
(* or NVML (_TEARDOWN_JOIN_SECONDS).                                       *)
StopEnds == caller = "joinLive" ~> caller = "stopped"

(* The end of the job is noticed, after however many checks without answer. *)
EndIsNoticed == jobGone /\ caller = "up" ~> jobEnded \/ stopSet

(* One bad cycle does not end telemetry (_run_loop).                       *)
BadCycleSurvived ==
    inflight = "error" ~> inflight = "pending" \/ stopSet

(* Nothing the threads do, or fail to do, keeps the collector from going   *)
(* on, from noticing the end of the job or from stopping.                  *)
CollectorProgress == StopEnds /\ EndIsNoticed /\ BadCycleSurvived

-----------------------------------------------------------------------------
(* "let that collection finish (bounded) before we shut NVML down" (stop). *)
CollectionGetsGrace ==
    [][caller = "grace" /\ caller' = "shutting" /\ held # "none"
           => worker = "idle" \/ graced']_collectorVars

=============================================================================
