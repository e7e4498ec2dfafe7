---------------------------- MODULE HeadlessProofs ----------------------------
(***************************************************************************)
(* Theorems about Collector, and about Headless, which drives it, for any  *)
(* queue size, any number of frames and any signals: the queue holds the   *)
(* newest frames and stop() leaves nothing running; a run uses its         *)
(* collector as Collector's specification has it used, its log is complete *)
(* and in order, and "job ended" is true.                                  *)
(***************************************************************************)
EXTENDS Headless, SequenceTheorems, TLAPS

-----------------------------------------------------------------------------
(* Collector, for any queue size and any number of frames. *)

(* What _enqueue and next_snapshot do to a queue that holds the newest     *)
(* frames in order: it still does.                                         *)
LEMMA EnqueueKeeps ==
  ASSUME CollectorAssumption, CollectorTypeOK, FreshestSurvives,
         made < MaxFrames, Enqueue(made + 1), made' = made + 1, taken' = taken
  PROVE  /\ queue' \in Seq(1..MaxFrames) /\ Len(queue') <= QueueSize
         /\ FreshestSurvives'
<1> DEFINE T == 1..MaxFrames
<1>1. /\ queue \in Seq(T) /\ Len(queue) \in Nat /\ made \in Nat /\ taken \in Nat
      /\ made + 1 \in T /\ QueueSize \in Nat \ {0} /\ Len(queue) <= QueueSize
  BY DEF CollectorTypeOK, CollectorAssumption
<1>2. CASE Len(queue) < QueueSize
  <2>1. queue' = Append(queue, made + 1)
    BY <1>2 DEF Enqueue
  <2>2. queue' \in Seq(T) /\ Len(queue') = Len(queue) + 1
    BY <1>1, <2>1
  <2>3. ASSUME NEW i \in DOMAIN queue' PROVE queue'[i] = made' - Len(queue') + i
    <3>1. i \in 1..Len(queue) + 1
      BY <2>2
    <3>2. CASE i \in 1..Len(queue)
      <4>1. queue'[i] = queue[i]
        BY <1>1, <2>1, <3>2
      <4> QED BY <1>1, <2>2, <3>2, <4>1 DEF FreshestSurvives
    <3>3. CASE i = Len(queue) + 1
      <4>1. queue'[i] = made + 1
        BY <1>1, <2>1, <3>3
      <4> QED BY <1>1, <2>2, <3>3, <4>1
    <3> QED BY <1>1, <3>1, <3>2, <3>3
  <2>4. taken' <= made' - Len(queue') /\ queue' # <<>>
    BY <1>1, <2>1, <2>2 DEF FreshestSurvives
  <2> QED BY <1>1, <1>2, <2>2, <2>3, <2>4 DEF FreshestSurvives
<1>3. CASE ~(Len(queue) < QueueSize)
  <2> DEFINE rest == Tail(queue)
  <2>1. queue # <<>> /\ Len(queue) = QueueSize
    BY <1>1, <1>3
  <2>2. rest \in Seq(T) /\ Len(rest) = Len(queue) - 1
    BY <1>1, <2>1
  <2>3. queue' = Append(rest, made + 1)
    BY <1>3 DEF Enqueue
  <2>4. queue' \in Seq(T) /\ Len(queue') = Len(queue)
    BY <1>1, <2>2, <2>3
  <2>5. ASSUME NEW i \in DOMAIN queue' PROVE queue'[i] = made' - Len(queue') + i
    <3>1. i \in 1..Len(queue)
      BY <2>4
    <3>2. CASE i \in 1..Len(queue) - 1
      <4>1. queue'[i] = rest[i]
        BY <1>1, <2>2, <2>3, <3>2
      <4>2. rest[i] = queue[i + 1] /\ i + 1 \in DOMAIN queue
        BY <1>1, <2>1, <3>2
      <4> HIDE DEF rest
      <4> QED BY <1>1, <2>4, <3>2, <4>1, <4>2 DEF FreshestSurvives
    <3>3. CASE i = Len(queue)
      <4> HIDE DEF rest
      <4>1. queue'[i] = made + 1
        BY <1>1, <2>2, <2>3, <3>3
      <4> QED BY <1>1, <2>4, <3>3, <4>1
    <3> QED BY <1>1, <3>1, <3>2, <3>3
  <2>6. taken' <= made' - Len(queue') /\ queue' # <<>>
    BY <1>1, <2>1, <2>4 DEF FreshestSurvives
  <2> QED BY <1>1, <2>1, <2>4, <2>5, <2>6 DEF FreshestSurvives
<1> QED BY <1>2, <1>3

(* next_snapshot takes the oldest frame left, a newer one than before.     *)
LEMMA TakeKeeps ==
  ASSUME CollectorTypeOK, FreshestSurvives, Take
  PROVE  /\ queue' \in Seq(1..MaxFrames) /\ Len(queue') = Len(queue) - 1
         /\ taken' \in 1..MaxFrames /\ taken' > taken
         /\ FreshestSurvives'
<1>1. /\ queue \in Seq(1..MaxFrames) /\ Len(queue) \in Nat /\ queue # <<>>
      /\ made \in Nat /\ taken \in Nat /\ made' = made
      /\ queue' = Tail(queue) /\ taken' = Head(queue)
  BY DEF CollectorTypeOK, Take, frameVars
<1>2. queue' \in Seq(1..MaxFrames) /\ Len(queue') = Len(queue) - 1
  BY <1>1
<1>3. taken' = queue[1] /\ 1 \in DOMAIN queue /\ taken' \in 1..MaxFrames
  <2>1. Len(queue) # 0
    BY <1>1, EmptySeq
  <2>2. 1 \in DOMAIN queue /\ DOMAIN queue = 1..Len(queue)
    BY <1>1, <2>1
  <2>3. ASSUME NEW T, queue \in Seq(T), 1 \in DOMAIN queue PROVE queue[1] \in T
    BY <2>3
  <2>4. queue[1] \in 1..MaxFrames
    BY <1>1, <2>2, <2>3
  <2> QED BY <1>1, <2>2, <2>4
<1>4. taken' = made - Len(queue) + 1
  BY <1>1, <1>3 DEF FreshestSurvives
<1>5. taken' > taken
  BY <1>1, <1>4 DEF FreshestSurvives
<1>6. ASSUME NEW i \in DOMAIN queue' PROVE queue'[i] = made' - Len(queue') + i
  <2>1. queue'[i] = queue[i + 1] /\ i + 1 \in DOMAIN queue /\ i \in Nat
    BY <1>1, <1>2
  <2> QED BY <1>1, <1>2, <2>1 DEF FreshestSurvives
<1>7. taken' <= made' - Len(queue') /\ (queue' = <<>> => taken' = made')
  <2>1. taken' <= made' - Len(queue')
    BY <1>1, <1>2, <1>4
  <2>2. queue' = <<>> => Len(queue') = 0
    BY EmptySeq
  <2>3. queue' = <<>> => taken' = made'
    BY <1>1, <1>2, <1>4, <2>2
  <2> QED BY <2>1, <2>3
<1> QED BY <1>2, <1>3, <1>5, <1>6, <1>7 DEF FreshestSurvives

-----------------------------------------------------------------------------
(* Type correctness needs the invariant: that a shutdown is issued once    *)
(* bounds shuts, that room is left for a frame being collected bounds made. *)
Inv == CollectorTypeOK /\ CollectorInv

(* The invariant holds before start() is called.                           *)
LEMMA InitInv ==
  ASSUME CollectorAssumption, CollectorInit
  PROVE  Inv
<1>1. queue \in Seq(1..MaxFrames) /\ Len(queue) = 0 /\ DOMAIN queue = {}
  BY EmptySeq DEF CollectorInit
<1>2. CollectorTypeOK
  <2>1. queue \in Seq(1..MaxFrames) /\ Len(queue) <= QueueSize
    BY <1>1 DEF CollectorAssumption
  <2>2. shuts \in 0..1 /\ made \in 0..MaxFrames /\ taken \in 0..MaxFrames
    BY DEF CollectorInit, CollectorAssumption
  <2> QED BY <2>1, <2>2, Zenon DEF CollectorInit, CollectorTypeOK, Callers
<1> QED BY <1>1, <1>2 DEF CollectorInit, Inv, CollectorInv, FreshestSurvives,
          EndedOnlyIfGone, TasksInOrder, ShutOnce, OffBefore

(* The variables that only _enqueue and next_snapshot change.              *)
LEMMA FramesKept ==
  ASSUME FreshestSurvives, UNCHANGED frameVars
  PROVE  FreshestSurvives'
BY DEF FreshestSurvives, frameVars

(* A shutdown of NVML from outside stop() is the first one.                *)
LEMMA ShutNvmlKeeps ==
  ASSUME CollectorTypeOK, ShutOnce, ShutNvml, UNCHANGED shutter
  PROVE  ShutOnce' /\ shuts' \in 0..1 /\ shutDone' \in BOOLEAN
         /\ nvml' \in {"off", "on", "shut"}
<1>1. CASE nvmlInit /\ ~shutDone
  <2>1. shuts = 0 /\ shutter # "waiting"
    BY <1>1 DEF ShutOnce, CollectorTypeOK
  <2>2. shutDone' = TRUE /\ nvml' = "shut" /\ shuts' = shuts + 1
    BY <1>1 DEF ShutNvml
  <2>3. shuts' = 1
    BY <2>1, <2>2
  <2> QED BY <2>1, <2>2, <2>3 DEF ShutOnce
<1>2. CASE ~(nvmlInit /\ ~shutDone)
  BY <1>2 DEF ShutNvml, ShutOnce, CollectorTypeOK
<1> QED BY <1>1, <1>2

(* start() and the thread in _init_nvml.                                   *)
LEMMA StartKeepsInv ==
  ASSUME CollectorAssumption, Inv,
         \/ Start \/ StartReturns \/ StartCancelled \/ NvmlAbsent \/ NvmlUp
         \/ \E ok \in BOOLEAN : NvmlEnumerated(ok)
  PROVE  Inv'
<1> USE DEF Inv, CollectorInv, CollectorTypeOK, Callers, EndedOnlyIfGone,
        TasksInOrder, ShutOnce, OffBefore, lifeVars, taskVars, nvmlVars
<1>1. CASE Start
  BY <1>1, FramesKept DEF Start, CreateTasks, frameVars
<1>2. CASE StartReturns
  BY <1>2, FramesKept DEF StartReturns, CreateTasks, frameVars
<1>3. CASE StartCancelled
  BY <1>3, FramesKept DEF StartCancelled, frameVars
<1>4. CASE NvmlAbsent
  BY <1>4, FramesKept DEF NvmlAbsent, frameVars
<1>5. CASE NvmlUp
  BY <1>5, FramesKept DEF NvmlUp, frameVars
<1>6. ASSUME NEW ok \in BOOLEAN, NvmlEnumerated(ok) PROVE Inv'
  <2>1. /\ ShutOnce' /\ shuts' \in 0..1 /\ shutDone' \in BOOLEAN
        /\ nvml' \in {"off", "on", "shut"}
    <3>1. CASE ok
      BY <1>6, <3>1 DEF NvmlEnumerated
    <3>2. CASE ~ok
      BY <1>6, <3>2, ShutNvmlKeeps DEF NvmlEnumerated
    <3> QED BY <3>1, <3>2
  <2> QED BY <1>6, <2>1, FramesKept DEF NvmlEnumerated, frameVars
<1> QED BY <1>1, <1>2, <1>3, <1>4, <1>5, <1>6

(* The sampling thread and _run_loop. *)
LEMMA RunKeepsInv ==
  ASSUME CollectorAssumption, Inv, RunStep \/ SampleStep
  PROVE  Inv'
<1> USE DEF Inv, CollectorInv, CollectorTypeOK, Callers, EndedOnlyIfGone,
        TasksInOrder, ShutOnce, OffBefore, lifeVars, taskVars, nvmlVars
<1>1. CASE Primed
  BY <1>1, FramesKept DEF Primed, frameVars
<1>2. CASE CollectOrLeave
  BY <1>2, FramesKept DEF CollectOrLeave, frameVars
<1>3. CASE RunCancelled
  BY <1>3, FramesKept DEF RunCancelled, frameVars
<1>4. CASE PrimeDone
  BY <1>4, FramesKept DEF PrimeDone, frameVars
<1>5. CASE EnterNvml
  BY <1>5, FramesKept DEF EnterNvml, frameVars
<1>6. ASSUME NEW outcome \in {"frame", "error"}, CollectionEnds(outcome)
      PROVE  Inv'
  BY <1>6, FramesKept DEF CollectionEnds, frameVars
<1>7. CASE Collected
  <2>1. made < MaxFrames /\ taken' = taken
    BY <1>7 DEF Collected
  <2>2. CASE inflight = "frame"
    <3>1. /\ queue' \in Seq(1..MaxFrames) /\ Len(queue') <= QueueSize
          /\ FreshestSurvives'
      BY <1>7, <2>1, <2>2, EnqueueKeeps DEF Collected
    <3> QED BY <1>7, <2>1, <2>2, <3>1 DEF Collected, CollectorAssumption
  <2>3. CASE inflight # "frame"
    BY <1>7, <2>3, FramesKept DEF Collected, frameVars
  <2> QED BY <2>2, <2>3
<1> QED BY <1>1, <1>2, <1>3, <1>4, <1>5, <1>6, <1>7 DEF RunStep, SampleStep

(* _liveness_loop, squeue and the job. *)
LEMMA LiveKeepsInv ==
  ASSUME CollectorAssumption, Inv,
         LiveStep \/ LivenessAnswer \/ AnswerDropped \/ JobLeaves
  PROVE  Inv'
<1> USE DEF Inv, CollectorInv, CollectorTypeOK, Callers, EndedOnlyIfGone,
        TasksInOrder, ShutOnce, OffBefore, lifeVars, taskVars, nvmlVars
<1>1. CASE CheckOrLeave
  BY <1>1, FramesKept DEF CheckOrLeave, frameVars
<1>2. CASE Checked
  BY <1>2, FramesKept DEF Checked, frameVars
<1>3. CASE LiveCancelled
  BY <1>3, FramesKept DEF LiveCancelled, frameVars
<1>4. ASSUME NEW definite \in BOOLEAN, SqueueAnswers(definite) PROVE Inv'
  BY <1>4, FramesKept DEF SqueueAnswers, frameVars
<1>5. CASE AnswerDropped
  BY <1>5, FramesKept DEF AnswerDropped, frameVars
<1>6. CASE JobLeaves
  BY <1>6, FramesKept DEF JobLeaves, frameVars
<1> QED BY <1>1, <1>2, <1>3, <1>4, <1>5, <1>6 DEF LiveStep, LivenessAnswer

(* stop(), stop_sync(), the shutter thread and the consumer.               *)
LEMMA StopKeepsInv ==
  ASSUME CollectorAssumption, Inv,
         \/ Stop \/ LiveJoined \/ RunJoined \/ GraceOver \/ StopReturns
         \/ StopSync \/ NvmlShutdown \/ NextSnapshot
  PROVE  Inv'
<1> USE DEF Inv, CollectorInv, CollectorTypeOK, Callers, EndedOnlyIfGone,
        TasksInOrder, ShutOnce, OffBefore, lifeVars, taskVars, nvmlVars
<1>1. CASE Stop
  BY <1>1, FramesKept DEF Stop, frameVars
<1>2. CASE LiveJoined
  BY <1>2, FramesKept DEF LiveJoined, frameVars
<1>3. CASE RunJoined
  BY <1>3, FramesKept DEF RunJoined, frameVars
<1>4. CASE GraceOver
  <2>1. graced' \in BOOLEAN
    BY <1>4 DEF GraceOver
  <2>2. CASE nvmlInit /\ ~shutDone
    <3>1. shutDone' = TRUE /\ shutter' = "waiting" /\ shuts' = 0 /\ caller' = "shutting"
      BY <1>4, <2>2 DEF GraceOver
    <3> QED BY <1>4, <2>1, <3>1, FramesKept DEF GraceOver, frameVars
  <2>3. CASE ~(nvmlInit /\ ~shutDone)
    <3>1. /\ UNCHANGED <<shutDone, shutter, shuts, nvml, nvmlInit>>
          /\ caller' = "stopped"
      BY <1>4, <2>3 DEF GraceOver
    <3> QED BY <1>4, <2>1, <3>1, FramesKept DEF GraceOver, frameVars
  <2> QED BY <2>2, <2>3
<1>5. CASE StopReturns
  BY <1>5, FramesKept DEF StopReturns, frameVars
<1>6. CASE StopSync
  <2>1. /\ ShutOnce' /\ shuts' \in 0..1 /\ shutDone' \in BOOLEAN
        /\ nvml' \in {"off", "on", "shut"}
    BY <1>6, ShutNvmlKeeps DEF StopSync
  <2> QED BY <1>6, <2>1, FramesKept DEF StopSync, frameVars
<1>7. CASE NvmlShutdown
  <2>1. shuts' = 1 /\ shutDone' /\ shutter' # "waiting"
    BY <1>7 DEF NvmlShutdown
  <2> QED BY <1>7, <2>1, FramesKept DEF NvmlShutdown, frameVars
<1>8. CASE NextSnapshot
  <2>1. /\ queue' \in Seq(1..MaxFrames) /\ Len(queue') = Len(queue) - 1
        /\ taken' \in 1..MaxFrames /\ FreshestSurvives'
    BY <1>8, TakeKeeps DEF NextSnapshot
  <2> QED BY <1>8, <2>1 DEF NextSnapshot, Take, CollectorAssumption
<1> QED BY <1>1, <1>2, <1>3, <1>4, <1>5, <1>6, <1>7, <1>8

(* Every step of the owner, the loop and the two tasks keeps it.           *)
LEMMA StepKeepsInv ==
  ASSUME CollectorAssumption, Inv, [CollectorNext]_collectorVars
  PROVE  Inv'
<1>1. CASE UNCHANGED collectorVars
  <2>1. FreshestSurvives'
    BY <1>1, FramesKept DEF Inv, CollectorInv, collectorVars
  <2> QED BY <1>1, <2>1 DEF Inv, CollectorInv, CollectorTypeOK, EndedOnlyIfGone,
            TasksInOrder, ShutOnce, OffBefore, collectorVars, taskVars, nvmlVars,
            frameVars, lifeVars
<1>2. CASE CollectorNext
  BY <1>2, StartKeepsInv, RunKeepsInv, LiveKeepsInv, StopKeepsInv
  DEF CollectorNext, CollectorStep, OwnerStep, NvmlStep
<1> QED BY <1>1, <1>2

-----------------------------------------------------------------------------
(* The invariant of every execution: types, and the state the tasks and    *)
(* stop() rely on at their awaits.                                         *)
THEOREM InvCorrect == CollectorSpec => []Inv
<1>1. CollectorInit => Inv
  BY InitInv, CollectorAssumption
<1>2. Inv /\ [CollectorNext]_collectorVars => Inv'
  BY StepKeepsInv, CollectorAssumption
<1> QED BY <1>1, <1>2, PTL DEF CollectorSpec

(* Every variable keeps its type; in particular the queue its bound, and   *)
(* NVML is shut down at most once.                                         *)
THEOREM TypeCorrect == CollectorSpec => []CollectorTypeOK
<1>1. Inv => CollectorTypeOK
  BY DEF Inv
<1> QED BY <1>1, InvCorrect, PTL

(* The queue loses a frame only to newer ones, in order (_enqueue).        *)
THEOREM NewestFrameSurvives == CollectorSpec => []FreshestSurvives
<1>1. Inv => FreshestSurvives
  BY DEF Inv, CollectorInv
<1> QED BY <1>1, InvCorrect, PTL

(* An unknown answer never ends the session (_liveness_loop).              *)
THEOREM NeverEndedEarly == CollectorSpec => []EndedOnlyIfGone
<1>1. Inv => EndedOnlyIfGone
  BY DEF Inv, CollectorInv
<1> QED BY <1>1, InvCorrect, PTL

(* One collection at a time, and no task outlives its join (stop).         *)
THEOREM TasksNeverOverlap == CollectorSpec => []TasksInOrder
<1>1. Inv => TasksInOrder
  BY DEF Inv, CollectorInv
<1> QED BY <1>1, InvCorrect, PTL

(* Nothing reaches the owner after stop() has returned.                    *)
THEOREM QuietOnceStopped == CollectorSpec => StoppedIsQuiet
<1>1. Inv /\ [CollectorNext]_collectorVars
        => [caller = "stopped" => UNCHANGED <<made, jobEnded>>]_collectorVars
  <2> SUFFICES ASSUME Inv, CollectorNext, caller = "stopped"
               PROVE  UNCHANGED <<made, jobEnded>>
    OBVIOUS
  <2>1. runPc = "done" /\ livePc = "done"
    BY DEF Inv, CollectorInv, TasksInOrder
  <2>2. ~Collected /\ ~Checked
    BY <2>1 DEF Collected, Checked
  <2> QED
    BY <2>1, <2>2
    DEF CollectorNext, CollectorStep, RunStep, LiveStep, OwnerStep, SampleStep, NvmlStep,
        LivenessAnswer, Start, StartReturns, StartCancelled, NvmlAbsent, NvmlUp,
        NvmlEnumerated, Primed, CollectOrLeave, RunCancelled, PrimeDone, EnterNvml,
        CollectionEnds, CheckOrLeave, LiveCancelled, SqueueAnswers, AnswerDropped,
        JobLeaves, Stop, LiveJoined, RunJoined, GraceOver, StopReturns, StopSync,
        NvmlShutdown, NextSnapshot, Take, frameVars, lifeVars
<1> QED BY <1>1, InvCorrect, PTL DEF CollectorSpec, StoppedIsQuiet

(* The session runs in order to an end that is one.                        *)
THEOREM SessionRunsInOrder == CollectorSpec => []SessionInOrder
<1>1. Inv => SessionInOrder
  BY DEF Inv, CollectorInv, SessionInOrder
<1> QED BY <1>1, InvCorrect, PTL

-----------------------------------------------------------------------------
(* The headless loop. *)

(* The loop runs between the return of start() and the call of stop().     *)
LoopOwns == hpc \in {"wait", "gone", "race", "grace"} => caller = "up"

(* Only the owner takes frames and moves the caller on: the collector's    *)
(* own steps leave both alone while the loop runs.                         *)
LEMMA CollectorStepKeeps ==
  ASSUME CollectorStep
  PROVE  /\ taken' = taken /\ (jobGone => jobGone')
         /\ caller = "up" => caller' = "up"
BY DEF CollectorStep, RunStep, LiveStep, OwnerStep, SampleStep, NvmlStep,
       LivenessAnswer, StartReturns, CreateTasks, NvmlAbsent, NvmlUp, NvmlEnumerated,
       Primed, CollectOrLeave, Collected, RunCancelled, PrimeDone, EnterNvml,
       CollectionEnds, CheckOrLeave, Checked, LiveCancelled, SqueueAnswers,
       AnswerDropped, JobLeaves, LiveJoined, RunJoined, GraceOver, StopReturns,
       NvmlShutdown, frameVars, lifeVars, taskVars

(* What the head of the loop does: it waits for a frame, or asks whether   *)
(* the job has left, with the collector untouched; or it leaves.           *)
LEMMA GoOnMoves ==
  ASSUME GoOn
  PROVE  \/ /\ hpc' \in {"wait", "gone"} /\ why' = why /\ UNCHANGED collectorVars
            /\ query' \in {query, "asked"}
         \/ /\ hpc' = "stop" /\ why' \in {"job", "signal"} /\ Stop /\ query' = query
            /\ why' = "job" => jobEnded
BY DEF GoOn, Again, Leave

(* A vanished job is asked about before the run stops for it.              *)
LEMMA JobOverMoves ==
  ASSUME JobOver
  PROVE  \/ hpc' = "wait" /\ why' = why /\ UNCHANGED collectorVars
         \/ /\ hpc' = "stop" /\ why' \in {"job", "signal"} /\ Stop
            /\ why' = "job" => query = "gone"
BY DEF JobOver, Again, Leave

(* The log is opened once, before the first frame.                         *)
LEMMA OpenLogMoves ==
  ASSUME NEW ok \in BOOLEAN, OpenLog(ok)
  PROVE  /\ hpc = "start" /\ caller = "up"
         /\ \/ hpc' = "wait" /\ why' = why /\ UNCHANGED collectorVars
            \/ hpc' = "stop" /\ why' \in {"error", "signal"} /\ Stop
BY DEF OpenLog, Again, Leave

-----------------------------------------------------------------------------
(* Every step of the run is a step of the collector's specification, or    *)
(* leaves the collector alone.                                             *)
LEMMA StepOwns ==
  ASSUME LoopOwns, Next
  PROVE  [CollectorNext]_collectorVars /\ LoopOwns'
<1> USE DEF LoopOwns
<1>1. CASE Begin
  BY <1>1 DEF Begin, CollectorNext
<1>2. ASSUME NEW ok \in BOOLEAN, OpenLog(ok)
      PROVE  [CollectorNext]_collectorVars /\ LoopOwns'
  BY <1>2, OpenLogMoves DEF CollectorNext, collectorVars, taskVars
<1>3. CASE Frame
  BY <1>3 DEF Frame, Take, taskVars, NextSnapshot, CollectorNext
<1>4. CASE NoFrame
  BY <1>4, GoOnMoves DEF NoFrame, CollectorNext, collectorVars, taskVars
<1>5. CASE JobOver
  <2>1. hpc = "gone"
    BY <1>5 DEF JobOver
  <2> QED BY <1>5, <2>1, JobOverMoves DEF CollectorNext, collectorVars, taskVars
<1>6. CASE Written
  <2>1. CASE GoOn
    BY <1>6, <2>1, GoOnMoves DEF Written, CollectorNext, collectorVars, taskVars
  <2>2. CASE Leave("error")
    BY <2>2 DEF Leave, CollectorNext
  <2> QED BY <1>6, <2>1, <2>2 DEF Written
<1>7. CASE ShutdownInWrite \/ Stuck \/ Stopped \/ Finalize
  BY <1>7 DEF ShutdownInWrite, Stuck, Stopped, Finalize, collectorVars, taskVars
<1>8. CASE Background
  BY <1>8, CollectorStepKeeps DEF Background, headVars, CollectorNext
<1>9. ASSUME NEW ok \in BOOLEAN, WriteEnds(ok)
      PROVE  [CollectorNext]_collectorVars /\ LoopOwns'
  BY <1>9 DEF WriteEnds, collectorVars, taskVars
<1>10. ASSUME NEW definite \in BOOLEAN, QueryAnswers(definite)
       PROVE  [CollectorNext]_collectorVars /\ LoopOwns'
  BY <1>10 DEF QueryAnswers, collectorVars, taskVars
<1>11. ASSUME NEW s \in Signals, Signal(s)
       PROVE  [CollectorNext]_collectorVars /\ LoopOwns'
  BY <1>11 DEF Signal, collectorVars, taskVars
<1> QED BY <1>1, <1>2, <1>3, <1>4, <1>5, <1>6, <1>7, <1>8, <1>9, <1>10, <1>11
        DEF Next, MainStep

(* The run implements the collector's specification: it starts it once,    *)
(* takes frames only until it stops it, and stops it once.                 *)
THEOREM RunOwnsCollector == Spec => OwnsCollector
<1>1. Init => CollectorInit /\ LoopOwns
  BY DEF Init, LoopOwns
<1>2. LoopOwns /\ [Next]_vars => LoopOwns' /\ [CollectorNext]_collectorVars
  <2>1. CASE UNCHANGED vars
    BY <2>1 DEF vars, headVars, collectorVars, taskVars, LoopOwns
  <2>2. CASE Next
    BY <2>2, StepOwns
  <2> QED BY <2>1, <2>2
<1> QED BY <1>1, <1>2, PTL DEF Spec, OwnsCollector, CollectorSpec

-----------------------------------------------------------------------------
(* The frame in hand: nothing is taken before the last one is written, and *)
(* the loop goes on, or ends without an error, only with it written.       *)
WriteInHand ==
    /\ written \in Nat /\ taken \in Nat
    /\ why \in {"none", "job", "signal", "error", "stuck"}
    /\ why = "none" <=> hpc \in {"begin", "start", "wait", "gone", "race", "grace"}
    /\ hpc \in {"race", "grace"} => writer # "idle"
    /\ hpc \notin {"race", "grace"} /\ writer # "idle" => why = "stuck"
    /\ writer = "ok" => written = taken
    /\ writer \in {"busy", "failed"} => written < taken
    /\ writer = "idle" /\ why # "error" => written = taken
    /\ writer \in {"idle", "busy", "ok", "failed"}

(* What the run has been told of the job.                                  *)
ToldOfEnd ==
    /\ query = "gone" => jobGone
    /\ why = "job" => jobGone

HeadInv == WriteInHand /\ ToldOfEnd

(* The steps of the loop that end where they leave the log as it is.       *)
LEMMA SettledKeeps ==
  ASSUME HeadInv, jobEnded => jobGone, why = "none", written = taken,
         UNCHANGED <<written, taken, jobGone>>, writer' = "idle",
         \/ hpc' \in {"wait", "gone"} /\ why' = "none"
         \/ hpc' = "stop" /\ why' \in {"job", "signal"},
         why' = "job" => jobEnded \/ query = "gone",
         query' = "gone" => query = "gone"
  PROVE  HeadInv'
BY DEF HeadInv, WriteInHand, ToldOfEnd

(* Every step of the run keeps the frame in hand and what was said.        *)
LEMMA HeadStep ==
  ASSUME Inv, HeadInv, Next
  PROVE  HeadInv'
<1>1. CASE Begin
  BY <1>1 DEF Begin, Start, frameVars, lifeVars, HeadInv, WriteInHand, ToldOfEnd
<1>2. ASSUME NEW ok \in BOOLEAN, OpenLog(ok) PROVE HeadInv'
  <2>1. UNCHANGED <<taken, jobGone, query, writer, written>> /\ hpc = "start"
    BY <1>2, OpenLogMoves DEF OpenLog, Stop, collectorVars, frameVars, lifeVars
  <2>2. writer = "idle" /\ why = "none"
    BY <2>1 DEF HeadInv, WriteInHand
  <2> QED BY <1>2, <2>1, <2>2, OpenLogMoves DEF HeadInv, WriteInHand, ToldOfEnd
<1>3. CASE Frame
  <2>1. taken' \in Nat /\ taken' > taken
    BY <1>3, TakeKeeps DEF Frame, Inv, CollectorInv
  <2>2. writer = "idle" /\ why = "none" /\ written = taken
    BY <1>3 DEF Frame, HeadInv, WriteInHand
  <2> QED BY <1>3, <2>1, <2>2
          DEF Frame, Take, lifeVars, HeadInv, WriteInHand, ToldOfEnd
<1>4. CASE NoFrame
  <2>1. UNCHANGED <<taken, jobGone>>
    BY <1>4, GoOnMoves DEF NoFrame, Stop, collectorVars, frameVars, lifeVars
  <2>2. writer = "idle" /\ why = "none" /\ written = taken /\ UNCHANGED <<written, writer>>
    BY <1>4 DEF NoFrame, HeadInv, WriteInHand
  <2> QED BY <1>4, <2>1, <2>2, GoOnMoves, SettledKeeps
          DEF NoFrame, Inv, CollectorInv, EndedOnlyIfGone
<1>5. CASE JobOver
  <2>1. UNCHANGED <<taken, jobGone>> /\ query' = "idle" /\ hpc = "gone"
    BY <1>5, JobOverMoves DEF JobOver, Stop, collectorVars, frameVars, lifeVars
  <2>2. writer = "idle" /\ why = "none" /\ written = taken /\ UNCHANGED <<written, writer>>
    BY <1>5 DEF JobOver, HeadInv, WriteInHand
  <2> QED BY <1>5, <2>1, <2>2, JobOverMoves, SettledKeeps
          DEF Inv, CollectorInv, EndedOnlyIfGone
<1>6. CASE Written
  <2>1. CASE writer = "ok" /\ GoOn
    <3>1. UNCHANGED <<taken, jobGone>>
      BY <2>1, GoOnMoves DEF Stop, collectorVars, frameVars, lifeVars
    <3>2. why = "none" /\ written = taken /\ written' = written /\ writer' = "idle"
      BY <1>6, <2>1 DEF Written, HeadInv, WriteInHand
    <3> QED BY <2>1, <3>1, <3>2, GoOnMoves, SettledKeeps
            DEF Inv, CollectorInv, EndedOnlyIfGone
  <2>2. CASE Leave("error") /\ UNCHANGED query
    BY <1>6, <2>2
    DEF Written, Leave, Stop, frameVars, lifeVars, HeadInv, WriteInHand, ToldOfEnd
  <2> QED BY <1>6, <2>1, <2>2 DEF Written
<1>7. CASE ShutdownInWrite \/ Stuck
  BY <1>7 DEF ShutdownInWrite, Stuck, collectorVars, frameVars, lifeVars,
              HeadInv, WriteInHand, ToldOfEnd
<1>8. CASE Stopped \/ Finalize
  BY <1>8 DEF Stopped, Finalize, collectorVars, frameVars, lifeVars,
              HeadInv, WriteInHand, ToldOfEnd
<1>9. CASE Background
  BY <1>9, CollectorStepKeeps DEF Background, headVars, HeadInv, WriteInHand, ToldOfEnd
<1>10. ASSUME NEW ok \in BOOLEAN, WriteEnds(ok) PROVE HeadInv'
  BY <1>10 DEF WriteEnds, collectorVars, frameVars, lifeVars,
               HeadInv, WriteInHand, ToldOfEnd
<1>11. ASSUME NEW definite \in BOOLEAN, QueryAnswers(definite) PROVE HeadInv'
  BY <1>11 DEF QueryAnswers, collectorVars, frameVars, lifeVars,
               HeadInv, WriteInHand, ToldOfEnd
<1>12. ASSUME NEW s \in Signals, Signal(s) PROVE HeadInv'
  BY <1>12 DEF Signal, collectorVars, frameVars, lifeVars,
               HeadInv, WriteInHand, ToldOfEnd
<1> QED BY <1>1, <1>2, <1>3, <1>4, <1>5, <1>6, <1>7, <1>8, <1>9, <1>10, <1>11, <1>12
        DEF Next, MainStep

(* The two invariants of every run, its own and its collector's.           *)
THEOREM RunInvCorrect == Spec => [](Inv /\ HeadInv)
<1>1. Spec => []Inv
  BY RunOwnsCollector, InvCorrect, PTL DEF OwnsCollector
<1>2. Init => HeadInv
  BY DEF Init, CollectorInit, HeadInv, WriteInHand, ToldOfEnd
<1>3. Inv /\ HeadInv /\ [Next]_vars => HeadInv'
  <2>1. CASE UNCHANGED vars
    BY <2>1 DEF vars, headVars, collectorVars, frameVars, lifeVars,
                HeadInv, WriteInHand, ToldOfEnd
  <2>2. CASE Next
    BY <2>2, HeadStep
  <2> QED BY <2>1, <2>2
<1> QED BY <1>1, <1>2, <1>3, PTL DEF Spec

(* "job ended" is said only of a job that has left squeue, whichever of    *)
(* the two checks noticed it (_headless_loop).                             *)
THEOREM EndNoteTrue == Spec => []EndNoteIsTrue
<1>1. HeadInv => EndNoteIsTrue
  BY DEF HeadInv, ToldOfEnd, EndNoteIsTrue
<1> QED BY <1>1, RunInvCorrect, PTL

(* A run that ends on a signal or with its job has written every frame it  *)
(* took, and closes the file only when no write is under way (_write).     *)
THEOREM NothingLost == Spec => []TakenIsWritten
<1>1. HeadInv => TakenIsWritten
  <2> SUFFICES ASSUME HeadInv PROVE TakenIsWritten
    OBVIOUS
  <2>1. why \in {"job", "signal"} => hpc \notin {"race", "grace"} /\ writer = "idle"
    BY DEF HeadInv, WriteInHand
  <2>2. writer = "busy" => why \in {"none", "stuck"}
    BY DEF HeadInv, WriteInHand
  <2> QED BY <2>1, <2>2 DEF HeadInv, WriteInHand, TakenIsWritten
<1> QED BY <1>1, RunInvCorrect, PTL

(* Frames are logged in the order of collection, none twice.               *)
THEOREM LogKeepsOrder == Spec => LogInOrder
<1>1. HeadInv /\ [Next]_vars => [writer = "busy" /\ writer' = "ok" => written' > written]_vars
  <2> SUFFICES ASSUME HeadInv, Next, writer = "busy", writer' = "ok"
               PROVE  written' > written
    OBVIOUS
  <2>1. ~Begin /\ ~Background /\ ~MainStep
    BY DEF Begin, Background, headVars, MainStep, OpenLog, Frame, NoFrame, JobOver,
           Written, ShutdownInWrite, Stuck, Stopped, Finalize
  <2>2. (\A definite \in BOOLEAN : ~QueryAnswers(definite)) /\ (\A s \in Signals : ~Signal(s))
    BY DEF QueryAnswers, Signal
  <2>3. PICK ok \in BOOLEAN : WriteEnds(ok)
    BY <2>1, <2>2 DEF Next
  <2>4. written' = taken
    BY <2>3 DEF WriteEnds
  <2> QED BY <2>4 DEF HeadInv, WriteInHand
<1> QED BY <1>1, RunInvCorrect, PTL DEF Spec, LogInOrder

(* What the log says of the run is true.                                   *)
THEOREM LogTrue == Spec => LogIsTrue
BY EndNoteTrue, NothingLost, LogKeepsOrder DEF LogIsTrue

=============================================================================
