--------------------------- MODULE NodeSwitchProofs ---------------------------
(* Proofs about NodeSwitch: its type invariant, the inductive invariant and *)
(* the safety properties it implies, and the refinement of NodeView.        *)
EXTENDS NodeSwitch, TLAPS

-----------------------------------------------------------------------------
(* The steps that several actions share keep the types.                     *)

(* _stop_stream leaves the stream's variables and its counters well typed.  *)
LEMMA StopStreamTypes ==
    ASSUME TypeOK, StopStream
    PROVE  /\ streamProc' \in Nodes \cup {NULL}
           /\ streamNode' \in Nodes \cup {NULL}
           /\ running' \in [Nodes -> Nat]
           /\ parseFails' \in 0..MaxParseFails
           /\ silent' \in 0..NotSilent
  BY ConstAssumption DEF TypeOK, StreamTypes, RetryTypes, StopStream, NotSilent

(* _show keeps the screen well typed, whichever node the frame is of.       *)
LEMMA ShowTypes ==
    ASSUME TypeOK, NEW origin \in Nodes \cup {Local}, NEW n \in Nodes, Show(origin, n),
           UNCHANGED lifeVars
    PROVE  ScreenTypes'
<1> USE DEF TypeOK, ScreenTypes, Show
<1>1. /\ cache' \in [Nodes -> Nodes \cup {Local, NULL}]
      /\ view' \in Nodes \cup {Local, NULL}
  BY DEF viewVars
<1>2. CASE UNCHANGED switchVars
  BY <1>1, <1>2 DEF switchVars, lifeVars
<1>3. CASE EndSwitch
  <2>1. waited' \in 0..StuckS + 1
    BY <1>3, ConstAssumption DEF EndSwitch
  <2>2. QED
    BY <1>1, <1>3, <2>1 DEF EndSwitch, lifeVars
<1>4. QED
  BY <1>2, <1>3

(* Every variable keeps its type, in particular the saturating counters     *)
(* stay within their bounds and no child count goes negative.               *)
THEOREM TypeCorrect == Spec => []TypeOK
<1>1. Init => TypeOK
  <2> SUFFICES ASSUME Init PROVE TypeOK
    OBVIOUS
  <2> USE DEF Init
  <2>1. StreamTypes
    BY ConstAssumption DEF Unmounted, StreamTypes
  <2>2. RetryTypes
    <3>1. fails \in 0..FailCap /\ parseFails \in 0..MaxParseFails
      BY ConstAssumption DEF Unmounted
    <3>2. silent \in 0..NotSilent
      BY ConstAssumption DEF Unmounted, NotSilent
    <3>3. QED
      BY <3>1, <3>2 DEF Unmounted, RetryTypes
  <2>3. ScreenTypes
    <3>1. waited \in 0..StuckS + 1 /\ switches \in 0..MaxSwitches
      BY ConstAssumption DEF Unmounted
    <3>2. QED
      BY <3>1 DEF Unmounted, OnMount, ScreenTypes
  <2>4. QED
    BY <2>1, <2>2, <2>3 DEF TypeOK
<1>2. TypeOK /\ [Next]_vars => TypeOK'
  <2> SUFFICES ASSUME TypeOK, [Next]_vars PROVE TypeOK'
    OBVIOUS
  <2> USE DEF TypeOK, StreamTypes, RetryTypes, pollVars, streamVars, rungVars,
              retryVars, switchVars, viewVars, lifeVars
  <2>1. ASSUME NEW n \in Nodes, SetNode(n) PROVE TypeOK'
    <3>1. StreamTypes' /\ RetryTypes'
      <4>1. fails' \in 0..FailCap /\ parseFails' \in 0..MaxParseFails
        BY <2>1, ConstAssumption DEF SetNode
      <4>2. QED
        BY <2>1, <4>1 DEF SetNode
    <3>2. ScreenTypes'
      <4>1. waited' \in 0..StuckS + 1
        BY <2>1, ConstAssumption DEF SetNode, BeginSwitch
      <4>2. switches' \in 0..MaxSwitches
        BY <2>1, ConstAssumption DEF SetNode, ScreenTypes
      <4>3. banner' \in [display: BOOLEAN, stuck: BOOLEAN, ended: BOOLEAN,
                         reason: Reason \cup {NULL}]
        BY <2>1 DEF SetNode, BeginSwitch, ScreenTypes
      <4>4. QED
        BY <2>1, <4>1, <4>2, <4>3 DEF SetNode, BeginSwitch, ScreenTypes
    <3>3. QED
      BY <3>1, <3>2
  <2>2. CASE Quit
    BY <2>2 DEF Quit, ScreenTypes
  <2>3. CASE FinishUnmount
    BY <2>3, StopStreamTypes DEF FinishUnmount, ScreenTypes
  <2>4. CASE PollJobEnded
    <3>1. waited' \in 0..StuckS + 1
      BY <2>4, ConstAssumption DEF PollJobEnded
    <3>2. QED
      BY <2>4, <3>1 DEF PollJobEnded, ScreenTypes
  <2>5. CASE PollTop
    BY <2>5, StopStreamTypes DEF PollTop, ScreenTypes
  <2>6. CASE PollResume
    BY <2>6 DEF PollResume, ScreenTypes
  <2>7. CASE Reaped
    BY <2>7, ConstAssumption DEF Reaped, EnterBackoff, ScreenTypes
  <2>8. CASE LocalFrame
    BY <2>8, ShowTypes DEF LocalFrame
  <2>9. CASE LocalTimeout \/ PacedDone
    BY <2>9 DEF LocalTimeout, PacedDone, ScreenTypes
  <2>10. ASSUME NEW gpu \in BOOLEAN, LaunchOk(gpu) PROVE TypeOK'
    BY <2>10 DEF LaunchOk, RungFor, ScreenTypes
  <2>11. CASE LaunchFails
    BY <2>11, ConstAssumption DEF LaunchFails, EnterBackoff, ScreenTypes
  <2>12. CASE ReadFrame
    <3>1. StreamTypes'
      BY <2>12 DEF ReadFrame
    <3>2. RetryTypes'
      BY <2>12, ConstAssumption DEF ReadFrame, NotSilent
    <3>3. ScreenTypes'
      <4>1. CASE selected = node
        BY <2>12, <4>1, ShowTypes DEF ReadFrame, Alive
      <4>2. CASE selected # node
        BY <2>12, <4>2 DEF ReadFrame, ScreenTypes
      <4>3. QED
        BY <4>1, <4>2
    <3>4. QED
      BY <3>1, <3>2, <3>3
  <2>13. CASE ReadGarbage
    BY <2>13, StopStreamTypes, ConstAssumption DEF ReadGarbage, Retire, ScreenTypes
  <2>14. CASE ReadQuiet
    BY <2>14, StopStreamTypes, ConstAssumption
    DEF ReadQuiet, Retire, ScreenTypes, Reason, NotSilent
  <2>15. CASE ReadEof
    BY <2>15 DEF ReadEof, ScreenTypes
  <2>16. ASSUME NEW text \in ErrTexts, ReadStderr(text) PROVE TypeOK'
    <3>1. text \in Text \cup {"stalled"}
      BY ConstAssumption
    <3>2. err' \in Reason \cup {NULL}
      BY <2>16, <3>1 DEF ReadStderr, Reason
    <3>3. /\ transport' \in [Nodes -> {"none", "ssh", "step"}]
          /\ sshBlocked' \in SUBSET Nodes
          /\ gaveUp' \in BOOLEAN
      BY <2>16 DEF ReadStderr
    <3>4. StreamTypes' /\ RetryTypes'
      BY <2>16, <3>2, <3>3, StopStreamTypes DEF ReadStderr, Retire
    <3>5. ScreenTypes'
      BY <2>16 DEF ReadStderr, ScreenTypes
    <3>6. QED
      BY <3>4, <3>5
  <2>17. CASE BackoffDone \/ PollCancelled
    BY <2>17 DEF BackoffDone, PollCancelled, ScreenTypes
  <2>18. CASE TickSwitch
    <3>1. dimmed' \in BOOLEAN /\ spinner' \in BOOLEAN
      BY <2>18 DEF TickSwitch, ScreenTypes
    <3>2. banner' \in [display: BOOLEAN, stuck: BOOLEAN, ended: BOOLEAN,
                       reason: Reason \cup {NULL}]
      BY <2>18 DEF TickSwitch, ScreenTypes
    <3>3. StreamTypes' /\ RetryTypes'
      BY <2>18 DEF TickSwitch
    <3>4. QED
      BY <2>18, <3>1, <3>2, <3>3 DEF TickSwitch, ScreenTypes
  <2>19. CASE ClockTick
    BY <2>19, ConstAssumption DEF ClockTick, ScreenTypes, NotSilent
  <2>20. ASSUME NEW n \in Nodes, StreamDies(n) PROVE TypeOK'
    BY <2>20 DEF StreamDies, ScreenTypes
  <2>21. CASE JobLeaves
    BY <2>21 DEF JobLeaves, ScreenTypes
  <2>22. CASE UNCHANGED vars
    BY <2>22 DEF vars, ScreenTypes
  <2>23. QED
    BY <2>1, <2>2, <2>3, <2>4, <2>5, <2>6, <2>7, <2>8, <2>9, <2>10, <2>11, <2>12,
       <2>13, <2>14, <2>15, <2>16, <2>17, <2>18, <2>19, <2>20, <2>21, <2>22
       DEF Next, PollStep
<1>3. QED
  BY <1>1, <1>2, PTL DEF Spec

-----------------------------------------------------------------------------
(* The safety properties are inductive together with the facts each await   *)
(* of the poll task relies on.  Three groups: who holds the child, what is  *)
(* known of its failures, and what is on screen.                            *)

StreamInv == HandleAtAwait /\ NoOrphanStream
RetryInv == FailureAtAwait /\ GiveUpAfterLastRung /\ RelaunchIsPaced
ScreenInv == FrameAtAwait /\ FramesKeepTheirNode /\ ScreenMatchesSelection
                /\ DimmedOnlyWhileWatched

(* _stop_stream kills the only child there can be.                          *)
LEMMA StopStreamKills ==
    ASSUME TypeOK, StreamInv, StopStream
    PROVE  \A n \in Nodes : running'[n] = 0
<1> SUFFICES ASSUME NEW n \in Nodes PROVE running'[n] = 0
  OBVIOUS
<1> USE ConstAssumption DEF TypeOK, StreamTypes, StreamInv, NoOrphanStream, StopStream
<1>1. CASE streamProc = NULL \/ running[streamProc] = 0
  BY <1>1
<1>2. CASE streamProc # NULL /\ running[streamProc] # 0
  BY <1>2
<1>3. QED
  BY <1>1, <1>2

(* Every step keeps the inductive invariant.                                *)
LEMMA IndInvStep ==
    ASSUME TypeOK, IndInv, [Next]_vars
    PROVE  IndInv'
<1> USE ConstAssumption
    DEF pollVars, streamVars, rungVars, retryVars, switchVars, viewVars, lifeVars,
        TypeOK, StreamTypes, At, StreamInv, HandleAtAwait
<1> DEFINE Kept == StreamInv' /\ RetryInv' /\ ScreenInv'
<1>a. StreamInv /\ RetryInv /\ ScreenInv
  BY DEF IndInv, RetryInv, ScreenInv
<1>1. ASSUME NEW n \in Nodes, SetNode(n) PROVE Kept
  <2>1. StreamInv'
    BY <1>a, <1>1 DEF NoOrphanStream, SetNode, BeginSwitch
  <2>2. RetryInv'
    BY <1>a, <1>1 DEF RetryInv, FailureAtAwait, GiveUpAfterLastRung,
       RelaunchIsPaced, OtherRungUntried, SetNode, BeginSwitch
  <2>3. ScreenInv'
    BY <1>a, <1>1 DEF RetryInv, FailureAtAwait, ScreenInv, FrameAtAwait,
       FramesKeepTheirNode, ScreenMatchesSelection, DimmedOnlyWhileWatched,
       ScreenTypes, SetNode, BeginSwitch
  <2>4. QED
    BY <2>1, <2>2, <2>3
<1>2. ASSUME Quit PROVE Kept
  <2>1. StreamInv'
    BY <1>a, <1>2 DEF NoOrphanStream, Quit
  <2>2. RetryInv'
    BY <1>a, <1>2 DEF RetryInv, FailureAtAwait, GiveUpAfterLastRung,
       RelaunchIsPaced, OtherRungUntried, Quit
  <2>3. ScreenInv'
    BY <1>a, <1>2 DEF RetryInv, FailureAtAwait, ScreenInv, FrameAtAwait,
       FramesKeepTheirNode, ScreenMatchesSelection, DimmedOnlyWhileWatched,
       ScreenTypes, Quit
  <2>4. QED
    BY <2>1, <2>2, <2>3
<1>3. ASSUME FinishUnmount PROVE Kept
  <2>1. StreamInv'
    BY <1>a, <1>3, StopStreamKills DEF NoOrphanStream, FinishUnmount, StopStream
  <2>2. RetryInv'
    BY <1>a, <1>3 DEF RetryInv, FailureAtAwait, GiveUpAfterLastRung,
       RelaunchIsPaced, OtherRungUntried, FinishUnmount, StopStream
  <2>3. ScreenInv'
    BY <1>a, <1>3 DEF RetryInv, FailureAtAwait, ScreenInv, FrameAtAwait,
       FramesKeepTheirNode, ScreenMatchesSelection, DimmedOnlyWhileWatched,
       ScreenTypes, FinishUnmount, StopStream
  <2>4. QED
    BY <2>1, <2>2, <2>3
<1>4. ASSUME PollJobEnded PROVE Kept
  <2>1. StreamInv'
    BY <1>a, <1>4 DEF NoOrphanStream, PollJobEnded
  <2>2. RetryInv'
    BY <1>a, <1>4 DEF RetryInv, FailureAtAwait, GiveUpAfterLastRung,
       RelaunchIsPaced, OtherRungUntried, PollJobEnded
  <2>3. ScreenInv'
    BY <1>a, <1>4 DEF RetryInv, FailureAtAwait, ScreenInv, FrameAtAwait,
       FramesKeepTheirNode, ScreenMatchesSelection, DimmedOnlyWhileWatched,
       ScreenTypes, PollJobEnded
  <2>4. QED
    BY <2>1, <2>2, <2>3
<1>5. ASSUME PollTop PROVE Kept
  <2>1. StreamInv'
    BY <1>a, <1>5, StopStreamKills DEF NoOrphanStream, PollTop, StopStream
  <2>2. RetryInv'
    BY <1>a, <1>5 DEF RetryInv, FailureAtAwait, GiveUpAfterLastRung,
       RelaunchIsPaced, OtherRungUntried, PollTop, StopStream
  <2>3. ScreenInv'
    BY <1>a, <1>5 DEF RetryInv, FailureAtAwait, ScreenInv, FrameAtAwait,
       FramesKeepTheirNode, ScreenMatchesSelection, DimmedOnlyWhileWatched,
       ScreenTypes, PollTop, StopStream
  <2>4. QED
    BY <2>1, <2>2, <2>3
<1>6. ASSUME PollResume PROVE Kept
  <2>1. StreamInv'
    BY <1>a, <1>6 DEF NoOrphanStream, PollResume
  <2>2. RetryInv'
    BY <1>a, <1>6 DEF RetryInv, FailureAtAwait, GiveUpAfterLastRung,
       RelaunchIsPaced, OtherRungUntried, PollResume
  <2>3. ScreenInv'
    BY <1>a, <1>6 DEF RetryInv, FailureAtAwait, ScreenInv, FrameAtAwait,
       FramesKeepTheirNode, ScreenMatchesSelection, DimmedOnlyWhileWatched,
       ScreenTypes, PollResume
  <2>4. QED
    BY <2>1, <2>2, <2>3
<1>7. ASSUME Reaped PROVE Kept
  <2>1. StreamInv'
    BY <1>a, <1>7 DEF NoOrphanStream, Reaped, EnterBackoff
  <2>2. RetryInv'
    BY <1>a, <1>7 DEF RetryInv, FailureAtAwait, GiveUpAfterLastRung,
       RelaunchIsPaced, OtherRungUntried, Reaped, EnterBackoff
  <2>3. ScreenInv'
    BY <1>a, <1>7 DEF RetryInv, FailureAtAwait, ScreenInv, FrameAtAwait,
       FramesKeepTheirNode, ScreenMatchesSelection, DimmedOnlyWhileWatched,
       ScreenTypes, Reaped, EnterBackoff
  <2>4. QED
    BY <2>1, <2>2, <2>3
<1>8. ASSUME LocalFrame PROVE Kept
  <2>1. StreamInv'
    BY <1>a, <1>8 DEF NoOrphanStream, LocalFrame
  <2>2. RetryInv'
    BY <1>a, <1>8 DEF RetryInv, FailureAtAwait, GiveUpAfterLastRung,
       RelaunchIsPaced, OtherRungUntried, LocalFrame
  <2>3. ScreenInv'
    BY <1>a, <1>8 DEF RetryInv, FailureAtAwait, ScreenInv, FrameAtAwait,
       FramesKeepTheirNode, ScreenMatchesSelection, DimmedOnlyWhileWatched,
       ScreenTypes, LocalFrame, Show, EndSwitch
  <2>4. QED
    BY <2>1, <2>2, <2>3
<1>9. ASSUME LocalTimeout \/ PacedDone PROVE Kept
  <2>1. StreamInv'
    BY <1>a, <1>9 DEF NoOrphanStream, LocalTimeout, PacedDone
  <2>2. RetryInv'
    BY <1>a, <1>9 DEF RetryInv, FailureAtAwait, GiveUpAfterLastRung,
       RelaunchIsPaced, OtherRungUntried, LocalTimeout, PacedDone
  <2>3. ScreenInv'
    BY <1>a, <1>9 DEF RetryInv, FailureAtAwait, ScreenInv, FrameAtAwait,
       FramesKeepTheirNode, ScreenMatchesSelection, DimmedOnlyWhileWatched,
       ScreenTypes, LocalTimeout, PacedDone
  <2>4. QED
    BY <2>1, <2>2, <2>3
<1>10. ASSUME NEW gpu \in BOOLEAN, LaunchOk(gpu) PROVE Kept
  <2>1. StreamInv'
    <3>1. \A n \in Nodes : running[n] = 0
      BY <1>a, <1>10 DEF LaunchOk, NoOrphanStream
    <3>2. \A n \in Nodes : running'[n] > 0 => running'[n] = 1 /\ n = node
      BY <1>10, <3>1 DEF LaunchOk
    <3>3. mounted' = "up" /\ pc' = "read" /\ streamProc' = node /\ streamNode' = node
      BY <1>10 DEF LaunchOk
    <3>4. QED
      BY <1>10, <3>2, <3>3 DEF LaunchOk, NoOrphanStream
  <2>2. RetryInv'
    BY <1>a, <1>10 DEF RetryInv, FailureAtAwait, GiveUpAfterLastRung,
       RelaunchIsPaced, OtherRungUntried, LaunchOk, RungFor
  <2>3. ScreenInv'
    BY <1>a, <1>10 DEF RetryInv, FailureAtAwait, ScreenInv, FrameAtAwait,
       FramesKeepTheirNode, ScreenMatchesSelection, DimmedOnlyWhileWatched,
       ScreenTypes, LaunchOk, RungFor
  <2>4. QED
    BY <2>1, <2>2, <2>3
<1>11. ASSUME LaunchFails PROVE Kept
  <2>1. StreamInv'
    BY <1>a, <1>11 DEF NoOrphanStream, LaunchFails, EnterBackoff
  <2>2. RetryInv'
    BY <1>a, <1>11 DEF RetryInv, FailureAtAwait, GiveUpAfterLastRung,
       RelaunchIsPaced, OtherRungUntried, LaunchFails, EnterBackoff
  <2>3. ScreenInv'
    BY <1>a, <1>11 DEF RetryInv, FailureAtAwait, ScreenInv, FrameAtAwait,
       FramesKeepTheirNode, ScreenMatchesSelection, DimmedOnlyWhileWatched,
       ScreenTypes, LaunchFails, EnterBackoff
  <2>4. QED
    BY <2>1, <2>2, <2>3
<1>12. ASSUME ReadFrame PROVE Kept
  <2>1. StreamInv'
    BY <1>a, <1>12 DEF NoOrphanStream, ReadFrame, Alive
  <2>2. RetryInv'
    BY <1>a, <1>12 DEF RetryInv, FailureAtAwait, GiveUpAfterLastRung,
       RelaunchIsPaced, OtherRungUntried, ReadFrame, Alive
  <2>3. ScreenInv'
    BY <1>a, <1>12 DEF RetryInv, FailureAtAwait, ScreenInv, FrameAtAwait,
       FramesKeepTheirNode, ScreenMatchesSelection, DimmedOnlyWhileWatched,
       ScreenTypes, ReadFrame, Alive, Show, EndSwitch
  <2>4. QED
    BY <2>1, <2>2, <2>3
<1>13. ASSUME ReadGarbage PROVE Kept
  <2>1. StreamInv'
    BY <1>a, <1>13, StopStreamKills DEF NoOrphanStream, ReadGarbage, Retire,
       StopStream
  <2>2. RetryInv'
    BY <1>a, <1>13 DEF RetryInv, FailureAtAwait, GiveUpAfterLastRung,
       RelaunchIsPaced, OtherRungUntried, ReadGarbage, Retire, StopStream
  <2>3. ScreenInv'
    BY <1>a, <1>13 DEF RetryInv, FailureAtAwait, ScreenInv, FrameAtAwait,
       FramesKeepTheirNode, ScreenMatchesSelection, DimmedOnlyWhileWatched,
       ScreenTypes, ReadGarbage, Retire, StopStream
  <2>4. QED
    BY <2>1, <2>2, <2>3
<1>14. ASSUME ReadQuiet PROVE Kept
  <2>1. StreamInv'
    BY <1>a, <1>14, StopStreamKills DEF NoOrphanStream, ReadQuiet, Retire,
       StopStream
  <2>2. RetryInv'
    BY <1>a, <1>14 DEF RetryInv, FailureAtAwait, GiveUpAfterLastRung,
       RelaunchIsPaced, OtherRungUntried, ReadQuiet, Retire, StopStream
  <2>3. ScreenInv'
    BY <1>a, <1>14 DEF RetryInv, FailureAtAwait, ScreenInv, FrameAtAwait,
       FramesKeepTheirNode, ScreenMatchesSelection, DimmedOnlyWhileWatched,
       ScreenTypes, ReadQuiet, Retire, StopStream
  <2>4. QED
    BY <2>1, <2>2, <2>3
<1>15. ASSUME ReadEof PROVE Kept
  <2>1. StreamInv'
    BY <1>a, <1>15 DEF NoOrphanStream, ReadEof
  <2>2. RetryInv'
    BY <1>a, <1>15 DEF RetryInv, FailureAtAwait, GiveUpAfterLastRung,
       RelaunchIsPaced, OtherRungUntried, ReadEof
  <2>3. ScreenInv'
    BY <1>a, <1>15 DEF RetryInv, FailureAtAwait, ScreenInv, FrameAtAwait,
       FramesKeepTheirNode, ScreenMatchesSelection, DimmedOnlyWhileWatched,
       ScreenTypes, ReadEof
  <2>4. QED
    BY <2>1, <2>2, <2>3
<1>16. ASSUME NEW text \in ErrTexts, ReadStderr(text) PROVE Kept
  <2>1. StreamInv'
    BY <1>a, <1>16, StopStreamKills DEF NoOrphanStream, ReadStderr, Retire,
       StopStream
  <2>2. RetryInv'
    <3>1. ~gaveUp /\ pc' = "reap" /\ then' = "backoff" /\ streamProc' = NULL
      BY <1>a, <1>16 DEF ReadStderr, Retire, StopStream, RetryInv, FailureAtAwait
    <3>2. jobEnded' = FALSE
      BY <1>a, <1>16 DEF ReadStderr, RetryInv, FailureAtAwait, ScreenTypes
    <3>3. \A n \in sshBlocked' : transport'[n] # "ssh"
      BY <1>a, <1>16 DEF ReadStderr, RetryInv, GiveUpAfterLastRung
    <3>4. gaveUp' => err' # NULL /\ ~OtherRungUntried(err.of)'
      <4>1. CASE gaveUp'
        <5>1. /\ ErrorIsPermanent(text, transport[node])
              /\ ~OtherRungUntried(node)
              /\ UNCHANGED rungVars
          BY <1>16, <3>1, <4>1 DEF ReadStderr
        <5>2. text # "none"
          BY <5>1 DEF ErrorIsPermanent
        <5>3. err' = [of |-> node, text |-> text]
          BY <1>16, <5>2 DEF ReadStderr
        <5>4. err' # NULL
          BY <1>16, <5>3, ConstAssumption DEF ReadStderr, Reason
        <5>5. QED
          BY <5>1, <5>3, <5>4 DEF OtherRungUntried
      <4>2. QED
        BY <4>1
    <3>5. QED
      BY <3>1, <3>2, <3>3, <3>4
      DEF RetryInv, FailureAtAwait, GiveUpAfterLastRung, RelaunchIsPaced
  <2>3. ScreenInv'
    BY <1>a, <1>16 DEF RetryInv, FailureAtAwait, ScreenInv, FrameAtAwait,
       FramesKeepTheirNode, ScreenMatchesSelection, DimmedOnlyWhileWatched,
       ScreenTypes, ReadStderr, Retire, StopStream
  <2>4. QED
    BY <2>1, <2>2, <2>3
<1>17. ASSUME BackoffDone \/ PollCancelled PROVE Kept
  <2>1. StreamInv'
    BY <1>a, <1>17 DEF NoOrphanStream, BackoffDone, PollCancelled
  <2>2. RetryInv'
    BY <1>a, <1>17 DEF RetryInv, FailureAtAwait, GiveUpAfterLastRung,
       RelaunchIsPaced, OtherRungUntried, BackoffDone, PollCancelled
  <2>3. ScreenInv'
    BY <1>a, <1>17 DEF RetryInv, FailureAtAwait, ScreenInv, FrameAtAwait,
       FramesKeepTheirNode, ScreenMatchesSelection, DimmedOnlyWhileWatched,
       ScreenTypes, BackoffDone, PollCancelled
  <2>4. QED
    BY <2>1, <2>2, <2>3
<1>18. ASSUME TickSwitch PROVE Kept
  <2>1. StreamInv'
    BY <1>a, <1>18 DEF NoOrphanStream, TickSwitch
  <2>2. RetryInv'
    BY <1>a, <1>18 DEF RetryInv, FailureAtAwait, GiveUpAfterLastRung,
       RelaunchIsPaced, OtherRungUntried, TickSwitch
  <2>3. ScreenInv'
    BY <1>a, <1>18 DEF RetryInv, FailureAtAwait, ScreenInv, FrameAtAwait,
       FramesKeepTheirNode, ScreenMatchesSelection, DimmedOnlyWhileWatched,
       ScreenTypes, TickSwitch
  <2>4. QED
    BY <2>1, <2>2, <2>3
<1>19. ASSUME ClockTick PROVE Kept
  <2>1. StreamInv'
    BY <1>a, <1>19 DEF NoOrphanStream, ClockTick
  <2>2. RetryInv'
    BY <1>a, <1>19 DEF RetryInv, FailureAtAwait, GiveUpAfterLastRung,
       RelaunchIsPaced, OtherRungUntried, ClockTick
  <2>3. ScreenInv'
    BY <1>a, <1>19 DEF RetryInv, FailureAtAwait, ScreenInv, FrameAtAwait,
       FramesKeepTheirNode, ScreenMatchesSelection, DimmedOnlyWhileWatched,
       ScreenTypes, ClockTick
  <2>4. QED
    BY <2>1, <2>2, <2>3
<1>20. ASSUME NEW n \in Nodes, StreamDies(n) PROVE Kept
  <2>1. StreamInv'
    BY <1>a, <1>20 DEF NoOrphanStream, StreamDies
  <2>2. RetryInv'
    BY <1>a, <1>20 DEF RetryInv, FailureAtAwait, GiveUpAfterLastRung,
       RelaunchIsPaced, OtherRungUntried, StreamDies
  <2>3. ScreenInv'
    BY <1>a, <1>20 DEF RetryInv, FailureAtAwait, ScreenInv, FrameAtAwait,
       FramesKeepTheirNode, ScreenMatchesSelection, DimmedOnlyWhileWatched,
       ScreenTypes, StreamDies
  <2>4. QED
    BY <2>1, <2>2, <2>3
<1>21. ASSUME JobLeaves PROVE Kept
  <2>1. StreamInv'
    BY <1>a, <1>21 DEF NoOrphanStream, JobLeaves
  <2>2. RetryInv'
    BY <1>a, <1>21 DEF RetryInv, FailureAtAwait, GiveUpAfterLastRung,
       RelaunchIsPaced, OtherRungUntried, JobLeaves
  <2>3. ScreenInv'
    BY <1>a, <1>21 DEF RetryInv, FailureAtAwait, ScreenInv, FrameAtAwait,
       FramesKeepTheirNode, ScreenMatchesSelection, DimmedOnlyWhileWatched,
       ScreenTypes, JobLeaves
  <2>4. QED
    BY <2>1, <2>2, <2>3
<1>22. ASSUME UNCHANGED vars PROVE Kept
  <2>1. StreamInv'
    BY <1>a, <1>22 DEF NoOrphanStream, vars
  <2>2. RetryInv'
    BY <1>a, <1>22 DEF RetryInv, FailureAtAwait, GiveUpAfterLastRung,
       RelaunchIsPaced, OtherRungUntried, vars
  <2>3. ScreenInv'
    BY <1>a, <1>22 DEF RetryInv, FailureAtAwait, ScreenInv, FrameAtAwait,
       FramesKeepTheirNode, ScreenMatchesSelection, DimmedOnlyWhileWatched,
       ScreenTypes, vars
  <2>4. QED
    BY <2>1, <2>2, <2>3
<1>b. Kept => IndInv'
  BY DEF RetryInv, ScreenInv, IndInv
<1>c. QED
  BY <1>b, <1>1, <1>2, <1>3, <1>4, <1>5, <1>6, <1>7, <1>8, <1>9, <1>10, <1>11,
     <1>12, <1>13, <1>14, <1>15, <1>16, <1>17, <1>18, <1>19, <1>20, <1>21, <1>22 DEF
     Next, PollStep

(* The inductive invariant holds in every reachable state.                  *)
THEOREM IndInvCorrect == Spec => []IndInv
<1>1. Init => IndInv
  <2> SUFFICES ASSUME Init PROVE IndInv
    OBVIOUS
  <2> USE DEF Init, Unmounted
  <2>1. HandleAtAwait /\ NoOrphanStream
    BY DEF HandleAtAwait, NoOrphanStream
  <2>2. FrameAtAwait /\ FramesKeepTheirNode /\ ScreenMatchesSelection
    BY DEF FrameAtAwait, FramesKeepTheirNode, ScreenMatchesSelection
  <2>3. DimmedOnlyWhileWatched
    BY ConstAssumption DEF OnMount, DimmedOnlyWhileWatched
  <2>4. FailureAtAwait /\ GiveUpAfterLastRung /\ RelaunchIsPaced
    BY DEF FailureAtAwait, GiveUpAfterLastRung, RelaunchIsPaced
  <2>5. QED
    BY <2>1, <2>2, <2>3, <2>4 DEF IndInv
<1>2. TypeOK /\ IndInv /\ [Next]_vars => IndInv'
  BY IndInvStep
<1>3. QED
  BY <1>1, <1>2, TypeCorrect, PTL DEF Spec

(* No stream child is ever lost: the one alive is the one _stop_stream will *)
(* kill, and none is left when the screen is gone.                          *)
THEOREM StreamNeverOrphaned == Spec => []NoOrphanStream
<1>1. IndInv => NoOrphanStream
  BY DEF IndInv
<1>2. QED
  BY <1>1, IndInvCorrect, PTL

(* A frame is never filed under a node it was not collected on.             *)
THEOREM FramesNeverCross == Spec => []FramesKeepTheirNode
<1>1. IndInv => FramesKeepTheirNode
  BY DEF IndInv
<1>2. QED
  BY <1>1, IndInvCorrect, PTL

(* Another node's numbers are never passed off as the selected node's.      *)
THEOREM ScreenNeverLies == Spec => []ScreenMatchesSelection
<1>1. IndInv => ScreenMatchesSelection
  BY DEF IndInv
<1>2. QED
  BY <1>1, IndInvCorrect, PTL

(* The body is never dimmed without a running watchdog to un-dim it.        *)
THEOREM DimIsWatched == Spec => []DimmedOnlyWhileWatched
<1>1. IndInv => DimmedOnlyWhileWatched
  BY DEF IndInv
<1>2. QED
  BY <1>1, IndInvCorrect, PTL

(* A node is never given up with a transport still untried.                 *)
THEOREM EveryRungIsTried == Spec => []GiveUpAfterLastRung
<1>1. IndInv => GiveUpAfterLastRung
  BY DEF IndInv
<1>2. QED
  BY <1>1, IndInvCorrect, PTL

(* srun is never respawned before a failure has been slept off.             *)
THEOREM NoRelaunchStorm == Spec => []RelaunchIsPaced
<1>1. IndInv => RelaunchIsPaced
  BY DEF IndInv
<1>2. QED
  BY <1>1, IndInvCorrect, PTL

-----------------------------------------------------------------------------
(* NodeSwitch implements NodeView.                                          *)

(* _show seen from NodeView: a frame of the selected node, or nothing.      *)
LEMMA ShowIsFrame ==
    ASSUME TypeOK, ~jobEnded, UNCHANGED jobEnded,
           NEW n \in Nodes, Show(n, n)
    PROVE  [NV!Next]_(NV!vars)
<1> USE ConstAssumption DEF Show, NV!Next, NV!Frame, NV!vars, viewVars, switchVars
<1>1. CASE n # selected
  BY <1>1
<1>2. CASE n = selected /\ target # NULL
  BY <1>2 DEF EndSwitch
<1>3. CASE n = selected /\ target = NULL
  BY <1>3
<1>4. QED
  BY <1>1, <1>2, <1>3

(* The dashboard implements what NodeView promises its reader: every step   *)
(* of the code is a selection, a frame of the selected node, the end of the *)
(* job, or invisible.                                                       *)
THEOREM Refinement == Spec => ImplementsNodeView
<1>1. Init => NV!Init
  BY DEF Init, Unmounted, OnMount, NV!Init
<1>2. TypeOK /\ IndInv /\ [Next]_vars => [NV!Next]_(NV!vars)
  <2> SUFFICES ASSUME TypeOK, IndInv, [Next]_vars PROVE [NV!Next]_(NV!vars)
    OBVIOUS
  <2> USE DEF NV!vars, pollVars, streamVars, rungVars, retryVars, switchVars,
              viewVars, lifeVars
  <2>1. ASSUME NEW n \in Nodes, SetNode(n) PROVE NV!Select(n)
    BY <2>1, ConstAssumption
    DEF SetNode, BeginSwitch, NV!Select, IndInv, FramesKeepTheirNode
  <2>2. ASSUME PollJobEnded PROVE NV!End
    BY <2>2, ConstAssumption DEF PollJobEnded, At, NV!End, IndInv, FailureAtAwait,
       TypeOK, ScreenTypes
  <2>3. ASSUME LocalFrame PROVE [NV!Next]_(NV!vars)
    <3>1. node \in Nodes /\ node = Local /\ ~jobEnded /\ UNCHANGED jobEnded
      BY <2>3 DEF LocalFrame, At, IndInv, FrameAtAwait, FailureAtAwait, TypeOK,
         StreamTypes
    <3>2. Show(node, node)
      BY <2>3, <3>1 DEF LocalFrame
    <3>3. QED
      BY <3>1, <3>2, ShowIsFrame
  <2>4. ASSUME ReadFrame PROVE [NV!Next]_(NV!vars)
    <3>1. /\ node \in Nodes /\ node = streamProc
          /\ ~jobEnded /\ UNCHANGED jobEnded
      BY <2>4 DEF ReadFrame, At, IndInv, HandleAtAwait, FailureAtAwait, TypeOK,
         StreamTypes
    <3>2. CASE selected = node
      <4>1. Show(node, node)
        BY <2>4, <3>1, <3>2 DEF ReadFrame
      <4>2. QED
        BY <3>1, <4>1, ShowIsFrame
    <3>3. CASE selected # node
      BY <2>4, <3>3 DEF ReadFrame
    <3>4. QED
      BY <3>2, <3>3
  <2>5. ASSUME \/ Quit \/ FinishUnmount \/ PollCancelled \/ PollTop \/ PollResume
               \/ Reaped \/ LocalTimeout \/ PacedDone
        PROVE  UNCHANGED NV!vars
    BY <2>5 DEF Quit, FinishUnmount, PollCancelled, PollTop, PollResume, Reaped,
       LocalTimeout, PacedDone
  <2>6. ASSUME \/ \E gpu \in BOOLEAN : LaunchOk(gpu)
               \/ LaunchFails \/ ReadGarbage \/ ReadQuiet \/ ReadEof
               \/ \E text \in ErrTexts : ReadStderr(text)
               \/ BackoffDone
        PROVE  UNCHANGED NV!vars
    BY <2>6 DEF LaunchOk, LaunchFails, ReadGarbage, ReadQuiet, ReadEof, ReadStderr,
       BackoffDone
  <2>7. ASSUME \/ TickSwitch \/ ClockTick \/ JobLeaves
               \/ \E n \in Nodes : StreamDies(n)
               \/ UNCHANGED vars
        PROVE  UNCHANGED NV!vars
    BY <2>7 DEF TickSwitch, ClockTick, JobLeaves, StreamDies, vars
  <2>8. QED
    BY <2>1, <2>2, <2>3, <2>4, <2>5, <2>6, <2>7 DEF Next, PollStep, NV!Next
<1>3. QED
  BY <1>1, <1>2, TypeCorrect, IndInvCorrect, PTL DEF Spec, ImplementsNodeView, NV!Spec

(* The stream side of the promise, as the runs check it.                   *)
THEOREM StreamsSafe == Spec => []StreamSafe
<1>1. IndInv => StreamSafe
  BY DEF IndInv, StreamSafe
<1> QED BY <1>1, IndInvCorrect, PTL

(* The screen side, as the runs check it.                                  *)
THEOREM ScreenTrue == Spec => []ScreenIsTrue
<1>1. IndInv => ScreenIsTrue
  BY DEF IndInv, ScreenIsTrue
<1> QED BY <1>1, IndInvCorrect, PTL

=============================================================================
