------------------------------ MODULE MCScreens ------------------------------
(***************************************************************************)
(* The picker, the two views of jobs without gauges and the go-to-node     *)
(* prompt, checked side by side: each behaviour moves one of them, the one *)
(* in focus, and the others stand still.                                   *)
(***************************************************************************)
EXTENDS Picker, JobWatch, NodePrompt

CONSTANT Screens    \* the screens that may be in focus

VARIABLE focus

screenVars == <<focus, pickerVars, jobWatchVars, promptVars>>

Row(id, st) == [id |-> id, st |-> st]

(* Jobs that start, end and appear; squeue lists by state, so the order of *)
(* two jobs changes too.                                                   *)
MCListings ==
    { << Row(1, "R"), Row(2, "R") >>, << Row(2, "R"), Row(1, "R") >>,
      << Row(1, "R"), Row(2, "PD") >>, << Row(2, "PD") >>,
      << Row(3, "R"), Row(1, "R"), Row(2, "R") >>, <<>> }

Init ==
    /\ focus \in Screens
    /\ PickerInit /\ JobWatchInit /\ NodePromptInit
    /\ focus # "picker" => queue = << Row(2, "PD") >> /\ ~app.foreign
    /\ focus # "watch" => screen = "foreign"

Next ==
    \/ /\ focus = "picker" /\ PickerNext
       /\ UNCHANGED <<focus, jobWatchVars, promptVars>>
    \/ /\ focus = "watch" /\ JobWatchNext
       /\ UNCHANGED <<focus, pickerVars, promptVars>>
    \/ /\ focus = "prompt" /\ NodePromptNext
       /\ UNCHANGED <<focus, pickerVars, jobWatchVars>>

(* JobWatchFairness, where the screen is the one in focus, and SlurmAnswers. *)
Watching(Step) == focus = "watch" /\ Step /\ UNCHANGED <<focus, pickerVars, promptVars>>

Fairness ==
    /\ WF_screenVars(Watching(KickRefresh)) /\ WF_screenVars(Watching(CancelledPassEnds))
    /\ WF_screenVars(Watching(JobAnswers \/ JobUnanswered)) /\ WF_screenVars(Watching(GatherAnswers))
    /\ WF_screenVars(Watching(AliveAnswers \/ AliveUnanswered)) /\ WF_screenVars(Watching(CountsAnswer))
    /\ SlurmAnswers

Spec == Init /\ [][Next]_screenVars /\ Fairness
=============================================================================
