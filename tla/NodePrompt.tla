------------------------------ MODULE NodePrompt ------------------------------
(***************************************************************************)
(* The dashboard's "go to node N" prompt (tui.py: action_node_digit,       *)
(* action_node_backspace, action_commit_node_input and what they share     *)
(* with the node switch).                                                  *)
(*                                                                         *)
(* Digits accumulate, and are committed as soon as no longer number can be *)
(* meant, by Enter, or by a timer.  Frames that end a switch, arrow keys   *)
(* and the end of the job come in between.  The stream behind a switch is  *)
(* NodeSwitch's; here a frame of the selected node simply may arrive.      *)
(***************************************************************************)
EXTENDS Naturals

CONSTANTS
    NNodes,     \* how many nodes the job has
    NoNode      \* _switch_target when nothing is being switched

ASSUME NodePromptAssumption == NNodes \in Nat \ {0, 1} /\ NoNode \notin 1..NNodes

VARIABLES
    input,      \* _node_input as a number, 0 when it is empty
    timer,      \* _node_input_timer is set
    selected,   \* the position of _selected_node in _node_list
    target,     \* _switch_target
    sign,       \* the SwitchBanner's display, prompt and ended
    ended,      \* _job_ended
    typedOn     \* history: the node shown when the first digit was typed

promptVars == <<input, timer, selected, target, sign, ended, typedOn>>

NodePromptTypeOK ==
    /\ input \in 0..NNodes /\ timer \in BOOLEAN /\ selected \in 1..NNodes
    /\ target \in 1..NNodes \cup {NoNode} /\ ended \in BOOLEAN
    /\ sign \in [display : BOOLEAN, prompt : 0..NNodes, ended : BOOLEAN]
    /\ typedOn \in 1..NNodes

NodePromptInit ==
    /\ input = 0 /\ timer = FALSE /\ selected = 1 /\ target = NoNode
    /\ sign = [display |-> FALSE, prompt |-> 0, ended |-> FALSE]
    /\ ended = FALSE /\ typedOn = 1

-----------------------------------------------------------------------------
(* Mutant: clearing the number hides the banner whatever else it says.     *)
SignHidden == [sign EXCEPT !.prompt = 0, !.display = FALSE]

(* _clear_node_input: the banner goes when it only showed the prompt.      *)
SignCleared ==
    IF sign.prompt = 0 THEN sign
    ELSE [sign EXCEPT !.prompt = 0, !.display = target # NoNode \/ sign.ended]

(* _set_node and _begin_switch.                                            *)
(* Mutant: a switch leaves the half-typed number and its timer alone.      *)
SwitchOnly(n) ==
    /\ selected' = n /\ target' = n
    /\ sign' = [sign EXCEPT !.display = TRUE, !.prompt = 0]
    /\ UNCHANGED <<input, timer>>

Switch(n) ==
    /\ selected' = n /\ target' = n
    /\ sign' = [SignCleared EXCEPT !.display = TRUE, !.prompt = 0]
    /\ input' = 0 /\ timer' = FALSE

(* action_commit_node_input with the digits there are: _set_node does      *)
(* nothing for the node that is already shown.                             *)
Commit(buf) ==
    IF buf \in 1..NNodes /\ buf # selected /\ ~ended THEN Switch(buf)
    ELSE /\ input' = 0 /\ timer' = FALSE /\ sign' = SignCleared
         /\ UNCHANGED <<selected, target>>

(* _show_node_prompt; the pause timer is replaced, never stacked.          *)
Prompt(number) ==
    /\ input' = number /\ timer' = TRUE
    /\ sign' = [sign EXCEPT !.display = TRUE, !.prompt = number]
    /\ UNCHANGED <<selected, target>>

(* A digit that overshoots starts a number of its own.                     *)
Candidate(d) == IF input * 10 + d \in 1..NNodes THEN input * 10 + d ELSE d

NodeDigit(d) ==
    /\ ~ended /\ Candidate(d) \in 1..NNodes
    /\ IF Candidate(d) * 10 > NNodes THEN Commit(Candidate(d)) ELSE Prompt(Candidate(d))
    /\ typedOn' = IF input = 0 THEN selected ELSE typedOn
    /\ UNCHANGED ended

NodeBackspace ==
    /\ input # 0
    /\ IF input \div 10 # 0 THEN Prompt(input \div 10)
       ELSE /\ input' = 0 /\ timer' = FALSE /\ sign' = SignCleared
            /\ UNCHANGED <<selected, target>>
    /\ UNCHANGED <<ended, typedOn>>

CommitKey == Commit(input) /\ UNCHANGED <<ended, typedOn>>

TimerCommits == timer /\ Commit(input) /\ UNCHANGED <<ended, typedOn>>

(* _switch_node: the arrows, which wrap.                                   *)
ArrowKey(step) ==
    /\ ~ended
    /\ Switch(IF step = 1 THEN (selected % NNodes) + 1
              ELSE ((selected + NNodes - 2) % NNodes) + 1)
    /\ UNCHANGED <<ended, typedOn>>

(* _show with a frame of the selected node: _end_switch hides the banner.  *)
FrameArrives ==
    /\ ~ended /\ target # NoNode
    /\ target' = NoNode
    /\ sign' = [sign EXCEPT !.display = FALSE]
    /\ UNCHANGED <<input, timer, selected, ended, typedOn>>

(* _show_job_ended                                                         *)
JobEnds ==
    /\ ~ended
    /\ ended' = TRUE /\ input' = 0 /\ timer' = FALSE /\ target' = NoNode
    /\ sign' = [display |-> TRUE, prompt |-> 0, ended |-> TRUE]
    /\ UNCHANGED <<selected, typedOn>>

NodePromptNext ==
    \/ \E d \in 0..9 : NodeDigit(d)
    \/ NodeBackspace \/ CommitKey \/ TimerCommits
    \/ \E step \in {1, 2} : ArrowKey(step)
    \/ FrameArrives \/ JobEnds

NodePromptSpec == NodePromptInit /\ [][NodePromptNext]_promptVars

-----------------------------------------------------------------------------
(* Properties. *)

(* "a stale timer can't fire later and yank the view to the abandoned      *)
(* number": what the timer commits was typed on the node it leaves.        *)
TimerNeverYanks == [][TimerCommits /\ selected' # selected => typedOn = selected]_promptVars

(* The banner never outlives what it says: it is up exactly while a switch *)
(* is under way or the job has ended, and else only for a typed number;    *)
(* the notice that the job ended is never taken down.  The number it names *)
(* is the one typed, and one that waits has a timer to end the wait.       *)
BannerIsTrue ==
    /\ target # NoNode \/ ended => sign.display
    /\ sign.display => target # NoNode \/ ended \/ input # 0
    /\ sign.prompt = input
    /\ input # 0 => timer

(* "echo it so they see what they're entering before it commits".          *)
PromptIsEchoed == input # 0 => sign.display
=============================================================================
