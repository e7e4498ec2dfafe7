------------------------------ MODULE NodeView ------------------------------
(***************************************************************************)
(* What the dashboard promises its reader about the node on screen, with   *)
(* no word about streams, srun, timers or retries.                         *)
(*                                                                         *)
(* The reader selects a node; the numbers on screen are those of the       *)
(* selected node, or a switch is visibly pending; once the job has ended   *)
(* nothing on the screen changes any more.  NodeSwitch implements this.    *)
(***************************************************************************)
CONSTANTS Nodes,  \* the nodes of the job
          NULL    \* no frame has been shown yet

VARIABLES selected,  \* the node the reader asked for
          view,      \* the node whose numbers are on screen, or NULL
          pending,   \* a switch is announced and not yet completed
          ended      \* the JOB ENDED notice is up

vars == <<selected, view, pending, ended>>

Init ==
    /\ selected \in Nodes
    /\ view = NULL
    /\ pending \in BOOLEAN
    /\ ended = FALSE

(* The reader picks another node: the old numbers may stay while the switch *)
(* is pending, or give way to the last numbers seen of the new node.        *)
Select(n) ==
    /\ ~ended
    /\ n # selected
    /\ selected' = n
    /\ pending' = TRUE
    /\ view' \in {view, n}
    /\ UNCHANGED ended

(* A frame of the selected node arrives. *)
Frame ==
    /\ ~ended
    /\ view' = selected
    /\ pending' = FALSE
    /\ UNCHANGED <<selected, ended>>

(* The job leaves the queue: the last numbers freeze. *)
End ==
    /\ ~ended
    /\ ended' = TRUE
    /\ pending' = FALSE
    /\ UNCHANGED <<selected, view>>

Next == (\E n \in Nodes : Select(n)) \/ Frame \/ End

Spec == Init /\ [][Next]_vars

=============================================================================
