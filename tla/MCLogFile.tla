------------------------------ MODULE MCLogFile ------------------------------
(* Instances of LogFile for TLC. *)
EXTENDS LogFile

CONSTANTS t1, t2, a1, a2, h1, h2, old, narrow, wide

(* The two truncating runs sit on different hosts, as do the appending ones. *)
TwoHosts == [p \in Runs |-> IF p \in {t1, a1} THEN h1 ELSE h2]

(* Each pair holds a job with few GPUs and one with more. *)
TwoLayouts == [p \in Runs |-> IF p \in {t1, a1} THEN narrow ELSE wide]

OldUnit(half) == [by |-> old, half |-> half, layout |-> narrow]

(* No file, a finished one, and what an interrupted run leaves: half a     *)
(* header, and a row cut short.                                            *)
FreshOrResumed ==
    { <<>>,
      <<OldUnit("head1")>>,
      <<OldUnit("head1"), OldUnit("head2"), OldUnit("row1")>>,
      <<OldUnit("head1"), OldUnit("head2"), OldUnit("row1"), OldUnit("row2")>> }
=============================================================================
