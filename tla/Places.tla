------------------------------- MODULE Places -------------------------------
(***************************************************************************)
(* Finite sets of numbers in ascending order, and what stands in a         *)
(* sequence at a set of places.  SortSeq and SelectSeq say the same; these *)
(* are written out for the proof system, which knows neither.              *)
(***************************************************************************)
EXTENDS Naturals, FiniteSets

Climbs(s) == \A i, j \in DOMAIN s : i < j => s[i] < s[j]
Ascending(S) == CHOOSE s \in [1..Cardinality(S) -> S] : Climbs(s)

AtPlaces(s, places) == [k \in 1..Cardinality(places) |-> s[Ascending(places)[k]]]
=============================================================================
