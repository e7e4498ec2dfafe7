------------------------------ MODULE LinkMeter ------------------------------
(***************************************************************************)
(* The traffic meters of collector.py: _collect_fabric, over the node's    *)
(* InfiniBand ports, and _collect_interconnect with _nvlink_throughput,    *)
(* over the job's GPUs.  Both divide the growth of cumulative counters by  *)
(* the time since a baseline, and both publish one line for many counters. *)
(* A port or a device can be unreadable at any frame, and comes back.      *)
(***************************************************************************)
EXTENDS Naturals, FiniteSets, FiniteSetsExt, SequencesExt

CONSTANTS
    Ports,      \* RDMA ports of the node
    Gpus,       \* the GPUs of the job
    Attempts,   \* _INTERCONNECT_PROBE_ATTEMPTS
    MinWindow,  \* min_dt: the shortest window the fabric's rate is taken over
    MaxUnits    \* bound on the time that passes

ASSUME LinkAssumption ==
    /\ IsFiniteSet(Ports) /\ IsFiniteSet(Gpus) /\ Cardinality(Gpus) > 1
    /\ Attempts \in Nat \ {0} /\ MinWindow \in Nat \ {0} /\ MaxUnits \in Nat

Links == Ports \cup Gpus
NoBaseline == [at |-> 0, sum |-> 0]
Hidden == <<>>

VARIABLES
    traffic,    \* history: per link, what it carried in each unit of time
    fabricPrev, \* _fabric_prev: time (from 1) and total of the baseline
    fabric,     \* the rate published: bytes and window, 0 when not known
    nvPrev,     \* _nvlink_prev of each GPU
    nvLine,     \* the list of rates published, Hidden when it is suppressed
    failures,   \* _interconnect_failures
    probed,     \* _interconnect_probed
    topology,   \* _interconnect_static: unknown, or what the probe found
    up          \* history: the ports of the last frame, those of the baseline, and
                \* when a frame last seeded or used the baseline

linkVars == <<traffic, fabricPrev, fabric, nvPrev, nvLine, failures, probed, topology, up>>

Now == Len(traffic) + 1
SumOfSeq(s) == FoldSeq(LAMBDA x, y : x + y, 0, s)
(* What a set of links carried from the start, and over the last units.    *)
Carried(links) == MapThenSumSet(LAMBDA l : SumOfSeq([i \in DOMAIN traffic |-> traffic[i][l]]), links)
CarriedSince(l, at) == SumOfSeq([i \in 1..(Now - at) |-> traffic[at + i - 1][l]])

LinkTypeOK ==
    /\ traffic \in Seq([Links -> {0, 1}]) /\ Len(traffic) <= MaxUnits
    /\ fabricPrev \in [at : 0..Now, sum : Nat]
    /\ fabric \in [moved : Nat, over : 0..Now]
    /\ nvPrev \in [Gpus -> [at : 0..Now, sum : Nat]]
    /\ nvLine = Hidden \/ nvLine \in [Gpus -> [moved : Nat, over : 0..Now]]
    /\ failures \in 0..Attempts /\ probed \in BOOLEAN
    /\ topology \in {"unknown", "nvlink", "pcie", "none"}
    /\ up \in [frame : SUBSET Ports, base : SUBSET Ports, at : 0..Now]

LinkInit ==
    /\ traffic = <<>>
    /\ fabricPrev = NoBaseline /\ fabric = [moved |-> 0, over |-> 0]
    /\ nvPrev = [g \in Gpus |-> NoBaseline] /\ nvLine = Hidden
    /\ failures = 0 /\ probed = FALSE /\ topology = "unknown"
    /\ up = [frame |-> {}, base |-> {}, at |-> 0]

Carry(busy) ==
    /\ Len(traffic) < MaxUnits
    /\ traffic' = Append(traffic, [l \in Links |-> IF l \in busy THEN 1 ELSE 0])
    /\ UNCHANGED <<fabricPrev, fabric, nvPrev, nvLine, failures, probed, topology, up>>

-----------------------------------------------------------------------------
(* _collect_fabric. *)

Less(a, b) == IF a > b THEN a - b ELSE 0

Usable == fabricPrev # NoBaseline /\ Now - fabricPrev.at >= MinWindow
Seeds == fabricPrev = NoBaseline

(* Mutant: the baseline moves although the window was too short to use.    *)
FabricBaselineAlways(total) == fabricPrev' = [at |-> Now, sum |-> total]

(* The baseline moves when a frame seeds it or uses it.                    *)
FabricBaseline(total) ==
    IF Seeds \/ Usable THEN fabricPrev' = [at |-> Now, sum |-> total]
    ELSE UNCHANGED fabricPrev

FabricFrame(active) ==
    /\ IF active = {}
       THEN /\ fabricPrev' = NoBaseline /\ fabric' = [moved |-> 0, over |-> 0]
            /\ up' = [frame |-> {}, base |-> {}, at |-> 0]
       ELSE /\ FabricBaseline(Carried(active))
            /\ fabric' = IF Usable THEN [moved |-> Less(Carried(active), fabricPrev.sum),
                                         over |-> Now - fabricPrev.at]
                         ELSE [moved |-> 0, over |-> 0]
            /\ up' = IF Seeds \/ Usable THEN [frame |-> active, base |-> active, at |-> Now]
                     ELSE [up EXCEPT !.frame = active]
    /\ UNCHANGED <<traffic, nvPrev, nvLine, failures, probed, topology>>

-----------------------------------------------------------------------------
(* _collect_interconnect. *)

(* A probe that answered is final, whatever it found; one that failed is   *)
(* repeated, a few times.                                                  *)
Latch(found) == probed' = (found # "error" \/ failures + 1 >= Attempts)

Probe(found) ==
    /\ Latch(found)
    /\ IF found = "error"
       THEN topology' = "unknown" /\ failures' = failures + 1
       ELSE topology' = found /\ UNCHANGED failures

(* Mutant: one GPU with a rate is enough to show the line.                 *)
WholeIfAny(rated) == rated # {}

(* The line is a sum: it is shown when every GPU has a rate.               *)
Whole(rated) == rated = Gpus

(* _nvlink_throughput: a GPU that was not read keeps its older baseline.   *)
Throughput(read) ==
    LET rated == {g \in read : nvPrev[g] # NoBaseline /\ nvPrev[g].at < Now}
    IN  /\ nvPrev' = [g \in Gpus |-> IF g \in read THEN [at |-> Now, sum |-> Carried({g})]
                                     ELSE nvPrev[g]]
        /\ nvLine' = IF ~Whole(rated) THEN Hidden
                     ELSE [g \in Gpus |->
                             IF g \in rated
                             THEN [moved |-> Less(Carried({g}), nvPrev[g].sum),
                                   over |-> Now - nvPrev[g].at]
                             ELSE [moved |-> 0, over |-> 0]]

InterconnectFrame(found, read) ==
    /\ IF probed THEN UNCHANGED <<failures, probed, topology>> ELSE Probe(found)
    /\ IF topology' = "nvlink" THEN Throughput(read)
       ELSE nvLine' = Hidden /\ UNCHANGED nvPrev
    /\ UNCHANGED <<traffic, fabricPrev, fabric, up>>

CarryOver(links) == \E busy \in SUBSET links : Carry(busy)
FabricNext == \E active \in SUBSET Ports : FabricFrame(active)
InterconnectNext ==
    \E found \in {"nvlink", "pcie", "none", "error"}, read \in SUBSET Gpus :
        InterconnectFrame(found, read)

LinkNext == CarryOver(Links) \/ FabricNext \/ InterconnectNext

LinkSpec == LinkInit /\ [][LinkNext]_linkVars

-----------------------------------------------------------------------------
(* A line that is shown is the whole fabric: every GPU's share of it is    *)
(* what that GPU carried over a window of its own, never a zero standing   *)
(* for a counter that was not read.                                        *)
LineIsWhole ==
    [][nvLine' # nvLine /\ nvLine' # Hidden =>
         \A g \in Gpus : /\ nvLine'[g].over > 0
                         /\ nvLine'[g].moved = CarriedSince(g, Now - nvLine'[g].over)]_linkVars

(* One unreadable probe does not hide the interconnect for the whole run.  *)
OneBadProbeIsForgiven == probed /\ topology = "unknown" => failures = Attempts

(* The NVLink line is hidden for a reason, and whole when it is shown.     *)
NvLinkIsTrue == []OneBadProbeIsForgiven /\ LineIsWhole

(* While the set of ports holds, the rate is what they carried in the      *)
(* window, and the windows adjoin: one too short to use joins the next.    *)
FabricIsTrue ==
    [][fabric' # fabric /\ fabric'.over > 0 /\ up'.frame = up.base
         => /\ Now - fabric'.over = up.at
            /\ fabric'.moved = MapThenSumSet(LAMBDA p : CarriedSince(p, up.at), up.base)]_linkVars

(* "A counter that goes BACKWARDS (HCA reset, or a port bounced) clamps to *)
(* 0 rather than producing a wild negative or a nonsense spike"            *)
(* (collector.py:1990): no rate exceeds what the ports can carry.          *)
NoNonsenseSpike == fabric.moved <= Cardinality(Ports) * fabric.over
=============================================================================
