------------------------------ MODULE GpuAttach ------------------------------
(***************************************************************************)
(* The GPU part of collector.py: which of a node's devices _init_nvml      *)
(* attaches for a job, and under which CUDA ordinal, and how               *)
(* _gpu_is_active judges a device from what NVML would say about it.       *)
(*                                                                         *)
(* A device is its place in PCI-bus order.  NVML lists every device of the *)
(* node, or the job's only where Slurm confines it to them; a device that  *)
(* has fallen off the bus is still counted but can no longer be opened.    *)
(***************************************************************************)
EXTENDS Naturals, Sequences, FiniteSets, FiniteSetsExt, SequencesExt, Places

CONSTANT Devices    \* GPUs of the node

ASSUME GpuAttachAssumption == Devices \in Nat \ {0}

Node == 1..Devices

VARIABLES
    mine,       \* the job's devices in the order CUDA sees them
    known,      \* what Slurm told of them: "uuids", "indices" or "count"
    confined,   \* ConstrainDevices: NVML sees the job's devices only
    lost,       \* devices that cannot be opened
    nvmlState,  \* where _init_nvml is
    attached,   \* _nvml_handles with _cuda_ordinals
    device,     \* history: what goes on on one attached device ...
    active      \* ... and whether it was judged active, or not judged yet

gpuAttachVars == <<mine, known, confined, lost, nvmlState, attached, device, active>>

Orders == {s \in UNION {[1..n -> Node] : n \in Node} : IsInjective(s)}

(* What NVML counts, and what it can open, in PCI-bus order.               *)
Counted == IF confined THEN Range(mine) ELSE Node
Opened == Ascending(Counted \ lost)

(* A device's use: by the job's processes and by other users', in units of *)
(* VRAM, whether it is busy, and which queries NVML answers about it.      *)
Uses == [own : 0..2, others : 0..2, busy : BOOLEAN, byJob : BOOLEAN,
         util : {"read", "failed", "unsupported"}, vram : BOOLEAN,
         procVram : BOOLEAN, procUtil : BOOLEAN]

(* A MIG slice, where the rates are not supported, is one job's alone.     *)
Legal(d) == /\ d.util = "unsupported" => d.others = 0
            /\ d.byJob => d.busy /\ d.own > 0
            /\ d.own + d.others = 0 => ~d.busy

Idle == [own |-> 0, others |-> 0, busy |-> FALSE, byJob |-> FALSE, util |-> "read",
         vram |-> TRUE, procVram |-> TRUE, procUtil |-> TRUE]

GpuAttachTypeOK ==
    /\ mine \in Orders /\ known \in {"uuids", "indices", "count"}
    /\ confined \in BOOLEAN /\ lost \subseteq Node
    /\ nvmlState \in {"init", "ready"}
    /\ attached \in Seq([dev : Node, ordinal : Nat])
    /\ device \in Uses /\ active \in {"unknown", "yes", "no"}

GpuAttachInit ==
    /\ mine \in Orders
    /\ known \in {"uuids", "indices", "count"}
    /\ confined \in BOOLEAN
    /\ lost \in SUBSET Node
    /\ nvmlState = "init" /\ attached = <<>>
    /\ device = Idle /\ active = "unknown"

(* The one state in which nothing has happened yet, for other runs.        *)
GpuAttachIdle ==
    /\ mine = <<1>> /\ known = "count" /\ confined = TRUE /\ lost = {}
    /\ nvmlState = "init" /\ attached = <<>>
    /\ device = Idle /\ active = "unknown"

-----------------------------------------------------------------------------
(* _init_nvml. *)

InOrder(devs) == [i \in DOMAIN devs |-> [dev |-> devs[i], ordinal |-> i - 1]]

(* Mutant: the ordinal is the place among the devices that attached.       *)
AttachUuidsByPlace ==
    attached' = InOrder(AtPlaces(mine, {i \in DOMAIN mine : mine[i] \in Range(Opened)}))

(* By UUID: each device of the job under its place in the job's list.      *)
AttachUuids ==
    attached' = AtPlaces(InOrder(mine), {i \in DOMAIN mine : mine[i] \in Range(Opened)})

(* By index: NVML renumbers the devices of a confined job, which then are  *)
(* all attached; else each index is looked up in bus order, and one out of *)
(* range is passed over.                                                   *)
AttachIndices ==
    IF Cardinality(Counted) = Len(mine) THEN attached' = InOrder(Opened)
    ELSE LET listed == AtPlaces(InOrder(mine), {i \in DOMAIN mine : mine[i] <= Len(Opened)})
         IN  attached' = [i \in DOMAIN listed |-> [listed[i] EXCEPT !.dev = Opened[@]]]

(* With a count only: the first devices in bus order, never more.          *)
AttachCount ==
    attached' = InOrder(SubSeq(Opened, 1, Min({Len(mine), Len(Opened)})))

InitNvml ==
    /\ nvmlState = "init" /\ nvmlState' = "ready"
    /\ CASE known = "uuids" -> AttachUuids
         [] known = "indices" -> AttachIndices
         [] known = "count" -> AttachCount
    /\ UNCHANGED <<mine, known, confined, lost, device, active>>

-----------------------------------------------------------------------------
(* _collect_gpus for one device, and _gpu_is_active. *)

(* A transient failure to read the rate leaves only what the job itself    *)
(* demonstrably holds: the majority of the VRAM in use.                    *)
OwnsMajority(d, own, held) == own > 0 /\ own * 2 >= held

GpuIsActive(d) ==
    LET own  == IF d.procVram THEN d.own ELSE 0
        held == IF d.vram THEN d.own + d.others ELSE 0
    IN  \/ d.procUtil /\ d.byJob
        \/ d.util = "unsupported" /\ (own > 0 \/ held > 0)
        \/ d.util = "failed" /\ OwnsMajority(d, own, held)
        \/ /\ d.util = "read" /\ d.busy
           /\ d.vram => held > 0
           /\ own > 0 => own * 2 >= held

(* (One frame is enough: the judgement has no memory.)                     *)
SampleGpu(d) ==
    /\ nvmlState = "ready" /\ Len(attached) > 0
    /\ active = "unknown"
    /\ device' = d
    /\ active' = IF GpuIsActive(d) THEN "yes" ELSE "no"
    /\ UNCHANGED <<mine, known, confined, lost, nvmlState, attached>>

GpuAttachNext == InitNvml \/ \E d \in {u \in Uses : Legal(u)} : SampleGpu(d)

GpuAttachSpec == GpuAttachInit /\ [][GpuAttachNext]_gpuAttachVars

-----------------------------------------------------------------------------
(* A device is the job's and is shown under the number CUDA gives it: if   *)
(* Slurm named it by UUID always; by index or by count as long as every    *)
(* device can be opened and CUDA's order is the bus order; and by count if *)
(* NVML shows no other user's devices.                                     *)
OrdinalsAreCudas ==
    \A i \in DOMAIN attached :
        \/ lost # {} /\ known # "uuids"
        \/ mine # Ascending(Range(mine)) /\ known # "uuids"
        \/ ~confined /\ known = "count"
        \/ mine[attached[i].ordinal + 1] = attached[i].dev

(* Never more devices than the job asked for, nor one of them twice.       *)
NoForeignSurplus ==
    /\ Len(attached) <= Len(mine)
    /\ Cardinality({attached[i].dev : i \in DOMAIN attached}) = Len(attached)

(* A device is not called idle while the job keeps it busy and holds most  *)
(* of it, if either rate could be read; and one that another user holds    *)
(* most of is not called active for a share the job could be seen to have. *)
ActivityIsOwn ==
    /\ device.byJob /\ device.own >= device.others
         /\ (device.procUtil \/ device.util = "read") => active # "no"
    /\ ~device.byJob /\ 0 < device.own /\ device.own < device.others
         /\ device.procVram /\ device.vram => active # "yes"
(* The devices shown are the job's, and what is said of them is the job's. *)
GpusAreTheJobs == OrdinalsAreCudas /\ NoForeignSurplus /\ ActivityIsOwn
=============================================================================
