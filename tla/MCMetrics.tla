------------------------------ MODULE MCMetrics ------------------------------
(***************************************************************************)
(* The collector's meters, for TLC.  They share no state, so a run lets    *)
(* one of them move at a time: a behaviour of one meter while the others   *)
(* stand still is every behaviour it has.                                  *)
(***************************************************************************)
EXTENDS ProcCpu, CpuRate, MemoryMeter, RemoteMeter, LinkMeter, GpuAttach, TLC

CONSTANTS
    Meters,     \* the meters the run looks at
    s1, s2      \* the steps of the job

VARIABLE focus  \* the meter that moves

MCTasks == s1 :> 3 @@ s2 :> 1

MetricsInit ==
    /\ focus \in Meters
    /\ ProcCpuInit /\ CpuRateInit /\ MemoryInit /\ RemoteInit /\ LinkInit
    /\ IF focus = "attach" THEN GpuAttachInit ELSE GpuAttachIdle
    /\ focus # "memory" => cgroup = "none"

MetricsNext ==
    /\ UNCHANGED focus
    /\ \/ focus = "procCpu" /\ ProcCpuNext
       \/ focus # "procCpu" /\ UNCHANGED procCpuVars
    /\ \/ focus = "cpu" /\ CpuRateNext
       \/ focus # "cpu" /\ UNCHANGED cpuRateVars
    /\ \/ focus = "memory" /\ MemoryNext
       \/ focus # "memory" /\ UNCHANGED memoryVars
    /\ \/ focus = "remote" /\ RemoteNext
       \/ focus # "remote" /\ UNCHANGED remoteVars
    /\ \/ focus = "fabric" /\ (CarryOver(Ports) \/ FabricNext)
       \/ focus = "nvlink" /\ (CarryOver(Gpus) \/ InterconnectNext)
       \/ focus \notin {"fabric", "nvlink"} /\ UNCHANGED linkVars
    /\ \/ focus = "attach" /\ GpuAttachNext
       \/ focus # "attach" /\ UNCHANGED gpuAttachVars

MetricsSpec == MetricsInit /\ [][MetricsNext]_<<focus, procCpuVars, cpuRateVars,
                    memoryVars, remoteVars, linkVars, gpuAttachVars>>
=============================================================================
