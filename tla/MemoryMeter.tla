----------------------------- MODULE MemoryMeter -----------------------------
(***************************************************************************)
(* TelemetryCollector._collect_memory, _proc_rss_bytes,                    *)
(* _advance_working_set_peak and the memory part of _apply_peaks           *)
(* (collector.py): what a job uses, what it is limited to, how high it has *)
(* been and whether it is about to be killed, from files any of which may  *)
(* be absent on this kernel or unreadable at this frame.                   *)
(***************************************************************************)
EXTENDS Naturals, FiniteSetsExt

CONSTANTS
    MaxMem,     \* bound on the memory in use, in units
    Alloc,      \* job_ctx.mem_limit_bytes: what was requested, 0 if unknown
    Cap,        \* the limit the job's cgroup enforces, 0 for none
    NodeRam,    \* MemTotal
    CritNum, CritDen,   \* oom_critical_threshold, as a fraction
    WarnNum, WarnDen    \* oom_warning_threshold

ASSUME MemoryAssumption ==
    /\ {MaxMem, Alloc, Cap, NodeRam, CritNum, CritDen, WarnNum, WarnDen} \subseteq Nat
    /\ 0 < NodeRam /\ Cap <= NodeRam
    /\ 0 < CritDen /\ 0 < WarnDen

Files == {"current", "peak", "limit", "stat"}

VARIABLES
    cgroup,     \* the job's memory cgroup: "v2", "v1" or "none"
    kernel,     \* its counters: current (with cache), cache and peak
    rss,        \* the sum of the processes' statm, shared pages counted twice
    peakRunning,    \* _peak_mem_running
    peakWorking,    \* _peak_working_set
    mem,        \* the MemoryMetrics published last
    steady      \* history: every frame so far had memory.current to read

memoryVars == <<cgroup, kernel, rss, peakRunning, peakWorking, mem, steady>>

Metrics == [current : 0..MaxMem, limit : Nat, peak : 0..MaxMem, working : 0..MaxMem,
            peakWorking : 0..MaxMem, lifetime : BOOLEAN, measured : BOOLEAN,
            warning : BOOLEAN, critical : BOOLEAN, source : {"cgroup", "proc"}]

MemoryTypeOK ==
    /\ cgroup \in {"v2", "v1", "none"}
    /\ kernel \in [current : 0..MaxMem, cache : 0..MaxMem, peak : 0..MaxMem]
    /\ rss \in 0..MaxMem
    /\ peakRunning \in 0..MaxMem /\ peakWorking \in 0..MaxMem
    /\ mem \in Metrics
    /\ steady \in BOOLEAN

NoMetrics == [current |-> 0, limit |-> 0, peak |-> 0, working |-> 0, peakWorking |-> 0,
              lifetime |-> FALSE, measured |-> FALSE, warning |-> FALSE,
              critical |-> FALSE, source |-> "cgroup"]

MemoryInit ==
    /\ cgroup \in {"v2", "v1", "none"}
    /\ kernel = [current |-> 0, cache |-> 0, peak |-> 0] /\ rss = 0
    /\ peakRunning = 0 /\ peakWorking = 0
    /\ mem = NoMetrics /\ steady = TRUE

(* The job allocates or frees; the kernel keeps the high-water mark.       *)
UseMemory(current, cache, resident) ==
    /\ cache <= current
    /\ Cap > 0 => current <= Cap
    /\ kernel' = [current |-> current, cache |-> cache, peak |-> Max({kernel.peak, current})]
    /\ rss' = resident
    /\ UNCHANGED <<cgroup, peakRunning, peakWorking, mem, steady>>

-----------------------------------------------------------------------------
(* A frame, with the files it can read. *)

(* Where the kernel kills: the enforced cap, or the node's RAM if there is *)
(* none ("max", 0, the v1 sentinel) or none can be read.                   *)
GuardBasis(readable) ==
    IF cgroup # "none" /\ "limit" \in readable /\ Cap > 0 THEN Cap ELSE NodeRam

(* The reported limit: the smaller of what was requested and the cap.      *)
ReportedLimit(basis) == IF Alloc > 0 THEN Min({Alloc, basis}) ELSE basis

(* Mutant: a frame without the kernel's counter starts the peak again.     *)
PeakFromFrame(current, readable) ==
    IF "peak" \in readable /\ cgroup # "none" THEN kernel.peak ELSE current

(* The kernel's counter, else a running maximum of the frames; a job with  *)
(* no memory cgroup at all gets neither.  Every peak is floored by the     *)
(* ones reported before.                                                   *)
Peak(current, readable) ==
    LET counter == IF "peak" \in readable THEN kernel.peak ELSE 0
        frame == IF cgroup = "none" THEN 0 ELSE IF counter > 0 THEN counter ELSE current
    IN  Max({peakRunning, frame})

(* _advance_working_set_peak.                                              *)
WorkingPeak(ws) == Max({peakWorking, ws})

MemoryFrame(readable) ==
    LET inCgroup == cgroup # "none" /\ "current" \in readable
        stat     == cgroup # "none" /\ "stat" \in readable
        current  == IF inCgroup THEN kernel.current ELSE rss
        less     == IF current > kernel.cache THEN current - kernel.cache ELSE 0
        ws       == IF stat /\ less > 0 THEN less ELSE current
        basis    == GuardBasis(readable)
        peak     == Peak(current, readable)
    IN  /\ peakRunning' = peak
        /\ peakWorking' = WorkingPeak(ws)
        /\ mem' = [current |-> current, limit |-> ReportedLimit(basis),
                   peak |-> Max({peak, current}), working |-> ws,
                   peakWorking |-> WorkingPeak(ws),
                   lifetime |-> cgroup # "none" /\ "peak" \in readable /\ kernel.peak > 0,
                   measured |-> stat,
                   warning |-> ws * WarnDen >= WarnNum * basis,
                   critical |-> ws * CritDen >= CritNum * basis,
                   source |-> IF inCgroup THEN "cgroup" ELSE "proc"]
        /\ steady' = (steady /\ inCgroup)
        /\ UNCHANGED <<cgroup, kernel, rss>>

MemoryNext ==
    \/ \E current, cache, resident \in 0..MaxMem : UseMemory(current, cache, resident)
    \/ \E readable \in SUBSET Files : MemoryFrame(readable)

MemorySpec == MemoryInit /\ [][MemoryNext]_memoryVars

-----------------------------------------------------------------------------
(* The alarm is about the kill and nothing else: it never sounds for a job *)
(* that is over its request but far from where the kernel would kill it,   *)
(* whatever could not be read.                                             *)
AlarmMeansDanger ==
    LET kill == IF Cap > 0 /\ cgroup # "none" THEN Cap ELSE NodeRam
    IN  /\ mem.critical => mem.working * CritDen >= CritNum * kill
        /\ mem.warning => mem.working * WarnDen >= WarnNum * kill

(* The number --mem is sized by holds, and bounds the figures beside it,   *)
(* so long as the memory controller answers; a peak counter that stops     *)
(* answering does not take it down, and one that is called a lifetime peak *)
(* covers what the job did before the monitor came.                        *)
PeakHolds ==
    [][/\ steady' => /\ mem.peak <= mem'.peak
                     /\ mem'.current <= mem'.peak /\ mem'.peakWorking <= mem'.peak
       /\ mem.peakWorking <= mem'.peakWorking
       /\ mem' # mem /\ mem'.lifetime => kernel.peak <= mem'.peak]_memoryVars

(* The memory figures warn of the kill, and can be used to size --mem.     *)
MemoryIsTrue == []AlarmMeansDanger /\ PeakHolds

(* "A peak may never read BELOW a peak already reported"                   *)
(* (collector.py:1592).                                                    *)
PeakNeverFalls == [][mem'.peak >= mem.peak]_memoryVars
=============================================================================
