----------------------------- MODULE MeterProofs -----------------------------
(***************************************************************************)
(* Proofs about the collector's meters: MemoryMeter, whatever files cannot *)
(* be read and wherever the limits are; CpuRate, for any number of CPUs,   *)
(* any windows and any source failing; RemoteMeter, for any number of      *)
(* steps and tasks and any interval; ProcCpu, for any set of pids and any  *)
(* tree of processes; LinkMeter, for any ports and GPUs; GpuAttach, for a  *)
(* node of any number of devices.                                          *)
(***************************************************************************)
EXTENDS ProcCpu, MemoryMeter, CpuRate, RemoteMeter, LinkMeter, GpuAttach, SetLemmas

(* The kernel's high-water mark is one.                                    *)
Kernel ==
    /\ kernel = [current |-> kernel.current, cache |-> kernel.cache, peak |-> kernel.peak]
    /\ kernel.current \in Nat /\ kernel.cache \in Nat /\ kernel.peak \in Nat
    /\ kernel.current <= kernel.peak
    /\ rss \in Nat /\ peakRunning \in Nat /\ peakWorking \in Nat

(* The peaks kept are those that were shown, and, while the controller     *)
(* answers, bound what was shown beside them.                              *)
Shown ==
    /\ mem.current \in Nat /\ mem.peak \in Nat /\ mem.peakWorking = peakWorking
    /\ steady => /\ mem.peak = peakRunning
                 /\ mem.current <= peakRunning /\ peakWorking <= peakRunning

MemoryInv == Kernel /\ Shown /\ AlarmMeansDanger

(* What a frame publishes, from what it could read.                        *)
LEMMA FrameShows ==
    ASSUME Kernel, NEW readable, MemoryFrame(readable)
    PROVE  \E current, ws, basis \in Nat :
             /\ current = IF cgroup # "none" /\ "current" \in readable THEN kernel.current ELSE rss
             /\ ws <= current
             /\ basis = GuardBasis(readable)
             /\ peakRunning' = Peak(current, readable)
             /\ peakWorking' = WorkingPeak(ws)
             /\ mem'.current = current /\ mem'.peak = Max({Peak(current, readable), current})
             /\ mem'.working = ws /\ mem'.peakWorking = WorkingPeak(ws)
             /\ mem'.lifetime => cgroup # "none" /\ "peak" \in readable /\ kernel.peak > 0
             /\ mem'.warning => ws * WarnDen >= WarnNum * basis
             /\ mem'.critical => ws * CritDen >= CritNum * basis
             /\ steady' => steady /\ cgroup # "none" /\ "current" \in readable
             /\ UNCHANGED <<cgroup, kernel, rss>>
<1> DEFINE inCgroup == cgroup # "none" /\ "current" \in readable
           stat == cgroup # "none" /\ "stat" \in readable
           current == IF inCgroup THEN kernel.current ELSE rss
           less == IF current > kernel.cache THEN current - kernel.cache ELSE 0
           ws == IF stat /\ less > 0 THEN less ELSE current
           basis == GuardBasis(readable)
<1>1. current \in Nat /\ less \in Nat /\ less <= current /\ ws \in Nat /\ ws <= current
  BY DEF Kernel
<1>2. basis \in Nat
  BY MemoryAssumption DEF GuardBasis
<1>3. /\ peakRunning' = Peak(current, readable)
      /\ peakWorking' = WorkingPeak(ws)
      /\ steady' = (steady /\ inCgroup)
      /\ UNCHANGED <<cgroup, kernel, rss>>
  BY DEF MemoryFrame
<1>4. /\ mem'.current = current /\ mem'.peak = Max({Peak(current, readable), current})
      /\ mem'.working = ws /\ mem'.peakWorking = WorkingPeak(ws)
      /\ mem'.lifetime = (cgroup # "none" /\ "peak" \in readable /\ kernel.peak > 0)
      /\ mem'.warning = (ws * WarnDen >= WarnNum * basis)
      /\ mem'.critical = (ws * CritDen >= CritNum * basis)
  BY DEF MemoryFrame
<1> HIDE DEF ws, basis, current, less
<1>5. /\ mem'.lifetime => cgroup # "none" /\ "peak" \in readable /\ kernel.peak > 0
      /\ mem'.warning => ws * WarnDen >= WarnNum * basis
      /\ mem'.critical => ws * CritDen >= CritNum * basis
      /\ steady' => steady /\ cgroup # "none" /\ "current" \in readable
  BY <1>3, <1>4, Zenon
<1>6. current = (IF cgroup # "none" /\ "current" \in readable THEN kernel.current ELSE rss)
      /\ basis = GuardBasis(readable)
  BY DEF current, basis
<1> QED BY <1>1, <1>2, <1>3, <1>4, <1>5, <1>6, Zenon

(* The peak of a frame, and what it is while the controller answers.       *)
LEMMA PeakGrows ==
    ASSUME Kernel, NEW current \in Nat, NEW readable
    PROVE  /\ Peak(current, readable) \in Nat /\ peakRunning <= Peak(current, readable)
           /\ cgroup # "none" /\ current <= kernel.peak => current <= Peak(current, readable)
           /\ cgroup # "none" /\ "peak" \in readable /\ kernel.peak > 0 =>
                 kernel.peak <= Peak(current, readable)
<1> DEFINE mark == IF "peak" \in readable THEN kernel.peak ELSE 0
           frame == IF cgroup = "none" THEN 0 ELSE IF mark > 0 THEN mark ELSE current
<1>1. Peak(current, readable) = Max({peakRunning, frame})
  BY DEF Peak
<1>2. frame \in Nat /\ peakRunning \in Nat
  BY DEF Kernel
<1>3. cgroup # "none" /\ current <= kernel.peak => current <= frame
  BY DEF Kernel
<1>4. cgroup # "none" /\ "peak" \in readable /\ kernel.peak > 0 => kernel.peak <= frame
  BY DEF Kernel
<1> HIDE DEF frame
<1>5. /\ Max({peakRunning, frame}) \in Nat
      /\ peakRunning <= Max({peakRunning, frame}) /\ frame <= Max({peakRunning, frame})
  BY <1>2, MaxOfTwo
<1> QED BY <1>1, <1>2, <1>3, <1>4, <1>5 DEF Kernel

(* A product grows with its factor.                                        *)
LEMMA TimesGrows ==
    ASSUME NEW k \in Nat, NEW a \in Nat, NEW b \in Nat, a <= b
    PROVE  k * a \in Nat /\ k * b \in Nat /\ k * a <= k * b
<1>1. PICK d \in Nat : b = a + d
  <2>1. b - a \in Nat /\ b = a + (b - a)
    OBVIOUS
  <2> QED BY <2>1
<1>2. k * b = k * a + k * d /\ k * d \in Nat /\ k * a \in Nat
  BY <1>1
<1> QED BY <1>1, <1>2

(* A frame keeps all of this, and shows peaks that do not fall.            *)
LEMMA MemoryFrameKeeps ==
    ASSUME MemoryInv, NEW readable, MemoryFrame(readable)
    PROVE  /\ MemoryInv'
           /\ steady' => /\ mem.peak <= mem'.peak
                          /\ mem'.current <= mem'.peak /\ mem'.peakWorking <= mem'.peak
           /\ mem.peakWorking <= mem'.peakWorking
           /\ mem'.lifetime => kernel.peak <= mem'.peak
<1> USE DEF MemoryInv
<1>1. PICK current, ws, basis \in Nat :
         /\ current = IF cgroup # "none" /\ "current" \in readable THEN kernel.current ELSE rss
         /\ ws <= current
         /\ basis = GuardBasis(readable)
         /\ peakRunning' = Peak(current, readable)
         /\ peakWorking' = WorkingPeak(ws)
         /\ mem'.current = current /\ mem'.peak = Max({Peak(current, readable), current})
         /\ mem'.working = ws /\ mem'.peakWorking = WorkingPeak(ws)
         /\ mem'.lifetime => cgroup # "none" /\ "peak" \in readable /\ kernel.peak > 0
         /\ mem'.warning => ws * WarnDen >= WarnNum * basis
         /\ mem'.critical => ws * CritDen >= CritNum * basis
         /\ steady' => steady /\ cgroup # "none" /\ "current" \in readable
         /\ UNCHANGED <<cgroup, kernel, rss>>
  BY FrameShows
<1>2. /\ Peak(current, readable) \in Nat /\ peakRunning <= Peak(current, readable)
      /\ cgroup # "none" /\ current <= kernel.peak => current <= Peak(current, readable)
      /\ cgroup # "none" /\ "peak" \in readable /\ kernel.peak > 0 =>
            kernel.peak <= Peak(current, readable)
  BY PeakGrows
<1>3. /\ mem'.peak \in {Peak(current, readable), current} /\ mem'.peak \in Nat
      /\ Peak(current, readable) <= mem'.peak /\ current <= mem'.peak
  <2> DEFINE p == Peak(current, readable)
  <2>1. p \in Nat /\ p \in Int /\ current \in Int /\ mem'.peak = Max({p, current})
    BY <1>1, <1>2
  <2> HIDE DEF p
  <2>2. Max({p, current}) \in {p, current} /\ p <= Max({p, current}) /\ current <= Max({p, current})
    BY <2>1, MaxOfTwo
  <2>3. /\ mem'.peak \in {p, current} /\ mem'.peak \in Nat
        /\ p <= mem'.peak /\ current <= mem'.peak
    BY <2>1, <2>2, Zenon
  <2> QED BY <2>3 DEF p
<1>4. /\ WorkingPeak(ws) \in {peakWorking, ws} /\ WorkingPeak(ws) \in Nat
      /\ peakWorking <= WorkingPeak(ws)
  BY MaxOfTwo DEF WorkingPeak, Kernel
<1>5. Kernel'
  BY <1>1, <1>2, <1>4 DEF Kernel
<1>6. ASSUME steady'
      PROVE  /\ mem'.peak = peakRunning' /\ mem'.current <= peakRunning'
             /\ peakWorking' <= peakRunning' /\ mem.peak <= mem'.peak
  <2>1. steady /\ cgroup # "none" /\ current = kernel.current /\ current <= kernel.peak
    BY <1>1, <1>6 DEF Kernel
  <2>2. current <= Peak(current, readable)
    BY <1>2, <2>1
  <2>3. mem'.peak = Peak(current, readable)
    BY <1>2, <1>3, <2>2
  <2>4. mem.peak = peakRunning /\ peakWorking <= peakRunning
    BY <2>1 DEF Shown
  <2>5. peakWorking <= Peak(current, readable) /\ ws <= Peak(current, readable)
    BY <1>1, <1>2, <2>2, <2>4 DEF Kernel
  <2>6. peakWorking' <= Peak(current, readable)
    BY <1>1, <1>4, <2>5
  <2> QED BY <1>1, <1>2, <2>2, <2>3, <2>4, <2>6
<1>7. Shown'
  BY <1>1, <1>3, <1>6 DEF Shown
<1>8. AlarmMeansDanger'
  <2> DEFINE kill == IF Cap > 0 /\ cgroup # "none" THEN Cap ELSE NodeRam
  <2>1. kill \in Nat /\ kill <= basis
    <3>1. Cap \in Nat /\ NodeRam \in Nat /\ Cap <= NodeRam /\ Cap <= Cap /\ NodeRam <= NodeRam
      BY MemoryAssumption
    <3>2. basis \in {Cap, NodeRam} /\ (basis = Cap => kill = Cap \/ basis = NodeRam)
      BY <1>1 DEF GuardBasis
    <3>3. basis = NodeRam \/ kill = basis
      BY <3>2
    <3> QED BY <3>1, <3>2, <3>3
  <2> HIDE DEF kill
  <2>2. /\ CritNum * kill <= CritNum * basis /\ WarnNum * kill <= WarnNum * basis
        /\ {CritNum * kill, CritNum * basis, WarnNum * kill, WarnNum * basis} \subseteq Nat
    BY <2>1, TimesGrows, MemoryAssumption
  <2>3. ws * CritDen \in Nat /\ ws * WarnDen \in Nat
    BY MemoryAssumption
  <2>4. \A a, b, c \in Nat : a >= b /\ c <= b => a >= c
    OBVIOUS
  <2>5. /\ mem'.critical => ws * CritDen >= CritNum * kill
        /\ mem'.warning => ws * WarnDen >= WarnNum * kill
    BY <1>1, <2>2, <2>3, <2>4, Zenon
  <2> QED BY <1>1, <2>5 DEF AlarmMeansDanger, kill
<1>9. /\ steady' => mem'.peakWorking <= mem'.peak
      /\ mem.peakWorking <= mem'.peakWorking
  BY <1>1, <1>4, <1>6 DEF Shown
<1>10. mem'.lifetime => kernel.peak <= mem'.peak
  <2>1. mem'.lifetime => kernel.peak <= Peak(current, readable)
    BY <1>1, <1>2, Zenon
  <2> QED BY <1>2, <1>3, <2>1 DEF Kernel
<1> QED BY <1>1, <1>3, <1>5, <1>6, <1>7, <1>8, <1>9, <1>10

(* The job uses memory: what was shown stays.                              *)
LEMMA UseKeeps ==
    ASSUME MemoryInv, NEW current \in 0..MaxMem, NEW cache \in 0..MaxMem, NEW resident \in 0..MaxMem,
           UseMemory(current, cache, resident)
    PROVE  MemoryInv' /\ UNCHANGED <<mem, steady>>
<1> USE DEF MemoryInv
<1>1. /\ kernel' = [current |-> current, cache |-> cache, peak |-> Max({kernel.peak, current})]
      /\ rss' = resident /\ UNCHANGED <<cgroup, peakRunning, peakWorking, mem, steady>>
  BY DEF UseMemory
<1>2. kernel.peak \in Int /\ current \in Nat /\ cache \in Nat /\ resident \in Nat
  BY MemoryAssumption DEF Kernel
<1>3. Max({kernel.peak, current}) \in {kernel.peak, current} /\ current <= Max({kernel.peak, current})
  <2>1. current \in Int
    BY <1>2
  <2> QED BY <1>2, <2>1, MaxOfTwo
<1>4. Kernel'
  BY <1>1, <1>2, <1>3 DEF Kernel
<1>5. Shown'
  BY <1>1 DEF Shown
<1>6. AlarmMeansDanger'
  BY <1>1 DEF AlarmMeansDanger
<1> QED BY <1>1, <1>4, <1>5, <1>6

(* Frames of any kind keep the peaks in step with what was shown.          *)
THEOREM MemoryInvCorrect == MemorySpec => []MemoryInv
<1>1. MemoryInit => MemoryInv
  BY DEF MemoryInit, NoMetrics, MemoryInv, Kernel, Shown, AlarmMeansDanger
<1>2. MemoryInv /\ [MemoryNext]_memoryVars => MemoryInv'
  <2>1. MemoryInv /\ UNCHANGED memoryVars => MemoryInv'
    BY DEF memoryVars, MemoryInv, Kernel, Shown, AlarmMeansDanger
  <2> QED BY <2>1, MemoryFrameKeeps, UseKeeps DEF MemoryNext
<1> QED BY <1>1, <1>2, PTL DEF MemorySpec

(* The alarm means the kill, and the peaks can be relied on.               *)
THEOREM MemoryTrue == MemorySpec => MemoryIsTrue
<1>1. MemoryInv => AlarmMeansDanger
  BY DEF MemoryInv
<1>2. MemoryInv /\ [MemoryNext]_memoryVars =>
        [/\ steady' => /\ mem.peak <= mem'.peak
                        /\ mem'.current <= mem'.peak /\ mem'.peakWorking <= mem'.peak
         /\ mem.peakWorking <= mem'.peakWorking
         /\ mem' # mem /\ mem'.lifetime => kernel.peak <= mem'.peak]_memoryVars
  <2> SUFFICES ASSUME MemoryInv, MemoryNext
               PROVE  /\ steady' => /\ mem.peak <= mem'.peak
                                     /\ mem'.current <= mem'.peak /\ mem'.peakWorking <= mem'.peak
                      /\ mem.peakWorking <= mem'.peakWorking
                      /\ mem' # mem /\ mem'.lifetime => kernel.peak <= mem'.peak
    OBVIOUS
  <2>1. ASSUME NEW readable, MemoryFrame(readable)
        PROVE  /\ steady' => /\ mem.peak <= mem'.peak
                              /\ mem'.current <= mem'.peak /\ mem'.peakWorking <= mem'.peak
               /\ mem.peakWorking <= mem'.peakWorking
               /\ mem' # mem /\ mem'.lifetime => kernel.peak <= mem'.peak
    BY <2>1, MemoryFrameKeeps
  <2>2. ASSUME UNCHANGED <<mem, steady>>
        PROVE  /\ steady' => /\ mem.peak <= mem'.peak
                              /\ mem'.current <= mem'.peak /\ mem'.peakWorking <= mem'.peak
               /\ mem.peakWorking <= mem'.peakWorking
               /\ mem' # mem /\ mem'.lifetime => kernel.peak <= mem'.peak
    BY <2>2 DEF MemoryInv, Kernel, Shown
  <2> QED BY <2>1, <2>2, UseKeeps DEF MemoryNext
<1> QED BY <1>1, <1>2, MemoryInvCorrect, PTL DEF MemorySpec, MemoryIsTrue, PeakHolds

-----------------------------------------------------------------------------

(* A baseline belongs to the counter it was read from, and a cgroup's      *)
(* counter has moved on from it no faster than the job's CPUs can.         *)
Baseline ==
    /\ clock \in Nat /\ counter \in [Sources -> Nat]
    /\ prevNs \in Nat \cup {-1} /\ prevAt \in Nat /\ prevAt <= clock
    /\ prevSource \in Sources \cup {None}
    /\ \A s \in {"v1", "v2"} : prevSource = s =>
          prevNs <= counter[s] /\ counter[s] - prevNs <= Cpus * (clock - prevAt)
    /\ base \in Nat /\ measured \in Nat /\ reported \in Nat
    /\ busy \in Nat /\ over \in Nat /\ ceiling \in Nat \cup {NoCeiling, Unset}

(* The peak covers the rate beside it.                                     *)
PeakCovers ==
    /\ peak.n \in Nat /\ peak.d \in Nat
    /\ over > 0 => AtMost(busy, over, peak.n, peak.d)

CpuInv == Baseline /\ PeakCovers /\ RateIsTrue

(* The counters of a job that runs grow with the clock.                    *)
LEMMA ComputeKeeps ==
    ASSUME CpuInv, NEW ticks \in 0..Cpus, Compute(ticks)
    PROVE  CpuInv'
<1> USE DEF CpuInv
<1>1. /\ clock' = clock + 1 /\ counter' = [s \in Sources |-> counter[s] + ticks]
      /\ UNCHANGED <<prevNs, prevAt, prevSource, ceiling, busy, over, peak, reported, base, measured>>
  BY DEF Compute, cpuBaseline
<1>2. /\ clock \in Nat /\ prevAt \in Nat /\ prevAt <= clock /\ counter \in [Sources -> Nat]
      /\ ticks \in Nat /\ ticks <= Cpus /\ Cpus \in Nat
  BY CpuRateAssumption DEF Baseline
<1>3. Cpus * (clock' - prevAt) = Cpus * (clock - prevAt) + Cpus
  BY <1>1, <1>2
<1>4. ASSUME NEW s \in {"v1", "v2"}, prevSource = s
      PROVE  prevNs <= counter'[s] /\ counter'[s] - prevNs <= Cpus * (clock' - prevAt)
  <2>1. /\ prevNs <= counter[s] /\ counter[s] - prevNs <= Cpus * (clock - prevAt)
        /\ prevNs \in Int /\ counter[s] \in Nat /\ counter'[s] = counter[s] + ticks
    BY <1>1, <1>2, <1>4 DEF Baseline, Sources
  <2> DEFINE room == Cpus * (clock - prevAt)
  <2>2. room \in Int
    BY <1>2
  <2> HIDE DEF room
  <2>3. counter'[s] - prevNs <= room + Cpus
    BY <1>2, <2>1, <2>2 DEF room
  <2> QED BY <1>2, <1>3, <2>1, <2>3 DEF room
<1>5. counter' \in [Sources -> Nat] /\ clock' \in Nat /\ prevAt <= clock'
  BY <1>1, <1>2
<1>6. Baseline'
  BY <1>1, <1>4, <1>5 DEF Baseline
<1>7. PeakCovers' /\ RateIsTrue'
  BY <1>1 DEF PeakCovers, RateIsTrue
<1> QED BY <1>6, <1>7

(* Only the /proc account steps back.                                      *)
LEMMA HandBackKeeps ==
    ASSUME CpuInv, NEW ticks \in 1..MaxBack, HandBack(ticks)
    PROVE  CpuInv'
<1> USE DEF CpuInv
<1>1. /\ counter["proc"] >= ticks /\ counter' = [counter EXCEPT !["proc"] = @ - ticks]
      /\ UNCHANGED <<clock, prevNs, prevAt, prevSource, ceiling, busy, over, peak, reported, base, measured>>
  BY DEF HandBack, cpuBaseline
<1>2. counter \in [Sources -> Nat] /\ "proc" \in Sources /\ ticks \in Nat
  BY CpuRateAssumption DEF Baseline, Sources
<1>3. counter["proc"] - ticks \in Nat
  BY <1>1, <1>2
<1>4. counter' \in [Sources -> Nat] /\ counter'["v1"] = counter["v1"] /\ counter'["v2"] = counter["v2"]
  BY <1>1, <1>2, <1>3 DEF Sources
<1>5. Baseline'
  BY <1>1, <1>4 DEF Baseline
<1>6. PeakCovers' /\ RateIsTrue'
  BY <1>1 DEF PeakCovers, RateIsTrue
<1> QED BY <1>5, <1>6

(* The growth that a frame measures lands in one window.                   *)
LEMMA MeasureKeeps ==
    ASSUME CpuInv, NEW s \in Sources, NEW affinityRead, Measure(s, affinityRead), Comparable(s),
           UNCHANGED <<clock, counter>>, reported' \in Nat
    PROVE  Baseline' /\ RateIsTrue'
<1> USE DEF CpuInv
<1>1. /\ prevSource = s /\ prevNs \in Nat /\ counter[s] \in Nat /\ s # None
      /\ clock \in Nat /\ prevAt \in Nat /\ prevAt <= clock /\ Cpus \in Nat
      /\ measured \in Nat /\ base \in Nat
  <2>1. s # None
    BY DEF Sources, None
  <2> QED BY <2>1, CpuRateAssumption DEF Baseline, Comparable
<1>2. CASE clock - prevAt < MinDt
  <2>1. busy' = 0 /\ over' = 0 /\ UNCHANGED <<prevNs, prevAt, prevSource, base, measured, ceiling>>
    BY <1>2 DEF Measure, cpuBaseline
  <2> QED BY <1>1, <2>1 DEF Baseline, RateIsTrue
<1>3. CASE ~(clock - prevAt < MinDt)
  <2> DEFINE delta == Max({0, counter[s] - prevNs})
             dt == clock - prevAt
             limit == LookUpCeiling(affinityRead)
  <2>1. /\ ceiling' = limit
        /\ busy' = IF limit \in Nat THEN Min({delta, limit * dt}) ELSE delta
        /\ over' = dt /\ prevNs' = counter[s] /\ prevAt' = clock /\ prevSource' = prevSource
        /\ measured' = measured + delta /\ base' = base
    BY <1>3 DEF Measure
  <2>2. dt \in Nat
    BY <1>1
  <2>3. /\ delta \in {0, counter[s] - prevNs} /\ 0 <= delta /\ counter[s] - prevNs <= delta
    <3> DEFINE grown == counter[s] - prevNs
    <3>1. grown \in Int /\ 0 \in Int
      BY <1>1
    <3> HIDE DEF grown
    <3>2. Max({0, grown}) \in {0, grown} /\ 0 <= Max({0, grown}) /\ grown <= Max({0, grown})
      BY <3>1, MaxOfTwo
    <3> QED BY <3>2 DEF grown
  <2>4. delta \in Nat
    BY <1>1, <2>3
  <2>5. limit \in Nat \cup {NoCeiling, Unset}
    BY CpuRateAssumption DEF LookUpCeiling, Baseline
  <2> HIDE DEF delta, limit
  <2>6. busy' \in Nat /\ busy' <= delta
    <3>1. CASE limit \in Nat
      <4>1. limit * dt \in Nat
        BY <2>2, <3>1
      <4> HIDE DEF dt
      <4>2. Min({delta, limit * dt}) \in {delta, limit * dt} /\ Min({delta, limit * dt}) <= delta
        BY <2>4, <4>1, MinOfTwo
      <4> QED BY <2>1, <2>4, <3>1, <4>1, <4>2
    <3>2. CASE limit \notin Nat
      BY <2>1, <2>4, <3>2
    <3> QED BY <3>1, <3>2
  <2>7. s # "proc" => delta = counter[s] - prevNs /\ delta <= Cpus * dt
    BY <1>1, <2>3 DEF Baseline, Sources, delta
  <2>8. Baseline'
    <3>1. Cpus * (clock - clock) = 0 /\ counter[s] - counter[s] = 0 /\ clock <= clock
          /\ counter[s] <= counter[s]
      BY <1>1
    <3> QED BY <1>1, <2>1, <2>2, <2>4, <2>5, <2>6, <3>1 DEF Baseline
  <2>9. RateIsTrue'
    <3>1. prevSource \in {"v1", "v2"} => busy' <= Cpus * dt
      <4>1. Cpus * dt \in Nat
        BY <1>1, <2>2
      <4> HIDE DEF dt
      <4> QED BY <1>1, <2>4, <2>6, <2>7, <4>1
    <3>2. /\ measured >= prevNs - base
          /\ s # "proc" => measured = prevNs - base
      BY <1>1 DEF RateIsTrue
    <3>3. measured + delta >= counter[s] - base
      BY <1>1, <2>3, <2>4, <3>2
    <3>4. s # "proc" => measured + delta = counter[s] - base
      BY <1>1, <2>4, <2>7, <3>2
    <3> HIDE DEF dt
    <3> QED BY <1>1, <2>1, <3>1, <3>3, <3>4 DEF RateIsTrue
  <2> QED BY <2>8, <2>9
<1> QED BY <1>2, <1>3

(* A rate has to be seeded first, and a seed measures nothing.             *)
LEMMA SeedKeeps ==
    ASSUME CpuInv, NEW s \in Sources, Seed(s), UNCHANGED <<clock, counter>>, reported' \in Nat
    PROVE  Baseline' /\ RateIsTrue'
<1>1. /\ prevNs' = counter[s] /\ prevAt' = clock /\ prevSource' = s
      /\ base' = counter[s] /\ measured' = 0 /\ busy' = 0 /\ over' = 0 /\ ceiling' = ceiling
  BY DEF Seed
<1>2. counter[s] \in Nat /\ clock \in Nat /\ Cpus \in Nat
  BY CpuRateAssumption DEF CpuInv, Baseline
<1>3. /\ Cpus * (clock - clock) = 0 /\ counter[s] - counter[s] = 0 /\ clock <= clock
      /\ counter[s] <= counter[s] /\ Cpus * 0 = 0
  BY <1>2
<1>4. Baseline'
  BY <1>1, <1>2, <1>3 DEF CpuInv, Baseline
<1>5. RateIsTrue'
  BY <1>1, <1>2, <1>3 DEF RateIsTrue
<1> QED BY <1>4, <1>5

(* The peak is raised to what is above it, and never lowered.              *)
LEMMA PeakRaised ==
    ASSUME CpuInv, RaisePeak, busy' \in Nat, over' \in Nat
    PROVE  PeakCovers' /\ AtMost(peak.n, peak.d, peak'.n, peak'.d)
<1>1. peak.n \in Nat /\ peak.d \in Nat
  BY DEF CpuInv, PeakCovers
<1>2. \A a, b \in Nat : a * b \in Nat
  OBVIOUS
<1>3. CASE over' > 0 /\ ~AtMost(busy', over', peak.n, peak.d)
  <2>1. peak'.n = busy' /\ peak'.d = over'
    BY <1>3 DEF RaisePeak
  <2>2. peak.n * over' <= busy' * peak.d
    <3> DEFINE a == busy' * peak.d
               b == peak.n * over'
    <3>1. a \in Nat /\ b \in Nat /\ ~(a <= b)
      BY <1>1, <1>2, <1>3 DEF AtMost
    <3> HIDE DEF a, b
    <3>2. b <= a
      BY <3>1
    <3> QED BY <3>2 DEF a, b
  <2>3. busy' * over' <= busy' * over'
    <3> DEFINE a == busy' * over'
    <3>1. a \in Nat
      BY <1>2
    <3> HIDE DEF a
    <3>2. a <= a
      BY <3>1
    <3> QED BY <3>2 DEF a
  <2> QED BY <2>1, <2>2, <2>3 DEF PeakCovers, AtMost
<1>4. CASE ~(over' > 0 /\ ~AtMost(busy', over', peak.n, peak.d))
  <2>1. peak' = peak
    BY <1>4 DEF RaisePeak
  <2>2. peak.n * peak.d <= peak.n * peak.d
    <3>1. peak.n * peak.d \in Nat
      BY <1>1, <1>2
    <3> QED BY <3>1
  <2>3. AtMost(peak.n, peak.d, peak'.n, peak'.d)
    BY <2>1, <2>2 DEF AtMost
  <2>4. PeakCovers'
    BY <1>1, <1>4, <2>1 DEF PeakCovers
  <2> QED BY <2>3, <2>4
<1> QED BY <1>3, <1>4

(* A frame, whichever source answers it, if any does.                      *)
LEMMA CpuFrameKeeps ==
    ASSUME CpuInv, NEW readable, NEW affinityRead, CpuFrame(readable, affinityRead)
    PROVE  /\ CpuInv' /\ reported' >= reported
           /\ AtMost(peak.n, peak.d, peak'.n, peak'.d)
<1> DEFINE s == SourceOf(readable)
<1>1. s \in Sources \cup {None} /\ UNCHANGED <<clock, counter>> /\ RaisePeak
  BY DEF SourceOf, Sources, CpuFrame
<1>2. reported \in Nat /\ counter \in [Sources -> Nat]
  BY DEF CpuInv, Baseline
<1>3. CASE s = None
  <2>1. /\ busy' = 0 /\ over' = 0
        /\ UNCHANGED <<prevNs, prevAt, prevSource, base, measured, ceiling, reported>>
    BY <1>3 DEF CpuFrame, cpuBaseline
  <2>2. Cpus * 0 = 0
    BY CpuRateAssumption
  <2>3. Baseline' /\ RateIsTrue'
    BY <1>1, <2>1, <2>2 DEF CpuInv, Baseline, RateIsTrue
  <2>4. PeakCovers' /\ AtMost(peak.n, peak.d, peak'.n, peak'.d)
    BY <1>1, <2>1, PeakRaised
  <2> QED BY <1>2, <2>1, <2>3, <2>4 DEF CpuInv
<1>4. CASE s # None
  <2>1. (IF Comparable(s) THEN Measure(s, affinityRead) ELSE Seed(s)) /\ Report(s)
    BY <1>4 DEF CpuFrame
  <2>2. s \in Sources /\ reported \in Int /\ counter[s] \in Int
    BY <1>1, <1>2, <1>4
  <2> HIDE DEF s
  <2>3. /\ Max({reported, counter[s]}) \in {reported, counter[s]}
        /\ reported <= Max({reported, counter[s]})
    BY <2>2, MaxOfTwo
  <2>4. reported' \in Nat /\ reported' >= reported
    BY <1>2, <2>1, <2>2, <2>3 DEF Report
  <2>5. Baseline' /\ RateIsTrue'
    BY <1>1, <2>1, <2>2, <2>4, MeasureKeeps, SeedKeeps
  <2>6. PeakCovers' /\ AtMost(peak.n, peak.d, peak'.n, peak'.d)
    <3>1. busy' \in Nat /\ over' \in Nat
      BY <2>5 DEF Baseline
    <3> QED BY <1>1, <3>1, PeakRaised
  <2> QED BY <2>4, <2>5, <2>6 DEF CpuInv
<1> QED BY <1>3, <1>4

(* Baselines, windows and peak keep together.                              *)
THEOREM CpuInvCorrect == CpuRateSpec => []CpuInv
<1>1. CpuRateInit => CpuInv
  <2> SUFFICES ASSUME CpuRateInit PROVE CpuInv
    OBVIOUS
  <2>1. Baseline
    <3>1. counter \in [Sources -> Nat]
      BY CpuRateAssumption DEF CpuRateInit, Sources
    <3> QED BY <3>1 DEF CpuRateInit, Baseline, None
  <2>2. PeakCovers /\ RateIsTrue
    BY DEF CpuRateInit, PeakCovers, RateIsTrue, None
  <2> QED BY <2>1, <2>2 DEF CpuInv
<1>2. CpuInv /\ [CpuRateNext]_cpuRateVars => CpuInv'
  <2>1. CpuInv /\ UNCHANGED cpuRateVars => CpuInv'
    BY DEF cpuRateVars, cpuBaseline, CpuInv, Baseline, PeakCovers, RateIsTrue
  <2> QED BY <2>1, ComputeKeeps, HandBackKeeps, CpuFrameKeeps DEF CpuRateNext
<1> QED BY <1>1, <1>2, PTL DEF CpuRateSpec

(* The CPU figures are ones the job can have had, and do not fall.         *)
THEOREM CpuTrue == CpuRateSpec => CpuIsTrue
<1>1. CpuInv => RateIsTrue
  BY DEF CpuInv
<1>2. CpuInv /\ CpuInv' /\ [CpuRateNext]_cpuRateVars =>
        [/\ reported' >= reported
         /\ AtMost(peak.n, peak.d, peak'.n, peak'.d)
         /\ over' > 0 => AtMost(busy', over', peak'.n, peak'.d)]_cpuRateVars
  <2> SUFFICES ASSUME CpuInv, CpuInv', CpuRateNext
               PROVE  /\ reported' >= reported
                      /\ AtMost(peak.n, peak.d, peak'.n, peak'.d)
                      /\ over' > 0 => AtMost(busy', over', peak'.n, peak'.d)
    OBVIOUS
  <2>1. over' > 0 => AtMost(busy', over', peak'.n, peak'.d)
    BY DEF CpuInv, PeakCovers
  <2>2. ASSUME UNCHANGED <<reported, peak>>
        PROVE  reported' >= reported /\ AtMost(peak.n, peak.d, peak'.n, peak'.d)
    <3>1. peak.n * peak.d \in Nat /\ reported \in Nat
      BY DEF CpuInv, Baseline, PeakCovers
    <3>2. peak.n * peak.d <= peak.n * peak.d /\ reported >= reported
      BY <3>1
    <3> QED BY <2>2, <3>2 DEF AtMost
  <2>3. (\E ticks \in 0..Cpus : Compute(ticks)) \/ (\E ticks \in 1..MaxBack : HandBack(ticks)) =>
           UNCHANGED <<reported, peak>>
    BY DEF Compute, HandBack
  <2> QED BY <2>1, <2>2, <2>3, CpuFrameKeeps DEF CpuRateNext
<1> QED BY <1>1, <1>2, CpuInvCorrect, PTL DEF CpuRateSpec, CpuIsTrue, CpuNeverFalls

-----------------------------------------------------------------------------
(* What a frame shows is what the cache keeps, and the cache keeps the     *)
(* last answer sstat gave, with the times that belong to it.               *)
Kept ==
    /\ sampled => usage.sampled
    /\ usage.sampled => /\ asked > 0
                        /\ usage.cpu = truth.cpu
                        /\ elapsed = truth.at /\ measuredAt = truth.at

Times ==
    /\ now \in Nat /\ asked \in Nat /\ elapsed \in Nat /\ measuredAt \in Nat
    /\ truth.at \in Nat /\ asked <= now /\ measuredAt <= now
    /\ now > 0 /\ calls = asked
    /\ usage.sampled \in BOOLEAN

RemoteInv == Times /\ Kept /\ SampleIsWhole

(* Nothing has been asked of sstat at first.                               *)
LEMMA RemoteStart == RemoteInit => RemoteInv
BY DEF RemoteInit, NoSample, RemoteInv, Times, Kept, SampleIsWhole

(* A frame from the cache, whether it was asked for again or not.          *)
LEMMA FrameKeeps ==
  ASSUME RemoteInv, Show(usage, elapsed), age' = now - measuredAt,
         UNCHANGED <<now, usage, elapsed, measuredAt, truth>>,
         asked' = asked \/ asked' = now, calls' = asked'
  PROVE  RemoteInv'
<1>1. shown'.cpu = usage.cpu /\ shown'.over = elapsed /\ shown'.at = now
  BY DEF Show
<1>2. sampled' = usage.sampled
  BY DEF Show
<1>3. Times'
  BY DEF RemoteInv, Times
<1>4. Kept'
  BY <1>2 DEF RemoteInv, Kept, Times
<1>5. SampleIsWhole'
  BY <1>1, <1>2 DEF RemoteInv, Kept, Times, SampleIsWhole
<1> QED BY <1>3, <1>4, <1>5 DEF RemoteInv

(* A frame that asked sstat keeps the invariant, whatever it answered.     *)
LEMMA AnswerKeeps ==
  ASSUME RemoteInv, NEW u, u.sampled \in BOOLEAN, RemoteFrameAnswered(u)
  PROVE  RemoteInv'
<1>1. /\ shown'.cpu = u.cpu /\ shown'.over = now /\ shown'.at = now
      /\ sampled' = u.sampled /\ usage' = u /\ elapsed' = now /\ measuredAt' = now
      /\ asked' = now /\ calls' = now /\ age' = 0 /\ now' = now
  BY DEF RemoteFrameAnswered, Show
<1>2. IF u.sampled THEN truth'.cpu = u.cpu /\ truth'.at = now ELSE truth' = truth
  BY DEF RemoteFrameAnswered
<1>3. Times'
  BY <1>1, <1>2 DEF RemoteInv, Times
<1>4. Kept'
  BY <1>1, <1>2 DEF RemoteInv, Kept, Times
<1>5. SampleIsWhole'
  BY <1>1, <1>2 DEF RemoteInv, Times, SampleIsWhole
<1> QED BY <1>3, <1>4, <1>5 DEF RemoteInv

(* What is made of the rows says whether anything was measured ...         *)
LEMMA ResolveSampled == \A rows, novalue : Resolve(rows, novalue).sampled \in BOOLEAN
BY DEF Resolve

(* ... and so does the sample of a query that failed.                      *)
LEMMA NoSampleSampled == NoSample.sampled \in BOOLEAN
BY DEF NoSample

(* Every frame and every tick keep the invariant.                          *)
LEMMA RemoteStep ==
  ASSUME RemoteInv, [RemoteNext]_remoteVars
  PROVE  RemoteInv'
<1>1. ASSUME NEW working \in SUBSET Steps, TimePasses(working) PROVE RemoteInv'
  BY <1>1 DEF TimePasses, remoteCache, RemoteInv, Times, Kept, SampleIsWhole
<1>2. CASE RemoteFrameCached
  BY <1>2, FrameKeeps DEF RemoteFrameCached, remoteCache, RemoteInv, Times
<1>3. CASE RemoteFrameFailed
  BY <1>3, FrameKeeps DEF RemoteFrameFailed, Keep
<1>4. CASE RemoteFrameAnswered(NoSample)
  BY <1>4, AnswerKeeps, NoSampleSampled
<1>5. ASSUME NEW rows \in SUBSET Steps, NEW novalue \in SUBSET rows,
             RemoteFrameAnswered(Resolve(rows, novalue))
      PROVE  RemoteInv'
  BY <1>5, AnswerKeeps, ResolveSampled
<1>6. CASE UNCHANGED remoteVars
  BY <1>6 DEF remoteVars, remoteCache, RemoteInv, Times, Kept, SampleIsWhole
<1> QED BY <1>1, <1>2, <1>3, <1>4, <1>5, <1>6 DEF RemoteNext

(* The cached sample, its time and the frame stay of one answer.           *)
THEOREM RemoteInvCorrect == RemoteSpec => []RemoteInv
BY RemoteStart, RemoteStep, PTL DEF RemoteSpec

(* Every figure shown goes with the time it was measured at.               *)
THEOREM SampleWhole == RemoteSpec => []SampleIsWhole
<1>1. RemoteInv => SampleIsWhole
  BY DEF RemoteInv
<1> QED BY <1>1, RemoteInvCorrect, PTL

(* A measured job stays measured, and sstat is left its interval.          *)
LEMMA AnswerAllows ==
  ASSUME RemoteInv, NEW u, u.sampled \in BOOLEAN, RemoteFrameAnswered(u)
  PROVE  /\ sampled => sampled'
         /\ calls' # calls /\ calls > 0 => calls' - calls >= MinInterval
<1>1. sampled' = u.sampled /\ calls' = now
  BY DEF RemoteFrameAnswered, Show
<1>2. sampled => u.sampled
  BY DEF RemoteFrameAnswered, RemoteInv, Kept, Times
<1>3. calls > 0 => now - calls >= MinInterval
  BY RemoteAssumption DEF RemoteFrameAnswered, Fresh, RemoteInv, Times
<1> QED BY <1>1, <1>2, <1>3

(* A measured job is never declared unmeasured, nor sstat asked too often  *)
(* (_remote_usage).                                                        *)
THEOREM SampleKept == RemoteSpec => SampleIsKept
<1> DEFINE Allowed == /\ sampled => sampled'
                      /\ calls' # calls /\ calls > 0 => calls' - calls >= MinInterval
<1>1. RemoteInv /\ [RemoteNext]_remoteVars => [Allowed]_remoteVars
  <2> SUFFICES ASSUME RemoteInv, RemoteNext PROVE Allowed
    OBVIOUS
  <2>1. ASSUME NEW working \in SUBSET Steps, TimePasses(working) PROVE Allowed
    BY <2>1 DEF TimePasses
  <2>2. CASE RemoteFrameCached
    BY <2>2 DEF RemoteFrameCached, Show, RemoteInv, Kept
  <2>3. CASE RemoteFrameFailed
    BY <2>3, RemoteAssumption DEF RemoteFrameFailed, Show, Fresh, RemoteInv, Times
  <2>4. CASE RemoteFrameAnswered(NoSample)
    BY <2>4, AnswerAllows, NoSampleSampled
  <2>5. ASSUME NEW rows \in SUBSET Steps, NEW novalue \in SUBSET rows,
               RemoteFrameAnswered(Resolve(rows, novalue))
        PROVE  Allowed
    BY <2>5, AnswerAllows, ResolveSampled
  <2> QED BY <2>1, <2>2, <2>3, <2>4, <2>5 DEF RemoteNext
<1> QED BY <1>1, RemoteInvCorrect, PTL DEF RemoteSpec, SampleIsKept

-----------------------------------------------------------------------------
(* What the processes hold of the job's CPU time, and what the account     *)
(* holds of that: the figures of those that are there, and of those that   *)
(* went and that an ancestor is going to report again.                     *)
Held == [p \in Pids |-> Figure(p)]
Due(p) == p \in DOMAIN seen /\ (Exists(p) \/ HandedBack(p))
Owed == [p \in Pids |-> IF Due(p) THEN seen[p] ELSE 0]

(* A process has a parent that lives or one outside the job; only one with *)
(* a parent to reap it is left as a zombie.                                *)
Tree ==
    \A p \in Pids :
        /\ ~Exists(p) => proc[p] = NoProcess
        /\ Exists(p) /\ proc[p].parent # Outside => proc[p].parent \in Live \ {p}
        /\ proc[p].st = "zombie" => proc[p].parent # Outside

(* Whether an ancestor reports a process again is settled when it is first *)
(* read, since a poll that lists a process lists the parent it has in the  *)
(* job; only of one that loses its parent later is that untrue.            *)
Kinship ==
    /\ DOMAIN seen \subseteq DOMAIN fromJob
    /\ \A p \in DOMAIN fromJob :
          Exists(p) => (fromJob[p] <=> proc[p].parent # Outside \/ p \in orphaned)
    /\ \A p \in orphaned : p \in DOMAIN fromJob /\ Exists(p) /\ proc[p].parent = Outside
    /\ \A p \in pids : Exists(p) /\ proc[p].parent # Outside => proc[p].parent \in pids
    /\ ~polling => toRead = {}

Balance ==
    /\ \A p \in DOMAIN seen : Exists(p) => seen[p] <= Figure(p)
    /\ accum + missed + stray + SumOver(Held, Pids) = used + SumOver(Owed, Pids)
    /\ missed + stray + SumOver(Held, Pids) <= used

Current(p) == IF p \in DOMAIN seen THEN seen[p] = Figure(p) ELSE Figure(p) = 0

(* Once the job has been still for a whole poll.                           *)
Still ==
    /\ quiet >= 1 /\ polling =>
          /\ \A p \in pids : Exists(p) /\ (p \notin toRead => Current(p))
          /\ Live \subseteq pids
    /\ quiet = 2 /\ ~polling =>
          /\ \A p \in Live : Current(p)
          /\ \A p \in DOMAIN seen : Exists(p)

AccountInv == ProcCpuTypeOK /\ Tree /\ Kinship /\ Balance /\ Still

(* A sum over some is one over all, in which the others count for nothing. *)
LEMMA SumMasked ==
    ASSUME NEW S, IsFiniteSet(S), NEW B \in SUBSET S, NEW f, \A x \in B : f[x] \in Nat,
           NEW masked, masked = [x \in S |-> IF x \in B THEN f[x] ELSE 0]
    PROVE  masked \in [S -> Nat] /\ SumFunctionOnSet(f, B) = SumOver(masked, S)
<1> DEFINE zero == [x \in S |-> 0]
<1>1. masked \in [S -> Nat] /\ zero \in [S -> Nat]
  OBVIOUS
<1>2. /\ \A x \in B : zero[x] = 0 /\ masked[x] = f[x]
      /\ \A x \in S \ B : zero[x] = masked[x]
      /\ \A x \in S : zero[x] = 0
  OBVIOUS
<1>3. IsFiniteSet(B) /\ S \in SUBSET S
  BY FS_Subset
<1>4. SumFunctionOnSet(f, B) = SumOver(f, B)
  BY DEF SumFunctionOnSet, FoldFunctionOnSet, SumOver, MapThenSumSet
<1> HIDE DEF zero
<1>5. SumOver(zero, S) = 0
  <2>1. SumOver(zero, S) = SumOver(zero, S) + SumOver(zero, S) /\ SumOver(zero, S) \in Nat
    BY <1>1, <1>2, <1>3, SumSplit, SumNat
  <2>2. \A n \in Nat : n = n + n => n = 0
    OBVIOUS
  <2> QED BY <2>1, <2>2
<1>6. SumOver(masked, S) = SumOver(masked, B) + SumOver(zero, S)
  BY <1>1, <1>2, SumSplit
<1>7. SumOver(masked, B) = SumOver(f, B)
  BY <1>2, <1>3, SumSame
<1>8. SumOver(masked, S) \in Nat
  BY <1>1, SumNat
<1>9. SumOver(masked, B) \in Int
  <2>1. masked \in [S -> Int]
    BY <1>1
  <2> QED BY <2>1, SumAdds
<1>10. SumFunctionOnSet(f, B) = SumOver(masked, S)
  BY <1>4, <1>5, <1>6, <1>7, <1>9
<1> QED BY <1>1, <1>10

(* Both sums are natural numbers.                                          *)
LEMMA SumsType ==
    ASSUME ProcCpuTypeOK
    PROVE  /\ IsFiniteSet(Pids)
           /\ \A p \in Pids : Figure(p) \in Nat
           /\ Held \in [Pids -> Nat] /\ Owed \in [Pids -> Nat]
           /\ SumOver(Held, Pids) \in Nat /\ SumOver(Owed, Pids) \in Nat
<1>1. \A p \in Pids : Figure(p) \in Nat
  BY DEF ProcCpuTypeOK, Figure
<1>2. Held \in [Pids -> Nat]
  BY <1>1 DEF Held
<1>3. Owed \in [Pids -> Nat]
  <2>1. \A p \in Pids : Due(p) => seen[p] \in Nat
    BY DEF ProcCpuTypeOK, Due
  <2> QED BY <2>1 DEF Owed
<1>4. IsFiniteSet(Pids)
  BY ProcCpuAssumption
<1> QED BY <1>1, <1>2, <1>3, <1>4, SumNat

(* The record of a free pid is a record of a process.                      *)
LEMMA NoProcessType ==
    NoProcess \in [st : {"none", "live", "zombie"}, parent : Pids \cup {Outside},
                   own : Nat, kids : Nat]
BY DEF NoProcess

(* Before the first frame the account balances.                            *)
LEMMA AccountStart == ProcCpuInit => AccountInv
<1> SUFFICES ASSUME ProcCpuInit PROVE AccountInv
  OBVIOUS
<1> USE DEF ProcCpuInit
<1>1. DOMAIN seen = {} /\ DOMAIN fromJob = {}
  OBVIOUS
<1>2. ProcCpuTypeOK
  <2>1. proc \in [Pids -> [st : {"none", "live", "zombie"}, parent : Pids \cup {Outside},
                            own : Nat, kids : Nat]]
    BY NoProcessType
  <2>2. used \in 0..MaxTicks /\ missed \in Nat /\ stray \in Nat /\ orphaned \subseteq Pids /\ accum \in Nat /\ quiet \in 0..2
    BY ProcCpuAssumption
  <2> QED BY <1>1, <2>1, <2>2 DEF ProcCpuTypeOK
<1>3. \A p \in Pids : ~Exists(p) /\ Figure(p) = 0
  BY DEF Exists, Figure, NoProcess
<1>4. Tree
  BY <1>3 DEF Tree, NoProcess
<1>5. Kinship
  BY <1>1 DEF Kinship
<1>6. Balance
  <2>1. Held = Owed
    BY <1>1, <1>3 DEF Held, Owed, Due
  <2>2. \A p \in Pids : Held[p] = 0
    BY <1>3 DEF Held
  <2>3. SumOver(Held, Pids) = 0
    <3>1. [p \in Pids |-> 0] \in [Pids -> Nat] /\ Held = [p \in Pids |-> 0]
      BY <1>3 DEF Held
    <3>2. SumOver(Held, Pids) = SumOver(Held, Pids) + SumOver(Held, Pids)
      <4>1. Pids \in SUBSET Pids /\ \A p \in Pids : Held[p] = 0
        BY <2>2
      <4> QED BY <1>2, <4>1, SumsType, SumSplit
    <3> QED BY <1>2, <3>2, SumsType
  <2> QED BY <1>1, <2>1, <2>3 DEF Balance
<1>7. Still
  BY DEF Still
<1> QED BY <1>2, <1>4, <1>5, <1>6, <1>7 DEF AccountInv

(* A step that leaves a process out has its figure as it was.              *)
LEMMA Untouched ==
    ASSUME NEW p, proc'[p] = proc[p]
    PROVE  Figure(p)' = Figure(p) /\ (Exists(p)' <=> Exists(p)) /\ (p \in Pids => (p \in Live' <=> p \in Live))
BY DEF Figure, Exists, Live

(* A new process has used nothing and is not in the account.               *)
LEMMA ForkKeeps ==
    ASSUME AccountInv, NEW p \in Pids, NEW parent \in Pids \cup {Outside}, Fork(parent, p)
    PROVE  AccountInv'
<1> DEFINE new == [NoProcess EXCEPT !.st = "live", !.parent = parent]
<1>1. /\ ~Exists(p) /\ p \notin pids /\ p \notin DOMAIN seen /\ p \notin DOMAIN fromJob
      /\ parent \in Live \cup {Outside}
      /\ proc' = [proc EXCEPT ![p] = new]
      /\ used' = used /\ missed' = missed /\ quiet' = 0 /\ UNCHANGED <<orphaned, stray>>
      /\ UNCHANGED <<pids, toRead, polling, seen, fromJob, accum>>
  BY DEF Fork, Untracked, WorldMoves, account
<1>2. new = [st |-> "live", parent |-> parent, own |-> 0, kids |-> 0]
  <2>1. ASSUME NEW r, r = [st |-> "none", parent |-> Outside, own |-> 0, kids |-> 0],
               NEW n, n = [r EXCEPT !.st = "live", !.parent = parent]
        PROVE  n = [st |-> "live", parent |-> parent, own |-> 0, kids |-> 0]
    <3>1. n = [st |-> n.st, parent |-> n.parent, own |-> n.own, kids |-> n.kids]
      BY <2>1, Zenon
    <3>2. n.st = "live" /\ n.parent = parent /\ n.own = 0 /\ n.kids = 0
      BY <2>1
    <3> HIDE <2>1
    <3> QED BY <3>1, <3>2
  <2> HIDE DEF new
  <2>2. NoProcess = [st |-> "none", parent |-> Outside, own |-> 0, kids |-> 0]
    BY DEF NoProcess
  <2>3. new = [NoProcess EXCEPT !.st = "live", !.parent = parent]
    BY DEF new
  <2> QED BY <2>1, <2>2, <2>3
<1> HIDE DEF new
<1>3. ProcCpuTypeOK'
  BY <1>1, <1>2 DEF AccountInv, ProcCpuTypeOK
<1>4. /\ proc'[p] = new /\ \A q \in Pids \ {p} : proc'[q] = proc[q]
      /\ Figure(p)' = 0 /\ Exists(p)' /\ p \in Live' /\ p \notin Live
  BY <1>1, <1>2 DEF AccountInv, ProcCpuTypeOK, Figure, Exists, Live
<1>5. Figure(p) = 0
  BY <1>1 DEF AccountInv, Tree, Figure, NoProcess
<1>6. \A q \in Pids : /\ Figure(q)' = Figure(q)
                      /\ q # p => (Exists(q)' <=> Exists(q)) /\ (q \in Live' <=> q \in Live)
  BY <1>4, <1>5, Untouched
<1>7. Tree'
  <2>1. new.st = "live" /\ new.parent = parent
    BY <1>2
  <2>2. \A q \in Live : q \in Live' /\ q # p
    BY <1>4, <1>6 DEF Live
  <2>3. \A q \in Pids \ {p} :
          /\ ~Exists(q)' => proc'[q] = NoProcess
          /\ Exists(q)' /\ proc'[q].parent # Outside => proc'[q].parent \in Live' \ {q}
          /\ proc'[q].st = "zombie" => proc'[q].parent # Outside
    BY <1>4, <1>6, <2>2 DEF AccountInv, Tree
  <2>4. /\ parent # Outside => parent \in Live' \ {p}
        /\ proc'[p].st # "zombie"
    BY <1>1, <1>4, <2>1, <2>2
  <2> QED BY <1>4, <2>1, <2>3, <2>4 DEF Tree
<1>8. Kinship'
  BY <1>1, <1>4, <1>6 DEF AccountInv, ProcCpuTypeOK, Kinship
<1>9. Held' = Held /\ Owed' = Owed
  <2>1. Held' = Held
    BY <1>6 DEF Held
  <2>2. \A q \in Pids : Due(q)' <=> Due(q)
    BY <1>1, <1>6 DEF Due, HandedBack
  <2> QED BY <1>1, <2>1, <2>2 DEF Owed
<1>10. Balance'
  BY <1>1, <1>6, <1>9 DEF AccountInv, ProcCpuTypeOK, Balance
<1>11. Still'
  BY <1>1 DEF Still
<1> QED BY <1>3, <1>7, <1>8, <1>10, <1>11 DEF AccountInv

(* A tick is used, and is in its process's figure.                         *)
LEMMA RunKeeps ==
    ASSUME AccountInv, NEW p \in Pids, Run(p)
    PROVE  AccountInv'
<1>1. /\ p \in Live /\ used < MaxTicks /\ used' = used + 1
      /\ proc' = [proc EXCEPT ![p].own = @ + 1]
      /\ missed' = missed /\ quiet' = 0 /\ UNCHANGED <<orphaned, stray>>
      /\ UNCHANGED <<pids, toRead, polling, seen, fromJob, accum>>
  BY DEF Run, WorldMoves, account
<1>2. ProcCpuTypeOK'
  BY <1>1, ProcCpuAssumption DEF AccountInv, ProcCpuTypeOK
<1>3. /\ \A q \in Pids \ {p} : proc'[q] = proc[q]
      /\ proc'[p].parent = proc[p].parent /\ proc'[p].st = proc[p].st
      /\ Figure(p)' = Figure(p) + 1
  BY <1>1 DEF AccountInv, ProcCpuTypeOK, Figure
<1>4. \A q \in Pids : /\ (Exists(q)' <=> Exists(q)) /\ (q \in Live' <=> q \in Live)
                      /\ proc'[q].parent = proc[q].parent /\ proc'[q].st = proc[q].st
                      /\ q # p => Figure(q)' = Figure(q)
  BY <1>3 DEF Exists, Live, Figure
<1>5. Tree'
  BY <1>1, <1>3, <1>4 DEF AccountInv, Tree, Live, Exists
<1>6. Kinship'
  BY <1>1, <1>4 DEF AccountInv, ProcCpuTypeOK, Kinship
<1>7. SumOver(Held, Pids)' = SumOver(Held, Pids) + 1
  <2>1. /\ Held \in [Pids -> Nat] /\ Held' \in [Pids -> Nat] /\ IsFiniteSet(Pids)
    <3>1. Held \in [Pids -> Nat] /\ IsFiniteSet(Pids) /\ \A q \in Pids : Figure(q) \in Nat
      BY SumsType DEF AccountInv
    <3> QED BY <1>3, <1>4, <3>1 DEF Held
  <2>2. \A q \in Pids \ {p} : Held[q] = Held'[q]
    BY <1>4 DEF Held
  <2>3. Held'[p] = Held[p] + 1 /\ Held[p] \in Nat
    BY <1>3, <2>1 DEF Held
  <2>4. /\ SumOver(Held', Pids) = SumOver(Held, Pids) + Held'[p] - Held[p]
        /\ SumOver(Held, Pids) \in Int
    BY <2>1, <2>2, SumChange
  <2> QED BY <2>3, <2>4
<1>8. Owed' = Owed
  <2>1. \A q \in Pids : Due(q)' <=> Due(q)
    BY <1>1, <1>4 DEF Due, HandedBack
  <2> QED BY <1>1, <2>1 DEF Owed
<1>9. Balance'
  <2>1. \A q \in DOMAIN seen : Exists(q) => seen[q] <= Figure(q)'
    BY <1>3, <1>4, SumsType DEF AccountInv, Balance, ProcCpuTypeOK
  <2>2. /\ accum \in Nat /\ missed \in Nat /\ stray \in Nat /\ used \in Nat
        /\ SumOver(Held, Pids) \in Nat /\ SumOver(Owed, Pids) \in Nat
    BY SumsType DEF AccountInv, ProcCpuTypeOK
  <2>3. /\ accum + missed + stray + SumOver(Held, Pids) = used + SumOver(Owed, Pids)
        /\ missed + stray + SumOver(Held, Pids) <= used
    BY DEF AccountInv, Balance
  <2>4. /\ accum' + missed' + stray' + SumOver(Held, Pids)' = used' + SumOver(Owed, Pids)
        /\ missed' + stray' + SumOver(Held, Pids)' <= used'
    BY <1>1, <1>7, <2>2, <2>3
  <2>5. SumOver(Owed, Pids)' = SumOver(Owed, Pids)
    BY <1>8
  <2> QED BY <1>1, <1>4, <2>1, <2>4, <2>5 DEF AccountInv, ProcCpuTypeOK, Balance
<1>10. Still'
  BY <1>1 DEF Still
<1> QED BY <1>2, <1>5, <1>6, <1>9, <1>10 DEF AccountInv

(* What goes when a process exits, and what stays: a child left behind has *)
(* another parent, the process itself is left to its own.                  *)
LEMMA ExitMoves ==
    ASSUME AccountInv, NEW p \in Pids, Exit(p)
    PROVE  /\ \A q \in Reaped(p) : /\ q \in Pids /\ Exists(q)
                                /\ proc'[q] = NoProcess /\ ~Exists(q)' /\ Figure(q)' = 0
           /\ \A q \in Pids \ Reaped(p) :
                /\ (Exists(q)' <=> Exists(q)) /\ Figure(q)' = Figure(q)
                /\ ~Exists(q) => proc'[q] = NoProcess
                /\ proc'[q].parent = IF q \in Children(p) THEN Outside ELSE proc[q].parent
           /\ \A q \in Pids : q \in Live' <=> q \in Live \ {p}
           /\ \A q \in Pids : proc'[q].st = "zombie" => q \notin Children(p) /\ proc[q].parent # Outside
           /\ proc' \in [Pids -> [st : {"none", "live", "zombie"}, parent : Pids \cup {Outside},
                                  own : Nat, kids : Nat]]
<1> DEFINE Process == [st : {"none", "live", "zombie"}, parent : Pids \cup {Outside},
                       own : Nat, kids : Nat]
<1>1. /\ p \in Live
      /\ proc' = [q \in Pids |->
                    IF q \in Reaped(p) THEN NoProcess
                    ELSE IF q = p THEN [proc[q] EXCEPT !.st = "zombie"]
                    ELSE IF q \in Children(p) THEN [proc[q] EXCEPT !.parent = Outside]
                    ELSE proc[q]]
  BY DEF Exit
<1>2. /\ Exists(p) /\ p \notin Children(p) /\ proc[p].st = "live"
      /\ \A q \in Children(p) : q \in Pids /\ Exists(q) /\ proc[q].parent = p /\ q # p
  BY <1>1, ProcCpuAssumption DEF AccountInv, Tree, Live, Exists, Children
<1>3. \A q \in Pids : proc[q] \in Process
  BY DEF AccountInv, ProcCpuTypeOK
<1>4. NoProcess \in Process /\ NoProcess.st = "none" /\ NoProcess.own + NoProcess.kids = 0
  BY NoProcessType DEF NoProcess
<1>5. \A q \in Reaped(p) : q \in Pids /\ Exists(q) /\ (q = p => proc[p].parent = Outside)
                        /\ (q # p => proc[q].st = "zombie")
  BY <1>2 DEF Reaped
<1>6. \A q \in Children(p) : q \notin Reaped(p) => proc[q].st = "live"
  BY <1>2, <1>3 DEF Reaped, Exists
<1>7. p \notin Reaped(p) => proc[p].parent # Outside
  BY DEF Reaped
<1>8. \A q \in Reaped(p) : proc'[q] = NoProcess /\ ~Exists(q)' /\ Figure(q)' = 0 /\ q \notin Live'
  <2>1. \A q \in Reaped(p) : proc'[q] = NoProcess
    BY <1>1, <1>5
  <2> QED BY <1>4, <2>1 DEF Exists, Figure, Live
<1> HIDE DEF Process
<1>9. ASSUME NEW q \in Pids, q \notin Reaped(p)
      PROVE  /\ proc'[q] \in Process
             /\ proc'[q].own = proc[q].own /\ proc'[q].kids = proc[q].kids
             /\ proc'[q].st = IF q = p THEN "zombie" ELSE proc[q].st
             /\ proc'[q].parent = IF q \in Children(p) THEN Outside ELSE proc[q].parent
             /\ q # p /\ q \notin Children(p) => proc'[q] = proc[q]
  <2>1. proc[q] \in Process
    BY <1>3
  <2>2. CASE q = p
    <3>1. proc'[q] = [proc[q] EXCEPT !.st = "zombie"]
      BY <1>1, <1>9, <2>2
    <3> QED BY <1>2, <2>1, <2>2, <3>1 DEF Process
  <2>3. CASE q # p /\ q \in Children(p)
    <3>1. proc'[q] = [proc[q] EXCEPT !.parent = Outside]
      BY <1>1, <1>9, <2>3
    <3> QED BY <2>1, <2>3, <3>1 DEF Process
  <2>4. CASE q # p /\ q \notin Children(p)
    <3>1. proc'[q] = proc[q]
      BY <1>1, <1>9, <2>4
    <3> QED BY <2>1, <2>4, <3>1
  <2> QED BY <2>2, <2>3, <2>4
<1>10. \A q \in Pids \ Reaped(p) :
         /\ (Exists(q)' <=> Exists(q)) /\ Figure(q)' = Figure(q)
         /\ q \in Live' <=> q \in Live \ {p}
         /\ ~Exists(q) => proc'[q] = NoProcess
  <2>1. \A q \in Pids \ Reaped(p) : (Exists(q)' <=> Exists(q)) /\ (q \in Live' <=> q \in Live \ {p})
    BY <1>2, <1>9 DEF Exists, Live
  <2>2. \A q \in Pids \ Reaped(p) : Figure(q)' = Figure(q)
    BY <1>9 DEF Figure
  <2>3. \A q \in Pids \ Reaped(p) : ~Exists(q) => proc'[q] = proc[q] /\ proc[q] = NoProcess
    BY <1>2, <1>9 DEF AccountInv, Tree
  <2> QED BY <2>1, <2>2, <2>3
<1>11. \A q \in Reaped(p) : q \notin Live \ {p}
  BY <1>5 DEF Live
<1>12. \A q \in Pids : proc'[q].st = "zombie" => q \notin Children(p) /\ proc[q].parent # Outside
  <2>1. \A q \in Reaped(p) : proc'[q].st # "zombie"
    BY <1>4, <1>8
  <2>2. \A q \in Pids \ (Reaped(p) \cup {p}) : proc'[q].st = "zombie" =>
            proc[q].st = "zombie" /\ q \notin Children(p)
    BY <1>6, <1>9
  <2> QED BY <1>2, <1>7, <2>1, <2>2 DEF AccountInv, Tree
<1>13. proc' \in [Pids -> Process]
  <2>1. \A q \in Pids : proc'[q] \in Process
    BY <1>4, <1>8, <1>9
  <2> QED BY <1>1, <2>1
<1> QED BY <1>5, <1>8, <1>9, <1>10, <1>11, <1>12, <1>13 DEF Process

(* What exits takes its figure along: what was not read of it is missed,   *)
(* what was read is no longer owed, or was read of one left behind.        *)
LEMMA ExitAccount ==
    ASSUME AccountInv, NEW p \in Pids, Exit(p), NEW q \in Pids
    PROVE  /\ q \in Reaped(p) => Sampled[q] \in Nat /\ Unsampled[q] \in Nat
           /\ (IF q \in Reaped(p) THEN Unsampled[q] ELSE 0)
                + (IF q \in Reaped(p) \cap Bereft(p) THEN Sampled[q] ELSE 0) + Held'[q] + Owed[q]
              = Held[q] + Owed'[q]
<1>1. UNCHANGED <<seen, fromJob>>
  BY DEF Exit, WorldMoves, account
<1>2. /\ \A r \in Reaped(p) : r \in Pids /\ Exists(r) /\ ~Exists(r)' /\ Figure(r)' = 0
      /\ \A r \in Pids \ Reaped(p) : (Exists(r)' <=> Exists(r)) /\ Figure(r)' = Figure(r)
  BY ExitMoves
<1>3. Figure(q) \in Nat /\ Owed[q] \in Nat
  BY SumsType DEF AccountInv
<1>4. Held[q] = Figure(q) /\ Held'[q] = Figure(q)'
  BY DEF Held
<1>5. /\ Owed[q] = IF Due(q) THEN seen[q] ELSE 0
      /\ Owed'[q] = IF Due(q)' THEN seen[q] ELSE 0
  BY <1>1 DEF Owed
<1>6. HandedBack(q)' <=> HandedBack(q)
  BY <1>1 DEF HandedBack
<1>7. CASE q \notin Reaped(p)
  <2>1. Owed'[q] = Owed[q] /\ Held'[q] = Held[q]
    BY <1>1, <1>2, <1>4, <1>5, <1>6, <1>7 DEF Due
  <2> QED BY <1>3, <1>4, <1>7, <2>1
<1>8. CASE q \in Reaped(p)
  <2>1. /\ Sampled[q] = IF q \in DOMAIN seen THEN seen[q] ELSE 0
        /\ Unsampled[q] = Figure(q) - Sampled[q]
    BY DEF Sampled, Unsampled
  <2>2. Sampled[q] \in Nat /\ Sampled[q] <= Figure(q) /\ Owed[q] = Sampled[q]
    BY <1>2, <1>3, <1>5, <1>8, <2>1 DEF AccountInv, ProcCpuTypeOK, Balance, Due
  <2>3. Held'[q] = 0
    BY <1>2, <1>4, <1>8
  <2>4. Owed'[q] = IF q \in Bereft(p) THEN Sampled[q] ELSE 0
    <3>1. Owed'[q] = IF HandedBack(q) THEN Sampled[q] ELSE 0
      BY <1>1, <1>2, <1>5, <1>6, <1>8, <2>1 DEF Due, HandedBack
    <3>2. CASE q \in Bereft(p)
      <4>1. q \in DOMAIN fromJob /\ (proc[q].parent # Outside \/ q \in orphaned)
        BY <3>2, ProcCpuAssumption DEF AccountInv, Kinship, Bereft, Children
      <4>2. HandedBack(q)
        BY <1>2, <1>8, <4>1 DEF AccountInv, Kinship, HandedBack
      <4> QED BY <3>1, <3>2, <4>2
    <3>3. CASE q \notin Bereft(p)
      <4>1. q \in DOMAIN fromJob => proc[q].parent = Outside /\ q \notin orphaned
        BY <1>8, <3>3 DEF Bereft, Reaped
      <4>2. ~HandedBack(q)
        BY <1>2, <1>8, <4>1 DEF AccountInv, Kinship, HandedBack
      <4> QED BY <3>1, <3>3, <4>2
    <3> QED BY <3>2, <3>3
  <2>5. Unsampled[q] \in Nat /\ Unsampled[q] + Sampled[q] = Figure(q)
    BY <1>3, <2>1, <2>2
  <2>6. CASE q \in Bereft(p)
    BY <1>3, <1>4, <1>8, <2>2, <2>3, <2>4, <2>5, <2>6
  <2>7. CASE q \notin Bereft(p)
    BY <1>3, <1>4, <1>8, <2>2, <2>3, <2>4, <2>5, <2>7
  <2> QED BY <2>6, <2>7
<1> QED BY <1>7, <1>8

(* A process that exits leaves its children to init, and its time to be    *)
(* reaped.                                                                 *)
LEMMA ExitKeeps ==
    ASSUME AccountInv, NEW p \in Pids, Exit(p)
    PROVE  AccountInv'
<1>1. /\ p \in Live /\ used' = used /\ quiet' = 0
      /\ UNCHANGED <<pids, toRead, polling, seen, fromJob, accum>>
      /\ missed' = missed + SumFunctionOnSet(Unsampled, Reaped(p))
      /\ stray' = stray + SumFunctionOnSet(Sampled, Reaped(p) \cap Bereft(p))
      /\ orphaned' = Bereft(p) \ Reaped(p)
  BY DEF Exit, WorldMoves, account
<1>2. /\ \A q \in Reaped(p) : /\ q \in Pids /\ Exists(q)
                           /\ proc'[q] = NoProcess /\ ~Exists(q)' /\ Figure(q)' = 0
      /\ \A q \in Pids \ Reaped(p) :
           /\ (Exists(q)' <=> Exists(q)) /\ Figure(q)' = Figure(q)
           /\ ~Exists(q) => proc'[q] = NoProcess
           /\ proc'[q].parent = IF q \in Children(p) THEN Outside ELSE proc[q].parent
      /\ \A q \in Pids : q \in Live' <=> q \in Live \ {p}
      /\ \A q \in Pids : proc'[q].st = "zombie" => q \notin Children(p) /\ proc[q].parent # Outside
      /\ proc' \in [Pids -> [st : {"none", "live", "zombie"}, parent : Pids \cup {Outside},
                             own : Nat, kids : Nat]]
  BY ExitMoves
<1>3. /\ IsFiniteSet(Pids) /\ Held \in [Pids -> Nat] /\ Owed \in [Pids -> Nat]
      /\ \A q \in Pids : Figure(q) \in Nat
      /\ SumOver(Held, Pids) \in Nat /\ SumOver(Owed, Pids) \in Nat
  BY SumsType DEF AccountInv
<1> DEFINE U == [q \in Pids |-> IF q \in Reaped(p) THEN Unsampled[q] ELSE 0]
           V == [q \in Pids |-> IF q \in Reaped(p) \cap Bereft(p) THEN Sampled[q] ELSE 0]
<1>4. /\ \A q \in Reaped(p) : Sampled[q] \in Nat /\ Unsampled[q] \in Nat
      /\ \A q \in Pids : U[q] + V[q] + Held'[q] + Owed[q] = Held[q] + Owed'[q]
  BY <1>2, ExitAccount
<1>5. /\ U \in [Pids -> Nat] /\ SumFunctionOnSet(Unsampled, Reaped(p)) = SumOver(U, Pids)
      /\ V \in [Pids -> Nat] /\ SumFunctionOnSet(Sampled, Reaped(p) \cap Bereft(p)) = SumOver(V, Pids)
  <2>1. Reaped(p) \in SUBSET Pids /\ Reaped(p) \cap Bereft(p) \in SUBSET Pids
    BY <1>2
  <2>2. /\ \A q \in Reaped(p) : Unsampled[q] \in Nat
        /\ \A q \in Reaped(p) \cap Bereft(p) : Sampled[q] \in Nat
    BY <1>4
  <2>3. U = [q \in Pids |-> IF q \in Reaped(p) THEN Unsampled[q] ELSE 0]
    OBVIOUS
  <2>4. V = [q \in Pids |-> IF q \in Reaped(p) \cap Bereft(p) THEN Sampled[q] ELSE 0]
    OBVIOUS
  <2> HIDE DEF U, V
  <2>5. U \in [Pids -> Nat] /\ SumFunctionOnSet(Unsampled, Reaped(p)) = SumOver(U, Pids)
    BY ONLY <1>3, <2>1, <2>2, <2>3, SumMasked
  <2>6. V \in [Pids -> Nat] /\ SumFunctionOnSet(Sampled, Reaped(p) \cap Bereft(p)) = SumOver(V, Pids)
    BY ONLY <1>3, <2>1, <2>2, <2>4, SumMasked
  <2> QED BY <2>5, <2>6
<1> HIDE DEF U, V
<1>6. SumOver(U, Pids) \in Nat /\ SumOver(V, Pids) \in Nat
  BY <1>3, <1>5, SumNat
<1>7. ProcCpuTypeOK'
  <2>1. /\ missed \in Nat /\ stray \in Nat
        /\ Bereft(p) \subseteq Pids
    BY DEF AccountInv, ProcCpuTypeOK, Bereft, Children
  <2>2. missed' \in Nat /\ stray' \in Nat /\ orphaned' \subseteq Pids
    BY <1>1, <1>5, <1>6, <2>1
  <2> QED BY <1>1, <1>2, <2>2 DEF AccountInv, ProcCpuTypeOK
<1>8. Tree'
  <2>1. \A q \in Pids : ~Exists(q)' => proc'[q] = NoProcess
    BY <1>2
  <2>2. ASSUME NEW q \in Pids, Exists(q)', proc'[q].parent # Outside
        PROVE  proc'[q].parent \in Live' \ {q}
    <3>1. Exists(q) /\ q \notin Children(p) /\ proc'[q].parent = proc[q].parent
      BY <1>2, <2>2
    <3>2. proc[q].parent \in Live \ {q} /\ proc[q].parent # p
      BY <2>2, <3>1 DEF AccountInv, Tree, Children
    <3>3. proc[q].parent \in Pids
      BY <3>2 DEF Live
    <3> QED BY <1>2, <3>1, <3>2, <3>3
  <2>3. ASSUME NEW q \in Pids, proc'[q].st = "zombie" PROVE proc'[q].parent # Outside
    <3>1. q \notin Reaped(p)
      BY <1>2, <2>3 DEF NoProcess
    <3> QED BY <1>2, <2>3, <3>1
  <2> QED BY <2>1, <2>2, <2>3 DEF Tree
<1>9. Kinship'
  <2>1. ASSUME NEW q \in DOMAIN fromJob, Exists(q)'
        PROVE  fromJob[q] <=> proc'[q].parent # Outside \/ q \in orphaned'
    <3>1. q \in Pids
      BY DEF AccountInv, ProcCpuTypeOK
    <3>2. q \notin Reaped(p) /\ Exists(q)
      BY <1>2, <2>1, <3>1
    <3>3. fromJob[q] <=> proc[q].parent # Outside \/ q \in orphaned
      BY <3>2 DEF AccountInv, Kinship
    <3>4. CASE q \in Children(p)
      <4>1. proc[q].parent # Outside /\ q \in orphaned'
        BY <1>1, <3>1, <3>2, <3>4, ProcCpuAssumption DEF Bereft, Children
      <4> QED BY <3>3, <4>1
    <3>5. CASE q \notin Children(p)
      <4>1. proc'[q].parent = proc[q].parent /\ (q \in orphaned' <=> q \in orphaned)
        BY <1>1, <1>2, <3>1, <3>2, <3>5 DEF Bereft
      <4> QED BY <3>3, <4>1
    <3> QED BY <3>4, <3>5
  <2>2. ASSUME NEW q \in orphaned'
        PROVE  q \in DOMAIN fromJob /\ Exists(q)' /\ proc'[q].parent = Outside
    <3>1. q \in Bereft(p) /\ q \notin Reaped(p)
      BY <1>1, <2>2
    <3>2. CASE q \in orphaned
      <4>1. q \in DOMAIN fromJob /\ Exists(q) /\ proc[q].parent = Outside /\ q \in Pids
        BY <3>2 DEF AccountInv, Kinship, ProcCpuTypeOK
      <4> QED BY <1>2, <3>1, <4>1
    <3>3. CASE q \in Children(p) \cap DOMAIN fromJob
      <4>1. q \in Pids /\ Exists(q)
        BY <3>3 DEF Children
      <4> QED BY <1>2, <3>1, <3>3, <4>1
    <3> QED BY <3>1, <3>2, <3>3 DEF Bereft
  <2>3. ASSUME NEW q \in pids, Exists(q)', proc'[q].parent # Outside
        PROVE  proc'[q].parent \in pids
    <3>1. q \in Pids
      BY DEF AccountInv, ProcCpuTypeOK
    <3>2. Exists(q) /\ proc'[q].parent = proc[q].parent
      BY <1>2, <2>3, <3>1
    <3> QED BY <2>3, <3>2 DEF AccountInv, Kinship
  <2> QED BY <1>1, <2>1, <2>2, <2>3 DEF AccountInv, Kinship
<1>10. Held' \in [Pids -> Nat] /\ Owed' \in [Pids -> Nat]
  <2>1. \A q \in Pids : Figure(q)' \in Nat
    BY <1>2, <1>3
  <2>2. \A q \in DOMAIN seen : seen'[q] \in Nat
    BY <1>1 DEF AccountInv, ProcCpuTypeOK
  <2> QED BY <1>1, <2>1, <2>2 DEF Held, Owed, Due
<1>11. /\ accum + missed' + stray' + SumOver(Held', Pids) = used + SumOver(Owed', Pids)
       /\ missed' + stray' + SumOver(Held', Pids) <= used
  <2> DEFINE A == [q \in Pids |-> U[q] + V[q]]
             B == [q \in Pids |-> A[q] + Held'[q]]
             C == [q \in Pids |-> B[q] + Owed[q]]
  <2>1. /\ U \in [Pids -> Int] /\ V \in [Pids -> Int] /\ Held \in [Pids -> Int]
        /\ Held' \in [Pids -> Int] /\ Owed \in [Pids -> Int] /\ Owed' \in [Pids -> Int]
    BY <1>3, <1>5, <1>10
  <2>2. /\ A \in [Pids -> Int] /\ B \in [Pids -> Int] /\ C \in [Pids -> Int]
    BY <2>1
  <2>3. /\ \A q \in Pids : A[q] = U[q] + V[q]
        /\ \A q \in Pids : B[q] = A[q] + Held'[q]
        /\ \A q \in Pids : C[q] = B[q] + Owed[q]
        /\ \A q \in Pids : C[q] = Held[q] + Owed'[q]
    BY <1>4
  <2> HIDE DEF A, B, C
  <2>4. /\ SumOver(A, Pids) = SumOver(U, Pids) + SumOver(V, Pids)
        /\ SumOver(B, Pids) = SumOver(A, Pids) + SumOver(Held', Pids)
        /\ SumOver(C, Pids) = SumOver(B, Pids) + SumOver(Owed, Pids)
        /\ SumOver(C, Pids) = SumOver(Held, Pids) + SumOver(Owed', Pids)
    <3>1. SumOver(A, Pids) = SumOver(U, Pids) + SumOver(V, Pids)
      BY ONLY <1>3, <2>1, <2>2, <2>3, SumPlus
    <3>2. SumOver(B, Pids) = SumOver(A, Pids) + SumOver(Held', Pids)
      <4>1. /\ IsFiniteSet(Pids) /\ A \in [Pids -> Int] /\ Held' \in [Pids -> Int]
            /\ B \in [Pids -> Int] /\ \A q \in Pids : B[q] = A[q] + Held'[q]
        BY <1>3, <2>1, <2>2, <2>3
      <4> QED BY ONLY <4>1, SumPlus
    <3>3. SumOver(C, Pids) = SumOver(B, Pids) + SumOver(Owed, Pids)
      BY ONLY <1>3, <2>1, <2>2, <2>3, SumPlus
    <3>4. SumOver(C, Pids) = SumOver(Held, Pids) + SumOver(Owed', Pids)
      BY ONLY <1>3, <2>1, <2>2, <2>3, SumPlus
    <3> QED BY <3>1, <3>2, <3>3, <3>4
  <2>5. SumOver(Held', Pids) \in Nat /\ SumOver(Owed', Pids) \in Nat
    BY <1>3, <1>10, SumNat
  <2>6. SumOver(Owed', Pids) <= SumOver(Owed, Pids)
    <3>1. \A q \in Pids : Owed'[q] <= Owed[q]
      BY <1>1, <1>2, <1>3 DEF Owed, Due, HandedBack
    <3> DEFINE rest == [q \in Pids |-> Owed[q] - Owed'[q]]
    <3>2. rest \in [Pids -> Nat] /\ rest \in [Pids -> Int]
          /\ \A q \in Pids : Owed[q] = rest[q] + Owed'[q]
      <4>1. \A q \in Pids : Owed[q] \in Nat /\ Owed'[q] \in Nat
        BY <1>3, <1>10
      <4> QED BY <3>1, <4>1
    <3> HIDE DEF rest
    <3>3. SumOver(Owed, Pids) = SumOver(rest, Pids) + SumOver(Owed', Pids) /\ SumOver(rest, Pids) \in Nat
      BY <1>3, <2>1, <3>2, SumPlus, SumNat
    <3> QED BY <2>5, <3>3
  <2>7. /\ accum \in Nat /\ used \in Nat /\ missed \in Nat /\ stray \in Nat
        /\ accum + missed + stray + SumOver(Held, Pids) = used + SumOver(Owed, Pids)
        /\ missed + stray + SumOver(Held, Pids) <= used
    BY DEF AccountInv, ProcCpuTypeOK, Balance
  <2>8. missed' = missed + SumOver(U, Pids) /\ stray' = stray + SumOver(V, Pids)
    BY <1>1, <1>5
  <2> QED BY <1>3, <1>6, <2>4, <2>5, <2>6, <2>7, <2>8
<1>12. Balance'
  <2>1. \A q \in DOMAIN seen' : Exists(q)' => seen'[q] <= Figure(q)'
    BY <1>1, <1>2 DEF AccountInv, ProcCpuTypeOK, Balance
  <2>2. SumOver(Held, Pids)' = SumOver(Held', Pids) /\ SumOver(Owed, Pids)' = SumOver(Owed', Pids)
    OBVIOUS
  <2> QED BY <1>1, <1>11, <2>1, <2>2 DEF Balance
<1>13. Still'
  BY <1>1 DEF Still
<1> QED BY <1>7, <1>8, <1>9, <1>12, <1>13 DEF AccountInv

(* A reaped child's ticks are its parent's, which will report them.        *)
LEMMA ReapKeeps ==
    ASSUME AccountInv, NEW p \in Pids, Reap(p)
    PROVE  AccountInv'
<1>a. PICK elder \in Pids : elder = proc[p].parent
  BY DEF AccountInv, Tree, Reap, Exists, Live
<1>1. /\ proc[p].st = "zombie" /\ used' = used /\ missed' = missed /\ quiet' = 0
      /\ UNCHANGED <<orphaned, stray, pids, toRead, polling, seen, fromJob, accum>>
      /\ proc' = [proc EXCEPT ![p] = NoProcess, ![elder].kids = @ + Figure(p)]
  BY <1>a DEF Reap, WorldMoves, account
<1>2. /\ Exists(p) /\ p \notin Live /\ elder # Outside /\ elder \in Live \ {p} /\ elder \in Pids
  BY <1>1, <1>a DEF AccountInv, Tree, Exists, Live
<1>3. Figure(p) \in Nat /\ Figure(elder) \in Nat
  BY <1>2, SumsType DEF AccountInv
<1>4. ProcCpuTypeOK'
  <2>1. proc' \in [Pids -> [st : {"none", "live", "zombie"}, parent : Pids \cup {Outside},
                            own : Nat, kids : Nat]]
    BY <1>1, <1>2, <1>3, NoProcessType DEF AccountInv, ProcCpuTypeOK
  <2> QED BY <1>1, <2>1 DEF AccountInv, ProcCpuTypeOK
<1>5. /\ proc'[p] = NoProcess
      /\ proc'[elder].st = proc[elder].st /\ proc'[elder].parent = proc[elder].parent
      /\ Figure(elder)' = Figure(elder) + Figure(p)
      /\ \A q \in Pids \ {p, elder} : proc'[q] = proc[q]
  <2>1. /\ proc'[p] = NoProcess
        /\ proc'[elder].st = proc[elder].st /\ proc'[elder].parent = proc[elder].parent
        /\ proc'[elder].own = proc[elder].own /\ proc'[elder].kids = proc[elder].kids + Figure(p)
        /\ \A q \in Pids \ {p, elder} : proc'[q] = proc[q]
    BY <1>1, <1>2 DEF AccountInv, ProcCpuTypeOK
  <2>2. proc[elder].own \in Nat /\ proc[elder].kids \in Nat
    BY <1>2 DEF AccountInv, ProcCpuTypeOK
  <2>3. Figure(elder)' = Figure(elder) + Figure(p)
    BY <1>3, <2>1, <2>2 DEF Figure
  <2> QED BY <2>1, <2>3
<1>6. ~Exists(p)' /\ p \notin Live' /\ Figure(p)' = 0
  BY <1>5 DEF Exists, Live, Figure, NoProcess
<1>7. \A q \in Pids \ {p} : /\ (Exists(q)' <=> Exists(q)) /\ (q \in Live' <=> q \in Live)
                            /\ proc'[q].parent = proc[q].parent /\ proc'[q].st = proc[q].st
                            /\ q # elder => Figure(q)' = Figure(q)
  BY <1>2, <1>5 DEF Exists, Live, Figure
<1>8. Tree'
  <2>1. \A q \in Live : q \in Live' /\ q # p
    BY <1>2, <1>7 DEF Live
  <2>2. \A q \in Pids \ {p} :
          /\ ~Exists(q)' => proc'[q] = NoProcess
          /\ Exists(q)' /\ proc'[q].parent # Outside => proc'[q].parent \in Live' \ {q}
          /\ proc'[q].st = "zombie" => proc'[q].parent # Outside
    <3>1. Exists(elder)
      BY <1>2 DEF Live, Exists
    <3> QED BY <1>5, <1>7, <2>1, <3>1 DEF AccountInv, Tree
  <2>3. proc'[p] = NoProcess /\ ~Exists(p)' /\ proc'[p].st # "zombie"
    BY <1>5, <1>6 DEF NoProcess
  <2> QED BY <2>2, <2>3 DEF Tree
<1>9. Kinship'
  <2>1. p \notin orphaned /\ orphaned \subseteq Pids /\ pids \subseteq Pids /\ DOMAIN fromJob \subseteq Pids
    BY <1>2, <1>a DEF AccountInv, ProcCpuTypeOK, Kinship
  <2>2. \A q \in DOMAIN fromJob :
          Exists(q)' => (fromJob[q] <=> proc'[q].parent # Outside \/ q \in orphaned)
    BY <1>6, <1>7, <2>1 DEF AccountInv, Kinship
  <2>3. \A q \in orphaned : q \in DOMAIN fromJob /\ Exists(q)' /\ proc'[q].parent = Outside
    BY <1>7, <2>1 DEF AccountInv, Kinship
  <2>4. \A q \in pids : Exists(q)' /\ proc'[q].parent # Outside => proc'[q].parent \in pids
    BY <1>6, <1>7, <2>1 DEF AccountInv, Kinship
  <2> QED BY <1>1, <2>2, <2>3, <2>4 DEF AccountInv, Kinship
<1>10. SumOver(Held', Pids) = SumOver(Held, Pids)
  <2> DEFINE less == [Held EXCEPT ![p] = 0]
  <2>1. IsFiniteSet(Pids) /\ Held \in [Pids -> Nat] /\ SumOver(Held, Pids) \in Nat
    BY SumsType DEF AccountInv
  <2>2. less \in [Pids -> Int] /\ Held \in [Pids -> Int] /\ less[p] = 0
        /\ \A q \in Pids \ {p} : Held[q] = less[q]
    BY <2>1
  <2>3. Held[p] = Figure(p) /\ less[elder] = Figure(elder)
    BY <1>2, <2>1 DEF Held
  <2>4. Held' \in [Pids -> Int] /\ Held'[elder] = Figure(elder) + Figure(p)
        /\ \A q \in Pids \ {elder} : less[q] = Held'[q]
    <3>1. \A q \in Pids : Figure(q) \in Nat
      BY SumsType DEF AccountInv
    <3>2. \A q \in Pids : Figure(q)' \in Int
      BY <1>3, <1>5, <1>6, <1>7, <3>1
    <3>3. Held'[p] = 0 /\ Held'[elder] = Figure(elder) + Figure(p)
      BY <1>2, <1>5, <1>6 DEF Held
    <3>4. \A q \in Pids \ {p, elder} : Held'[q] = Held[q]
      BY <1>7 DEF Held
    <3>5. Held' \in [Pids -> Int]
      BY <3>2 DEF Held
    <3> QED BY <2>2, <3>3, <3>4, <3>5
  <2> HIDE DEF less
  <2>5. SumOver(less, Pids) = SumOver(Held, Pids) + 0 - Figure(p) /\ SumOver(less, Pids) \in Int
    BY <2>1, <2>2, <2>3, SumChange
  <2>6. SumOver(Held', Pids) = SumOver(less, Pids) + (Figure(elder) + Figure(p)) - Figure(elder)
    <3>1. /\ SumOver(Held', Pids) = SumOver(less, Pids) + Held'[elder] - less[elder]
      BY <1>2, <2>1, <2>2, <2>4, SumChange
    <3> QED BY <2>3, <2>4, <3>1
  <2> QED BY <1>3, <2>1, <2>5, <2>6
<1>11. Owed' = Owed
  <2>1. Due(p)' <=> Due(p)
    <3>1. p \in DOMAIN seen => HandedBack(p)
      BY <1>2, <1>a DEF AccountInv, Kinship, HandedBack
    <3> QED BY <1>1, <1>2, <3>1 DEF Due, HandedBack
  <2>2. \A q \in Pids \ {p} : Due(q)' <=> Due(q)
    BY <1>1, <1>7 DEF Due, HandedBack
  <2> QED BY <1>1, <2>1, <2>2 DEF Owed
<1>12. Balance'
  <2>1. \A q \in DOMAIN seen' : Exists(q)' => seen'[q] <= Figure(q)'
    <3>1. \A q \in DOMAIN seen : q \in Pids /\ seen[q] \in Nat
      BY DEF AccountInv, ProcCpuTypeOK
    <3>2. \A q \in DOMAIN seen : Exists(q) => seen[q] <= Figure(q)
      BY DEF AccountInv, Balance
    <3>3. \A q \in DOMAIN seen : q # p /\ q # elder /\ Exists(q)' => seen[q] <= Figure(q)'
      BY <1>7, <3>1, <3>2
    <3>4. elder \in DOMAIN seen /\ Exists(elder)' => seen[elder] <= Figure(elder)'
      <4>1. \A a, b, c \in Nat : a <= b => a <= b + c
        OBVIOUS
      <4> QED BY <1>2, <1>3, <1>5, <1>7, <3>1, <3>2, <4>1
    <3> QED BY <1>1, <1>6, <3>3, <3>4
  <2>2. SumOver(Held, Pids)' = SumOver(Held', Pids) /\ SumOver(Owed, Pids)' = SumOver(Owed', Pids)
    OBVIOUS
  <2> QED BY <1>1, <1>10, <1>11, <2>1, <2>2 DEF AccountInv, Balance
<1>13. Still'
  BY <1>1 DEF Still
<1> QED BY <1>4, <1>8, <1>9, <1>12, <1>13 DEF AccountInv

(* A poll lists what lives, the parents of what it lists among it.         *)
LEMMA ListKeeps ==
    ASSUME AccountInv, NEW listed \in SUBSET Pids, ListPids(listed)
    PROVE  AccountInv'
<1>1. /\ ~polling /\ Live \subseteq listed /\ \A p \in listed : Exists(p)
      /\ pids' = listed /\ toRead' = listed /\ polling' = TRUE
      /\ UNCHANGED <<proc, used, missed, orphaned, stray, seen, fromJob, accum, quiet>>
  BY DEF ListPids, world
<1>2. ProcCpuTypeOK'
  BY <1>1 DEF AccountInv, ProcCpuTypeOK
<1>3. \A p : Figure(p)' = Figure(p) /\ (Exists(p)' <=> Exists(p)) /\ (HandedBack(p)' <=> HandedBack(p))
  BY <1>1 DEF Figure, Exists, HandedBack
<1>4. Live' = Live
  BY <1>1 DEF Live
<1>5. Tree'
  BY <1>1, <1>3, <1>4 DEF AccountInv, Tree
<1>6. Kinship'
  BY <1>1, <1>3 DEF AccountInv, Kinship, Tree
<1>7. Held' = Held /\ Owed' = Owed
  BY <1>1, <1>3 DEF Held, Owed, Due
<1>8. Balance'
  BY <1>1, <1>3, <1>7 DEF AccountInv, Balance
<1>9. Still'
  BY <1>1, <1>3, <1>4 DEF Still
<1> QED BY <1>2, <1>5, <1>6, <1>8, <1>9 DEF AccountInv

(* The read of one file brings the account up to this process's figure.    *)
LEMMA ReadKeeps ==
    ASSUME AccountInv, NEW p \in Pids, ReadStat(p)
    PROVE  AccountInv'
<1> DEFINE prev == IF p \in DOMAIN seen THEN seen[p] ELSE 0
<1>1. /\ p \in toRead /\ toRead' = toRead \ {p}
      /\ UNCHANGED <<proc, used, missed, orphaned, stray, pids, polling, quiet>>
  BY DEF ReadStat, world
<1>2. \A q : Figure(q)' = Figure(q) /\ (Exists(q)' <=> Exists(q))
  BY <1>1 DEF Figure, Exists
<1>3. Live' = Live /\ Held' = Held
  BY <1>1, <1>2 DEF Live, Held
<1>4. Tree'
  BY <1>1, <1>2, <1>3 DEF AccountInv, Tree
<1>5. polling /\ p \in pids /\ toRead \subseteq pids
  BY <1>1 DEF AccountInv, Kinship, ProcCpuTypeOK
<1>6. CASE ~Exists(p)
  <2>1. UNCHANGED <<fromJob, accum, seen>>
    BY <1>6 DEF ReadStat
  <2>2. ProcCpuTypeOK'
    BY <1>1, <2>1 DEF AccountInv, ProcCpuTypeOK
  <2>3. Kinship'
    BY <1>1, <1>2, <2>1 DEF AccountInv, Kinship
  <2>4. Owed' = Owed
    BY <1>2, <2>1 DEF Owed, Due, HandedBack
  <2>5. Balance'
    BY <1>1, <1>2, <1>3, <2>1, <2>4 DEF AccountInv, Balance
  <2>6. Still'
    BY <1>1, <1>2, <1>3, <1>5, <1>6, <2>1 DEF AccountInv, Still, Current
  <2> QED BY <1>4, <2>2, <2>3, <2>5, <2>6 DEF AccountInv
<1>7. CASE Exists(p)
  <2>1. /\ fromJob' = IF p \in DOMAIN fromJob THEN fromJob
                      ELSE Put(fromJob, p, InJob(proc[p].parent))
        /\ Credit(p)
    BY <1>7 DEF ReadStat
  <2>2. InJob(proc[p].parent) <=> proc[p].parent # Outside
    BY <1>5, <1>7 DEF AccountInv, Kinship, InJob
  <2>3. /\ prev \in Nat /\ Figure(p) \in Nat /\ prev <= Figure(p)
        /\ p \in DOMAIN seen => prev > 0
    BY <1>7, SumsType DEF AccountInv, ProcCpuTypeOK, Balance
  <2>4. \/ Figure(p) = 0 /\ p \notin DOMAIN seen /\ UNCHANGED <<accum, seen>>
        \/ /\ Figure(p) > 0 /\ accum' = accum + (Figure(p) - prev)
           /\ seen' = [q \in DOMAIN seen \cup {p} |-> IF q = p THEN Figure(p) ELSE seen[q]]
    <3>1. CASE Figure(p) = 0
      BY <2>1, <2>3, <3>1 DEF Credit
    <3>2. CASE Figure(p) # 0
      BY <2>1, <2>3, <3>2 DEF Credit, Put
    <3> QED BY <3>1, <3>2
  <2> HIDE DEF prev
  <2>5. /\ DOMAIN fromJob' = DOMAIN fromJob \cup {p}
        /\ fromJob'[p] <=> proc[p].parent # Outside \/ p \in orphaned
        /\ \A q \in DOMAIN fromJob \ {p} : fromJob'[q] = fromJob[q]
        /\ \A q \in DOMAIN fromJob' : fromJob'[q] \in BOOLEAN
    <3>1. CASE p \in DOMAIN fromJob
      <4>1. fromJob' = fromJob /\ (fromJob[p] <=> proc[p].parent # Outside \/ p \in orphaned)
        BY <1>7, <2>1, <3>1 DEF AccountInv, Kinship
      <4> QED BY <3>1, <4>1 DEF AccountInv, ProcCpuTypeOK
    <3>2. CASE p \notin DOMAIN fromJob
      <4>1. fromJob' = [q \in DOMAIN fromJob \cup {p} |->
                          IF q = p THEN InJob(proc[p].parent) ELSE fromJob[q]]
        BY <2>1, <3>2 DEF Put
      <4>2. InJob(proc[p].parent) \in BOOLEAN
        BY DEF InJob
      <4> QED BY <2>2, <3>2, <4>1, <4>2 DEF AccountInv, ProcCpuTypeOK, Kinship
    <3> QED BY <3>1, <3>2
  <2>6. /\ \A q \in DOMAIN seen \ {p} : q \in DOMAIN seen' /\ seen'[q] = seen[q]
        /\ DOMAIN seen' \subseteq DOMAIN seen \cup {p}
        /\ p \in DOMAIN seen' => seen'[p] = Figure(p) /\ Figure(p) > 0
        /\ p \notin DOMAIN seen' => Figure(p) = 0 /\ p \notin DOMAIN seen
    BY <2>4
  <2>7. accum \in Nat /\ accum' = accum + (Figure(p) - prev)
    <3>1. accum \in Nat /\ (p \notin DOMAIN seen => prev = 0)
      BY DEF AccountInv, ProcCpuTypeOK, prev
    <3> QED BY <2>3, <2>4, <3>1
  <2>8. ProcCpuTypeOK'
    <3>1. accum' \in Nat
      BY <2>3, <2>7
    <3>2. DOMAIN seen' \subseteq Pids /\ \A q \in DOMAIN seen' : seen'[q] \in Nat \ {0}
      BY <2>3, <2>6 DEF AccountInv, ProcCpuTypeOK
    <3>3. DOMAIN fromJob' \subseteq Pids
      BY <2>5 DEF AccountInv, ProcCpuTypeOK
    <3> QED BY <1>1, <2>5, <3>1, <3>2, <3>3 DEF AccountInv, ProcCpuTypeOK
  <2>9. Kinship'
    <3>1. DOMAIN seen' \subseteq DOMAIN fromJob'
      BY <2>5, <2>6 DEF AccountInv, Kinship
    <3>2. \A q \in DOMAIN fromJob' :
             Exists(q) => (fromJob'[q] <=> proc[q].parent # Outside \/ q \in orphaned)
      BY <2>5 DEF AccountInv, Kinship
    <3>3. \A q \in orphaned : q \in DOMAIN fromJob' /\ Exists(q) /\ proc[q].parent = Outside
      BY <2>5 DEF AccountInv, Kinship
    <3> QED BY <1>1, <1>2, <1>5, <3>1, <3>2, <3>3 DEF AccountInv, Kinship
  <2>10. SumOver(Owed', Pids) = SumOver(Owed, Pids) + Figure(p) - prev
    <3>1. Owed'[p] = Figure(p) /\ Owed[p] = prev
      BY <1>2, <1>7, <2>6 DEF Owed, Due, prev
    <3>2. \A q \in Pids \ {p} : (Due(q)' <=> Due(q)) /\ Owed'[q] = Owed[q]
      <4>1. \A q \in Pids \ {p} : Due(q)' <=> Due(q)
        BY <1>2, <2>5, <2>6 DEF Due, HandedBack
      <4>2. \A q \in Pids \ {p} : Due(q) => seen'[q] = seen[q]
        BY <2>6 DEF Due
      <4> QED BY <4>1, <4>2 DEF Owed
    <3>3. IsFiniteSet(Pids) /\ Owed \in [Pids -> Int]
      BY SumsType DEF AccountInv
    <3>4. Owed' \in [Pids -> Int]
      <4>1. \A q \in Pids : Owed'[q] \in Int
        BY <2>3, <3>1, <3>2, <3>3
      <4> QED BY <4>1 DEF Owed
    <3> QED BY <3>1, <3>2, <3>3, <3>4, SumChange
  <2>11. Balance'
    <3>1. \A q \in DOMAIN seen' : Exists(q)' => seen'[q] <= Figure(q)'
      <4>1. \A q \in DOMAIN seen : Exists(q) => seen[q] <= Figure(q)
        BY DEF AccountInv, Balance
      <4>2. \A q \in DOMAIN seen' \ {p} : Exists(q) => seen'[q] <= Figure(q)
        BY <2>6, <4>1
      <4>3. Figure(p) <= Figure(p)
        BY <2>3
      <4> QED BY <1>2, <2>6, <4>2, <4>3
    <3>2. /\ used \in Nat /\ missed \in Nat /\ stray \in Nat /\ SumOver(Held, Pids) \in Nat
          /\ SumOver(Owed, Pids) \in Nat
          /\ accum + missed + stray + SumOver(Held, Pids) = used + SumOver(Owed, Pids)
          /\ missed + stray + SumOver(Held, Pids) <= used
      BY SumsType DEF AccountInv, ProcCpuTypeOK, Balance
    <3>3. accum' + missed + stray + SumOver(Held, Pids) = used + SumOver(Owed', Pids)
      BY <2>3, <2>7, <2>10, <3>2
    <3>4. SumOver(Held, Pids)' = SumOver(Held, Pids) /\ SumOver(Owed, Pids)' = SumOver(Owed', Pids)
      BY <1>3
    <3> QED BY <1>1, <3>1, <3>2, <3>3, <3>4 DEF Balance
  <2>12. Still'
    <3>1. \A q \in Pids \ {p} : Current(q) => Current(q)'
      BY <1>2, <2>6 DEF Current
    <3>2. Current(p)'
      BY <1>2, <2>6 DEF Current
    <3>3. pids \subseteq Pids
      BY DEF AccountInv, ProcCpuTypeOK
    <3> QED BY <1>1, <1>2, <1>3, <1>5, <3>1, <3>2, <3>3 DEF AccountInv, Still
  <2> QED BY <1>4, <2>8, <2>9, <2>11, <2>12 DEF AccountInv
<1> QED BY <1>6, <1>7

(* What is forgotten and handed back is what an ancestor reports again.    *)
LEMMA ForgetKeeps ==
    ASSUME AccountInv, Forget
    PROVE  AccountInv'
<1> DEFINE gone == {p \in DOMAIN seen : Gone(p)}
           back == {p \in gone : HandedBack(p)}
           owed == SumFunctionOnSet(seen, back)
           kept == {q \in DOMAIN fromJob \ back : q \in DOMAIN seen' \/ ~Gone(q)}
<1>1. /\ polling /\ toRead = {} /\ polling' = FALSE /\ pids' = {} /\ toRead' = {}
      /\ quiet' = IF quiet < 2 THEN quiet + 1 ELSE quiet
      /\ UNCHANGED <<proc, used, missed, orphaned, stray>>
      /\ accum' = IF accum >= owed THEN accum - owed ELSE 0
      /\ seen' = [p \in DOMAIN seen \ gone |-> seen[p]]
      /\ fromJob' = [p \in kept |-> fromJob[p]]
  BY DEF Forget, world
<1>2. \A q : Figure(q)' = Figure(q) /\ (Exists(q)' <=> Exists(q))
  BY <1>1 DEF Figure, Exists
<1>3. Live' = Live /\ Held' = Held
  BY <1>1, <1>2 DEF Live, Held
<1>4. /\ DOMAIN seen \subseteq Pids /\ DOMAIN seen \subseteq DOMAIN fromJob
      /\ \A p \in DOMAIN seen : seen[p] \in Nat \ {0}
      /\ \A p \in DOMAIN fromJob : p \in Pids /\ fromJob[p] \in BOOLEAN
  BY DEF AccountInv, ProcCpuTypeOK, Kinship
<1>5. \A p \in gone : p \in DOMAIN seen /\ ~Exists(p) /\ p \notin pids
  BY DEF Gone
<1>6. \A p \in DOMAIN seen \ gone : Exists(p) \/ p \in pids
  BY DEF Gone
<1>7. back \subseteq gone /\ back \in SUBSET Pids /\ gone \subseteq DOMAIN seen
      /\ \A p \in gone : p \in back <=> HandedBack(p)
  BY <1>4
<1>8. /\ DOMAIN seen' = DOMAIN seen \ gone
      /\ \A p \in DOMAIN seen \ gone : seen'[p] = seen[p]
  BY <1>1
<1>9. /\ DOMAIN fromJob' \subseteq DOMAIN fromJob
      /\ \A p \in DOMAIN fromJob' : fromJob'[p] = fromJob[p]
      /\ DOMAIN seen \ gone \subseteq DOMAIN fromJob'
  BY <1>1, <1>4, <1>7, <1>8
<1> HIDE DEF gone, back, kept
<1>10. Tree'
  BY <1>1, <1>2, <1>3 DEF AccountInv, Tree
<1>11. Kinship'
  <2>1. \A q \in orphaned : q \in DOMAIN fromJob'
    <3>1. \A q \in orphaned : q \in DOMAIN fromJob /\ Exists(q)
      BY DEF AccountInv, Kinship
    <3>2. \A q \in orphaned : q \in kept
      BY <1>5, <1>7, <3>1 DEF kept, Gone
    <3> QED BY <1>1, <3>2
  <2> QED BY <1>1, <1>2, <1>8, <1>9, <2>1 DEF AccountInv, Kinship
<1>12. Owed' \in [Pids -> Nat] /\ (\A p \in back : Owed'[p] = 0)
       /\ \A p \in Pids \ back : Owed'[p] = Owed[p]
  <2>1. \A p \in DOMAIN seen \ gone : Due(p)' <=> Due(p)
    BY <1>2, <1>4, <1>8, <1>9 DEF Due, HandedBack
  <2>2. \A p \in gone \ back : ~Due(p)
    BY <1>5, <1>7 DEF Due
  <2>3. \A p \in Pids : p \notin DOMAIN seen \ gone => ~Due(p)'
    BY <1>8 DEF Due
  <2>4. \A p \in Pids : Owed'[p] = IF Due(p)' THEN seen'[p] ELSE 0
    BY DEF Owed
  <2>5. \A p \in Pids : Owed[p] = IF Due(p) THEN seen[p] ELSE 0
    BY DEF Owed
  <2>6. \A p \in Pids \ back : Owed'[p] = Owed[p]
    <3>1. \A p \in Pids \ back : \/ p \in DOMAIN seen \ gone
                                 \/ ~Due(p) /\ p \notin DOMAIN seen \ gone
      BY <2>2 DEF Due
    <3> QED BY <1>8, <2>1, <2>3, <2>4, <2>5, <3>1
  <2>7. \A p \in back : Owed'[p] = 0
    BY <1>7, <2>3, <2>4
  <2>8. Owed \in [Pids -> Nat]
    BY SumsType DEF AccountInv
  <2>9. \A p \in Pids : Owed'[p] \in Nat
    BY <2>6, <2>7, <2>8
  <2> QED BY <2>6, <2>7, <2>9 DEF Owed
<1>13. owed \in Nat /\ SumOver(Owed, Pids) = owed + SumOver(Owed', Pids) /\ SumOver(Owed', Pids) \in Nat
  <2>1. IsFiniteSet(Pids) /\ IsFiniteSet(back) /\ Owed \in [Pids -> Nat]
    BY <1>7, SumsType, FS_Subset DEF AccountInv
  <2>2. owed = SumOver(seen, back)
    BY DEF SumFunctionOnSet, FoldFunctionOnSet, SumOver, MapThenSumSet
  <2> HIDE DEF owed
  <2>3. \A p \in back : seen[p] = Owed[p]
    BY <1>7 DEF Owed, Due
  <2>4. SumOver(seen, back) = SumOver(Owed, back)
    BY <2>1, <2>3, SumSame
  <2>5. SumOver(Owed, Pids) = SumOver(Owed, back) + SumOver(Owed', Pids)
    BY <1>7, <1>12, <2>1, SumSplit
  <2>6. SumOver(Owed, back) \in Nat
    <3>1. \A p \in back : Owed[p] >= 0
      BY <1>7, <2>1
    <3> QED BY <1>7, <2>1, <3>1, SumAtLeast
  <2>7. SumOver(Owed', Pids) \in Nat
    BY <1>12, <2>1, SumNat
  <2> QED BY <2>2, <2>4, <2>5, <2>6, <2>7
<1> HIDE DEF owed
<1>14. /\ accum' \in Nat
       /\ accum' + missed + stray + SumOver(Held, Pids) = used + SumOver(Owed', Pids)
       /\ missed + stray + SumOver(Held, Pids) <= used
  <2>1. /\ used \in Nat /\ missed \in Nat /\ stray \in Nat /\ accum \in Nat /\ SumOver(Held, Pids) \in Nat
        /\ accum + missed + stray + SumOver(Held, Pids) = used + SumOver(Owed, Pids)
        /\ missed + stray + SumOver(Held, Pids) <= used
    BY SumsType DEF AccountInv, ProcCpuTypeOK, Balance
  <2>2. accum >= owed
    BY <1>13, <2>1
  <2>3. accum' = accum - owed
    BY <1>1, <2>2
  <2> QED BY <1>13, <2>1, <2>2, <2>3
<1>15. ProcCpuTypeOK'
  <2>1. quiet' \in 0..2
    BY <1>1 DEF AccountInv, ProcCpuTypeOK
  <2> QED BY <1>1, <1>4, <1>8, <1>9, <1>14, <2>1 DEF AccountInv, ProcCpuTypeOK
<1>16. Balance'
  <2>1. \A q \in DOMAIN seen' : Exists(q)' => seen'[q] <= Figure(q)'
    BY <1>2, <1>8 DEF AccountInv, Balance
  <2>2. SumOver(Held, Pids)' = SumOver(Held, Pids) /\ SumOver(Owed, Pids)' = SumOver(Owed', Pids)
    BY <1>3
  <2> QED BY <1>1, <1>14, <2>1, <2>2 DEF Balance
<1>17. Still'
  <2> SUFFICES ASSUME quiet' = 2
               PROVE  /\ \A p \in Live : Current(p)'
                      /\ \A p \in DOMAIN seen' : Exists(p)
    BY <1>1, <1>2, <1>3 DEF Still
  <2>1. quiet >= 1
    BY <1>1 DEF AccountInv, ProcCpuTypeOK
  <2>2. (\A p \in pids : Exists(p) /\ Current(p)) /\ Live \subseteq pids
    BY <1>1, <2>1 DEF AccountInv, Still
  <2>3. \A p \in Live : Exists(p) /\ p \notin gone
    BY <1>5, <2>2
  <2> QED BY <1>2, <1>6, <1>8, <2>2, <2>3 DEF Current
<1> QED BY <1>10, <1>11, <1>15, <1>16, <1>17 DEF AccountInv

(* Between two polls and within one, what the account holds is what the    *)
(* processes have used but for what no poll saw, and what an ancestor will *)
(* report again is in it twice until it does.                              *)
THEOREM AccountInvCorrect == ProcCpuSpec => []AccountInv
<1>1. AccountInv /\ [ProcCpuNext]_procCpuVars => AccountInv'
  <2> SUFFICES ASSUME AccountInv, [ProcCpuNext]_procCpuVars PROVE AccountInv'
    OBVIOUS
  <2>1. ASSUME NEW p \in Pids, Run(p) \/ Exit(p) \/ Reap(p) \/ ReadStat(p)
        PROVE  AccountInv'
    BY <2>1, RunKeeps, ExitKeeps, ReapKeeps, ReadKeeps
  <2>2. ASSUME NEW p \in Pids, NEW parent \in Pids \cup {Outside}, Fork(parent, p)
        PROVE  AccountInv'
    BY <2>2, ForkKeeps
  <2>3. ASSUME NEW listed \in SUBSET Pids, ListPids(listed) PROVE AccountInv'
    BY <2>3, ListKeeps
  <2>4. CASE Forget
    BY <2>4, ForgetKeeps
  <2>5. CASE UNCHANGED procCpuVars
    BY <2>5 DEF procCpuVars, world, account, AccountInv, ProcCpuTypeOK, Tree, Kinship, Balance,
                Still, Held, Owed, Due, Current, HandedBack, Exists, Live, Figure
  <2> QED BY <2>1, <2>2, <2>3, <2>4, <2>5 DEF ProcCpuNext
<1> QED BY <1>1, AccountStart, PTL DEF ProcCpuSpec

(* However forks, exits, reaps and the loss of a parent fall between the   *)
(* reads of the polls, no tick is counted twice, and none is lost but      *)
(* those that no poll could have seen and those read of a process that     *)
(* lost its parent after its first read.                                   *)
THEOREM AccountTrue == ProcCpuSpec => []AccountSettles
<1>1. AccountInv => AccountSettles
  <2> SUFFICES ASSUME AccountInv, quiet = 2, ~polling, \A p \in Pids : proc[p].st # "zombie"
               PROVE  accum + missed + stray = used
    BY DEF AccountSettles, Settled
  <2>1. \A p \in Pids : Exists(p) => p \in Live
    BY DEF AccountInv, ProcCpuTypeOK, Exists, Live
  <2>2. \A p \in Pids : ~Exists(p) => Figure(p) = 0
    BY DEF AccountInv, Tree, NoProcess, Figure
  <2>3. Owed = Held
    BY <2>1, <2>2 DEF AccountInv, Still, Current, Owed, Held, Due
  <2>4. /\ accum \in Nat /\ missed \in Nat /\ stray \in Nat /\ used \in Nat
        /\ SumOver(Held, Pids) \in Nat
        /\ accum + missed + stray + SumOver(Held, Pids) = used + SumOver(Owed, Pids)
    BY SumsType DEF AccountInv, ProcCpuTypeOK, Balance
  <2>5. SumOver(Owed, Pids) = SumOver(Held, Pids)
    BY <2>3
  <2> HIDE <2>3
  <2> QED BY <2>4, <2>5
<1> QED BY <1>1, AccountInvCorrect, PTL

-----------------------------------------------------------------------------
(* The traffic meters. *)

(* What a link carried before some time, in all.                           *)
Before(l, at) == SumOver([i \in 1..(at - 1) |-> traffic[i][l]], 1..(at - 1))

(* A baseline is the total of what it was taken of, at the time it was.    *)
FabricBase ==
    /\ fabricPrev.at = up.at /\ up.at \in 0..Now /\ up.base \subseteq Ports
    /\ fabricPrev # NoBaseline =>
          /\ up.at > 0
          /\ fabricPrev.sum = SumOver([p \in up.base |-> Before(p, up.at)], up.base)

NvBase ==
    /\ DOMAIN nvPrev = Gpus
    /\ \A g \in Gpus : nvPrev[g] # NoBaseline =>
          nvPrev[g].at \in 1..Now /\ nvPrev[g].sum = Before(g, nvPrev[g].at)

(* Failures are counted to the last attempt, and only then is the matter   *)
(* closed without an answer.                                               *)
Tried ==
    /\ failures \in Nat /\ (~probed => failures < Attempts)
    /\ OneBadProbeIsForgiven

LinkInv == traffic \in Seq([Links -> {0, 1}]) /\ FabricBase /\ NvBase /\ Tried

(* What some links carried is a sum over them ...                          *)
LEMMA CarriedIsSum ==
    ASSUME NEW S, IsFiniteSet(S)
    PROVE  Carried(S) = SumOver([p \in S |-> SumOfSeq([i \in DOMAIN traffic |-> traffic[i][p]])], S)
<1> DEFINE f == [p \in S |-> SumOfSeq([i \in DOMAIN traffic |-> traffic[i][p]])]
           Adds(g) == g = [s \in SUBSET S |-> IF s = {} THEN 0
                             ELSE SumOfSeq([i \in DOMAIN traffic |-> traffic[i][First(s)]]) + g[s \ {First(s)}]]
           sum == CHOOSE g : Adds(g)
<1>1. ASSUME NEW g PROVE Adds(g) <=> IsSum(f, S, g)
  <2>1. \A s \in SUBSET S : s # {} => f[First(s)] = SumOfSeq([i \in DOMAIN traffic |-> traffic[i][First(s)]])
    BY DEF First
  <2> HIDE DEF First
  <2> QED BY <2>1 DEF IsSum
<1>2. Adds(sum)
  <2>1. \E g : IsSum(f, S, g)
    <3> HIDE DEF f
    <3> QED BY SumExists
  <2>2. \E g : Adds(g)
    BY <1>1, <2>1
  <2> HIDE DEF Adds
  <2> QED BY <2>2
<1>3. Carried(S) = sum[S]
  BY DEF Carried, MapThenSumSet, MapThenFoldSet, First
<1>4. IsSum(f, S, sum) /\ S \in SUBSET S
  BY <1>1, <1>2
<1> HIDE DEF f, sum
<1>5. SumOver(f, S) = sum[S]
  BY <1>4, SumIs
<1> QED BY <1>3, <1>5 DEF f

(* ... and what they carried since some time is another.                   *)
LEMMA SinceIsSum ==
    ASSUME NEW S, IsFiniteSet(S), NEW at
    PROVE  MapThenSumSet(LAMBDA l : CarriedSince(l, at), S) = SumOver([p \in S |-> CarriedSince(p, at)], S)
<1> DEFINE f == [p \in S |-> CarriedSince(p, at)]
           Adds(g) == g = [s \in SUBSET S |-> IF s = {} THEN 0
                             ELSE CarriedSince(First(s), at) + g[s \ {First(s)}]]
           sum == CHOOSE g : Adds(g)
<1>1. ASSUME NEW g PROVE Adds(g) <=> IsSum(f, S, g)
  <2>1. \A s \in SUBSET S : s # {} => f[First(s)] = CarriedSince(First(s), at)
    BY DEF First
  <2> HIDE DEF First
  <2> QED BY <2>1 DEF IsSum
<1>2. Adds(sum)
  <2>1. \E g : IsSum(f, S, g)
    <3> HIDE DEF f
    <3> QED BY SumExists
  <2>2. \E g : Adds(g)
    BY <1>1, <2>1
  <2> HIDE DEF Adds
  <2> QED BY <2>2
<1>3. MapThenSumSet(LAMBDA l : CarriedSince(l, at), S) = sum[S]
  BY DEF Carried, MapThenSumSet, MapThenFoldSet, First
<1>4. IsSum(f, S, sum) /\ S \in SUBSET S
  BY <1>1, <1>2
<1> HIDE DEF f, sum
<1>5. SumOver(f, S) = sum[S]
  BY <1>4, SumIs
<1> QED BY <1>3, <1>5 DEF f

(* What is in a sequence of rates is a sum over its places.                *)
LEMMA SeqIsSum ==
    ASSUME NEW s
    PROVE  SumOfSeq(s) = SumOver(s, DOMAIN s)
BY DEF SumOfSeq, FoldSeq, FoldFunction, FoldFunctionOnSet, SumOver, MapThenSumSet, MapThenFoldSet

(* What a link carried until now is what it carried before some time and   *)
(* what it carried since.                                                  *)
LEMMA CarriedSplits ==
    ASSUME traffic \in Seq([Links -> {0, 1}]), NEW l \in Links, NEW at \in 1..Now
    PROVE  /\ Before(l, at) \in Nat /\ CarriedSince(l, at) \in Nat
           /\ Before(l, Now) = Before(l, at) + CarriedSince(l, at)
<1> DEFINE n == Len(traffic)
           whole == [i \in 1..n |-> traffic[i][l]]
           part == [i \in 1..(at - 1) |-> traffic[i][l]]
           late == [i \in 1..(Now - at) |-> traffic[at + i - 1][l]]
           name == [i \in 1..(Now - at) |-> at + i - 1]
<1>1. n \in Nat /\ Now = n + 1 /\ at \in Nat /\ 1 <= at /\ at - 1 <= n
      /\ \A i \in 1..n : traffic[i][l] \in {0, 1}
  BY DEF Now
<1>a. IsFiniteSet(1..n) /\ IsFiniteSet(1..(at - 1)) /\ IsFiniteSet(1..(Now - at))
  <2>1. 1 \in Int /\ n \in Int /\ at - 1 \in Int /\ Now - at \in Int
    BY <1>1
  <2> HIDE DEF n
  <2> QED BY <2>1, FS_Interval
<1>2. whole \in [1..n -> Nat] /\ whole \in [1..n -> Int] /\ IsFiniteSet(1..n)
  BY <1>1, <1>a
<1>3. 1..(at - 1) \in SUBSET (1..n)
  BY <1>1
<1>4. SumOver(whole, 1..n) = SumOver(whole, 1..(at - 1)) + SumOver(whole, (1..n) \ (1..(at - 1)))
  <2> HIDE DEF whole
  <2> QED BY <1>2, <1>3, SumParts
<1>5. Before(l, at) = SumOver(whole, 1..(at - 1)) /\ Before(l, Now) = SumOver(whole, 1..n)
  <2>1. IsFiniteSet(1..(at - 1)) /\ \A i \in 1..(at - 1) : part[i] = whole[i]
    BY <1>1, <1>3, <1>a
  <2>2. SumOver(part, 1..(at - 1)) = SumOver(whole, 1..(at - 1))
    <3> HIDE DEF part, whole
    <3> QED BY <2>1, SumSame
  <2>3. Now - 1 = n
    BY <1>1
  <2> QED BY <2>2, <2>3 DEF Before
<1>6. CarriedSince(l, at) = SumOver(whole, (1..n) \ (1..(at - 1)))
  <2>1. CarriedSince(l, at) = SumOver(late, 1..(Now - at))
    <3>1. DOMAIN late = 1..(Now - at)
      OBVIOUS
    <3>2. CarriedSince(l, at) = SumOfSeq(late)
      BY DEF CarriedSince
    <3> HIDE DEF late
    <3> QED BY <3>1, <3>2, SeqIsSum
  <2>2. /\ late \in [1..(Now - at) -> Int] /\ IsFiniteSet(1..(Now - at))
        /\ \A i, j \in 1..(Now - at) : name[i] = name[j] => i = j
        /\ \A i \in 1..(Now - at) : whole[name[i]] = late[i]
    <3>1. \A i \in 1..(Now - at) : at + i - 1 \in 1..n
      BY <1>1
    <3> QED BY <1>1, <1>a, <3>1
  <2>3. {name[i] : i \in 1..(Now - at)} = (1..n) \ (1..(at - 1))
    <3>1. ASSUME NEW j \in (1..n) \ (1..(at - 1))
          PROVE  j \in {name[i] : i \in 1..(Now - at)}
      <4>1. j - at + 1 \in 1..(Now - at) /\ name[j - at + 1] = j
        BY <1>1, <3>1
      <4> QED BY <4>1
    <3>2. \A i \in 1..(Now - at) : name[i] \in (1..n) \ (1..(at - 1))
      BY <1>1
    <3> HIDE DEF name
    <3> QED BY <3>1, <3>2
  <2>4. SumOver(late, 1..(Now - at)) = SumOver(whole, {name[i] : i \in 1..(Now - at)})
    <3> DEFINE span == 1..(Now - at)
    <3>1. /\ late \in [span -> Int] /\ IsFiniteSet(span)
          /\ \A i, j \in span : name[i] = name[j] => i = j
          /\ \A i \in span : whole[name[i]] = late[i]
      BY <2>2
    <3>2. SumOver(late, span) = SumOver(whole, {name[i] : i \in span})
      <4> HIDE DEF late, whole, name, span
      <4> QED BY <3>1, SumRenamed
    <3> QED BY <3>2
  <2> QED BY <2>1, <2>3, <2>4
<1>7. SumOver(whole, 1..(at - 1)) \in Nat /\ SumOver(whole, (1..n) \ (1..(at - 1))) \in Nat
  <2>1. \A i \in 1..n : whole[i] >= 0
    BY <1>2
  <2> HIDE DEF whole
  <2> QED BY <1>2, <1>3, <2>1, SumAtLeast
<1> QED BY <1>4, <1>5, <1>6, <1>7

(* The counters at the time of a frame.                                    *)
LEMMA CarriedNow ==
    ASSUME traffic \in Seq([Links -> {0, 1}]), NEW S \in SUBSET Links
    PROVE  Carried(S) = SumOver([p \in S |-> Before(p, Now)], S)
<1>1. IsFiniteSet(S)
  BY LinkAssumption, FS_Union, FS_Subset DEF Links
<1>2. ASSUME NEW l PROVE SumOfSeq([i \in DOMAIN traffic |-> traffic[i][l]]) = Before(l, Now)
  <2>1. DOMAIN traffic = 1..Len(traffic) /\ Now - 1 = Len(traffic)
    BY DEF Now
  <2>2. DOMAIN [i \in DOMAIN traffic |-> traffic[i][l]] = DOMAIN traffic
    OBVIOUS
  <2> QED BY <2>1, <2>2, SeqIsSum DEF Before
<1>3. [p \in S |-> SumOfSeq([i \in DOMAIN traffic |-> traffic[i][p]])] = [p \in S |-> Before(p, Now)]
  BY <1>2
<1> QED BY <1>1, <1>3, CarriedIsSum

(* ... and of one link it is what that one carried.                        *)
LEMMA CarriedOne ==
    ASSUME traffic \in Seq([Links -> {0, 1}]), NEW l \in Links
    PROVE  Carried({l}) = Before(l, Now)
<1> DEFINE f == [p \in {l} |-> Before(p, Now)]
<1>1. Now \in 1..Now
  BY DEF Now
<1>2. Before(l, Now) \in Nat
  BY <1>1, CarriedSplits
<1>3. f \in [{l} -> Int] /\ f[l] = Before(l, Now)
  BY <1>2
<1>4. Carried({l}) = SumOver(f, {l})
  BY CarriedNow
<1>5. IsFiniteSet({l}) /\ {l} \in SUBSET {l} /\ l \in {l} /\ {l} \ {l} = {}
  BY FS_Singleton
<1> HIDE DEF f
<1>6. SumOver(f, {l}) = f[l] + SumOver(f, {l} \ {l}) /\ SumOver(f, {}) = 0
  BY <1>3, <1>5, SumAdds
<1>7. \A x \in Nat : x + 0 = x
  OBVIOUS
<1> QED BY <1>2, <1>3, <1>4, <1>5, <1>6, <1>7

(* What is carried later does not change what was carried before.          *)
LEMMA CarryKeeps ==
    ASSUME LinkInv, NEW carrying \in SUBSET Links, Carry(carrying)
    PROVE  LinkInv'
<1>1. /\ traffic' = Append(traffic, [l \in Links |-> IF l \in carrying THEN 1 ELSE 0])
      /\ UNCHANGED <<fabricPrev, fabric, nvPrev, nvLine, failures, probed, topology, up>>
      /\ traffic \in Seq([Links -> {0, 1}])
  BY DEF Carry, LinkInv
<1>2. [l \in Links |-> IF l \in carrying THEN 1 ELSE 0] \in [Links -> {0, 1}]
  OBVIOUS
<1>3. /\ traffic' \in Seq([Links -> {0, 1}]) /\ Now' = Now + 1 /\ Now \in Nat /\ Now = Len(traffic) + 1
      /\ \A i \in 1..Len(traffic) : traffic'[i] = traffic[i]
  BY <1>1, <1>2 DEF Now
<1>4. ASSUME NEW l, NEW at \in 0..Now PROVE Before(l, at)' = Before(l, at)
  <2>1. \A i \in 1..(at - 1) : i \in 1..Len(traffic)
    BY <1>3
  <2>2. [i \in 1..(at - 1) |-> traffic'[i][l]] = [i \in 1..(at - 1) |-> traffic[i][l]]
    BY <1>3, <2>1
  <2> QED BY <2>2 DEF Before
<1>5. FabricBase'
  <2>1. up.at \in 0..Now /\ up.at \in 0..Now'
    BY <1>3 DEF LinkInv, FabricBase
  <2>2. [p \in up.base |-> Before(p, up.at)]' = [p \in up.base |-> Before(p, up.at)]
    BY <1>1, <1>4, <2>1
  <2> QED BY <1>1, <2>1, <2>2 DEF LinkInv, FabricBase
<1>6. NvBase'
  <2>1. \A g \in Gpus : nvPrev[g] # NoBaseline =>
          nvPrev[g].at \in 1..Now /\ nvPrev[g].at \in 1..Now' /\ nvPrev[g].at \in 0..Now
    BY <1>3 DEF LinkInv, NvBase
  <2>2. \A g \in Gpus : nvPrev[g] # NoBaseline =>
          Before(g, nvPrev[g].at)' = Before(g, nvPrev[g].at)
    BY <1>1, <1>4, <2>1
  <2> QED BY <1>1, <2>1, <2>2 DEF LinkInv, NvBase
<1>7. Tried'
  BY <1>1 DEF LinkInv, Tried, OneBadProbeIsForgiven
<1> QED BY <1>3, <1>5, <1>6, <1>7 DEF LinkInv

(* A baseline that a frame of the ports moves is the total of that frame.  *)
LEMMA FabricKeeps ==
    ASSUME LinkInv, NEW ports \in SUBSET Ports, FabricFrame(ports)
    PROVE  LinkInv'
<1>1. UNCHANGED <<traffic, nvPrev, nvLine, failures, probed, topology>> /\ Now' = Now
      /\ Now \in Nat \ {0} /\ traffic \in Seq([Links -> {0, 1}])
  BY DEF FabricFrame, LinkInv, Now
<1>2. \A l, at : Before(l, at)' = Before(l, at)
  BY <1>1 DEF Before
<1>3. FabricBase'
  <2>1. CASE ports = {}
    <3>1. fabricPrev' = NoBaseline /\ up' = [frame |-> {}, base |-> {}, at |-> 0]
      BY <2>1 DEF FabricFrame
    <3> QED BY <1>1, <3>1 DEF FabricBase, NoBaseline
  <2>2. CASE ports # {} /\ (Seeds \/ Usable)
    <3>1. /\ fabricPrev' = [at |-> Now, sum |-> Carried(ports)]
          /\ up' = [frame |-> ports, base |-> ports, at |-> Now]
      BY <2>2 DEF FabricFrame, FabricBaseline
    <3>2. Carried(ports) = SumOver([p \in ports |-> Before(p, Now)], ports)
      BY <1>1, CarriedNow DEF Links
    <3>3. /\ fabricPrev'.at = Now /\ fabricPrev'.sum = Carried(ports)
          /\ up'.at = Now /\ up'.base = ports
      BY <3>1
    <3>4. [p \in up.base |-> Before(p, up.at)]' = [p \in ports |-> Before(p, Now)]
      BY <1>2, <3>3
    <3> QED BY <1>1, <3>2, <3>3, <3>4 DEF FabricBase
  <2>3. CASE ports # {} /\ ~(Seeds \/ Usable)
    <3>1. fabricPrev' = fabricPrev /\ up' = [up EXCEPT !.frame = ports]
      BY <2>3 DEF FabricFrame, FabricBaseline
    <3>2. up'.at = up.at /\ up'.base = up.base
      BY <3>1
    <3>3. [p \in up.base |-> Before(p, up.at)]' = [p \in up.base |-> Before(p, up.at)]
      BY <1>2, <3>2
    <3> QED BY <1>1, <3>1, <3>2, <3>3 DEF LinkInv, FabricBase
  <2> QED BY <2>1, <2>2, <2>3
<1>4. NvBase'
  BY <1>1, <1>2 DEF LinkInv, NvBase
<1>5. Tried'
  BY <1>1 DEF LinkInv, Tried, OneBadProbeIsForgiven
<1> QED BY <1>1, <1>3, <1>4, <1>5 DEF LinkInv

(* The baseline of a GPU that was read is its counter as it was read; the  *)
(* probe is over when it has answered or has failed often enough.          *)
LEMMA InterconnectKeeps ==
    ASSUME LinkInv, NEW found \in {"nvlink", "pcie", "none", "error"}, NEW read \in SUBSET Gpus,
           InterconnectFrame(found, read)
    PROVE  LinkInv'
<1>1. UNCHANGED <<traffic, fabricPrev, fabric, up>> /\ Now' = Now
      /\ Now \in Nat \ {0} /\ traffic \in Seq([Links -> {0, 1}])
  BY DEF InterconnectFrame, LinkInv, Now
<1>2. \A l, at : Before(l, at)' = Before(l, at)
  BY <1>1 DEF Before
<1>3. FabricBase'
  <2>1. [p \in up.base |-> Before(p, up.at)]' = [p \in up.base |-> Before(p, up.at)]
    BY <1>1, <1>2
  <2> QED BY <1>1, <2>1 DEF LinkInv, FabricBase
<1>4. NvBase'
  <2>1. CASE topology' = "nvlink"
    <3>1. nvPrev' = [g \in Gpus |-> IF g \in read THEN [at |-> Now, sum |-> Carried({g})]
                                    ELSE nvPrev[g]]
      BY <2>1 DEF InterconnectFrame, Throughput
    <3>2. \A g \in Gpus : Carried({g}) = Before(g, Now)
      BY <1>1, CarriedOne DEF Links
    <3>3. \A g \in read : nvPrev'[g].at = Now /\ nvPrev'[g].sum = Before(g, Now)
      BY <3>1, <3>2
    <3>4. \A g \in Gpus \ read : nvPrev'[g] = nvPrev[g]
      BY <3>1
    <3>5. DOMAIN nvPrev' = Gpus
      BY <3>1
    <3>6. ASSUME NEW g \in Gpus, nvPrev'[g] # NoBaseline
          PROVE  nvPrev'[g].at \in 1..Now /\ nvPrev'[g].sum = Before(g, nvPrev'[g].at)
      <4>1. CASE g \in read
        BY <1>1, <3>3, <4>1
      <4>2. CASE g \notin read
        <5>1. nvPrev'[g] = nvPrev[g]
          BY <3>4, <4>2
        <5> QED BY <3>6, <5>1 DEF LinkInv, NvBase
      <4> QED BY <4>1, <4>2
    <3> QED BY <1>1, <3>5, <3>6 DEF NvBase, Before
  <2>2. CASE topology' # "nvlink"
    <3>1. nvPrev' = nvPrev
      BY <2>2 DEF InterconnectFrame
    <3> QED BY <1>1, <1>2, <3>1 DEF LinkInv, NvBase
  <2> QED BY <2>1, <2>2
<1>5. Tried'
  <2>1. CASE probed
    BY <2>1 DEF LinkInv, Tried, OneBadProbeIsForgiven, InterconnectFrame
  <2>2. CASE ~probed
    <3>1. /\ probed' = (found # "error" \/ failures + 1 >= Attempts)
          /\ IF found = "error"
             THEN topology' = "unknown" /\ failures' = failures + 1
             ELSE topology' = found /\ UNCHANGED failures
      BY <2>2 DEF InterconnectFrame, Probe, Latch
    <3>2. failures \in Nat /\ failures < Attempts /\ Attempts \in Nat
      BY <2>2, LinkAssumption DEF LinkInv, Tried
    <3>3. CASE found = "error"
      <4>1. failures' = failures + 1 /\ (probed' <=> failures + 1 >= Attempts)
        BY <3>1, <3>3
      <4>2. failures' \in Nat /\ (failures + 1 >= Attempts => failures' = Attempts)
            /\ (~(failures + 1 >= Attempts) => failures' < Attempts)
        BY <3>2, <4>1
      <4> QED BY <4>1, <4>2 DEF Tried, OneBadProbeIsForgiven
    <3>4. CASE found # "error"
      BY <3>1, <3>2, <3>4 DEF Tried, OneBadProbeIsForgiven
    <3> QED BY <3>3, <3>4
  <2> QED BY <2>1, <2>2
<1> QED BY <1>1, <1>3, <1>4, <1>5 DEF LinkInv

(* A baseline is what was carried until it was taken.                      *)
THEOREM LinkInvCorrect == LinkSpec => []LinkInv
<1>1. LinkInit => LinkInv
  <2> SUFFICES ASSUME LinkInit PROVE LinkInv
    OBVIOUS
  <2> USE DEF LinkInit
  <2>1. traffic \in Seq([Links -> {0, 1}]) /\ Now \in Nat
    BY DEF Now
  <2>2. FabricBase /\ NvBase
    BY <2>1 DEF FabricBase, NvBase, NoBaseline
  <2>3. Tried
    BY LinkAssumption DEF Tried, OneBadProbeIsForgiven
  <2> QED BY <2>1, <2>2, <2>3 DEF LinkInv
<1>2. LinkInv /\ [LinkNext]_linkVars => LinkInv'
  <2> SUFFICES ASSUME LinkInv, [LinkNext]_linkVars PROVE LinkInv'
    OBVIOUS
  <2>1. CASE CarryOver(Links)
    BY <2>1, CarryKeeps DEF CarryOver
  <2>2. CASE FabricNext
    BY <2>2, FabricKeeps DEF FabricNext
  <2>3. CASE InterconnectNext
    BY <2>3, InterconnectKeeps DEF InterconnectNext
  <2>4. CASE UNCHANGED linkVars
    BY <2>4 DEF linkVars, LinkInv, FabricBase, NvBase, Tried, OneBadProbeIsForgiven, Before, Now
  <2> QED BY <2>1, <2>2, <2>3, <2>4 DEF LinkNext
<1> QED BY <1>1, <1>2, PTL DEF LinkSpec

(* While the ports are the same, the fabric's rate is over a window that   *)
(* begins where the last ended, and is what all of them carried in it.     *)
THEOREM FabricTrue == LinkSpec => FabricIsTrue
<1>1. ASSUME LinkInv, [LinkNext]_linkVars, fabric' # fabric, fabric'.over > 0, up'.frame = up.base
      PROVE  /\ Now - fabric'.over = up.at
             /\ fabric'.moved = MapThenSumSet(LAMBDA p : CarriedSince(p, up.at), up.base)
  <2>1. PICK ports \in SUBSET Ports : FabricFrame(ports)
    BY <1>1 DEF LinkNext, CarryOver, Carry, FabricNext, InterconnectNext, InterconnectFrame, linkVars
  <2>2. ports # {} /\ Usable
    <3>1. [moved |-> 0, over |-> 0].over = 0 /\ ~(0 > 0)
      OBVIOUS
    <3> QED BY <1>1, <2>1, <3>1 DEF FabricFrame
  <2>3. /\ fabric' = [moved |-> Less(Carried(ports), fabricPrev.sum), over |-> Now - fabricPrev.at]
        /\ up' = [frame |-> ports, base |-> ports, at |-> Now]
    BY <2>1, <2>2 DEF FabricFrame
  <2>4. /\ ports = up.base /\ fabric'.over = Now - up.at /\ up.at \in 1..Now
        /\ fabric'.moved = Less(Carried(ports), fabricPrev.sum)
        /\ fabricPrev.sum = SumOver([p \in ports |-> Before(p, up.at)], ports)
        /\ Now \in Nat /\ traffic \in Seq([Links -> {0, 1}])
    <3>1. ports = up.base
      BY <1>1, <2>3
    <3>2. Now \in Nat /\ traffic \in Seq([Links -> {0, 1}])
      BY <1>1 DEF LinkInv, Now
    <3>3. fabricPrev.at = up.at /\ up.at \in 0..Now /\ up.at > 0
          /\ fabricPrev.sum = SumOver([p \in up.base |-> Before(p, up.at)], up.base)
      BY <1>1, <2>2 DEF LinkInv, FabricBase, Usable
    <3> QED BY <2>3, <3>1, <3>2, <3>3
  <2> DEFINE at == up.at
             old == [p \in ports |-> Before(p, at)]
             since == [p \in ports |-> CarriedSince(p, at)]
             total == [p \in ports |-> Before(p, Now)]
  <2>5. IsFiniteSet(ports) /\ ports \in SUBSET Links
    BY LinkAssumption, FS_Subset DEF Links
  <2>6. /\ old \in [ports -> Nat] /\ since \in [ports -> Nat] /\ total \in [ports -> Nat]
        /\ \A p \in ports : total[p] = old[p] + since[p]
    <3>1. \A p \in ports : /\ Before(p, at) \in Nat /\ CarriedSince(p, at) \in Nat
                            /\ Before(p, Now) = Before(p, at) + CarriedSince(p, at)
      BY <2>4, <2>5, CarriedSplits
    <3> QED BY <3>1
  <2>7. /\ Carried(ports) = SumOver(total, ports)
        /\ MapThenSumSet(LAMBDA p : CarriedSince(p, at), ports) = SumOver(since, ports)
    <3>1. Carried(ports) = SumOver(total, ports)
      BY <2>4, <2>5, CarriedNow
    <3>2. MapThenSumSet(LAMBDA p : CarriedSince(p, at), ports) = SumOver(since, ports)
      BY <2>5, SinceIsSum
    <3> QED BY <3>1, <3>2
  <2>8. /\ SumOver(total, ports) = SumOver(old, ports) + SumOver(since, ports)
        /\ SumOver(old, ports) \in Nat /\ SumOver(since, ports) \in Nat
    <3> HIDE DEF total, old, since
    <3>1. old \in [ports -> Int] /\ since \in [ports -> Int] /\ total \in [ports -> Int]
      BY <2>6
    <3>2. SumOver(total, ports) = SumOver(old, ports) + SumOver(since, ports)
      BY <2>5, <2>6, <3>1, SumPlus
    <3>3. SumOver(old, ports) \in Nat /\ SumOver(since, ports) \in Nat
      BY <2>5, <2>6, SumNat
    <3> QED BY <3>2, <3>3
  <2>9. fabricPrev.sum = SumOver(old, ports)
    BY <2>4
  <2> HIDE DEF old, since, total
  <2>10. Less(Carried(ports), fabricPrev.sum) = SumOver(since, ports)
    BY <2>7, <2>8, <2>9 DEF Less
  <2>11. Now - fabric'.over = up.at
    BY <2>4
  <2> QED BY <2>4, <2>7, <2>10, <2>11
<1> QED BY <1>1, LinkInvCorrect, PTL DEF FabricIsTrue, LinkSpec

(* The NVLink line is whole: every GPU's share of it is what it carried    *)
(* over a window of its own; and it is not given up after one failure.     *)
THEOREM NvLinkTrue == LinkSpec => NvLinkIsTrue
<1>1. LinkInv => OneBadProbeIsForgiven
  BY DEF LinkInv, Tried
<1>2. ASSUME LinkInv, [LinkNext]_linkVars
      PROVE  nvLine' # nvLine /\ nvLine' # Hidden =>
               \A g \in Gpus : /\ nvLine'[g].over > 0
                               /\ nvLine'[g].moved = CarriedSince(g, Now - nvLine'[g].over)
  <2> SUFFICES ASSUME nvLine' # nvLine, nvLine' # Hidden, NEW g \in Gpus
               PROVE  /\ nvLine'[g].over > 0
                      /\ nvLine'[g].moved = CarriedSince(g, Now - nvLine'[g].over)
    OBVIOUS
  <2>1. PICK read \in SUBSET Gpus : Throughput(read)
    BY <1>2 DEF LinkNext, CarryOver, Carry, FabricNext, FabricFrame, InterconnectNext,
                InterconnectFrame, linkVars
  <2> DEFINE rated == {q \in read : nvPrev[q] # NoBaseline /\ nvPrev[q].at < Now}
  <2>2. rated = Gpus /\ nvLine' = [q \in Gpus |->
                             IF q \in rated
                             THEN [moved |-> Less(Carried({q}), nvPrev[q].sum),
                                   over |-> Now - nvPrev[q].at]
                             ELSE [moved |-> 0, over |-> 0]]
    BY <1>2, <2>1 DEF Throughput, Whole
  <2>3. nvPrev[g] # NoBaseline /\ nvPrev[g].at < Now
    BY <2>2
  <2> HIDE DEF rated
  <2>4. nvLine'[g].moved = Less(Carried({g}), nvPrev[g].sum) /\ nvLine'[g].over = Now - nvPrev[g].at
    BY <2>2
  <2>5. /\ traffic \in Seq([Links -> {0, 1}]) /\ nvPrev[g].at \in 1..Now
        /\ nvPrev[g].sum = Before(g, nvPrev[g].at) /\ Now \in Nat /\ g \in Links
    BY <1>2, <2>3 DEF LinkInv, NvBase, Now, Links
  <2>6. Carried({g}) = Before(g, Now)
    BY <2>5, CarriedOne
  <2>7. /\ Before(g, nvPrev[g].at) \in Nat /\ CarriedSince(g, nvPrev[g].at) \in Nat
        /\ Before(g, Now) = Before(g, nvPrev[g].at) + CarriedSince(g, nvPrev[g].at)
    BY <2>5, CarriedSplits
  <2>8. Less(Carried({g}), nvPrev[g].sum) = CarriedSince(g, nvPrev[g].at)
    BY <2>5, <2>6, <2>7 DEF Less
  <2>9. Now - nvLine'[g].over = nvPrev[g].at /\ nvLine'[g].over > 0
    BY <2>3, <2>4, <2>5
  <2> QED BY <2>4, <2>8, <2>9
<1>3. LinkSpec => []OneBadProbeIsForgiven
  BY <1>1, LinkInvCorrect, PTL
<1>4. LinkSpec => LineIsWhole
  BY <1>2, LinkInvCorrect, PTL DEF LineIsWhole, LinkSpec
<1> QED BY <1>3, <1>4 DEF NvLinkIsTrue

-----------------------------------------------------------------------------
(* The GPUs of the job. *)

(* What _init_nvml is given does not change; what it attached and what was *)
(* said of a device is the job's.                                          *)
GpuInv ==
    /\ mine \in Orders /\ device \in Uses
    /\ known \in {"uuids", "indices", "count"} /\ confined \in BOOLEAN /\ lost \subseteq Node
    /\ nvmlState = "init" => attached = <<>>
    /\ GpusAreTheJobs

(* What the job was given, what NVML counts and what it can open.          *)
LEMMA NodeFacts ==
    ASSUME mine \in Orders, lost \subseteq Node, confined \in BOOLEAN
    PROVE  /\ Len(mine) \in Nat /\ mine \in [1..Len(mine) -> Node] /\ DOMAIN mine = 1..Len(mine)
           /\ \A i, j \in 1..Len(mine) : mine[i] = mine[j] => i = j
           /\ Range(mine) \in SUBSET Node /\ Cardinality(Range(mine)) = Len(mine)
           /\ Counted \in SUBSET Node /\ Cardinality(Counted) \in Nat
           /\ Len(Opened) = Cardinality(Counted \ lost) /\ Len(Opened) \in Nat
           /\ Opened \in [1..Len(Opened) -> Counted \ lost]
           /\ \A i, j \in 1..Len(Opened) : Opened[i] = Opened[j] => i = j
           /\ lost = {} => Opened = Ascending(Counted)
           /\ Len(Opened) <= Cardinality(Counted)
           /\ Cardinality(Counted) = Len(mine) => Counted = Range(mine)
           /\ confined => Counted = Range(mine)
<1>1. IsFiniteSet(Node) /\ Node \in SUBSET Nat
  BY GpuAttachAssumption, FS_Interval DEF Node
<1>2. /\ Len(mine) \in Nat /\ mine \in [1..Len(mine) -> Node] /\ DOMAIN mine = 1..Len(mine)
      /\ \A i, j \in 1..Len(mine) : mine[i] = mine[j] => i = j
  <2>1. PICK n \in Node : mine \in [1..n -> Node]
    BY DEF Orders
  <2>2. n \in Nat
    BY <1>1
  <2>3. Len(mine) = n
    BY <2>1, <2>2, LenIs
  <2>4. IsInjective(mine)
    BY DEF Orders
  <2> QED BY <2>1, <2>2, <2>3, <2>4 DEF IsInjective
<1>3. Range(mine) \in SUBSET Node /\ Cardinality(Range(mine)) = Len(mine)
  <2>1. Range(mine) = {mine[i] : i \in 1..Len(mine)}
    BY <1>2 DEF Range
  <2>2. \A x : x \in Range(mine) <=> \E i \in 1..Len(mine) : x = mine[i]
    BY <2>1
  <2>3. Cardinality(Range(mine)) = Len(mine)
    BY <1>2, <2>2, CountDistinct
  <2> QED BY <1>2, <2>1, <2>3
<1>4. Counted \in SUBSET Node
  BY <1>3 DEF Counted
<1>5. IsFiniteSet(Counted) /\ IsFiniteSet(Range(mine))
  BY <1>1, <1>3, <1>4, FS_Subset
<1>6. Cardinality(Counted) \in Nat
  BY <1>5, FS_CardinalityType
<1>7. /\ IsFiniteSet(Counted \ lost) /\ Cardinality(Counted \ lost) <= Cardinality(Counted)
      /\ Counted \ lost \in SUBSET Nat /\ Cardinality(Counted \ lost) \in Nat
  <2>1. Counted \ lost \in SUBSET Counted
    OBVIOUS
  <2>2. IsFiniteSet(Counted \ lost) /\ Cardinality(Counted \ lost) <= Cardinality(Counted)
    BY <1>5, <2>1, FS_Subset
  <2> QED BY <1>1, <1>4, <2>2, FS_CardinalityType
<1>8. /\ Opened \in [1..Cardinality(Counted \ lost) -> Counted \ lost]
      /\ \A i, j \in 1..Cardinality(Counted \ lost) : Opened[i] = Opened[j] => i = j
  BY <1>7, AscendingIs DEF Opened
<1>9. Len(Opened) = Cardinality(Counted \ lost)
  BY <1>7, <1>8, LenIs
<1>10. lost = {} => Opened = Ascending(Counted)
  <2>1. lost = {} => Counted \ lost = Counted
    OBVIOUS
  <2> QED BY <2>1 DEF Opened
<1>11. Cardinality(Counted) = Len(mine) => Counted = Range(mine)
  <2>1. CASE confined
    BY <2>1 DEF Counted
  <2>2. CASE ~confined
    <3>1. Counted = Node
      BY <2>2 DEF Counted
    <3> QED BY <1>1, <1>3, <3>1, FS_Subset
  <2> QED BY <2>1, <2>2
<1>12. confined => Counted = Range(mine)
  BY DEF Counted
<1> QED BY <1>2, <1>3, <1>4, <1>6, <1>7, <1>8, <1>9, <1>10, <1>11, <1>12

(* Where nothing is said of the ordinals.                                  *)
Excused ==
    \/ lost # {} /\ known # "uuids"
    \/ mine # Ascending(Range(mine)) /\ known # "uuids"
    \/ ~confined /\ known = "count"

Attached(a) ==
    /\ Excused \/ \A i \in DOMAIN a : mine[a[i].ordinal + 1] = a[i].dev
    /\ Len(a) <= Len(mine)
    /\ Cardinality({a[i].dev : i \in DOMAIN a}) = Len(a)

(* Devices that are not repeated, each under a place in the job's list, are*)
(* the job's if, where it matters, that place is theirs.                   *)
LEMMA AttachedIf ==
    ASSUME NEW n \in Nat, n <= Len(mine), NEW X, NEW a \in [1..n -> X],
           \A i, j \in 1..n : a[i].dev = a[j].dev => i = j,
           Excused \/ \A k \in 1..n : mine[a[k].ordinal + 1] = a[k].dev
    PROVE  Attached(a)
<1> DEFINE f == [i \in 1..n |-> a[i].dev]
           T == {a[i].dev : i \in DOMAIN a}
<1>1. DOMAIN a = 1..n /\ Len(a) = n
  BY LenIs
<1>2. /\ DOMAIN f = 1..n /\ \A i, j \in 1..n : f[i] = f[j] => i = j
      /\ \A x : x \in T <=> \E i \in 1..n : x = f[i]
  BY <1>1
<1>3. Cardinality(T) = n
  <2> HIDE DEF f, T
  <2> QED BY <1>2, CountDistinct
<1> HIDE DEF f
<1> QED BY <1>1, <1>3 DEF Attached

(* By UUID: each device under its place in the job's own list.             *)
LEMMA UuidsAttached ==
    ASSUME mine \in Orders, lost \subseteq Node, confined \in BOOLEAN, NEW I \in SUBSET (DOMAIN mine)
    PROVE  Attached(AtPlaces(InOrder(mine), I))
<1> DEFINE m == Len(mine)
           n == Cardinality(I)
           p == Ascending(I)
           d == [k \in 1..n |-> mine[p[k]]]
<1>1. /\ m \in Nat /\ mine \in [1..m -> Node] /\ DOMAIN mine = 1..m
      /\ \A i, j \in 1..m : mine[i] = mine[j] => i = j
  BY NodeFacts
<1> HIDE DEF m
<1>2. /\ n \in Nat /\ n <= m
      /\ AtPlaces(InOrder(mine), I) = [k \in 1..n |-> InOrder(mine)[p[k]]]
      /\ p \in [1..n -> I] /\ \A j, k \in 1..n : p[j] = p[k] => j = k
  BY <1>1, PlacesAre
<1> HIDE DEF n, p
<1>3. p \in [1..n -> 1..m]
  BY <1>1, <1>2
<1>4. d \in [1..n -> Node] /\ \A i, j \in 1..n : d[i] = d[j] => i = j
  BY <1>1, <1>2, <1>3
<1>5. AtPlaces(InOrder(mine), I) = [k \in 1..n |-> [dev |-> d[k], ordinal |-> p[k] - 1]]
  <2>1. InOrder(mine) = [i \in 1..m |-> [dev |-> mine[i], ordinal |-> i - 1]]
    BY <1>1 DEF InOrder
  <2>2. \A k \in 1..n : InOrder(mine)[p[k]] = [dev |-> mine[p[k]], ordinal |-> p[k] - 1]
    BY <1>3, <2>1
  <2> QED BY <1>2, <2>2
<1> DEFINE a == AtPlaces(InOrder(mine), I)
<1>6. \A k \in 1..n : a[k].dev = d[k] /\ a[k].ordinal + 1 = p[k] /\ d[k] = mine[p[k]]
  <2>1. \A x \in 1..m : (x - 1) + 1 = x
    BY <1>1
  <2>2. \A k \in 1..n : a[k].dev = d[k] /\ a[k].ordinal = p[k] - 1
    BY <1>5
  <2> QED BY <1>3, <2>1, <2>2
<1>7. a \in [1..n -> {a[k] : k \in 1..n}]
  BY <1>2
<1> HIDE DEF d, a
<1>8. \A i, j \in 1..n : a[i].dev = a[j].dev => i = j
  BY <1>4, <1>6
<1>9. \A k \in 1..n : mine[a[k].ordinal + 1] = a[k].dev
  BY <1>6
<1>10. n <= Len(mine) /\ n \in Nat
  BY <1>2 DEF m
<1>11. Attached(a)
  BY <1>7, <1>8, <1>9, <1>10, AttachedIf
<1> QED BY <1>11 DEF a

(* By index among as many as the job has, or by number: the first in bus   *)
(* order.                                                                  *)
LEMMA FirstAttached ==
    ASSUME mine \in Orders, lost \subseteq Node, confined \in BOOLEAN, known # "uuids",
           Cardinality(Counted) = Len(mine) \/ (~confined /\ known = "count"),
           NEW n \in Nat, n <= Len(mine), n <= Len(Opened),
           NEW s, s = [i \in 1..n |-> Opened[i]]
    PROVE  Attached(InOrder(s))
<1> DEFINE m == Len(mine)
           o == Len(Opened)
<1>1. /\ m \in Nat /\ o \in Nat /\ Opened \in [1..o -> Node]
      /\ \A i, j \in 1..o : Opened[i] = Opened[j] => i = j
      /\ lost = {} /\ Cardinality(Counted) = Len(mine) => Opened = Ascending(Range(mine))
  BY NodeFacts
<1>2. n <= m /\ n <= o
  OBVIOUS
<1> HIDE DEF m, o
<1>3. \A i \in 1..n : i \in 1..o /\ i \in 1..m
  BY <1>1, <1>2
<1>4. s \in [1..n -> Node] /\ \A i, j \in 1..n : s[i] = s[j] => i = j
  BY <1>1, <1>3
<1> DEFINE a == InOrder(s)
<1>5. a = [i \in 1..n |-> [dev |-> s[i], ordinal |-> i - 1]]
  BY <1>4 DEF InOrder
<1>6. \A i \in 1..n : a[i].dev = s[i] /\ a[i].ordinal + 1 = i
  <2>1. \A i \in 1..n : (i - 1) + 1 = i
    OBVIOUS
  <2>2. \A i \in 1..n : a[i].dev = s[i] /\ a[i].ordinal = i - 1
    BY <1>5
  <2> QED BY <2>1, <2>2
<1>7. a \in [1..n -> {a[i] : i \in 1..n}]
  BY <1>5
<1> HIDE DEF a
<1>8. \A i, j \in 1..n : a[i].dev = a[j].dev => i = j
  BY <1>4, <1>6
<1>9. Excused \/ \A i \in 1..n : mine[a[i].ordinal + 1] = a[i].dev
  BY <1>1, <1>6 DEF Excused
<1>10. Attached(a)
  BY <1>7, <1>8, <1>9, AttachedIf
<1> QED BY <1>10 DEF a

(* By index in bus order: an index that cannot be looked up is passed over.*)
LEMMA IndicesAttached ==
    ASSUME mine \in Orders, lost \subseteq Node, confined \in BOOLEAN,
           known = "indices", Cardinality(Counted) # Len(mine),
           NEW I \in SUBSET (DOMAIN mine), \A i \in I : mine[i] <= Len(Opened)
    PROVE  LET listed == AtPlaces(InOrder(mine), I)
           IN  Attached([i \in DOMAIN listed |-> [listed[i] EXCEPT !.dev = Opened[listed[i].dev]]])
<1> DEFINE m == Len(mine)
           o == Len(Opened)
           n == Cardinality(I)
           p == Ascending(I)
           listed == AtPlaces(InOrder(mine), I)
           a == [i \in DOMAIN listed |-> [listed[i] EXCEPT !.dev = Opened[listed[i].dev]]]
<1>1. /\ m \in Nat /\ mine \in [1..m -> Node] /\ DOMAIN mine = 1..m
      /\ \A i, j \in 1..m : mine[i] = mine[j] => i = j
  BY NodeFacts
<1>2. \A i \in I : mine[i] \in 1..o
  <2>1. o \in Nat /\ \A x \in Node : x \in Nat /\ x >= 1
    BY NodeFacts, GpuAttachAssumption DEF Node
  <2>2. \A i \in I : mine[i] \in Node /\ mine[i] <= o
    BY <1>1
  <2> HIDE DEF o, m
  <2> QED BY <2>1, <2>2
<1>4. /\ Opened \in [1..o -> Node]
      /\ \A i, j \in 1..o : Opened[i] = Opened[j] => i = j
  BY NodeFacts
<1>5. lost = {} => \A i \in 1..o : Opened[i] = i
  <2> SUFFICES ASSUME lost = {} PROVE \A i \in 1..o : Opened[i] = i
    OBVIOUS
  <2>1. Opened = Ascending(Counted) /\ (confined => Counted = Range(mine))
        /\ Cardinality(Range(mine)) = Len(mine)
    BY NodeFacts
  <2>2. Counted = 1..Devices
    BY <2>1 DEF Counted, Node
  <2>3. Opened = [i \in 1..Devices |-> i]
    BY <2>1, <2>2, AscendingInterval, GpuAttachAssumption
  <2>4. o = Devices
    <3>1. [i \in 1..Devices |-> i] \in [1..Devices -> Node]
      BY DEF Node
    <3> QED BY <2>3, <3>1, LenIs, GpuAttachAssumption
  <2> QED BY <2>3, <2>4
<1> HIDE DEF m, o
<1>3. /\ n \in Nat /\ n <= m
      /\ listed = [k \in 1..n |-> InOrder(mine)[p[k]]]
      /\ p \in [1..n -> I] /\ \A j, k \in 1..n : p[j] = p[k] => j = k
  BY <1>1, PlacesAre
<1> HIDE DEF n, p, listed
<1>6. p \in [1..n -> 1..m] /\ \A k \in 1..n : mine[p[k]] \in 1..o
  BY <1>1, <1>2, <1>3
<1>7. \A k \in 1..n : listed[k] = [dev |-> mine[p[k]], ordinal |-> p[k] - 1]
  <2>1. InOrder(mine) = [i \in 1..m |-> [dev |-> mine[i], ordinal |-> i - 1]]
    BY <1>1 DEF InOrder
  <2>2. \A k \in 1..n : InOrder(mine)[p[k]] = [dev |-> mine[p[k]], ordinal |-> p[k] - 1]
    BY <1>6, <2>1
  <2> QED BY <1>3, <2>2
<1>8. DOMAIN a = 1..n /\ a \in [1..n -> {a[k] : k \in 1..n}]
  BY <1>3
<1>9. \A k \in 1..n : a[k].dev = Opened[mine[p[k]]] /\ a[k].ordinal + 1 = p[k]
  <2>1. \A x \in 1..m : (x - 1) + 1 = x
    BY <1>1
  <2>2. \A k \in 1..n : a[k] = [listed[k] EXCEPT !.dev = Opened[listed[k].dev]]
    BY <1>3
  <2> HIDE DEF a
  <2>3. ASSUME NEW k \in 1..n
        PROVE  a[k].dev = Opened[mine[p[k]]] /\ a[k].ordinal = p[k] - 1
    <3>1. \A r, d, q : r = [dev |-> d, ordinal |-> q] =>
            /\ [r EXCEPT !.dev = Opened[r.dev]].dev = Opened[d]
            /\ [r EXCEPT !.dev = Opened[r.dev]].ordinal = q
      OBVIOUS
    <3>2. /\ listed[k] = [dev |-> mine[p[k]], ordinal |-> p[k] - 1]
          /\ a[k] = [listed[k] EXCEPT !.dev = Opened[listed[k].dev]]
      BY <1>7, <2>2
    <3> QED BY <3>1, <3>2
  <2> QED BY <1>6, <2>1, <2>3
<1> HIDE DEF a
<1>10. \A i, j \in 1..n : a[i].dev = a[j].dev => i = j
  <2> SUFFICES ASSUME NEW i \in 1..n, NEW j \in 1..n, a[i].dev = a[j].dev PROVE i = j
    OBVIOUS
  <2>1. mine[p[i]] = mine[p[j]]
    BY <1>4, <1>6, <1>9
  <2>2. p[i] = p[j]
    BY <1>1, <1>6, <2>1
  <2> QED BY <1>3, <2>2
<1>11. Excused \/ \A k \in 1..n : mine[a[k].ordinal + 1] = a[k].dev
  BY <1>5, <1>6, <1>9 DEF Excused
<1>12. n \in Nat /\ n <= Len(mine)
  BY <1>3 DEF m
<1>13. Attached(a)
  BY <1>8, <1>10, <1>11, <1>12, AttachedIf
<1> QED BY <1>13 DEF a, listed

(* What is said of a device is the job's.                                  *)
LEMMA Judgement ==
    ASSUME NEW d \in Uses, Legal(d)
    PROVE  /\ d.byJob /\ d.own >= d.others /\ (d.procUtil \/ d.util = "read") => GpuIsActive(d)
           /\ ~d.byJob /\ 0 < d.own /\ d.own < d.others /\ d.procVram /\ d.vram => ~GpuIsActive(d)
<1>1. /\ d.own \in 0..2 /\ d.others \in 0..2
      /\ d.busy \in BOOLEAN /\ d.byJob \in BOOLEAN /\ d.vram \in BOOLEAN /\ d.procVram \in BOOLEAN
      /\ d.procUtil \in BOOLEAN /\ d.util \in {"read", "failed", "unsupported"}
  BY DEF Uses
<1>2. \A x, y \in 0..2 : /\ x >= y => x * 2 >= x + y /\ x * 2 >= 0
                         /\ x < y => ~(x * 2 >= x + y)
                         /\ x > 0 => x + y > 0
  OBVIOUS
<1>3. ASSUME d.byJob, d.own >= d.others, d.procUtil \/ d.util = "read" PROVE GpuIsActive(d)
  <2>1. d.busy /\ d.own > 0
    BY <1>3 DEF Legal
  <2>2. CASE d.procUtil
    BY <1>3, <2>2 DEF GpuIsActive
  <2>3. CASE d.util = "read"
    BY <1>1, <1>2, <1>3, <2>1, <2>3 DEF GpuIsActive
  <2> QED BY <1>3, <2>2, <2>3
<1>4. ASSUME ~d.byJob, 0 < d.own, d.own < d.others, d.procVram, d.vram PROVE ~GpuIsActive(d)
  <2>1. ~(d.own * 2 >= d.own + d.others) /\ d.own > 0 /\ d.others # 0
    BY <1>1, <1>2, <1>4
  <2>2. d.util # "unsupported"
    BY <2>1 DEF Legal
  <2> QED BY <1>4, <2>1, <2>2 DEF GpuIsActive, OwnsMajority
<1> QED BY <1>3, <1>4

(* The devices attached and the judgement of one stay the job's.           *)
THEOREM GpuInvCorrect == GpuAttachSpec => []GpuInv
<1>1. GpuAttachInit => GpuInv
  <2> SUFFICES ASSUME GpuAttachInit PROVE GpuInv
    OBVIOUS
  <2>1. Len(<<>>) = 0 /\ DOMAIN <<>> = {} /\ Len(mine) \in Nat
    BY NodeFacts DEF GpuAttachInit
  <2>2. Cardinality({attached[i].dev : i \in DOMAIN attached}) = Len(attached)
    <3>1. {attached[i].dev : i \in DOMAIN attached} = {} /\ Len(attached) = 0
      BY <2>1 DEF GpuAttachInit
    <3> QED BY <3>1, FS_EmptySet
  <2>3. device \in Uses
    BY DEF GpuAttachInit, Uses, Idle
  <2>4. Len(attached) <= Len(mine)
    BY <2>1 DEF GpuAttachInit
  <2> QED BY <2>1, <2>2, <2>3, <2>4
          DEF GpuAttachInit, GpuInv, GpusAreTheJobs, OrdinalsAreCudas, NoForeignSurplus, ActivityIsOwn
<1>2. ASSUME GpuInv, [GpuAttachNext]_gpuAttachVars PROVE GpuInv'
  <2>1. CASE InitNvml
    <3>0. mine \in Orders /\ lost \subseteq Node /\ confined \in BOOLEAN
      BY <1>2 DEF GpuInv
    <3>1. Attached(attached')
      <4>1. CASE known = "uuids"
        <5>1. attached' = AtPlaces(InOrder(mine), {i \in DOMAIN mine : mine[i] \in Range(Opened)})
          BY <2>1, <4>1 DEF InitNvml, AttachUuids
        <5> QED BY <3>0, <5>1, UuidsAttached
      <4>2. CASE known = "indices" /\ Cardinality(Counted) = Len(mine)
        <5>1. attached' = InOrder(Opened)
          BY <2>1, <4>2 DEF InitNvml, AttachIndices
        <5>2. /\ Len(Opened) \in Nat /\ Len(Opened) <= Len(mine)
              /\ Opened = [i \in 1..Len(Opened) |-> Opened[i]]
          BY <3>0, <4>2, NodeFacts
        <5>3. Len(Opened) <= Len(Opened)
          BY <5>2
        <5> QED BY <3>0, <4>2, <5>1, <5>2, <5>3, FirstAttached
      <4>3. CASE known = "indices" /\ Cardinality(Counted) # Len(mine)
        <5> DEFINE I == {i \in DOMAIN mine : mine[i] <= Len(Opened)}
                   listed == AtPlaces(InOrder(mine), I)
        <5>1. attached' = [i \in DOMAIN listed |-> [listed[i] EXCEPT !.dev = Opened[listed[i].dev]]]
          BY <2>1, <4>3 DEF InitNvml, AttachIndices
        <5>2. I \in SUBSET (DOMAIN mine) /\ \A i \in I : mine[i] <= Len(Opened)
          OBVIOUS
        <5> HIDE DEF I
        <5> QED BY <3>0, <4>3, <5>1, <5>2, IndicesAttached
      <4>4. CASE known = "count"
        <5> DEFINE n == Min({Len(mine), Len(Opened)})
                   s == SubSeq(Opened, 1, n)
        <5>1. attached' = InOrder(s)
          BY <2>1, <4>4 DEF InitNvml, AttachCount
        <5>2. /\ Len(mine) \in Nat /\ Len(Opened) \in Nat
              /\ Opened \in [1..Len(Opened) -> Counted \ lost]
          BY <3>0, NodeFacts
        <5>3. n \in Nat /\ n <= Len(mine) /\ n <= Len(Opened)
          <6>1. Len(mine) \in Int /\ Len(Opened) \in Int
            BY <5>2
          <6>2. n \in {Len(mine), Len(Opened)} /\ n <= Len(mine) /\ n <= Len(Opened)
            BY <6>1, MinOfTwo
          <6> HIDE DEF n
          <6> QED BY <5>2, <6>2
        <5> HIDE DEF n
        <5>4. s = [i \in 1..n |-> Opened[i]]
          BY <5>2, <5>3, Prefix
        <5>5. Cardinality(Counted) = Len(mine) \/ (~confined /\ known = "count")
          BY <3>0, <4>4, NodeFacts
        <5> HIDE DEF s
        <5> QED BY <3>0, <4>4, <5>1, <5>3, <5>4, <5>5, FirstAttached
      <4> QED BY <1>2, <4>1, <4>2, <4>3, <4>4 DEF GpuInv
    <3>2. UNCHANGED <<mine, known, confined, lost, device, active>> /\ nvmlState' = "ready"
      BY <2>1 DEF InitNvml
    <3>3. OrdinalsAreCudas' /\ NoForeignSurplus'
      BY <3>1, <3>2 DEF Attached, Excused, OrdinalsAreCudas, NoForeignSurplus
    <3> QED BY <1>2, <3>2, <3>3 DEF GpuInv, GpusAreTheJobs, ActivityIsOwn
  <2>2. CASE \E d \in {u \in Uses : Legal(u)} : SampleGpu(d)
    <3>1. PICK d \in Uses : Legal(d) /\ SampleGpu(d)
      BY <2>2
    <3>2. ActivityIsOwn'
      BY <3>1, Judgement DEF SampleGpu, ActivityIsOwn
    <3>3. UNCHANGED <<mine, known, confined, lost, nvmlState, attached>> /\ device' \in Uses
      BY <3>1 DEF SampleGpu
    <3> QED BY <1>2, <3>2, <3>3 DEF GpuInv, GpusAreTheJobs, OrdinalsAreCudas, NoForeignSurplus
  <2>3. CASE UNCHANGED gpuAttachVars
    BY <1>2, <2>3 DEF gpuAttachVars, GpuInv, GpusAreTheJobs, OrdinalsAreCudas, NoForeignSurplus, ActivityIsOwn
  <2> QED BY <1>2, <2>1, <2>2, <2>3 DEF GpuAttachNext
<1> QED BY <1>1, <1>2, PTL DEF GpuAttachSpec

(* Whatever Slurm told of the job's devices, whichever cannot be opened    *)
(* and whoever else uses them, _init_nvml attaches the job's under CUDA's  *)
(* ordinals, and _gpu_is_active speaks of the job.                         *)
THEOREM GpusTrue == GpuAttachSpec => []GpusAreTheJobs
<1>1. GpuInv => GpusAreTheJobs
  BY DEF GpuInv
<1> QED BY <1>1, GpuInvCorrect, PTL
=============================================================================
