------------------------------- MODULE CpuRate -------------------------------
(***************************************************************************)
(* TelemetryCollector._collect_cpu, _read_cpu_ns and _cpu_affinity_ceiling *)
(* (collector.py), with the CPU part of _apply_peaks: a rate measured from *)
(* a cumulative counter that can come from three sources, any of which can *)
(* fail at any frame, over windows of any length.                          *)
(*                                                                         *)
(* The three counters start apart: they do not cover the same processes.   *)
(***************************************************************************)
EXTENDS Integers, FiniteSetsExt

CONSTANTS
    Cpus,       \* CPUs the job's cpuset lets it run on, those of the node if
                \* it is not confined
    Confined,   \* the job has a cpuset of its own
    NoCeiling,  \* _cpu_affinity_ceiling's None
    Unset,      \* _UNSET: the ceiling has not been looked up
    MinDt,      \* min_dt: the shortest window a rate is taken over
    MaxClock,   \* bound on the time that passes
    MaxBack     \* bound on the ticks the /proc account hands back

ASSUME CpuRateAssumption ==
    /\ Cpus \in Nat \ {0} /\ Confined \in BOOLEAN
    /\ MinDt \in Nat \ {0} /\ MaxClock \in Nat /\ MaxBack \in Nat
    /\ NoCeiling \notin Nat /\ Unset \notin Nat /\ NoCeiling # Unset

Sources == {"v2", "v1", "proc"}
None == "none"

VARIABLES
    clock,      \* time.monotonic()
    counter,    \* what each source would answer
    prevNs,     \* _prev_cpu_ns
    prevAt,     \* _prev_timestamp
    prevSource, \* _prev_cpu_source
    ceiling,    \* _cpu_ceiling_cached
    busy,       \* the delta of the frame's rate, in ticks ...
    over,       \* ... and its window; 0 when the frame measured nothing
    peak,       \* _peak_effective_cores, as a fraction
    reported,   \* _reported_cpu_ns
    base,       \* history: the counter at the seeding of the baseline
    measured    \* history: ticks attributed to windows since then

cpuBaseline == <<prevNs, prevAt, prevSource>>
cpuRateVars == <<clock, counter, cpuBaseline, ceiling, busy, over, peak, reported,
                 base, measured>>

(* Fractions are compared by cross-multiplication; a window of 0 is a 0.   *)
AtMost(n1, d1, n2, d2) == n1 * d2 <= n2 * d1

CpuRateTypeOK ==
    /\ clock \in 0..MaxClock
    /\ counter \in [Sources -> Nat]
    /\ prevNs \in Nat \cup {-1} /\ prevAt \in 0..clock
    /\ prevSource \in Sources \cup {None}
    /\ ceiling \in Nat \cup {NoCeiling, Unset}
    /\ busy \in Nat /\ over \in Nat
    /\ peak \in [n : Nat, d : Nat \ {0}]
    /\ reported \in Nat /\ base \in Nat /\ measured \in Nat

CpuRateInit ==
    /\ clock = 0
    /\ counter = [s \in Sources |-> CASE s = "v2" -> 0 [] s = "v1" -> Cpus [] OTHER -> 1]
    /\ prevNs = -1 /\ prevAt = 0 /\ prevSource = None
    /\ ceiling = Unset
    /\ busy = 0 /\ over = 0 /\ peak = [n |-> 0, d |-> 1] /\ reported = 0
    /\ base = 0 /\ measured = 0

(* The job uses up to its CPUs for one unit of time.                       *)
Compute(ticks) ==
    /\ clock < MaxClock
    /\ clock' = clock + 1
    /\ counter' = [s \in Sources |-> counter[s] + ticks]
    /\ UNCHANGED <<cpuBaseline, ceiling, busy, over, peak, reported, base, measured>>

(* ProcCpu's hand-back: the /proc account alone can step backwards.        *)
HandBack(ticks) ==
    /\ counter["proc"] >= ticks
    /\ counter["v2"] - counter["proc"] + ticks <= MaxBack
    /\ counter' = [counter EXCEPT !["proc"] = @ - ticks]
    /\ UNCHANGED <<clock, cpuBaseline, ceiling, busy, over, peak, reported, base, measured>>

-----------------------------------------------------------------------------
(* A frame. *)

(* _read_cpu_ns: the first source that answers, in this order.             *)
SourceOf(readable) ==
    CASE "v2" \in readable -> "v2" [] "v1" \in readable -> "v1"
      [] "proc" \in readable -> "proc" [] OTHER -> None

(* _cpu_affinity_ceiling: looked up once, and a failed look-up is kept too. *)
LookUpCeiling(affinityRead) ==
    IF ceiling # Unset THEN ceiling
    ELSE IF affinityRead /\ Confined THEN Cpus ELSE NoCeiling

Seed(s) ==
    /\ prevNs' = counter[s] /\ prevAt' = clock /\ prevSource' = s
    /\ base' = counter[s] /\ measured' = 0
    /\ busy' = 0 /\ over' = 0
    /\ UNCHANGED ceiling

(* A window shorter than min_dt leaves the baseline for a later frame.     *)
Measure(s, affinityRead) ==
    IF clock - prevAt < MinDt
    THEN busy' = 0 /\ over' = 0 /\ UNCHANGED <<cpuBaseline, base, measured, ceiling>>
    ELSE LET delta == Max({0, counter[s] - prevNs})
             dt == clock - prevAt
             limit == LookUpCeiling(affinityRead)
         IN  /\ ceiling' = limit
             /\ busy' = IF limit \in Nat THEN Min({delta, limit * dt}) ELSE delta
             /\ over' = dt
             /\ prevNs' = counter[s] /\ prevAt' = clock /\ UNCHANGED prevSource
             /\ measured' = measured + delta /\ UNCHANGED base

(* Two counters cannot be subtracted from each other.                      *)
Comparable(s) == prevNs >= 0 /\ prevSource = s

(* _apply_peaks.                                                           *)
RaisePeak ==
    peak' = IF over' > 0 /\ ~AtMost(busy', over', peak.n, peak.d)
            THEN [n |-> busy', d |-> over'] ELSE peak

(* Mutant: the last reading is published as it came.                       *)
ReportRaw(s) == reported' = counter[s]

Report(s) == reported' = Max({reported, counter[s]})

(* A frame in which nothing answers keeps the baseline and its source.     *)
CpuFrame(readable, affinityRead) ==
    LET s == SourceOf(readable)
    IN  /\ IF s = None
           THEN /\ busy' = 0 /\ over' = 0
                /\ UNCHANGED <<cpuBaseline, base, measured, ceiling, reported>>
           ELSE /\ IF Comparable(s) THEN Measure(s, affinityRead) ELSE Seed(s)
                /\ Report(s)
        /\ RaisePeak
        /\ UNCHANGED <<clock, counter>>

CpuRateNext ==
    \/ \E ticks \in 0..Cpus : Compute(ticks)
    \/ \E ticks \in 1..MaxBack : HandBack(ticks)
    \/ \E readable \in SUBSET Sources, affinityRead \in BOOLEAN :
           CpuFrame(readable, affinityRead)

CpuRateSpec == CpuRateInit /\ [][CpuRateNext]_cpuRateVars

-----------------------------------------------------------------------------
(* No rate is one the job cannot have had, whatever fails and whenever the *)
(* frames come: a cgroup's counter never yields more cores than exist, and *)
(* every tick of it lands in exactly one window (the clamp of a counter    *)
(* that steps back can only add).                                          *)
RateIsTrue ==
    /\ prevSource \in {"v1", "v2"} => busy <= Cpus * over
    /\ prevNs >= 0 => /\ measured >= prevNs - base
                      /\ prevSource # "proc" => measured = prevNs - base

(* A consumer that subtracts two records never sees the job un-use CPU, or *)
(* a peak below the rate beside it.                                        *)
CpuNeverFalls ==
    [][/\ reported' >= reported
       /\ AtMost(peak.n, peak.d, peak'.n, peak'.d)
       /\ over' > 0 => AtMost(busy', over', peak'.n, peak'.d)]_cpuRateVars
(* The CPU figures are the job's, in every frame and from one to the next. *)
CpuIsTrue == []RateIsTrue /\ CpuNeverFalls
=============================================================================
