------------------------------ MODULE PendingFit ------------------------------
(***************************************************************************)
(* Where a queued job could run (pending.py): two sinfo queries, one after *)
(* the other, are summed up by partition, the sums are held against the    *)
(* job's request, and the view closes with a tip drawn from the verdicts.  *)
(*                                                                         *)
(* The scheduler goes on placing and ending other jobs between the two     *)
(* queries and between two polls; the nodes themselves do not change.      *)
(***************************************************************************)
EXTENDS Naturals, FiniteSets, FiniteSetsExt

CONSTANTS
    Nodes,        \* the nodes
    Requests,     \* the job: its request, why it waits, where it is queued and allowed,
                  \* and which partitions are down or too short for it
    Clusters,     \* the nodes' configuration and health, by node
    Loads,        \* what other jobs may hold of one node
    Partitions    \* the partitions: sets of nodes, by name

(* A job asks for at least a node, in partitions that there are, and only   *)
(* nodes are counted.                                                       *)
ASSUME FitAssumption ==
    /\ IsFiniteSet(Nodes)
    /\ \A r \in Requests : r.nodes \in Nat \ {0} /\ {r.cpus, r.mem, r.gpus} \subseteq Nat
                            /\ r.allowed \cup r.current \subseteq DOMAIN Partitions
    /\ \A l \in Loads : {l.cpus, l.mem, l.gpus} \subseteq Nat
    /\ \A c \in Clusters, n \in Nodes : {c[n].cpus, c[n].mem, c[n].gpus} \subseteq Nat
    /\ \A p \in DOMAIN Partitions : Partitions[p] \subseteq Nodes

VARIABLES
    want,      \* the pending job and its request: constant after Init
    node,      \* the nodes: constant after Init
    load,      \* external: what is taken of each node
    summed,    \* load as the aggregate query saw it
    counted,   \* load as the per-node query saw it
    query,     \* the query to be made next
    verdict,   \* fit_blocker's answer for each partition
    tip        \* the tip

fitVars == <<want, node, load, summed, counted, query, verdict, tip>>

Permanent == {"node too small", "time limit", "no GPU", "no type", "too few GPUs"}
Transient == {"no room", "GPUs busy", "down"}

Empty == [n \in Nodes |-> [cpus |-> 0, mem |-> 0, gpus |-> 0]]

FitTypeOK ==
    /\ want \in Requests /\ node \in Clusters
    /\ {load, summed, counted} \subseteq [Nodes -> Loads] \cup {Empty}
    /\ query \in {"aggregate", "nodes", "nothing"}
    /\ verdict \in [DOMAIN Partitions -> Permanent \cup Transient \cup {""}]
    /\ tip \in {"", "cap", "no move", "requeue", "never", "wait"}

Within(l) == \A n \in Nodes : l[n].cpus <= node[n].cpus /\ l[n].mem <= node[n].mem
                              /\ l[n].gpus <= node[n].gpus
Possible == {l \in [Nodes -> Loads] : Within(l)}

FitInit ==
    /\ want \in Requests /\ node \in Clusters
    /\ load \in Possible /\ summed = Empty /\ counted = Empty
    /\ query = "aggregate"
    /\ verdict = [p \in DOMAIN Partitions |-> ""] /\ tip = ""

-----------------------------------------------------------------------------
(* resolve_cluster_partitions and _fetch_free_gpus_by_partition. *)

State(n, l) ==
    IF node[n].health # "ok" THEN node[n].health
    ELSE IF l[n].cpus = 0 THEN "idle" ELSE IF l[n].cpus < node[n].cpus THEN "mix" ELSE "alloc"

In(S, l, states) == {n \in S : State(n, l) \in states}
Schedulable(S, l) == In(S, l, {"idle", "mix"})
Idle(S, l) == In(S, l, {"idle"})
(* "flagged": a mark of sinfo's that the node will take no normal job.      *)
Unflagged(S) == {n \in S : node[n].health # "flagged"}

Most(S, Of(_)) == Max({0} \cup {Of(n) : n \in S})
Cpus(n) == node[n].cpus
Mem(n) == node[n].mem
Gpus(n) == node[n].gpus
FreeCpus(S, l) == MapThenSumSet(LAMBDA n : node[n].cpus - l[n].cpus, S)

GpuNodes(S) == {n \in S : node[n].gpus > 0}
Types(S) == {node[n].type : n \in GpuNodes(Unflagged(S))} \ {""}

(* GresUsed: unknown where the field is, unless there was no node to read  *)
(* it from; known to be nothing where a partition has none schedulable.    *)
GpuDetail(S) ==
    /\ want.gresUsed \/ GpuNodes(Schedulable(Nodes, counted)) = {}
    /\ GpuNodes(Schedulable(S, counted)) # {} \/ GpuNodes(Unflagged(S)) # {}

FreeGpus(n) == node[n].gpus - counted[n].gpus
FreeMem(n) == node[n].mem - counted[n].mem

-----------------------------------------------------------------------------
(* fit_blocker. *)

PerNode(total) == (total + want.nodes - 1) \div want.nodes

(* Mutant: a job with GPUs is held against whole idle nodes as it was      *)
(* before free GPUs could be read.                                         *)
WholeNodeForGpus(S) == want.exclusive \/ want.gpus > 0
WholeNode(S) == want.exclusive \/ (want.gpus > 0 /\ ~GpuDetail(S))

Or(a, b) == IF a # 0 THEN a ELSE b

MaxNodeCpus(S) ==
    LET any == Most(Schedulable(S, summed), Cpus)
    IN  IF WholeNode(S) THEN Or(Most(Idle(S, summed), Cpus), any) ELSE any

MaxNodeMem(S) ==
    LET any == Most(Schedulable(S, summed), Mem)
    IN  IF WholeNode(S) THEN Or(Most(Idle(S, summed), Mem), any)
        ELSE IF Schedulable(S, counted) # {} THEN Most(Schedulable(S, counted), FreeMem)
        ELSE any

CpusAvailable(S) ==
    LET any == FreeCpus(Schedulable(S, summed), summed)
    IN  IF WholeNode(S) THEN Or(FreeCpus(Idle(S, summed), summed), any) ELSE any

AvailableNodes(S) ==
    IF WholeNode(S) THEN Cardinality(Idle(S, summed))
    ELSE IF want.gpus > 0
    THEN Cardinality({n \in GpuNodes(Schedulable(S, counted)) : FreeGpus(n) >= PerNode(want.gpus)})
    ELSE Cardinality(Schedulable(S, summed))

(* Mutant: what no free node can hold, no node can.                        *)
ShapeByHour(need, widest) == "node too small"
ShapeBlocker(need, widest) == IF need <= widest THEN "no room" ELSE "node too small"

FitBlocker(p) ==
    LET S == Partitions[p]
        perCpus == PerNode(want.cpus)
        perMem == PerNode(want.mem)
        tooSmall(need, most) == most > 0 /\ need > most
    IN  IF p \in want.down THEN "down"
        ELSE IF tooSmall(perCpus, MaxNodeCpus(S)) THEN ShapeBlocker(perCpus, Most(S, Cpus))
        ELSE IF tooSmall(perMem, MaxNodeMem(S)) THEN ShapeBlocker(perMem, Most(S, Mem))
        ELSE IF p \in want.tooLong THEN "time limit"
        ELSE IF want.gpus > 0 /\ GpuNodes(Unflagged(S)) = {} THEN "no GPU"
        ELSE IF want.gpus > 0 /\ want.type # "" /\ Types(S) # {} /\ want.type \notin Types(S)
             THEN "no type"
        ELSE IF want.gpus > 0 /\ PerNode(want.gpus) > Most(Unflagged(S), Gpus)
             THEN "too few GPUs"
        ELSE IF want.gpus > 0 /\ GpuDetail(S)
                /\ Most(GpuNodes(Schedulable(S, counted)), FreeGpus) < PerNode(want.gpus)
             THEN "GPUs busy"
        ELSE IF want.nodes > AvailableNodes(S) \/ want.cpus > CpusAvailable(S) THEN "no room"
        ELSE ""

(* The ladder of tips under the table, in the report and in the view.      *)
TipFor(v) ==
    LET alternatives == {p \in DOMAIN Partitions \ want.current : v[p] = "" /\ p \in want.allowed}
    IN  CASE want.reason = "cap" -> "cap"
          [] want.reason = "held" -> "no move"
          [] OTHER ->
               IF alternatives # {} THEN "requeue"
               ELSE IF \E p \in want.current : v[p] = "" THEN ""
               ELSE IF \A p \in DOMAIN Partitions : v[p] \in Permanent THEN "never"
               ELSE "wait"

-----------------------------------------------------------------------------
(* Other jobs start on a node or end there.                                *)
LoadMoves ==
    /\ \E n \in Nodes, l \in Loads : load' = [load EXCEPT ![n] = l]
    /\ load' \in Possible /\ load' # load
    /\ UNCHANGED <<want, node, summed, counted, query, verdict, tip>>

Aggregate ==
    /\ query = "aggregate"
    /\ summed' = load /\ query' = "nodes"
    /\ UNCHANGED <<want, node, load, counted, verdict, tip>>

CountNodes ==
    /\ query = "nodes"
    /\ counted' = load /\ query' = "nothing"
    /\ UNCHANGED <<want, node, load, summed, verdict, tip>>

(* What the queries saw is forgotten with the poll.                        *)
Judge ==
    /\ query = "nothing" /\ query' = "aggregate"
    /\ verdict' = [p \in DOMAIN Partitions |-> FitBlocker(p)]
    /\ tip' = TipFor(verdict')
    /\ summed' = Empty /\ counted' = Empty
    /\ UNCHANGED <<want, node, load>>

FitNext == LoadMoves \/ Aggregate \/ CountNodes \/ Judge

FitSpec == FitInit /\ [][FitNext]_fitVars

-----------------------------------------------------------------------------
(* What Slurm could do: the job in equal shares on nodes of a partition.   *)

Takes(n, l) ==
    /\ node[n].health = "ok"
    /\ l[n].cpus < node[n].cpus
    /\ l[n].cpus + PerNode(want.cpus) <= node[n].cpus
    /\ l[n].mem + PerNode(want.mem) <= node[n].mem
    /\ l[n].gpus + PerNode(want.gpus) <= node[n].gpus
    /\ want.gpus > 0 /\ want.type # "" => node[n].type = want.type
    /\ want.exclusive => l[n].cpus = 0

Room(p, l) ==
    p \notin want.tooLong \cup want.down /\ \E T \in SUBSET Partitions[p] :
        Cardinality(T) = want.nodes /\ \A n \in T : Takes(n, l)

(* The view closes only on a judgement just made.                          *)
Judged == query = "aggregate" /\ tip # ""

(* A partition that has room at both looks is never said to have none, and *)
(* nobody is told to wait, or that the job cannot run, while one they may  *)
(* use has: not because a neighbour is too small, too busy or has no GPUs. *)
RoomIsNotHidden ==
    [][ Judge =>
          /\ \A p \in DOMAIN Partitions :
               want.gresUsed /\ Room(p, summed) /\ Room(p, counted) => verdict'[p] = ""
          /\ tip' \in {"never", "wait"} /\ want.gresUsed =>
               ~\E p \in want.allowed \cup want.current : Room(p, summed) /\ Room(p, counted)
      ]_fitVars

(* "no amount of waiting changes the size of a node": where every node is  *)
(* healthy, a verdict that waiting cannot clear is about the hardware, and *)
(* never about what happens to be taken when it is asked for.              *)
PermanentIsHardware ==
    (\A n \in Nodes : node[n].health # "flagged") =>
        /\ \A p \in DOMAIN Partitions : verdict[p] \in Permanent => ~Room(p, Empty)
        /\ tip = "never" => \A p \in DOMAIN Partitions : ~Room(p, Empty)

(* "a verdict must not depend on unrelated cluster load": whether it is    *)
(* permanent does not change from one poll to the next.                    *)
VerdictOutlivesLoad ==
    [][ \A p \in DOMAIN Partitions :
          Judge /\ verdict[p] # "" /\ verdict'[p] # "" =>
              (verdict[p] \in Permanent <=> verdict'[p] \in Permanent) ]_fitVars
=============================================================================
