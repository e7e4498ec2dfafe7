---------------------------- MODULE MCCommandLine ----------------------------
(***************************************************************************)
(* The questions a command line asks one after the other - which job, is   *)
(* its control group here, how to get to its node, where a queued one      *)
(* could run - checked side by side: each behaviour moves one of them, the *)
(* one in focus, and the others stand still.                               *)
(***************************************************************************)
EXTENDS Hop, JobQuery, CgroupFind, PendingFit, TLC

CONSTANT Questions    \* the questions that may be in focus

VARIABLE focus

commandVars == <<focus, hopVars, queryVars, cgroupVars, fitVars>>

Node(c, m, g, t, h) == [cpus |-> c, mem |-> m, gpus |-> g, type |-> t, health |-> h]

(* Alike and unlike, with GPUs of a named type, another or none; one node  *)
(* reserved, one flagged.                                                  *)
MCClusters ==
    { (1 :> Node(2, 2, 0, "", "ok")) @@ (2 :> Node(2, 2, 1, "a", "ok")),
      (1 :> Node(1, 1, 0, "", "ok")) @@ (2 :> Node(2, 2, 1, "b", "ok")),
      (1 :> Node(1, 2, 1, "", "ok")) @@ (2 :> Node(2, 1, 2, "a", "resv")),
      (1 :> Node(2, 1, 1, "a", "ok")) @@ (2 :> Node(2, 2, 2, "a", "flagged")),
      (1 :> Node(2, 2, 1, "a", "ok")) @@ (2 :> Node(2, 2, 1, "a", "ok")) }

Taken(c, m, g) == [cpus |-> c, mem |-> m, gpus |-> g]

MCLoads == { Taken(0, 0, 0), Taken(1, 1, 0), Taken(1, 1, 1), Taken(2, 2, 1) }

MCPartitions == ("one" :> {1}) @@ ("all" :> {1, 2})

Request(n, c, m, g) ==
    [nodes |-> n, cpus |-> c, mem |-> m, gpus |-> g, type |-> "", exclusive |-> FALSE,
     tooLong |-> {}, down |-> {}, gresUsed |-> TRUE, current |-> {"one"}, allowed |-> {"one", "all"},
     reason |-> "room"]

(* One shape of request after the other: too wide, on two nodes, with a    *)
(* GPU or more than a node has, exclusive, too much memory, too long, and  *)
(* one with a partition down.                                              *)
MCRequests ==
    { Request(1, 2, 1, 0), Request(1, 3, 1, 0), Request(2, 2, 2, 0), Request(2, 2, 2, 2),
      Request(1, 1, 1, 2), Request(1, 1, 2, 0),
      [Request(1, 1, 1, 1) EXCEPT !.type = "a"],
      [Request(1, 1, 1, 1) EXCEPT !.gresUsed = FALSE],
      [Request(1, 1, 1, 0) EXCEPT !.exclusive = TRUE],
      [Request(1, 1, 1, 0) EXCEPT !.tooLong = {"all"}],
      [Request(1, 1, 1, 0) EXCEPT !.down = {"all"}],
      [Request(1, 2, 1, 0) EXCEPT !.allowed = {"one"}],
      [Request(1, 1, 1, 0) EXCEPT !.reason = "cap"],
      [Request(1, 1, 1, 0) EXCEPT !.reason = "held"] }

Init ==
    /\ focus \in Questions
    /\ HopInit /\ (focus # "hop" => env.kind = "local" /\ env.tty /\ ~env.noHop)
    /\ JobQueryInit
    /\ focus # "job" => job = "running" /\ call.foreign /\ ~call.here /\ ~call.hop
    /\ CgroupInit
    /\ focus # "cgroup" => /\ host.version = 2 /\ host.name = "exact" /\ host.self = "mine"
                           /\ host.env = "mine" /\ ~host.extends /\ host.open
                           /\ host.telling = "first"
    /\ FitInit
    /\ focus # "fit" => /\ want = Request(1, 2, 1, 0) /\ load = Empty
                        /\ node[1] = Node(2, 2, 0, "", "ok")

Next ==
    \/ focus = "hop" /\ HopNext /\ UNCHANGED <<focus, queryVars, cgroupVars, fitVars>>
    \/ focus = "job" /\ JobQueryNext /\ UNCHANGED <<focus, hopVars, cgroupVars, fitVars>>
    \/ focus = "cgroup" /\ CgroupNext /\ UNCHANGED <<focus, hopVars, queryVars, fitVars>>
    \/ focus = "fit" /\ FitNext /\ UNCHANGED <<focus, hopVars, queryVars, cgroupVars>>

Spec == Init /\ [][Next]_commandVars
=============================================================================
