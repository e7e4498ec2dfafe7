------------------------------ MODULE CgroupFind ------------------------------
(***************************************************************************)
(* Whose numbers are read: slurm._discover_cgroup_paths looks for the      *)
(* job's control group by its exact name, by this process's own group, by  *)
(* names that resemble it and by the environment of member processes; then *)
(* again for the two version 1 hierarchies.                                *)
(*                                                                         *)
(* The search is a sequence of looks at a host that does not stand still:  *)
(* the job's first step may come up, or its last one go, between two.      *)
(***************************************************************************)
EXTENDS Naturals, FiniteSets

VARIABLES
    host,     \* the host and this process's place on it: constant after Init
    up,       \* the job has a group on this host
    came,     \* history: it came up during the search
    went,     \* history: it went away during the search
    look,     \* the next look
    found     \* the directory taken, for each hierarchy

cgroupVars == <<host, up, came, went, look, found>>

(* The requested job's directory, another job's, the scope all jobs are    *)
(* in, and a daemon's own service.                                         *)
Dirs == {"mine", "other", "scope", "service"}
Nothing == "none"

CgroupTypeOK ==
    /\ host \in [version : {1, 2}, name : {"exact", "suffixed", "opaque"}, extends : BOOLEAN,
                 self : {"mine", "other", "service", "outside"},
                 env : {"mine", "other", "none"}, telling : {"none", "late", "first"},
                 uid : BOOLEAN, cpuacct : BOOLEAN, open : BOOLEAN]
    /\ {up, came, went} \subseteq BOOLEAN
    /\ look \in {"exact", "self", "names", "members", "services", "v1", "v1self", "check",
                 "local", "remote", "forbidden"}
    /\ found \in [{"v2", "mem", "cpu"} -> Dirs \cup {Nothing}]

(* How the job's directory is called, and whether the other job's id       *)
(* extends its id; where this process runs and which job its environment   *)
(* names; whether the job has processes that can be read and carry its id, *)
(* among the first max_pids of its group all along or not; whether its uid *)
(* is known, cpuacct is split by job, and the directory can be listed.     *)
CgroupInit ==
    /\ host \in [version : {1, 2}, name : {"exact", "suffixed", "opaque"}, extends : BOOLEAN,
                 self : {"mine", "other", "service", "outside"},
                 env : {"mine", "other", "none"}, telling : {"none", "late", "first"},
                 uid : BOOLEAN, cpuacct : BOOLEAN, open : BOOLEAN]
    /\ up \in BOOLEAN /\ (host.self = "mine" => up)
    /\ host.version = 2 => host.uid /\ host.cpuacct
    /\ came = FALSE /\ went = FALSE
    /\ look = IF host.version = 2 THEN "exact" ELSE "v1"
    /\ found = [h \in {"v2", "mem", "cpu"} |-> Nothing]

-----------------------------------------------------------------------------
(* External: the job's steps. *)

Searching == look \notin {"local", "remote", "forbidden"}

JobComes ==
    /\ Searching /\ ~up /\ ~went /\ up' = TRUE /\ came' = TRUE
    /\ UNCHANGED <<host, went, look, found>>

(* Not the group this process is in.                                       *)
JobGoes ==
    /\ Searching /\ up /\ ~came /\ host.self # "mine" /\ up' = FALSE /\ went' = TRUE
    /\ UNCHANGED <<host, came, look, found>>

-----------------------------------------------------------------------------
(* What a look at a directory tells. *)

Here == IF up THEN {"mine", "other"} ELSE {"other"}

(* _cgroup_name_matches_job: `job_<id>` at a numeric boundary.             *)
(* Mutant: job_123 matches job_1234 as well.                               *)
NamesWithPrefix ==
    (IF host.name # "opaque" THEN {"mine"} ELSE {}) \cup (IF host.extends THEN {"other"} ELSE {})
Names == IF host.name # "opaque" THEN {"mine"} ELSE {}

(* _cgroup_belongs_to_job: of the first max_pids pids under a directory,   *)
(* in their order, one can be read and says so.  This process can and, if  *)
(* its environment names the job, does.  Behind slurmsteps of root, or     *)
(* processes without the job's id, a telling one may be too far down, now  *)
(* or later, as processes come and go.  The outcomes of one look: the sets *)
(* of directories that pass.                                               *)
MayTell ==
    (IF up /\ host.telling # "none" THEN {"mine"} ELSE {})
    \cup (IF host.env = "mine" /\ host.self # "outside" THEN {host.self} ELSE {})

MustTell == IF up /\ host.telling = "first" THEN {"mine"} ELSE {}

Members == {passing \in SUBSET MayTell : MustTell \subseteq passing}

Look(next, h, d) ==
    /\ found' = [found EXCEPT ![h] = d]
    /\ look' = IF d # Nothing THEN "check" ELSE next

One(S) == IF S = {} THEN {Nothing} ELSE S

(* Mutant: the scan for names does not go into slurmstepd.scope.           *)
NamesOutsideScope == {}
NamesInScope == Here \cap Names

LookExact ==
    /\ look = "exact"
    /\ Look("self", "v2", IF up /\ host.name = "exact" THEN "mine" ELSE Nothing)

(* _v2_from_self_cgroup: the environment is the fast accept, a member's    *)
(* the slow one.                                                           *)
LookSelf ==
    /\ look = "self"
    /\ \E passing \in Members :
          Look("names", "v2",
               IF host.self \in {"mine", "other"} /\ (host.env = "mine" \/ host.self \in passing)
               THEN host.self ELSE Nothing)

LookNames ==
    /\ look = "names"
    /\ \E d \in One(NamesInScope) : Look("members", "v2", d)

(* _v2_by_membership: the directories in the scope, then those beside it,  *)
(* the scope itself among them.                                            *)
LookMembers ==
    /\ look = "members"
    /\ \E passing \in Members : \E d \in One(Here \cap passing) : Look("services", "v2", d)

(* The first pids of the scope, if a group's, are among the group's first; *)
(* those of a group need not be among the scope's.                         *)
LookServices ==
    /\ look = "services"
    /\ \E passing \in Members :
          \E d \in One(passing \cap {"service"})
                    \cup (IF Here \cap passing # {} THEN {"scope"} ELSE {}) :
             Look("check", "v2", d)

-----------------------------------------------------------------------------
(* Version 1: slurm/uid_<uid>/job_<id> under each hierarchy, then this     *)
(* process's own group there.                                              *)

V1Exact(split) == IF up /\ host.uid /\ host.name = "exact" /\ split THEN "mine" ELSE Nothing

LookV1 ==
    /\ look = "v1" /\ look' = "v1self"
    /\ found' = [found EXCEPT !.mem = V1Exact(TRUE), !.cpu = V1Exact(host.cpuacct)]

(* Where this process is in a hierarchy: one that is not split by job      *)
(* names the daemon's node-wide group.                                     *)
V1Own(split) ==
    IF host.self = "outside" THEN Nothing
    ELSE IF split THEN host.self ELSE "service"

JobScoped(d) == d \in Names

V1Self(d, split, passing) ==
    LET own == V1Own(split)
    IN  IF d # Nothing THEN d
        ELSE IF own # Nothing /\ JobScoped(own)
                /\ (host.env = "mine" \/ own \in passing \/ (own = "service" /\ passing # {}))
        THEN own ELSE Nothing

LookV1Self ==
    /\ look = "v1self" /\ look' = "check"
    /\ \E inMem \in Members, inCpu \in Members :
          found' = [found EXCEPT !.mem = V1Self(@, TRUE, inMem),
                                 !.cpu = V1Self(@, host.cpuacct, inCpu)]

(* Nothing found: the job is elsewhere, for its caller.                    *)
Check ==
    /\ look = "check"
    /\ look' = IF \A h \in DOMAIN found : found[h] = Nothing THEN "remote"
               ELSE IF found["v2"] # Nothing /\ ~host.open THEN "forbidden" ELSE "local"
    /\ UNCHANGED found

CgroupNext ==
    \/ /\ \/ LookExact \/ LookSelf \/ LookNames \/ LookMembers \/ LookServices
          \/ LookV1 \/ LookV1Self \/ Check
       /\ UNCHANGED <<host, up, came, went>>
    \/ JobComes \/ JobGoes

CgroupSpec == CgroupInit /\ [][CgroupNext]_cgroupVars

-----------------------------------------------------------------------------
(* Properties. *)

(* This process's own environment is the only thing that can pass another  *)
(* group off as the job's, and the scope of all jobs is taken only when    *)
(* the job's first process came up during the search, or the first one     *)
(* that tells moved up among the first max_pids.                           *)
StrangerByClaimOnly ==
    LET claim == host.env = "mine" /\ host.self # "mine"
    IN  /\ found["v2"] \in {"other", "service"} => claim
        /\ found["v2"] = "scope" => came \/ host.telling = "late" \/ claim

(* The hierarchies of version 1 are never a daemon's node-wide counter nor *)
(* another job's, whatever the environment says.                           *)
V1IsOwnJob == {found["mem"], found["cpu"]} \subseteq {Nothing, "mine"}

(* The numbers shown for a job are not another's, unless by its own claim. *)
GroupIsOwn == StrangerByClaimOnly /\ V1IsOwnJob

(* What tells a job for sure: its directory's name, a process of its own   *)
(* among the first max_pids, or this process, if it is in the group and    *)
(* its environment says so.  Version 1 looks at names first, and at the    *)
(* others only to confirm the group this process is in.                    *)
Tellable ==
    LET named == host.name # "opaque"
        telling == host.telling = "first"
        own == host.self = "mine"
        claim == host.env = "mine"
    IN  IF host.version = 2 THEN named \/ telling \/ (own /\ claim)
        ELSE (host.uid /\ host.name = "exact") \/ (named /\ own /\ (claim \/ telling))

(* A job that is on this host all along and can be told is not taken to be *)
(* elsewhere.                                                              *)
FoundIfThere == look = "remote" /\ up /\ ~came => ~Tellable

(* _v2_by_membership as its docstring has it, "the universal last resort", *)
(* which "returns the child whose processes belong to the job".            *)
FoundIfReadable ==
    look = "remote" /\ up /\ ~came /\ host.version = 2 => host.telling = "none"

(* "Trust it only if it is really the requested job".                      *)
OwnJob == found["v2"] \in {Nothing, "mine"}
=============================================================================
