-------------------------- MODULE CommandLineProofs --------------------------
(***************************************************************************)
(* Proofs about what a command line sets going: Hop, what a user who opted *)
(* out is spared and what is left behind when the process ends, for any    *)
(* number of rounds of the ladder; CgroupFind, on any host and wherever    *)
(* the job's steps come up or go between two looks; JobQuery, whatever     *)
(* Slurm answers and however the job moves between two queries;            *)
(* PendingFit, for any cluster, request and load.                          *)
(***************************************************************************)
EXTENDS Hop, CgroupFind, JobQuery, PendingFit, SetLemmas

Children == [via : {"none", "srun", "ssh"}, inHop : BOOLEAN, up : BOOLEAN,
             shown : BOOLEAN, rc : Codes \cup {999}]

(* What each change of the child leaves of it.                             *)
LEMMA NewChild ==
  /\ NoChild \in Children /\ NoChild.via = "none" /\ NoChild.inHop = FALSE
  /\ NoChild.up = FALSE /\ NoChild.shown = FALSE
<1>1. NoChild \in Children
  BY DEF NoChild, Children
<1>2. NoChild.via = "none" /\ NoChild.inHop = FALSE
  BY DEF NoChild
<1>3. NoChild.up = FALSE /\ NoChild.shown = FALSE
  BY DEF NoChild
<1> QED BY <1>1, <1>2, <1>3

(* Naming the way of a child changes nothing else of it.                   *)
LEMMA ViaChild ==
  ASSUME NEW c0 \in Children, NEW v \in {"srun", "ssh"}, NEW c, c = [c0 EXCEPT !.via = v]
  PROVE  /\ c \in Children /\ c.via = v /\ c.inHop = c0.inHop
         /\ c.up = c0.up /\ c.shown = c0.shown
BY DEF Children

(* The child of a step, before it runs ...                                 *)
LEMMA SrunChild ==
  ASSUME NEW c, c = [NoChild EXCEPT !.via = "srun"]
  PROVE  c \in Children /\ c.via = "srun" /\ c.inHop = FALSE /\ c.up = FALSE /\ c.shown = FALSE
BY NewChild, ViaChild

(* ... and the child of a login.                                           *)
LEMMA SshChild ==
  ASSUME NEW b \in BOOLEAN, NEW c, c = [NoChild EXCEPT !.via = "ssh", !.inHop = b]
  PROVE  c \in Children /\ c.via = "ssh" /\ c.inHop = b /\ c.up = FALSE /\ c.shown = FALSE
<1>1. c = [via |-> "ssh", inHop |-> b, up |-> NoChild.up, shown |-> NoChild.shown, rc |-> NoChild.rc]
  BY NewChild, ZenonT(60) DEF Children
<1>2. c.via = "ssh"
  BY <1>1
<1>3. c.up = NoChild.up
  BY <1>1
<1>4. c.inHop = b
  BY <1>1
<1>5. c.shown = NoChild.shown
  BY <1>1
<1>6. c \in Children
  BY <1>1, NewChild DEF Children
<1> QED BY <1>2, <1>3, <1>4, <1>5, <1>6, NewChild

(* Starting or ending a child leaves its way and its hop.                  *)
LEMMA StartedChild ==
  ASSUME child \in Children, NEW now \in BOOLEAN, NEW c, c = [child EXCEPT !.up = now]
  PROVE  /\ c \in Children /\ c.via = child.via /\ c.inHop = child.inHop
         /\ c.up = now /\ c.shown = child.shown
BY DEF Children

(* So does its taking over the screen or giving it back.                   *)
LEMMA ShownChild ==
  ASSUME child \in Children, NEW shown \in BOOLEAN, NEW c, c = [child EXCEPT !.shown = shown]
  PROVE  /\ c \in Children /\ c.via = child.via /\ c.inHop = child.inHop
         /\ c.up = child.up /\ c.shown = shown
BY DEF Children

(* A child that ended is one with an exit code ...                         *)
LEMMA EndedIsChild ==
  ASSUME child \in Children, NEW rc \in Codes
  PROVE  [via |-> child.via, inHop |-> child.inHop, up |-> FALSE, shown |-> child.shown, rc |-> rc]
            \in Children
BY DEF Children

(* ... and is down, by the same way.                                       *)
LEMMA EndedChild ==
  ASSUME child \in Children, NEW rc \in Codes, NEW c, c = [child EXCEPT !.up = FALSE, !.rc = rc]
  PROVE  /\ c \in Children /\ c.via = child.via /\ c.inHop = child.inHop
         /\ c.up = FALSE /\ c.shown = child.shown /\ c.rc = rc
<1>1. c = [via |-> child.via, inHop |-> child.inHop, up |-> FALSE, shown |-> child.shown, rc |-> rc]
  BY ZenonT(60) DEF Children
<1>2. c.via = child.via /\ c.rc = rc
  BY <1>1
<1>3. c.up = FALSE
  BY <1>1
<1>4. c.inHop = child.inHop
  BY <1>1
<1>5. c.shown = child.shown
  BY <1>1
<1>6. c \in Children
  BY <1>1, EndedIsChild, Zenon
<1> QED BY <1>2, <1>3, <1>4, <1>5, <1>6

-----------------------------------------------------------------------------
(* Where the ladder stands, who holds it, and what is on the screen.  The  *)
(* guards are counted, because each rung gives back only its own.          *)
AtOnce == {"start", "hop", "sshRung", "summary"}
AtApp == {"app", "drawn", "mounted"}
AtHop == {"probe", "sshInHop"}
AtChild == {"spawn", "wait", "judge"}

Ladder ==
    /\ child \in Children
    /\ at \in AtOnce \cup AtApp \cup AtHop \cup AtChild \cup {"done"}
    /\ at \in AtOnce => guards = 0
    /\ at \in AtApp => guards = 1
    /\ at \in AtOnce \cup AtApp => child.via = "none" /\ ~child.inHop /\ ~child.up
    /\ at \in AtHop => guards = 1 /\ child.via = "srun" /\ ~child.inHop /\ ~child.up /\ ~child.shown
    /\ at \in AtChild => child.via \in {"srun", "ssh"} /\ (child.inHop => child.via = "ssh")
    /\ at \in {"spawn", "wait"} => guards = IF child.inHop THEN 2 ELSE 1
    /\ at = "judge" => ~child.up /\ guards = IF child.via = "srun" \/ child.inHop THEN 1 ELSE 0
    /\ at = "spawn" => (child.up <=> masked) /\ ~child.shown
    /\ masked => at = "spawn"
    /\ at = "wait" => known

Screen ==
    /\ at \notin {"drawn", "mounted", "wait", "judge", "done"} => screen = "plain" \/ lost
    /\ at = "wait" /\ ~child.shown => screen = "plain" \/ lost
    /\ at \in {"wait", "judge"} /\ ~child.up =>
          screen = "plain" \/ lost \/ child.rc \in {130, 137, 143}

GuardInv == (Running => Ladder /\ Screen /\ at # "done") /\ GuardHolds

(* Nothing is taken over before the program starts.                        *)
LEMMA GuardStart == HopInit => GuardInv
BY NewChild DEF HopInit, GuardInv, Ladder, Screen, AtOnce, AtApp, AtHop, AtChild,
   GuardHolds, TerminalIsRestored, SignalReachesChild

(* The steps before a child is there.                                      *)
LEMMA QuietSteps ==
  ASSUME GuardInv, Dispatch \/ AppDraws \/ AppMounts \/ AppEnds \/ AppFails \/ HopLeaves
                   \/ SshLeaves \/ RemoteSummary \/ \E ok \in BOOLEAN : ProbeAnswers(ok)
  PROVE  GuardInv'
<1> USE DEF GuardInv, Running, Ladder, Screen, AtOnce, AtApp, AtHop, AtChild,
            GuardHolds, TerminalIsRestored, SignalReachesChild, Quiet, NoTransport, Ends
<1>1. CASE Dispatch
  BY <1>1 DEF Dispatch
<1>2. CASE AppDraws \/ AppMounts
  BY <1>2 DEF AppDraws, AppMounts
<1>3. CASE AppEnds \/ AppFails
  BY <1>3 DEF AppEnds, AppFails
<1>4. CASE HopLeaves
  BY <1>4 DEF HopLeaves, AfterDecline
<1>5. CASE SshLeaves
  BY <1>5 DEF SshLeaves, BackFromSsh
<1>6. CASE RemoteSummary
  BY <1>6 DEF RemoteSummary
<1>7. ASSUME NEW ok \in BOOLEAN, ProbeAnswers(ok) PROVE GuardInv'
  BY <1>7 DEF ProbeAnswers
<1> QED BY <1>1, <1>2, <1>3, <1>4, <1>5, <1>6, <1>7

(* Starting the child, with the signals blocked.                           *)
LEMMA SpawnSteps ==
  ASSUME GuardInv, HopBegins \/ SshBegins \/ SpawnBegins \/ SpawnEnds \/ SpawnFails
  PROVE  GuardInv'
<1> USE DEF GuardInv, Running, Ladder, Screen, AtOnce, AtApp, AtHop, AtChild,
            GuardHolds, TerminalIsRestored, SignalReachesChild, Quiet
<1>1. CASE HopBegins
  <2>1. /\ child' \in Children /\ child'.via = "srun" /\ ~child'.inHop /\ ~child'.up
        /\ ~child'.shown
    BY <1>1, SrunChild DEF HopBegins
  <2> QED BY <1>1, <2>1 DEF HopBegins
<1>2. CASE SshBegins
  <2>1. /\ child' \in Children /\ child'.via = "ssh" /\ (child'.inHop <=> at = "sshInHop")
        /\ ~child'.up /\ ~child'.shown
    BY <1>2, SshChild DEF SshBegins
  <2> QED BY <1>2, <2>1 DEF SshBegins
<1>3. CASE SpawnBegins
  <2>1. /\ child' \in Children /\ child'.via = child.via /\ child'.inHop = child.inHop
        /\ child'.up /\ child'.shown = child.shown
    BY <1>3, StartedChild DEF SpawnBegins
  <2> QED BY <1>3, <2>1 DEF SpawnBegins, Block
<1>4. CASE SpawnEnds
  BY <1>4 DEF SpawnEnds
<1>5. CASE SpawnFails
  <2>1. CASE child.via = "srun"
    BY <1>5, <2>1, NewChild DEF SpawnFails
  <2>2. CASE child.via # "srun" /\ child.inHop
    <3>1. /\ child' \in Children /\ child'.via = "srun" /\ ~child'.inHop /\ ~child'.up
          /\ ~child'.shown
      BY <1>5, <2>2, SrunChild DEF SpawnFails
    <3> QED BY <1>5, <2>2, <3>1 DEF SpawnFails, BackFromSsh
  <2>3. CASE child.via # "srun" /\ ~child.inHop
    BY <1>5, <2>3, NewChild DEF SpawnFails, BackFromSsh
  <2> QED BY <2>1, <2>2, <2>3
<1> QED BY <1>1, <1>2, <1>3, <1>4, <1>5

(* The child's life, and what its end means.                               *)
LEMMA ChildSteps ==
  ASSUME GuardInv, NEW rc \in Codes, NEW b \in BOOLEAN,
         \/ DashboardComesUp \/ ChildRefused(rc, b) \/ ChildGoes(rc, b) \/ Reap
         \/ JudgeSrun(b) \/ JudgeSsh(b)
  PROVE  GuardInv'
<1> USE DEF GuardInv, Running, Ladder, Screen, AtOnce, AtApp, AtHop, AtChild,
            GuardHolds, TerminalIsRestored, SignalReachesChild, Quiet, Ends
<1>1. CASE DashboardComesUp
  <2>1. /\ child' \in Children /\ child'.via = child.via /\ child'.inHop = child.inHop
        /\ child'.up = child.up /\ child'.shown
    BY <1>1, ShownChild DEF DashboardComesUp
  <2> QED BY <1>1, <2>1 DEF DashboardComesUp
<1>2. CASE ChildRefused(rc, b)
  <2>1. /\ child' \in Children /\ child'.via = child.via /\ child'.inHop = child.inHop
        /\ ~child'.up /\ child'.shown = child.shown /\ child'.rc = rc
    <3>1. child \in Children
      BY <1>2 DEF ChildRefused
    <3>2. child' = [child EXCEPT !.up = FALSE, !.rc = rc]
      BY <1>2 DEF ChildRefused
    <3>3. ASSUME NEW c, c = [child EXCEPT !.up = FALSE, !.rc = rc]
          PROVE  /\ c \in Children /\ c.via = child.via /\ c.inHop = child.inHop
                 /\ ~c.up /\ c.shown = child.shown /\ c.rc = rc
      BY <3>1, <3>3, EndedChild
    <3> QED BY <3>2, <3>3
  <2> QED BY <1>2, <2>1 DEF ChildRefused
<1>3. CASE ChildGoes(rc, b)
  <2>1. /\ child' \in Children /\ child'.via = child.via /\ child'.inHop = child.inHop
        /\ ~child'.up /\ child'.shown = child.shown /\ child'.rc = rc
    <3>1. child \in Children
      BY <1>3 DEF ChildGoes
    <3>2. child' = [child EXCEPT !.up = FALSE, !.rc = rc]
      BY <1>3 DEF ChildGoes
    <3>3. ASSUME NEW c, c = [child EXCEPT !.up = FALSE, !.rc = rc]
          PROVE  /\ c \in Children /\ c.via = child.via /\ c.inHop = child.inHop
                 /\ ~c.up /\ c.shown = child.shown /\ c.rc = rc
      BY <3>1, <3>3, EndedChild
    <3> QED BY <3>2, <3>3
  <2>2. screen' = "plain" \/ lost' \/ rc \in {130, 137, 143}
    BY <1>3 DEF ChildGoes, Codes
  <2> QED BY <1>3, <2>1, <2>2 DEF ChildGoes
<1>4. CASE Reap
  BY <1>4 DEF Reap
<1>5. CASE JudgeSrun(b)
  BY <1>5, NewChild DEF JudgeSrun, Restored
<1>6. CASE JudgeSsh(b)
  <2>1. screen' = "plain" \/ lost'
    BY <1>6 DEF JudgeSsh
  <2>2. CASE child.rc \in {0, 130, 137, 143} \/ (child.rc # 255 /\ b)
    BY <1>6, <2>1, <2>2 DEF JudgeSsh
  <2>3. CASE ~(child.rc \in {0, 130, 137, 143} \/ (child.rc # 255 /\ b)) /\ child.inHop
    <3>1. /\ child' \in Children /\ child'.via = "srun" /\ ~child'.inHop /\ ~child'.up
          /\ ~child'.shown
      BY <1>6, <2>3, SrunChild DEF JudgeSsh
    <3> QED BY <1>6, <2>1, <2>3, <3>1 DEF JudgeSsh, BackFromSsh
  <2>4. CASE ~(child.rc \in {0, 130, 137, 143} \/ (child.rc # 255 /\ b)) /\ ~child.inHop
    BY <1>6, <2>1, <2>4, NewChild DEF JudgeSsh, BackFromSsh
  <2> QED BY <2>2, <2>3, <2>4
<1> QED BY <1>1, <1>2, <1>3, <1>4, <1>5, <1>6

(* A signal finds a guard wherever there is a child to be told.            *)
LEMMA SignalSteps ==
  ASSUME GuardInv, Signal \/ SignalUnblocked \/ Interrupt
  PROVE  GuardInv'
<1> USE DEF GuardInv, Running, Ladder, Screen, AtOnce, AtApp, AtHop, AtChild,
            GuardHolds, TerminalIsRestored, SignalReachesChild, Handle
<1>1. CASE Signal
  <2>1. CASE masked
    BY <1>1, <2>1 DEF Signal
  <2>2. CASE ~masked /\ guards > 0
    BY <1>1, <2>2 DEF Signal
  <2>3. CASE ~masked /\ ~(guards > 0)
    <3>1. ~child.up
      BY <1>1, <2>3 DEF Signal
    <3> QED BY <1>1, <2>3, <3>1 DEF Signal
  <2> QED BY <2>1, <2>2, <2>3
<1>2. CASE SignalUnblocked
  BY <1>2 DEF SignalUnblocked
<1>3. CASE Interrupt
  BY <1>3 DEF Interrupt
<1> QED BY <1>1, <1>2, <1>3

(* In every state what the ladder holds is registered with the guard.      *)
THEOREM GuardInvCorrect == HopSpec => []GuardInv
<1>1. GuardInv /\ [HopNext]_hopVars => GuardInv'
  <2> SUFFICES ASSUME GuardInv, [HopNext]_hopVars PROVE GuardInv'
    OBVIOUS
  <2>1. CASE HopStep
    <3>1. 0 \in Codes /\ TRUE \in BOOLEAN
      BY DEF Codes
    <3> QED BY <2>1, <3>1, QuietSteps, SpawnSteps, ChildSteps DEF HopStep
  <2>2. CASE Signal \/ SignalUnblocked \/ Interrupt
    BY <2>2, SignalSteps
  <2>3. CASE UNCHANGED hopVars
    BY <2>3 DEF hopVars, GuardInv, Running, Ladder, Screen, GuardHolds, TerminalIsRestored,
                SignalReachesChild
  <2> QED BY <2>1, <2>2, <2>3 DEF HopNext
<1> QED BY <1>1, GuardStart, PTL DEF HopSpec

(* However the process ends, no child is left untold and no screen taken.  *)
THEOREM NothingStays == HopSpec => []GuardHolds
<1>1. GuardInv => GuardHolds
  BY DEF GuardInv
<1> QED BY <1>1, GuardInvCorrect, PTL

-----------------------------------------------------------------------------
(* Who opted out never gets as far as a rung that would ask for a step or  *)
(* log in; OptOutHolds alone does not say where the ladder stands.         *)
OptInv ==
    /\ Declined => /\ at \in {"start", "hop", "summary", "done"} \cup AtApp
                   /\ steps = 0 /\ logins = 0
    /\ env.noSsh => child.via # "ssh" /\ logins = 0

(* Every step keeps what was declined declined.                            *)
LEMMA OptStep ==
  ASSUME GuardInv, OptInv, [HopNext]_hopVars
  PROVE  OptInv'
<1> USE DEF OptInv, Declined, AtApp
<1>1. CASE Dispatch \/ AppDraws \/ AppMounts \/ AppEnds \/ AppFails \/ RemoteSummary
  BY <1>1 DEF Dispatch, AppDraws, AppMounts, AppEnds, AppFails, RemoteSummary, Quiet,
              NoTransport, Ends
<1>2. CASE HopLeaves
  BY <1>2 DEF HopLeaves, AfterDecline, Quiet, NoTransport
<1>3. CASE HopBegins
  <2>1. child'.via = "srun"
    BY <1>3, SrunChild DEF HopBegins
  <2> QED BY <1>3, <2>1 DEF HopBegins, Quiet
<1>4. ASSUME NEW ok \in BOOLEAN, ProbeAnswers(ok) PROVE OptInv'
  BY <1>4 DEF ProbeAnswers, Quiet
<1>5. CASE SshLeaves
  BY <1>5 DEF SshLeaves, Quiet, NoTransport
<1>6. CASE SshBegins
  BY <1>6 DEF SshBegins, SshRefused, Quiet
<1>7. CASE SpawnBegins
  <2>1. child'.via = child.via
    BY <1>7, StartedChild DEF SpawnBegins, GuardInv, Ladder
  <2> QED BY <1>7, <2>1 DEF SpawnBegins
<1>8. CASE SpawnEnds \/ Reap
  BY <1>8 DEF SpawnEnds, Reap, Quiet
<1>9. CASE SpawnFails
  <2>1. child'.via # "ssh"
    BY <1>9, NewChild, SrunChild DEF SpawnFails
  <2> QED BY <1>9, <2>1 DEF SpawnFails, Quiet
<1>10. CASE DashboardComesUp
  <2>1. child'.via = child.via
    BY <1>10, ShownChild DEF DashboardComesUp, GuardInv, Ladder
  <2> QED BY <1>10, <2>1 DEF DashboardComesUp, Quiet
<1>11. ASSUME NEW rc \in Codes, NEW b \in BOOLEAN, ChildRefused(rc, b) \/ ChildGoes(rc, b)
       PROVE  OptInv'
  <2>1. child'.via = child.via
    <3>1. child \in Children
      BY <1>11 DEF ChildRefused, ChildGoes, GuardInv, Ladder
    <3>2. child' = [child EXCEPT !.up = FALSE, !.rc = rc]
      BY <1>11 DEF ChildRefused, ChildGoes
    <3>3. ASSUME NEW c, c = [child EXCEPT !.up = FALSE, !.rc = rc]
          PROVE  c.via = child.via
      BY <3>1, <3>3, EndedChild
    <3> QED BY <3>2, <3>3
  <2> QED BY <1>11, <2>1 DEF ChildRefused, ChildGoes, Quiet
<1>12. ASSUME NEW b \in BOOLEAN, JudgeSrun(b) \/ JudgeSsh(b) PROVE OptInv'
  <2>1. child'.via = child.via \/ child'.via # "ssh"
    BY <1>12, NewChild, SrunChild DEF JudgeSrun, JudgeSsh
  <2> QED BY <1>12, <2>1 DEF JudgeSrun, JudgeSsh, Quiet
<1>13. CASE Signal \/ SignalUnblocked \/ Interrupt
  BY <1>13 DEF Signal, SignalUnblocked, Interrupt
<1>14. CASE UNCHANGED hopVars
  BY <1>14 DEF hopVars
<1> QED BY <1>1, <1>2, <1>3, <1>4, <1>5, <1>6, <1>7, <1>8, <1>9, <1>10, <1>11, <1>12,
           <1>13, <1>14 DEF HopNext, HopStep

(* Whatever the ladder meets on its way, the user's opt-outs hold.         *)
THEOREM OptOut == HopSpec => []OptOutHolds
<1>1. HopInit => OptInv
  BY NewChild DEF HopInit, OptInv, AtApp
<1>2. OptInv => OptOutHolds
  BY DEF OptInv, OptOutHolds
<1> QED BY <1>1, <1>2, OptStep, GuardInvCorrect, PTL DEF HopSpec

-----------------------------------------------------------------------------
Hierarchies == {"v2", "mem", "cpu"}

(* A look fills the hierarchy it is for, and leaves the others alone.      *)
LEMMA LookFills ==
  ASSUME found \in [Hierarchies -> Dirs \cup {Nothing}], NEW h \in Hierarchies,
         NEW d \in Dirs \cup {Nothing}, NEW next, Look(next, h, d)
  PROVE  /\ found' \in [Hierarchies -> Dirs \cup {Nothing}]
         /\ found'[h] = d /\ \A k \in Hierarchies \ {h} : found'[k] = found[k]
         /\ look' = IF d # Nothing THEN "check" ELSE next
BY DEF Look

(* Version 2: a group of another job or of a daemon is only taken on this  *)
(* process's own word; the search goes on only while nothing was found, so *)
(* that what it passed by tells what was not there.                        *)
ByClaim == host.env = "mine" /\ host.self # "mine"

Confirmed == host.self = "mine" /\ host.env = "mine"

Passed ==
    up /\ ~came =>
        /\ look \in {"self", "names", "members", "services"} => host.name # "exact"
        /\ look \in {"names", "members", "services"} => ~Confirmed
        /\ look \in {"members", "services"} => host.name = "opaque"
        /\ look = "services" => host.telling # "first"
        /\ look = "v1self" /\ found["mem"] = Nothing => ~(host.uid /\ host.name = "exact")
        /\ look \in {"check", "remote"} /\ found["v2"] = Nothing /\ found["mem"] = Nothing
              => ~Tellable

Shape ==
    /\ found \in [Hierarchies -> Dirs \cup {Nothing}]
    /\ host.version \in {1, 2} /\ host.name \in {"exact", "suffixed", "opaque"}
    /\ host.self \in {"mine", "other", "service", "outside"}
    /\ host.telling \in {"none", "late", "first"}
    /\ host.self = "mine" => up
    /\ look \in {"v1", "v1self"} => host.version = 1 /\ found["v2"] = Nothing
    /\ look \in {"exact", "self", "names", "members", "services"} =>
          host.version = 2 /\ \A h \in Hierarchies : found[h] = Nothing
    /\ host.version = 2 => found["mem"] = Nothing
    /\ look = "remote" => \A h \in Hierarchies : found[h] = Nothing

SearchInv == Shape /\ Passed /\ GroupIsOwn

(* What passes a look at the members of a directory: the job's own group   *)
(* for certain, if one of its first processes tells, another group only on *)
(* this process's own word.                                                *)
LEMMA Passing ==
  ASSUME NEW passing \in Members,
         host.self \in {"mine", "other", "service", "outside"},
         host.telling \in {"none", "late", "first"}, host.self = "mine" => up
  PROVE  /\ passing \subseteq {"mine", "other", "service"}
         /\ "mine" \in passing => up /\ (host.telling = "none" => Confirmed)
         /\ "other" \in passing \/ "service" \in passing => ByClaim
         /\ up /\ host.telling = "first" => "mine" \in passing
BY DEF Members, MayTell, MustTell, ByClaim, Confirmed

(* Before the first look nothing has been passed over.                     *)
LEMMA SearchStart == CgroupInit => SearchInv
<1> SUFFICES ASSUME CgroupInit PROVE SearchInv
  OBVIOUS
<1>1. Shape
  BY DEF CgroupInit, Shape, Hierarchies, Dirs, Nothing
<1>2. Passed
  BY DEF CgroupInit, Passed, Hierarchies
<1>3. GroupIsOwn
  BY DEF CgroupInit, GroupIsOwn, StrangerByClaimOnly, V1IsOwnJob, Hierarchies, Nothing
<1> QED BY <1>1, <1>2, <1>3 DEF SearchInv

(* The looks under version 2.                                              *)
LEMMA V2Looks ==
  ASSUME SearchInv, UNCHANGED <<host, up, came, went>>,
         LookExact \/ LookSelf \/ LookNames \/ LookMembers \/ LookServices
  PROVE  SearchInv'
<1> USE DEF SearchInv, Shape, Passed, GroupIsOwn, StrangerByClaimOnly, V1IsOwnJob,
            Here, Names, Dirs, Nothing, Hierarchies, ByClaim, Confirmed, Tellable
<1>1. CASE LookExact
  <2> DEFINE d == IF up /\ host.name = "exact" THEN "mine" ELSE Nothing
  <2>1. Look("self", "v2", d) /\ d \in Dirs \cup {Nothing}
    BY <1>1 DEF LookExact
  <2> QED BY <1>1, <2>1, LookFills DEF LookExact
<1>2. CASE LookSelf
  <2>1. PICK passing \in Members :
           Look("names", "v2",
                IF host.self \in {"mine", "other"} /\ (host.env = "mine" \/ host.self \in passing)
                THEN host.self ELSE Nothing)
    BY <1>2 DEF LookSelf
  <2> DEFINE d == IF host.self \in {"mine", "other"} /\ (host.env = "mine" \/ host.self \in passing)
                  THEN host.self ELSE Nothing
  <2>2. /\ Look("names", "v2", d) /\ d \in {"mine", "other", Nothing}
        /\ d = "other" => ByClaim
        /\ d = Nothing => ~Confirmed
    BY <2>1, Passing
  <2> QED BY <1>2, <2>2, LookFills DEF LookSelf
<1>3. CASE LookNames
  <2>1. PICK d \in One(NamesInScope) : Look("members", "v2", d)
    BY <1>3 DEF LookNames
  <2>2. d \in {"mine", Nothing} /\ (d = Nothing => ~up \/ host.name = "opaque")
    BY <2>1 DEF One, NamesInScope
  <2> QED BY <1>3, <2>1, <2>2, LookFills DEF LookNames
<1>4. CASE LookMembers
  <2>1. PICK passing \in Members : \E d \in One(Here \cap passing) : Look("services", "v2", d)
    BY <1>4 DEF LookMembers
  <2>3. PICK d \in One(Here \cap passing) : Look("services", "v2", d)
    BY <2>1
  <2>2. /\ d \in {"mine", "other", Nothing} /\ (d = "other" => ByClaim)
        /\ d = Nothing /\ up => host.telling # "first"
    BY <2>3, Passing DEF One
  <2> QED BY <1>4, <2>2, <2>3, LookFills DEF LookMembers
<1>5. CASE LookServices
  <2>1. PICK passing \in Members :
           \E d \in One(passing \cap {"service"})
                     \cup (IF Here \cap passing # {} THEN {"scope"} ELSE {}) :
              Look("check", "v2", d)
    BY <1>5 DEF LookServices
  <2>2. PICK d \in One(passing \cap {"service"})
                    \cup (IF Here \cap passing # {} THEN {"scope"} ELSE {}) :
           Look("check", "v2", d)
    BY <2>1
  <2>3. /\ d \in {"service", "scope", Nothing}
        /\ d = "service" => ByClaim
        /\ d = "scope" => came \/ host.telling = "late" \/ ByClaim
    BY <1>5, <2>2, Passing DEF One, LookServices
  <2> QED BY <1>5, <2>2, <2>3, LookFills DEF LookServices
<1> QED BY <1>1, <1>2, <1>3, <1>4, <1>5

(* The looks under version 1, and the verdict.                             *)
LEMMA V1Looks ==
  ASSUME SearchInv, UNCHANGED <<host, up, came, went>>, LookV1 \/ LookV1Self \/ Check
  PROVE  SearchInv'
<1> USE DEF SearchInv, Shape, Passed, GroupIsOwn, StrangerByClaimOnly, V1IsOwnJob,
            Dirs, Nothing, Hierarchies
<1>1. CASE LookV1
  <2>1. /\ found' \in [Hierarchies -> Dirs \cup {Nothing}] /\ found'["v2"] = found["v2"]
        /\ found'["mem"] = V1Exact(TRUE) /\ found'["cpu"] = V1Exact(host.cpuacct)
    BY <1>1 DEF LookV1, V1Exact
  <2> QED BY <1>1, <2>1 DEF LookV1, V1Exact
<1>2. CASE LookV1Self
  <2>1. PICK inMem \in Members, inCpu \in Members :
           found' = [found EXCEPT !["mem"] = V1Self(@, TRUE, inMem),
                                  !["cpu"] = V1Self(@, host.cpuacct, inCpu)]
    BY <1>2 DEF LookV1Self
  <2>2. ASSUME NEW d \in {"mine", Nothing}, NEW split \in {TRUE, host.cpuacct}, NEW passing
        PROVE  /\ V1Self(d, split, passing) \in {"mine", Nothing}
               /\ d # Nothing => V1Self(d, split, passing) = d
    BY DEF V1Self, V1Own, JobScoped, Names
  <2> DEFINE m == V1Self(found["mem"], TRUE, inMem)
             c == V1Self(found["cpu"], host.cpuacct, inCpu)
  <2>3. found["mem"] \in {"mine", Nothing} /\ found["cpu"] \in {"mine", Nothing}
    OBVIOUS
  <2>4. /\ m \in {"mine", Nothing} /\ c \in {"mine", Nothing}
        /\ found["mem"] # Nothing => m = found["mem"]
    BY <2>2, <2>3
  <2>5. m = Nothing =>
          /\ found["mem"] = Nothing
          /\ up /\ host.self = "mine" /\ host.name # "opaque" =>
                host.env # "mine" /\ host.telling # "first"
    <3> SUFFICES ASSUME m = Nothing, up, host.self = "mine", host.name # "opaque"
                 PROVE  host.env # "mine" /\ host.telling # "first"
      BY <2>4
    <3>1. found["mem"] = Nothing
      BY <2>4
    <3>2. V1Own(TRUE) = "mine" /\ JobScoped("mine")
      BY DEF V1Own, JobScoped, Names
    <3>3. ~(host.env = "mine" \/ "mine" \in inMem)
      BY <3>1, <3>2 DEF V1Self
    <3> QED BY <3>3, Passing
  <2>6. found' = [found EXCEPT !["mem"] = m, !["cpu"] = c] /\ look' = "check" /\ look = "v1self"
    BY <1>2, <2>1 DEF LookV1Self
  <2> HIDE DEF m, c
  <2>7. /\ found' \in [Hierarchies -> Dirs \cup {Nothing}] /\ found'["v2"] = found["v2"]
        /\ found'["mem"] = m /\ found'["cpu"] = c
    BY <2>4, <2>6
  <2> QED BY <2>3, <2>4, <2>5, <2>6, <2>7 DEF Tellable
<1>3. CASE Check
  BY <1>3 DEF Check, Tellable
<1> QED BY <1>1, <1>2, <1>3

(* The job's steps come up and go while the search is under way.           *)
LEMMA HostMoves ==
  ASSUME SearchInv, JobComes \/ JobGoes
  PROVE  SearchInv'
BY DEF JobComes, JobGoes, Searching, SearchInv, Shape, Passed, GroupIsOwn,
       StrangerByClaimOnly, V1IsOwnJob, Tellable, Confirmed

(* Every look of the search leaves the others' answers standing.           *)
THEOREM SearchInvCorrect == CgroupSpec => []SearchInv
<1>1. SearchInv /\ [CgroupNext]_cgroupVars => SearchInv'
  <2>1. CASE UNCHANGED cgroupVars
    BY <2>1 DEF cgroupVars, SearchInv, Shape, Passed, GroupIsOwn, StrangerByClaimOnly,
                V1IsOwnJob, Tellable, Confirmed
  <2> QED BY <2>1, V2Looks, V1Looks, HostMoves DEF CgroupNext
<1> QED BY <1>1, SearchStart, PTL DEF CgroupSpec

(* The host stays what it is, and the search ends in one of three verdicts *)
(* with nothing but a directory or none found in any hierarchy.            *)
THEOREM SearchTypeCorrect == CgroupSpec => []CgroupTypeOK
<1>1. CgroupInit => CgroupTypeOK
  BY DEF CgroupInit, CgroupTypeOK, Nothing
<1>2. SearchInv' /\ CgroupTypeOK /\ [CgroupNext]_cgroupVars => CgroupTypeOK'
  <2> SUFFICES ASSUME SearchInv', CgroupTypeOK, [CgroupNext]_cgroupVars PROVE CgroupTypeOK'
    OBVIOUS
  <2>1. found' \in [{"v2", "mem", "cpu"} -> Dirs \cup {Nothing}]
    BY DEF SearchInv, Shape, Hierarchies
  <2>2. host' = host
    BY DEF CgroupNext, cgroupVars, JobComes, JobGoes
  <2>3. {up, came, went}' \subseteq BOOLEAN
    BY DEF CgroupNext, cgroupVars, JobComes, JobGoes, CgroupTypeOK
  <2>4. look' \in {"exact", "self", "names", "members", "services", "v1", "v1self", "check",
                   "local", "remote", "forbidden"}
    BY DEF CgroupNext, cgroupVars, JobComes, JobGoes, CgroupTypeOK, LookExact, LookSelf, LookNames,
           LookMembers, LookServices, LookV1, LookV1Self, Check, Look
  <2> QED BY <2>1, <2>2, <2>3, <2>4 DEF CgroupTypeOK
<1> QED BY <1>1, <1>2, SearchInvCorrect, PTL DEF CgroupSpec

(* The numbers that are shown are the job's own, or are claimed to be.     *)
THEOREM OwnGroup == CgroupSpec => []GroupIsOwn
<1>1. SearchInv => GroupIsOwn
  BY DEF SearchInv
<1> QED BY <1>1, SearchInvCorrect, PTL

(* A job that is on this host all along and can be told - by its name, by  *)
(* one of the first max_pids processes of its group, or by this process    *)
(* itself - is found, wherever this process runs and whatever comes and    *)
(* goes beside it.                                                         *)
THEOREM HereIsFound == CgroupSpec => []FoundIfThere
<1>1. SearchInv => FoundIfThere
  BY DEF SearchInv, Shape, Passed, FoundIfThere, Hierarchies, Tellable
<1> QED BY <1>1, SearchInvCorrect, PTL

-----------------------------------------------------------------------------

(* The words the program leaves the user with need what the job has been   *)
(* when they were earned: when the listing came back empty, and when       *)
(* `scontrol` refused the job's number; nothing is printed before the end. *)
QueryInv ==
    /\ job \in seen
    /\ stage # "over" => rows = 0 /\ code = 9 /\ said = ""
    /\ stage = "others" => ~(seen \subseteq {"running", "queued"})
    /\ refused = "invalid" => seen \cap {"never", "purged"} # {}
    /\ AbsenceIsTrue /\ OnePayload

(* An empty listing that is an answer is a true one.                       *)
LEMMA EmptyListing ==
    ASSUME QueryInv, NEW resolves, NEW r \in Listing(resolves), r.rows = {}, ~Raises(r)
    PROVE  ~(seen \subseteq {"running", "queued"})
<1>1. \A why : ~(Failure(1, why) = r) /\ ~(Failure(0, "identity") = r)
  BY DEF Failure, Raises
<1>2. r = Answer({job} \cap {"running", "queued"})
  BY <1>1 DEF Listing, Mishaps
<1> QED BY <1>2 DEF Answer, QueryInv

(* What a listing leads to, by name, by uid or by the whole queue.         *)
LEMMA DiscoveredKeeps ==
    ASSUME QueryInv, NEW resolves, NEW r \in Listing(resolves), Discovered(r),
           stage \in {"byName", "byUid", "scan"},
           UNCHANGED <<call, job, seen, refused, rows>>
    PROVE  QueryInv'
<1> USE DEF QueryInv, AbsenceIsTrue, NoJobsIsTrue, LiveJobIsNotMissing, OnePayload
<1>1. CASE r.rows # {}
  BY <1>1 DEF Discovered, Stop
<1>2. CASE r.rows = {} /\ call.inside
  BY <1>2 DEF Discovered
<1>3. CASE r.rows = {} /\ ~call.inside /\ Raises(r)
  BY <1>3 DEF Discovered, Stop
<1>4. CASE r.rows = {} /\ ~call.inside /\ ~Raises(r)
  <2>1. ~(seen \subseteq {"running", "queued"})
    BY <1>4, EmptyListing
  <2> QED BY <1>4, <2>1 DEF Discovered
<1> QED BY <1>1, <1>2, <1>3, <1>4

(* "invalid" is Slurm's answer only about a job it does not know.          *)
LEMMA InvalidIsUnknown ==
    ASSUME QueryInv, NEW r \in Scontrol, r.why = "invalid"
    PROVE  seen \cap {"never", "purged"} # {}
<1>1. \A c, why : Failure(c, why).why = why
  BY DEF Failure
<1>2. \A x : Answer(x).why # "invalid"
  BY DEF Answer
<1>3. r = Failure(1, "invalid") /\ job \in {"never", "purged"}
  BY <1>1, <1>2 DEF Scontrol, Mishaps
<1> QED BY <1>3 DEF QueryInv

(* The little arithmetic a count of rows needs.                            *)
LEMMA CountRows ==
    /\ \A n \in {0, 1} : n <= 1
    /\ 0 + 0 = 0 /\ 0 + 1 = 1 /\ 0 # 1 /\ 1 # 9 /\ 0 # 9
OBVIOUS

(* The end of a call, with something to say and at most one row.           *)
LEMMA StopKeeps ==
    ASSUME QueryInv, stage # "over", Asked, UNCHANGED refused, stage' = "over",
           said' \notin {"no jobs", "unmonitorable"},
           said' = "job_unknown" => seen \cap {"never", "purged"} # {},
           rows' \in {0, 1}, code' = 0 /\ call.once => rows' = 1
    PROVE  QueryInv'
<1>1. UNCHANGED <<call, job, seen, refused>>
  BY DEF Asked
<1>2. OnePayload'
  <2>1. rows' <= 1
    BY CountRows
  <2>2. code' = 0 /\ call'.once => rows' = 1
    BY <1>1
  <2> QED BY <2>1, <2>2 DEF OnePayload
<1>3. AbsenceIsTrue'
  BY <1>1 DEF AbsenceIsTrue, NoJobsIsTrue, LiveJobIsNotMissing
<1> QED BY <1>1, <1>2, <1>3 DEF QueryInv

(* What is left of a failure is one row, if one was asked for.             *)
LEMMA DieKeeps ==
    ASSUME QueryInv, stage # "over", Asked, UNCHANGED refused, NEW token, Die(token),
           token \notin {"no jobs", "unmonitorable"},
           token = "job_unknown" => seen \cap {"never", "purged"} # {}
    PROVE  QueryInv'
<1>1. code' = 1 /\ said' = token /\ stage' = "over"
  BY DEF Die, Stop
<1>2. rows' = rows + 1 \/ rows' = rows
  BY DEF Die
<1>3. rows = 0
  BY DEF QueryInv
<1>4. rows' \in {0, 1}
  BY <1>2, <1>3, CountRows
<1>5. ~(code' = 0)
  BY <1>1, CountRows
<1> QED BY <1>1, <1>4, <1>5, StopKeeps

(* What the program has said was true of the job when it was said.         *)
THEOREM QueryInvCorrect == JobQuerySpec => []QueryInv
<1>1. JobQueryInit => QueryInv
  <2> SUFFICES ASSUME JobQueryInit PROVE QueryInv
    OBVIOUS
  <2>1. /\ seen = {job} /\ stage \in {"scontrol", "byName"} /\ refused = "none"
        /\ rows = 0 /\ said = "" /\ code = 9
    BY DEF JobQueryInit
  <2>2. rows <= 1 /\ ~(code = 0)
    BY <2>1, CountRows
  <2>3. stage # "over" /\ stage # "others"
    BY <2>1
  <2>4. AbsenceIsTrue /\ job \in seen /\ refused # "invalid"
    BY <2>1 DEF AbsenceIsTrue, NoJobsIsTrue, LiveJobIsNotMissing
  <2> QED BY <2>1, <2>2, <2>3, <2>4 DEF QueryInv, OnePayload
<1>2. QueryInv /\ [JobQueryNext]_queryVars => QueryInv'
  <2> SUFFICES ASSUME QueryInv, [JobQueryNext]_queryVars PROVE QueryInv'
    OBVIOUS
  <2> USE DEF QueryInv, AbsenceIsTrue, NoJobsIsTrue, LiveJobIsNotMissing, OnePayload
  <2>1. CASE JobMoves
    BY <2>1 DEF JobMoves
  <2>2. CASE ListByName \/ ListByUid \/ ScanQueue
    <3>1. PICK resolves \in {TRUE, call.names, call.uids} : \E r \in Listing(resolves) :
             \/ stage' \in {"byUid", "deferred"} /\ stage # "over" /\ UNCHANGED <<asking, said, code>>
             \/ Discovered(r) /\ stage \in {"byName", "byUid", "scan"}
      BY <2>2 DEF ListByName, ListByUid, ScanQueue
    <3>2. PICK r \in Listing(resolves) :
             \/ stage' \in {"byUid", "deferred"} /\ stage # "over" /\ UNCHANGED <<asking, said, code>>
             \/ Discovered(r) /\ stage \in {"byName", "byUid", "scan"}
      BY <3>1
    <3>3. UNCHANGED <<call, job, seen, refused, rows>>
      BY <2>2 DEF ListByName, ListByUid, ScanQueue, Asked
    <3>4. CASE Discovered(r) /\ stage \in {"byName", "byUid", "scan"}
      BY <3>3, <3>4, DiscoveredKeeps
    <3> QED BY <3>2, <3>3, <3>4
  <2>3. CASE Deferred
    BY <2>3 DEF Deferred, Asked, Silent
  <2>4. CASE Others
    BY <2>4 DEF Others, Asked, Stop
  <2>5. CASE ShowJob
    <3>1. stage = "scontrol" /\ Silent /\ Asked
      BY <2>5 DEF ShowJob
    <3>2. PICK r \in Scontrol :
             IF Raises(r) THEN stage' = "sacct" /\ refused' = r.why /\ UNCHANGED record
             ELSE /\ stage' = "facts" /\ UNCHANGED refused
                  /\ record' = CHOOSE s \in r.rows : TRUE
      BY <2>5 DEF ShowJob
    <3>3. r.why = "invalid" => seen \cap {"never", "purged"} # {}
      BY InvalidIsUnknown
    <3> QED BY <3>1, <3>2, <3>3 DEF Silent, Asked
  <2>6. CASE AskAccounting
    <3>1. stage = "sacct" /\ Asked /\ UNCHANGED refused
      BY <2>6 DEF AskAccounting
    <3>2. CASE stage' = "again" /\ UNCHANGED <<rows, said, code>>
      BY <3>1, <3>2 DEF Asked
    <3>3. CASE Die(Verdict(refused))
      <4>1. /\ Verdict(refused) \notin {"no jobs", "unmonitorable"}
            /\ Verdict(refused) = "job_unknown" => refused = "invalid"
        BY DEF Verdict, IsMissing
      <4> QED BY <3>1, <3>3, <4>1, DieKeeps
    <3> QED BY <2>6, <3>2, <3>3 DEF AskAccounting
  <2>7. CASE ReadFacts
    BY <2>7 DEF ReadFacts, Asked, Silent
  <2>8. CASE LookAgain
    <3>1. stage = "again" /\ Asked /\ UNCHANGED refused
      BY <2>8 DEF LookAgain
    <3>2. CASE Die("job_finished")
      BY <3>1, <3>2, DieKeeps
    <3>3. CASE /\ Stop("pending", IF call.once THEN 1 ELSE 0)
               /\ rows' = IF call.once THEN rows + 1 ELSE rows
      <4>1. stage' = "over" /\ said' = "pending"
        BY <3>3 DEF Stop
      <4>2. rows = 0 /\ rows + 1 = 1
        BY <3>1, CountRows
      <4>3. CASE call.once
        <5>1. rows' = 1
          BY <3>3, <4>2, <4>3
        <5> QED BY <3>1, <4>1, <5>1, StopKeeps
      <4>4. CASE ~call.once
        <5>1. rows' = 0
          BY <3>3, <4>2, <4>4
        <5> QED BY <3>1, <4>1, <4>4, <5>1, StopKeeps
      <4> QED BY <4>3, <4>4
    <3> QED BY <2>8, <3>2, <3>3 DEF LookAgain
  <2>9. CASE Measure
    <3>1. stage = "once" /\ Asked /\ UNCHANGED refused
      BY <2>9 DEF Measure
    <3>2. CASE ~call.once
      <4>1. stage' = "over" /\ said' = "screen" /\ rows' = 0
        BY <2>9, <3>1, <3>2 DEF Measure, Stop
      <4> QED BY <3>1, <3>2, <4>1, StopKeeps
    <3>3. CASE call.once /\ call.foreign /\ ~call.here
      <4>1. stage' = "over" /\ said' = "foreign" /\ rows' = rows + 1
        BY <2>9, <3>3 DEF Measure, Stop
      <4>2. rows = 0
        BY <3>1
      <4>3. rows' = 1
        BY <4>1, <4>2, CountRows
      <4> QED BY <3>1, <4>1, <4>3, StopKeeps
    <3>4. CASE call.once /\ ~(call.foreign /\ ~call.here)
      <4>1. stage' \in {"onNode", "collect"} /\ UNCHANGED <<rows, said, code>>
        BY <2>9, <3>4 DEF Measure, Silent
      <4> QED BY <3>1, <4>1 DEF Asked
    <3> QED BY <3>2, <3>3, <3>4
  <2>10. CASE OnNode
    <3>1. stage = "onNode" /\ Asked /\ UNCHANGED refused
      BY <2>10 DEF OnNode
    <3>2. PICK rc \in {0, 1}, out \in {0, 1} :
             /\ rows' = rows + PassOn(rc, out)
             /\ IF rc = 0 /\ out = 1 THEN Stop("row", 0)
                ELSE stage' = "collect" /\ UNCHANGED <<said, code>>
      BY <2>10 DEF OnNode
    <3>3. CASE rc = 0 /\ out = 1
      <4>1. stage' = "over" /\ said' = "row"
        BY <3>2, <3>3 DEF Stop
      <4>2. PassOn(rc, out) = 1 /\ rows = 0
        BY <3>1, <3>3 DEF PassOn
      <4>3. rows' = 1
        BY <3>2, <4>2, CountRows
      <4> QED BY <3>1, <4>1, <4>3, StopKeeps
    <3>4. CASE ~(rc = 0 /\ out = 1)
      <4>1. stage' = "collect" /\ UNCHANGED <<said, code>>
        BY <3>2, <3>4
      <4>2. PassOn(rc, out) = 0 /\ rows = 0
        BY <3>1, <3>4 DEF PassOn
      <4>3. rows' = 0
        BY <3>2, <4>2, CountRows
      <4> QED BY <3>1, <4>1, <4>3 DEF Asked
    <3> QED BY <3>3, <3>4
  <2>11. CASE FirstSample
    <3>1. stage = "collect" /\ Asked /\ UNCHANGED refused /\ rows = 0
      BY <2>11 DEF FirstSample
    <3>2. /\ stage' = "over" /\ said' \in {"row", "usage_not_sampled", "timeout"}
          /\ rows' = rows + 1 \/ (rows' = rows /\ code' = 1)
      BY <2>11 DEF FirstSample, Stop
    <3>3. rows' = 1 \/ (rows' = 0 /\ ~(code' = 0))
      BY <3>1, <3>2, CountRows
    <3> QED BY <3>1, <3>2, <3>3, StopKeeps
  <2>12. CASE UNCHANGED queryVars
    BY <2>12 DEF queryVars
  <2> QED
    BY <2>1, <2>2, <2>3, <2>4, <2>5, <2>6, <2>7, <2>8, <2>9, <2>10, <2>11, <2>12
       DEF JobQueryNext
<1> QED BY <1>1, <1>2, PTL DEF JobQuerySpec

(* The variables of a query are what they are meant to be.                 *)
LEMMA QueryTypeStep ==
    ASSUME QueryInv, JobQueryTypeOK, [JobQueryNext]_queryVars PROVE JobQueryTypeOK'
<1>1. call' = call
  BY DEF JobQueryNext, queryVars, JobMoves, ListByName, ListByUid, Deferred, ScanQueue, Others, ShowJob,
     AskAccounting, ReadFacts, LookAgain, Measure, OnNode, FirstSample, Asked, Silent, Stop, Discovered, Die
<1>2. job' \in JobStates /\ seen' \subseteq JobStates
  BY DEF JobQueryNext, queryVars, JobQueryTypeOK, JobStates, After, JobMoves, ListByName, ListByUid, Deferred, ScanQueue, Others, ShowJob,
     AskAccounting, ReadFacts, LookAgain, Measure, OnNode, FirstSample, Asked, Silent, Stop, Discovered, Die
<1>3. moves' \in 0..MaxJobMoves
  <2>1. moves' = moves \/ (moves < MaxJobMoves /\ moves' = moves + 1)
    BY DEF JobQueryNext, queryVars, JobMoves, ListByName, ListByUid, Deferred, ScanQueue, Others, ShowJob,
     AskAccounting, ReadFacts, LookAgain, Measure, OnNode, FirstSample, Asked, Silent, Stop, Discovered, Die
  <2>2. moves \in 0..MaxJobMoves
    BY DEF JobQueryTypeOK
  <2>3. \A m \in 0..MaxJobMoves : m < MaxJobMoves => m + 1 \in 0..MaxJobMoves
    BY JobQueryAssumption
  <2> QED BY <2>1, <2>2, <2>3
<1>4. stage' \in {"byName", "byUid", "deferred", "scan", "listed", "others", "scontrol",
                  "sacct", "facts", "again", "once", "onNode", "collect", "over"}
  BY DEF JobQueryNext, queryVars, JobQueryTypeOK, JobMoves, ListByName, ListByUid, Deferred, ScanQueue, Others, ShowJob,
     AskAccounting, ReadFacts, LookAgain, Measure, OnNode, FirstSample, Asked, Silent, Stop, Discovered, Die
<1>5. asking' \in Errors /\ refused' \in Errors
  <2>1. \A n, why : why \in Errors => Failure(n, why).why \in Errors
    BY DEF Failure
  <2>2. \A x : Answer(x).why \in Errors
    BY DEF Answer, Errors
  <2>3. \A resolves : \A r \in Listing(resolves) : r.why \in Errors
    <3> {"identity", "busy", "absent"} \subseteq Errors
      BY DEF Errors
    <3> QED BY <2>1, <2>2 DEF Listing, Mishaps
  <2>4. \A r \in Scontrol : r.why \in Errors
    <3> {"entity", "invalid", "busy", "absent"} \subseteq Errors
      BY DEF Errors
    <3> QED BY <2>1, <2>2 DEF Scontrol, Mishaps
  <2>5. asking \in Errors /\ refused \in Errors
    BY DEF JobQueryTypeOK
  <2> QED BY <2>3, <2>4, <2>5 DEF JobQueryNext, queryVars, JobMoves, ListByName, ListByUid, Deferred, ScanQueue, Others, ShowJob,
     AskAccounting, ReadFacts, LookAgain, Measure, OnNode, FirstSample, Asked, Silent, Stop, Discovered, Die
<1>6. record' \in JobStates
  <2>1. \A r \in Scontrol : ~Raises(r) => r = Answer({job})
    BY DEF Scontrol, Mishaps, Failure, Raises
  <2>2. \A r \in Scontrol : ~Raises(r) => (CHOOSE s \in r.rows : TRUE) = job
    BY <2>1 DEF Answer
  <2>3. record \in JobStates /\ job \in JobStates /\ "ended" \in JobStates
    BY DEF JobQueryTypeOK, JobStates
  <2> QED BY <2>2, <2>3 DEF JobQueryNext, queryVars, JobMoves, ListByName, ListByUid, Deferred, ScanQueue, Others, ShowJob,
     AskAccounting, ReadFacts, LookAgain, Measure, OnNode, FirstSample, Asked, Silent, Stop, Discovered, Die
<1>7. rows' \in Nat
  <2>1. \A rc \in {0, 1}, out \in {0, 1} : PassOn(rc, out) \in Nat
    BY DEF PassOn
  <2>2. rows \in Nat
    BY DEF JobQueryTypeOK
  <2>3. CASE OnNode
    BY <2>1, <2>2, <2>3 DEF OnNode
  <2>4. rows' = rows \/ rows' = rows + 1 \/ OnNode
    BY DEF JobQueryNext, queryVars, JobMoves, ListByName, ListByUid, Deferred, ScanQueue, Others, ShowJob,
     AskAccounting, ReadFacts, LookAgain, Measure, OnNode, FirstSample, Asked, Silent, Stop, Discovered, Die
  <2> QED BY <2>2, <2>3, <2>4
<1>8. said' \in Tokens \cup {""}
  <2>1. said \in Tokens \cup {""} /\ \A why : Verdict(why) \in Tokens
    BY DEF JobQueryTypeOK, Verdict, Tokens
  <2>2. {"picker", "cannot ask", "no jobs", "unmonitorable", "pending", "job_finished", "screen",
         "foreign", "row", "usage_not_sampled", "timeout"} \subseteq Tokens
    BY DEF Tokens
  <2> HIDE DEF Tokens
  <2> QED BY <2>1, <2>2 DEF JobQueryNext, queryVars, JobMoves, ListByName, ListByUid, Deferred, ScanQueue, Others, ShowJob,
     AskAccounting, ReadFacts, LookAgain, Measure, OnNode, FirstSample, Asked, Silent, Stop, Discovered, Die
<1>9. code' \in {0, 1, 9}
  BY DEF JobQueryNext, queryVars, JobQueryTypeOK, JobMoves, ListByName, ListByUid, Deferred, ScanQueue, Others, ShowJob,
     AskAccounting, ReadFacts, LookAgain, Measure, OnNode, FirstSample, Asked, Silent, Stop, Discovered, Die
<1> QED BY <1>1, <1>2, <1>3, <1>4, <1>5, <1>6, <1>7, <1>8, <1>9 DEF JobQueryTypeOK

(* Whatever Slurm answers, the program stands at one of its stages, and    *)
(* the record, the errors kept, what is said and the exit code are ones it *)
(* knows.                                                                  *)
THEOREM QueryTypeCorrect == JobQuerySpec => []JobQueryTypeOK
<1>1. JobQueryInit => JobQueryTypeOK
  <2> SUFFICES ASSUME JobQueryInit PROVE JobQueryTypeOK
    OBVIOUS
  <2>1. /\ call \in [named : BOOLEAN, once : BOOLEAN, names : BOOLEAN, uids : BOOLEAN,
                     exit0 : BOOLEAN, inside : BOOLEAN, slurm : BOOLEAN, here : BOOLEAN,
                     foreign : BOOLEAN, hop : BOOLEAN]
        /\ job \in JobStates /\ seen = {job} /\ record = "never"
        /\ stage = "scontrol" \/ stage = "byName"
        /\ asking = "none" /\ refused = "none" /\ said = ""
    BY DEF JobQueryInit
  <2>2. moves \in 0..MaxJobMoves /\ rows \in Nat /\ code \in {0, 1, 9}
    <3>1. 0 \in 0..MaxJobMoves /\ 0 \in Nat /\ moves = 0 /\ rows = 0 /\ code = 9
      <4>1. 0 \in 0..MaxJobMoves /\ 0 \in Nat
        BY JobQueryAssumption
      <4> QED BY <4>1 DEF JobQueryInit
    <3> QED BY <3>1
  <2> QED BY <2>1, <2>2 DEF JobQueryTypeOK, JobStates, Errors
<1> QED BY <1>1, QueryTypeStep, QueryInvCorrect, PTL DEF JobQuerySpec

(* A job is not said to be missing because asking for it failed.           *)
THEOREM AbsenceTrue == JobQuerySpec => []AbsenceIsTrue
<1>1. QueryInv => AbsenceIsTrue
  BY DEF QueryInv
<1> QED BY <1>1, QueryInvCorrect, PTL

(* `--once` prints one row at most, and one where it succeeds.             *)
THEOREM OneRow == JobQuerySpec => []OnePayload
<1>1. QueryInv => OnePayload
  BY DEF QueryInv
<1> QED BY <1>1, QueryInvCorrect, PTL

-----------------------------------------------------------------------------

(* What is asked of each of several nodes is something if the whole is.    *)
LEMMA PerNodeType ==
    ASSUME want.nodes \in Nat \ {0}, NEW total \in Nat
    PROVE  PerNode(total) \in Nat /\ (total > 0 => PerNode(total) > 0)
<1>1. ASSUME NEW k \in Nat \ {0}, NEW t \in Nat
      PROVE  (t + k - 1) \div k \in Nat /\ (t > 0 => (t + k - 1) \div k > 0)
  OBVIOUS
<1> QED BY <1>1 DEF PerNode

-----------------------------------------------------------------------------
(* The free CPUs of some nodes are a sum of that kind.                     *)
LEMMA FreeIsSum ==
    ASSUME NEW S, IsFiniteSet(S), NEW l
    PROVE  FreeCpus(S, l) = SumOver([n \in S |-> node[n].cpus - l[n].cpus], S)
<1> DEFINE free == [n \in S |-> node[n].cpus - l[n].cpus]
           Adds(g) == g = [s \in SUBSET S |-> IF s = {} THEN 0
                ELSE (node[First(s)].cpus - l[First(s)].cpus) + g[s \ {First(s)}]]
           sum == CHOOSE g : Adds(g)
<1>1. ASSUME NEW g PROVE Adds(g) <=> IsSum(free, S, g)
  <2>1. \A s \in SUBSET S : s # {} => free[First(s)] = node[First(s)].cpus - l[First(s)].cpus
    BY DEF First
  <2> QED BY <2>1 DEF IsSum
<1>2. Adds(sum)
  <2>1. \E g : IsSum(free, S, g)
    <3> HIDE DEF free
    <3> QED BY SumExists
  <2>2. \E g : Adds(g)
    BY <1>1, <2>1
  <2> HIDE DEF Adds
  <2> QED BY <2>2
<1>3. FreeCpus(S, l) = sum[S]
  BY DEF FreeCpus, MapThenSumSet, MapThenFoldSet, First
<1>4. IsSum(free, S, sum) /\ S \in SUBSET S
  BY <1>1, <1>2
<1> HIDE DEF free, sum
<1>5. SumOver(free, S) = sum[S]
  BY <1>4, SumIs
<1> QED BY <1>3, <1>5 DEF free

(* The shares of all the nodes make up what is asked for.                  *)
LEMMA SharesSuffice ==
    ASSUME NEW total \in Nat, want.nodes \in Nat \ {0}
    PROVE  PerNode(total) \in Nat /\ PerNode(total) * want.nodes >= total
<1>1. ASSUME NEW k \in Nat \ {0}, NEW t \in Nat, NEW q \in Nat, q = (t + k - 1) \div k
      PROVE  q * k >= t
  <2>1. q * k + ((t + k - 1) % k) = t + k - 1 /\ ((t + k - 1) % k) \in 0 .. k - 1
    BY <1>1
  <2>2. q * k \in Nat
    OBVIOUS
  <2> QED BY <2>1, <2>2
<1>2. PerNode(total) \in Nat
  BY PerNodeType
<1> QED BY <1>1, <1>2 DEF PerNode

(* Nodes that each have a share free have the CPUs the job asks for.       *)
LEMMA FreeEnough ==
    ASSUME want \in Requests, node \in Clusters, NEW l \in Possible,
           NEW S \in SUBSET Nodes, NEW T \in SUBSET S, Cardinality(T) = want.nodes,
           \A n \in T : l[n].cpus + PerNode(want.cpus) <= node[n].cpus
    PROVE  FreeCpus(S, l) \in Nat /\ FreeCpus(S, l) >= want.cpus
<1> DEFINE free == [n \in S |-> node[n].cpus - l[n].cpus]
<1>1. want.nodes \in Nat \ {0} /\ want.cpus \in Nat
  BY FitAssumption
<1>2. \A n \in S : node[n].cpus \in Nat /\ l[n].cpus \in Nat /\ l[n].cpus <= node[n].cpus
  BY FitAssumption DEF Possible, Within
<1>3. PerNode(want.cpus) \in Nat /\ PerNode(want.cpus) * want.nodes >= want.cpus
  BY <1>1, SharesSuffice
<1>4. IsFiniteSet(S)
  BY FitAssumption, FS_Subset
<1>5. free \in [S -> Nat]
  BY <1>2
<1>6. \A n \in T : free[n] >= PerNode(want.cpus)
  <2>1. \A a, b, c \in Nat : a + b <= c => c - a >= b
    OBVIOUS
  <2> QED BY <1>2, <1>3, <2>1
<1>7. FreeCpus(S, l) = SumOver(free, S)
  BY <1>4, FreeIsSum
<1> HIDE DEF free
<1>8. /\ SumOver(free, T) \in Nat /\ SumOver(free, S) >= SumOver(free, T)
      /\ SumOver(free, T) >= PerNode(want.cpus) * Cardinality(T)
  BY <1>3, <1>4, <1>5, <1>6, SumAtLeast
<1>9. SumOver(free, S) \in Nat
  <2>1. S \in SUBSET S /\ \A n \in S : free[n] >= 0
    BY <1>5
  <2> QED BY <1>4, <1>5, <2>1, SumAtLeast
<1> QED BY <1>1, <1>3, <1>7, <1>8, <1>9

-----------------------------------------------------------------------------
(* A poll judges the partitions and draws its tip from that judgement; the *)
(* request and the nodes stay what they are.                               *)
FitInv ==
    /\ want \in Requests /\ node \in Clusters
    /\ tip = "never" => \A p \in DOMAIN Partitions : verdict[p] \in Permanent
    /\ PermanentIsHardware

(* No node of some has more than the most that one of them has.            *)
LEMMA WidestNode ==
    ASSUME node \in Clusters, NEW S \in SUBSET Nodes, NEW n \in S
    PROVE  /\ {node[n].cpus, node[n].mem, node[n].gpus} \subseteq Nat
           /\ Most(S, Cpus) \in Nat /\ node[n].cpus <= Most(S, Cpus)
           /\ Most(S, Mem) \in Nat /\ node[n].mem <= Most(S, Mem)
           /\ Most(S, Gpus) \in Nat /\ node[n].gpus <= Most(S, Gpus)
<1>1. \A m \in S : {node[m].cpus, node[m].mem, node[m].gpus} \subseteq Nat
  BY FitAssumption
<1>2. IsFiniteSet(S)
  BY FitAssumption, FS_Subset
<1> DEFINE cpus == [m \in S |-> node[m].cpus]
           mem == [m \in S |-> node[m].mem]
           gpus == [m \in S |-> node[m].gpus]
<1>3. cpus \in [S -> Nat] /\ mem \in [S -> Nat] /\ gpus \in [S -> Nat]
  BY <1>1
<1>4. /\ Most(S, Cpus) = Max({0} \cup {cpus[m] : m \in S}) /\ cpus[n] = node[n].cpus
      /\ Most(S, Mem) = Max({0} \cup {mem[m] : m \in S}) /\ mem[n] = node[n].mem
      /\ Most(S, Gpus) = Max({0} \cup {gpus[m] : m \in S}) /\ gpus[n] = node[n].gpus
  <2>1. /\ {cpus[m] : m \in S} = {Cpus(m) : m \in S}
        /\ {mem[m] : m \in S} = {Mem(m) : m \in S}
        /\ {gpus[m] : m \in S} = {Gpus(m) : m \in S}
    BY DEF Cpus, Mem, Gpus
  <2> QED BY <2>1 DEF Most
<1> HIDE DEF cpus, mem, gpus
<1>5. /\ Max({0} \cup {cpus[m] : m \in S}) \in Nat
      /\ cpus[n] <= Max({0} \cup {cpus[m] : m \in S})
      /\ Max({0} \cup {mem[m] : m \in S}) \in Nat
      /\ mem[n] <= Max({0} \cup {mem[m] : m \in S})
      /\ Max({0} \cup {gpus[m] : m \in S}) \in Nat
      /\ gpus[n] <= Max({0} \cup {gpus[m] : m \in S})
  BY <1>2, <1>3, MostBounds
<1> QED BY <1>1, <1>4, <1>5

(* A node the job could run on if it were free has what the job asks of    *)
(* one, and no partition that holds it is refused for good.                *)
LEMMA TakesNeeds ==
    ASSUME NEW p \in DOMAIN Partitions, NEW n \in Partitions[p], Takes(n, Empty),
           want \in Requests, node \in Clusters, p \notin want.tooLong,
           \A m \in Nodes : node[m].health # "flagged"
    PROVE  FitBlocker(p) \notin Permanent
<1> DEFINE S == Partitions[p]
<1>1. S \in SUBSET Nodes /\ n \in S /\ n \in Nodes
  BY FitAssumption
<1>2. /\ want.nodes \in Nat \ {0}
      /\ want.cpus \in Nat /\ want.mem \in Nat /\ want.gpus \in Nat
  BY FitAssumption
<1>3. /\ PerNode(want.cpus) \in Nat /\ PerNode(want.mem) \in Nat /\ PerNode(want.gpus) \in Nat
      /\ want.gpus > 0 => PerNode(want.gpus) > 0
  BY <1>2, PerNodeType
<1>4. Empty[n].cpus = 0 /\ Empty[n].mem = 0 /\ Empty[n].gpus = 0
  BY <1>1 DEF Empty
<1>5. Unflagged(S) = S
  BY <1>1 DEF Unflagged
<1>6. /\ {node[n].cpus, node[n].mem, node[n].gpus} \subseteq Nat
      /\ Most(S, Cpus) \in Nat /\ node[n].cpus <= Most(S, Cpus)
      /\ Most(S, Mem) \in Nat /\ node[n].mem <= Most(S, Mem)
      /\ Most(S, Gpus) \in Nat /\ node[n].gpus <= Most(S, Gpus)
  BY <1>1, WidestNode
<1>7. /\ 0 + PerNode(want.cpus) <= node[n].cpus
      /\ 0 + PerNode(want.mem) <= node[n].mem
      /\ 0 + PerNode(want.gpus) <= node[n].gpus
  <2>1. /\ Empty[n].cpus + PerNode(want.cpus) <= node[n].cpus
        /\ Empty[n].mem + PerNode(want.mem) <= node[n].mem
        /\ Empty[n].gpus + PerNode(want.gpus) <= node[n].gpus
    BY DEF Takes
  <2> QED BY <1>4, <2>1
<1> HIDE DEF S
<1>8. /\ PerNode(want.cpus) <= Most(S, Cpus)
      /\ PerNode(want.mem) <= Most(S, Mem)
      /\ ~(PerNode(want.gpus) > Most(S, Gpus))
  <2>1. \A a, b, c \in Nat : 0 + a <= b /\ b <= c => a <= c /\ ~(a > c)
    OBVIOUS
  <2> HIDE <1>4
  <2> QED BY <1>3, <1>6, <1>7, <2>1
<1>9. /\ ShapeBlocker(PerNode(want.cpus), Most(S, Cpus)) = "no room"
      /\ ShapeBlocker(PerNode(want.mem), Most(S, Mem)) = "no room"
  BY <1>8 DEF ShapeBlocker
<1>10. want.gpus > 0 => n \in GpuNodes(Unflagged(S))
  <2>1. \A a, b \in Nat : 0 + a <= b /\ a > 0 => b > 0
    OBVIOUS
  <2>2. want.gpus > 0 => node[n].gpus > 0
    BY <1>3, <1>6, <1>7, <2>1
  <2> QED BY <1>1, <1>5, <2>2 DEF GpuNodes
<1>11. want.gpus > 0 /\ want.type # "" => want.type \in Types(S)
  BY <1>10 DEF Takes, Types
<1>12. ~(PerNode(want.gpus) > Most(Unflagged(S), Gpus))
  BY <1>5, <1>8
<1>13. FitBlocker(p) \in {"down", "no room", "GPUs busy", ""}
  BY <1>9, <1>10, <1>11, <1>12 DEF FitBlocker, S
<1> QED BY <1>13 DEF Permanent

(* The tip and the verdicts stay those of the last poll.                   *)
THEOREM FitInvCorrect == FitSpec => []FitInv
<1>1. FitInit => FitInv
  BY DEF FitInit, FitInv, PermanentIsHardware, Permanent
<1>2. FitInv /\ [FitNext]_fitVars => FitInv'
  <2> SUFFICES ASSUME FitInv, [FitNext]_fitVars PROVE FitInv'
    OBVIOUS
  <2>1. CASE UNCHANGED <<want, node, verdict, tip>>
    BY <2>1 DEF FitInv, PermanentIsHardware, Room, Takes, PerNode
  <2>2. CASE Judge
    <3>1. UNCHANGED <<want, node>> /\ want \in Requests /\ node \in Clusters
      BY <2>2 DEF Judge, FitInv
    <3>2. /\ verdict' = [p \in DOMAIN Partitions |-> FitBlocker(p)]
          /\ tip' = TipFor(verdict')
      BY <2>2 DEF Judge
    <3>3. tip' = "never" => \A p \in DOMAIN Partitions : verdict'[p] \in Permanent
      BY <3>2 DEF TipFor
    <3>4. ASSUME \A n \in Nodes : node[n].health # "flagged",
                 NEW p \in DOMAIN Partitions, verdict'[p] \in Permanent
          PROVE  ~Room(p, Empty)
      <4> SUFFICES ASSUME Room(p, Empty) PROVE FALSE
        OBVIOUS
      <4>1. PICK T \in SUBSET Partitions[p] :
               Cardinality(T) = want.nodes /\ \A n \in T : Takes(n, Empty)
        BY DEF Room
      <4>2. T # {}
        BY <3>1, <4>1, FitAssumption, FS_EmptySet
      <4>3. PICK n \in Partitions[p] : Takes(n, Empty)
        BY <4>1, <4>2
      <4>4. p \notin want.tooLong
        BY DEF Room
      <4> QED BY <3>1, <3>2, <3>4, <4>3, <4>4, TakesNeeds
    <3>5. \A p : Room(p, Empty)' <=> Room(p, Empty)
      BY <3>1 DEF Room, Takes, PerNode, Empty
    <3>6. PermanentIsHardware'
      BY <3>1, <3>3, <3>4, <3>5 DEF PermanentIsHardware
    <3> QED BY <3>1, <3>3, <3>6 DEF FitInv
  <2> QED BY <2>1, <2>2 DEF FitNext, LoadMoves, Aggregate, CountNodes, fitVars
<1> QED BY <1>1, <1>2, PTL DEF FitSpec

(* Waiting is called useless only where the nodes are too small for it.    *)
THEOREM PermanentHardware == FitSpec => []PermanentIsHardware
<1>1. FitInv => PermanentIsHardware
  BY DEF FitInv
<1> QED BY <1>1, FitInvCorrect, PTL

(* A verdict is one of the words the view has for it.                      *)
THEOREM FitTypeCorrect == FitSpec => []FitTypeOK
<1>1. FitInit => FitTypeOK
  BY DEF FitInit, FitTypeOK, Possible
<1>2. FitTypeOK /\ [FitNext]_fitVars => FitTypeOK'
  <2> SUFFICES ASSUME FitTypeOK, [FitNext]_fitVars PROVE FitTypeOK'
    OBVIOUS
  <2> USE DEF FitTypeOK
  <2>1. CASE LoadMoves
    BY <2>1 DEF LoadMoves, Possible
  <2>2. CASE Aggregate \/ CountNodes
    BY <2>2 DEF Aggregate, CountNodes
  <2>3. CASE Judge
    <3>1. \A p \in DOMAIN Partitions : FitBlocker(p) \in Permanent \cup Transient \cup {""}
      BY DEF FitBlocker, ShapeBlocker, Permanent, Transient
    <3>2. tip' \in {"", "cap", "no move", "requeue", "never", "wait"}
      BY <2>3 DEF Judge, TipFor
    <3> QED BY <2>3, <3>1, <3>2 DEF Judge
  <2>4. CASE UNCHANGED fitVars
    BY <2>4 DEF fitVars
  <2> QED BY <2>1, <2>2, <2>3, <2>4 DEF FitNext
<1> QED BY <1>1, <1>2, PTL DEF FitSpec

(* What the queries saw of the nodes could be seen.                        *)
LooksInv ==
    /\ want \in Requests /\ node \in Clusters
    /\ load \in Possible
    /\ query # "aggregate" => summed \in Possible
    /\ query = "nothing" => counted \in Possible

(* What was counted and summed is what the cluster showed at a look.       *)
LEMMA LooksInvCorrect == FitSpec => []LooksInv
<1>1. FitInit => LooksInv
  BY DEF FitInit, LooksInv
<1>2. LooksInv /\ [FitNext]_fitVars => LooksInv'
  <2> SUFFICES ASSUME LooksInv, [FitNext]_fitVars PROVE LooksInv'
    OBVIOUS
  <2>1. node' = node => Possible' = Possible
    BY DEF Possible, Within
  <2>2. CASE LoadMoves
    BY <2>1, <2>2 DEF LooksInv, LoadMoves
  <2>3. CASE Aggregate \/ CountNodes
    BY <2>1, <2>3 DEF LooksInv, Aggregate, CountNodes
  <2>4. CASE Judge
    BY <2>1, <2>4 DEF LooksInv, Judge
  <2>5. CASE UNCHANGED fitVars
    BY <2>1, <2>5 DEF LooksInv, fitVars
  <2> QED BY <2>2, <2>3, <2>4, <2>5 DEF FitNext
<1> QED BY <1>1, <1>2, PTL DEF FitSpec

(* A node that takes a share of the job is one of those that are counted,  *)
(* with as much of everything as the share needs, in all and free.         *)
LEMMA TakerCounts ==
    ASSUME want \in Requests, node \in Clusters, NEW S \in SUBSET Nodes,
           NEW l \in Possible, NEW n \in S, Takes(n, l)
    PROVE  /\ n \in Schedulable(S, l) /\ n \in Unflagged(S)
           /\ want.exclusive => n \in Idle(S, l)
           /\ want.gpus > 0 => n \in GpuNodes(Schedulable(S, l)) /\ n \in GpuNodes(Unflagged(S))
           /\ l[n].cpus + PerNode(want.cpus) <= node[n].cpus
           /\ PerNode(want.cpus) <= node[n].cpus
           /\ PerNode(want.mem) <= node[n].mem
           /\ PerNode(want.mem) <= node[n].mem - l[n].mem
           /\ PerNode(want.gpus) <= node[n].gpus
           /\ PerNode(want.gpus) <= node[n].gpus - l[n].gpus
<1>1. /\ want.nodes \in Nat \ {0}
      /\ want.cpus \in Nat /\ want.mem \in Nat /\ want.gpus \in Nat
  BY FitAssumption
<1>2. /\ PerNode(want.cpus) \in Nat /\ PerNode(want.mem) \in Nat /\ PerNode(want.gpus) \in Nat
      /\ want.gpus > 0 => PerNode(want.gpus) > 0
  BY <1>1, PerNodeType
<1>3. /\ node[n].cpus \in Nat /\ node[n].mem \in Nat /\ node[n].gpus \in Nat
      /\ l[n].cpus \in Nat /\ l[n].mem \in Nat /\ l[n].gpus \in Nat
  BY FitAssumption DEF Possible
<1>4. /\ node[n].health = "ok" /\ l[n].cpus < node[n].cpus
      /\ l[n].cpus + PerNode(want.cpus) <= node[n].cpus
      /\ l[n].mem + PerNode(want.mem) <= node[n].mem
      /\ l[n].gpus + PerNode(want.gpus) <= node[n].gpus
      /\ want.exclusive => l[n].cpus = 0
  BY DEF Takes
<1>5. \A a, b, c \in Nat : a + b <= c => b <= c /\ b <= c - a /\ (b > 0 => c > 0)
  OBVIOUS
<1>6. /\ PerNode(want.cpus) <= node[n].cpus
      /\ PerNode(want.mem) <= node[n].mem
      /\ PerNode(want.mem) <= node[n].mem - l[n].mem
      /\ PerNode(want.gpus) <= node[n].gpus
      /\ PerNode(want.gpus) <= node[n].gpus - l[n].gpus
      /\ want.gpus > 0 => node[n].gpus > 0
  BY <1>2, <1>3, <1>4, <1>5
<1>7. /\ State(n, l) \in {"idle", "mix"}
      /\ want.exclusive => State(n, l) = "idle"
  BY <1>4 DEF State
<1>8. n \in Schedulable(S, l) /\ (want.exclusive => n \in Idle(S, l))
  BY <1>7 DEF Schedulable, Idle, In
<1>9. n \in Unflagged(S)
  BY <1>4 DEF Unflagged
<1> QED BY <1>4, <1>6, <1>8, <1>9 DEF GpuNodes

(* A partition with room at both looks is judged to have it.               *)
LEMMA RoomIsSeen ==
    ASSUME want \in Requests, node \in Clusters, summed \in Possible, counted \in Possible,
           want.gresUsed, NEW p \in DOMAIN Partitions, Room(p, summed), Room(p, counted)
    PROVE  FitBlocker(p) = ""
<1> DEFINE S == Partitions[p]
           cpus == PerNode(want.cpus)
           mem == PerNode(want.mem)
           gpus == PerNode(want.gpus)
<1>1. S \in SUBSET Nodes /\ p \notin want.down /\ p \notin want.tooLong
  BY FitAssumption DEF Room
<1>2. /\ want.nodes \in Nat \ {0}
      /\ want.cpus \in Nat /\ want.mem \in Nat /\ want.gpus \in Nat
  BY FitAssumption
<1>3. PICK A \in SUBSET S : Cardinality(A) = want.nodes /\ \A n \in A : Takes(n, summed)
  BY DEF Room
<1>4. PICK B \in SUBSET S : Cardinality(B) = want.nodes /\ \A n \in B : Takes(n, counted)
  BY DEF Room
<1>5. cpus \in Nat /\ mem \in Nat /\ gpus \in Nat
  BY <1>2, PerNodeType
<1> HIDE DEF S, cpus, mem, gpus
<1>6. A # {} /\ B # {}
  BY <1>2, <1>3, <1>4, FS_EmptySet
<1>7. PICK a \in A : Takes(a, summed)
  BY <1>3, <1>6
<1>8. PICK b \in B : Takes(b, counted)
  BY <1>4, <1>6
<1>9. \A n \in A : /\ n \in Schedulable(S, summed)
                   /\ want.exclusive => n \in Idle(S, summed)
                   /\ summed[n].cpus + cpus <= node[n].cpus
                   /\ cpus <= node[n].cpus /\ mem <= node[n].mem
  BY <1>1, <1>3, TakerCounts DEF cpus, mem
<1>10. \A n \in B : /\ n \in Schedulable(S, counted) /\ n \in Unflagged(S)
                    /\ want.gpus > 0 => /\ n \in GpuNodes(Schedulable(S, counted))
                                        /\ n \in GpuNodes(Unflagged(S))
                    /\ cpus <= node[n].cpus /\ mem <= node[n].mem
                    /\ mem <= node[n].mem - counted[n].mem
                    /\ gpus <= node[n].gpus /\ gpus <= node[n].gpus - counted[n].gpus
  BY <1>1, <1>4, TakerCounts DEF cpus, mem, gpus
<1>11. WholeNode(S) => want.exclusive
  BY <1>8, <1>10 DEF WholeNode, GpuDetail
<1>12. /\ Schedulable(S, summed) \in SUBSET Nodes /\ Idle(S, summed) \in SUBSET Nodes
       /\ Schedulable(S, counted) \in SUBSET Nodes /\ Unflagged(S) \in SUBSET Nodes
  BY <1>1 DEF Schedulable, Idle, In, Unflagged
<1>13. \A x, y, z \in Nat : x <= y /\ y <= z => x <= z
  OBVIOUS
<1>14. /\ Most(Schedulable(S, summed), Cpus) \in Nat /\ cpus <= Most(Schedulable(S, summed), Cpus)
       /\ Most(Schedulable(S, summed), Mem) \in Nat /\ mem <= Most(Schedulable(S, summed), Mem)
  BY <1>5, <1>7, <1>9, <1>12, <1>13, WidestNode
<1>15. want.exclusive =>
          /\ Most(Idle(S, summed), Cpus) \in Nat /\ cpus <= Most(Idle(S, summed), Cpus)
          /\ Most(Idle(S, summed), Mem) \in Nat /\ mem <= Most(Idle(S, summed), Mem)
  BY <1>5, <1>7, <1>9, <1>12, <1>13, WidestNode
<1>16. MaxNodeCpus(S) \in Nat /\ cpus <= MaxNodeCpus(S)
  BY <1>11, <1>14, <1>15 DEF MaxNodeCpus, Or
<1>17. /\ Most(Schedulable(S, counted), FreeMem) \in Nat
       /\ mem <= Most(Schedulable(S, counted), FreeMem)
  <2> DEFINE H == Schedulable(S, counted)
             free == [n \in H |-> node[n].mem - counted[n].mem]
  <2>1. b \in H /\ IsFiniteSet(H)
    BY <1>8, <1>10, <1>12, FitAssumption, FS_Subset
  <2>2. \A n \in H : /\ node[n].mem \in Nat /\ counted[n].mem \in Nat
                     /\ counted[n].mem <= node[n].mem
    BY <1>12, FitAssumption DEF Possible, Within
  <2>3. free \in [H -> Nat] /\ mem <= free[b]
    BY <1>8, <1>10, <2>1, <2>2
  <2>4. Most(H, FreeMem) = Max({0} \cup {free[n] : n \in H})
    <3>1. {free[n] : n \in H} = {FreeMem(n) : n \in H}
      BY DEF FreeMem
    <3> QED BY <3>1 DEF Most
  <2> HIDE DEF H, free
  <2>5. Most(H, FreeMem) \in Nat /\ free[b] <= Most(H, FreeMem)
    BY <2>1, <2>3, <2>4, MostBounds
  <2>6. Most(H, FreeMem) \in Nat /\ mem <= Most(H, FreeMem)
    BY <1>5, <1>13, <2>1, <2>3, <2>5
  <2> QED BY <2>6 DEF H
<1>18. MaxNodeMem(S) \in Nat /\ mem <= MaxNodeMem(S)
  BY <1>8, <1>10, <1>11, <1>14, <1>15, <1>17 DEF MaxNodeMem, Or
<1>19. want.gpus > 0 =>
          /\ gpus <= Most(Unflagged(S), Gpus) /\ Most(Unflagged(S), Gpus) \in Nat
          /\ GpuNodes(Unflagged(S)) # {}
          /\ want.type # "" => want.type \in Types(S)
  <2>1. /\ gpus <= Most(Unflagged(S), Gpus) /\ Most(Unflagged(S), Gpus) \in Nat
    BY <1>5, <1>8, <1>10, <1>12, <1>13, WidestNode
  <2>2. want.gpus > 0 /\ want.type # "" => node[b].type = want.type
    BY <1>8 DEF Takes
  <2> QED BY <1>8, <1>10, <2>1, <2>2 DEF Types
<1>20. want.gpus > 0 =>
          /\ Most(GpuNodes(Schedulable(S, counted)), FreeGpus) \in Nat
          /\ gpus <= Most(GpuNodes(Schedulable(S, counted)), FreeGpus)
  <2> SUFFICES ASSUME want.gpus > 0
               PROVE  /\ Most(GpuNodes(Schedulable(S, counted)), FreeGpus) \in Nat
                      /\ gpus <= Most(GpuNodes(Schedulable(S, counted)), FreeGpus)
    OBVIOUS
  <2> DEFINE H == GpuNodes(Schedulable(S, counted))
             free == [n \in H |-> node[n].gpus - counted[n].gpus]
  <2>0. H \in SUBSET Nodes
    BY <1>12 DEF GpuNodes
  <2>1. b \in H /\ IsFiniteSet(H)
    BY <1>8, <1>10, <2>0, FitAssumption, FS_Subset
  <2>2. \A n \in H : /\ node[n].gpus \in Nat /\ counted[n].gpus \in Nat
                     /\ counted[n].gpus <= node[n].gpus
    BY <2>0, FitAssumption DEF Possible, Within
  <2>3. free \in [H -> Nat] /\ gpus <= free[b]
    BY <1>8, <1>10, <2>1, <2>2
  <2>4. Most(H, FreeGpus) = Max({0} \cup {free[n] : n \in H})
    <3>1. {free[n] : n \in H} = {FreeGpus(n) : n \in H}
      BY DEF FreeGpus
    <3> QED BY <3>1 DEF Most
  <2> HIDE DEF H, free
  <2>5. Most(H, FreeGpus) \in Nat /\ free[b] <= Most(H, FreeGpus)
    BY <2>1, <2>3, <2>4, MostBounds
  <2>6. Most(H, FreeGpus) \in Nat /\ gpus <= Most(H, FreeGpus)
    BY <1>5, <1>13, <2>1, <2>3, <2>5
  <2> QED BY <2>6 DEF H
<1>21. CpusAvailable(S) \in Nat /\ want.cpus <= CpusAvailable(S)
  <2>1. A \in SUBSET Schedulable(S, summed) /\ (want.exclusive => A \in SUBSET Idle(S, summed))
    BY <1>9
  <2>2. \A n \in A : summed[n].cpus + PerNode(want.cpus) <= node[n].cpus
    BY <1>9 DEF cpus
  <2>3. /\ FreeCpus(Schedulable(S, summed), summed) \in Nat
        /\ FreeCpus(Schedulable(S, summed), summed) >= want.cpus
    BY <1>3, <1>12, <2>1, <2>2, FreeEnough
  <2>4. want.exclusive => /\ FreeCpus(Idle(S, summed), summed) \in Nat
                          /\ FreeCpus(Idle(S, summed), summed) >= want.cpus
    BY <1>3, <1>12, <2>1, <2>2, FreeEnough
  <2> QED BY <1>2, <1>11, <2>3, <2>4 DEF CpusAvailable, Or
<1>22. AvailableNodes(S) \in Nat /\ want.nodes <= AvailableNodes(S)
  <2>1. ASSUME NEW H \in SUBSET Nodes, A \in SUBSET H \/ B \in SUBSET H
        PROVE  Cardinality(H) \in Nat /\ want.nodes <= Cardinality(H)
    <3>1. IsFiniteSet(H)
      BY FitAssumption, FS_Subset
    <3> QED BY <1>3, <1>4, <2>1, <3>1, FS_Subset, FS_CardinalityType
  <2> DEFINE H == {n \in GpuNodes(Schedulable(S, counted)) : FreeGpus(n) >= gpus}
  <2>2. A \in SUBSET Schedulable(S, summed) /\ (want.exclusive => A \in SUBSET Idle(S, summed))
    BY <1>9
  <2>3. want.gpus > 0 => B \in SUBSET H /\ H \in SUBSET Nodes
    <3>1. \A n \in Nodes : counted[n].gpus \in Nat /\ node[n].gpus \in Nat
      BY FitAssumption DEF Possible
    <3> QED BY <1>5, <1>10, <1>12, <3>1 DEF FreeGpus, GpuNodes
  <2> HIDE DEF H
  <2>4. AvailableNodes(S) \in {Cardinality(Idle(S, summed)), Cardinality(H),
                               Cardinality(Schedulable(S, summed))}
        /\ (WholeNode(S) => AvailableNodes(S) = Cardinality(Idle(S, summed)))
        /\ (~WholeNode(S) /\ want.gpus > 0 => AvailableNodes(S) = Cardinality(H))
        /\ (~WholeNode(S) /\ ~(want.gpus > 0) =>
              AvailableNodes(S) = Cardinality(Schedulable(S, summed)))
    BY DEF AvailableNodes, H, gpus
  <2> QED BY <1>11, <1>12, <2>1, <2>2, <2>3, <2>4
<1>23. \A x, y \in Nat : x <= y => ~(x > y) /\ ~(y < x)
  OBVIOUS
<1>24. /\ ~(cpus > MaxNodeCpus(S)) /\ ~(mem > MaxNodeMem(S))
       /\ ~(want.nodes > AvailableNodes(S)) /\ ~(want.cpus > CpusAvailable(S))
       /\ want.gpus > 0 =>
            /\ ~(gpus > Most(Unflagged(S), Gpus))
            /\ ~(Most(GpuNodes(Schedulable(S, counted)), FreeGpus) < gpus)
  BY <1>2, <1>5, <1>16, <1>18, <1>19, <1>20, <1>21, <1>22, <1>23
<1> QED BY <1>1, <1>19, <1>24 DEF FitBlocker, S, cpus, mem, gpus

(* Whatever is counted, and by which of the two looks, room is not missed; *)
(* the tip is drawn from the verdicts it stands under.                     *)
THEOREM RoomShown == FitSpec => RoomIsNotHidden
<1>1. ASSUME LooksInv, Judge
      PROVE  /\ \A p \in DOMAIN Partitions :
                  want.gresUsed /\ Room(p, summed) /\ Room(p, counted) => verdict'[p] = ""
             /\ tip' \in {"never", "wait"} /\ want.gresUsed =>
                  ~\E p \in want.allowed \cup want.current : Room(p, summed) /\ Room(p, counted)
  <2>1. /\ want \in Requests /\ node \in Clusters
        /\ summed \in Possible /\ counted \in Possible
    BY <1>1 DEF LooksInv, Judge
  <2>2. /\ verdict' = [p \in DOMAIN Partitions |-> FitBlocker(p)]
        /\ tip' = TipFor(verdict')
    BY <1>1 DEF Judge
  <2>3. \A p \in DOMAIN Partitions :
          want.gresUsed /\ Room(p, summed) /\ Room(p, counted) => verdict'[p] = ""
    BY <2>1, <2>2, RoomIsSeen
  <2>4. tip' \in {"never", "wait"} =>
          \A p \in want.allowed \cup want.current : p \in DOMAIN Partitions => verdict'[p] # ""
    BY <2>2 DEF TipFor
  <2>5. want.allowed \cup want.current \subseteq DOMAIN Partitions
    BY <2>1, FitAssumption
  <2> QED BY <2>3, <2>4, <2>5
<1> QED BY <1>1, LooksInvCorrect, PTL DEF RoomIsNotHidden, FitSpec
=============================================================================
