---------------------------- MODULE ScreenProofs ----------------------------
(***************************************************************************)
(* Proofs about the screens: NodePrompt, for a job of any number of nodes; *)
(* Picker, for any listings squeue may print; JobWatch, for any number of  *)
(* keys, failed queries and changes of the job's state.                    *)
(***************************************************************************)
EXTENDS NodePrompt, Picker, JobWatch, WellFoundedInduction, TLAPS

(* The arrows stay on the nodes of the job, wrapping at both ends.         *)
LEMMA ArrowWraps ==
  ASSUME NEW s \in 1..NNodes
  PROVE  (s % NNodes) + 1 \in 1..NNodes /\ ((s + NNodes - 2) % NNodes) + 1 \in 1..NNodes
<1> USE NodePromptAssumption
<1>1. \A x \in Nat : x % NNodes \in 0..(NNodes - 1)
  OBVIOUS
<1>2. s \in Nat /\ s + NNodes - 2 \in Nat
  OBVIOUS
<1> QED BY <1>1, <1>2

(* What the banner and the timer rest on: the notice is up exactly after   *)
(* the job's end, and a number that waits was typed on the node shown.     *)
PromptInv ==
    /\ NodePromptTypeOK /\ BannerIsTrue
    /\ sign.ended = ended
    /\ timer => input # 0
    /\ input # 0 => typedOn = selected

(* A banner taken down stays up only for a switch or the end.              *)
LEMMA ClearedSign ==
  ASSUME PromptInv
  PROVE  /\ SignCleared \in [display : BOOLEAN, prompt : 0..NNodes, ended : BOOLEAN]
         /\ SignCleared.prompt = 0 /\ SignCleared.ended = ended
         /\ SignCleared.display <=> target # NoNode \/ ended
<1> DEFINE Signs == [display : BOOLEAN, prompt : 0..NNodes, ended : BOOLEAN]
<1>1. sign \in Signs /\ ended \in BOOLEAN /\ sign.ended = ended /\ 0 \in 0..NNodes
  BY NodePromptAssumption DEF PromptInv, NodePromptTypeOK
<1>2. CASE sign.prompt = 0
  <2>1. input = 0 /\ SignCleared = sign
    BY <1>2 DEF PromptInv, BannerIsTrue, SignCleared
  <2>2. sign.display <=> target # NoNode \/ ended
    BY <2>1 DEF PromptInv, BannerIsTrue
  <2> QED BY <1>1, <1>2, <2>1, <2>2
<1>3. CASE sign.prompt # 0
  <2> DEFINE d == target # NoNode \/ sign.ended
  <2>1. d \in BOOLEAN /\ (d <=> target # NoNode \/ ended)
    BY <1>1
  <2> HIDE DEF d
  <2>2. SignCleared = [sign EXCEPT !.prompt = 0, !.display = d]
    BY <1>3 DEF SignCleared, d
  <2>3. SignCleared \in Signs /\ SignCleared.prompt = 0 /\ SignCleared.ended = ended
    BY <1>1, <2>1, <2>2
  <2>4. SignCleared.display = d
    BY <1>1, <2>2
  <2> QED BY <2>1, <2>3, <2>4
<1> QED BY <1>2, <1>3

(* What the four ways to change the prompt do to it.                       *)
LEMMA SwitchKeeps ==
  ASSUME PromptInv, NEW n \in 1..NNodes, Switch(n), UNCHANGED ended,
         typedOn' \in 1..NNodes
  PROVE  PromptInv'
<1>1. n # NoNode
  BY NodePromptAssumption
<1> QED BY <1>1, ClearedSign, NodePromptAssumption
        DEF PromptInv, NodePromptTypeOK, BannerIsTrue, Switch

(* Committing a number clears it and the banner with it.                   *)
LEMMA CommitKeeps ==
  ASSUME PromptInv, NEW n \in 0..NNodes, Commit(n), UNCHANGED ended,
         typedOn' \in 1..NNodes
  PROVE  PromptInv'
<1>1. CASE n \in 1..NNodes /\ n # selected /\ ~ended
  BY <1>1, SwitchKeeps DEF Commit
<1>2. CASE ~(n \in 1..NNodes /\ n # selected /\ ~ended)
  <2>1. input' = 0 /\ timer' = FALSE /\ sign' = SignCleared /\ UNCHANGED <<selected, target>>
    BY <1>2 DEF Commit
  <2> QED BY <2>1, ClearedSign, NodePromptAssumption
          DEF PromptInv, NodePromptTypeOK, BannerIsTrue
<1> QED BY <1>1, <1>2

(* Typing a number puts it on the banner of the node shown.                *)
LEMMA PromptKeeps ==
  ASSUME PromptInv, NEW n \in 1..NNodes, Prompt(n), UNCHANGED ended,
         typedOn' = selected
  PROVE  PromptInv'
<1>0. /\ sign \in [display : BOOLEAN, prompt : 0..NNodes, ended : BOOLEAN]
      /\ n \in 0..NNodes /\ sign' = [sign EXCEPT !.display = TRUE, !.prompt = n]
  BY NodePromptAssumption DEF PromptInv, NodePromptTypeOK, Prompt
<1>1. /\ sign' \in [display : BOOLEAN, prompt : 0..NNodes, ended : BOOLEAN]
      /\ sign'.display = TRUE /\ sign'.prompt = n /\ sign'.ended = sign.ended
  BY <1>0
<1> QED BY <1>1, NodePromptAssumption DEF PromptInv, NodePromptTypeOK, BannerIsTrue, Prompt

(* Every key, timer and end of a switch keeps the invariant.               *)
LEMMA PromptStep ==
  ASSUME PromptInv, [NodePromptNext]_promptVars
  PROVE  PromptInv'
<1> USE NodePromptAssumption
<1>1. typedOn \in 1..NNodes /\ selected \in 1..NNodes /\ input \in 0..NNodes
  BY DEF PromptInv, NodePromptTypeOK
<1>2. ASSUME NEW d \in 0..9, NodeDigit(d) PROVE PromptInv'
  <2>1. Candidate(d) \in 1..NNodes /\ UNCHANGED ended
    BY <1>2 DEF NodeDigit
  <2>2. typedOn' = selected
    BY <1>1, <1>2 DEF NodeDigit, PromptInv
  <2>3. CASE Commit(Candidate(d))
    BY <1>1, <2>1, <2>2, <2>3, CommitKeeps
  <2>4. CASE Prompt(Candidate(d))
    BY <2>1, <2>2, <2>4, PromptKeeps
  <2> QED BY <1>2, <2>3, <2>4 DEF NodeDigit
<1>3. CASE NodeBackspace
  <2>1. typedOn' = selected /\ UNCHANGED ended
    BY <1>3 DEF NodeBackspace, PromptInv
  <2>2. CASE input \div 10 # 0
    <3>1. input \div 10 \in 1..NNodes
      BY <1>1, <2>2
    <3> QED BY <1>3, <2>1, <2>2, <3>1, PromptKeeps DEF NodeBackspace
  <2>3. CASE input \div 10 = 0
    <3>1. input' = 0 /\ timer' = FALSE /\ sign' = SignCleared /\ UNCHANGED <<selected, target>>
      BY <1>3, <2>3 DEF NodeBackspace
    <3> QED BY <1>1, <2>1, <3>1, ClearedSign DEF PromptInv, NodePromptTypeOK, BannerIsTrue
  <2> QED BY <2>2, <2>3
<1>4. CASE CommitKey \/ TimerCommits
  BY <1>1, <1>4, CommitKeeps DEF CommitKey, TimerCommits
<1>5. ASSUME NEW step \in {1, 2}, ArrowKey(step) PROVE PromptInv'
  <2>1. PICK n \in 1..NNodes : Switch(n)
    BY <1>1, <1>5, ArrowWraps DEF ArrowKey
  <2> QED BY <1>1, <1>5, <2>1, SwitchKeeps DEF ArrowKey
<1>6. CASE FrameArrives
  BY <1>6 DEF FrameArrives, PromptInv, NodePromptTypeOK, BannerIsTrue
<1>7. CASE JobEnds
  <2>1. /\ sign' \in [display : BOOLEAN, prompt : 0..NNodes, ended : BOOLEAN]
        /\ sign'.display = TRUE /\ sign'.prompt = 0 /\ sign'.ended = TRUE
    BY <1>7 DEF JobEnds
  <2>2. ended' = TRUE /\ input' = 0 /\ timer' = FALSE /\ UNCHANGED <<selected, typedOn>>
        /\ target' = NoNode
    BY <1>7 DEF JobEnds
  <2> QED BY <1>1, <2>1, <2>2 DEF PromptInv, NodePromptTypeOK, BannerIsTrue
<1>8. CASE UNCHANGED promptVars
  BY <1>8 DEF promptVars, PromptInv, NodePromptTypeOK, BannerIsTrue
<1> QED BY <1>2, <1>3, <1>4, <1>5, <1>6, <1>7, <1>8 DEF NodePromptNext

(* The prompt keeps its types, its banner and its timer in step.           *)
THEOREM PromptInvCorrect == NodePromptSpec => []PromptInv
<1>1. NodePromptInit => PromptInv
  <2> SUFFICES ASSUME NodePromptInit PROVE PromptInv
    OBVIOUS
  <2>1. /\ sign \in [display : BOOLEAN, prompt : 0..NNodes, ended : BOOLEAN]
        /\ sign.display = FALSE /\ sign.prompt = 0 /\ sign.ended = FALSE
    BY NodePromptAssumption DEF NodePromptInit
  <2>2. /\ input = 0 /\ timer = FALSE /\ selected = 1 /\ target = NoNode
        /\ ended = FALSE /\ typedOn = 1
    BY DEF NodePromptInit
  <2>3. NodePromptTypeOK
    <3>1. 1 \in 1..NNodes /\ 0 \in 0..NNodes
      BY NodePromptAssumption
    <3>2. timer \in BOOLEAN /\ ended \in BOOLEAN
      BY <2>2
    <3>3. target \in 1..NNodes \cup {NoNode}
      BY <2>2
    <3>4. input \in 0..NNodes /\ selected \in 1..NNodes /\ typedOn \in 1..NNodes
      BY <2>2, <3>1
    <3> QED BY <2>1, <3>2, <3>3, <3>4 DEF NodePromptTypeOK
  <2>4. BannerIsTrue
    BY <2>1, <2>2 DEF BannerIsTrue
  <2> QED BY <2>1, <2>2, <2>3, <2>4 DEF PromptInv
<1> QED BY <1>1, PromptStep, PTL DEF NodePromptSpec

(* Only numbers of the job's nodes are asked for, shown and gone to.       *)
THEOREM PromptTypeCorrect == NodePromptSpec => []NodePromptTypeOK
<1>1. PromptInv => NodePromptTypeOK
  BY DEF PromptInv
<1> QED BY <1>1, PromptInvCorrect, PTL

(* Whatever writes the banner, it says what is so, and the notice that the *)
(* job ended is never taken down.                                          *)
THEOREM BannerTrue == NodePromptSpec => []BannerIsTrue
<1>1. PromptInv => BannerIsTrue
  BY DEF PromptInv
<1> QED BY <1>1, PromptInvCorrect, PTL

(* The timer of a half-typed number never moves a view that has moved on.  *)
THEOREM NoYank == NodePromptSpec => TimerNeverYanks
<1>1. PromptInv => [TimerCommits /\ selected' # selected => typedOn = selected]_promptVars
  BY DEF PromptInv, TimerCommits
<1> QED BY <1>1, PromptInvCorrect, PTL DEF NodePromptSpec, TimerNeverYanks

-----------------------------------------------------------------------------

(* Among natural numbers one is the smallest.                              *)
LEMMA MinExists ==
    ASSUME NEW S \in SUBSET Nat, S # {}
    PROVE  Min(S) \in S
<1> DEFINE R == OpToRel(<, Nat)
<1>1. IsWellFoundedOn(R, Nat)
  BY NatLessThanWellFounded
<1>2. \A a, b \in Nat : a < b => <<a, b>> \in R
  BY DEF OpToRel
<1> HIDE DEF R
<1>3. PICK x \in S : \A y \in S : <<y, x>> \notin R
  BY <1>1, WFMin
<1>4. \A y \in S : ~(y < x)
  BY <1>2, <1>3
<1>5. \A y \in S : x <= y
  <2>1. \A a, b \in Nat : ~(a < b) => b <= a
    OBVIOUS
  <2> QED BY <1>4, <2>1
<1> QED BY <1>5 DEF Min

(* A job is looked up where it is.                                         *)
LEMMA IndexFinds ==
    ASSUME NEW jobs \in Listings, NEW id, IndexOf(jobs, id) > 0
    PROVE  IndexOf(jobs, id) \in DOMAIN jobs /\ jobs[IndexOf(jobs, id)].id = id
<1> DEFINE I == {i \in 1..Len(jobs) : jobs[i].id = id}
<1>1. Len(jobs) \in Nat /\ DOMAIN jobs = 1..Len(jobs)
  BY PickerAssumption
<1>2. IndexOf(jobs, id) = IF I # {} THEN Min(I) ELSE 0
  BY DEF IndexOf, SelectInSeq
<1>3. I # {}
  BY <1>2
<1>4. I \in SUBSET Nat
  BY <1>1
<1>5. Min(I) \in I
  BY <1>3, <1>4, MinExists
<1> QED BY <1>1, <1>2, <1>3, <1>5

(* What the cursor is known to be on is what the list has there.           *)
OnCursor ==
    /\ ~Rebuilding /\ cursor # NoJob =>
          list.index \in DOMAIN list.jobs /\ list.jobs[list.index].id = cursor
    /\ Rebuilding /\ cursor # NoJob => poll.cursor = cursor

(* What the list shows, whenever nothing has cut a rebuild short.          *)
OneSample ==
    /\ ~Rebuilding /\ ~cut =>
          list.rows = Ids(list.jobs) /\ list.rendered = Key(list.jobs) /\ list.anchored
    /\ poll.at = "mount" => list.rows = Ids(poll.new)

(* The parts of the screen, the poll and the loop, and where their job     *)
(* lists come from.                                                        *)
PickerShape ==
    /\ queue \in Listings /\ list.jobs \in Listings
    /\ poll.at \in {"answer", "clear", "mount"} => poll.new \in Listings
    /\ list = [jobs |-> list.jobs, rows |-> list.rows, rendered |-> list.rendered,
               anchored |-> list.anchored, index |-> list.index]
    /\ poll = [at |-> poll.at, new |-> poll.new, cursor |-> poll.cursor, prior |-> poll.prior]
    /\ app = [top |-> app.top, result |-> app.result, selected |-> app.selected,
              code |-> app.code, foreign |-> app.foreign]

(* The picker is on the screen, or has just been left with a job.          *)
OnTop == app.top \in {"picker", "dismissed"}

(* While a view is over the picker no poll runs, and the job it is about   *)
(* is the one the next picker opens on.                                    *)
PickerInv ==
    /\ PickerShape
    /\ OnTop => OneSample /\ OnCursor
    /\ ~OnTop => poll.at = "idle"
    /\ ~OnTop /\ app.top # "exit" /\ IndexOf(list.jobs, app.result) > 0 =>
          app.selected = IndexOf(list.jobs, app.result)

(* A picker opens on its own listing.                                      *)
LEMMA PickerStart == PickerInit => PickerInv
<1> SUFFICES ASSUME PickerInit PROVE PickerInv
  OBVIOUS
<1>1. queue \in Listings /\ queue # <<>> /\ list = Table(queue, TRUE, 1) /\ poll = NoPoll
  BY DEF PickerInit
<1>2. 1 \in DOMAIN queue
  BY <1>1, PickerAssumption
<1>3. /\ list.jobs = queue /\ list.rows = Ids(queue) /\ list.rendered = Key(queue)
      /\ list.anchored /\ list.index = 1
  BY <1>1, <1>2 DEF Table
<1>4. ~Rebuilding /\ poll.at = "idle"
  BY <1>1 DEF NoPoll, Rebuilding
<1>5. OnTop
  BY DEF PickerInit, OnTop
<1>6. PickerShape
  <2>1. PICK foreign \in BOOLEAN :
           app = [top |-> "picker", result |-> NoJob, selected |-> 1, code |-> 0,
                  foreign |-> foreign]
    BY DEF PickerInit
  <2> QED BY <1>1, <1>3, <1>4, <2>1 DEF PickerShape, Table, NoPoll
<1>7. OneSample /\ OnCursor
  <2>1. cursor = queue[1].id
    BY <1>2 DEF PickerInit, At
  <2> QED BY <1>2, <1>3, <1>4, <2>1 DEF OneSample, OnCursor
<1> QED BY <1>5, <1>6, <1>7 DEF PickerInv

(* A kick forgets the poll before, and where it stood in a rebuild.        *)
LEMMA KickKeeps == ASSUME PickerInv, KickPoll PROVE PickerInv'
<1>1. /\ OnTop /\ OnTop' /\ UNCHANGED <<queue, list, app>>
      /\ cut' = (cut \/ Rebuilding) /\ cursor' = IF Rebuilding THEN NoJob ELSE cursor
      /\ poll' = [NoPoll EXCEPT !.at = "query"]
  BY DEF KickPoll, OnTop
<1>2. poll'.at = "query" /\ ~Rebuilding'
  BY <1>1 DEF NoPoll, Rebuilding
<1>3. PickerShape'
  BY <1>1, <1>2 DEF PickerInv, PickerShape, NoPoll
<1>4. OneSample'
  BY <1>1, <1>2 DEF PickerInv, OneSample
<1>5. OnCursor'
  BY <1>1, <1>2 DEF PickerInv, OnCursor
<1> QED BY <1>1, <1>3, <1>4, <1>5 DEF PickerInv

(* A poll that rebuilds nothing leaves the list alone.                     *)
LEMMA QuietPollKeeps ==
    ASSUME PickerInv, PollFails \/ PollAnswers \/ PollSame
    PROVE  PickerInv'
<1>1. /\ ~Rebuilding /\ poll.at # "idle" /\ UNCHANGED <<queue, list, app, cut, cursor>>
      /\ \/ poll' = NoPoll
         \/ poll' = [poll EXCEPT !.at = "answer", !.new = queue]
  BY DEF PollFails, PollAnswers, PollSame, Rebuilding
<1>2. OnTop /\ OnTop'
  BY <1>1 DEF PickerInv, OnTop
<1>3. poll'.at \in {"idle", "answer"} /\ (poll'.at = "answer" => poll'.new = queue) /\ ~Rebuilding'
  <2>1. CASE poll' = NoPoll
    BY <2>1 DEF NoPoll, Rebuilding
  <2>2. CASE poll' = [poll EXCEPT !.at = "answer", !.new = queue]
    BY <2>2 DEF PickerInv, PickerShape, Rebuilding
  <2> QED BY <1>1, <2>1, <2>2
<1>4. PickerShape'
  BY <1>1, <1>3 DEF PickerInv, PickerShape, NoPoll
<1>5. OneSample' /\ OnCursor'
  BY <1>1, <1>2, <1>3 DEF PickerInv, OneSample, OnCursor
<1> QED BY <1>2, <1>4, <1>5 DEF PickerInv

(* A rebuild sets out with the job the cursor was on, fills the rows from  *)
(* its own sample, and puts the cursor back on that job.                   *)
LEMMA ClearKeeps == ASSUME PickerInv, PollClears PROVE PickerInv'
<1>1. /\ poll.at = "answer" /\ ~Rebuilding
      /\ poll' = [poll EXCEPT !.at = "clear", !.prior = list.index,
                              !.cursor = At(list.jobs, list.index)]
      /\ list' = [list EXCEPT !.rows = <<>>, !.index = 0, !.anchored = FALSE]
      /\ UNCHANGED <<queue, app, cut, cursor>>
  BY DEF PollClears, Rebuilding
<1>2. OnTop /\ OnTop'
  BY <1>1 DEF PickerInv, OnTop
<1>3. /\ poll'.at = "clear" /\ poll'.new = poll.new /\ poll'.cursor = At(list.jobs, list.index)
      /\ list'.jobs = list.jobs /\ Rebuilding'
  BY <1>1 DEF PickerInv, PickerShape, Rebuilding
<1>4. PickerShape'
  BY <1>1, <1>3 DEF PickerInv, PickerShape
<1>5. OneSample'
  BY <1>3 DEF OneSample
<1>6. OnCursor'
  BY <1>1, <1>2, <1>3 DEF PickerInv, OnCursor, At
<1> QED BY <1>2, <1>4, <1>5, <1>6 DEF PickerInv

(* The rows that are mounted are those of the rebuild's own sample.        *)
LEMMA MountKeeps == ASSUME PickerInv, PollMounts PROVE PickerInv'
<1>1. /\ poll.at = "clear" /\ Rebuilding
      /\ poll' = [poll EXCEPT !.at = "mount"]
      /\ list' = [list EXCEPT !.rows = Ids(poll.new)]
      /\ UNCHANGED <<queue, app, cut, cursor>>
  BY DEF PollMounts, Rebuilding
<1>2. OnTop /\ OnTop'
  BY <1>1 DEF PickerInv, OnTop
<1>3. /\ poll'.at = "mount" /\ poll'.new = poll.new /\ poll'.cursor = poll.cursor
      /\ list'.jobs = list.jobs /\ list'.rows = Ids(poll.new) /\ Rebuilding'
  BY <1>1 DEF PickerInv, PickerShape, Rebuilding
<1>4. PickerShape'
  BY <1>1, <1>3 DEF PickerInv, PickerShape
<1>5. OneSample' /\ OnCursor'
  BY <1>1, <1>2, <1>3 DEF PickerInv, OneSample, OnCursor
<1> QED BY <1>2, <1>4, <1>5 DEF PickerInv

(* At the end of a rebuild the cursor is back on the job it was on.        *)
LEMMA CommitListKeeps == ASSUME PickerInv, PollCommits PROVE PickerInv'
<1>1. /\ poll.at = "mount" /\ Rebuilding
      /\ list' = [jobs |-> poll.new, rows |-> list.rows, rendered |-> Key(poll.new),
                  anchored |-> TRUE, index |-> CursorAfter(poll.new)]
      /\ poll' = NoPoll /\ UNCHANGED <<queue, app>>
      /\ cursor' = IF IndexOf(poll.new, cursor) > 0 THEN cursor ELSE NoJob
  BY DEF PollCommits, Rebuilding
<1>2. OnTop /\ OnTop'
  BY <1>1 DEF PickerInv, OnTop
<1>3. /\ poll'.at = "idle" /\ ~Rebuilding' /\ poll.new \in Listings
      /\ list'.jobs = poll.new /\ list'.rows = list.rows /\ list'.rendered = Key(poll.new)
      /\ list'.anchored = TRUE /\ list'.index = CursorAfter(poll.new)
  BY <1>1 DEF PickerInv, PickerShape, Rebuilding, NoPoll
<1>4. PickerShape'
  BY <1>1, <1>3 DEF PickerInv, PickerShape, NoPoll
<1>5. OneSample'
  BY <1>1, <1>2, <1>3 DEF PickerInv, OneSample
<1>6. OnCursor'
  <2> SUFFICES ASSUME cursor' # NoJob
               PROVE  list'.index \in DOMAIN list'.jobs /\ list'.jobs[list'.index].id = cursor'
    BY <1>3 DEF OnCursor
  <2>1. cursor' = cursor /\ IndexOf(poll.new, cursor) > 0 /\ cursor # NoJob
    BY <1>1
  <2>2. poll.cursor = cursor
    BY <1>1, <1>2, <2>1 DEF PickerInv, OnCursor
  <2>3. list'.index = IndexOf(poll.new, cursor)
    BY <1>3, <2>1, <2>2 DEF CursorAfter
  <2> QED BY <1>3, <2>1, <2>3, IndexFinds
<1> QED BY <1>2, <1>4, <1>5, <1>6 DEF PickerInv

(* The reader's keys.                                                      *)
LEMMA KeysKeep ==
    ASSUME PickerInv, MoveCursor \/ SelectJob \/ CancelPicker
    PROVE  PickerInv'
<1>1. CASE MoveCursor
  <2>1. PICK i \in DOMAIN list.rows :
           /\ list' = [list EXCEPT !.index = i]
           /\ cursor' = IF Rebuilding \/ cut THEN NoJob ELSE list.rows[i]
    BY <1>1 DEF MoveCursor
  <2>2. OnTop /\ OnTop' /\ UNCHANGED <<queue, poll, app, cut>>
    BY <1>1 DEF MoveCursor, OnTop
  <2>3. /\ list'.jobs = list.jobs /\ list'.rows = list.rows /\ list'.rendered = list.rendered
        /\ list'.anchored = list.anchored /\ list'.index = i
    BY <2>1 DEF PickerInv, PickerShape
  <2>4. PickerShape'
    BY <2>1, <2>2, <2>3 DEF PickerInv, PickerShape
  <2>5. OneSample'
    BY <2>2, <2>3 DEF PickerInv, OneSample, Rebuilding
  <2>6. OnCursor'
    <3>1. CASE Rebuilding \/ cut
      BY <2>1, <3>1 DEF OnCursor
    <3>2. CASE ~Rebuilding /\ ~cut
      <4>1. list.rows = Ids(list.jobs) /\ cursor' = list.rows[i] /\ ~Rebuilding'
        BY <2>1, <2>2, <3>2 DEF PickerInv, OneSample, Rebuilding
      <4>2. i \in DOMAIN list.jobs /\ list.jobs[i].id = cursor'
        BY <2>1, <4>1 DEF Ids
      <4> QED BY <2>3, <4>1, <4>2 DEF OnCursor
    <3> QED BY <3>1, <3>2
  <2> QED BY <2>2, <2>4, <2>5, <2>6 DEF PickerInv
<1>2. CASE SelectJob
  <2>1. OnTop /\ OnTop' /\ UNCHANGED <<queue, list, poll, cut, cursor>>
    BY <1>2 DEF SelectJob, OnTop, PickerInv, PickerShape
  <2>2. PickerShape'
    BY <1>2, <2>1 DEF SelectJob, PickerInv, PickerShape
  <2> QED BY <2>1, <2>2 DEF PickerInv, OneSample, OnCursor, Rebuilding
<1>3. CASE CancelPicker
  <2>1. app'.top = "exit" /\ ~OnTop' /\ poll' = NoPoll /\ UNCHANGED <<queue, list>>
    BY <1>3 DEF CancelPicker, OnTop, PickerInv, PickerShape
  <2>2. poll' = [at |-> "idle", new |-> <<>>, cursor |-> NoJob, prior |-> 0]
    BY <2>1 DEF NoPoll
  <2>3. app' = [app EXCEPT !.top = "exit", !.code = 0]
    BY <1>3 DEF CancelPicker
  <2>4. poll'.at = "idle"
    BY <2>2
  <2>5. PickerShape'
    <3>1. app' = [top |-> app'.top, result |-> app'.result, selected |-> app'.selected,
                  code |-> app'.code, foreign |-> app'.foreign]
      BY <2>3 DEF PickerInv, PickerShape
    <3>2. poll' = [at |-> poll'.at, new |-> poll'.new, cursor |-> poll'.cursor,
                   prior |-> poll'.prior]
      BY <2>2
    <3> QED BY <2>1, <2>4, <3>1, <3>2 DEF PickerInv, PickerShape
  <2> QED BY <2>1, <2>4, <2>5 DEF PickerInv
<1> QED BY <1>1, <1>2, <1>3

(* The loop adopts the list, opens views, and comes back to the picker.    *)
LEMMA ResumeKeeps == ASSUME PickerInv, ResumeLoop PROVE PickerInv'
<1>1. /\ app' = [app EXCEPT !.selected = SelectedAfter(app.result),
                   !.top = IF StateListed(app.result) = "PD" THEN "pending?" ELSE "running?"]
      /\ poll' = NoPoll /\ UNCHANGED <<queue, list>>
  BY DEF ResumeLoop
<1>2. /\ app'.selected = SelectedAfter(app.result) /\ app'.result = app.result
      /\ app'.top \in {"pending?", "running?"} /\ ~OnTop'
  BY <1>1 DEF PickerInv, PickerShape, OnTop
<1>3. PickerShape' /\ poll'.at = "idle"
  BY <1>1 DEF PickerInv, PickerShape, NoPoll
<1>4. IndexOf(list.jobs, app.result) > 0 => app'.selected = IndexOf(list.jobs, app.result)
  BY <1>2 DEF SelectedAfter
<1> QED BY <1>1, <1>2, <1>3, <1>4 DEF PickerInv

(* From one view to the next the list stands still.                        *)
LEMMA GoToKeeps ==
    ASSUME PickerInv, ~OnTop, app.top # "exit",
           NEW top \in {"pending?", "running?", "requeued?", "pending", "foreign", "starting",
                        "dashboard", "stopping", "exit"},
           GoTo(top)
    PROVE  PickerInv'
<1>1. /\ app'.top = top /\ app'.result = app.result /\ app'.selected = app.selected
      /\ UNCHANGED <<queue, list, poll>> /\ ~OnTop'
  BY DEF GoTo, PickerInv, PickerShape, OnTop
<1>2. PickerShape'
  BY <1>1 DEF GoTo, PickerInv, PickerShape
<1> QED BY <1>1, <1>2 DEF PickerInv

(* A new picker over the old list opens on the job the view was about.     *)
LEMMA PickingKeeps ==
    ASSUME PickerInv, ~OnTop, app.top # "exit", Picking
    PROVE  PickerInv'
<1>1. /\ list' = Table(list.jobs, list.anchored, app.selected)
      /\ cut' = ~list.anchored
      /\ cursor' = IF IndexOf(list.jobs, app.result) > 0 THEN app.result ELSE NoJob
      /\ UNCHANGED <<queue, poll>> /\ poll.at = "idle"
      /\ app' = [app EXCEPT !.top = "picker", !.result = NoJob]
  BY DEF Picking, PickerInv
<1>2. OnTop' /\ ~Rebuilding'
  BY <1>1 DEF OnTop, PickerInv, PickerShape, Rebuilding
<1>3. /\ list'.jobs = list.jobs /\ list'.rows = Ids(list.jobs) /\ list'.rendered = Key(list.jobs)
      /\ list'.anchored = list.anchored
      /\ list'.index = IF app.selected \in DOMAIN list.jobs THEN app.selected ELSE 0
  BY <1>1 DEF Table
<1>4. PickerShape'
  BY <1>1, <1>3 DEF PickerInv, PickerShape, Table
<1>5. OneSample'
  <2>1. ~cut' => list'.anchored
    BY <1>1, <1>3, Zenon
  <2> QED BY <1>1, <1>2, <1>3, <2>1 DEF OneSample
<1>6. OnCursor'
  <2> SUFFICES ASSUME cursor' # NoJob
               PROVE  list'.index \in DOMAIN list'.jobs /\ list'.jobs[list'.index].id = cursor'
    BY <1>2 DEF OnCursor
  <2>1. cursor' = app.result /\ IndexOf(list.jobs, app.result) > 0
    BY <1>1
  <2>2. app.selected = IndexOf(list.jobs, app.result) /\ list.jobs \in Listings
    BY <2>1 DEF PickerInv, PickerShape
  <2>3. app.selected \in DOMAIN list.jobs /\ list.jobs[app.selected].id = app.result
    BY <2>1, <2>2, IndexFinds
  <2> QED BY <1>3, <2>1, <2>3
<1> QED BY <1>2, <1>4, <1>5, <1>6 DEF PickerInv

(* Every step between two pickers is one of these two.                     *)
LEMMA ViewsKeep ==
    ASSUME PickerInv,
           \/ ResolvePending \/ ResolveRunning \/ ResolveRequeued \/ StartCollector
           \/ CloseView \/ CloseDashboard \/ StopCollector
    PROVE  PickerInv'
<1>1. ~OnTop /\ app.top # "exit"
  BY DEF ResolvePending, ResolveRunning, ResolveRequeued, StartCollector, CloseView,
         CloseDashboard, StopCollector, OnTop
<1>2. \/ Picking
      \/ \E top \in {"pending?", "running?", "requeued?", "pending", "foreign", "starting",
                      "dashboard", "stopping", "exit"} : GoTo(top)
  BY DEF ResolvePending, ResolveRunning, ResolveRequeued, StartCollector, CloseView,
         CloseDashboard, StopCollector
<1> QED BY <1>1, <1>2, GoToKeeps, PickingKeeps

(* The picker keeps track of the cursor through polls, views and cuts.     *)
THEOREM PickerInvCorrect == PickerSpec => []PickerInv
<1>1. PickerInv /\ [PickerNext]_pickerVars => PickerInv'
  <2> SUFFICES ASSUME PickerInv, [PickerNext]_pickerVars PROVE PickerInv'
    OBVIOUS
  <2>1. CASE QueueChanges
    <3>1. queue' \in Listings /\ UNCHANGED <<list, poll, app, cut, cursor>>
      BY <2>1 DEF QueueChanges
    <3> QED BY <3>1 DEF PickerInv, PickerShape, OnTop, OneSample, OnCursor, Rebuilding
  <2>2. CASE Unmount \/ UNCHANGED pickerVars
    <3>1. UNCHANGED <<queue, list, poll, app, cut, cursor>>
      BY <2>2 DEF Unmount, pickerVars
    <3> QED BY <3>1 DEF PickerInv, PickerShape, OnTop, OneSample, OnCursor, Rebuilding
  <2> QED BY <2>1, <2>2, KickKeeps, QuietPollKeeps, ClearKeeps, MountKeeps, CommitListKeeps,
             KeysKeep, ResumeKeeps, ViewsKeep DEF PickerNext
<1> QED BY <1>1, PickerStart, PTL DEF PickerSpec

(* What the list shows is one sample, and its cursor stays on its job.     *)
THEOREM ListTrue == PickerSpec => []ListIsTrue
<1>1. PickerInv => ListIsTrue
  <2> SUFFICES ASSUME PickerInv, app.top = "picker", ~Rebuilding, ~cut
               PROVE  /\ list.rows = Ids(list.jobs) /\ list.rendered = Key(list.jobs)
                      /\ list.anchored
                      /\ cursor # NoJob => list.index > 0 /\ list.rows[list.index] = cursor
    BY DEF ListIsTrue, TableIsOneSample, CursorFollowsJob
  <2>1. OneSample /\ OnCursor /\ list.jobs \in Listings
    BY DEF PickerInv, OnTop, PickerShape
  <2>2. ASSUME cursor # NoJob PROVE list.index > 0 /\ list.rows[list.index] = cursor
    <3>1. list.index \in DOMAIN list.jobs /\ list.jobs[list.index].id = cursor
      BY <2>1, <2>2 DEF OnCursor
    <3>2. DOMAIN list.jobs = 1..Len(list.jobs) /\ Len(list.jobs) \in Nat
      BY <2>1, PickerAssumption
    <3> QED BY <2>1, <3>1, <3>2 DEF OneSample, Ids
  <2> QED BY <2>1, <2>2 DEF OneSample
<1> QED BY <1>1, PickerInvCorrect, PTL

-----------------------------------------------------------------------------

(* Each view runs passes of its own kind.                                  *)
WatchInv ==
    /\ JobWatchTypeOK
    /\ screen = "pending" => pass \in {"none", "job", "gather"}
    /\ screen = "foreign" => pass \in {"none", "alive", "counts"} /\ ~inFlight /\ ~dying
    /\ dying => screen = "pending" /\ pass = "job"

(* The passes keep to their view, and a view to its own.                   *)
THEOREM WatchInvCorrect == JobWatchSpec => []WatchInv
<1>1. JobWatchInit => WatchInv
  <2> SUFFICES ASSUME JobWatchInit PROVE WatchInv
    OBVIOUS
  <2>1. /\ screen \in {"pending", "foreign"} /\ dying = FALSE
        /\ screen = "pending" => job = "PD" /\ pass = "job"
        /\ screen = "foreign" => job = "R" /\ pass = "alive"
    BY DEF JobWatchInit
  <2>2. inFlight \in BOOLEAN /\ (screen = "foreign" => ~inFlight)
    BY DEF JobWatchInit
  <2>3. {inFlight, dying, done, resolved, gone, cutInGather, cutByTimer} \subseteq BOOLEAN
    BY <2>1, <2>2 DEF JobWatchInit
  <2>4. presses \in 0..MaxPresses
    BY JobWatchAssumption DEF JobWatchInit
  <2> QED BY <2>1, <2>2, <2>3, <2>4 DEF WatchInv, JobWatchTypeOK
<1>2. WatchInv /\ [JobWatchNext]_jobWatchVars => WatchInv'
  <2> SUFFICES ASSUME WatchInv, [JobWatchNext]_jobWatchVars PROVE WatchInv'
    OBVIOUS
  <2> USE JobWatchAssumption DEF WatchInv, JobWatchTypeOK
  <2>1. CASE JobMoves
    BY <2>1 DEF JobMoves
  <2>2. CASE KickRefresh
    BY <2>2 DEF KickRefresh, StartPass
  <2>3. CASE PressRefresh
    BY <2>3 DEF PressRefresh, StartPass
  <2>4. CASE CancelledPassEnds
    BY <2>4 DEF CancelledPassEnds
  <2>5. CASE JobAnswers
    <3>1. /\ pass = "job" /\ screen = "pending" /\ ~dying
          /\ UNCHANGED <<job, screen, dying, resolved, gone, presses, cutInGather, cutByTimer>>
      BY <2>5 DEF JobAnswers
    <3>2. done' \in {done, TRUE} /\ inFlight' \in {inFlight, FALSE} /\ pass' \in {"none", "gather"}
      BY <2>5 DEF JobAnswers, EndPass
    <3> QED BY <3>1, <3>2
  <2>11. CASE JobUnanswered
    BY <2>11 DEF JobUnanswered, EndPass
  <2>6. CASE GatherAnswers
    BY <2>6 DEF GatherAnswers, EndPass
  <2>7. CASE AliveAnswers
    BY <2>7 DEF AliveAnswers, AliveReturns
  <2>12. CASE AliveUnanswered
    BY <2>12 DEF AliveUnanswered, AliveReturns
  <2>8. CASE CountsAnswer
    BY <2>8 DEF CountsAnswer
  <2>9. CASE QuitView
    BY <2>9 DEF QuitView
  <2>10. CASE UNCHANGED jobWatchVars
    BY <2>10 DEF jobWatchVars
  <2> QED BY <2>1, <2>2, <2>3, <2>4, <2>5, <2>6, <2>7, <2>8, <2>9, <2>10, <2>11, <2>12
      DEF JobWatchNext
<1> QED BY <1>1, <1>2, PTL DEF JobWatchSpec, SilentSlurmSpec

(* A job is said to have ended only when Slurm has said so.                *)
THEOREM EndTrue == JobWatchSpec => EndIsTrue
<1>1. ASSUME WatchInv, [JobWatchNext]_jobWatchVars, ~done, done'
      PROVE  IF screen = "pending" THEN job # "PD" ELSE job = "ended"
  <2>1. JobAnswers \/ AliveAnswers \/ AliveUnanswered
    BY <1>1 DEF JobWatchNext, jobWatchVars, JobMoves, KickRefresh, PressRefresh,
                CancelledPassEnds, JobUnanswered, GatherAnswers, CountsAnswer, QuitView
  <2>2. CASE JobAnswers
    BY <1>1, <2>2 DEF WatchInv, JobWatchTypeOK, JobAnswers
  <2>3. CASE AliveAnswers
    <3>1. done' = (done \/ SaysEnded(IF job = "ended" THEN "no" ELSE "yes")) /\ pass = "alive"
      BY <2>3 DEF AliveAnswers, AliveReturns
    <3>2. job = "ended"
      BY <1>1, <3>1 DEF SaysEnded
    <3> QED BY <1>1, <3>1, <3>2 DEF WatchInv
  <2>4. CASE AliveUnanswered
    BY <1>1, <2>4 DEF AliveUnanswered, AliveReturns, SaysEnded
  <2> QED BY <2>1, <2>2, <2>3, <2>4
<1>2. WatchInv /\ [JobWatchNext]_jobWatchVars =>
        [~done /\ done' => IF screen = "pending" THEN job # "PD" ELSE job = "ended"]_jobWatchVars
  BY <1>1
<1> QED BY <1>2, WatchInvCorrect, PTL DEF JobWatchSpec, SilentSlurmSpec, EndIsTrue
=============================================================================
