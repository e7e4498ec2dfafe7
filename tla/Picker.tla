-------------------------------- MODULE Picker --------------------------------
(***************************************************************************)
(* The job picker and the loop around it (tui.py: JobSelectorScreen;       *)
(* SlurmwatchApp._run_job_selector, _open_job).                            *)
(*                                                                         *)
(* A worker asks Slurm for the job list every few seconds and rebuilds the *)
(* rows in place; the next kick cancels it wherever it is suspended.  The  *)
(* reader's keys act on the list in between.  A picked job is resolved     *)
(* while its state goes on changing.                                       *)
(*                                                                         *)
(* A listing is a sequence of [id, st] rows; the columns are left out.     *)
(***************************************************************************)
EXTENDS Naturals, Sequences, SequencesExt

CONSTANTS
    Listings,   \* the job lists squeue may print
    NoJob,      \* the empty string, and a cursor on no job
    MaxChanges  \* bound on changes of the job list

Ids(jobs) == [i \in DOMAIN jobs |-> jobs[i].id]
JobIds == UNION {ToSet(Ids(l)) : l \in Listings}

ASSUME PickerAssumption ==
    /\ \A l \in Listings : l \in Seq(ToSet(l))
    /\ NoJob \notin JobIds /\ MaxChanges \in Nat

VARIABLES
    queue,      \* the job list as it is
    changes,    \* how often it has changed
    list,       \* the screen: self.jobs, the rows of its ListView and its index
                \* (0 when nothing is highlighted), _rendered_key, and whether
                \* _reference is the instant self.jobs was sampled
    poll,       \* _poll_jobs: where it is suspended and its locals
    app,        \* the loop: the screen on top, its result, `selected`, the owner
    collector,  \* _collector
    cut,        \* history: a rebuild was cancelled and none completed since
    cursor,     \* history: the job the reader last put the cursor on
    chosen      \* history: the job Enter opened, and the one highlighted

pickerVars == <<queue, changes, list, poll, app, collector, cut, cursor, chosen>>

IndexOf(jobs, id) == SelectInSeq(jobs, LAMBDA j : j.id = id)
Key(jobs) == ToSet(jobs)

NoPoll == [at |-> "idle", new |-> <<>>, cursor |-> NoJob, prior |-> 0]
Rebuilding == poll.at \in {"clear", "mount"}
NotChosen == [job |-> NoJob, row |-> NoJob]

Table(jobs, anchored, index) ==
    [jobs |-> jobs, rows |-> Ids(jobs), rendered |-> Key(jobs), anchored |-> anchored,
     index |-> IF index \in DOMAIN jobs THEN index ELSE 0]

(* The job a picker opens on.                                              *)
At(jobs, index) == IF index \in DOMAIN jobs THEN jobs[index].id ELSE NoJob

PickerTypeOK ==
    /\ queue \in Listings /\ changes \in 0..MaxChanges
    /\ list.jobs \in Listings /\ list.index \in 0..Len(list.rows)
    /\ {list.anchored, cut} \subseteq BOOLEAN
    /\ poll.at \in {"idle", "query", "answer", "clear", "mount"} /\ poll.new \in Listings \cup {<<>>}
    /\ app.top \in {"picker", "dismissed", "pending?", "running?", "requeued?", "pending",
                    "foreign", "starting", "dashboard", "stopping", "exit"}
    /\ app.result \in JobIds \cup {NoJob}
    /\ collector \in {"none", "new", "started"}
    /\ cursor \in JobIds \cup {NoJob}

PickerInit ==
    /\ queue \in Listings \ {<<>>} /\ changes = 0
    /\ list = Table(queue, TRUE, 1)
    /\ poll = NoPoll
    /\ \E foreign \in BOOLEAN :
          app = [top |-> "picker", result |-> NoJob, selected |-> 1, code |-> 0,
                 foreign |-> foreign]
    /\ collector = "none" /\ cut = FALSE
    /\ cursor = At(queue, 1) /\ chosen = NotChosen

-----------------------------------------------------------------------------
(* Slurm. *)

QueueChanges ==
    /\ changes < MaxChanges
    /\ queue' \in Listings \ {queue}
    /\ changes' = changes + 1
    /\ UNCHANGED <<list, poll, app, collector, cut, cursor, chosen>>

(* scontrol show job: a job the list no longer has may be remembered.      *)
Answers(id) ==
    IF IndexOf(queue, id) > 0 THEN {queue[IndexOf(queue, id)].st, "error"}
    ELSE {"finished", "notFound", "error"}

-----------------------------------------------------------------------------
(* JobSelectorScreen._poll_jobs, from one await to the next.               *)

(* _kick_poll: an exclusive worker, so the one before is cancelled.        *)
KickPoll ==
    /\ app.top = "picker"
    /\ cut' = (cut \/ Rebuilding)
    /\ cursor' = IF Rebuilding THEN NoJob ELSE cursor
    /\ poll' = [NoPoll EXCEPT !.at = "query"]
    /\ UNCHANGED <<queue, changes, list, app, collector, chosen>>

PollFails ==
    /\ poll.at = "query"
    /\ poll' = NoPoll
    /\ UNCHANGED <<queue, changes, list, app, collector, cut, cursor, chosen>>

PollAnswers ==
    /\ poll.at = "query"
    /\ poll' = [poll EXCEPT !.at = "answer", !.new = queue]
    /\ UNCHANGED <<queue, changes, list, app, collector, cut, cursor, chosen>>

(* The same jobs in the same states: the list stays as it is.              *)
PollSame ==
    /\ poll.at = "answer" /\ Key(poll.new) = list.rendered
    /\ poll' = NoPoll
    /\ UNCHANGED <<queue, changes, list, app, collector, cut, cursor, chosen>>

PollClears ==
    /\ poll.at = "answer" /\ Key(poll.new) # list.rendered
    /\ poll' = [poll EXCEPT !.at = "clear", !.prior = list.index,
                            !.cursor = At(list.jobs, list.index)]
    /\ list' = [list EXCEPT !.rows = <<>>, !.index = 0, !.anchored = FALSE]
    /\ UNCHANGED <<queue, changes, app, collector, cut, cursor, chosen>>

PollMounts ==
    /\ poll.at = "clear"
    /\ poll' = [poll EXCEPT !.at = "mount"]
    /\ list' = [list EXCEPT !.rows = Ids(poll.new)]
    /\ UNCHANGED <<queue, changes, app, collector, cut, cursor, chosen>>

(* Where the cursor was, clamped to the end.                               *)
HoldPosition(new) ==
    IF poll.prior > Len(new) THEN Len(new) ELSE poll.prior

(* The cursor goes back to its job, or stays where it was when that job is *)
(* gone; a list nothing was highlighted in keeps what the reader chose.    *)
CursorAfter(new) ==
    CASE poll.cursor = NoJob -> list.index
      [] poll.cursor # NoJob /\ IndexOf(new, poll.cursor) > 0 -> IndexOf(new, poll.cursor)
      [] OTHER -> HoldPosition(new)

PollCommits ==
    /\ poll.at = "mount"
    /\ list' = [jobs |-> poll.new, rows |-> list.rows, rendered |-> Key(poll.new),
                anchored |-> TRUE, index |-> CursorAfter(poll.new)]
    /\ poll' = NoPoll
    /\ cut' = FALSE
    /\ cursor' = IF IndexOf(poll.new, cursor) > 0 THEN cursor ELSE NoJob
    /\ UNCHANGED <<queue, changes, app, collector, chosen>>

-----------------------------------------------------------------------------
(* The keys: the cursor to a row, Enter, Esc.                              *)

MoveCursor ==
    /\ app.top = "picker"
    /\ \E i \in DOMAIN list.rows :
          /\ list' = [list EXCEPT !.index = i]
          /\ cursor' = IF Rebuilding \/ cut THEN NoJob ELSE list.rows[i]
    /\ UNCHANGED <<queue, changes, poll, app, collector, cut, chosen>>

SelectJob ==
    /\ app.top = "picker" /\ list.index \in DOMAIN list.jobs
    /\ app' = [app EXCEPT !.top = "dismissed", !.result = list.jobs[list.index].id]
    /\ chosen' = [job |-> list.jobs[list.index].id, row |-> list.rows[list.index]]
    /\ UNCHANGED <<queue, changes, list, poll, collector, cut, cursor>>

CancelPicker ==
    /\ app.top = "picker"
    /\ app' = [app EXCEPT !.top = "exit", !.code = 0]
    /\ poll' = NoPoll
    /\ UNCHANGED <<queue, changes, list, collector, cut, cursor, chosen>>

-----------------------------------------------------------------------------
(* _run_job_selector and _open_job. *)

SelectedAfter(result) ==
    IF IndexOf(list.jobs, result) > 0 THEN IndexOf(list.jobs, result) ELSE app.selected

StateListed(id) ==
    IF IndexOf(list.jobs, id) > 0 THEN list.jobs[IndexOf(list.jobs, id)].st ELSE "none"

(* The loop adopts the picker's list and its instant together.             *)
ResumeLoop ==
    /\ app.top = "dismissed"
    /\ app' = [app EXCEPT !.selected = SelectedAfter(app.result),
                 !.top = IF StateListed(app.result) = "PD" THEN "pending?" ELSE "running?"]
    /\ poll' = NoPoll
    /\ cut' = (cut \/ Rebuilding)
    /\ UNCHANGED <<queue, changes, list, collector, cursor, chosen>>

GoTo(top) ==
    /\ app' = [app EXCEPT !.top = top, !.code = IF top = "exit" THEN 1 ELSE 0]
    /\ UNCHANGED <<queue, changes, list, poll, cut, cursor, chosen>>

ResolvePending ==
    /\ app.top = "pending?" /\ UNCHANGED collector
    /\ \E a \in Answers(app.result) :
          CASE a = "PD" -> GoTo("pending")
            [] a \in {"R", "finished"} -> GoTo("running?")
            [] OTHER -> GoTo("exit")

ResolveRunning ==
    /\ app.top = "running?"
    /\ \E a \in Answers(app.result) :
          CASE a = "R" /\ app.foreign -> GoTo("foreign") /\ UNCHANGED collector
            [] a = "R" /\ ~app.foreign -> GoTo("starting") /\ collector' = "new"
            [] a \in {"PD", "finished"} -> GoTo("requeued?") /\ UNCHANGED collector
            [] OTHER -> GoTo("exit") /\ UNCHANGED collector

ResolveRequeued ==
    /\ app.top = "requeued?" /\ UNCHANGED collector
    /\ \E a \in Answers(app.result) :
          IF a = "PD" THEN GoTo("pending") ELSE GoTo("exit")

StartCollector ==
    /\ app.top = "starting"
    /\ \/ GoTo("dashboard") /\ collector' = "started"
       \/ GoTo("exit") /\ UNCHANGED collector

(* The view over the picker is dismissed: a new picker over the same list. *)
Picking ==
    /\ app' = [app EXCEPT !.top = "picker", !.result = NoJob]
    /\ list' = Table(list.jobs, list.anchored, app.selected)
    /\ cut' = ~list.anchored
    /\ cursor' = IF IndexOf(list.jobs, app.result) > 0 THEN app.result ELSE NoJob
    /\ UNCHANGED <<queue, changes, poll, chosen>>

CloseView ==
    /\ app.top \in {"pending", "foreign"} /\ Picking
    /\ UNCHANGED collector

CloseDashboard ==
    /\ app.top = "dashboard" /\ GoTo("stopping") /\ UNCHANGED collector

StopCollector ==
    /\ app.top = "stopping" /\ Picking /\ collector' = "none"

(* on_unmount: whatever collector is left is stopped.                      *)
Unmount ==
    /\ app.top = "exit" /\ collector # "none"
    /\ collector' = "none"
    /\ UNCHANGED <<queue, changes, list, poll, app, cut, cursor, chosen>>

PickerNext ==
    \/ QueueChanges
    \/ KickPoll \/ PollFails \/ PollAnswers
    \/ PollSame \/ PollClears \/ PollMounts \/ PollCommits
    \/ MoveCursor \/ SelectJob \/ CancelPicker
    \/ ResumeLoop \/ ResolvePending \/ ResolveRunning \/ ResolveRequeued
    \/ StartCollector \/ CloseView \/ CloseDashboard \/ StopCollector \/ Unmount

PickerSpec == PickerInit /\ [][PickerNext]_pickerVars

-----------------------------------------------------------------------------
(* Properties. *)

(* Once a rebuild is over and none was cancelled half way, what the list   *)
(* shows, what Enter reads, what the next poll compares with and the       *)
(* instant the elapsed times count from are all of the same query.         *)
TableIsOneSample ==
    app.top = "picker" /\ ~Rebuilding /\ ~cut =>
        /\ list.rows = Ids(list.jobs)
        /\ list.rendered = Key(list.jobs)
        /\ list.anchored

(* The cursor is on the job the reader put it on, or came back from, for   *)
(* as long as that job stays listed, whatever appears, ends or moves       *)
(* around it and however often a view is opened in between.                *)
CursorFollowsJob ==
    app.top = "picker" /\ ~Rebuilding /\ ~cut /\ cursor # NoJob =>
        list.index > 0 /\ list.rows[list.index] = cursor

(* What the list shows, and where its cursor is, can be relied on.         *)
ListIsTrue == TableIsOneSample /\ CursorFollowsJob

(* "never a row that names a different job than it shows": Enter opens the *)
(* job that is highlighted.                                                *)
ChosenIsHighlighted == chosen.job = chosen.row
=============================================================================
