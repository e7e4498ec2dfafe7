------------------------------- MODULE JobWatch -------------------------------
(***************************************************************************)
(* The two views of a job that has no live gauges (tui.py): PendingScreen, *)
(* for a job still in the queue, and ForeignJobScreen, for a running job   *)
(* of another user.  Each is refreshed by passes of Slurm queries; a timer *)
(* and the r key start them, both as exclusive workers, so that a new pass *)
(* cancels the one before.                                                 *)
(*                                                                         *)
(* asyncio decides when a cancelled pass runs its finally clause: one that *)
(* awaits a single query runs it before the new pass takes its first step, *)
(* one that awaits a gather() only after, because the gather's children    *)
(* are cancelled first.                                                    *)
(***************************************************************************)
EXTENDS Naturals

CONSTANT MaxPresses     \* bound on r keys

ASSUME JobWatchAssumption == MaxPresses \in Nat

VARIABLES
    job,        \* the job in Slurm: "PD", "R" or "ended"
    screen,     \* "pending" or "foreign"
    pass,       \* the await the running pass is suspended at
    inFlight,   \* _refresh_in_flight
    dying,      \* a cancelled pass has its finally clause still to run
    done,       \* _done: the notice is up and the passes are over
    resolved,   \* PendingView.resolved: the panels are filled
    gone,       \* the screen has been dismissed
    presses,    \* r keys so far
    cutInGather,\* history: r was pressed while a pass awaited its gather
    cutByTimer  \* history: the timer has cancelled a pass

jobWatchVars == <<job, screen, pass, inFlight, dying, done, resolved, gone, presses,
                  cutInGather, cutByTimer>>

JobWatchTypeOK ==
    /\ job \in {"PD", "R", "ended"} /\ screen \in {"pending", "foreign"}
    /\ pass \in {"none", "job", "gather", "alive", "counts"}
    /\ {inFlight, dying, done, resolved, gone, cutInGather, cutByTimer} \subseteq BOOLEAN
    /\ presses \in 0..MaxPresses

(* on_mount has started the first pass.                                    *)
JobWatchInit ==
    /\ screen \in {"pending", "foreign"}
    /\ job = IF screen = "pending" THEN "PD" ELSE "R"
    /\ pass = IF screen = "pending" THEN "job" ELSE "alive"
    /\ inFlight = (screen = "pending") /\ dying = FALSE
    /\ done = FALSE /\ resolved = FALSE /\ gone = FALSE /\ presses = 0
    /\ cutInGather = FALSE /\ cutByTimer = FALSE

-----------------------------------------------------------------------------
(* The job starts, ends, or is requeued. *)
JobMoves ==
    /\ job # "ended"
    /\ job' \in {"PD", "R", "ended"} \ {job}
    /\ UNCHANGED <<screen, pass, inFlight, dying, done, resolved, gone, presses,
                   cutInGather, cutByTimer>>

(* run_worker(self._refresh(), exclusive=True).                            *)
StartPass ==
    /\ dying' = (pass = "gather")
    /\ pass' = IF screen = "pending" THEN "job" ELSE "alive"
    /\ inFlight' = (screen = "pending")

(* Mutant: the tick does not look whether a pass is running.               *)
TimerMayCut == ~done

(* Mutant: only the pending view has a timer.                              *)
PendingTimer == ~done /\ screen = "pending" /\ ~inFlight

TimerMayStart == ~done /\ (screen = "pending" => ~inFlight)

(* The _kick_refresh of each screen.  Only the pending one skips a tick.   *)
KickRefresh ==
    /\ ~gone /\ ~dying /\ TimerMayStart
    /\ StartPass
    /\ cutByTimer' = (cutByTimer \/ pass # "none")
    /\ UNCHANGED <<job, screen, done, resolved, gone, presses, cutInGather>>

(* action_refresh *)
PressRefresh ==
    /\ ~gone /\ ~dying /\ ~done /\ presses < MaxPresses
    /\ StartPass
    /\ presses' = presses + 1
    /\ cutInGather' = (cutInGather \/ pass = "gather")
    /\ UNCHANGED <<job, screen, done, resolved, gone, cutByTimer>>

(* The finally clause of _refresh in a pass that was cancelled: in the     *)
(* next turn of the event loop, so before any key, tick or answer.         *)
CancelledPassEnds ==
    /\ dying
    /\ dying' = FALSE /\ inFlight' = FALSE
    /\ UNCHANGED <<job, screen, pass, done, resolved, gone, presses,
                   cutInGather, cutByTimer>>

EndPass == pass' = "none" /\ inFlight' = FALSE

(* _refresh_once: what resolve_pending_job answers.  A job that no longer  *)
(* is pending, or is not known, is over for this view.                     *)
JobAnswers ==
    /\ pass = "job" /\ ~dying
    /\ \/ job = "PD" /\ pass' = "gather" /\ UNCHANGED <<inFlight, done>>
       \/ job # "PD" /\ EndPass /\ done' = TRUE
    /\ UNCHANGED <<job, screen, dying, resolved, gone, presses, cutInGather, cutByTimer>>

(* It fails or times out, at any pass and as often as Slurm pleases: the   *)
(* pass returns and leaves the view as it was, so unfilled if it was.      *)
JobUnanswered ==
    /\ pass = "job" /\ ~dying
    /\ EndPass
    /\ UNCHANGED <<job, screen, dying, done, resolved, gone, presses, cutInGather, cutByTimer>>

(* The four queries have answered, or one failed and what the last pass    *)
(* found is carried forward: the view is filled either way.                *)
GatherAnswers ==
    /\ pass = "gather"
    /\ EndPass /\ resolved' = TRUE
    /\ UNCHANGED <<job, screen, dying, done, gone, presses,
                   cutInGather, cutByTimer>>

(* Mutant: a query without an answer is taken for the end of the job.      *)
SaysEndedOnDoubt(alive) == alive \in {"no", "unknown"}
SaysEnded(alive) == alive = "no"

(* ForeignJobScreen._refresh: is_job_active, then an array's task counts.  *)
(* A requeued job is active.                                               *)
AliveReturns(alive) ==
    /\ pass = "alive"
    /\ done' = (done \/ SaysEnded(alive))
    /\ pass' \in IF SaysEnded(alive) THEN {"none"} ELSE {"none", "counts"}
    /\ UNCHANGED <<job, screen, inFlight, dying, resolved, gone, presses,
                   cutInGather, cutByTimer>>

AliveAnswers == AliveReturns(IF job = "ended" THEN "no" ELSE "yes")

(* No answer, or one that says nothing about the job.                      *)
AliveUnanswered == AliveReturns("unknown")

CountsAnswer ==
    /\ pass = "counts" /\ pass' = "none"
    /\ UNCHANGED <<job, screen, inFlight, dying, done, resolved, gone, presses,
                   cutInGather, cutByTimer>>

(* action_quit: the screen is popped and its workers are cancelled.        *)
QuitView ==
    /\ ~gone
    /\ gone' = TRUE /\ pass' = "none" /\ dying' = FALSE /\ inFlight' = FALSE
    /\ UNCHANGED <<job, screen, done, resolved, presses, cutInGather, cutByTimer>>

JobWatchNext ==
    \/ JobMoves \/ KickRefresh \/ PressRefresh \/ CancelledPassEnds
    \/ JobAnswers \/ JobUnanswered \/ GatherAnswers
    \/ AliveAnswers \/ AliveUnanswered \/ CountsAnswer \/ QuitView

(* Timers go on ticking and queries return, within SLURM_CMD_TIMEOUT at    *)
(* the latest, with an answer or without: a pass that is left alone ends.  *)
(* Nothing says that one ends before the next tick.                        *)
JobWatchFairness ==
    /\ WF_jobWatchVars(KickRefresh) /\ WF_jobWatchVars(CancelledPassEnds)
    /\ WF_jobWatchVars(JobAnswers \/ JobUnanswered) /\ WF_jobWatchVars(GatherAnswers)
    /\ WF_jobWatchVars(AliveAnswers \/ AliveUnanswered) /\ WF_jobWatchVars(CountsAnswer)

(* What has to be assumed of Slurm, and nothing in the code provides: of   *)
(* queries that return again and again, not all fail for ever.             *)
SlurmAnswers ==
    /\ []<><<JobUnanswered>>_jobWatchVars => []<><<JobAnswers>>_jobWatchVars
    /\ []<><<AliveUnanswered>>_jobWatchVars => []<><<AliveAnswers>>_jobWatchVars

(* Slurm may stay silent for ever.                                         *)
SilentSlurmSpec == JobWatchInit /\ [][JobWatchNext]_jobWatchVars /\ JobWatchFairness

JobWatchSpec == SilentSlurmSpec /\ SlurmAnswers

-----------------------------------------------------------------------------
(* Properties. *)

(* The job's end is announced only when Slurm has said that it ended (or,  *)
(* in the pending view, that it no longer waits): never on a query that    *)
(* timed out, and never for a job that was merely requeued.                *)
EndIsTrue ==
    [][~done /\ done' => IF screen = "pending" THEN job # "PD" ELSE job = "ended"]_jobWatchVars

(* "a placeholder that correctly says 'still working' must not be able to  *)
(* say it indefinitely": the pending view is filled or says that the job   *)
(* left the queue, unless r cut a gather.  However slow the gathered       *)
(* queries are, and however often resolve_pending_job fails, as long as it *)
(* is answered in the end (SlurmAnswers): without that the placeholder     *)
(* stays, and TLC refutes this under SilentSlurmSpec.                      *)
PlaceholderEnds ==
    screen = "pending" => ([]~cutInGather => <>(resolved \/ done \/ gone))

(* The same promise, with no exception for the r key.                      *)
PlaceholderAlwaysEnds == screen = "pending" => <>(resolved \/ done \/ gone)

(* A job that has ended is said to have ended, as long as the passes of    *)
(* the foreign view are faster than its timer and is_job_active is         *)
(* answered in the end (SlurmAnswers).                                     *)
ForeignEndIsSaid ==
    screen = "foreign" => (<>(job = "ended") /\ []~cutByTimer => <>(done \/ gone))
=============================================================================
