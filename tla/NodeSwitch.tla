----------------------------- MODULE NodeSwitch -----------------------------
(***************************************************************************)
(* The dashboard's node switcher (tui.py, DashboardScreen) together with   *)
(* the stream it reads another node through (remote.py).                   *)
(*                                                                         *)
(* Four actors interleave at the awaits of the code:                       *)
(*   - the poll task, _poll_loop / _read_remote / _stream_backoff, whose   *)
(*     program counter is pc;                                              *)
(*   - the reader's keys, which run _set_node and action_quit;             *)
(*   - the spinner timer, which runs _tick_switch;                         *)
(*   - the world: the remote stream process, the clock and the job.        *)
(*                                                                         *)
(* A frame is represented by the node it was collected on, elapsed time by *)
(* counters that saturate where the code stops telling values apart.       *)
(***************************************************************************)
EXTENDS Naturals

CONSTANTS
    Nodes,          \* the job's nodes, the local one included
    Local,          \* the node this process runs on
    NULL,           \* Python's None, and the empty string of _stream_error
    SshAllowed,     \* an ssh client exists and SLURMWATCH_NO_SSH is unset
    HealthModes,    \* the ways a remote node may behave, sets of Capability
    ErrTexts,       \* what a dying stream may leave on stderr, subset of Text
    MaxParseFails,  \* _STREAM_MAX_PARSE_FAILS
    FailCap,        \* where the backoff stops growing: _stream_fails saturates
    StuckS,         \* _SWITCH_STUCK_S, in clock ticks
    SilenceS,       \* _stream_silence_deadline, in clock ticks
    MaxSwitches     \* bound on the reader's node switches

(* "frame": a parsable line; "garbage": an unparsable or over-long line;   *)
(* "quiet": no line within the read timeout; "die": the stream ends;       *)
(* "nolaunch": the launch fails or runs into _STREAM_LAUNCH_TIMEOUT.       *)
Capability == {"frame", "garbage", "quiet", "die", "nolaunch"}

(* Families of stderr text stream_error_is_permanent tells apart: nothing  *)
(* was written; a step that may work later; a step or remote python that   *)
(* never will; an ssh connection that never came up.                       *)
Text == {"none", "transient", "permanent", "sshConnect"}

(* What _stream_error says: which node failed, and how.                    *)
Reason == [of: Nodes, text: Text \cup {"stalled"}]

ASSUME ConstAssumption ==
    /\ NULL \notin Nodes \cup Reason
    /\ SshAllowed \in BOOLEAN
    /\ HealthModes \subseteq SUBSET Capability
    /\ ErrTexts \subseteq Text
    /\ MaxParseFails \in Nat \ {0}
    /\ FailCap \in Nat \ {0}
    /\ StuckS \in Nat
    /\ SilenceS \in Nat
    /\ MaxSwitches \in Nat

(* _STREAM_SILENCE_TIMEOUT is derived from _SWITCH_STUCK_S, one step past it. *)
ASSUME SilenceAfterStuck == StuckS < SilenceS

VARIABLES
    health,         \* what each node is able to do, fixed per behaviour
    jobGone,        \* collector.job_ended
    \* the poll task
    pc,             \* the await it is suspended at
    node,           \* its local variable `node`
    then,           \* where _stop_stream returns to
    \* the stream
    streamProc,     \* _stream_proc: the node its child runs on
    streamNode,     \* _stream_node
    running,        \* live stream children per node
    transport,      \* remote._STREAM_TRANSPORT
    sshBlocked,     \* remote._SSH_STREAM_BLOCKED
    fails,          \* _stream_fails
    err,            \* _stream_error: whose, and what
    gaveUp,         \* _stream_gave_up
    parseFails,     \* _stream_parse_fails
    silent,         \* ticks since _stream_silent_since
    \* the screen
    selected,       \* _selected_node
    cache,          \* _node_cache
    view,           \* latest_snapshot
    target,         \* _switch_target
    waited,         \* ticks since _switch_started
    dimmed,         \* the body wears the "switching" class
    spinner,        \* the spinner timer is running, not paused
    banner,         \* the SwitchBanner's display, stuck, ended and reason
    jobEnded,       \* _job_ended
    mounted,        \* "up", then "closing" (on_unmount), then "closed"
    \* bookkeeping
    switches,       \* node switches so far
    owed            \* history: the node whose failure is not slept off yet

pollVars == <<pc, node, then>>
streamVars == <<streamProc, streamNode, running>>
rungVars == <<transport, sshBlocked>>
retryVars == <<fails, err, gaveUp, parseFails, silent, owed>>
switchVars == <<target, waited, dimmed, spinner, banner>>
viewVars == <<selected, cache, view>>
lifeVars == <<jobEnded, mounted, jobGone, health, switches>>
vars == <<pollVars, streamVars, rungVars, retryVars, switchVars, viewVars, lifeVars>>

(* _stream_silent_since is None: no frame is overdue. *)
NotSilent == SilenceS + 1

StreamTypes ==
    /\ health \in [Nodes -> SUBSET Capability]
    /\ pc \in {"top", "reap", "local", "launch", "read", "stderr", "backoff",
               "paced", "done"}
    /\ node \in Nodes
    /\ then \in {"local", "launch", "backoff"}
    /\ streamProc \in Nodes \cup {NULL}
    /\ streamNode \in Nodes \cup {NULL}
    /\ running \in [Nodes -> Nat]
    /\ transport \in [Nodes -> {"none", "ssh", "step"}]
    /\ sshBlocked \in SUBSET Nodes

RetryTypes ==
    /\ fails \in 0..FailCap
    /\ err \in Reason \cup {NULL}
    /\ gaveUp \in BOOLEAN
    /\ parseFails \in 0..MaxParseFails
    /\ silent \in 0..NotSilent
    /\ owed \in Nodes \cup {NULL}

ScreenTypes ==
    /\ selected \in Nodes
    /\ cache \in [Nodes -> Nodes \cup {Local, NULL}]
    /\ view \in Nodes \cup {Local, NULL}
    /\ target \in Nodes \cup {NULL}
    /\ waited \in 0..StuckS + 1
    /\ dimmed \in BOOLEAN
    /\ spinner \in BOOLEAN
    /\ banner \in [display: BOOLEAN, stuck: BOOLEAN, ended: BOOLEAN,
                   reason: Reason \cup {NULL}]
    /\ jobEnded \in BOOLEAN
    /\ jobGone \in BOOLEAN
    /\ mounted \in {"up", "closing", "closed"}
    /\ switches \in 0..MaxSwitches

TypeOK == StreamTypes /\ RetryTypes /\ ScreenTypes

-----------------------------------------------------------------------------
(* The stream's child process. *)

(* Mutant: the handle is forgotten and the child left running.             *)
StopStreamNoKill ==
    /\ streamProc' = NULL /\ streamNode' = NULL
    /\ parseFails' = 0 /\ silent' = NotSilent
    /\ UNCHANGED running

(* _stop_stream up to its await: the handle is dropped, the child killed.  *)
StopStream ==
    /\ streamProc' = NULL
    /\ streamNode' = NULL
    /\ parseFails' = 0
    /\ silent' = NotSilent
    /\ running' = IF streamProc = NULL \/ running[streamProc] = 0
                  THEN running
                  ELSE [running EXCEPT ![streamProc] = @ - 1]

(* Whether retrying a stream that died with this text could ever succeed.  *)
ErrorIsPermanent(text, rung) ==
    \/ text = "permanent"
    \/ text = "sshConnect" /\ rung = "ssh"

(* open_stream prefers a step with the GPU, then ssh, then a step without. *)
RungFor(gpu, n) ==
    IF ~gpu /\ SshAllowed /\ n \notin sshBlocked THEN "ssh" ELSE "step"

(* retry_other_stream_transport: ssh died here and the step is untried.    *)
OtherRungUntried(n) == transport[n] = "ssh" /\ n \notin sshBlocked

-----------------------------------------------------------------------------
(* What the screen shows. *)

(* _begin_switch.  It leaves banner.reason to the next escalation.         *)
BeginSwitch(n) ==
    /\ target' = n
    /\ waited' = 0
    /\ banner' = [banner EXCEPT !.display = TRUE, !.stuck = FALSE]
    /\ dimmed' = TRUE
    /\ spinner' = TRUE

(* Mutant: the target is not cleared.                                      *)
EndSwitchKeepsTarget ==
    /\ banner' = [banner EXCEPT !.display = FALSE]
    /\ dimmed' = FALSE /\ spinner' = FALSE
    /\ UNCHANGED <<target, waited>>

(* _end_switch. *)
EndSwitch ==
    /\ target' = NULL
    /\ waited' = 0
    /\ banner' = [banner EXCEPT !.display = FALSE]
    /\ dimmed' = FALSE
    /\ spinner' = FALSE

(* _show: a frame collected on `origin`, requested for node n.             *)
Show(origin, n) ==
    /\ cache' = [cache EXCEPT ![n] = origin]
    /\ UNCHANGED selected
    /\ IF n # selected
       THEN UNCHANGED <<view, switchVars>>
       ELSE /\ view' = origin
            /\ IF target # NULL THEN EndSwitch ELSE UNCHANGED switchVars

-----------------------------------------------------------------------------
(* __init__: the screen before anything is mounted.                        *)
Unmounted ==
    /\ health \in [Nodes -> HealthModes]
    /\ \A n \in Nodes \cap {Local} : health[n] = CHOOSE h \in HealthModes : TRUE
    /\ jobGone = FALSE
    /\ selected \in IF Local \in Nodes THEN {Local} ELSE Nodes
    /\ pc = "top" /\ node = selected /\ then = "local"
    /\ streamProc = NULL /\ streamNode = NULL
    /\ running = [n \in Nodes |-> 0]
    /\ transport = [n \in Nodes |-> "none"]
    /\ sshBlocked = {}
    /\ fails = 0 /\ err = NULL /\ gaveUp = FALSE /\ parseFails = 0
    /\ silent = NotSilent /\ owed = NULL
    /\ cache = [n \in Nodes |-> NULL]
    /\ view = NULL
    /\ waited = 0
    /\ jobEnded = FALSE /\ mounted = "up" /\ switches = 0

(* Mutant: on_mount does not announce the first attach.                    *)
OnMountSilent ==
    /\ target = NULL /\ dimmed = FALSE /\ spinner = FALSE
    /\ banner = [display |-> FALSE, stuck |-> FALSE, ended |-> FALSE, reason |-> NULL]

(* on_mount: the first attach to a remote node is announced like a switch. *)
OnMount ==
    /\ target = IF selected = Local THEN NULL ELSE selected
    /\ dimmed = (selected # Local)
    /\ spinner = (selected # Local)
    /\ banner = [display |-> selected # Local, stuck |-> FALSE, ended |-> FALSE,
                 reason |-> NULL]

(* The local node if the job has it, else some other one.                  *)
Init == Unmounted /\ OnMount

-----------------------------------------------------------------------------
(* The reader. *)

(* Mutant: the guard on _job_ended (#50) is missing.                       *)
SetNodeAfterEnd(n) ==
    /\ mounted = "up" /\ switches < MaxSwitches
    /\ n # selected
    /\ selected' = n
    /\ fails' = 0 /\ err' = NULL /\ gaveUp' = FALSE /\ parseFails' = 0
    /\ owed' = NULL
    /\ BeginSwitch(n)
    /\ view' = IF cache[n] # NULL THEN cache[n] ELSE view
    /\ switches' = switches + 1
    /\ UNCHANGED <<pollVars, streamVars, rungVars, silent, cache,
                   jobEnded, mounted, jobGone, health>>

(* _set_node, reached from the arrow keys and a committed node number.     *)
SetNode(n) ==
    /\ mounted = "up" /\ switches < MaxSwitches
    /\ ~jobEnded
    /\ n # selected
    /\ selected' = n
    /\ fails' = 0 /\ err' = NULL /\ gaveUp' = FALSE /\ parseFails' = 0
    /\ owed' = NULL
    /\ BeginSwitch(n)
    /\ view' = IF cache[n] # NULL THEN cache[n] ELSE view
    /\ switches' = switches + 1
    /\ UNCHANGED <<pollVars, streamVars, rungVars, silent, cache,
                   jobEnded, mounted, jobGone, health>>

(* action_quit: the screen is dismissed and on_unmount cancels the task.   *)
Quit ==
    /\ mounted = "up"
    /\ mounted' = "closing"
    /\ UNCHANGED <<pollVars, streamVars, rungVars, retryVars, switchVars,
                   viewVars, jobEnded, jobGone, health, switches>>

(* on_unmount once the cancelled task is joined: kill the stream and go.   *)
FinishUnmount ==
    /\ mounted = "closing" /\ pc = "done"
    /\ StopStream
    /\ mounted' = "closed"
    /\ UNCHANGED <<pollVars, rungVars, fails, err, gaveUp, owed, switchVars,
                   viewVars, jobEnded, jobGone, health, switches>>

-----------------------------------------------------------------------------
(* The poll task: one action per stretch of code between two awaits.       *)

At(label) == pc = label /\ mounted = "up"

(* CancelledError lands at whatever await the task is suspended at; a probe *)
(* or a child still being spawned is killed on the way out.                 *)
PollCancelled ==
    /\ mounted = "closing" /\ pc # "done"
    /\ pc' = "done"
    /\ UNCHANGED <<node, then, streamVars, rungVars, retryVars, switchVars,
                   viewVars, lifeVars>>

(* _stream_backoff: count the failure, then sleep it off.                  *)
EnterBackoff ==
    /\ pc' = "backoff"
    /\ fails' = IF fails < FailCap THEN fails + 1 ELSE FailCap

(* _show_job_ended. *)
PollJobEnded ==
    /\ At("top") /\ jobGone
    /\ jobEnded' = TRUE
    /\ target' = NULL /\ waited' = 0 /\ dimmed' = FALSE /\ spinner' = FALSE
    /\ banner' = [banner EXCEPT !.display = TRUE, !.ended = TRUE]
    /\ pc' = "done"
    /\ UNCHANGED <<node, then, streamVars, rungVars, retryVars, viewVars,
                   mounted, jobGone, health, switches>>

(* The head of an iteration without a stream of the selected node: whatever *)
(* stream there is goes, and a node given up is not attached again.         *)
PollTop ==
    /\ At("top") /\ ~jobGone
    /\ selected = Local \/ streamNode # selected
    /\ node' = selected
    /\ then' = IF selected = Local THEN "local" ELSE "launch"
    /\ pc' = IF streamProc # NULL THEN "reap"
             ELSE IF selected = Local THEN "local"
             ELSE IF gaveUp THEN "paced" ELSE "launch"
    /\ StopStream
    /\ UNCHANGED <<fails, err, gaveUp, owed, viewVars, switchVars, rungVars, lifeVars>>

(* Mutant: any open stream is read for the selected node.                  *)
PollResumeAnyStream ==
    /\ At("top") /\ ~jobGone
    /\ selected # Local /\ streamNode # NULL
    /\ node' = selected
    /\ pc' = "read"
    /\ UNCHANGED <<then, streamVars, rungVars, retryVars, switchVars, viewVars,
                   lifeVars>>

(* The selected node is the one streamed already: go and read a line.      *)
PollResume ==
    /\ At("top") /\ ~jobGone
    /\ selected # Local /\ streamNode = selected
    /\ node' = selected
    /\ pc' = "read"
    /\ UNCHANGED <<then, streamVars, rungVars, retryVars, switchVars, viewVars,
                   lifeVars>>

(* _stop_stream returns: the child is reaped, or the bounded wait gave up. *)
Reaped ==
    /\ At("reap")
    /\ IF then = "backoff"
       THEN EnterBackoff
       ELSE /\ pc' = IF then = "launch" /\ gaveUp THEN "paced" ELSE then
            /\ UNCHANGED fails
    /\ UNCHANGED <<node, then, streamVars, rungVars, err, gaveUp, parseFails,
                   silent, owed, switchVars, viewVars, lifeVars>>

(* next_snapshot: a frame of the local collector, or 0.3 s without one.    *)
LocalFrame ==
    /\ At("local")
    /\ Show(Local, node)
    /\ pc' = "top"
    /\ UNCHANGED <<node, then, streamVars, rungVars, retryVars, lifeVars>>

LocalTimeout ==
    /\ At("local")
    /\ pc' = "top"
    /\ UNCHANGED <<node, then, streamVars, rungVars, retryVars, switchVars,
                   viewVars, lifeVars>>

(* The sleep that paces the loop once the node is given up ends.            *)
PacedDone ==
    /\ At("paced")
    /\ pc' = "top"
    /\ UNCHANGED <<node, then, streamVars, rungVars, retryVars, switchVars,
                   viewVars, lifeVars>>

(* open_stream: the GPU probe answers, the rung is chosen, the child runs. *)
LaunchOk(gpu) ==
    /\ At("launch")
    /\ running' = [running EXCEPT ![node] = @ + 1]
    /\ transport' = [transport EXCEPT ![node] = RungFor(gpu, node)]
    /\ streamProc' = node
    /\ streamNode' = node
    /\ pc' = "read"
    /\ UNCHANGED <<node, then, sshBlocked, retryVars, switchVars, viewVars, lifeVars>>

(* open_stream fails or is cut off by _STREAM_LAUNCH_TIMEOUT.              *)
LaunchFails ==
    /\ At("launch") /\ "nolaunch" \in health[node]
    /\ streamProc' = NULL /\ streamNode' = NULL
    /\ EnterBackoff
    /\ owed' = node
    /\ UNCHANGED <<node, then, running, rungVars, err, gaveUp, parseFails, silent,
                   switchVars, viewVars, lifeVars>>

(* A stream that failed as a source of frames: stop it, then back off.     *)
Retire ==
    /\ StopStream
    /\ owed' = node
    /\ then' = "backoff"
    /\ pc' = "reap"
    /\ UNCHANGED fails

Alive == streamProc # NULL /\ running[streamProc] > 0

(* A parsed frame: it resets the retry counters, whoever is selected now.  *)
ReadFrame ==
    /\ At("read") /\ Alive /\ "frame" \in health[node]
    /\ fails' = 0 /\ parseFails' = 0 /\ silent' = NotSilent
    /\ IF selected = node THEN Show(streamProc, node)
       ELSE UNCHANGED <<viewVars, switchVars>>
    /\ pc' = "top"
    /\ UNCHANGED <<node, then, streamVars, rungVars, err, gaveUp, owed, lifeVars>>

(* An unparsable line, or one longer than the pipe's limit.                *)
ReadGarbage ==
    /\ At("read") /\ Alive /\ "garbage" \in health[node]
    /\ IF parseFails + 1 >= MaxParseFails
       THEN Retire
       ELSE /\ parseFails' = parseFails + 1
            /\ pc' = "top"
            /\ UNCHANGED <<then, streamVars, silent, fails, owed>>
    /\ UNCHANGED <<node, rungVars, err, gaveUp, viewVars, switchVars, lifeVars>>

(* Mutant: a read timeout is nothing, so silence is never noticed.         *)
ReadQuietUntimed ==
    /\ At("read") /\ Alive /\ "quiet" \in health[node]
    /\ pc' = "top"
    /\ UNCHANGED <<node, then, streamVars, rungVars, retryVars, viewVars,
                   switchVars, lifeVars>>

(* readline times out: start the silence clock, or act on it.              *)
ReadQuiet ==
    /\ At("read") /\ Alive /\ "quiet" \in health[node]
    /\ IF silent # NotSilent /\ silent >= SilenceS
       THEN /\ err' = [of |-> node, text |-> "stalled"]
            /\ Retire
       ELSE /\ silent' = IF silent = NotSilent THEN 0 ELSE silent
            /\ pc' = "top"
            /\ UNCHANGED <<then, streamVars, parseFails, fails, owed, err>>
    /\ UNCHANGED <<node, rungVars, gaveUp, viewVars, switchVars, lifeVars>>

(* End of file: ask stderr why, which is another await.                    *)
ReadEof ==
    /\ At("read") /\ ~Alive
    /\ pc' = "stderr"
    /\ owed' = node
    /\ UNCHANGED <<node, then, streamVars, rungVars, fails, err, gaveUp, parseFails,
                   silent, switchVars, viewVars, lifeVars>>

(* The stderr text arrives: record it, give the other rung its turn, or    *)
(* give up; then stop and back off.                                        *)
ReadStderr(text) ==
    /\ At("stderr")
    /\ err' = IF text = "none" THEN err ELSE [of |-> node, text |-> text]
    /\ IF ErrorIsPermanent(text, transport[node])
       THEN IF OtherRungUntried(node)
            THEN /\ sshBlocked' = sshBlocked \cup {node}
                 /\ transport' = [transport EXCEPT ![node] = "none"]
                 /\ UNCHANGED gaveUp
            ELSE gaveUp' = TRUE /\ UNCHANGED rungVars
       ELSE UNCHANGED <<rungVars, gaveUp>>
    /\ Retire
    /\ UNCHANGED <<node, viewVars, switchVars, lifeVars>>

(* The backoff has elapsed, or ended early because the reader left.        *)
BackoffDone ==
    /\ At("backoff")
    /\ pc' = "top"
    /\ owed' = NULL
    /\ UNCHANGED <<node, then, streamVars, rungVars, fails, err, gaveUp, parseFails,
                   silent, switchVars, viewVars, lifeVars>>

PollStep ==
    \/ PollJobEnded \/ PollTop \/ PollResume
    \/ Reaped \/ LocalFrame \/ LocalTimeout \/ PacedDone
    \/ \E gpu \in BOOLEAN : LaunchOk(gpu)
    \/ LaunchFails
    \/ ReadFrame \/ ReadGarbage \/ ReadQuiet \/ ReadEof
    \/ \E text \in ErrTexts : ReadStderr(text)
    \/ BackoffDone

-----------------------------------------------------------------------------
(* Mutant: the banner turns to the warning over a body that stays dimmed.  *)
TickSwitchStaysDim ==
    /\ mounted = "up" /\ spinner
    /\ target # NULL /\ waited > StuckS
    /\ banner' = [banner EXCEPT !.stuck = TRUE, !.reason = err]
    /\ spinner' = FALSE
    /\ UNCHANGED <<dimmed, target, waited, pollVars, streamVars, rungVars,
                   retryVars, viewVars, lifeVars>>

(* The spinner timer: _tick_switch and _mark_switch_stuck.                 *)
TickSwitch ==
    /\ mounted = "up" /\ spinner
    /\ target # NULL /\ waited > StuckS
    /\ banner' = [banner EXCEPT !.stuck = TRUE, !.reason = err]
    /\ IF banner.stuck
       THEN UNCHANGED <<dimmed, spinner>>
       ELSE dimmed' = FALSE /\ spinner' = FALSE
    /\ UNCHANGED <<target, waited, pollVars, streamVars, rungVars, retryVars,
                   viewVars, lifeVars>>

-----------------------------------------------------------------------------
(* The world. *)

(* Time passes for the switch watchdog and for the silence clock.          *)
ClockTick ==
    /\ \/ target # NULL /\ waited <= StuckS
       \/ silent < SilenceS
    /\ waited' = IF target # NULL /\ waited <= StuckS THEN waited + 1 ELSE waited
    /\ silent' = IF silent < SilenceS THEN silent + 1 ELSE silent
    /\ UNCHANGED <<pollVars, streamVars, rungVars, fails, err, gaveUp, parseFails,
                   owed, target, dimmed, spinner, banner, viewVars, lifeVars>>

(* The remote child exits. *)
StreamDies(n) ==
    /\ running[n] > 0 /\ "die" \in health[n]
    /\ running' = [running EXCEPT ![n] = @ - 1]
    /\ UNCHANGED <<pollVars, streamProc, streamNode, rungVars, retryVars, switchVars,
                   viewVars, lifeVars>>

(* The collector's liveness task finds the job gone and latches it.        *)
JobLeaves ==
    /\ ~jobGone
    /\ jobGone' = TRUE
    /\ UNCHANGED <<pollVars, streamVars, rungVars, retryVars, switchVars, viewVars,
                   jobEnded, mounted, health, switches>>

Next ==
    \/ \E n \in Nodes : SetNode(n)
    \/ Quit \/ FinishUnmount
    \/ PollStep \/ PollCancelled
    \/ TickSwitch
    \/ ClockTick \/ JobLeaves
    \/ \E n \in Nodes : StreamDies(n)

Spec == Init /\ [][Next]_vars

(* The event loop runs every task whose await is over, and every await of  *)
(* the poll task is bounded; the timer fires while it is not paused; time  *)
(* passes; a node able to send frames does not keep them back for ever.    *)
(* Nothing is assumed of the reader, of the job or of a stream's death.    *)
Fairness ==
    /\ WF_vars(PollStep) /\ WF_vars(PollCancelled) /\ WF_vars(FinishUnmount)
    /\ WF_vars(TickSwitch)
    /\ WF_vars(ClockTick)
    /\ SF_vars(ReadFrame) /\ SF_vars(LocalFrame)

FairSpec == Spec /\ Fairness

-----------------------------------------------------------------------------
(* Safety. *)

(* At most one stream child lives, it is the one _stop_stream would kill,  *)
(* and none outlives the screen (on_unmount).                              *)
NoOrphanStream ==
    /\ \A n \in Nodes : running[n] > 0 => running[n] = 1 /\ streamProc = n
    /\ mounted = "closed" => \A n \in Nodes : running[n] = 0

(* A frame is filed, and later shown, under the node it was collected on,  *)
(* however the reader switched while it was on its way (_show).            *)
FramesKeepTheirNode == \A n \in Nodes : cache[n] \in {n, NULL}

(* Numbers of a node other than the selected one are on screen only while  *)
(* the switch is announced, or frozen by the end of the job.               *)
ScreenMatchesSelection ==
    view \notin {NULL, selected} => target = selected \/ jobEnded

(* The body is dimmed only while the watchdog that un-dims it is running,  *)
(* and a stuck or ended banner never sits over a dimmed body (#50).        *)
DimmedOnlyWhileWatched ==
    /\ dimmed => target = selected /\ spinner /\ ~banner.stuck /\ ~jobEnded
    /\ target # NULL => banner.display /\ target = selected
    /\ jobEnded => banner.display /\ banner.ended

(* A node is given up only when no rung is left to try: an ssh refusal     *)
(* first sends it to the step (retry_other_stream_transport), and a node   *)
(* whose ssh was retired is never reached by ssh again.                    *)
GiveUpAfterLastRung ==
    /\ gaveUp => err # NULL /\ ~OtherRungUntried(err.of)
    /\ \A n \in sshBlocked : transport[n] # "ssh"

(* srun is not respawned while a failure of a stream is not slept off, nor *)
(* for a node that has been given up (_stream_backoff).                    *)
RelaunchIsPaced == pc = "launch" => owed = NULL /\ ~gaveUp

(* The stream side of the promise: no child is ever left behind, no node   *)
(* is written off early, no launch storms the scheduler.                   *)
StreamSafe == NoOrphanStream /\ GiveUpAfterLastRung /\ RelaunchIsPaced

(* The screen side: no number under another node's name, and no dimmed     *)
(* body that nothing will un-dim.                                          *)
ScreenIsTrue == FramesKeepTheirNode /\ ScreenMatchesSelection /\ DimmedOnlyWhileWatched

(* What the six invariants above rest on: which child the poll task holds  *)
(* at each await, ...                                                      *)
HandleAtAwait ==
    /\ streamProc = streamNode
    /\ pc \in {"local", "launch", "reap", "backoff"} => streamProc = NULL
    /\ pc \in {"read", "stderr"} => streamProc = node
    /\ mounted = "closed" => pc = "done" /\ streamProc = NULL

(* ... whose frame it waits for, ...                                       *)
FrameAtAwait ==
    /\ pc = "local" => node = Local
    /\ pc = "reap" /\ then = "local" => node = Local

(* ... that a failure is pending only on the way to its backoff, that a    *)
(* node given up has no stream, and that the end of the job is the end of  *)
(* the poll task.                                                          *)
FailureAtAwait ==
    /\ owed # NULL => \/ pc \in {"stderr", "backoff", "done"}
                      \/ pc = "reap" /\ then = "backoff"
    /\ gaveUp => streamProc = NULL /\ pc # "launch"
    /\ jobEnded => pc = "done" /\ target = NULL

(* The inductive invariant of the proofs: the state _poll_loop relies on   *)
(* at every await, together with what it promises.                         *)
IndInv ==
    /\ HandleAtAwait /\ FrameAtAwait /\ FailureAtAwait
    /\ NoOrphanStream /\ FramesKeepTheirNode /\ ScreenMatchesSelection
    /\ DimmedOnlyWhileWatched /\ GiveUpAfterLastRung /\ RelaunchIsPaced

(* The screen behaves as NodeView says.                                    *)
NV == INSTANCE NodeView WITH pending <- target # NULL, ended <- jobEnded

ImplementsNodeView == NV!Spec

-----------------------------------------------------------------------------
(* Liveness. *)

(* A switch never leaves the body dimmed: data lands or the watchdog fires *)
(* (_tick_switch), even on a node that never answers.                      *)
NeverLeftDimmed == dimmed ~> ~dimmed \/ mounted # "up"

(* A connected stream that yields no frame, silent or unparsable, is torn  *)
(* down in the end (N5, _STREAM_SILENCE_TIMEOUT).                          *)
UselessStreamRetired ==
    \A n \in Nodes :
        streamProc = n /\ "frame" \notin health[n]
            ~> streamProc # n \/ jobEnded

(* A reader who stays on a node that sends frames comes to see it, unless  *)
(* the node was given up or the job left.                                  *)
ReachableNodeShown ==
    \A n \in Nodes :
        <>[](/\ selected = n /\ mounted = "up" /\ ~jobGone /\ ~gaveUp
             /\ n = Local \/ "frame" \in health[n])
            => <>(view = n /\ target = NULL)

(* A dashboard opened on a remote node does not stay on a silent "awaiting   *)
(* telemetry": numbers come, or the banner says the node is not reached    *)
(* (on_mount).                                                             *)
AttachExplained ==
    view = NULL /\ selected # Local
        ~> view # NULL \/ (banner.display /\ banner.stuck) \/ jobEnded \/ mounted # "up"

(* Quitting always ends, with the poll task at any await (B2).             *)
QuitCompletes == mounted = "closing" ~> mounted = "closed"

(* A stream ends when it is of no use, and with the screen.                *)
StreamsEnd == UselessStreamRetired /\ QuitCompletes

-----------------------------------------------------------------------------
(* What comments of the code say and the code does not do. *)

(* "a fresh node gets fresh stream attempts" (_set_node): giving up is     *)
(* about the node on screen, not about the one the reader has left.        *)
GaveUpIsOwn == gaveUp => err # NULL /\ err.of = selected

(* "let the banner say what is actually wrong" (_read_remote): a node given *)
(* up while it is selected gets a banner.                                  *)
GiveUpIsSaid == gaveUp ~> banner.display \/ ~gaveUp \/ mounted # "up"

=============================================================================
