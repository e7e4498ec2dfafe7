--------------------------------- MODULE Hop ---------------------------------
(***************************************************************************)
(* `slurmwatch <job>` on a terminal (cli.py: _run_interactive and below):  *)
(* a screen of its own for a job it can read here, for a queued job and    *)
(* for somebody else's; for one's own job on another node, the ladder of   *)
(* transports - an srun step, an ssh login, the sstat summary - with the   *)
(* guard that hands a signal on to the child and gives the terminal back.  *)
(*                                                                         *)
(* The child is srun or ssh with the dashboard behind it.  The user, the   *)
(* site and Slurm decide how it ends; a SIGTERM or SIGHUP to this process  *)
(* may come between any two steps, once.  Messages are left out but for    *)
(* which kind of answer the user got.                                      *)
(***************************************************************************)
EXTENDS Naturals, FiniteSets

VARIABLES
    env,        \* what this host, its user and the job give: constant after Init
    at,         \* where the program stands
    guards,     \* _TerminalGuards entered and not yet left
    child,      \* the --pty child: none, up or over with a return code
    known,      \* guard.child is set
    masked,     \* SIGTERM and SIGHUP are blocked, around the spawn
    pending,    \* a blocked signal is waiting
    screen,     \* the terminal: plain, or the alternate screen
    told,       \* the child was sent the signal this process got
    lost,       \* history: an ssh connection broke under a dashboard
    logins,     \* history: interactive logins on the job's node
    steps,      \* history: job steps asked for in the job's allocation
    answer,     \* the kinds of answer the user got
    over        \* how this process ended, "no" while it runs

hopVars == <<env, at, guards, child, known, masked, pending, screen, told, lost,
             logins, steps, answer, over>>

Codes == {0, 1, 130, 137, 143, 255}   \* 143 and 137: the step was terminated, killed

Kinds == {"local", "pending", "foreign", "remote"}

HopTypeOK ==
    /\ env \in [kind : Kinds, tty : BOOLEAN, noHop : BOOLEAN, noSsh : BOOLEAN,
                onNode : BOOLEAN, srun : BOOLEAN, ssh : BOOLEAN, gpu : BOOLEAN]
    /\ at \in {"start", "app", "drawn", "mounted", "hop", "probe", "sshInHop", "sshRung",
               "spawn", "wait", "judge", "summary", "done"}
    /\ guards \in 0..2
    /\ child \in [via : {"none", "srun", "ssh"}, inHop : BOOLEAN, up : BOOLEAN,
                  shown : BOOLEAN, rc : Codes \cup {999}]
    /\ {known, masked, pending, told, lost} \subseteq BOOLEAN
    /\ screen \in {"plain", "alt"}
    /\ logins \in Nat /\ steps \in Nat
    /\ answer \subseteq {"app", "text", "dashboard", "stopped", "ended"}
    /\ over \in {"no", "exit", "signal", "interrupt", "killed"}

NoChild == [via |-> "none", inHop |-> FALSE, up |-> FALSE, shown |-> FALSE, rc |-> 999]

(* One switch of the environment at a time is enough to tell them apart;   *)
(* a relaunched copy has SLURMWATCH_ON_NODE and SLURMWATCH_NO_HOP both.    *)
HopInit ==
    /\ env \in [kind : Kinds, tty : BOOLEAN, noHop : BOOLEAN, noSsh : BOOLEAN,
                onNode : BOOLEAN, srun : BOOLEAN, ssh : BOOLEAN, gpu : BOOLEAN]
    /\ env.onNode => env.noHop
    /\ env.kind # "remote" => ~env.noHop /\ ~env.noSsh /\ env.srun /\ env.ssh /\ ~env.gpu
    /\ at = "start" /\ guards = 0 /\ child = NoChild /\ known = FALSE
    /\ masked = FALSE /\ pending = FALSE /\ screen = "plain" /\ told = FALSE
    /\ lost = FALSE /\ logins = 0 /\ steps = 0 /\ answer = {} /\ over = "no"

-----------------------------------------------------------------------------
Running == over = "no"
Quiet == UNCHANGED <<env, masked, pending, told, lost>>
NoTransport == UNCHANGED <<child, known, logins, steps>>

Ends == at' = "done" /\ over' = "exit" /\ guards' = 0

(* _run_interactive: which view, and whether anyone can see one.           *)
Dispatch ==
    /\ Running /\ at = "start"
    /\ IF env.kind = "remote" THEN at' = "hop" /\ UNCHANGED <<guards, answer, over>>
       ELSE IF env.tty THEN at' = "app" /\ guards' = guards + 1 /\ UNCHANGED <<answer, over>>
       ELSE Ends /\ answer' = {"text"}
    /\ UNCHANGED screen /\ Quiet /\ NoTransport

(* _run_app_guarded: Textual takes the screen first, and its on_mount puts *)
(* handlers of its own in place only later.                                *)
AppDraws ==
    /\ Running /\ at = "app" /\ at' = "drawn" /\ screen' = "alt"
    /\ UNCHANGED <<guards, answer, over>> /\ Quiet /\ NoTransport

AppMounts ==
    /\ Running /\ at = "drawn" /\ at' = "mounted" /\ answer' = answer \cup {"app"}
    /\ UNCHANGED <<guards, screen, over>> /\ Quiet /\ NoTransport

AppEnds ==
    /\ Running /\ at = "mounted" /\ Ends /\ screen' = "plain"
    /\ UNCHANGED answer /\ Quiet /\ NoTransport

(* An exception under the app: text for the facts-only views.              *)
AppFails ==
    /\ Running /\ at \in {"app", "drawn", "mounted"} /\ Ends /\ screen' = "plain"
    /\ answer' = IF env.kind = "local" THEN answer ELSE answer \cup {"text"}
    /\ Quiet /\ NoTransport

-----------------------------------------------------------------------------
(* _hop_to_compute_node up to the spawn. *)

Declined == env.onNode \/ env.noHop \/ ~env.tty

(* Mutant: a hop that was declined climbs to the ssh rung all the same.    *)
AfterDeclineAnyRung == "sshRung"
AfterDecline == "summary"

HopLeaves ==
    /\ Running /\ at = "hop" /\ (Declined \/ ~env.srun)
    /\ at' = IF Declined THEN AfterDecline ELSE "sshRung"
    /\ UNCHANGED <<guards, screen, answer, over>> /\ Quiet /\ NoTransport

HopBegins ==
    /\ Running /\ at = "hop" /\ ~Declined /\ env.srun
    /\ guards' = guards + 1
    /\ at' = IF env.gpu THEN "probe" ELSE "spawn"
    /\ child' = [NoChild EXCEPT !.via = "srun"]
    /\ UNCHANGED <<known, logins, steps, screen, answer, over>> /\ Quiet

(* _srun_can_get_gpu; without the GPU, a login that can read it is tried   *)
(* before a step that cannot.                                              *)
ProbeAnswers(ok) ==
    /\ Running /\ at = "probe"
    /\ steps' = steps + 1
    /\ at' = IF ok THEN "spawn" ELSE "sshInHop"
    /\ UNCHANGED <<guards, child, known, logins, screen, answer, over>> /\ Quiet

-----------------------------------------------------------------------------
(* _ssh_to_compute_node, from inside the hop and as the rung after it. *)

SshRefused == env.noSsh \/ env.onNode \/ ~env.tty \/ ~env.ssh

BackFromSsh == IF child.inHop \/ at = "sshInHop" THEN "spawn" ELSE "summary"

SshLeaves ==
    /\ Running /\ at \in {"sshInHop", "sshRung"} /\ SshRefused
    /\ at' = BackFromSsh
    /\ UNCHANGED <<guards, screen, answer, over>> /\ Quiet /\ NoTransport

SshBegins ==
    /\ Running /\ at \in {"sshInHop", "sshRung"} /\ ~SshRefused
    /\ guards' = guards + 1
    /\ child' = [NoChild EXCEPT !.via = "ssh", !.inHop = (at = "sshInHop")]
    /\ at' = "spawn"
    /\ UNCHANGED <<known, logins, steps, screen, answer, over>> /\ Quiet

(* _TerminalGuard.spawn: block, start, register, unblock.                  *)
(* Mutant: the signals are not blocked.                                    *)
BlockNothing == UNCHANGED masked
Block == masked' = TRUE

SpawnBegins ==
    /\ Running /\ at = "spawn" /\ ~masked /\ ~child.up
    /\ Block
    /\ child' = [child EXCEPT !.up = TRUE]
    /\ steps' = IF child.via = "srun" THEN steps + 1 ELSE steps
    /\ UNCHANGED <<env, at, guards, known, pending, screen, told, lost, logins, answer, over>>

SpawnEnds ==
    /\ Running /\ at = "spawn" /\ child.up
    /\ known' = TRUE /\ masked' = FALSE /\ at' = "wait"
    /\ UNCHANGED <<env, guards, child, pending, screen, told, lost, logins, steps, answer,
                   over>>

(* The executable cannot be run.                                           *)
SpawnFails ==
    /\ Running /\ at = "spawn" /\ ~masked /\ ~child.up
    /\ guards' = guards - 1
    /\ IF child.via = "srun" THEN at' = "sshRung" /\ child' = NoChild
       ELSE /\ at' = BackFromSsh
            /\ child' = IF child.inHop THEN [NoChild EXCEPT !.via = "srun"] ELSE NoChild
    /\ UNCHANGED <<known, screen, logins, steps, answer, over>> /\ Quiet

-----------------------------------------------------------------------------
(* The child: srun or ssh, and the dashboard behind it. *)

DashboardComesUp ==
    /\ Running /\ at = "wait" /\ child.up /\ ~child.shown
    /\ screen' = "alt" /\ child' = [child EXCEPT !.shown = TRUE]
    /\ logins' = IF child.via = "ssh" THEN logins + 1 ELSE logins
    /\ answer' = answer \cup {"dashboard"}
    /\ UNCHANGED <<at, guards, known, steps, over>> /\ Quiet

(* It never comes up: no step, no login - or a login and no dashboard.     *)
ChildRefused(rc, in) ==
    /\ Running /\ at = "wait" /\ child.up /\ ~child.shown
    /\ rc \in {1, 255}
    /\ rc = 255 => child.via = "ssh" /\ ~in
    /\ child' = [child EXCEPT !.up = FALSE, !.rc = rc]
    /\ logins' = IF child.via = "ssh" /\ in THEN logins + 1 ELSE logins
    /\ UNCHANGED <<at, guards, known, screen, steps, answer, over>> /\ Quiet

(* The dashboard goes: by `q`, Ctrl-C or an exception it gives the screen  *)
(* back itself, terminated it may, killed or cut off it cannot.            *)
ChildGoes(rc, tidied) ==
    /\ Running /\ at = "wait" /\ child.up /\ child.shown
    /\ rc = 255 => child.via = "ssh"
    /\ rc \in {0, 1} => tidied
    /\ rc \in {137, 255} => ~tidied
    /\ child' = [child EXCEPT !.up = FALSE, !.rc = rc]
    /\ screen' = IF tidied THEN "plain" ELSE screen
    /\ lost' = (lost \/ rc = 255)
    /\ UNCHANGED <<env, at, guards, known, masked, pending, told, logins, steps, answer, over>>

(* _run_pty_child returns.  ssh leaves its guard here; srun's stays until  *)
(* the hop is left.                                                        *)
Reap ==
    /\ Running /\ at = "wait" /\ ~child.up
    /\ known' = FALSE /\ at' = "judge"
    /\ guards' = IF child.via = "ssh" THEN guards - 1 ELSE guards
    /\ UNCHANGED <<child, screen, logins, steps, answer, over>> /\ Quiet

-----------------------------------------------------------------------------
(* What the return code means, and where the ladder goes on. *)

Restored == "plain"

(* squeue on a job that is gone says so or nothing; on one that is not, it *)
(* cannot say it is.                                                       *)
JudgeSrun(gone) ==
    /\ Running /\ at = "judge" /\ child.via = "srun"
    /\ screen' = Restored
    /\ IF child.rc \in {0, 130, 137, 143} \/ gone
       THEN /\ Ends
            /\ answer' = CASE child.rc \in {137, 143} -> answer \cup {"stopped"}
                           [] child.rc \in {0, 130} -> answer
                           [] OTHER -> answer \cup {"ended"}
            /\ UNCHANGED child
       ELSE /\ at' = "sshRung" /\ guards' = guards - 1 /\ child' = NoChild
            /\ UNCHANGED <<answer, over>>
    /\ UNCHANGED <<known, logins, steps>> /\ Quiet

JudgeSsh(gone) ==
    /\ Running /\ at = "judge" /\ child.via = "ssh"
    /\ screen' = IF child.rc \in {0, 130, 137, 143} THEN "plain" ELSE screen
    /\ IF child.rc \in {0, 130, 137, 143} \/ (child.rc # 255 /\ gone)
       THEN /\ Ends
            /\ answer' = CASE child.rc \in {137, 143} -> answer \cup {"stopped"}
                           [] child.rc \in {0, 130} -> answer
                           [] OTHER -> answer \cup {"ended"}
            /\ UNCHANGED child
       ELSE /\ at' = BackFromSsh
            /\ child' = IF child.inHop THEN [NoChild EXCEPT !.via = "srun"] ELSE NoChild
            /\ UNCHANGED <<guards, answer, over>>
    /\ UNCHANGED <<known, logins, steps>> /\ Quiet

(* _run_remote_summary: the summary, or the word that it timed out.        *)
RemoteSummary ==
    /\ Running /\ at = "summary" /\ Ends
    /\ answer' = answer \cup {"text"}
    /\ UNCHANGED screen /\ Quiet /\ NoTransport

-----------------------------------------------------------------------------
(* Signals to this process. *)

(* _TerminalGuard._on_signal: tell the child, give it a moment, give the   *)
(* terminal back, go.  Whether the child is gone by then is its affair.    *)
Handle ==
    /\ told' = (known /\ child.up)
    /\ screen' = "plain" /\ over' = "signal"

(* A mounted app's own handler ends it in good order; with no guard the    *)
(* signal's default action kills.                                          *)
Signal ==
    /\ Running /\ ~pending /\ at # "mounted"
    /\ IF masked THEN pending' = TRUE /\ UNCHANGED <<told, screen, over>>
       ELSE IF guards > 0 THEN Handle /\ UNCHANGED pending
       ELSE over' = "killed" /\ UNCHANGED <<told, screen, pending>>
    /\ UNCHANGED <<env, at, guards, child, known, masked, lost, logins, steps, answer>>

SignalUnblocked ==
    /\ Running /\ pending /\ ~masked
    /\ Handle /\ pending' = FALSE
    /\ UNCHANGED <<env, at, guards, child, known, masked, lost, logins, steps, answer>>

(* SIGINT to this process alone while it waits for the child.              *)
Interrupt ==
    /\ Running /\ at = "wait" /\ ~pending
    /\ screen' = "plain" /\ over' = "interrupt" /\ known' = FALSE
    /\ UNCHANGED <<env, at, guards, child, masked, pending, told, lost, logins, steps, answer>>

HopStep ==
    \/ Dispatch \/ AppDraws \/ AppMounts \/ AppEnds \/ AppFails
    \/ HopLeaves \/ HopBegins \/ \E ok \in BOOLEAN : ProbeAnswers(ok)
    \/ SshLeaves \/ SshBegins \/ SpawnBegins \/ SpawnEnds \/ SpawnFails
    \/ DashboardComesUp
    \/ \E rc \in Codes, in \in BOOLEAN : ChildRefused(rc, in)
    \/ \E rc \in Codes, tidied \in BOOLEAN : ChildGoes(rc, tidied)
    \/ Reap
    \/ \E gone \in BOOLEAN : JudgeSrun(gone) \/ JudgeSsh(gone)
    \/ RemoteSummary

(* A signal that came while they were blocked is served before anything    *)
(* else.                                                                   *)
HopNext == (~(pending /\ ~masked) /\ HopStep) \/ Signal \/ SignalUnblocked \/ Interrupt

HopSpec == HopInit /\ [][HopNext]_hopVars

-----------------------------------------------------------------------------
(* Properties. *)

(* "a user who opted out of a step did not opt in to a login": no step and *)
(* no login where they were declined, by the environment, by a pipe or by  *)
(* being the relaunched copy, whichever way the ladder is climbed.         *)
OptOutHolds ==
    /\ Declined => steps = 0 /\ logins = 0
    /\ env.noSsh => logins = 0

(* A process that ends in any way it has a say in leaves the terminal      *)
(* plain; a connection that broke under the dashboard is told apart.       *)
TerminalIsRestored == over \in {"exit", "signal", "interrupt"} /\ ~lost => screen = "plain"

(* "there is no window in which a signal exits and leaves the child        *)
(* running": it is never left untold.                                      *)
SignalReachesChild == over \in {"signal", "killed"} /\ child.up => told

(* Whatever ends this process, nothing of it stays behind: no child that   *)
(* was not told, no screen taken over.                                     *)
GuardHolds == TerminalIsRestored /\ SignalReachesChild
=============================================================================
