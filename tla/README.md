# slurmwatch: verification project

slurmwatch watches one Slurm job: a terminal dashboard on a compute node (or
on another node, through a remote stream), a headless logger (`--log`), a
one-shot report (`--once`) and screens for queued and foreign jobs. It is a
single-threaded asyncio program with executor threads for blocking reads, child
processes (`squeue`, `srun`, `ssh`, `sstat`), timers, signals and, for the log
file, other processes on other hosts. What is hard in it is what happens
between two awaits; that is what the modules here are about.

Paths below are relative to `src/src/slurmwatch/`.

## 1. Inventory

| component | state it keeps | operations | interacts with | hard behaviour | what makes it correct |
|---|---|---|---|---|---|
| **Node switcher and remote stream** (`tui.py` DashboardScreen, `remote.py`) | selected node, frame cache, stream child, transport per node, failure counter, give-up flag, silence clock, banner, spinner timer | `_poll_loop`, `_read_remote`, `_stop_stream`, `_stream_backoff`, `_set_node`, `_begin/_end_switch`, `_tick_switch`, `_show_job_ended`, `on_unmount` | child `slurmwatch --log /dev/stdout` on the other node, collector, keys, timers | keys land between the awaits of the poll task; the stream may be mute, garbled, dying, unlaunchable | frames never shown under another node; no orphaned child; no relaunch storm; every switch ends |
| **Log file claim and records** (`cli.py` `_claim_log_file`, `_headless_loop`, `_write_record`, `_terminate_partial_last_record`, CSV layout) | the file, a record lock, a flock, layout forced by the file, header-needed flag | read header, claim, truncate, repair tail, write header and rows | other runs on this or another host, the file system | interleaved runs, short writes, kill at any point, stale reads | exclusive truncation, whole records, rows under their own headings |
| **Headless loop** (`cli.py` `_run_headless`, `_headless_loop`) | shutdown event, signal count, liveness latch, exit code | wait for a frame, write raced against shutdown, signal handling, bounded exit | collector, sink, signals | a sink that does not drain while a signal arrives | it ends, with the right code |
| **Collector** (`collector.py`, `aio.py`) | running flag, two tasks, frame queue, `job_ended`, NVML handle, peaks | `start`, `stop`, `_run_loop`, `_liveness_loop`, `_enqueue`, `next_snapshot` | executor threads, squeue, consumers | threads that cannot be cancelled, full queue, unknown answers | stop ends; newest frame survives; NVML is not shut down in use |
| **CPU time accounting** (`collector.py`) | per-process baselines, accumulated time, source in use | `_accumulated_proc_cpu_ns`, `_read_cpu_ns` | /proc, cgroups | exiting processes, reused pids, a source that comes and goes | monotone, counted once |
| **Memory, GPU and fabric metrics** | peaks, rate baselines | per-sample reads | cgroup v1/v2, NVML, sysfs | missing files | peaks never fall below a shown value |
| **Remote usage by `sstat`** (`collector.py`, `slurm.py`) | cached result and its age | throttled query | slurmdbd | stale results | a stale value is labelled or dropped |
| **Slurm queries and job resolution** (`slurm.py`) | none | hostlist expansion, job ladder, TRES and index parsing | `squeue`, `scontrol` | text of many Slurm versions | definite versus unknown answers kept apart |
| **Cgroup discovery** (`slurm.py`) | none | search of /sys/fs/cgroup | file system | layouts | the job's own cgroup |
| **Snapshot model** (`model.py`) | none | JSON and CSV forms | log readers, remote stream | schema drift | a snapshot survives its round trip |
| **Pending-job analysis** (`pending.py`) | none | why a job waits, where it would fit | `scontrol`, `sinfo` | unknown values | no partition called fitting that is not |
| **Log tail viewer** (`logtail.py`, `tui.py` LogViewScreen) | inode, offset, partial line | poll, resync | a file being rotated or truncated | rotation between two calls | no line twice, none torn |
| **Go-to-node prompt** (`tui.py`) | typed digits, commit timer | digit, commit, cancel | switch banner | a timer racing a switch | no surprise switch |
| **Job selector, pending and foreign screens, app** (`tui.py`) | job list, cursor, screen stack | refresh, select, push, pop | workers | rows rebuilt under the cursor | the row acted on is the row seen |
| **Command line, hop, terminal guard** (`cli.py`) | saved terminal state, pty child | hop ladder srun, ssh, sstat; restore | tty, child | a hop that half-succeeds | terminal always restored |
| **Configuration, units, exceptions** | none | parse, format | - | - | - |

`PROJECT.json` lists every component with what is and is not modelled, and the
hazards at the lines where they bite.

## 2. Plan

The modules, in the order in which they were written, the core first:

| component | modules | checked in |
|---|---|---|
| Node switcher and remote stream | `NodeView` (abstract), `NodeSwitch`, `NodeSwitchProofs` | `MCNodeSwitch` |
| Log file claim and records | `LogFile`, `LogFileProofs` | `MCLogFile` |
| Collector | `Collector`, `HeadlessProofs` | `Collector` |
| Headless loop | `Headless` (extends `Collector`), `HeadlessProofs` | `Headless` |
| CPU time accounting | `ProcCpu`, `CpuRate`, `MeterProofs`, `SetLemmas` | `MCMetrics` |
| Memory, GPU and fabric metrics | `MemoryMeter`, `LinkMeter`, `GpuAttach`, `Places`, `MeterProofs` | `MCMetrics` |
| Remote usage by `sstat` | `RemoteMeter`, `MeterProofs` | `MCMetrics` |
| Job selector and app screens | `Picker`, `JobWatch`, `ScreenProofs` | `MCScreens` |
| Go-to-node prompt | `NodePrompt`, `ScreenProofs` | `MCScreens` |
| Log tail viewer | `LogTail` (the pure algorithms), `Places`, `LogView`, `LogViewProofs` | `LogView` |
| Command line, hop, terminal guard | `Hop`, `CommandLineProofs` | `MCCommandLine` |
| Slurm queries and job resolution | `JobQuery`, `CommandLineProofs` | `MCCommandLine` |
| Cgroup discovery | `CgroupFind`, `CommandLineProofs` | `MCCommandLine` |
| Pending-job analysis | `PendingFit`, `CommandLineProofs` | `MCCommandLine` |

`MCMetrics`, `MCScreens` and `MCCommandLine` check several modules in one run.
The modules share no state, so each behaviour has one of them in `focus`, which
moves, while the others stand still in one fixed state: the set of behaviours
of each module is the one it has alone, and the run's states are the sum of
theirs and not the product.

A further stage would add, in this order: the snapshot's CSV and JSON forms
against what a resumed log and the remote stream's reader expect of them; the
pure parsers (hostlists, index lists) against reference definitions; the
per-core view and its baselines; an abstract log (records of one run after the
other) that `LogFile` implements for runs that do not overlap; and the type
invariants that section 12 lists as not yet proved.

## 3. NodeSwitch

### State and actions

`pc` is the await at which the poll task is suspended, and each action runs the
code from one await to the next:

| action | code |
|---|---|
| `OnMount`, `Init` | `__init__`, `on_mount` |
| `PollTop`, `PollResume`, `PollJobEnded` | head of an iteration of `_poll_loop`: dispatch on the selected node, drop the stream of another node, or stop at the end of the job |
| `Reaped` | return of `_stop_stream`'s bounded wait |
| `LocalFrame`, `LocalTimeout` | `next_snapshot` of the local collector |
| `LaunchOk`, `LaunchFails` | `remote.open_stream`, with the choice between ssh and a Slurm step |
| `ReadFrame`, `ReadGarbage`, `ReadQuiet`, `ReadEof` | the outcomes of `readline` in `_read_remote` |
| `ReadStderr` | return of `read_stream_error`: permanent or not, other transport or give up |
| `BackoffDone`, `PacedDone` | the sleeps of `_stream_backoff` and of a node given up |
| `SetNode`, `Quit`, `FinishUnmount`, `PollCancelled` | `_set_node`, `action_quit`, `on_unmount`, cancellation |
| `TickSwitch` | `_tick_switch` and `_mark_switch_stuck` |
| `ClockTick`, `StreamDies`, `JobLeaves` | time, the remote child, the collector's latch |

A frame is represented by the node it was collected on. `Show` can therefore
file a frame under the wrong node if the control allows it, which is what
`FramesKeepTheirNode` looks for. Elapsed times are counters that saturate where
the code stops telling values apart (`StuckS + 1`, `SilenceS`); the failure
count saturates at `FailCap`, where the exponent of the backoff is capped too.
The text of an error is one of four families, the ones
`stream_error_is_permanent` tells apart. `owed` is a history variable.

`NodeView` says the same of the screen with no word about streams: the reader
selects, a frame of the selected node completes the switch, the end of the job
freezes the screen. `ImplementsNodeView` maps `pending` to "a target is set"
and `ended` to `jobEnded`.

### Abstractions

The GPU probe and the exec of a launch are one await. A frame that raises while
rendered, the "slow attach" wording of the banner, trend histories and the demo
data are left out; the go-to-node prompt has a module of its own (section 9). A child that stays unkillable
counts as killed. A timer tick already queued when its timer is paused is
ignored.

### Runs

| run | instance | what it shows |
|---|---|---|
| `node_switch_safety` | local node and two interchangeable remote ones, every stream behaviour possible at every await, 2 switches | `StreamSafe`: at most one stream child, none orphaned, no node given up before its last transport, no unpaced relaunch. `ScreenIsTrue`: frames stay with their node, the screen shows the selected node's unless a switch is announced, a dimmed body has a running watchdog. `ImplementsNodeView`: the refinement |
| `node_switch_liveness` | local and one remote node, whose behaviour is fixed as one of five: sound, mute, garbled, flapping, unlaunchable; 2 switches | `NeverLeftDimmed`: a switch always un-dims; `ReachableNodeShown`: a node that sends frames is shown; `StreamsEnd`: a useless stream is retired and quitting ends |
| `node_attach` | a job with one node, remote, no switch; every error family | the first attach is never left unexplained |

Bounds. Two switches let the reader leave a node and come back, or leave it
for a third while an await of the first is pending; the poll task holds at
most one node in a local variable, so a third switch adds no new pair of (held,
selected) nodes. `MaxParseFails = 2` has both the counted and the fatal case,
`SilenceS = StuckS + 1` keeps the order of the two deadlines that
`_STREAM_SILENCE_TIMEOUT` is derived to have. `AttachExplained` has a run of
its own because it needs an initial state without the local node.
Deadlock is not checked: a closed dashboard does nothing more.

### Fairness

`FairSpec` assumes that the event loop runs the poll task whenever its await is
over, and every await of it is bounded by a timeout in the code
(`_STREAM_LAUNCH_TIMEOUT`, the read timeout, `join_bounded`, the backoff);
that an unpaused timer fires; that time passes; and, as strong fairness, that a
node able to send frames does not withhold them for ever. Nothing is assumed of
the reader, of the end of the job, or of a stream's death.

## 4. LogFile

### State and actions

`pc[p]` is where run `p` of `_headless_loop` stands between two system calls
that other processes may see or be seen by: `ReadHeader`
(`_csv_max_gpus_from_header`, `_csv_append_layout`), `ClaimLockf` and
`ClaimFlock` (`_claim_log_file`), `Truncate` (`os.ftruncate`), `CheckSize`
(`header_needed`), `ReadTail` (`_terminate_partial_last_record`), `Sample` and
`Write` (`_write`, `_write_record`, one `os.write` at a time), `End`.

The file is a sequence of halves of lines with the run that wrote them and the
column layout they follow. `Write` may append any prefix of the payload, which
is what a disk that fills up does. `End` stands for the end of the job, a
signal, a failed write and SIGKILL alike: the file stays as it is, memory and
locks go. The record lock is one per file, reaches across hosts and is dropped
when the process closes any descriptor of the file; flock is per host. `met` is a
history variable: the runs that were alive together with another one.

### Abstractions

CSV only: a JSON log is the same without its heading. File systems that support
neither lock, pipes and terminals as sinks, and the facts row written for a
queued job are left out. A heading cut within its first column name is not told
apart from one cut later.

### Runs

| run | instance | what it shows |
|---|---|---|
| `log_file_claim` | two truncating runs on two hosts and an appending one, two layouts, a log that is absent, whole, or cut in its heading or in a row; 2 records each | `TruncatorsExclude`: truncating runs exclude each other; `TruncationIsSafe`: the file shrinks only under both locks and never under a truncating run's own records; `ResumedLogIsWhole`: runs that follow one another neither splice records nor misplace columns |
| `log_across_hosts` | one truncating and one appending run | a disagreement, section 13 |

Two truncating runs and one appending one are the smallest set in which every
pair of modes meets on one host and on two. With `MaxRecords = 2` a run writes
a heading with a row and a row without. Deadlock is not checked: every run ends.

## 5. Collector

### State and actions

Two tasks and up to four kinds of executor threads. `runPc` and `livePc` are
the awaits of `_run_loop` and `_liveness_loop`; `caller` is where the owner is
in `start()` and `stop()`; `worker` (sampling), `initThread` (`_init_nvml`),
`squeue` (`is_job_active`) and `shutter` (`_nvml_shutdown_locked`) are the
threads. A cancelled task leaves its thread running, which is why tasks and
threads are separate variables.

| action | code |
|---|---|
| `Start`, `NvmlAbsent`, `NvmlUp`, `NvmlEnumerated`, `StartReturns` | `start()` around its await, and `_init_nvml` on its thread |
| `PrimeDone`, `EnterNvml`, `CollectionEnds` | `_prime_cpu_baseline`, `_collect_snapshot_sync` and the NVML sweep inside it |
| `Primed`, `CollectOrLeave`, `Collected` (with `Enqueue`), `RunCancelled` | `_run_loop` between its awaits |
| `CheckOrLeave`, `SqueueAnswers`, `Checked`, `LiveCancelled`, `AnswerDropped` | `_liveness_loop` and `is_job_active` |
| `Stop`, `LiveJoined`, `RunJoined`, `GraceOver`, `NvmlShutdown`, `StopReturns` | `stop()` between its awaits, `_shutdown_nvml` |
| `StopSync`, `StartCancelled` | `stop_sync()`, and the app cancelling the worker that awaits `start()` |
| `Take` | `next_snapshot` |

A frame is its number in the order of collection. Cancelling a task cancels
the future it awaits, which settles the future without touching the thread:
`RunCancelled` does this to `held`, the future `stop()` has captured.

### Abstractions

Demo mode is left out. A thread is taken to start as soon as it is submitted.
`nvmlShutdown` is called with the NVML lock or two seconds after asking for it,
whatever the collection does, so the lock itself is not a variable. The bounds
of the two joins do not show, because a cancelled task ends at its next step,
long before them; the bound of the third is `StopReturns`, which does not wait
for the thread. What a collection reads is left to other modules.

### Runs

| run | instance | what it shows |
|---|---|---|
| `collector` | local or remote, a queue of 2, 4 frames | `FreshestSurvives`: the newest frames survive, in order; `SessionInOrder`: one collection at a time, no task outlives its join, the session ends only once the job is gone; `StoppedIsQuiet`: nothing reaches the owner after `stop()`; `CollectorProgress`: `stop()` ends, a job's end is noticed, a bad cycle is survived |

With 4 frames a queue of 2 overflows twice, so that an evicted frame follows
another one. `MaxFrames` bounds only the number of collections. Deadlock is not
checked: a stopped collector does nothing more.

Fairness: the event loop runs a task whose await is over; `is_job_active` has a
timeout, and squeue does not fail for ever. Nothing is assumed of the thread
that samples or of NVML, so `StopEnds` holds with both stuck for ever.

## 6. Headless

### State and actions

`hpc` is the await `_headless_loop` is at: `Begin` and `OpenLog` up to the
loop, `Frame` and `NoFrame` the two outcomes of the one-second wait, `JobOver`
the answer of `_remote_job_gone`, `Written`, `ShutdownInWrite` and `Stuck` the
race of the write with the shutdown event and its grace, `Stopped` the return
of `collector.stop()` with the exit code, `Finalize` the end of `asyncio.run`.
`WriteEnds` and `QueryAnswers` are threads, `Signal` is `_signal_handler`.
`Headless` extends `Collector`: `Begin` contains `Start`, `Leave` contains
`Stop`, `Frame` contains `Take`, and everything else the collector does goes on
between them (`Background`). `OwnsCollector` is `CollectorSpec` itself: the
composition is a refinement, checked and proved, and not an assumption.

Opening, claiming and writing the file succeed or fail (`LogFile` has the
detail), a record is the number of its frame. The throttle of `_remote_job_gone`
is left out: a check that is not due yet is `JobOver` with no definite answer.
The branch for an `OSError` from `next_snapshot` is left out, since that call
only awaits a queue.

### Runs

| run | instance | what it shows |
|---|---|---|
| `headless` | local or remote, two signals, a queue of 2, 3 frames | `OwnsCollector`: the run starts, uses and stops its collector as `Collector` expects; `LogIsTrue`: it loses no frame it took, logs in order and says "job ended" truly; `RunEnds`: it ends on a signal or with its job |

With two signals the first of `stopped_by` differs from others; 3 frames
overflow the queue once while one is being written.

Fairness: the main task's waits are bounded by the code, except for the write
and for the joins of `asyncio.run`; squeue and sstat have timeouts; NVML
returns. `FairSpec` adds that the sampling thread returns, `HangSpec` does not
for a local run. Nothing is assumed of the sink: it may stop draining for ever,
and `SignalEndsRun` holds all the same.

## 7. The meters

Each meter is a frame action of the collector's sampling thread against a
world that moves: `CollectionEnds` of `Collector` is the call, these modules
are what it computes.

### Modules

**ProcCpu** (`_accumulated_proc_cpu_ns`). The kernel's process table is
external: processes fork, run, exit, are reaped, between any two reads of a
poll (`Fork`, `Run`, `Exit`, `Reap`). A poll lists pids (`ListPids`), reads one
stat file after the other (`ReadStat`) and lets go of those that vanished
(`Forget`). A process's figure contains that of the children it has reaped, so
the account must neither count a child twice nor drop it. `used`, `missed`,
`orphaned` and `stray` are history: what the job has used, what died before any
poll could see it, which processes were read in the job and lost their parent
since, and what was read of those until they died. A process first read after
it lost its parent (the docstring's orphaned worker) is an ordinary one whose
ticks nobody else reports.
A pid is not given out again before a poll has noticed that it was free: reuse
within one poll interval is left out, and with it the branch of `Credit` for a
figure that falls.

**CpuRate** (`_collect_cpu`, `_read_cpu_ns`, `_cpu_affinity_ceiling`, the CPU
part of `_apply_peaks`). Three counters that cover different processes and
therefore start apart; each may be unreadable at any frame, the one of `/proc`
may step back by what `ProcCpu` hands back. Rates are fractions `busy / over`,
compared by multiplying out.

**MemoryMeter** (`_collect_memory`, `_proc_rss_bytes`,
`_advance_working_set_peak`, the memory part of `_apply_peaks`). A frame reads
any subset of the four files; version 2, version 1 or no memory cgroup.

**RemoteMeter** (`_collect_remote` over `resolve_remote_usage`). Throttled
`sstat`: a frame from the cache, one whose query failed, one that was answered
with any subset of the steps, each with or without a CPU time.

**LinkMeter** (`_collect_fabric`, `_collect_interconnect`,
`_nvlink_throughput`). Ports and GPUs that can be read or not at each frame;
`traffic` is the history of what every link carried.

**GpuAttach** (`_init_nvml`, `_gpu_is_active`). Every assignment of devices to
a job, in every CUDA order, known by UUID, by index or by number only, with
devices that have fallen off the bus; and every combination of what NVML can
say about one device.

### Run `metrics`

| property | what it shows |
|---|---|
| `AccountSettles` | once the processes have stood still for a whole poll, the account is the time used less what nobody could have seen and less what was read of processes that lost their parent after their first read: no tick is lost otherwise, and none is counted twice |
| `CpuIsTrue` | no cgroup rate is above the CPUs there are, every tick lands in exactly one window, the published total and peak never fall and a peak is never below the rate beside it |
| `MemoryIsTrue` | an alarm only near where the kernel kills; peaks bound what is shown beside them and hold while the controller answers |
| `SampleIsWhole` | the figures, the time they are averaged over and the age of a remote frame belong to one answer |
| `FabricIsTrue` | while the set of ports holds, a rate is what they carried, and the windows adjoin |
| `NvLinkIsTrue` | the line is shown only whole, and hidden only after all attempts failed |
| `GpusAreTheJobs` | devices are the job's, under CUDA's numbers, none twice; a device is neither called idle under the job's load nor active for another's |

Bounds: three pids give a child, a parent and a grandparent; two ticks let one
be sampled and one not. A window of 2 out of 4 clock units has windows too
short, just long enough and longer. Two ports, two GPUs and two devices each
give "one of several". The job may use more memory than it asked for (1) and is
killed at its cgroup's cap (2) or, if it has no memory cgroup, at the node's RAM
(3), so that both kinds of alarm occur and a job over its request alone raises
none. Deadlock is not checked, since bounded worlds stop.

## 8. Job selector and screens without gauges

**Picker** (`JobSelectorScreen._poll_jobs`, `_run_job_selector`, `_open_job`).
`poll.at` is the await a poll is suspended at: the query, `lv.clear()`,
`lv.extend()`. `KickPoll` is the timer's exclusive worker, which cancels the
poll before it wherever it is; keys (`MoveCursor`, `SelectJob`, `CancelPicker`)
land at each of them. `ResumeLoop` to `Unmount` are the app's loop: resolving a
job that was pending when listed and may run or be gone by now, the collector
it owns, and the return to a new picker over the same list. `cut` is history: a
rebuild was cancelled half way, after which the rows are no longer those of the
list until a poll completes.

**JobWatch** (`PendingScreen`, `ForeignJobScreen`). `pass` is the await of the
running refresh. Timer and `r` both start exclusive workers (`StartPass`); only
the pending view's timer skips a tick while a pass is under way. asyncio runs
the `finally` clause of a cancelled pass before the next one starts if it
awaited one query, and after it if it awaited a `gather()`: `dying` and
`CancelledPassEnds` are that difference.

Run `screens`, with the prompt of section 9: `ListIsTrue`: outside a rebuild,
rows, job list, comparison key and reference instant are of one query, and the
cursor stays on the job the reader put it on. `EndIsTrue`: the end of a job is
never announced on a failed query. `PlaceholderEnds`: the pending view gets
filled or closes unless `r` cut a gather. `ForeignEndIsSaid`: an end is noticed
if passes are faster than the timer. Six listings have jobs that start, end,
appear and change places; two changes of the queue and two `r` keys let one of
each fall into another's await. The watched job may change state, and queries
may fail, as often as they like.

Fairness (`JobWatchFairness`, in `MCScreens` restricted to the screen in
focus): timers tick, and queries return, within `SLURM_CMD_TIMEOUT` at the
latest, with an answer or without. Nothing says that a pass ends before the
next tick.

Assumption on Slurm (`SlurmAnswers`): `resolve_pending_job`, if it goes on
returning without an answer, is answered now and then too, and so is
`is_job_active`. The code does nothing to bring that about: a pass whose first
query fails or times out returns and leaves the view as it was
(`tui.py:6353`). Both liveness properties rest on it; under `SilentSlurmSpec`,
which does not have it, TLC refutes them (section 13). They also rest on the
bound `MaxPresses`: the reader stops pressing `r`.

Run `picker_choice` is a disagreement, section 13.

## 9. Go-to-node prompt

**NodePrompt** (`action_node_digit`, `action_node_backspace`,
`action_commit_node_input`, `_show_node_prompt`, `_clear_node_input`) with the
parts of `_set_node`, `_end_switch` and `_show_job_ended` that touch the same
banner. `input` is the number typed so far, `sign` the banner's fields.
`FrameArrives` is a frame that ends a switch; the streams behind it are
`NodeSwitch`'s. With 12 nodes, 1 can go on to 10, 11 and 12 while 2 cannot, and
13 is out of range: every branch of the digit handler is met.

`BannerIsTrue`: the banner is up under every switch and every end, never up
with nothing to say, and a number that waits has a timer. `TimerNeverYanks`:
what the timer commits was typed on the node it leaves.

## 10. Log tail viewer

**LogTail** holds the pure part of `logtail.py`: `_LineAssembler` as a fold
over bytes, the window, the trimming of the leading fragment. **LogView** is
`LogViewScreen._poll_once` with its thread: `Poll`, `Stat`, `OpenAndRead` (or
`OpenFails`) and `Answer` are separate steps, and the job writes, truncates,
rotates and unlinks the files between any two. `ShowFile` switches files and
`Retail` is a resize, both while a read may be under way. `base` is history:
from which offset of which content the view starts. `doubt` is history: the
four reasons for which the view need not be the file (rewritten in place past
the offset, replaced between stat and open, an error in place of the content,
an answer about another file); in every other state the property holds.

Run `log_view`: `ViewIsTheFile`: lines and live line are what one pass over the
file gives from where the view starts, and the title says "end only" exactly if
that is not its beginning. `NeverBlank`: never an empty box without a word.
Files of up to 3 bytes are longer than the window of 2, and a line of up to 2
cells is cut; printable bytes are numbered, so that two of them are never
confused. One swap per run: a second would have to be told apart by the same
inode and size checks.

## 11. The command line's questions

**Hop** (`_run_interactive`, `_hop_to_compute_node`, `_hop_via_ssh`,
`_TerminalGuard`, the remote summary). `at` is where the program stands, one
action per step of the ladder: probe, srun, ssh inside or below it, sstat. The
child and how it ends are external, every return code included. `Signal` may
come at any step, once, and is deferred while the spawn masks it;
`Interrupt` is Ctrl-C to this process alone. `env` has all the opt-outs.

**JobQuery** (`discover_running_jobs`, `resolve_job_context`,
`resolve_pending_job`, `is_job_active`, `--once` and its error payloads). The
job's state moves up to three times while it is asked about, and each of
squeue, scontrol and sacct can answer, be silent, fail, or not be installed.
The text of an error is one of six kinds, those the code tells apart. A record
is the state it names.

**CgroupFind** (`_discover_cgroup_paths` and its helpers). Each look is an
action; the job's group comes up or goes between two. The host is one of all
combinations of name, membership, environment and rights. A look at the members
of a directory reads only the first 16 pids (`max_pids`); `host.telling` says
whether the job has a process that can be read and carries its id, and whether
one is among those 16 all along (`first`) or only at some looks (`late`).
`Members` is the set of outcomes of one such look.

**PendingFit** (`resolve_cluster_partitions`, `_fetch_free_gpus_by_partition`,
`fit_blocker`, the count of available nodes, the tips). Two sinfo queries with
load moving between them, on five pairs of nodes under fourteen requests.

Run `command_line`:

| property | what it shows |
|---|---|
| `OptOutHolds` | no step and no login where they were declined, whichever way the ladder is climbed |
| `GuardHolds` | the terminal is given back, and a signal reaches the child |
| `AbsenceIsTrue` | a failed query is never reported as "no jobs", nor a live job as unknown |
| `OnePayload` | `--once` prints one row at most, and one if it succeeds |
| `GroupIsOwn` | another job's or a daemon's group is read only on this process's own claim, and never under version 1 |
| `FoundIfThere` | a job that is here all along and can be told for sure (`Tellable`) is found |
| `RoomIsNotHidden` | a partition with room at both queries is not called full, and nobody is told to wait while one they may use has room |
| `PermanentIsHardware` | a verdict that waiting cannot clear is about the hardware |

All of these end, so deadlock is not checked. Three moves of the job are one
before, between and after the two queries that disagree. Two nodes give alike
and unlike ones, and a job on two.

## 12. Proofs

`tlapm` checks every statement below for every value of the constants that the
named assumptions allow: `ConstAssumption` and `SilenceAfterStuck` (the
switcher), `LogFileAssumption` and `ExistingAssumption` (what may be in the
file before the first run), and one `...Assumption` for each other module with
constants, in that module; `Hop` and `CgroupFind` have none. TLC evaluates all
of them. No theorem has an assumption of its own.

Every safety invariant and every action property of the passing runs is stated
by a theorem:

| module | about | theorems |
|---|---|---|
| `NodeSwitchProofs` | `NodeSwitch` | `TypeCorrect`, `IndInvCorrect`, `StreamsSafe`, `ScreenTrue` (conjunctions of the six before them), `Refinement` (the step simulation of `NodeView`) |
| `LogFileProofs` | `LogFile` | `TypeCorrect`, `ClaimInvCorrect`, `TruncatorsNeverMeet`, `TruncationSafe`, `SpliceInvCorrect`, `HeadingInvCorrect`, `ResumedLogWhole` |
| `HeadlessProofs` | `Collector`, `Headless` | `TypeCorrect`, `NewestFrameSurvives`, `SessionRunsInOrder`, `QuietOnceStopped`, `RunOwnsCollector`, `LogTrue` |
| `MeterProofs` | the meters | `MemoryTrue`, `CpuTrue`, `AccountTrue`, `FabricTrue`, `NvLinkTrue`, `GpusTrue`, `SampleWhole`, `SampleKept` |
| `ScreenProofs` | `NodePrompt`, `Picker`, `JobWatch` | `BannerTrue`, `NoYank`, `ListTrue`, `EndTrue` |
| `LogViewProofs` | `LogTail`, `LogView` | `FastPath`, `ReadInPieces`, `FileShown`, `ScreenNotBlank` |
| `CommandLineProofs` | `Hop`, `CgroupFind`, `JobQuery`, `PendingFit` | `NothingStays`, `OptOut`, `OwnGroup`, `HereIsFound`, `AbsenceTrue`, `OneRow`, `PermanentHardware`, `RoomShown` |
| `SetLemmas` | finite sets and sequences | lemmas only |

### The inductive invariants

None of the properties is inductive as it stands. What each needs in addition
was given to TLC as an invariant of the module's run before it was proved (but
for the types of sequences, which it cannot enumerate); each proof has one step, or one lemma, per action.

*Switcher.* That a frame is filed under its own node depends on which child the
poll task holds while suspended in `readline`. `IndInv` adds what the code
relies on at each await: `HandleAtAwait` (which child is held where),
`FrameAtAwait` (whose frame is awaited), `FailureAtAwait` (a failure is pending
only on the way to its backoff; a node given up has no stream; the end of the
job is the end of the task). The refinement uses it to know that the frame
shown is the selected node's.

*Log file.* Exclusion rests on `ClaimInv`: who holds which lock at each step of
a truncating run (`ClaimHeld`), and that nothing of a run is in the file before
its loop (`OwnPayload`, `WrittenInLoop`), so that a truncation, which comes
before the loop, can only destroy what runs that have ended or that append have
written. That a resumed log is whole needs two more, both about a run that has
met no other. `SpliceInv`: such a run is the only one alive (`Alone`), and what
it has still to write carries on what is there (`SoloCarriesOn`) - it ends with
a newline what a killed run left of a record, or completes it, and leaves
nothing unfinished. `HeadingInv`: as long as no two runs met, the rows of the
file agree with its heading and each live run's rows with the layout it has
read, although it reads that before it holds a lock; a run that truncates has
no forced layout, and a heading is still owed only by a run whose file is empty.

*Collector and headless loop.* Types alone are not inductive: that NVML is shut
down once bounds `shuts`, and that room is left for a frame being collected
bounds `made`. `EnqueueKeeps` and `TakeKeeps` are the lemmas about the queue.
`RunOwnsCollector` needs only that the loop runs between the return of
`start()` and the call of `stop()` (`LoopOwns`); the theorems about the log
then use `Collector`'s invariant through it, with `WriteInHand`: the loop waits
for a frame only with the last one written.

*Meters.* `MemoryInv` keeps the running peaks above the figures beside them as
long as the controller answers (`Shown`); the alarm is then a fact about one
frame. `CpuInv` needs `Baseline`: a baseline belongs to the counter it was read
from, which has moved on since no faster than the job's CPUs can. `AccountInv`
is the deepest of these. `Balance` is a conservation law: what the account
holds and missed, with what the processes hold and what was read of dead
orphans, is what the job used with what is owed, that is, counted already and
still to be taken off because an ancestor is thought to report it again. It
holds at every instant because the code visits no process twice per poll and
knows of each whether its parent is in the job, but for those that lost it
later (`Kinship`, on the shape of the process tree, `Tree`); `Still` says what two polls without a fork,
exit or tick in between have brought up to date, where nothing is owed any more.
`LinkInv` says that a baseline is the sum of what its own ports had carried at
its own time; the windows then join. For `GpuInv` what matters is where each
device stands in three orders (the job's list, NVML's, and that of those that
opened).

*Screens.* `PromptInv`: the notice of the end is up exactly after the end, and
a number that waits was typed on the node still shown. `PickerInv`: outside a
rebuild rows, rendered key and list are one sample (`OneSample`), and the job
the cursor is known to be on is where the list has it, or where the rebuild in
progress remembers it (`OnCursor`). `WatchInv`: which pass can be under way in
which view.

*Log viewer.* That the screen is the file relates three parties that move by
themselves: the file, the read in its thread, and the screen. `LogViewIInv`
has one part for each stage. `ViewFits`: the screen is one pass over the file
from its starting offset to the tail's, unless the file was swapped since or a
doubt was noted; `Known`: an identity that the file has lost never comes back, so
that a tail that still has the file's identity is about this file. `OpenFits`: a
read that goes on from a stat is the screen's own tail, one that starts over
has a blank line and an identity that is not in the future. `AnewFits` and
`MoreFits`: an answer that starts over is one pass over the file as it was read,
one that goes on is what follows the offset of the screen. `ReadUpTo` allows a
tail to stand past the end of a file that shrank between stat and open. Below
this are the lemmas about the line assembler: `FastPath`, that a chunk without
carriage returns fed line by line leaves what it leaves character by character,
and `FeedConcat`, that it does not matter where a text is cut. `ReadInPieces`
puts both together.

*Command line.* `Hop`'s guard needs how many guards are entered at each rung
(`Ladder`) and that signals are masked only around the spawn; its opt-out needs
which rungs can be stood on at all where something was declined. `CgroupFind`'s
search needs `Passed`: that it stands at a look means that the looks before it
saw nothing, and what that says of a job that was there throughout: after the
look at this process's own group, that this process is not a confirmed member
of the job; after the look at members, that none of its processes is among the
first 16 for sure. `QueryInv`
carries along what a failure proves: Slurm calls an id invalid only if the job
was at some moment unknown to it. `FitInv` needs that a verdict called permanent
is about the widest node there is, whatever is busy; `LooksInv` that the load
counted and the load summed are ones the cluster had.

### Without induction over data

A recursive definition cannot be unfolded by induction here. Sums over sets, the
largest member of a set, folds over sequences and ascending order are
`CHOOSE`s or recursive functions of the community modules, and the proofs reach
them through sets instead: if some finite set had no such value or had two, a
smallest one would exist (`SmallestSubset`, `LeastNumber`), and removing a
member from it gives a smaller one (`SumUnique`, `SumExists`, `ClimbExists`,
`MaxBounds`); likewise a set of texts that has the empty one and is closed under
one more character has them all (`SequencesGrow`). The places of a sequence
that pass a test are taken by `AtPlaces` of `Places`, in ascending order, since
the library's `SelectSeq` and `SortSeq` give the provers nothing to hold on to;
TLC evaluates both the same.

### Only model-checked

Liveness (`NeverLeftDimmed`, `ReachableNodeShown`, `StreamsEnd`,
`AttachExplained`, `CollectorProgress`, `RunEnds`, `PlaceholderEnds`,
`ForeignEndIsSaid`): fairness and ENABLED are out of the prover's reach. The two
runs that expect a violation are TLC's by nature. The type invariants of
`NodeSwitch`, `LogFile`, `Collector`, `NodePrompt`, `CgroupFind`, `JobQuery` and
`PendingFit` are theorems, those of `ProcCpu` and `JobWatch` parts of proved
invariants; those of the other modules hold in the states of their runs when
added to the configuration, and the proofs use of them the parts they need, which
the inductive invariants contain.

## 13. Where the code and its comments disagree

Shown by a run of their own:

* `RecordingSeenAcrossHosts` (`log_across_hosts`): looking at the tail of the
  log through a second descriptor drops the record lock just taken
  (`cli.py:1942`).
* `ChosenIsHighlighted` (`picker_choice`): between the mounting of new rows and
  the commit, and for longer if the poll is cancelled there, Enter opens another
  job than the highlighted one (`tui.py:5397`, comment at 5401).

Stated as definitions that TLC refutes when given as an INVARIANT or PROPERTY
of the module's run (with the change of constants or specification named):

* `GaveUpIsOwn`: `_read_remote` stores the verdict on a dead stream after an
  await, without checking that its node is still the selected one; a node just
  selected can be given up for a fault of the previous one (`tui.py:4418`,
  comment at 4559).
* `GiveUpIsSaid` (under `FairSpec`): a node that dies for good after its switch
  completed is given up with no banner (`tui.py:4418`, comment at 4408).
* `RowsUnderHeading` (two appending runs): both find the log empty and both
  write a heading (`cli.py:3582`, docstring at 3314).
* `CollectionGetsGrace`: `stop()` never waits for the collection in flight,
  because cancelling the sampling task cancels the very future it then tests
  (`collector.py:458`, comment at 454).
* `SignalEndsRun` under `HangSpec`: a collection that hangs is abandoned by
  `stop()` and then joined by `asyncio.run` (`cli.py:3703`).
* `NoneIsLost` (`ProcCpu`): the ticks read of a process that loses its parent
  after its first read are handed back when it dies, although nobody in the job
  reports them again; `AccountSettles` counts them as `stray`. The docstring of
  `_accumulated_proc_cpu_ns` has it that no interval can lose a generation
  (`collector.py:1321`, of orphans at 1318).
* `PeakNeverFalls`: where the controller did not answer, the peak shown is
  raised to the processes' resident sum, and not remembered: the next frame can
  show less (`collector.py:1592`; `_apply_peaks`).
* `NoNonsenseSpike`: a port that comes back adds its whole counter to one
  window (`collector.py:1990`).
* `FoundIfReadable`: a job whose directory has an opaque name, and whose
  processes that can be read and carry its id come after 16 others in pid order
  (slurmstepd's of its steps, processes without the variable), is declared
  elsewhere by the node it runs on (`max_pids`, `slurm.py:2341` and 2353; the
  docstring at 2385 calls the look "the universal last resort" that "returns the
  child whose processes belong to the job"). If such a process moves up among
  the 16 between two looks, the scope of all jobs may be taken for the job's
  (the `late` case of `StrangerByClaimOnly`).
* `OwnJob`: the environment is accepted for a group that is another job's, as
  in a shell of one job from which another is asked for (`slurm.py:2371`).
* `FinishedIsTrue`: a job still queued at the second look is reported as
  finished (`cli.py:1019`; `tests/test_cli.py:5218` has the token for jobs that
  have).
* `VerdictOutlivesLoad`: whether a verdict is permanent still depends on what is
  busy (`pending.py:1463`).
* `PlaceholderAlwaysEnds`: after `r` during a gather the cancelled pass clears
  the in-flight flag under the new one, whose gather the timer then cancels with
  the same effect, tick after tick (`tui.py:6342`, comment at 6256).
* `PlaceholderEnds` under `SilentSlurmSpec` of `JobWatch`: a
  `resolve_pending_job` that fails, or takes longer than the 15 s timeout, at
  every pass leaves the view unfilled and the placeholder in place for ever
  (`tui.py:6353`; the comment at 6256: "a placeholder that correctly says
  "still working" must not be able to say it indefinitely"). The screen has no
  state for it. `ForeignEndIsSaid` fails there in the same way.
* `PromptIsEchoed`: a frame that ends a switch hides the banner on which a
  half-typed number is being echoed (`tui.py:4634`, docstring at 1697).
* `LinesAreOfShownFile`: an answer about the file left is rendered under the
  title of the file selected since (`tui.py:3589`).

Read off the code and checked by no run: a reason reported after the switch
banner latched never reaches it, as `_mark_switch_stuck` pauses the timer that
is its only caller (`tui.py:4721`, comment at 4704); `_headless_loop` says a
remote collector never latches `job_ended` (3449, 3492), but `start()` creates
its liveness task for remote jobs too; a signal that meets a stuck sink exits
with 0 (3679), not with the 128+signum of the docstring (3465); NVML may be
shut down without its lock, although `__init__` (354) says that can never
happen. Attaching by index with a device that cannot be opened shifts the
numbers of the devices after it, which is why `OrdinalsAreCudas` exempts that
case; a failed VRAM query lets another user's load count as the job's, which
`ActivityIsOwn` exempts; an error that replaces the body of the log view leaves
its offset standing, so that what was shown is not read again (doubt `cleared`);
the foreign view's timer has no in-flight guard and can cancel every pass
before it ends, which `ForeignEndIsSaid` exempts; nodes flagged by sinfo count
as having no GPU, a permanent verdict about a passing state, which
`PermanentIsHardware` exempts; a terminal that ssh's loss leaves in the
alternate screen stays there, which `GuardHolds` exempts.

## 14. Not modelled

* Snapshot model (`model.py`): data classes and the flattening to CSV and JSON;
  `LogFile` abstracts the columns to a layout.
* Configuration, units and exceptions: parsing and formatting with no state.
* Within the modelled components: demo mode, the launcher detector, the per-core
  view and load averages, MIG and the GPU process table, the wording, drawing
  and scrolling of all screens, the help screens, start estimates, priorities
  and queue positions, hostlist expansion and the parsing of Slurm's records,
  argument parsing and shell completion. These are pure formatting or parsing,
  and in the models an answer stands for the text it is parsed from.
