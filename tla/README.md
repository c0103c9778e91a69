# Verification of the serverless `sched_ext` schedulers

TLA+ models, TLC runs and TLAPS proofs about the programs of this repository:
two variants of a `sched_ext` scheduler that favours short functions
(`sched_ext/`), and the load generator that drives them (`loadgen/`).
Source paths below are relative to the root of the repository.

## 1. The system

### Components

**`ask_userspace`: BPF scheduler** (`sched_ext/ask_userspace/*.bpf.c`).
State: two BPF queue maps of 4096 entries (`enqueued`: pids to the daemon,
`dispatched`: pid and slice back), the wake-up flag `usersched_needed`, the ring
buffer `wake_ringbuf`, counters in `.bss`, a `task_ctx` per task (`slice`,
`has_slice`), the queue `SHARED_DSQ_ID`, and `global_vtime`.
Operations: the `sched_ext` callbacks `enable`, `disable`, `select_cpu`,
`enqueue`, `dispatch`, `stopping`, `update_idle`, `running`.
Hard: callbacks of different tasks and CPUs overlap; a task that `enqueue` puts
nowhere runs again only if another context inserts it later; a pid is all that
names a task on the way through the daemon.
Correct means: no task is forgotten while it is withheld, none is queued before
it has a slice, none is stuck after it has one, the right ones get the infinite
slice.

**`ask_userspace`: daemon** (`sched_ext/ask_userspace/*.c`, one thread).
State: `dispatch_head` (a STAILQ), `tasks[pid].is_queued`, `nr_curr_enqueued`,
`exit_req`. Operations: drain the map, read `/proc/<pid>/cmdline`, queue, answer
in batches, block in `ring_buffer__poll(rb, -1)`; a signal handler.
Hard: the daemon decides to sleep from what it read a moment ago; it keeps three
records of one list; a full map stops a batch in the middle.
Correct means: it never sleeps on a request, its records agree, it exits when
told to.

**Kernel variant** (`sched_ext/scx_serverless.bpf.c`). The slice is computed in
`ops.enable` from the task's memory, so nothing is withheld. State: `task_ctx`
(`slice`, `last_sum_exec_runtime`), `dsq_vtime`, `global_vtime`, the shared
queue. Hard: `global_vtime` is raised by compare-and-swap from several CPUs and
clamps what sleeping tasks accumulate; the double-tap kick of `enqueue`; a task
that leaves and re-enters finds its old `task_ctx`. Correct means:
`global_vtime` never goes back, a task is charged what it ran, no task waits
beside sleeping CPUs, CPU 0 runs none of them.

**Loaders** (`main` of both `.c` files). State: `exit_req`, the link, the
exit info `uei`. Hard: exit, ejection and restart meet in one flag; a loader is
itself a task of the scheduler it watches. Correct means: a restart requested by
the kernel serves again, a scheduler ejected for an error is noticed, a signal
ends the program.

**Slice parsers** (`get_task_slice`, `parse_fib_arg_from_cmdline`, two copies of
`fib_slice_map`). Pure; correct means the two variants agree on every command
line the load generator starts.

**Workload executor** (`loadgen/exec_workload.py`). A main thread, four
launchers and a reaper share a queue, a dictionary of children under a lock, and
a result list. Hard: the 3-second `get`, a child that exits before it is
registered, a launch that fails, `join` on work nobody will do. Correct means:
every entry of the workload is launched once, every child is reaped and recorded
under its own index, and the program ends.

**CPU monitor** (`loadgen/utils/cpu_monitoring.py`). A sampling thread stopped
by a flag that the thread itself sets when it starts, and a join with a timeout.
Correct means: the file has every sample of the simulation and no other.

**Workload generator** (`loadgen/dataset/gen_workload.py`). Joins two tables,
puts durations in buckets, samples each bucket and minute, sorts, and writes gaps
and arguments. Hard: boundaries, rounding, and which gap goes with which entry.
Correct means: the sample has the mix of the trace, and entries are due when
their invocations occurred.

**Test setup** (`loadgen/run_experiment.sh`). With `--test` the workload file is
replaced by its first lines and restored by a handler. Hard: a crash, a failure
or a signal between any two commands; files that are appended to under a name an
earlier run has used. Correct means: the workload is never lost, and what is
measured is what was asked for.

**Trace parsers** (`loadgen/analyze/parse_trace.py`,
`parse_from_workload_events.py`). They look pids up by their digits in the lines
of a trace. Hard: a pid inside another, a pid that is used again, lines that the
tracer dropped. Correct means: every process has its own times or the parser
gives up.

**Payloads, capture scripts, statistics, plots, build**: no state of their own.

### Interactions

`exec_workload.py` starts `run_with_sched_ext`, which enters `SCHED_EXT` (the
kernel calls `ops.enable`) and execs the function. `enable` pushes the pid onto
`enqueued` and sets `usersched_needed`; the next `ops.dispatch` of any CPU
clears the flag, queues the daemon's task and writes to the ring buffer; the
daemon wakes, drains, reads the command line, pushes the answer onto
`dispatched`; the next `ops.dispatch` pops it, stores the slice and inserts the
task in the shared queue, from which every CPU but 0 takes work.

## 2. Modules

| module | models | lines of code it stands for |
| --- | --- | --- |
| `AskMaps` | what the two halves share, and the processes of the machine | maps, `.bss`, header |
| `AskBpf` | the BPF half and the kernel around it | `*.bpf.c` |
| `AskDaemon` | the daemon half | `*.c`, the main loop and what it calls |
| `AskUserspace` | both together, fairness, properties | |
| `SliceGate` | abstract: a task is withheld until it has a slice | |
| `MCAskUserspace` | instances for TLC | |
| `AskUserspaceProofs`, `AskRequestProofs`, `AskGateProofs`, `AskOnceProofs` | theorems of `AskUserspace` | |
| `ExecWorkload` | the workload executor: main, launchers, reaper, children | `exec_workload.py`, the log of `exec_utils.py` |
| `Invocations` | abstract: entries are issued in order, each launched at most once and collected at most once | |
| `MCExecWorkload` | instances for TLC | |
| `ExecWorkloadProofs` | theorems of `ExecWorkload` | |
| `ServerlessBpf` | the kernel variant and the kernel around it | `scx_serverless.bpf.c` |
| `ServerlessLoader` | its loader | `scx_serverless.c` |
| `ScxServerless` | both together, fairness, properties | |
| `VtimeQueue` | abstract: a CPU takes the least of what has waited since it began to look, and nothing twice | |
| `MCScxServerless` | instances for TLC | |
| `ScxServerlessProofs` | theorems of `ScxServerless` | |
| `ParseTrace` | the tracer and both trace parsers | `parse_trace.py`, `parse_from_workload_events.py`, the metrics of `graph_per_proc_times.py` |
| `MCParseTrace` | an instance for TLC | |
| `ParseTraceProofs` | theorems of `ParseTrace` | |
| `GenWorkload` | the generator, as operators on a trace | `gen_workload.py`, the counts of `compare_workload_to_azure.py` |
| `Simulation` | a run in time: the main loop and the CPU monitor | `exec_workload.py` (main), `cpu_monitoring.py` |
| `Experiment` | the script around both, the files, crashes and signals | `run_experiment.sh`, what the runners append |
| `MCExperiment` | instances for TLC | |
| `ExperimentProofs` | theorems of `Experiment` and the modules under it | |

### `AskBpf`

A callback is cut where another callback or the daemon can see the difference.

| code | actions |
| --- | --- |
| `serverless_enable`, `create_task_ctx` | `EnableCtx` (new context, `has_slice` false), `EnableFails` |
| `enqueue_task_in_userspace` | `EnablePush`, `EnablePushFull`, `EnablePushRejected`, then `EnableFlag` |
| `serverless_select_cpu` | `Wake` |
| `serverless_enqueue` | `Enqueue` (reads `has_slice`), `EnqueueReturn` (the kernel marks a task that was put nowhere) |
| `serverless_stopping` | `Stop` |
| `serverless_dispatch` | `DispatchBegin` (test and clear the flag), `WakeUsersched` or `WakeFails`, then per answer `PopDispatched`, `LookupTask`, `ApplySlice`, `InsertTask` or `InsertOverflows`, then `Consume` and `Flush` |
| `serverless_update_idle` | `UpdateIdle` |
| `serverless_disable` | `Disable`, `Exit` |

`where[p]` is the kernel's side: out of `SCHED_EXT`, running, asleep, inside
`ops.enqueue` before and after it read `has_slice`, held by the BPF scheduler,
or on the shared queue. `ctx[p]` is `task_ctx`: none, `has_slice` false, or
the slice. `scx_bpf_dsq_insert_vtime` from `ops.dispatch` only fills a slot of
the CPU's dispatch buffer; the kernel carries the buffer out after the callback
(`Flush`), and drops an insertion whose task was dequeued or enqueued since
(`Revoke`): this is the kernel's `ops_state` with its sequence number, modelled
from how the code relies on it and marked external. External too: a kfunc
insertion from `ops.enable`, where no task is being enqueued, is without effect
(`EnablePushFull`) or an error (`EnablePushRejected`), both allowed; the buffer
has a fixed number of slots (`MaxBatch`) because `serverless_ops` does not set
`dispatch_max_batch`.

Abstracted: `vtime`, which CPU is idle, kicks, statistics. They order tasks and
choose CPUs, and never decide whether a task is withheld. A command line is
`short` (24 to 35) or `long` (everything else).

### `AskDaemon`

`dpc` is the place of the thread in `sched_main_loop`: `LoopHead`; `drain`
(`DrainOne` per pid with `LocalEnqueue`, `LocalEnqueueDup` or
`LocalEnqueueFails`, then `DrainEnd`); `batch` (`DispatchOne`, `BatchEnd`);
`CheckEmpty`; `WaitForWork`; `Detach`. `Signal` may come at any point. Reading
the command line can give nothing (the process is gone or execs), hence slice 0.

### `ExecWorkload`

`mpc`, `lpc` and `rpc` are the places of the main thread, the launchers and the
reaper. The state of a thread changes in one step where the code holds the lock
or works on the queue, and every blocking call is a step of its own.

| code | actions |
| --- | --- |
| `main`, dispatch loop | `Dispatch`, `DispatchEnd` |
| `main`, cleanup | `JoinQueue`, `PutPoison` per `None`, `JoinLaunchers`, `JoinReaper`, `LogOutput` |
| `launcher_worker` | `Get`, `GetPoison` or `TimeOut`; `Lock`, `Popen` or `PopenFails`, `Register`; `TaskDone` |
| `reaper_thread` | `ReaperTest`, `Wait` or `WaitNoChild`, `Pop`, `Record` or `RecordFails` |
| the child processes | `ChildExits` (external) |

`unfinished` is the count of `queue.Queue` that `task_done()` lowers and `join()`
waits for. `Popen` and `Register` are two steps although both are under
`tasks_lock`: the child may exit, and the reaper's `os.wait()` return, between
them. `silent` holds the processes that ended without printing their pid, which
the log needs. An entry is its number and so is its child: no pid is used twice
in a run, which takes more children than a run has. Time is abstract. What remains
of it is `LongGap`: when every gap is below 3 seconds, the last launcher cannot
time out while main is dispatching, because the launcher that took the previous
item began its wait after it was put, and the next item comes first.
`Failures` says what may fail: launching (`fork` out of processes or
descriptors), a function, or reading its output.

### `ServerlessBpf`, `ServerlessLoader`

| code | actions |
| --- | --- |
| `serverless_enable`, `create_task_ctx` | `Enable` |
| `serverless_select_cpu` | `SelectIdleCpu`, `SelectBusyCpu` |
| `serverless_enqueue` | `ReadLimit`, `Insert`, then `WakeIdleCpu` or `DoubleTap` |
| `serverless_dispatch` | `Balance` (CPU 0 returns), then per task `Iterate`, `ReadVtime`, `ReadGlobal`, `RaiseGlobal`, `Move` |
| `serverless_stopping` | `Stopping`, in `Block`, `Leave` and `PutPrev` |
| `serverless_disable` | `Leave` (the storage stays) |
| `bootstrap` | `Bootstrap` (open, load, attach), `Enter` (`sched_setscheduler`, hence `Enable` of the loader) |
| `sched_main_loop` | `LoopPrints`, `LoopSleeps`, `LoopWakes`, `LoopEnds` |
| `main`, `sigint_handler` | `Cleanup`, `Report`, `Signal` |

The loader is the task `Loader`. Once it is under its scheduler it takes a step only
while a CPU runs it (`OnCpu`), and what the BPF half does with it is what it does
with any task. External: `Eject`, an ejection for an error or with a request to
restart, and `Stalled`, the watchdog, which ejects a scheduler that leaves the
loader waiting. With `Loader = NoTask` the loader keeps to its own class, as a
process of another class would; its place among the tasks is then left out.

A call of `ops.enqueue` is cut after it read `global_vtime`, after the insertion
and before the wake-up, and one of `ops.dispatch` at every access to what other
CPUs change. `mode[c]` is the place of a CPU in the kernel's scheduling loop;
between `pick` and `idle` it is past the queue and not yet in the idle mask,
which is the window the double tap is for. Runtime is counted in ticks,
`SCX_SLICE_DFL` being `Dfl` of them; a task runs at most `MaxRun` ticks in its
life, so that counters are bounded. The iteration of a queue sees the tasks that
were there when it began: `newer[c]` holds what was queued since. `scx_bpf_dsq_move`
fails for a task that left the queue meanwhile, and, by the sequence number of the
queue, for one that left and came back (external). Abstracted: the characters of the command line (whether
a task is `Short` is chosen), statistics, `cpuperf`.

### `ParseTrace`

The tracer's side is external: forks, switches, migrations and exits in any
order a kernel allows, each put in the trace or dropped. A pid may be given out
again after its process ended. `Read` is one round of the loop over the pids:
which of them sees a line that is an exit of one depends on the order of a set,
and is left open (`Kept`). `ScanTo` is the state machine over the events of a pid, by
the number of events read, `Scan` its last state, `Valid` the test at its end. The
`elif` chain is in the guards of `Step`: an exit that was found ends the scan, and
the other branches ask for different types of events. `life` records what really happened. Digits are
abstract: `Within` and `Prefix` say which pid is found in which. `lostEnd` holds the
pids whose first exit was among the dropped lines.

### `GenWorkload`, `Simulation`, `Experiment`

`GenWorkload` has one operator per list or frame of the script, with its name.
Times are whole numbers (a minute has `MinuteLen` of them) and rounded down,
which keeps their order; items of the same time stay in the order of their
arguments, as in the stable sort. A unit of time is so short that no two
items of one argument get the same time (`ResolutionAssumption`), as with the
script's seconds, which are not whole.

`Simulation` is the executor's main thread in ticks and beside it the monitor
thread. What happens to an entry after `put` is `ExecWorkload`'s subject. A tick
passes only where the main thread reads the workload or waits, and each of these
may take up to `Late` ticks too long. `stop_cpu_monitoring` is cut into
`StopMonitoring`, `FilterSamples` and `WriteSamples`: a thread that was not joined
may append to the filtered list before it is written.

`Experiment` is the script command by command (`pc` is the next one): `Copy`,
`HeadLines`, `TestMove`, `SetTrap`, `Sync`, `ChangeDir`, twice `Measure` and
`Measured`, `SyncBack`. What may come between: `Fail` (`set -e` and the handler),
`Crash` (the machine goes down, or the script ends before its handler is set) and
`Signal`, which bash handles when the command that runs has ended (`Handle`) and
then goes on with the next command, in the directory the handler changed to.

## 3. Properties

Safety: `NoLostTask`, `NoLostWakeup`, `NoStuckTask`, `DaemonListConsistent`,
`ManagedHasCtx`, `GateRespected`, `InfOnlyForShort`, and one type invariant.
Refinement: `ImplementsGate`, the composition implements `SliceGate`.
Liveness: `WithheldIsReleased`, `HeldIsQueued`. Statements of comments that the
code does not keep: `ExitIsHonoured`, and `GateRespected` and `InfOnlyForShort`
once a pid may enter twice (section 6). Each is stated in words above its
definition in `AskUserspace`.

`ExecWorkload` has `CountMatches`, `JoinMeansHandled`,
`ChildrenTracked`, `NoResultDropped`, `Complete`, the refinement
`ImplementsInvocations`, and the liveness properties `Terminates` and
`LaunchersCatchUp`, which hold up to a launch that failed. `Invocations` counts
how often each entry was launched and collected, so a second launch or a second
result is a step it does not have. `EntryInOnePlace` is proved only: it is
the invariant that the proof of the refinement rests on, and says more, since it is
also about entries that are queued or in hand.

`ScxServerless` has `NoWorkAsleep` (the double tap), `GlobalNeverBack` (the
compare-and-swap), `ChargedForRun` (a task pays exactly what it ran; the first charge
after a return to its old `task_ctx` is excepted, because it is wrong, section 6), the
refinement `ImplementsQueue`, which rests on `QueueOrdered` (proved only), and, with
the loader, `WaitingRuns`, `LoaderEnds` (who is told to exit, or has the scheduler
ejected for an error, ends) and `ServesUntilTold` (who is asked to restart does not),
which the code does not keep. `ImplementsQueue` is about what `serverless_dispatch` does while
another CPU may take, charge and queue again the task it has come to: it must then
not take that task, and what it takes must be the least of what has waited.

`ParseTrace` has `TimesAreOwn` and `EndsAreOwn` (no process takes the times of
another, with all lines and with lines dropped; `EndsAreOwn` excepts the end of a pid
that was used again and whose first exit line was dropped, section 6),
`FailsOnlyOnLoss` (the parser
does not give up without a reason).

`Experiment` has, on the generator, `CountsKept` and `NotAheadOfTrace`, and
`LaunchedWhenDue`, which does not hold; on the script `WorkloadKept`,
`RestoredAtEnd`, `MeasuredAsAsked` and `LogsOfThisRun`; on the run `NoDrift` and
`SamplesComplete`.

## 4. Runs

| cfg | instance | shows |
| --- | --- | --- |
| `AskTwoTasks` | 2 pids that enter once, 1 CPU, `dispatched` of 1 | no wake-up is lost with a full map on the way back; the gate; the refinement |
| `AskReenter` | 1 pid that enters twice, 2 CPUs with CPU 0 | duplicates, stale answers, revoked insertions, a full map on the way out |
| `AskLive` | 1 pid that enters twice, 1 CPU, signals, exit | every withheld task is released, every held task queued |
| `AskExit` | violation of `ExitIsHonoured` | a signal between the test of `exit_req` and the poll |
| `ExecFailures` | 3 entries, 3 launchers; launches, functions and the reaper may fail | every entry started once and collected once, no result dropped, the records and the count of `join()` stay right, the refinement, no deadlock; the program ends, with its output written unless a function was silent or the reaper ended early |
| `ExecLongGap` | violation of `LaunchersCatchUp` | all launchers time out in a gap of the workload |
| `ScxServerless` | 2 tasks, one of which returns, 2 CPUs besides CPU 0 | the queue as seen from outside (`VtimeQueue`), `global_vtime`, the charges and the wake-ups with two CPUs dispatching at once |
| `ScxLive` | 1 task of the workload and the loader, which may run on CPU 0; CPU 0 and another; an ejection, a signal, the watchdog | tasks of the workload run; the loader ends and leaves nothing behind |
| `ScxRestart` | violation of `ServesUntilTold`, same instance | a restarted loader leaves its loop at once |
| `ParseTrace` | every trace of 9 lines, pids 2 and 12, one may be used again, one line dropped | no times are mixed up |
| `Experiment` | 4 traces, 2 workloads, 2 experiments, one crash or failure, one signal | the mix of the sample, the test mode at every crash point, the times and the samples of a run |
| `ExperimentGaps` | violation of `LaunchedWhenDue` | every entry is put at the time of the next one |

**Bounds.** `QCap` and `DCap` of 1 or 2 stand for 4096: what matters is a map
that is empty, partly filled and full, and a second request behind the first.
`RingSlots` of 1 makes a full ring buffer happen; 2 leaves room in the runs about
something else. `MaxBatch` of 2 is a wake-up and one answer, or two answers, so
the buffer overflows; `BatchSize` of 1 makes a batch end early, of 2 not.
`MaxEnables` bounds how often a pid enters `SCHED_EXT`: 1 for the properties
that hold only while a pid names one life of one task, 2 to let every variable
meet a value of an earlier life. Two pids see every relation between a task and
another one: requests are handled one by one and tasks share only the maps, and
two CPUs see every overlap of two calls of `ops.dispatch`. `Serving` stops
the exploration after an exit, where the safety properties promise nothing; the
liveness runs have no constraint. All pids of the runs are known to the daemon: a
pid beyond `pid_max` (`LocalEnqueueFails`) is covered by the proofs alone.
`N` and `Launchers`: three entries let three launchers be at work at once, one
take several, one none, and one entry fail beside others that do not; the
launchers are four in the code, and three are enough to be idle, busy and gone.
`MaxRun` of 2 with `Dfl` of 1 lets a task use up a slice, be queued again behind
`global_vtime` and be clamped; `MaxEnters` of 2 for one task lets it meet its old
context; with `MaxEjects` of 1 the restart is reached. The loader prints in a tick; its
rounds are bounded by its ticks, but for the round that ends its loop. Nine lines are two whole
lives of four lines and one more; a second life of a pid takes four. Two
experiments are the least in which one finds what another left: the four traces
have invocations in both minutes, in the second only, a single one and too few.
`TestLines` of 2 of 4 entries is a real cut; `Late` and `MaxAfter` of 1 tick,
samples and the timeout of 2, let a sample be open at every point of the end, and one
begin before the simulation does.

**Deadlock** is not checked in the runs of `AskUserspace`
(`CHECK_DEADLOCK FALSE`): the system stops after the scheduler exited, which is
its normal end. Nor is it in `ParseTrace`, which stops at the bound on the lines.
The others check it: `Terminated`, `Ended` or `Done` is the only step of a
program that ended, so a state in which all wait for each other is reported.

**Symmetry** is used where no liveness is checked: of pids in `AskTwoTasks`, where
all pids are known to the daemon, and of the CPUs besides CPU 0 in
`ScxServerless`, where every task may run on both.

**Fairness** (`Fairness`): a callback that began runs to its end (BPF programs
terminate); the daemon's thread runs, because `dispatch_user_scheduler` puts it
on the global queue whenever it asks for it and the poll returns when a message
is there; some CPU keeps calling `ops.dispatch`, as every CPU without work does.
No fairness is assumed of processes, signals, preemption or single CPUs beginning
a call. In `ExecWorkload` every thread that can run does, a launcher whose
process cannot be started takes the exception, and functions end (they compute a
number). A launcher need not time out, and nothing needs to fail. In
`ScxServerless` calls of operations end, a CPU that is awake goes through its
scheduling loop, a running task uses its slice, sleeps or ends, and the loader
wakes up every second. The loader's own steps need a CPU that runs it, which
the fairness does not give: it must come out of the queue, the kicks and the
scheduling loop like any task, or the watchdog (`Stalled`, a kernel's promise)
ejects the scheduler. A CPU that sleeps wakes up for a kick only: a kick that is
forgotten is not made good by fairness. Nobody needs to enter, wake up or leave.

## 5. Proofs

Proved for any number of pids and CPUs and any capacities:

- `TypeCorrect`: `Spec => []TypeOK`. `TypeOK` is not inductive: the
  daemon decrements `nr_curr_enqueued` and the dispatch buffers fill, so
  `TypeInv` adds what ties the counter to the list, the batch index to its bound,
  and the message a CPU works on to the place in the call.
- `ContextsExist`: `Spec => []ManagedHasCtx`, by `KernelInv`, which adds that a
  CPU's buffer only holds claims on tasks in the scheduler's hands and that a
  task inside `ops.enable` is not yet in them.
- `WakeupsAreNotLost`: `Spec => []NoLostWakeup`. Given the types it is
  inductive: every step that could put a pid in the map while the daemon is past
  its drain leaves one of the four carriers of the wake-up, and every step that
  removes a carrier hands it to the next.

- `RequestsAreNotLost`: `Spec => []NoLostTask`, on top of `DaemonRecordsAgree`
  (`Spec => []DaemonListConsistent`): ignoring a pid that is queued loses
  nothing because a raised `is_queued` means an entry in the list. `RequestInv`
  adds that a task has a context exactly while it is in `SCHED_EXT`, and that a
  context a CPU found has not been deleted behind its back.
- `NoTaskIsStuck`: `Spec => []NoStuckTask`, by `HeldClaimed`, the same statement
  from the moment `serverless_enqueue` has read `has_slice`.
- For a pid that enters `SCHED_EXT` once (`MaxEnables = 1`): `GateHolds`,
  `InfiniteSliceIsEarned`, and `GateIsImplemented` (`Spec => ImplementsGate`).
  The argument is one invariant, `NamedIsSpent`: a pid that is named in any
  queue, list or CPU has used up its entry, so what a CPU saw of it cannot have
  been replaced. The assumption is needed: with `MaxEnables = 2` TLC finds both
  properties violated (section 6).

`AskUserspaceProofs` holds the first three, `AskRequestProofs`, `AskGateProofs`
and `AskOnceProofs` extend one another. The lemmas on `In` and `InMsgs` under
`Append` and `Tail` come first in `AskRequestProofs`; each invariant then has one
lemma per actor (`TaskStep...`, `CpuStep...`, `DaemonStep...`) with one step per
action. The assumptions are those of the modules: capacities and batch sizes are
positive, and `KnownPids` is a subset of `Pids`.

Of `ExecWorkload`, for any workload, any number of launchers and any set of
failures (`ExecWorkloadProofs`):

- `TypeCorrect` and `JoinCountsRight` together, by `TypeInv`: `unfinished` stays
  a natural number because it counts the queue and the busy launchers, which
  needs that a launcher with work has an entry.
- `JoinIsEnough`: `Spec => []JoinMeansHandled`. A count of zero means an empty
  queue and idle launchers; afterwards only `None`s are put.
- `EntriesStartOnce`: `Spec => []EntryInOnePlace`, by `OnceInv`, which adds that
  whatever is queued, in hand or started has been dispatched, so that the next
  entry is new.
- `ChildrenAreTracked` and `NoResultIsDropped`, by `ChildInv`: a launcher between
  `Lock` and `Register` holds the lock, so nobody is registering when the
  reaper looks its child up, and a child that was reaped is then in
  `active_tasks`.
- `OutputIsWritten`: `Spec => []Complete`, by `WrittenInv`: main comes to the log
  only after the reaper, and the reaper ends with every result or by an error of
  its own. One function that ends without its pid makes the log of all results
  raise (`exec_utils.py:59`), hence the exception.
- `ExecutorImplements`: `Spec => ImplementsInvocations`. That the count of an entry
  that is launched or collected is still zero is `OnceInv` and `ChildInv`: an entry
  in the hands of a launcher was not started, a child that is recorded was not.

The assumptions (`ExecAssumption`): there is a launcher, their set is finite,
and `Poison` and `NoThread` are neither entries nor launchers.

Of `ScxServerless`, for any tasks, CPUs and bounds
(`ScxServerlessProofs`):

- `TypeCorrect` and `QueueIsOrdered`, by one invariant, `TypeInv`. That what a
  task ran is a natural number when `serverless_stopping` subtracts needs
  `Accounts` (what is not yet charged is `ran` plus `outside`); that an insertion
  finds its place in a sorted queue, and `Move` the task it holds, needs
  `QueueOrdered`; and both need `Detached`: a detached scheduler leaves no task
  and no CPU in its code. The lemmas on inserting into and removing from a sorted
  sequence come first.
- `StoppingChargesTheRun`: `Spec => ChargedForRun`, an action property, from
  `Accounts`: `outside` is all that a charge can have besides `ran`, and it is zero
  but after a return.
- `ClockNeverBack`: `Spec => GlobalNeverBack`, by `CasRaises`: a CPU at its
  compare-and-swap holds a vtime above the value it compares with, so that the
  swap, which only succeeds on that value, raises it.
- `NobodySleepsOverWork`: `Spec => []NoWorkAsleep`, by `WakeInv`. `NoWorkAsleep`
  is about all CPUs and far from inductive. `Sought` gives every waiting task its
  own guarantee: the CPU that inserted it has yet to kick one, or some CPU but
  CPU 0 seeks it: is kicked, runs or is on its way to `ops.dispatch`, has a local
  task to run first, or is iterating and the task was queued before. The steps that
  matter are the end of an iteration (a CPU leaves `iterate` without work only if
  every waiting task is newer, so none relied on it but through a kick), a
  task that is taken by one CPU while another holds it, and an insertion into a
  queue whose iteration has begun, which hides the new task from it: there
  `tokick` is the guarantee until a CPU was kicked or found busy. `AwayFromCpu0` is
  needed because CPU 0 never iterates: the tasks of the workload may not run on
  it, and so never wait behind it.
- `QueueIsImplemented`: `Spec => ImplementsQueue`, by `HeldIsLeast`: while a CPU
  holds a task that still waits for its iteration, no task that the iteration comes
  to has a smaller vtime. It holds when the task is come to, because the queue is in
  order (`FirstIsLeast`), and stays true although others take and insert, because
  what is inserted is newer than the iteration (`StillLeast`). There is one lemma
  per actor on what the queue looks like from outside (`TaskStepUnseen`,
  `InsertSeen`, `CpuStepKeepsQueue`, `MoveSeen`), and the step is put together in
  `StepImplementsQueue`.

Of `ParseTrace`, for any pids, relation between their digits, number of lines and
of losses (`ParseTraceProofs`):

- `OwnTimes`, `OwnEnd` and `NoFalseAlarm`. The scan is a recursive function, so
  its values are proved step by step: `ScanToScans` says that it is the function
  that its equation defines, `ScanAppend` that one more event is one more `Step`.
  `KernelInv` says what lives of processes are: their times are in their order,
  and a pid is used again only after an exit. `ScanInv` compares the parser with
  it, after every line: a process with no line lost is looked for up to its exit
  and its scan shows its first life (`OwnScan`); with lines lost, start and end
  are its own or missing, and the first time on a CPU is not too early
  (`OwnEnds`), where a pid whose first exit was not dropped is looked for exactly
  up to it, so that no later life is read. A line about another process changes nothing of it, because it
  names no pid that is unambiguous (`OtherLine`); for its own lines there is one
  lemma per kind (`ForkLine`, `SwitchLine`, `MigrateLine`, `ExitLine`).
  `PhaseInv` carries this past the end of the trace: times are rows of valid
  scans, and a parser that gave up had a pid without a valid scan, which
  `GoodScan` excludes.

Of `Experiment`, for any traces, tables, workloads, numbers of runs and
interruptions (`ExperimentProofs`):

- `WorkloadNotLost` and `WorkloadRestored`, by `FilesInv`: at every command of
  the script, which of both files holds what, in a test and outside one.
- `AsAsked` and `OwnLogsOnly`, on top of it, by `Copied` and `OwnLogs`.
- `TypeCorrect`, by `Typed`: a workload file is a sequence of entries whose gaps
  are natural numbers, which is to say that the times are sorted before they are
  subtracted. `OccurTimes` says that the items are a finite set,
  by the lemmas on quotients (`Quotient`, `QuotientBound`) and the finiteness of
  each bucket (`BucketCounts`); by `Ranks` every place of the sorted list is taken,
  and by `SortedTimes` its times do not decrease.
- `NeverAhead`: `Spec => []NotAheadOfTrace`. The gaps up to an entry add up to
  at least the time of the item after it (`GapsAddUp`, `GapsReachTime`), and the
  items before that one have no later time.
- `DriftFree`: `Spec => []NoDrift`, by `Paced`: between two entries
  `next_request_time` is the start plus the gaps so far.
- `NoSampleLost`: `Spec => []SamplesComplete`, by `Sampled`: what was begun and
  is not in `cpu_data` is the sample in the making, and a monitor that started
  after it was stopped begins none within the simulation. Behind the filter
  (`Kept`) one sample may be appended; a second one would take another
  interval, and time does not pass while the file is written.

- `MixKept`: `Spec => []CountsKept`. The buckets of an argument count the rows
  whose average is in its range (`BucketIsRange`), and so does `df_2min`, grouped by
  the average (`AzureCount`). A sum over groups would take an induction over data;
  the units that are counted are put in a bijection instead (`GroupCount`). The items
  of an argument are a downscale-th of each of its buckets, apart and each within
  its minute (`SpreadApart`, `SpreadWithin`, `PartCount`, `ItemsCount`), each at one
  place of the sorted list (`SortedCount`), of which the workload has all but the
  last (`WorkloadCount`).

The assumptions are those of the modules. `AffinityAssumption` (`ServerlessBpf`):
a task may run on every CPU, or, as under `taskset` in the executor
(`exec_workload.py:44`), on every one but CPU 0. A task whose affinity
excludes a CPU that dispatches would be inserted there all the same, which is an
error to the kernel. `TraceAssumption`: the digits of a pid start with
themselves, and what a pid starts with is within it. `TracesAssumption` and
`NoFileAssumption` (`Experiment`): the tables are finite, counts are natural
numbers, and no generated workload equals the mark for a missing file.
`ResolutionAssumption`: averages are whole milliseconds, as in the tables; the
durations are below the limit, as 14835 is below 180000; and a bucket counts no
more invocations of a minute than `MinuteLen * downscale`, which is what makes the
unit of time fine enough. With a coarser one two items would get the same time,
the set of items would have one less, and `CountsKept` would fail for a reason the
script does not have. TLC evaluates the assumptions in the runs.

Model-checked only:

- Liveness (`WithheldIsReleased`, `HeldIsQueued`, `Terminates`, `LaunchersCatchUp`,
  `LoaderEnds`, `WaitingRuns`), which needs `ENABLED` and is out of the prover's
  reach.
- What holds only in an instance: the violations of `ExitIsHonoured`,
  `LaunchersCatchUp`, `ServesUntilTold` and `LaunchedWhenDue` are counterexamples
  of TLC.

## 6. Read from the models and the code, without a run

On `ask_userspace`:

- With `MaxEnables = 2`, `InfOnlyForShort` is violated: requests and answers name
  a task by its pid, so the answer for a short function that exited is applied to
  a long one with its pid (the comment at `scx_serverless_ask_userspace.c:56`
  says "Run to exhaustion the small ones"). `GateRespected` is violated too: the
  branch of `dequeue_tasks_from_userspace` for a task without a `task_ctx`
  (`.bpf.c:213`) inserts it although it may have come back and be withheld, which
  the comment at line 303 excludes.
- A daemon that finds no entry for a pid (`LocalEnqueueFails`) gives up in the middle
  of a drain. `NoLostTask` holds, since the requests behind it stay in the map;
  but nobody reads them any more, and their tasks are withheld until the
  scheduler is detached.
- `EnablePushFull`: when the map is full, the fallback that the comment at
  `.bpf.c:163` describes inserts from `ops.enable`, where it has no effect; the
  task is withheld and no answer is under way.
- `nr_userspace_queued` is never incremented, although the comment at `.bpf.c:30`
  says so (no action of `AskBpf` writes it); and `InsertOverflows` is reachable,
  since `serverless_dispatch` drains up to 4096 answers in one call and the
  default dispatch buffer has 32 slots.

On the loaders: a restart does not serve (run `ScxRestart`). `exit_req` is set after
the loop (`scx_serverless.c:154`) and never reset, so the restarted program
attaches, leaves its loop at once and ends; the loader of `ask_userspace` has the same
lines (`scx_serverless_ask_userspace.c:625`). A loader that last ran on CPU 0
gets no second tap: if it is queued while the others fall asleep, only
work for another CPU or the watchdog brings it back, and without `Stalled` TLC
finds `LoaderEnds` violated.

On the kernel variant: the first charge of a task that left `SCHED_EXT`, ran in
another class and came back includes what it ran there. `create_task_ctx` gets the old
`task_ctx`, to which its initial value is not applied, although the comment at
`scx_serverless.bpf.c:178` says "so our first delta calculation is 0 (or small)".
`Enable`, `RunOutside` and `Stopping` model it, and `ChargedForRun` is violated in
the run `ScxServerless` without its condition on `outside`.

A task may wait beside one idle CPU, when another CPU was
kicked and is busy before it looks; `NoWorkAsleep` is about all of them asleep. A
task that may run on CPU 0 and last ran there gets no second tap. The insertion
of `serverless_select_cpu` into a local queue is not clamped.

On the executor: a launch that failed is counted by nobody, and the reaper waits
for ever (`LaunchFailed` in `ExecWorkload`; line 182 promises its end). A reaper
that ends by an exception of its own (line 103), or one function without output
(`exec_utils.py:59`), makes the log raise, and the other results are not written;
`Complete` excepts both.

On the experiments: after a crash in a test, a run without `--test` measures the
first lines only, and a second `--test` (also `--test --test`) overwrites the copy
of the whole workload (`stale`). A signal before the copy to the home directory
makes a test measure the whole workload (`early`). A signal during the run with
ftrace changes the directory, and the script that runs perf is not found. The
handler of an ended script restores whatever copy it finds.

On the CPU monitor: a thread that was not joined in time may append a sample
after the filter (`cpu_monitoring.py:27`), and the file then has one that does not belong
to the simulation.

On the analysis: a pid used twice in a workload gets one row, and if the line of its
first exit was dropped, the end in this row is that of the later process
(`parse_trace.py:167` takes the next exit of the pid; TLC finds it in the run
`ParseTrace` without the condition on `lostEnd`); a pid that starts
with the digits of another may take its times (`Unambiguous` excludes it);
`migrations` is -1 when the migration of the affinity set is missing;
`parse_from_workload_events.py` always raises at its end, since it unpacks pids as
pairs (line 150); `graph_general_stats.py` looks for `total_workload_size` in the
second line (line 43), but the runner appends it at the end of the file.

## 7. What is left

The virtual time of `ask_userspace`: `serverless_running` (`.bpf.c:419`) stores
`global_vtime` without the compare-and-swap that `GlobalNeverBack` rests on, and
its comment takes the race into account ("Any error should be contained and
temporary"). How far a store of two CPUs can take it back is not modelled.

## 8. Not modelled

The characters of command lines (both slice parsers), the virtual time and the
loader of `ask_userspace` (modelled for the other variant, with almost the same
text), payloads, statistics, plots, calibration, capture and runner scripts, build
files and logging: straight-line I/O or numerical. `PROJECT.json` lists every part
with its reason.
