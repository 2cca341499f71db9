# Verification of trexec

TLA+ models of `trexec`, a Go library that runs a command together with its
tree of descendants: it starts it, watches it, shuts it down in two phases
(graceful signal, then force kill), and collects its output. Around this
`Runner` the repository has a supervisor that restarts workers, a file watcher
and a reloader. The models cover the concurrency of these parts; TLC checks
them on small instances and TLAPS proves the most important properties for all
values of the constants.

Paths below are relative to `src/`.

## 1. Inventory

| Component | State | Operations | Interacts with |
|---|---|---|---|
| Lifecycle (`state.go`) | one of six states | `canTransition` | Runner |
| Runner (`runner.go`) | `state`, `started`, `waited`, `group`, `cmd`, `pipes`, `procErr`, `procDone`, `trackedPIDs`, `opts` | `StdinPipe`, `Start`, `Wait` (`runLifecycle`, `shutdownSequence`, `buildResult`), `waitForProcess`, `pollMetrics`, `PID`, `Output`, `CombinedOutput` | the caller's context and writers, process group, pipe manager, os/exec |
| Unix process group (`group_unix.go`) | `pgid` | `setup`, `activate`, `signal`, `terminate`, `close`, `pids` | the kernel: `setpgid`, `kill(-pgid)`, `/proc` |
| Windows job object (`group_windows.go`) | `job`, `cmd`; the job's flags and members | the same interface; `activate` assigns and resumes, `setLimits` replaces the flags, `fallbackTreeKill` | the kernel: job handle, suspended processes, taskkill |
| Pipe manager (`pipe.go`) | `wg`, `pipes`, `errors` | `startCopy`, `wait`, `forceClose` | kernel pipes whose write ends descendants inherit |
| Supervisor (`supervisor/supervisor.go`) | `workers`, `started`, `stopped`, `wg`, `results`, `cancel` | `Add`, `Start`, `Wait`, `Stop`, `Status` | workers |
| Worker (`supervisor/worker.go`) | `running`, `restarts`, `lastResult` | the loop `run` | Runner, Backoff |
| Backoff (`supervisor/backoff.go`) | none | `Duration(attempt)` | Worker |
| Watcher (`watcher/watcher.go`) | `knownFiles`, per loop `pendingChanges`, the debounce timer, the channel | `Start`, `pollLoop`, `scan`, `detectDiff` | the file system, Reloader |
| Reloader (`watcher/reloader.go`) | `running`, per Run `attempt`, the workload's context, `procFinished` | `Run` | Watcher, Runner |
| Telemetry (`telemetry/`, callbacks in `runner.go`) | sinks of events and snapshots, a goroutine per callback, the poller | `HookOptions`, `EmitEvent`, `EmitMetrics`, `pollMetrics` | Runner, process group |
| Cobra adapter, options, limits, signals | configuration | setters, mappings | Runner |

What is hard, and what has to hold:

* **Runner.** `Start`, `Wait`, `waitForProcess`, two copiers, the context,
  three timers and every process of the command run at once. One goroutine owns
  the launch and one the lifecycle; the kill must reach members forked at any
  moment; the Result must agree with the way the command ended, although
  `procErr` is written by another goroutine and `select` may take either ready
  case; a cancelled `Wait` must return even when nothing dies.
* **Pipe manager.** Descendants keep write ends open; the wait must be bounded,
  must not report completeness that is not there, and nothing may be written to
  the caller's writer after it.
* **Supervisor.** `wg.Add` happens outside the lock, `Stop` races with `Start`
  and with a worker that has just looked at the context. Restarts stay in
  budget, failures are restarted, `Stop` leaves nothing running, `Wait` misses
  no worker.
* **Watcher and Reloader.** Scans outside the lock, a debounce, a bounded
  channel and a workload that is stopped and launched again. No change after a
  launch may be lost, no two workloads may live.

* **Windows.** Creating, assigning and resuming the child are three calls of
  which each may fail, the first two unnoticed; the flags of the job decide what
  a close, also one by a crash of the program, does to its members.
* **Telemetry.** Callbacks and snapshots come from goroutines that nothing
  orders and `Wait` does not wait for; the poller races with the end of the
  command twice, through `procDone` and through the state.

`PROJECT.json` lists every hazard at its line with the properties aimed at it.

## 2. Modules

Built in this order:

1. `Lifecycle`: the states and `validTransitions`.
2. `RunnerContract`: the abstract specification. A lifecycle goes through the
   states of the diagram in `state.go`, and in Done the outcome is the one that
   belongs to the path taken.
3. `ProcessGroup`: the process table (fork, leaving the group, exit, zombie,
   reaping, reuse of the number) and the methods of `unixProcessGroup`.
4. `PipeManager`: copiers, pipes with their holders, `wait`, `forceClose`.
   `PipeSystem` is the specification of what a pipe manager needs of its
   environment: streams are opened once, before the command is forked; write
   ends are inherited and given up in any order or never; a forced close comes
   before the wait; there is one wait. `Runner` is shown to be such an
   environment, so what is proved of the pipe manager there holds in it.
5. `Runner`: extends the three above. One action per step between two points
   where another goroutine or process may act; `StartX` are the steps of
   `Start`, `WaitStep` those of `runLifecycle`, `shutdownSequence`,
   `buildResult` and the rest of `Wait`; `waitForProcess` is a goroutine of its
   own. `RunnerClaims` has what the documentation says and the code does not do.
6. `Telemetry`: extends Runner. Every step of the Runner that changes the state
   adds a callback goroutine to `pending`; `RunCallback` is one of them
   delivering to the sink; `PollTick`, `PollExit` and `PollEmit` are the two
   cases of the select in `pollMetrics` and `emitMetricsSnapshot`, which counts
   the processes after the state was read.
7. `WindowsJob`: the methods of `windowsProcessGroup` in the order in which
   `Start` and `Wait` call them, over processes that fork, exit and break away.
   It stands beside `ProcessGroup`: the two are built for different systems and
   share no state, and a Runner of its own for Windows would repeat the steps
   of `Runner`, so only the steps that call the group are kept.
8. `Supervisor`: callers, and a goroutine per worker. `Run` of the Runner is
   one step with an outcome.
9. `Watcher` and `Reloader`: sessions (calls of `Run`) that share
   `knownFiles`. The Runner is a workload that ends some time after it is told.
10. `Backoff`: the attempts of a worker and, for each, the loop of `Duration`
    round by round, with the jitter, the conversion to a `time.Duration` (which
    may overflow) and the clamping. As a loop, not as a recursive function, it
    can be proved about.
11. `RunnerProofs`, `RunnerWaitProofs` (which builds on it and on `PipeProofs`),
    `PipeProofs`, `TelemetryProofs`, `WindowsJobProofs`, `SupervisorProofs`,
    `ReloaderProofs`, `BackoffProofs`: theorems.

`MC*` modules supply model values and definitions to TLC.

How state corresponds to code: the variables have the names of the fields
where there is one. `pc`, `cpc`, `wpc`, `poll`, `run` say where a goroutine is.
Additional variables that no code holds: `path` (the arguments
`shutdownSequence` passes to `buildResult`), `launches` (how often a worker ran
its command), `edits` and `fleeting` (what happened to the files), `sig` and
`status` (the kernel's memory), `sent` and `got` (chunks), `reported` and
`snapshot` (what a sink has been given), `loose` (who broke away from the job).

Abstractions: data is counted in chunks; a file is its modification stamp; a
Result is the fields that tell outcomes apart; timers have no length and may
fire at any moment after they are set; a refused transition is silent, as in
the code. A status is `ok`, `fail` (non-zero code) or `signaled`.

Mutants. An operator introduced by "Mutant of X" is X with a plausible bug. No
specification uses it; substituted for X it makes a property fail, which shows
that the property depends on the code's behaviour.

## 3. Runs

| Run | Question | Instance |
|---|---|---|
| `runner_grace` | does the two-phase shutdown keep its promises under every interleaving, does the Runner implement `RunnerContract`, and is it an environment as `PipeSystem` specifies it? | three processes, one stream, one caller, grace period; 1.16 million states |
| `runner_calls` | who owns launch and lifecycle, and who may be signalled, without grace period, with `StdinPipe`, an unkillable member, PID reuse and a `Wait` before `Start`? | two callers, two processes; 257 thousand states |
| `runner_liveness` | does `Wait` return after a cancellation and after an exit, also with a reader behind stdin, and do the copiers of a failed `Start` end? | two processes, one stream; 230 thousand states |
| `telemetry` | what do the callbacks and the poller tell, and do they end? | a command of one process, grace period; 150 thousand states |
| `windows_job` | whom do assignment, termination and close of the job reach? | a child and three descendants, a limit on processes, SIGKILL as graceful signal; 2380 states up to symmetry |
| `pipes` | does the wait for the output say true only when it is complete, also after a forced close, and is a full pipe drained? | two streams, two descendants, three chunks, pipes of two; 78 thousand states |
| `supervisor` | do budgets, `Stop`, `Wait` and the map of results hold for concurrent callers, and do stops and restarts happen? | two callers, a worker restarted on failure and a single-shot one; 68 thousand states |
| `reload_runs` | two Runs of one Reloader: one workload, no change lost, none reported twice? | two sessions, one file, two edits; 1.07 million states |
| `reload_liveness` | is the newest state of the files launched in the end, does a cancelled Run return? | one session, two files, three edits; 103 thousand states |
| `backoff_values` | does the loop compute the formula of its comment, within its bounds? | all combinations of small parameters, zero and negative ones included, and a largest `Duration` that the jitter can pass; 76 thousand states |
| `claim_exit_zero`, `claim_remaining` | statements of the documentation that the code does not keep (section 6) | the smallest instance that shows it |

Why the bounds are enough:

* Three processes give a leader, a member that is forked before or after the
  snapshot, and one that escapes or inherits the pipe; the properties relate at
  most two of them. Where more could matter (`ForcedKillReachesAll`,
  `ResultMatchesExit`, the contract) the proofs cover every number.
* One chunk in the Runner runs, three with pipes of two in `pipes`: a pipe is
  empty, partly full, full and refilled.
* Two callers are needed for each race of the API; a third adds no new pair.
  `OneLifecycleOwner` is proved for any number.
* In `telemetry` descendants add nothing but a larger count; one process that
  lives, dies, is reaped or ignores the signals takes the Runner down every
  path. The theorems cover any number of processes, callers and streams.
* In `windows_job` three descendants give a child of the leader, a grandchild,
  and one that is refused by the limit of two; signal and limit are the values
  that reach most (`kill` takes `terminate` twice). The theorems cover the others.
* `MaxRestarts` 1 reaches the budget; `RestartCap` is above it, so counters do
  not saturate in that run. The other policies and the unlimited budget enter
  through the proofs, which are for all policies.
* Two edits let a change arrive while another is pending, in the channel or
  being handled; a channel of one makes it full. With three edits of two files
  (`reload_liveness`) batches of both sizes follow one another.
* `runner_calls` has deadlock checking off, because a `Wait` before `Start`
  blocks for ever until the context is cancelled. The reload and backoff runs
  stop when the edits or attempts are used up.
* Symmetry is used only in runs without liveness: over the two bystander
  processes in `runner_grace`, over the sessions in `reload_runs`, over the
  descendants in `windows_job`.

## 4. Fairness

Weak fairness of every goroutine that can run (the Go scheduler), of the timers
(they fire), of the kernel reaping a zombie for `cmd.Wait`, and of the caller's
writers returning. No fairness of the processes of the command: they may run
for ever, not react to signals, sleep uninterruptibly and keep pipes open. None
of the context, of the program's calls, or of the reader behind stdin.

A worker's `Run` is fair only after a cancellation; what justifies it is
`CancelledWaitReturns` of the Runner, as a worker's command has no stdin reader.
In the Reloader a select with several ready cases chooses at random, so strong
fairness is assumed of the debounce tick and of the cancellation cases: they
are ready again and again and not passed over for ever. Edits are finite; with
unending edits the debounce may be reset for ever (see section 7).

`telemetry` assumes that callback goroutines run and that the callbacks return
(their doc comment: they "must not block"), that the ticker ticks, and, for the
same reason as above, that the poller's select does not pass over a closed
`procDone` for ever. It assumes nothing of the Runner: each of its liveness
properties starts where the Runner has got to.

## 5. Theorems

Assumptions on constants are those named in the modules (finite sets of
processes, callers, streams, workers; the leader is a process; the parent is
not one of the command). All are evaluated by TLC in the runs.

`RunnerProofs`:

* `TypeCorrect`. `TypeOK` needs `ExitKnown` (a leader that has ended has a
  status) to be inductive, for `procErr` is computed from it.
* `OneOwner`. The invariant `Owner` says who passed which compare-and-swap:
  before `started` is set nobody is inside `Start`, before `waited` nobody is
  inside `Wait`, and two goroutines inside the same call are equal.
* `KillReachesAll`, for `EarlyWait = FALSE`. The invariant adds `Launched`
  (the group number is set when `Wait` is past its first select) and `KillInv`.
  A member forked before the kill is hit by it, because the kill is one system
  call on the group; after it no process of the group can fork, as all that
  may be signalled have SIGKILL pending.
* `ResultIsExit`. `ExitInv` carries the chain reaped, recorded, closed:
  `procErr` has its final value before `procDone` is closed, and the paths
  `natural` and `graceful` are taken only after that.
* `RunnerImplementsContract`, for `EarlyWait = FALSE` and `ZeroGrace = FALSE`:
  every step is a step of `RunnerContract` or a stutter. `Phase` relates `pc`,
  `state` and `path`. Both assumptions are needed: without a grace period the
  transition to Killing is refused, and a `Wait` before `Start` has no phase.

`RunnerWaitProofs`, on signals:

* `NoSignalWithoutCancel`, without assumptions on the options. `CancelInv` says
  that every place of `Wait` from the shutdown on, every path but `natural`, and
  every state in which something of the command has been signalled has seen the
  context cancelled.
* `KillEscalates`, for `EarlyWait = FALSE`, `ZeroGrace = FALSE` and a graceful
  signal other than SIGKILL: exactly the options under which another way to
  SIGKILL exists are excluded.

On the output, for `EarlyWait = FALSE`:

* `RunnerImplementsPipeSystem`: every step of the Runner, its callers and its
  processes is a step of `PipeSystem` or leaves the pipes alone. The invariant
  `PipeUse` says where the write ends are (with the library while `Start` opens
  the streams, with the command alone once it has returned) and that `Wait`
  comes to the pipe manager once and leaves when that has finished.
* `OutputIsComplete` then follows from the invariant of `PipeProofs`, carried
  over by the refinement (`PipesInRunner`): after `Wait` no copier runs, and the
  caller holds all that was written unless a read end was closed by force or
  its writer failed.

On the time `Wait` takes, the safety half of `CancelledWaitReturns`:

* `WaitGoesForward`, without assumptions: every step of a goroutine inside
  `Wait` takes it to a place of lower rank, so that a `Wait` has at most ten.
* `WaitNeedsNoProcess`, for `EarlyWait = FALSE`: at no place does `Wait` depend
  on a process for ever. Where it selects or receives, `waitForProcess` has been
  started and will close `procDone`; the receive without a deadline (`drain`)
  is entered only when the leader has been reaped, since a group is found empty
  only then; and the wait for the pipes cuts the copiers off before it waits
  without a timer. Its invariant is `HeldUpBy`, with `ExitInv` and `PipeUse`.

`EarlyWait = FALSE` says that no `Wait` is called before a `Start` has
succeeded. TLC has a counterexample for each of `ForcedKillReachesAll`,
`KillOnlyAfterGrace` and `CompleteOutput` without it: such a `Wait` runs its
lifecycle while `Start` is still opening pipes, forking or activating, signals a
group without a number, or passes a pipe manager that has no copiers yet.

`PipeProofs`, for the pipe manager in any environment that `PipeSystem` allows:
`TrueIsComplete`, from `PipeInv`: that end of file needs the last write end
closed and the pipe empty, that `wait` passes only when all copiers are done, and
an account of the chunks (`ChunksConserved`). The account is bookkeeping of the
model and no property: what a forced close leaves in a pipe is still counted
there, though the kernel drops it. Only `SafeSpec` is assumed, no fairness.

`TelemetryProofs`:

* `EventsTellALifecycle`. The invariant counts, per state, the goroutines
  started so far and relates the counts to `state` and to the places of
  `Start` and `Wait`; `forceTransition` runs once because one goroutine owns
  the lifecycle.
* `LastSnapshotIsDone`: the group is closed before the state becomes Done, so a
  poller that has read Done counts nobody, and it came by `procDone`.
* `SnapshotsAscend`, for `EarlyWait = FALSE`: the state never goes back, and
  what the poller has seen lies between the last snapshot and the state.
* `TelemetryIsRunner`: without its observers every behaviour is one of
  `Runner`, so the theorems about the Runner hold with callbacks and a poller.

`WindowsJobProofs`: `OutsidersExplained`, `HandleIsLifeline`,
`FailedStartIsClean`, `TerminateKillsListed`, from one invariant (`IInv`). Its
core: until the child is resumed it is the only process; `CloseEmptiesJob`
and the flags say which members outlive the handle; and after
`TerminateJob` nobody in the job is left to fork.

`SupervisorProofs`, with the invariants `LoopInv` (launches and restarts as a
function of where the loop is) and `PoolInv` (`wg` is the number of goroutines
launched and not done, workers not yet launched are new):

* `SupervisorTypes`; the counter of the group is never negative.
* `BudgetKept`, `StatusIsTrue`, `WaitComplete`, `StopMeansDrained`,
  `NoFailureIsDropped`, for any pool, callers, policies and limits.
* `ResultsAreTrue`: the entry of a worker is written once, with what `run`
  returned, and that is the Result of its last run. The one exception is named:
  a worker cancelled after a run that could not start returns `lastResult`.

`ReloaderProofs`, for any number of Runs, files, edits and any capacity:

* `ReloaderTypes`, `OneAtATime`: `r.running` belongs to one Run, and only that
  Run has a workload.
* `NoChangeIsLost`: what keeps `ChangesAreDue` is that the stamps of all copies
  are at most `edits`, so that a write differs from each of them, and that a
  loop which is not sending has nothing left in `changesToSend`.
* `RestartsNeedChanges`: an edit moves from the disk through the scan, the
  pending set, the batch and the channel to a restart; the places it may be at,
  counted, never exceed the edits.

`BackoffProofs`, for any parameters and any number of attempts:

* `WaitsAreBounded` and `WaitsAreExponential`, from one invariant (`IInv`). In
  the loop `dur` is the power of the round, below `max` after the first round,
  or `max` once a power has reached it. That a loop left by its break gives the
  cap for every later attempt too needs that powers ascend; the attempts go
  through them one by one, so `PowersInv` carries this from attempt to attempt
  and no induction over numbers is needed. `PowerAssumption` states the two
  equations that define `^`, which the provers do not know; it assumes nothing
  of the code.

Only model-checked: liveness (`CancelledWaitReturns`, `ExitedWaitReturns`,
`FailedStartEndsCopiers`, `FullPipeDrains`, `StopReturnsAtLast`,
`FailureRunsAgain`, `NewestFilesRun`, `RunReturns`, `DoneIsReported`,
`PollerEnds`), as fairness and ENABLED are out of the prover's reach. Every invariant and action property of a passing run is a
theorem.

## 6. Disagreements found by the runs

* **Exit code 0 of a command that was killed** (`claim_exit_zero`). Cancel,
  grace period, SIGKILL, and the kill deadline passes before `waitForProcess`
  has stored `procErr`: `buildResult` reads nil and reports code 0 and no error
  (`runner.go:380-382`, against `result.go:15-16`).
* **Members survive a graceful shutdown** (`claim_remaining`). The direct child
  exits within the grace period, another member ignores the signal; nobody looks
  at the group again (`runner.go:358`, against `doc.go:31`).

## 7. Other observations

Met while modelling; no run is spent on them. The first two shape properties.

* A cancelled `Wait` may hang. The command has ended, but the reader behind its
  stdin has not: `cmd.Wait` waits for the goroutine that feeds it. A
  cancellation now finds no process (`ErrProcessDone`), and `shutdownSequence`
  receives from `procDone` without a deadline (`runner.go:349`, against
  `README.md:157`). `CancelledWaitReturns` excepts this one wait, and the run
  shows that there is no other.
* A change may be lost by the second Run of a Reloader. The `pollLoop` of the
  first Run is still about to compare a scan; it stores it in the `knownFiles`
  of both, so the second loop never sees the difference
  (`watcher/watcher.go:140`, against `watcher/reloader.go:65`). The same sharing
  can report a change twice. `ChangesAreDue` and `RestartsAreChanges` are
  therefore stated for a loop without another.
* `Wait` before `Start` is not refused (`runner.go:286`): it blocks, and when
  cancelled it calls a nil group (action `Panic`). `errors.go:14` documents
  `ErrNotStarted`, which nothing returns.
* Running to Killing is not in `validTransitions`, so without a grace period
  the kill leaves the state Running until Done (`runner.go:328`).
* Done does not mean that all processes have ended (`state.go:31`) nor that the
  read ends of the pipes are closed (`README.md:256`); `pipe.go:66` closes
  nothing when the copies completed.
* `ErrProcessDone` counts as graceful termination although nobody got a signal
  (`runner.go:350`, `result.go:22`). `ProcessesCleaned` is the length of a PID
  list taken before, or without, a kill (`runner.go:399`).
* When the caller's writer fails, the read end stays open and the command may
  block on a full pipe (`pipe.go:46`); hence the exception in `FullPipeDrains`.
  `forceClose` cannot interrupt a copier inside the caller's `Write`; the wait
  is unbounded then (`pipe.go:72`), so fairness assumes that it returns.
* After the kill deadline `forceClose` runs before the wait for the pipes
  (`runner.go:339`, `:381`); the copiers then end with an error, and
  `pipes.wait` returns true although the copies were cut off (`pipe.go:66`).
  `TrueMeansComplete` excepts read ends that were closed.
* `Output` returns a nil error with truncated output when the wait for the pipes
  timed out (`runner.go:297`): the false of `pipes.wait` is dropped, as are the
  errors the copiers collect.
* The writer of `StdinPipe` is not closed by `Wait` (`runner.go:497`).
  `StdinPipe` tests `started` and `opts.stdin`, makes the pipe and stores it
  without a lock (`runner.go:500-513`): beside a `Start` the pipe may come too
  late, beside another `StdinPipe` one replaces the other. Both happen in
  `Runner` (`StdinTested`, `StdinPiped`); the program has to order the calls.
* The group's number may be reused between the reaping and `close`
  (`group_unix.go:78`); `OnlyCancelSignals` says that only a cancellation can
  then hit a stranger.
* A `Wait` of the supervisor beside a `Start` that is still launching may find
  an empty group and return (`supervisor/supervisor.go:69`); `WaitIsComplete` is
  stated for a group that empties after the launches.
* A second `Stop` returns at once (`supervisor/supervisor.go:103`), and `Wait` of the
  supervisor may hold nil for a worker that was never run (`supervisor/worker.go:44`).
  When the last run of a worker could not start and the worker is then
  cancelled, its entry is the Result of an earlier run, maybe a success.
* The first wait of a Backoff is `Min` as given, not defaulted and not capped
  (`supervisor/backoff.go:46`); `WithinBounds` starts with the second attempt.
  With a `Max` near the largest `Duration` the jitter may take the value out of
  the range of the conversion (`supervisor/backoff.go:82`); depending on the
  processor the wait is then one of the two bounds. `WithinBounds` covers this,
  `Exponential` excepts it.
* A file that is created and removed between two scans is no change
  (`watcher/watcher.go:139`); it is `fleeting` in the models. Nor is a write
  that leaves the modification time as it was, within the resolution of the file
  system's clock (`watcher/watcher.go:219`); in the models every write has a
  stamp of its own. Descendants of the old
  workload may live when the new one starts (`watcher/reloader.go:159`).

Windows:

* With `JOB_OBJECT_LIMIT_SILENT_BREAKAWAY_OK` no child of a member joins the job
  (`group_windows.go:44`), so the job holds the direct child only, and neither a
  close nor `TerminateJobObject` reaches a descendant; `group_windows.go:22-24`
  promises that both do. `OutsidersBrokeAway` and `ListedAreKilled` say what is
  left. `taskkill`, which walks the tree, runs only without a job, and after
  the direct child was killed (`:142-146`).
* `setLimits` drops that flag together with `KILL_ON_JOB_CLOSE` (`:256`):
  descendants born later are terminated with the job, but survive its close,
  the case `CloseEmptiesJob` excepts.
* An assignment that fails is not reported (`:94`), a thread that was opened
  counts as resumed (`:313`), and `signal` never says `ErrProcessDone`, so a
  cancellation just after the exit waits for `procDone` under the grace timer.
* `pids` uses the handle after it released the lock, and may query a closed one
  (`:171-188`); without a job it lists the direct child, dead or not.
* `signal.go:21` and `README.md:240` speak of CTRL_C_EVENT for SIGINT; the code
  sends CTRL_BREAK_EVENT for all three polite signals (`:117-121`).

Telemetry:

* Events may arrive in any order and after `Wait` has returned; so may the last
  snapshot. A tick that finds Done ends the poller without a last snapshot
  (`runner.go:237`), so a sink need not see Done in its metrics.
* A snapshot may say one process although none lives (`runner.go:257`).
* A `Wait` before `Start` can lead to a second Done event.

## 8. Not modelled

* The capture buffers of `Output` and `CombinedOutput`: `CompleteOutput` says
  that the writers are at rest and complete when the buffer is read;
  `syncWriter` makes the two copiers' writes atomic, as each write of a copier
  is in the models.
* The Cobra adapter, `Run` and `RunWithResult`: chains of calls without state.
  The one decision, that a graceful cancel is no error, reads two fields of the
  Result.
* Duration and formatting of results and events, environment, directories,
  `setLimits` on Unix (no-op), the copies that `MemorySink` returns.
* `Pdeathsig` (`pdeathsig_linux.go:16-18`): the kernel sends it to the direct
  child when the thread that created the child ends. Threads are not modelled; a
  death by a signal that is not the Runner's is among the ends of a process in
  `ProcessGroup`.
* Path filters of the watcher: they choose the set `Files`. Scans read all
  files at one moment; the code compares files one by one and never relates two.
* Data races of accessors (`PID` against `Start`, `runner.go:135`; `g.job` in
  `terminate` against `close`): left to the race detector.

What is left to do: a Windows instance of the whole Runner, with `WindowsJob` in
the place of `ProcessGroup`; and a Reloader whose workload is a group of
processes, to state what an old descendant does to the new workload.
