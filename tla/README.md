# A TLA+ model of zen-tuner

zen-tuner stress-tests the cores of a Ryzen processor one after the other with
Prime95 or y-cruncher, to find out which core is unstable under its current
Curve Optimizer offset.  Its answer is a verdict per core.  A verdict is only
worth something if it survives everything that happens around a run: an engine
that hangs, forks, dies or prints its error a millisecond before it dies; an
operator who presses Ctrl+C once or twice at any moment; hardware errors of the
kernel that are read long after they were logged; a dashboard thread that reads
the same SMU tables as the run.  This directory models those parts, checks them
with TLC on small instances and proves the central ones with TLAPS for every
value of the constants.

Paths below are relative to the repository's root; `file:line` is a line of the
source.  `PROJECT.json` holds the same information for tools: components, runs,
mutants, the map from definitions to source lines, hazards and theorems.

## 1. Inventory

| component | source | state | operations | model |
|---|---|---|---|---|
| Run supervision | `runners/base.py` (`StressRunner`, `_ProcessOutput`, `OutputParser`, the group signals) | work directory, process group, pipe buffer, stop reason and deadline, parser counters | `run_test`, `_supervise`, `_drain_output`, `_classify` | `Supervisor`, `RunContract` |
| Kernel error monitor and attribution | `lib/monitors.py` (`KernelErrorMonitor`), `lib/orchestrator.py` (`_record_run_start`, `_on_kernel_event`) | reader position, `_running`, `_run_starts`, `_run_cores`, `_timeline_lock`, `mce_events` | thread loop, one read, attribution, `close` | `KernelErrors` |
| Session orchestrator | `lib/orchestrator.py` (`ZenTunerOrchestrator`) | statistics, cancel event and its lock, handlers | `run`, `_run_cycles`, `_resolve_test_cpus`, `_accumulate_stats`, `_handle_stop_signal` | `Orchestrator` |
| Command line and entry point | `zen_tuner.py` | options, exit code | `main` | exit codes in `Orchestrator`, refusals in `Telemetry` and `EngineOptions` |
| Engine configuration | `runners/prime95.py`, `runners/y_cruncher.py`, `lib/cpu.py` | none | `build_fft_config`, `parse_algorithms`, `parse_duration`, `parse_parameters`, CPU flags, config files | `EngineOptions` |
| Engine output parsers | `runners/prime95.py`, `runners/y_cruncher.py`, `OutputParser` | passes per thread, largest size of the pass, completed iterations, errors | `feed`, `poll`, `step_verified` | `EngineOutput` |
| Log buffer | `lib/logbuffer.py` | deque of the newest lines, scroll position | `append`, `scroll`, `scroll_to_oldest`, `follow`, `view` | `LogBuffer` |
| Dashboard | `lib/tui.py`, `lib/views.py` | `_running`, `_dirty`, terminal, log | `start`, `_emit`, UI thread with keys and resizes, drawing, `close` | `Dashboard`, `LogBuffer`, `Panes` |
| Presenter and session log | `lib/presenter.py`, `lib/events.py`, `lib/ui.py` | log file, current core and samples | event handlers, summary | its life cycle in `Dashboard`, its fields and the summary in `Panes`, its failures in `Orchestrator` |
| SMU telemetry | `lib/smu.py` | version, file descriptor, offsets, cached snapshot, `_lock` | `get_pm_version`, `read_snapshot`, `parse_pm_table_buffer`, `co_offsets_by_core`, `close` | `SmuReader`, `PmTable` |
| Topology and core selection | `lib/topology.py` | none | `discover_topology`, `parse_core_selection` | `Topology`, `Telemetry` |
| Telemetry statistics | `lib/models.py`, `lib/monitors.py` | samples of a run, a summary per run | `poll`, `from_metrics`, `from_samples`, `CoreStats.telemetry` | `Statistics`, `Panes` |
| Scheduling | `lib/sched.py` | affinity and policy of the main thread | `inherited_scheduling`, `thread_rt_priority` | `Scheduling` |
| Tools | `tools/*.py` | none | print-only scripts | not modelled |
| Stress engines | external binaries | processes, files | print, fork, end | environment of `Supervisor` and `EngineOutput` |

How they interact: `main` builds a presenter (console or dashboard) and a
`ZenTunerOrchestrator`.  The orchestrator calls `run_test` of one runner at a
time on the main thread; `run_test` polls `RunContext.cancel`, which the signal
handler sets, and calls back into the presenter with lines, verified steps and
telemetry samples.  The telemetry samples, the summary and the dashboard thread
all call `RyzenSmuMonitor.read_snapshot`.  The kernel monitor thread calls back
into the orchestrator, which looks up the timeline the main thread is writing
and calls the presenter.  So there are three threads (main, kernel monitor,
dashboard), a process group per run, and signals between any two byte codes of
the main thread.

### Which behaviours are hard, and what is right

* **Verdicts.**  The order of reading, reaping, draining and killing decides
  whether the error an engine printed last is seen, and whether our own SIGKILL
  is mistaken for a crash.  Right: PASS only for verified work, an error is
  never lost, CRASH only for the engine's own end.
* **Process groups.**  The engine forks; a helper may keep the pipe open.
  Right: no process of the group outlives `run_test`; `run_test` ends whatever
  the engine does.
* **Signals.**  The first signal asks, the second raises `KeyboardInterrupt`
  wherever the main thread is, also inside `finally` blocks and between two
  appends.  Right: nothing starts after the request, the summary is printed,
  statistics are not counted twice.  The handler itself can be interrupted by
  the second signal, while it holds the lock of the event it sets.
* **Inherited scheduling.**  The engine's CPUs and priority are those of the
  controller at the moment of the fork, so the controller takes them and gives
  them back.  Right: every engine gets them, and the controller never keeps them.
* **Late reading.**  The kernel monitor reads a record when the session may
  already be testing another core.  Right: the error goes to the core that was
  tested when it was logged.
* **Shared tables.**  Two threads read the SMU; a mailbox command is slow and
  must not be repeated.  Right: a snapshot is fresh, transfers are shared,
  offsets are asked for once, the lock is always released, and nobody is told
  that there is no driver where there is one.
* **Three numberings.**  Linux numbers the cores it sees, the SMU's table has a
  slot for every core of the silicon, and the mailbox addresses slots by CCD.
  Cores are fused off, and CPUs taken offline.  Right: a run is pinned to CPUs of
  its core, and telemetry and offset are those of that core.
* **Terminal.**  `close` runs twice and can be interrupted.  Right: no drawing
  after the terminal is given back, no line forgotten, an error of the UI thread
  reported, and twice only if an interrupt hits between printing and forgetting it.
* **Scrolling.**  Two threads append to a log that drops its oldest lines while
  the operator scrolls and resizes.  Right: the view stays where it was left, or
  at the oldest line, and is as full as the log allows.
* **Reading without a lock.**  The UI thread reads statistics and presenter
  fields value by value while the main thread changes them.  Right: what a change
  overtook does not stay on the screen, and the final label of a core is the
  verdict over all of its runs that were entered into the statistics.
* **Counting.**  Lines of two worker threads come in any order and a pass has no
  marker of its own.  Right: an iteration means every thread passed every size.

`PROJECT.json` lists these as hazards, each at its line, with the properties that
would catch it going wrong.

## 2. The modules

### RunContract and Supervisor

`RunContract` is the abstract specification: what a caller of `run_test` may rely
on (one verdict, after the processes are gone; INTERRUPTED exactly when the stop
request was there when it was judged; every exit but the second signal's leaves
no process).  `Supervisor` is the code.  A step of it is the code between two
points where the engine or a signal can be seen:

| code (`runners/base.py`) | action |
|---|---|
| availability check, `mkdtemp`, entering the try | `Unavailable`, `MakeWorkDir`, `EnterTry` |
| `_prepare`, `_create_parser`, `Popen` | `Prepare`, `Spawn`, `EnterLoop` |
| `read_lines`/`handle_line`, `parser.poll`, `proc.poll` | `ReadOutput`, `PollResults`, `ProcPoll` |
| the stop decision, SIGTERM, deadline, SIGKILL | `AskToStop`, `Escalate` |
| `_drain_output` and its deadline, the final `parser.poll` | `Drain`, `DrainExpires`, `PollResults` |
| the two `finally` blocks, `_classify` | `KillGroup`, `Wait`, `Classify`, `Cleanup` |
| `_handle_stop_signal` (`lib/orchestrator.py`) | `StopSignal` |

The engine's output is reduced to what decides the verdict: how many verified
iterations and whether an error is in the pipe, and whether an error line lacks
its newline.  Every read takes all there is.  The engine (`PrintPass`,
`PrintError`, `PrintFragment`, `WriteResults`, `Fork`, `LeaderEnds`,
`HelperEnds`) may do anything at any time, also ignore SIGTERM: the stop signal
of the code has no effect in the model beyond what the engine may do anyway.

### Scheduling

`Scheduling` extends `Supervisor` with the two context managers of `lib/sched.py`.
Their steps lie inside the locations before and after `Popen`: `Pin`,
`EnterGuard`, `SwitchPriority`, `EnterBlock` (into the `with` block), then the
spawn (`Inherit`), `LeaveBlock`, `RestorePriority`, `RestoreAffinity`.  The highest
priority the system permits is a choice of the initial state, and a second signal
may fall between any two steps; `Unwind` says which of the two a `finally` block
gives back.  A step of `Supervisor` is taken together with its effect on the scheduling
(`Alongside`).  Both runs about a stress run check this composition, and
`SupervisorProofs` shows that it implements `Supervisor`.

### KernelErrors

The kernel log, the monitor thread and the timeline.  The main thread's
`_record_run_start` is three steps (`ReadStart`, `AppendStart`, `AppendCore`)
because a second signal can cut it between the appends; the monitor's callback is
`TakeStamp`, `Acquire`, `Attribute` (with the `bisect_right` as a predicate) and
`Present`.  The ring buffer may overwrite records before they are read
(`ReadPending`, EPIPE).  Timestamps of records are truncated to `Resolution`
ticks, as microseconds are against the finer clock of the run starts.

### Orchestrator

`ZenTunerOrchestrator.run`, composed with `RunContract` for the run in progress:
`phase`, `alive`, `cancel`, `verdict` are the contract's variables and `RunTest`
takes its steps, so the session is checked against everything a run may do rather
than against one simulation of it.  `_accumulate_stats` is two steps (`Tally`,
`Score`) because a second signal may fall between them.  Unwinding
(`UnwindsTo`), restoring the handlers, the summary and the exit code of `main`
are modelled, as are signals before the handlers are installed and after they
are restored (`DefaultSignal`).  `Options` are the command lines a session may be
started with; `PresenterFails` is an exception of the presenter, for instance of
the log file.  The same log is written line by line by the summary and closed by
`main`: `SummaryFails` leaves a part of the table or none and replaces the exception
in flight, `CloseLogFails` replaces the exit with 130.  `cut` remembers the places
where a signal or a failing summary cut the session.

`_handle_stop_signal` is not atomic here.  `handling` is the stack of its calls in
progress, the innermost last, and the main thread stands still while it is not
empty: a call tests `is_set()`, takes the lock inside `Event.set()` and sets the
flag, and a second signal may interrupt it between any two of these.  What
`Supervisor` sees of the handler is its effect only, as one step.

### EngineOptions and EngineOutput

`EngineOptions` is pure: which command lines the engines take (`Takes`), the
durations with their units and granularity, the instruction sets told by the CPU's
flags, the FFT range from a preset, a range or bounds, the list of algorithms, and
what an engine is configured with for one or two logical CPUs (`Configured`).
`EngineOutput` starts from every configuration an accepted command line gives and
counts what the engine reports.  `Prime95Passes` lets any thread pass its next
length and feeds the line as it is printed (in K where it is a
whole number of K, in elements otherwise); `FeedTagged` is a line with a thread
number, `FeedUntagged` one without, `CountStep` the rest of `feed`.
`YCruncherPasses` feeds "Running ...: Passed" in the order of the algorithms.
The engines' own order of steps is an assumption the parsers make as well.

### SmuReader

`RyzenSmuMonitor` under two threads.  The unlocked version lookup is three steps
per thread (`CheckResolved`, `MarkResolved`, `FetchVersion`), the locked part
follows `read_snapshot` and `_read_co_offsets_locked` (`BeginOffsets`, one
`AskOffset` per slot), and `Interrupt` cuts any call of the main thread.  A
snapshot is the time of its transfer and the set of slots whose offset was asked
for by then; what it contains is `PmTable`.

### Order, Topology, PmTable and Telemetry

`Order` is Python's `sorted` on numbers, by ranks: the i-th of a set is the member
that i members do not exceed.  `Topology` (cores from CPUs, their numbers, the selection) and `PmTable` (layout
of a table version, working slots, the slot of a core, mailbox mask, sign and
range of an offset) are pure operators on a machine: its slots with a working
core, threads per core, CPUs offline, table version.  Of a layout only what the
code branches on is kept (whether it marks the working slots, whether offsets can
be read); the positions and units of the metrics are data.  Table and mailbox have
room for two CCDs (`SlotAssumption`), and a margin is a two's complement of a word
(`MachineAssumption`).  `Telemetry` runs a session on such a machine: `Discover` and
`Select` as `main` does, runs pinned by `TestCpus`, samples taken from the slot the
table gives (`TakeSample`) and the offsets at the end (`Summarize`).  Failures of
runs are left to `Orchestrator`, what is made of the samples to `Panes`.

### LogBuffer and Dashboard

`LogBuffer` is the log with one step per method, since each holds `_lock`; lines
are numbers, and `held` remembers where the operator left the view.  `Dashboard`
extends it: two threads emit (`Emit` in two halves, around the append), the UI
thread reads keys (`HandleKey`, `NoMoreKeys`) under any resize, tests and clears
`_dirty` and draws (`Draw`, a `View`), and the main thread opens, closes twice
and may be interrupted at any of its steps; starting the thread may fail
(`StartThread`).  Printing the error of the UI thread and forgetting it are two
steps (`PrintError`, `ClearError`), and `cut` remembers where, and in which close,
an interrupt hit.  Both parts of the log's promise and the protocol of `_dirty`,
`_running` and the terminal are checked together.

### Statistics and Panes

`Statistics` is pure: the drop of a sample, the summary of a run (twice the median,
so that it stays whole), the worst run of a core (the loop over its runs, as a
recursive function) and its threshold.  `Panes` is the rest of the screen: header and core table.  The main thread's events
change `current`, `samples` and `stats` in the order of the code and end with the
message that marks the screen (`Emit`); the UI thread clears the mark, then reads
the header's core, the active core, the drop of the run, and for each row first its
status and then its numbers (`BeginDrawing` to `ShowScreen`), a step per read.  Both
reads of `current_core` (`lib/tui.py:368` and `377`) are one step, `ReadActive`:
there is no call between them and so no point where the interpreter switches
threads; a build without the interpreter's lock would have one.  `Refresh` may find
the driver answering or not, so the table alternates between its live and its basic
form.  `PrintSummary` takes the screen away and prints the result table, which an
unwritable log or a signal may end after any row.  `Abort` cuts the session short at
any step of a run, also between the return of `run_test` and the two halves of
`_accumulate_stats`, and `cut` remembers where: the summary is printed all the same,
from what is in the statistics by then.

### Operators shared and left out

Formatting, colors, wording and layout are left out everywhere.  Bounds
(`MaxPasses`, `MaxSignals`, `MaxTime`, `MaxRuns`, `MaxRecords`, `MaxCycles`,
`MaxSteps`, `MaxSamples`, `MaxLines`, `MaxInterrupts`) are constants of the
modules and appear as guards only; an action so bounded is one of the environment, or, for
`MaxCycles`, the next cycle of an unlimited session.

## 3. What the runs show

All runs are exhaustive for their bounds.  Deadlock checking is off throughout,
because each of the modelled things ends: a call returns, a session is over, a
bounded engine has nothing left to do.  That nothing hangs before its end is
what the liveness runs check.

| run | bounds | shows |
|---|---|---|
| `supervisor_call` | one iteration asked for, up to two printed, two signals; priorities permitted up to 0, 40 and 99 | on `Scheduling`: the verdicts, process and work directory accounting, that the engine inherits CPUs and priority and the controller gets its own back, that a run implements `RunContract` (`ContractSpec`), and that a call with a reason to stop, or whose engine ended, returns (`RunTestReturns`) |
| `supervisor_abort` | one iteration, two signals | a second signal can leave the engine running |
| `kernel_errors_safety` | two cores (symmetric), two runs, two records, a buffer of one, two ticks per microsecond | attribution with truncated timestamps and without any, the final summary, order, no duplicates, nothing read is dropped although the buffer overruns |
| `kernel_errors_liveness` | one core, one run, two records, a buffer of one | an error is reported or overwritten while the monitor runs; the session ends |
| `kernel_errors_session` | one record | the last error of the session may never be read |
| `orchestrator_session` | two of three cores over unlimited (bound 3) or two cycles, with and without `--stop-on-error`; one core over six cycles in each thread mode; two engines, three signals | failed cores, statistics, summary, exit code, stop request, completeness of cycles with the rotation of engines and threads, and that the session ends |
| `orchestrator_second_signal` | the same command lines (the unlimited ones bounded by one cycle), two signals | a second signal may find the handler holding the lock it needs |
| `engine_output` | all configurations of the accepted command lines (ranges ending at, above and without an FFT length, single lengths, fractions of K, lists with repeated algorithms, CPUs without flags, durations with and without unit), one and two threads, nine steps | passes are counted exactly and the listener hears each step once, under its own size |
| `smu_reader_calls` | two threads, two slots, three kinds of driver, three ticks, an interval of two, one interrupt | freshness, spacing of transfers, single resolution and completeness of the offsets, who may be told that there is no driver, every call returns |
| `telemetry_session` | two CCDs of two slots, any of them fused off, at most one core or sibling offline, four table versions; six selections over three cycles in mode "cycle" | the cores asked for are tested on their own CPUs, samples and offsets are those of the core |
| `panes_session` | two cores around a fused-off slot, two runs of up to two samples, a drop below and one above the threshold | a drawing that a change overtook does not stay, the drop of the running core is refreshed, one stretched run is enough for a core to count as stretching, the summary's label is the verdict over the runs that were entered, also when a second signal cut the session short |
| `dashboard_lines` | a log of three lines, panes of 0, 1 and 2 rows, four lines, two interrupts | no line forgotten, view anchored and full, drawing, terminal, error report, `close` returns |

Type invariants are not among the runs: those of `Supervisor`, `Scheduling`,
`KernelErrors`, `Orchestrator`, `SmuReader` and `Dashboard` are proved (section 4).

Why the bounds are enough:

* *Signals.*  The first and the second signal are different; in `Orchestrator` a
  third hits the unwinding that the second started, or finds the handler that the
  second interrupted.  A fourth can only hit a `finally` block that the third has
  already shown to be cut.  In `supervisor_call` two are enough for one interrupt
  at any step; `SupervisorProofs` covers every number.
* *Passes.*  Verdicts compare with `Target`; one asked for and up to two printed
  covers below, at and above.  `SupervisorProofs` covers all values.
* *Records and runs.*  Attribution relates one record to the run before and the
  run after it; two runs and records at three ticks with a resolution of two
  cover equal, truncated and distinct times.  `KernelErrorsProofs` covers the rest.
* *Cycles.*  Two cores and up to three cycles have a core that fails first, last
  and never, and an early end in a cycle that is not the last; six cycles are the
  least common multiple of two engines and three thread choices.
  `OrchestratorProofs` covers every number of cores, cycles and engines.
* *Steps.*  Nine steps are at least two passes over every range and three over
  most, with the threads apart by any number of them; `EngineOutputProofs` covers
  the rest.
* *Slots.*  Two CCDs of two slots have a CCD that is full, half or absent, and a
  missing slot before, between and behind the others; `TelemetryProofs` covers
  every size and every selection.
* *Lines.*  Four lines in a log of three drop one, with the view at any position.
* *Priorities.*  Nothing permitted, only the engine's priority, and both: the
  comparisons of the code have no other cases.
* *Time of the SMU.*  The clock runs from 1 to 3, one interval of two, so a snapshot
  expires once while another thread is inside the lock; `SmuReaderProofs` covers
  any time, interval and number of slots.
* *Rows.*  A table with a core before and behind a slot without one has each kind of
  row, and a row drawn before and after the one that changes.
* *Symmetry* is used for the cores of `KernelErrors`, which are only told apart.

### Fairness

* `Supervisor` and `Scheduling`: the thread of `run_test` runs, its deadlines pass (wall clock) and
  the kernel delivers SIGKILL.  The engine and the operator owe nothing.
* `KernelErrors`: both threads are scheduled; runs need not end.  The main thread
  takes the timeline lock once per run and the monitor once per error, so
  neither needs strong fairness.
* `Orchestrator`: the main thread runs, and so does a handler on it; a run ends once
  the stop was requested, which is `RunTestReturns` of `Supervisor`.  An engine
  nobody stops may run forever, and the presenter need not fail.
* `SmuReader`: both threads run, and `Acquire` is strongly fair: a thread takes
  the lock for one short read per refresh, so it is free again and again.
* `Dashboard`: the UI thread runs, `close` and a begun `_emit` go on, and the keys
  waiting for one iteration come to an end.  The end of the session, resizes and
  interrupts are free.
* `Panes`: the UI thread runs and its refresh interval elapses; nothing is assumed
  of the runs.
* `EngineOutput` and `Telemetry` state no liveness.

### Disagreements between the code and what it says of itself

* `AbortKillsEngine`: "the runners kill their child processes while unwinding"
  (`lib/orchestrator.py:54`).  A second signal after `Popen` and before the try of
  `_supervise`, or inside its `finally` before the kill, leaves the engine alive.
  `EngineOutlivesOnlyInWindow` shows that these are the only two windows.
* `WatchesWholeSession`: "for the whole session" (`lib/monitors.py:85`).  `_loop`
  tests `_running` before it selects, so what was logged after its last select
  and before `close` is not read.
* `SecondSignalAborts`: "A second signal aborts immediately"
  (`lib/orchestrator.py:54`).  `Event.set` takes a lock before it sets the flag.  A
  second signal between the two still sees no request, calls `set` as well and waits
  for the lock that the call it interrupted holds: the main thread stands still for
  good.  Before the lock is taken the second signal is swallowed, and a third one
  is needed.  `SessionEnds` shows that these few instructions are the only place
  where a stop request does not end the session.

Others are stated inside properties that hold.

* The table's cores are numbered "matching the Linux core order"
  (`lib/smu.py:306`), which `TelemetryIsOfTheCore` shows to be exact only while no
  core before the one in question is offline (and, on Zen 1 tables, none fused
  off): otherwise samples and offset are those of a neighbour.
* "The summary has already been printed while unwinding" (`zen_tuner.py:123`) is not
  so when the second signal arrives outside the try block of `run` or in its
  `finally`; `SummaryTellsRuns` says what an aborted session may print.  A log that
  cannot be written ends the summary as well (`presenter.py:163`), and the exit code
  is then 1.
* "Cores that never ran as SKIPPED" (`lib/views.py:125`): so is one whose only run was
  interrupted, or returned, failed even, just before a second signal kept its verdict
  out of the statistics (`lib/orchestrator.py:160`).  `SummaryIsVerdict` says of which
  runs the label is the verdict (`Judged`).
* "Safe to call repeatedly" (`lib/tui.py:104`) holds but for the error message: an
  interrupt in the first `close` between lines 111 and 112 lets the second one print
  it again, which `ErrorIsReported` allows for.
* "1 iteration corresponds to completing the configured FFT step range"
  (`README.md:106`).  A range that has a single size of Prime95, below its upper
  end, never completes an iteration: `PassesAreCounted` counts passes where the
  range is `Recognizable`, and says so.
* "Thread-safe reader" (`lib/smu.py:397`).  The version is marked as resolved before
  it is read, without a lock, so a thread may be told that there is no driver;
  `DeniedOnlyWhileResolving` says when.
* "Controller thread runs at SCHED_RR priority 50" (`README.md:18`) and the engine at
  40: where the system permits priorities up to 40 to 49 only, the controller stays
  at its normal policy and the engine it supervises outranks it.  `EngineInherits`
  and `ControllerIsRestored` say which of the two each case gives.

## 4. What is proved

`SupervisorProofs` proves for every `Target`, `MaxPasses` and `MaxSignals`:
`TypeCorrect`, `PassVerified`, `ErrorReported`, `CrashIsTheEngines`,
`NoEngineLeft`, `WorkDirAccounted`, and `ImplementsContract`: the specification
implements `RunContract` under the refinement mapping `Phase`, step by step.
None of the properties is inductive.  PASS being verified needs that every
iteration is printed, in the pipe or counted, and never twice; that an error is
never lost needs to follow it from the engine through the pipe or `results.txt`
into the parser, depending on where the supervisor is; that no engine is left
needs which locations of the code may still have one.  The module's inductive
invariants state these and each theorem combines them by PTL.  Assumed are
`TargetAssumption` (Target is a positive number, as `zen_tuner.py` demands) and
`BoundAssumption`.

For `Scheduling` the same module proves `ImplementsSupervisor`: forgetting the
variables of the scheduling, every step is a step of `Supervisor` or a stutter, so
all of the above holds of the composition.  On top of `Supervisor`'s invariant, which says that no
engine exists before `Popen`, it proves `SchedTypeCorrect`, `EngineGetsScheduling`
and `ControllerRestored` for every set of permitted priorities.  Its invariant says
where in the context managers the main thread can be (`Placed`), what it runs with
there (`Values`), and that whoever was interrupted never comes back to the loop
(`NeverBack`): a controller left pinned supervises nothing any more.

`KernelErrorsProofs` proves for every set of cores, resolution, buffer size and
bounds: `TypeCorrect`, `Attribution`, `UntimedAttribution`, `ReportedInOrder`,
`SummaryComplete` and `NothingDropped`.  The invariant of the attribution says that run starts are
sorted and not in the future, that a record's `during` separates the starts before it
from those after it, and that the lock's holder is the one inside its critical
section; without the last, a start read before the lock was taken could be
appended behind a newer lookup.  `NothingDropped` adds that the two lists of the
timeline differ in length only while the main thread is between the two appends or
a second signal cut it there, which is what could make an attribution fail; once
they do, no run is started any more (`BrokenStays`), so one record is lost at most.

`OrchestratorProofs` proves for every set of cores, command lines, engines and
bounds: `TypeCorrect`, `FailuresFinal`, `StopEndsRuns`, `ExitCodeTrue` and
`SummaryTrue`.  The statistics are written in two steps that a second signal can
separate, so the invariant says what they still owe to the last run at each place
of the loop, or at the place where the session was cut (`Accounted`); that the run
which ends the session is the last one needs `Final`, and which exception, cuts and
summary belong to which place of the unwinding is `Control`.  The handler's own
steps are covered as well.  `CyclesComplete` states `CyclesAreComplete`.  Its
invariant (`Progress`) holds as long as nothing has disturbed the session: for every
position of the selection and every cycle the core loop has passed, there is exactly
one run, or none because the core failed before (`CyclesDone`), and each run has the
engine and the CPUs of its cycle (`RunsAreTold`).  That a core meets every engine
with every choice of threads is then arithmetic: for each pair one of the first
`3 * EngineCount` cycles has both, which needs the two periods to share no factor.
The property says so (`EngineCount % 3 # 0`); `--runner` offers one or two engines.
Two more theorems are about the composition with `RunContract`: every step of a
session is one of the contract, or begins a call where the last one returned and
left no process (`SessionKeepsContract`), and so no two engines are alive at once
while the loop goes on (`OneEngineAtATime`).  With `ImplementsContract` the contract
is proved on both of its sides.

`SmuReaderProofs` proves for every set of threads, number of slots, interval and
bounds: `TypeCorrect`, which includes mutual exclusion, `Fresh`, `DriverSpared` and
`DeniedWhileResolving`.  Freshness is about a time read under the lock by a thread
whose call began earlier, so the invariant orders the times of the call, of the
transfer and of the cache (`Times`); spacing needs the last stored time to be that
of the cache (`Spaced`), and single resolution that the slots asked for so far are
exactly those below the position of the one thread asking (`AskedOnce`).

`DashboardProofs` proves `LogIsSound` for every length of the log, height of the
window and scroll step: type, `ViewIsAnchored` and `WindowIsFull`.  It proves that every step of the dashboard is an operation of the
log or leaves it alone (`ImplementsLog`), takes the two log properties from
there, and proves the protocol for every log length, set of heights and bounds:
`TypeCorrect`, `LinesDrawn`, `DrawsWhileOpen`, `TerminalGivenBack` and
`ErrorPrinted`.  Its invariant has three parts: `Threads` (which places of the
main thread exclude which of the UI thread), `Errors` (who knows of an error of
the UI thread, and that it is printed a second time only by the close of `__exit__`
after an interrupt between the printing and the forgetting) and `Pending` (a line not drawn is flagged, about to be flagged, or
about to be drawn); the last one is what a clearing of `_dirty` after the drawing
would break.

`PanesProofs` proves `ScreenCatchesUp` (`PaneIsCurrent`) for any cores, slots, drops
and bounds.  What is drawn is right only while the session is *settled*: nothing is
marked, and the main thread is not between a change and its message.  A session
becomes settled only by a drawing that begins on an empty pane, and from there each
step keeps the drawn part equal to the state; that is the invariant.  Clearing the
mark after the drawing would break it.  A session cut short between a change and its
message does not settle again.

The same module proves `WorstRunShown` (`WorstRunIsShown`) and `SummaryTrue`
(`SummaryIsVerdict`) for any cores, numbers of runs and samples, and thresholds.
They rest on two lemmas about `Statistics`.  `MedianTells`: when more than half of
the samples reach the threshold the median does, and when more than half stay below
it does too; the order statistics under the median exist by `KthIsKth`.
`WorstIsWorst`: the loop over the runs ends with one of the largest medians.  The
loop is a recursive function, and the induction over it is over a set of numbers
(`Induction`, from the least-number principle), which needs no operator as a
parameter.  The invariant (`VInv`) counts what returned: `Tally` and `Score` enter a
run in two steps, and passes, failures and telemetry equal those of the runs that
returned but for the one being entered, or being entered when the session was cut
short (`AbortKeeps`).

`EngineOutputProofs` proves `PassesCounted` (`PassesAreCounted`) for every set of
lengths, presets and accepted command lines and for passes of any length, with two
threads any number of steps apart.  Neither the count nor the size the parser
remembers is inductive on its own: the invariant says that both are functions of the
number of verified steps (`CompleteIn`, `LargestAfter`), that this number is what the
slowest thread has passed (`InStep`), and that the lengths of a pass ascend and lie
inside the configured range (`Ordered`), so that the size wraps exactly at the end of
a pass.  The lemmas are those of division by the length of a pass.

`TelemetryProofs` proves `AskedTested` (`AskedCoresAreTested`) and `TelemetryOfCore`
(`TelemetryIsOfTheCore`) for CCDs of any size, every machine and selection, and any
number of cycles.  Three numberings meet, and each gives a slot the number of members
of some set below it: Linux counts the slots with a CPU online, the table those it
marks, or all.  `SameSlot` says that counting in the larger set finds the same slot
exactly when it has nothing more below it, which is where `InOrder` comes from.
Around it are lemmas on ranks in a finite set (`EveryRankIsTaken`,
`AscendingIsSorted`), on the sort key of the cores, on the mask of the mailbox
(`MaskAddressesSlot`) and on its signed answers (`SignedReads`).  The invariant
(`TInv`) ties cores, selection, runs and samples to the machine of the session.

Assumptions on constants are named in the module that declares them and say what the
command line or the hardware guarantees: selections name a core once, modes are the
three of `--hyperthreading`, lengths and presets are numbers, and so on.  TLC
evaluates each of them in the runs.

## 5. What is only model-checked

Liveness under fairness, which is beyond the prover: `RunTestReturns`,
`ErrorsGetReported`, both `SessionEnds`, `CallsReturn`, `CloseReturns` and
`DropIsRefreshed`.  Every invariant and action property that a passing run checks
is also proved, and so is the refinement of `RunContract` by `Supervisor`.

## 6. Limits of the model

* A drain reads the pipe at least once before its deadline.  An engine that
  closes its standard output and goes on is not modelled.
* SIGKILL takes effect on the whole group at once; the number of a process is
  not reused.  The engine's processes stay in the group.
* The engine's and the kernel's output is bounded per step of the reader: a read
  takes all there is and ends.
* A run of `Supervisor` sees the stop handler as one step; `Orchestrator` has its
  inner steps.
* Installing both signal handlers is one step, and so is restoring them.
  `on_session_start`, which assigns one field, does not raise.
* An engine takes its steps in the configured order and writes whole lines to
  `results.txt`, each in one write; `poll` (`runners/prime95.py:210`) takes what is
  there as lines.  Which text is an error is pattern matching and left out.
* A mailbox slot counts as asked whether or not it answers.  In `PmTable` the
  mailbox answers for exactly the slots with a working core.
* Linux keeps the SMU's numbering of slots in `core_id` and numbers the CPUs of
  the working cores thread by thread.
* The CPPC ranking is only displayed and left out.
* An interrupt inside a method of the log is not modelled.
* What the kernel's scheduler does with priorities is not modelled, only which one
  each process has.
* Engine memory sizes, the text of configuration files, widths, colors and the
  package bars of the dashboard, and the recognition of lines in the engines' output
  are text and layout.
* A Python statement is atomic where the interpreter makes it so: one append, one
  attribute assignment.  `+=` on a statistic is one step.
* Liveness under fairness and anything with ENABLED is model-checked only.

## 7. Not modelled

`tools/*.py` print one snapshot and keep no state.  Of the partly modelled
components what is missing is: the parsing of single values by `argparse`, pattern
matching of engine output, text of configuration files and messages, positions and
units of the metrics of a PM table, and the CPPC ranking, which is only shown.  None
of these has an interleaving or a failure path that the modules do not already take.

## 8. State of the plan

1. Done: all modules of section 2, each with its runs, and the proofs of every
   invariant, action property and refinement step those runs check.
2. Open: a composed session of orchestrator, kernel monitor and dashboard under one
   stream of signals, as small as TLC needs it.
