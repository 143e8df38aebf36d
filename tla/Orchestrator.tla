---------------------------- MODULE Orchestrator ----------------------------
(***************************************************************************)
(* A session: ZenTunerOrchestrator.run and main (lib/orchestrator.py,      *)
(* zen_tuner.py).  The cycle loop runs one engine on one core at a time,   *)
(* skips cores that failed, keeps the statistics and stops on request;     *)
(* the finally block restores the signal handlers and prints the summary;  *)
(* main turns the outcome into an exit code.  A run of an engine is the    *)
(* contract of run_test (RunContract), which Supervisor implements.        *)
(* The stop handler runs on the main thread, between any two of its steps  *)
(* and also between two steps of the handler itself.                       *)
(***************************************************************************)
EXTENDS Integers, SequencesExt

CONSTANTS
    Cores,          \* all_cores
    Options,        \* the command lines a session may be started with
    ThreadsPerCore, \* logical CPUs of a core
    EngineCount,    \* engines that alternate per cycle
    MaxCycles,      \* bound on the cycles of an unlimited session
    MaxSignals      \* bound on the signals the operator sends

(* selected: the cores in the order they are tested; cycles: 0 for "until
   stopped"; continue: no --stop-on-error. *)
ASSUME OptionAssumption ==
    \A o \in Options :
        /\ o.selected \in Seq(Cores) /\ Len(o.selected) > 0
        /\ \A i, j \in 1 .. Len(o.selected) : o.selected[i] = o.selected[j] => i = j
        /\ o.mode \in {"off", "on", "cycle"} /\ o.cycles \in Nat /\ o.continue \in BOOLEAN
ASSUME EngineAssumption == ThreadsPerCore \in {1, 2} /\ EngineCount \in Nat \ {0}
ASSUME BoundAssumption == MaxCycles \in Nat /\ MaxSignals \in Nat

VARIABLES
    opts,       \* the command line of this session, fixed
    pc,         \* next step of the main thread
    cycle,      \* cycle_num
    index,      \* position in the core loop
    stats,      \* CoreStats of each core
    handlers,   \* who handles SIGINT and SIGTERM
    exc,        \* exception being propagated
    summary,    \* the statistics as on_session_end printed them
    exit,       \* exit code of the process
    handling,   \* calls of _handle_stop_signal in progress, the innermost last
    signals,    \* bound counter: signals received
    runs,       \* history: the result of every run that returned
    late,       \* history: runs begun after the stop request
    cut,        \* history: where a signal or a failing log cut the session short
    phase, alive, cancel, verdict   \* the run in progress (RunContract)

Run == INSTANCE RunContract

Selected    == opts.selected
SelectedSet == {Selected[i] : i \in 1 .. Len(Selected)}

loop    == <<cycle, index>>
results == <<stats, runs>>
ending  == <<handlers, exc, summary, exit>>
inRun   == <<phase, alive, cancel, verdict>>
vars    == <<opts, pc, loop, results, ending, handling, signals, late, cut, inRun>>

NoSummary == [c \in {} |-> 0]
NoExit    == "running"
Counts    == [tallied : Nat, passes : Nat, failed : Nat]
Cpus      == {"T0", "T1", "both"}
Results   == [core : Cores, cycle : Nat, engine : Nat, cpus : Cpus, status : Run!RunStatus]
Body      == {"cycle", "core", "run", "tally", "score", "result"}
Places    == {"announce", "install", "leave", "restore", "summarize", "exit", "done"} \cup Body

TypeOK ==
    /\ opts \in Options
    /\ pc \in Places
    /\ cycle \in Nat /\ index \in 1 .. Len(Selected) + 1
    /\ stats \in [Cores -> Counts]
    /\ handlers \in {"default", "own"} /\ exc \in {"none", "error", "interrupt"}
    /\ summary \in [SelectedSet -> Counts] \cup {NoSummary}
    /\ exit \in {NoExit, "0", "1", "130", "terminated"}
    /\ handling \in Seq({"checked", "locked", "flagged"})
    /\ signals \in Nat /\ late \in Nat
    /\ runs \in Seq(Results) /\ cut \in SUBSET Places
    /\ Run!ContractTypeOK

Init ==
    /\ opts \in Options
    /\ pc = "announce" /\ cycle = 1 /\ index = 1
    /\ stats = [c \in Cores |-> [tallied |-> 0, passes |-> 0, failed |-> 0]]
    /\ handlers = "default" /\ exc = "none" /\ summary = NoSummary /\ exit = NoExit
    /\ handling = <<>> /\ signals = 0 /\ runs = <<>> /\ late = 0 /\ cut = {}
    /\ phase = "idle" /\ alive = FALSE /\ cancel = FALSE /\ verdict = Run!NoStatus

Goto(loc) == pc' = loc /\ UNCHANGED <<opts, handling, signals, cut>>

-----------------------------------------------------------------------------
(* The cycle loop *)

(* on_session_start, then the stop handlers are installed, before the try
   whose finally prints the summary. *)
InstallHandlers ==
    /\ pc = "announce"
    /\ handlers' = "own"
    /\ Goto("install")
    /\ UNCHANGED <<loop, results, exc, summary, exit, late, inRun>>

EnterSession ==
    /\ pc = "install"
    /\ Goto("cycle")
    /\ UNCHANGED <<loop, results, ending, late, inRun>>

Failed(c) == stats[c].failed > 0

AllFailed == \A c \in SelectedSet : Failed(c)

(* Mutant of LeavesCycles: the loop is left on request only. *)
LeavesCyclesOnRequest == cancel

LeavesCycles == cancel \/ AllFailed

(* Mutant of LeavesCores: the request is looked at between cycles only. *)
LeavesCoresNever == FALSE

LeavesCores == cancel

BeginCycle ==
    /\ pc = "cycle"
    /\ ~LeavesCycles
    /\ index' = 1
    /\ Goto("core")
    /\ UNCHANGED <<cycle, results, ending, late, inRun>>

StopCycles ==
    /\ pc = "cycle"
    /\ LeavesCycles
    /\ Goto("leave")
    /\ UNCHANGED <<loop, results, ending, late, inRun>>

StopCores ==
    /\ pc = "core" /\ index <= Len(Selected)
    /\ LeavesCores
    /\ Goto("leave")
    /\ UNCHANGED <<loop, results, ending, late, inRun>>

(* Mutant of MayTest: a failed core is tested again. *)
MayTestAgain(c) == c \in Cores

MayTest(c) == ~Failed(c)

SkipCore ==
    /\ pc = "core" /\ index <= Len(Selected)
    /\ ~LeavesCores /\ ~MayTest(Selected[index])
    /\ index' = index + 1
    /\ Goto("core")
    /\ UNCHANGED <<cycle, results, ending, late, inRun>>

(* The cancel check, then on_core_start and run_test: a request may arrive in
   between, so the run may begin with it. *)
CheckCore ==
    /\ pc = "core" /\ index <= Len(Selected)
    /\ ~LeavesCores /\ MayTest(Selected[index])
    /\ phase' = "idle" /\ verdict' = Run!NoStatus
    /\ Goto("run")
    /\ UNCHANGED <<loop, results, ending, late, alive, cancel>>

Engine(n) == (n - 1) % EngineCount

(* Mutant of TestCpus: the phase follows the engine, not the cycle. *)
TestCpusByEngine(mode, n) ==
    IF mode = "off" \/ ThreadsPerCore = 1 THEN "T0"
    ELSE IF mode = "on" THEN "both"
    ELSE IF Engine(n) = 0 THEN "T0" ELSE IF Engine(n) = 1 THEN "T1" ELSE "both"

(* _resolve_test_cpus *)
TestCpus(mode, n) ==
    IF mode = "off" \/ ThreadsPerCore = 1 THEN "T0"
    ELSE IF mode = "on" THEN "both"
    ELSE IF (n - 1) % 3 = 0 THEN "T0" ELSE IF (n - 1) % 3 = 1 THEN "T1" ELSE "both"

(* run_test keeps its contract; late counts the runs that begin too late. *)
RunTest ==
    /\ pc = "run"
    /\ \/ Run!Enter /\ late' = IF cancel THEN late + 1 ELSE late
       \/ (Run!Launch \/ Run!Return \/ Run!Fail \/ \E s \in Run!RunStatus : Run!Judge(s))
          /\ UNCHANGED late
    /\ UNCHANGED <<opts, pc, handling, signals, cut, loop, results, ending>>

EngineEnds ==
    /\ Run!ProcessesEnd
    /\ UNCHANGED <<opts, pc, handling, signals, cut, loop, results, ending, late>>

(* An exception of run_test leaves the session; the statistics do not see it. *)
RunRaises ==
    /\ pc = "run" /\ phase = "raised"
    /\ exc' = "error"
    /\ Goto("leave")
    /\ UNCHANGED <<loop, results, handlers, summary, exit, late, inRun>>

(* So does an exception of the presenter (the log file cannot be written). *)
PresenterFails ==
    /\ pc \in {"cycle", "core", "result", "leave"}
    /\ exc = "none"
    /\ exc' = "error"
    /\ Goto(IF pc = "leave" THEN "restore" ELSE "leave")
    /\ UNCHANGED <<loop, results, handlers, summary, exit, late, inRun>>

(* Mutant of RunReturns: an interrupted run is accounted like the others. *)
RunReturnsAlways ==
    /\ pc = "run" /\ phase = "returned"
    /\ runs' = Append(runs, [core |-> Selected[index], cycle |-> cycle, engine |-> Engine(cycle),
                             cpus |-> TestCpus(opts.mode, cycle), status |-> verdict])
    /\ Goto("tally")
    /\ UNCHANGED <<loop, stats, ending, late, inRun>>

RunReturns ==
    /\ pc = "run" /\ phase = "returned"
    /\ runs' = Append(runs, [core |-> Selected[index], cycle |-> cycle, engine |-> Engine(cycle),
                             cpus |-> TestCpus(opts.mode, cycle), status |-> verdict])
    /\ Goto(IF verdict = "INTERRUPTED" THEN "result" ELSE "tally")
    /\ UNCHANGED <<loop, stats, ending, late, inRun>>

(* _accumulate_stats: duration, iterations and telemetry first, the verdict last. *)
Tally ==
    /\ pc = "tally"
    /\ stats' = [stats EXCEPT ![Selected[index]].tallied = @ + 1]
    /\ Goto("score")
    /\ UNCHANGED <<loop, runs, ending, late, inRun>>

Score ==
    /\ pc = "score"
    /\ stats' = IF verdict = "PASS"
                THEN [stats EXCEPT ![Selected[index]].passes = @ + 1]
                ELSE [stats EXCEPT ![Selected[index]].failed = @ + 1]
    /\ Goto("result")
    /\ UNCHANGED <<loop, runs, ending, late, inRun>>

StopsSession(s) == s \in Run!FailedStatuses /\ ~opts.continue

CoreResult ==
    /\ pc = "result"
    /\ IF StopsSession(verdict)
       THEN Goto("leave") /\ UNCHANGED index
       ELSE Goto("core") /\ index' = index + 1
    /\ UNCHANGED <<cycle, results, ending, late, inRun>>

LastCycle == opts.cycles > 0 /\ cycle >= opts.cycles

(* Bounds an unlimited session to MaxCycles, which it may still leave. *)
MayGoOn ==
    \/ opts.cycles > 0 \/ cycle < MaxCycles
    \/ cycle = MaxCycles /\ (cancel \/ AllFailed)

EndCycle ==
    /\ pc = "core" /\ index > Len(Selected)
    /\ IF LastCycle THEN Goto("leave") /\ UNCHANGED cycle
       ELSE MayGoOn /\ Goto("cycle") /\ cycle' = cycle + 1
    /\ UNCHANGED <<index, results, ending, late, inRun>>

-----------------------------------------------------------------------------
(* Leaving the session *)

(* The kernel monitor is closed; without an exception the request is announced. *)
LeaveMonitor ==
    /\ pc = "leave"
    /\ Goto("restore")
    /\ UNCHANGED <<loop, results, ending, late, inRun>>

RestoreHandlers ==
    /\ pc = "restore"
    /\ handlers' = "default"
    /\ Goto("summarize")
    /\ UNCHANGED <<loop, results, exc, summary, exit, late, inRun>>

PrintSummary ==
    /\ pc = "summarize"
    /\ summary' = [c \in SelectedSet |-> stats[c]]
    /\ Goto("exit")
    /\ UNCHANGED <<loop, results, handlers, exc, exit, late, inRun>>

(* on_session_end writes each line to the log before it prints it.  When the log
   cannot be written this raises: out of the finally, with a part of the table
   printed or none, in place of an exception being propagated. *)
SummaryFails ==
    /\ pc = "summarize"
    /\ exc' = "error" /\ cut' = cut \cup {pc}
    /\ pc' = "exit"
    /\ UNCHANGED <<opts, handling, signals, loop, results, handlers, summary, exit, late, inRun>>

(* main closes the log, which may raise as well, also over the exit with 130. *)
CloseLogFails ==
    /\ pc = "exit" /\ exc # "error"
    /\ exc' = "error"
    /\ Goto("exit")
    /\ UNCHANGED <<loop, results, handlers, summary, exit, late, inRun>>

(* Mutant of ExitCode: a core that never passed counts as failed. *)
ExitCodeByPasses ==
    IF exc = "interrupt" THEN "130"
    ELSE IF exc = "error" \/ \E c \in SelectedSet : stats[c].passes = 0 THEN "1" ELSE "0"

ExitCode ==
    IF exc = "interrupt" THEN "130"
    ELSE IF exc = "error" \/ \E c \in Cores : Failed(c) THEN "1" ELSE "0"

Exit ==
    /\ pc = "exit"
    /\ exit' = ExitCode
    /\ Goto("done")
    /\ UNCHANGED <<loop, results, handlers, exc, summary, late, inRun>>

-----------------------------------------------------------------------------
(* Signals, between any two steps of the main thread and of the handler *)

Top == handling[Len(handling)]

(* The lock inside the Event, which is no RLock: no call further out holds it. *)
LockIsFree == \A i \in 1 .. Len(handling) : handling[i] = "checked"

(* is_set() is false: this call is going to set the flag. *)
BeginHandler ==
    /\ handlers = "own" /\ ~cancel
    /\ handling' = Append(handling, "checked")
    /\ UNCHANGED <<pc, cut, exc, exit, inRun>>

(* Event.set: take the lock, set the flag and notify, release the lock. *)
HandlerStep ==
    /\ handling # <<>>
    /\ \/ /\ Top = "checked" /\ LockIsFree
          /\ handling' = [handling EXCEPT ![Len(handling)] = "locked"]
          /\ UNCHANGED cancel
       \/ /\ Top = "locked"
          /\ handling' = [handling EXCEPT ![Len(handling)] = "flagged"]
          /\ cancel' = TRUE
       \/ /\ Top = "flagged"
          /\ handling' = Front(handling)
          /\ UNCHANGED cancel
    /\ UNCHANGED <<opts, pc, loop, results, ending, signals, late, cut, phase, alive, verdict>>

(* KeyboardInterrupt in the loop or in the with block reaches the finally of
   run; before the try and in that finally it leaves run at once. *)
UnwindsTo ==
    IF pc \in Body THEN "leave" ELSE IF pc = "leave" THEN "restore" ELSE "exit"

(* is_set() is true: calls of the handler in progress are unwound as well. *)
SecondSignal ==
    /\ handlers = "own" /\ cancel
    /\ pc' = UnwindsTo /\ cut' = cut \cup {pc}
    /\ exc' = "interrupt"
    /\ handling' = <<>>
    /\ IF pc = "run" /\ phase \notin {"returned", "raised"} THEN Run!AbortCall ELSE UNCHANGED inRun
    /\ UNCHANGED exit

(* Without our handlers SIGINT raises KeyboardInterrupt and SIGTERM kills. *)
DefaultSignal ==
    /\ handlers = "default"
    /\ \/ pc' = "exit" /\ exc' = "interrupt" /\ UNCHANGED exit
       \/ pc' = "done" /\ exit' = "terminated" /\ UNCHANGED exc
    /\ cut' = cut \cup {pc}
    /\ UNCHANGED <<handling, inRun>>

Signal ==
    /\ pc # "done"
    /\ signals < MaxSignals
    /\ signals' = signals + 1
    /\ BeginHandler \/ SecondSignal \/ DefaultSignal
    /\ UNCHANGED <<opts, loop, results, handlers, summary, late>>

-----------------------------------------------------------------------------
(* The main thread stands still while the handler runs. *)
Interrupted == handling # <<>>

MainStep ==
    \/ InstallHandlers \/ EnterSession \/ BeginCycle \/ StopCycles \/ StopCores \/ SkipCore \/ CheckCore
    \/ RunRaises \/ RunReturns \/ Tally \/ Score \/ CoreResult \/ EndCycle
    \/ LeaveMonitor \/ RestoreHandlers \/ PrintSummary \/ Exit

LogFails == PresenterFails \/ SummaryFails \/ CloseLogFails

Next ==
    \/ ~Interrupted /\ (MainStep \/ LogFails \/ RunTest)
    \/ EngineEnds \/ HandlerStep \/ Signal

Spec == Init /\ [][Next]_vars

(* The main thread runs.  A run ends once it is asked to (RunTestReturns of
   Supervisor); an engine nobody stops may run forever, and neither the
   presenter nor the log need fail. *)
Fairness ==
    /\ WF_vars(~Interrupted /\ MainStep)
    /\ WF_vars(HandlerStep)
    /\ WF_vars(~Interrupted /\ cancel /\ (RunTest \/ EngineEnds))

FairSpec == Spec /\ Fairness

-----------------------------------------------------------------------------
RunsOf(c, statuses) == Cardinality({i \in 1 .. Len(runs) : runs[i].core = c /\ runs[i].status \in statuses})

(* A failed core is never tested again, so it has one failed run (README: "A
   failed core is skipped in later cycles"). *)
FailureIsFinal ==
    \A i, j \in 1 .. Len(runs) :
        runs[i].core = runs[j].core /\ runs[i].status \in Run!FailedStatuses => j <= i

(* Before the try a signal leaves run at once; so does one in its finally, where
   the log may fail too. *)
Unprotected == {"announce", "install", "restore", "summarize"}

(* 1 if the last run is one of c with one of the statuses and its accounting is,
   or was cut, at one of the places. *)
Owed(c, places, statuses) ==
    IF /\ places \cap (cut \cup {pc}) # {}
       /\ Last(runs).core = c /\ Last(runs).status \in statuses
    THEN 1 ELSE 0

(* A session that ends has printed its table, unless a signal hit before the try
   or in the finally, or the log could not be written there; exit code 0 means
   that nothing was cut.  The table tells what the runs returned: every pass and
   failure is counted once and an interrupted run not at all, in duration and
   iterations and in the verdict; what a second signal cut off the accounting of
   the last run is missing, and nothing else. *)
SummaryTellsRuns ==
    /\ exit = "0" => summary # NoSummary /\ cut = {}
    /\ summary = NoSummary /\ exit # NoExit => cut \cap Unprotected # {}
    /\ summary # NoSummary =>
         \A c \in SelectedSet :
            LET passed == RunsOf(c, {"PASS"})
                failed == RunsOf(c, Run!FailedStatuses)
            IN  /\ summary[c].passes + Owed(c, {"tally", "score"}, {"PASS"}) = passed
                /\ summary[c].failed + Owed(c, {"tally", "score"}, Run!FailedStatuses) = failed
                /\ summary[c].tallied + Owed(c, {"tally"}, Run!RunStatus) = passed + failed

(* Exit code 0 means that no run failed and none raised; 1 that one did. *)
ExitCodeTellsRuns ==
    exit \in {"0", "1"} =>
        (exit = "1" <=> exc = "error" \/ \E c \in Cores : RunsOf(c, Run!FailedStatuses) > 0)

(* After the stop request at most the run about to begin is started, and nothing
   runs after it; with --stop-on-error nothing runs after a failed run. *)
NothingStartsAfterStop ==
    /\ late <= 1
    /\ \A i \in 1 .. Len(runs) :
           \/ runs[i].status = "INTERRUPTED"
           \/ ~opts.continue /\ runs[i].status \in Run!FailedStatuses
           => i = Len(runs)

Undisturbed == exit \in {"0", "1"} /\ exc = "none" /\ ~cancel /\ opts.continue

OneRunPerCycle ==
    \A c \in SelectedSet, n \in 1 .. opts.cycles :
        LET hits == {i \in 1 .. Len(runs) : runs[i].core = c /\ runs[i].cycle = n}
        IN  IF \E i \in 1 .. Len(runs) : /\ runs[i].core = c /\ runs[i].cycle < n
                                         /\ runs[i].status \in Run!FailedStatuses
            THEN hits = {} ELSE Cardinality(hits) = 1

EveryCombination ==
    \A c \in SelectedSet : ~Failed(c) =>
        \A e \in 0 .. EngineCount - 1, u \in Cpus :
            \E i \in 1 .. Len(runs) : runs[i].core = c /\ runs[i].engine = e /\ runs[i].cpus = u

(* An undisturbed session gives every core exactly one run in every cycle until
   it fails, and ends early only when all failed.  Over lcm(engines, 3) cycles in
   mode "cycle" a core that survives meets every engine with each thread and
   with both, although the two rotate together: unless the engines come in
   threes (--runner offers one or two). *)
CyclesAreComplete ==
    Undisturbed =>
        /\ OneRunPerCycle
        /\ opts.cycles = 0 => AllFailed
        /\ /\ opts.mode = "cycle" /\ ThreadsPerCore = 2
           /\ opts.cycles >= 3 * EngineCount /\ EngineCount % 3 # 0
           => EveryCombination

(* The call in progress waits for the lock that the call it interrupted holds. *)
Stuck == Interrupted /\ Top = "checked" /\ ~LockIsFree

(* A stop request ends the session (README, Stopping a Session), and so does the
   failure of every selected core, also with --cycles 0, unless a second signal
   hit the few instructions of Event.set between its lock and its flag. *)
SessionEnds == Interrupted \/ cancel \/ AllFailed ~> pc = "done" \/ Stuck

(* lib/orchestrator.py:54: "A second signal aborts immediately". *)
SecondSignalAborts == Interrupted /\ signals >= 2 ~> pc = "done"
=============================================================================
