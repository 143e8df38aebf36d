------------------------------- MODULE Panes -------------------------------
(***************************************************************************)
(* What the operator sees of a session: the header and the core table of   *)
(* the dashboard (lib/tui.py, lib/views.py) and the summary at the end.    *)
(* The main thread changes the statistics and the fields of the presenter  *)
(* (lib/presenter.py) while the UI thread reads them, value by value and   *)
(* without a lock; what it drew is replaced once the next event or the     *)
(* next refresh has marked the screen as dirty.                            *)
(*                                                                         *)
(* A step is the code between two calls, where the interpreter may switch  *)
(* threads.  The runs come from the environment: any core that has not     *)
(* failed may be tested next, with any outcome (Orchestrator).  A second   *)
(* stop signal, or an exception, may end the session after any step; what  *)
(* is in the statistics by then is in the summary.                         *)
(***************************************************************************)
EXTENDS Statistics

CONSTANTS
    AllCores,       \* the cores, in order
    Slots,          \* the core of each slot of the SMU's table, or NoCore
    NoCore,
    Drops,          \* the clock drops a sample may have
    MaxRuns, MaxSamples     \* bounds

Cores == ToSet(AllCores)

ASSUME CoreAssumption ==
    /\ AllCores \in Seq(Cores) /\ IsInjective(AllCores) /\ NoCore \notin Cores
    /\ Slots \in Seq(Cores \cup {NoCore}) /\ Drops \subseteq Nat
ASSUME BoundAssumption == MaxRuns \in Nat /\ MaxSamples \in Nat

VARIABLES
    mpc,        \* what the main thread does
    cut,        \* history: what it did when the session was cut short, or "none"
    current,    \* current_core of the presenter
    samples,    \* current_samples, also those of CoreTelemetryMonitor
    stats,      \* CoreStats of each core
    results,    \* history: core, status and clocks of the runs that returned
    dirty,      \* _dirty
    table,      \* "live" while last_smu_snapshot is a snapshot
    upc,        \* what the UI thread does
    active,     \* active_idx of this drawing
    runDrop,    \* run_stretch of this drawing
    pane,       \* what is drawn on the screen so far
    summary     \* the summary table, once it is printed

main  == <<mpc, cut, current, samples, stats, results, summary>>
local == <<active, runDrop>>
ui    == <<table, upc, local, pane>>
vars  == <<main, dirty, ui>>

FailedStatuses == {"ERROR", "CRASH", "UNVERIFIED"}
NoDrop         == -1
Blank          == [kind |-> "basic", testing |-> NoCore, rows |-> <<>>]

Init ==
    /\ mpc = "idle" /\ cut = "none" /\ current = NoCore /\ samples = <<>>
    /\ stats = [c \in Cores |-> [passes |-> 0, failed |-> 0, runs |-> <<>>]]
    /\ results = <<>> /\ summary = <<>>
    /\ dirty = TRUE /\ table = "basic" /\ upc = "wait"
    /\ active = NoCore /\ runDrop = NoDrop /\ pane = Blank

-----------------------------------------------------------------------------
(* The main thread: events of the runner and of the orchestrator *)

MainGoto(loc) == mpc' = loc /\ UNCHANGED <<cut, summary, ui>>

(* on_core_start: the message that marks the screen comes last. *)
CoreStart ==
    /\ mpc = "idle" /\ Len(results) < MaxRuns
    /\ \E c \in Cores : stats[c].failed = 0 /\ current' = c
    /\ samples' = <<>>
    /\ MainGoto("started")
    /\ UNCHANGED <<stats, results, dirty>>

(* _emit *)
Emit ==
    /\ mpc \in {"started", "sampled", "resulted"}
    /\ dirty' = TRUE
    /\ MainGoto(IF mpc = "resulted" THEN "idle" ELSE "running")
    /\ UNCHANGED <<current, samples, stats, results>>

(* Output of the engine, a skipped core, a hardware error: any other message. *)
OtherEvent ==
    /\ ~dirty
    /\ dirty' = TRUE
    /\ UNCHANGED <<main, ui>>

(* on_telemetry_sample: a message only if the clock is stretched. *)
TakeSample ==
    /\ mpc = "running" /\ Len(samples) < MaxSamples
    /\ \E drop \in Drops :
           /\ samples' = Append(samples, drop)
           /\ MainGoto(IF Stretch(drop) >= Threshold THEN "sampled" ELSE "running")
    /\ UNCHANGED <<current, stats, results, dirty>>

Clocks(drops) == IF MostlyStretched(drops) THEN "stretched" ELSE IF drops = <<>> \/ MostlySteady(drops) THEN "steady" ELSE "mixed"

(* run_test returns. *)
RunReturns ==
    /\ mpc = "running"
    /\ \E status \in {"PASS", "CRASH", "INTERRUPTED"} :
           /\ results' = Append(results, [core |-> current, status |-> status, clocks |-> Clocks(samples)])
           /\ MainGoto(IF status = "INTERRUPTED" THEN "result" ELSE "tally")
    /\ UNCHANGED <<current, samples, stats, dirty>>

(* _accumulate_stats: telemetry first, the verdict last. *)
Tally ==
    /\ mpc = "tally"
    /\ stats' = IF samples = <<>> THEN stats
                ELSE [stats EXCEPT ![current].runs = Append(@, FromSamples(samples))]
    /\ MainGoto("score")
    /\ UNCHANGED <<current, samples, results, dirty>>

Score ==
    /\ mpc = "score"
    /\ stats' = IF Last(results).status = "PASS"
                THEN [stats EXCEPT ![current].passes = @ + 1]
                ELSE [stats EXCEPT ![current].failed = @ + 1]
    /\ MainGoto("result")
    /\ UNCHANGED <<current, samples, results, dirty>>

(* on_core_result *)
CoreResult ==
    /\ mpc = "result"
    /\ current' = NoCore
    /\ MainGoto("resulted")
    /\ UNCHANGED <<samples, stats, results, dirty>>

(* Between two runs: the last cycle is over, or the session is stopped. *)
EndSession ==
    /\ mpc = "idle"
    /\ MainGoto("over")
    /\ UNCHANGED <<current, samples, stats, results, dirty>>

(* A second signal, an exception of run_test or of the presenter: everything
   stays as it is, a run that has returned may be in part of the statistics. *)
Abort ==
    /\ mpc \in {"started", "running", "sampled", "tally", "score", "result", "resulted"}
    /\ cut' = mpc /\ mpc' = "over"
    /\ UNCHANGED <<current, samples, stats, results, dirty, summary, ui>>

-----------------------------------------------------------------------------
(* lib/views.py *)

(* Mutant of CoreStatus: a core that passed once is shown as passed. *)
CoreStatusByPasses(s, isActive, final) ==
    IF isActive THEN "ACTIVE"
    ELSE IF s.passes > 0 THEN IF Stretches(s.runs) THEN "STRETCH" ELSE "PASS"
    ELSE IF s.failed > 0 THEN "FAIL"
    ELSE IF final THEN "SKIPPED" ELSE "IDLE"

CoreStatus(s, isActive, final) ==
    IF isActive THEN "ACTIVE"
    ELSE IF s.failed > 0 THEN "FAIL"
    ELSE IF s.passes > 0 THEN IF Stretches(s.runs) THEN "STRETCH" ELSE "PASS"
    ELSE IF final THEN "SKIPPED" ELSE "IDLE"

(* fmt_drop, of a doubled median *)
FmtDrop(drop) == IF drop = NoDrop THEN NoDrop ELSE IF drop >= 2 * Threshold THEN drop ELSE 0

(* current_stretch_mhz, and the worst finished run *)
MedianOf(drops) == IF drops = <<>> THEN NoDrop ELSE FromSamples(drops).median
FinishedDrop(c) == IF stats[c].runs = <<>> THEN NoDrop ELSE WorstOf(stats[c].runs).median

Disabled == [status |-> "DISABLED", passes |-> 0, result |-> NoDrop]

(* Mutant of LastCell: the drop of the finished runs in every row. *)
LastCellFinished(kind, c, isActive, running) ==
    IF kind = "live" THEN FmtDrop(FinishedDrop(c)) ELSE stats[c].failed

(* The cell next to Pass: Drop in the live table, Fail in the basic one. *)
LastCell(kind, c, isActive, running) ==
    IF kind = "live" THEN FmtDrop(IF isActive THEN running ELSE FinishedDrop(c)) ELSE stats[c].failed

-----------------------------------------------------------------------------
(* The UI thread: _ui_iterations, _draw_header and _draw_cores_pane *)

UiGoto(loc) == upc' = loc /\ UNCHANGED main

(* The refresh interval has elapsed; the driver may answer or not. *)
Refresh ==
    /\ upc = "wait" /\ mpc # "done"
    /\ table' \in {"live", "basic"}
    /\ dirty' = TRUE
    /\ UiGoto("look")
    /\ UNCHANGED <<local, pane>>

BeginDrawing ==
    /\ upc \in {"wait", "look"} /\ dirty /\ mpc # "done"
    /\ dirty' = FALSE
    /\ pane' = [Blank EXCEPT !.kind = table]
    /\ UiGoto("header")
    /\ UNCHANGED <<table, local>>

DrawTesting ==
    /\ upc = "header"
    /\ pane' = [pane EXCEPT !.testing = current]
    /\ UiGoto("active")
    /\ UNCHANGED <<dirty, table, local>>

(* Both reads of current_core: there is no call, so no switch, between them. *)
ReadActive ==
    /\ upc = "active"
    /\ active' = current
    /\ UiGoto(IF table = "live" THEN "drop" ELSE "status")
    /\ UNCHANGED <<dirty, table, runDrop, pane>>

ReadDrop ==
    /\ upc = "drop"
    /\ runDrop' = MedianOf(samples)
    /\ UiGoto("status")
    /\ UNCHANGED <<dirty, table, active, pane>>

Entries == IF table = "live" THEN Slots ELSE AllCores
Row     == Len(pane.rows) + 1

(* live_core_row and basic_core_row: the status first, the numbers after it; a
   slot without a core is drawn as disabled. *)
DrawStatus ==
    /\ upc = "status" /\ Row <= Len(Entries)
    /\ LET c == Entries[Row] IN
       IF c = NoCore THEN pane' = [pane EXCEPT !.rows = Append(@, Disabled)] /\ UiGoto("status")
       ELSE /\ pane' = [pane EXCEPT !.rows = Append(@, [Disabled EXCEPT !.status = CoreStatus(stats[c], c = active, FALSE)])]
            /\ UiGoto("numbers")
    /\ UNCHANGED <<dirty, table, local>>

DrawNumbers ==
    /\ upc = "numbers"
    /\ LET last == Len(pane.rows)
           c    == Entries[last]
       IN  pane' = [pane EXCEPT !.rows[last] =
                      [status |-> @.status, passes |-> stats[c].passes,
                       result |-> LastCell(table, c, c = active, runDrop)]]
    /\ UiGoto("status")
    /\ UNCHANGED <<dirty, table, local>>

(* Mutant of ShowScreen: the flag is cleared when the drawing is done. *)
ShowScreenClean ==
    /\ upc = "status" /\ Row > Len(Entries)
    /\ active' = NoCore /\ runDrop' = NoDrop
    /\ dirty' = FALSE
    /\ UiGoto("wait")
    /\ UNCHANGED <<table, pane>>

(* scr.refresh() *)
ShowScreen ==
    /\ upc = "status" /\ Row > Len(Entries)
    /\ active' = NoCore /\ runDrop' = NoDrop
    /\ UiGoto("wait")
    /\ UNCHANGED <<dirty, table, pane>>

DrawStep ==
    \/ BeginDrawing \/ DrawTesting \/ ReadActive \/ ReadDrop
    \/ DrawStatus \/ DrawNumbers \/ ShowScreen

-----------------------------------------------------------------------------
(* The end of the session *)

SummaryRow(c) ==
    [status |-> CoreStatus(stats[c], FALSE, TRUE), passes |-> stats[c].passes, failed |-> stats[c].failed,
     drop   |-> FmtDrop(FinishedDrop(c))]

(* on_session_end: close joins the UI thread and takes the screen away, then the
   summary is rendered and printed line by line; a log that cannot be written or
   a signal ends it. *)
PrintSummary ==
    /\ mpc = "over" /\ upc = "wait"
    /\ mpc' = "done"
    /\ \E printed \in 0 .. Len(AllCores) : summary' = [i \in 1 .. printed |-> SummaryRow(AllCores[i])]
    /\ pane' = Blank
    /\ UNCHANGED <<cut, current, samples, stats, results, dirty, table, upc, local>>

MainStep ==
    \/ CoreStart \/ Emit \/ TakeSample \/ RunReturns \/ Tally \/ Score \/ CoreResult
    \/ EndSession \/ Abort \/ PrintSummary

Next == MainStep \/ OtherEvent \/ Refresh \/ DrawStep

Spec == Init /\ [][Next]_vars

(* The UI thread runs and its clock advances; nothing is assumed of the runs. *)
FairSpec == Spec /\ WF_vars(DrawStep) /\ WF_vars(Refresh)

-----------------------------------------------------------------------------
(* The main thread is not, and was not stopped, between a change and its message. *)
AllAnnounced ==
    \/ mpc \in {"idle", "running"}
    \/ mpc = "over" /\ cut \in {"none", "running"}

ShowsRow(i, c) ==
    LET row == pane.rows[i] IN
    /\ row.status = CoreStatus(stats[c], c = current, FALSE)
    /\ row.passes = stats[c].passes
    /\ table = "basic" \/ c # current => row.result = LastCell(table, c, FALSE, NoDrop)

(* The UI thread reads without a lock and may draw a row half before and half
   after a change, or a core as active that is not.  Such a drawing does not
   stay: once the message of the change is out and nothing is marked, header and
   table show the state of the session, except the drop of the current run.  If
   the session is cut short between a change and its message, the screen may be
   stale for the moment until the dashboard is closed. *)
PaneIsCurrent ==
    upc = "wait" /\ ~dirty /\ AllAnnounced =>
        /\ pane.kind = table /\ pane.testing = current
        /\ DOMAIN pane.rows = DOMAIN Entries
        /\ \A i \in DOMAIN Entries :
               IF Entries[i] = NoCore THEN pane.rows[i] = Disabled ELSE ShowsRow(i, Entries[i])

ShowsDrop ==
    pane.kind = "live" =>
        \A i \in DOMAIN pane.rows :
            Slots[i] = current /\ current # NoCore => pane.rows[i].result = FmtDrop(MedianOf(samples))

(* lib/views.py:153: "Drop is the median clock drop of the current run (active
   core)": a sample without stretching marks nothing, so the drop of the run in
   progress may lag, but the refresh always catches up with it. *)
DropIsRefreshed == []<>(mpc = "done" \/ (upc = "wait" /\ ShowsDrop))

ResultsOf(c) == {i \in DOMAIN results : results[i].core = c /\ results[i].status # "INTERRUPTED"}

(* The main thread is, or was when the session was cut short, at one of places. *)
At(places) == {mpc, cut} \cap places # {}

(* The returned runs whose telemetry is entered, and those whose verdict is. *)
Counted(c) == {i \in ResultsOf(c) : At({"tally"}) => i # Len(results)}
Judged(c)  == {i \in ResultsOf(c) : At({"tally", "score"}) => i # Len(results)}

(* lib/models.py:92: "medians suppress transient spikes": a core counts as
   stretching when one of its counted runs, not only the last, was stretched for
   most of its samples, and does not when each was steady for most of them. *)
WorstRunIsShown ==
    \A c \in Cores :
        /\ (\E i \in Counted(c) : results[i].clocks = "stretched") => Stretches(stats[c].runs)
        /\ (\A i \in Counted(c) : results[i].clocks = "steady") => ~Stretches(stats[c].runs)

(* The label of the summary is the verdict on the core over its returned runs: a
   failure outweighs passes and stretching, one stretched run the steady ones,
   and only a core without a judged run is "SKIPPED".  Every run that returned is
   judged, except the last one of a session that a second signal cut short while
   _accumulate_stats entered it; its telemetry may count without its verdict. *)
SummaryIsVerdict ==
    \A k \in DOMAIN summary :
        LET c    == AllCores[k]
            fail == {i \in Judged(c) : results[i].status \in FailedStatuses}
        IN
        /\ summary[k].status = "SKIPPED" <=> Judged(c) = {}
        /\ summary[k].status = "FAIL" <=> fail # {}
        /\ fail = {} /\ Judged(c) # {} =>
               /\ (\E i \in Counted(c) : results[i].clocks = "stretched") => summary[k].status = "STRETCH"
               /\ (\A i \in Counted(c) : results[i].clocks = "steady") => summary[k].status = "PASS"
        /\ summary[k].passes + summary[k].failed = Cardinality(Judged(c))
=============================================================================
