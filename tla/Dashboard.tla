----------------------------- MODULE Dashboard -----------------------------
(***************************************************************************)
(* The full-screen dashboard (CursesPresenter of lib/tui.py): the main     *)
(* thread starts it, emits lines, closes it once for the summary and once  *)
(* more when its with block is left; the kernel monitor thread emits lines *)
(* too; the UI thread draws what is new.  The threads share the log, the   *)
(* flags _dirty and _running, and the terminal.                            *)
(*                                                                         *)
(* A KeyboardInterrupt may end any step of the main thread, other than a   *)
(* method of the log.                                                      *)
(***************************************************************************)
EXTENDS LogBuffer, FiniteSets

CONSTANTS
    Main, Monitor,  \* the threads that emit
    Heights,        \* rows the log pane may have, 0 if the terminal is too small
    MaxLines,       \* bound: lines emitted
    MaxInterrupts   \* bound: interrupts of the main thread

ASSUME EmitterAssumption == Main # Monitor
ASSUME HeightAssumption == Heights \subseteq Nat
ASSUME BoundAssumption == MaxLines \in Nat /\ MaxInterrupts \in Nat

VARIABLES
    pc,         \* main thread: start, the session, close
    last,       \* the close in progress is the one of __exit__
    terminal,   \* who has the terminal: _stdscr
    running,    \* _running
    dirty,      \* _dirty
    epc,        \* per emitter: inside _emit
    uipc,       \* UI thread
    rows,       \* rows of the log pane on this terminal
    visible,    \* _log_visible
    shown,      \* lines in the log at the last drawing of it
    error,      \* _ui_error
    crashed,    \* history: the UI thread ended with an exception
    reported,   \* history: errors printed by close
    cut         \* history: where interrupts hit, or the thread could not be started

pane   == <<rows, visible, shown>>
ui     == <<uipc, pane, error, crashed>>
log    == <<lines, offset, window, held>>
vars   == <<pc, last, terminal, running, dirty, log, epc, ui, reported, cut>>

Emitters == {Main, Monitor}
Opening  == {"init", "thread", "started"}
Closing  == {"flag", "join", "restore", "report", "printed"}
MainPcs  == {"start", "session", "summary", "over"} \cup Opening \cup Closing
Drawing  == {"input", "draw"}
UiPcs    == {"off", "check", "refresh", "test", "clear", "ended"} \cup Drawing

TypeOK ==
    /\ pc \in MainPcs /\ last \in BOOLEAN
    /\ terminal \in {"normal", "curses"}
    /\ running \in BOOLEAN /\ dirty \in BOOLEAN
    /\ LogTypeOK
    /\ rows \in Heights /\ visible \in Nat \ {0} /\ shown \in 0 .. lines
    /\ epc \in [Emitters -> {"idle", "half"}]
    /\ uipc \in UiPcs /\ (running => uipc \notin {"off", "ended"} \/ pc = "over")
    /\ error \in BOOLEAN /\ crashed \in BOOLEAN
    /\ reported \in Nat
    /\ cut \in SUBSET (MainPcs \X BOOLEAN)

Init ==
    /\ pc = "start" /\ last = FALSE /\ terminal = "normal"
    /\ running = FALSE /\ dirty = TRUE
    /\ LogInit
    /\ rows \in Heights /\ visible = 1 /\ shown = 0 /\ epc = [e \in Emitters |-> "idle"]
    /\ uipc = "off" /\ error = FALSE /\ crashed = FALSE /\ reported = 0 /\ cut = {}

-----------------------------------------------------------------------------
(* The main thread: start *)

OpenTerminal ==
    /\ pc = "start"
    /\ terminal' = "curses"
    /\ pc' = "init"
    /\ UNCHANGED <<last, running, dirty, log, epc, ui, reported, cut>>

(* The terminal modes are set, or setting them raises and they are restored. *)
Configure ==
    /\ pc = "init"
    /\ \/ pc' = "thread" /\ UNCHANGED terminal
       \/ pc' = "over" /\ terminal' = "normal"
    /\ UNCHANGED <<last, running, dirty, log, epc, ui, reported, cut>>

(* _running is set, then the thread is started, or cannot be: that is an
   exception outside the try, and outside the with block. *)
StartThread ==
    /\ pc = "thread"
    /\ running' = TRUE
    /\ \/ pc' = "started" /\ uipc' = "check" /\ UNCHANGED cut
       \/ pc' = "over" /\ cut' = cut \cup {<<pc, last>>} /\ UNCHANGED uipc
    /\ UNCHANGED <<last, terminal, dirty, log, epc, pane, error, crashed, reported>>

EnterSession ==
    /\ pc = "started"
    /\ pc' = "session"
    /\ UNCHANGED <<last, terminal, running, dirty, log, epc, ui, reported, cut>>

-----------------------------------------------------------------------------
(* _emit, by the main thread and by the kernel monitor thread *)

(* Mutant of Emit: the mark is set before the line is there. *)
EmitMarksFirst(e) ==
    /\ \/ /\ pc = "session" /\ epc[e] = "idle" /\ lines < MaxLines
          /\ dirty' = TRUE
          /\ epc' = [epc EXCEPT ![e] = "half"]
          /\ UNCHANGED log
       \/ /\ epc[e] = "half"
          /\ AppendLine
          /\ epc' = [epc EXCEPT ![e] = "idle"]
          /\ UNCHANGED dirty
    /\ UNCHANGED <<pc, last, terminal, running, ui, reported, cut>>

(* The line is appended to the log, then the screen is marked. *)
Emit(e) ==
    /\ \/ /\ pc = "session" /\ epc[e] = "idle" /\ lines < MaxLines
          /\ AppendLine
          /\ epc' = [epc EXCEPT ![e] = "half"]
          /\ UNCHANGED dirty
       \/ /\ epc[e] = "half"
          /\ dirty' = TRUE
          /\ epc' = [epc EXCEPT ![e] = "idle"]
          /\ UNCHANGED log
    /\ UNCHANGED <<pc, last, terminal, running, ui, reported, cut>>

-----------------------------------------------------------------------------
(* close, by on_session_end and by __exit__ *)

EndSession ==
    /\ pc = "session" /\ epc[Main] = "idle"
    /\ pc' = "flag"
    /\ UNCHANGED <<last, terminal, running, dirty, log, epc, ui, reported, cut>>

(* Mutant of ClearRunning: the thread is not told. *)
ClearRunningForgotten ==
    /\ pc = "flag"
    /\ pc' = "join"
    /\ UNCHANGED <<last, terminal, running, dirty, log, epc, ui, reported, cut>>

ClearRunning ==
    /\ pc = "flag"
    /\ running' = FALSE
    /\ pc' = "join"
    /\ UNCHANGED <<last, terminal, dirty, log, epc, ui, reported, cut>>

(* Mutant of Join: the thread is daemonic, it is not waited for. *)
JoinNothing ==
    /\ pc = "join"
    /\ pc' = "restore"
    /\ UNCHANGED <<last, terminal, running, dirty, log, epc, ui, reported, cut>>

Join ==
    /\ pc = "join"
    /\ uipc \in {"off", "ended"}
    /\ pc' = "restore"
    /\ UNCHANGED <<last, terminal, running, dirty, log, epc, ui, reported, cut>>

RestoreTerminal ==
    /\ pc = "restore"
    /\ terminal' = "normal"
    /\ pc' = "report"
    /\ UNCHANGED <<last, running, dirty, log, epc, ui, reported, cut>>

Closed == IF last THEN "over" ELSE "summary"

(* The error is printed, and only the next step forgets it. *)
PrintError ==
    /\ pc = "report"
    /\ IF error THEN reported' = reported + 1 /\ pc' = "printed"
                ELSE pc' = Closed /\ UNCHANGED reported
    /\ UNCHANGED <<last, terminal, running, dirty, log, epc, ui, cut>>

(* Mutant of ClearError: the error is kept, and printed by the second close. *)
ClearErrorForgotten ==
    /\ pc = "printed"
    /\ pc' = Closed
    /\ UNCHANGED <<last, terminal, running, dirty, log, epc, ui, reported, cut>>

ClearError ==
    /\ pc = "printed"
    /\ error' = FALSE
    /\ pc' = Closed
    /\ UNCHANGED <<last, terminal, running, dirty, log, epc, uipc, pane, crashed, reported, cut>>

LeavePresenter ==
    /\ pc = "summary"
    /\ pc' = "flag"
    /\ last' = TRUE
    /\ UNCHANGED <<terminal, running, dirty, log, epc, ui, reported, cut>>

(* Mutant of UnwindsTo: there is no __exit__ that closes once more. *)
UnwindsOut == IF pc = "session" /\ ~last THEN "flag" ELSE "over"

(* KeyboardInterrupt: start is not yet inside the with block, and __exit__ is
   its end; in between close comes next, the one of __exit__ at the latest. *)
UnwindsTo ==
    IF last \/ pc \in Opening THEN "over" ELSE "flag"

Interrupt ==
    /\ pc \notin {"start", "over"}
    /\ Cardinality(cut) < MaxInterrupts
    /\ cut' = cut \cup {<<pc, last>>}
    /\ pc' = UnwindsTo
    /\ last' \in IF pc = "session" THEN BOOLEAN ELSE {last \/ pc \notin Opening}
    /\ epc' = [epc EXCEPT ![Main] = "idle"]
    /\ UNCHANGED <<terminal, running, dirty, log, ui, reported>>

-----------------------------------------------------------------------------
(* The UI thread: _ui_iterations *)

Ui == UNCHANGED <<pc, last, terminal, epc, reported, cut>>

CheckRunning ==
    /\ uipc = "check"
    /\ uipc' = IF running THEN "input" ELSE "ended"
    /\ Ui /\ UNCHANGED <<running, dirty, log, pane, error, crashed>>

ScrollLines == 3

(* One key of _handle_input: the log is scrolled by lines or by pages of the
   height it was last drawn with, or the terminal has been resized. *)
HandleKey ==
    /\ uipc = "input"
    /\ \/ /\ \/ \E step \in {ScrollLines, visible} : Scroll(step, visible) \/ Scroll(-step, visible)
             \/ ScrollToOldest(visible)
             \/ Follow
          /\ UNCHANGED rows
       \/ rows' \in Heights /\ UNCHANGED log
    /\ dirty' = TRUE
    /\ Ui /\ UNCHANGED <<uipc, running, visible, shown, error, crashed>>

NoMoreKeys ==
    /\ uipc = "input"
    /\ uipc' = "refresh"
    /\ Ui /\ UNCHANGED <<running, dirty, log, pane, error, crashed>>

(* The refresh interval may have passed: the SMU is read. *)
Refresh ==
    /\ uipc = "refresh"
    /\ dirty' \in {dirty, TRUE}
    /\ uipc' = "test"
    /\ Ui /\ UNCHANGED <<running, log, pane, error, crashed>>

TestDirty ==
    /\ uipc = "test"
    /\ uipc' = IF dirty THEN "clear" ELSE "check"
    /\ Ui /\ UNCHANGED <<running, dirty, log, pane, error, crashed>>

ClearDirty ==
    /\ uipc = "clear"
    /\ dirty' = FALSE
    /\ uipc' = "draw"
    /\ Ui /\ UNCHANGED <<running, log, pane, error, crashed>>

(* _render: a terminal that is too small shows no log. *)
Draw ==
    /\ uipc = "draw"
    /\ IF rows = 0 THEN UNCHANGED <<log, visible, shown>>
       ELSE visible' = rows /\ View(rows) /\ shown' = lines
    /\ uipc' = "check"
    /\ Ui /\ UNCHANGED <<running, dirty, rows, error, crashed>>

(* An exception of the iteration ends the dashboard and not the session. *)
UiFails ==
    /\ uipc \in {"input", "refresh", "draw"}
    /\ error' = TRUE /\ crashed' = TRUE
    /\ running' = FALSE
    /\ uipc' = "ended"
    /\ Ui /\ UNCHANGED <<dirty, log, pane>>

-----------------------------------------------------------------------------
UiStep == CheckRunning \/ NoMoreKeys \/ Refresh \/ TestDirty \/ ClearDirty \/ Draw \/ UiFails

CloseStep == ClearRunning \/ Join \/ RestoreTerminal \/ PrintError \/ ClearError

MainStep == OpenTerminal \/ Configure \/ StartThread \/ EnterSession \/ EndSession \/ CloseStep \/ LeavePresenter \/ Interrupt

Next == MainStep \/ UiStep \/ HandleKey \/ \E e \in Emitters : Emit(e)

Spec == Init /\ [][Next]_vars

(* The threads are scheduled, and the keys that were pressed come to an end.
   Nothing is assumed of the refresh interval or of when the session ends. *)
Fairness ==
    /\ WF_vars(UiStep) /\ WF_vars(CloseStep)
    /\ \A e \in Emitters : WF_vars(epc[e] = "half" /\ Emit(e))

FairSpec == Spec /\ Fairness

-----------------------------------------------------------------------------
Settled ==
    /\ pc = "session" /\ uipc \in {"check", "input"} /\ ~dirty
    /\ \A e \in Emitters : epc[e] = "idle"

(* A line is never forgotten: when nobody is emitting and nothing is marked for
   drawing, the screen shows the log as it is, at the scroll position and in the
   size of the terminal, however the steps interleaved. *)
NoLineIsForgotten ==
    Settled /\ rows # 0 =>
        shown = lines /\ window.last = lines - offset /\ window.height = rows

(* The UI thread uses the screen only while it is open: the terminal is given
   back after the thread has ended, also when the first close was interrupted. *)
DrawsOnOpenTerminal == uipc \in Drawing => terminal = "curses"

(* start or the close of __exit__ itself was cut: no with block closes after it. *)
CutForGood == \E hit \in cut : hit[1] \in Opening \/ hit[2]

(* The terminal is given back at the end, unless start or the close of __exit__
   was cut: by an interrupt, or because the thread could not be started. *)
TerminalIsRestored == pc = "over" /\ terminal = "curses" => CutForGood

(* The error that ended the dashboard is printed after the terminal is restored,
   though close runs twice and the first close may be interrupted.  It is printed
   once, and a second time only if an interrupt hit the first close after it had
   printed the error and before it forgot it. *)
ErrorIsReported ==
    /\ reported <= IF <<"printed", FALSE>> \in cut THEN 2 ELSE 1
    /\ pc = "over" /\ crashed /\ ~CutForGood => reported > 0

(* close returns: the UI thread notices that it is to end. *)
CloseReturns == pc = "flag" ~> pc \in {"summary", "over"}
=============================================================================
