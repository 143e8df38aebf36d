-------------------------- MODULE DashboardProofs --------------------------
(***************************************************************************)
(* Proofs about LogBuffer and Dashboard for every log length, window,      *)
(* scroll step, set of heights and bound.  The position stays below the    *)
(* number of kept lines (InLog): the limit of append, without which a full *)
(* deque would carry the view off its end.  The dashboard uses the log     *)
(* only through the operations of LogBuffer, so what is proved of it holds *)
(* there; the other theorems follow from where the UI thread may be while  *)
(* the main thread starts and closes (Threads).                            *)
(***************************************************************************)
EXTENDS Dashboard, TLAPS

-----------------------------------------------------------------------------
(* The log *)

InLog == offset > 0 => offset <= Kept - 1

LogInv ==
    /\ LogTypeOK
    /\ InLog
    /\ ViewIsAnchored
    /\ WindowIsFull

USE MaxLenAssumption

(* Where a position ends up: inside the log, and as far down as the window
   needs to be full. *)
LEMMA ClampBounds ==
  ASSUME lines \in Nat, NEW position \in Int, NEW tall \in Nat \ {0}
  PROVE  /\ Clamp(position, tall) \in Nat
         /\ Clamp(position, tall) > 0 => Clamp(position, tall) <= Kept - tall
BY DEF Clamp, Least, Greatest, Kept

(* Moving the view keeps it anchored to where it is moved. *)
LEMMA MoveToAnchors ==
  ASSUME LogInv, NEW position \in Int, NEW tall \in Nat \ {0}, MoveTo(position, tall)
  PROVE  /\ lines' = lines /\ offset' \in Nat /\ held' \in Nat
         /\ offset' > 0 => offset' <= Kept - tall
         /\ InLog' /\ ViewIsAnchored'
<1>1. lines \in Nat /\ Kept \in Nat /\ Kept <= lines
  BY DEF LogInv, LogTypeOK, Kept, Least
<1>2. /\ lines' = lines /\ Kept' = Kept
      /\ offset' = Clamp(position, tall)
      /\ held' = IF offset' > 0 THEN lines - offset' ELSE 0
  BY DEF MoveTo, Kept
<1>3. offset' \in Nat /\ (offset' > 0 => offset' <= Kept - tall)
  BY <1>1, <1>2, ClampBounds
<1>4. held' \in Nat /\ (held' = 0 <=> offset' = 0)
  BY <1>1, <1>2, <1>3
<1>5. InLog'
  BY <1>1, <1>2, <1>3 DEF InLog
<1>6. ViewIsAnchored'
  BY <1>1, <1>2, <1>3, <1>4 DEF ViewIsAnchored, Oldest, Greatest
<1>7. QED
  BY <1>2, <1>3, <1>4, <1>5, <1>6

LEMMA AppendKeepsInv == LogInv /\ AppendLine => LogInv'
<1> SUFFICES ASSUME LogInv, AppendLine PROVE LogInv'
  OBVIOUS
<1>1. /\ lines \in Nat /\ offset \in Nat /\ held \in Nat
      /\ Kept = IF lines < MaxLen THEN lines ELSE MaxLen
      /\ offset > 0 => offset <= Kept - 1
  BY DEF LogInv, LogTypeOK, InLog, Kept, Least
<1>2. /\ lines' = lines + 1 /\ held' = held /\ window' = window
      /\ Kept' = IF lines + 1 < MaxLen THEN lines + 1 ELSE MaxLen
      /\ offset' = IF offset > 0 THEN (IF offset + 1 < Kept' - 1 THEN offset + 1 ELSE Kept' - 1) ELSE 0
  BY DEF AppendLine, Kept, Least
<1>3. LogTypeOK' /\ InLog'
  BY <1>1, <1>2 DEF LogInv, LogTypeOK, InLog
<1>4. ViewIsAnchored'
  <2>1. offset' = 0 <=> offset = 0
    BY <1>1, <1>2
  <2>2. ASSUME held # 0 PROVE lines' - offset' = Greatest(held, Oldest')
    <3>1. offset > 0 /\ lines - offset = IF held > lines - Kept + 1 THEN held ELSE lines - Kept + 1
      BY <1>1, <2>2 DEF LogInv, ViewIsAnchored, Greatest, Oldest
    <3>2. Oldest' = lines' - Kept' + 1
      BY DEF Oldest
    <3>3. QED
      BY <1>1, <1>2, <3>1, <3>2 DEF Greatest
  <2>3. QED
    BY <1>2, <2>1, <2>2 DEF LogInv, ViewIsAnchored
<1>5. WindowIsFull'
  BY <1>1, <1>2 DEF LogInv, LogTypeOK, Windows, WindowIsFull
<1>6. QED
  BY <1>3, <1>4, <1>5 DEF LogInv

(* A window is cut out of the kept lines at the clamped position. *)
LEMMA ViewKeepsInv ==
  ASSUME LogInv, NEW tall \in Nat \ {0}, View(tall)
  PROVE  LogInv'
<1>1. MoveTo(offset, tall) /\ offset \in Int
  BY DEF View, LogInv, LogTypeOK
<1>2. /\ lines' = lines /\ offset' \in Nat /\ held' \in Nat
      /\ offset' > 0 => offset' <= Kept - tall
      /\ InLog' /\ ViewIsAnchored'
  BY <1>1, MoveToAnchors
<1>3. lines \in Nat /\ Kept \in Nat /\ Kept <= lines
  BY DEF LogInv, LogTypeOK, Kept, Least
<1>4. /\ window'.last = lines - offset' /\ window'.height = tall /\ window'.kept = Kept
      /\ window'.first = Greatest(lines - Kept + 1, lines - offset' - tall + 1)
      /\ window' = [first |-> window'.first, last |-> window'.last,
                    height |-> window'.height, kept |-> window'.kept]
  BY DEF View, Oldest
<1>5. window'.first \in Nat /\ window'.last \in Nat
  BY <1>2, <1>3, <1>4 DEF Greatest
<1>6. window' \in Windows
  BY <1>3, <1>4, <1>5 DEF Windows
<1>7. WindowIsFull'
  BY <1>2, <1>3, <1>4 DEF WindowIsFull, Greatest, Least
<1>8. QED
  BY <1>2, <1>3, <1>6, <1>7 DEF LogInv, LogTypeOK

LEMMA StepKeepsInv == LogInv /\ [LogNext]_logVars => LogInv'
<1> SUFFICES ASSUME LogInv, [LogNext]_logVars PROVE LogInv'
  OBVIOUS
<1>1. lines \in Nat /\ Kept \in Nat /\ offset \in Nat
  BY DEF LogInv, LogTypeOK, Kept, Least
<1>2. CASE AppendLine
  BY <1>2, AppendKeepsInv
<1>3. CASE Follow
  <2>1. lines' = lines /\ window' = window /\ offset' = 0 /\ held' = 0
    BY <1>3 DEF Follow
  <2>2. LogTypeOK' /\ InLog' /\ ViewIsAnchored'
    BY <1>1, <2>1 DEF LogInv, LogTypeOK, InLog, ViewIsAnchored
  <2>3. QED
    BY <2>1, <2>2 DEF LogInv, WindowIsFull
<1>4. ASSUME NEW tall \in Nat \ {0}, NEW position \in Int, MoveTo(position, tall), UNCHANGED window
      PROVE  LogInv'
  <2>1. lines' = lines /\ offset' \in Nat /\ held' \in Nat /\ InLog' /\ ViewIsAnchored'
    BY <1>4, MoveToAnchors
  <2>2. QED
    BY <1>4, <2>1 DEF LogInv, LogTypeOK, WindowIsFull
<1>5. ASSUME NEW tall \in Nat \ {0}, ScrollToOldest(tall) PROVE LogInv'
  BY <1>1, <1>4, <1>5 DEF ScrollToOldest
<1>6. ASSUME NEW tall \in Nat \ {0}, NEW delta \in Int, Scroll(delta, tall) PROVE LogInv'
  <2>1. offset + delta \in Int
    BY <1>1
  <2>2. QED
    BY <1>4, <1>6, <2>1 DEF Scroll
<1>7. ASSUME NEW tall \in Nat \ {0}, View(tall) PROVE LogInv'
  BY <1>7, ViewKeepsInv
<1>8. CASE UNCHANGED logVars
  BY <1>8 DEF logVars, LogInv, LogTypeOK, InLog, ViewIsAnchored, WindowIsFull, Oldest, Kept
<1>9. QED
  BY <1>2, <1>3, <1>5, <1>6, <1>7, <1>8 DEF LogNext

LEMMA InitInv == LogInit => LogInv
<1> SUFFICES ASSUME LogInit PROVE LogInv
  OBVIOUS
<1>1. Kept = 0 /\ Oldest = 1
  BY DEF LogInit, Kept, Oldest, Least
<1>2. QED
  BY <1>1 DEF LogInit, LogInv, LogTypeOK, Windows, InLog, ViewIsAnchored, WindowIsFull, Least

(* The log of any dashboard: its position, its view and its windows, however
   many lines arrive and whatever the operator and the terminal do. *)
THEOREM LogIsSound == LogSpec => []LogInv
BY InitInv, StepKeepsInv, PTL DEF LogSpec

-----------------------------------------------------------------------------
(* The dashboard *)

(* Where the threads are, and who has the terminal. *)
Threads ==
    /\ pc \in {"start", "init", "thread"} => uipc = "off"
    /\ pc \in {"init", "thread"} => terminal = "curses"
    /\ pc \in {"start", "session"} \cup Opening => ~last
    /\ pc \in {"restore", "report", "printed"} => uipc \in {"off", "ended"}
    /\ pc \in {"report", "printed"} => terminal = "normal"
    /\ uipc \notin {"off", "ended"} => terminal = "curses"

Twice == <<"printed", FALSE>> \in cut

(* The thread fails once, and its error is kept until close has printed it.  It
   is printed again only by the close of __exit__, after an interrupt between
   the printing and the forgetting of the first one. *)
Errors ==
    /\ crashed => uipc = "ended" /\ (error \/ reported > 0)
    /\ ~crashed => ~error /\ reported = 0
    /\ pc = "printed" => error /\ reported > 0
    /\ error /\ reported > 0 => pc \in {"printed", "over"} \/ Twice
    /\ reported < 2 \/ (reported = 2 /\ Twice /\ last /\ (pc \in {"printed", "over"}))
    /\ Twice => last
    /\ pc = "over" /\ ~CutForGood => ~error /\ uipc \in {"off", "ended"}

UpToDate ==
    rows # 0 => shown = lines /\ window.last = lines - offset /\ window.height = rows

(* What is not on the screen is marked, about to be marked, or being drawn. *)
Pending ==
    pc \in {"start", "session"} \cup Opening =>
        \/ UpToDate \/ dirty \/ uipc \in {"draw", "ended"}
        \/ \E e \in Emitters : epc[e] = "half"

Mains == {"start", "session", "summary", "over", "init", "thread", "started",
          "flag", "join", "restore", "report", "printed"}
Uis   == {"off", "check", "refresh", "test", "clear", "ended", "input", "draw"}

(* TypeOK without the log. *)
Flat ==
    /\ pc \in Mains /\ last \in BOOLEAN /\ terminal \in {"normal", "curses"}
    /\ running \in BOOLEAN /\ dirty \in BOOLEAN
    /\ rows \in Heights /\ visible \in Nat \ {0} /\ shown \in Nat /\ shown <= lines
    /\ epc \in [Emitters -> {"idle", "half"}]
    /\ uipc \in Uis /\ (running => uipc \notin {"off", "ended"} \/ pc = "over")
    /\ error \in BOOLEAN /\ crashed \in BOOLEAN /\ reported \in Nat
    /\ cut \in SUBSET (Mains \X BOOLEAN)

(* The locations, written out. *)
LEMMA Places == MainPcs = Mains /\ UiPcs = Uis
BY DEF MainPcs, Mains, UiPcs, Uis, Opening, Closing, Drawing

-----------------------------------------------------------------------------
(* The log *)

(* The threads of the dashboard use the log as LogBuffer allows. *)
LEMMA LogStep == TypeOK /\ [Next]_vars => [LogNext]_logVars
<1> SUFFICES ASSUME TypeOK, [Next]_vars PROVE [LogNext]_logVars
  OBVIOUS
<1>0. CASE UNCHANGED vars
  BY <1>0 DEF vars, log, logVars
<1>1. CASE OpenTerminal
  BY <1>1 DEF OpenTerminal, log, logVars
<1>2. CASE Configure
  BY <1>2 DEF Configure, log, logVars
<1>3. CASE StartThread
  BY <1>3 DEF StartThread, log, logVars
<1>4. CASE EnterSession
  BY <1>4 DEF EnterSession, log, logVars
<1>5. CASE EndSession
  BY <1>5 DEF EndSession, log, logVars
<1>6. CASE ClearRunning
  BY <1>6 DEF ClearRunning, log, logVars
<1>7. CASE Join
  BY <1>7 DEF Join, log, logVars
<1>8. CASE RestoreTerminal
  BY <1>8 DEF RestoreTerminal, log, logVars
<1>9. CASE PrintError \/ ClearError
  BY <1>9 DEF PrintError, ClearError, log, logVars
<1>10. CASE LeavePresenter
  BY <1>10 DEF LeavePresenter, log, logVars
<1>11. CASE Interrupt
  BY <1>11 DEF Interrupt, log, logVars
<1>12. CASE CheckRunning
  BY <1>12 DEF CheckRunning, Ui, log, logVars
<1>13. CASE NoMoreKeys
  BY <1>13 DEF NoMoreKeys, Ui, log, logVars
<1>14. CASE Refresh
  BY <1>14 DEF Refresh, Ui, log, logVars
<1>15. CASE TestDirty
  BY <1>15 DEF TestDirty, Ui, log, logVars
<1>16. CASE ClearDirty
  BY <1>16 DEF ClearDirty, Ui, log, logVars
<1>17. CASE Draw
  <2>1. rows \in Nat
    BY HeightAssumption DEF TypeOK
  <2>2. CASE rows = 0
    BY <1>17, <2>2 DEF Draw, log, logVars
  <2>3. CASE rows # 0
    <3>1. View(rows) /\ rows \in Nat \ {0}
      BY <1>17, <2>1, <2>3 DEF Draw
    <3>2. QED
      BY <3>1 DEF LogNext
  <2>4. QED
    BY <2>2, <2>3
<1>18. CASE UiFails
  BY <1>18 DEF UiFails, Ui, log, logVars
<1>19. CASE HandleKey
  <2>1. visible \in Nat \ {0} /\ visible \in Int /\ -visible \in Int /\ ScrollLines \in Int /\ -ScrollLines \in Int
    BY DEF TypeOK, ScrollLines
  <2>2. CASE UNCHANGED log
    BY <2>2 DEF log, logVars
  <2>3. CASE Follow \/ ScrollToOldest(visible)
    BY <2>1, <2>3 DEF LogNext
  <2>4. CASE \E step \in {ScrollLines, visible} : Scroll(step, visible) \/ Scroll(-step, visible)
    <3>1. PICK step \in {ScrollLines, visible} : Scroll(step, visible) \/ Scroll(-step, visible)
      BY <2>4
    <3>2. step \in Int /\ -step \in Int
      BY <2>1
    <3>3. \E delta \in Int : Scroll(delta, visible)
      BY <3>1, <3>2
    <3>4. QED
      BY <2>1, <3>3 DEF LogNext
  <2>5. QED
    BY <1>19, <2>2, <2>3, <2>4 DEF HandleKey
<1>20. ASSUME NEW e \in Emitters, Emit(e) PROVE [LogNext]_logVars
  <2>1. AppendLine \/ UNCHANGED log
    BY <1>20 DEF Emit
  <2>2. QED
    BY <2>1 DEF LogNext, log, logVars
<1>21. QED
  BY <1>0, <1>1, <1>2, <1>3, <1>4, <1>5, <1>6, <1>7, <1>8, <1>9, <1>10, <1>11, <1>12, <1>13, <1>14, <1>15, <1>16, <1>17, <1>18, <1>19, <1>20 DEF Next, MainStep, CloseStep, UiStep

-----------------------------------------------------------------------------
(* Types *)

(* The types of the dashboard are those of its threads and of the log. *)
LEMMA FlatTypes == LogTypeOK => (TypeOK <=> Flat)
BY Places DEF TypeOK, Flat, LogTypeOK

(* Every step keeps the types of the threads. *)
LEMMA FlatStep == Flat /\ LogInv /\ [Next]_vars => Flat'
<1> SUFFICES ASSUME Flat, LogInv, [Next]_vars PROVE Flat'
  OBVIOUS
<1> USE HeightAssumption DEF Flat, Mains, Uis, log, ui, pane
<1> lines \in Nat
  BY DEF LogInv, LogTypeOK
<1>0. CASE UNCHANGED vars
  BY <1>0 DEF vars
<1>1. CASE OpenTerminal
  BY <1>1 DEF OpenTerminal
<1>2. CASE Configure
  BY <1>2 DEF Configure
<1>3. CASE StartThread
  BY <1>3 DEF StartThread
<1>4. CASE EnterSession
  BY <1>4 DEF EnterSession
<1>5. CASE EndSession
  BY <1>5 DEF EndSession
<1>6. CASE ClearRunning
  BY <1>6 DEF ClearRunning
<1>7. CASE Join
  BY <1>7 DEF Join
<1>8. CASE RestoreTerminal
  BY <1>8 DEF RestoreTerminal
<1>9. CASE PrintError \/ ClearError
  <2>1. reported' \in Nat /\ pc' \in {"over", "summary", "printed"} /\ error' \in BOOLEAN
    <3>1. reported' \in {reported, reported + 1} /\ error' \in {error, FALSE}
      BY <1>9 DEF PrintError, ClearError
    <3>2. pc' \in {"over", "summary", "printed"}
      BY <1>9 DEF PrintError, ClearError, Closed
    <3>3. error \in BOOLEAN /\ reported \in Nat
      OBVIOUS
    <3>4. error' \in BOOLEAN
      BY <3>1, <3>3, Zenon
    <3>5. reported' \in Nat
      BY <3>1, <3>3
    <3>6. QED
      BY <3>2, <3>4, <3>5
  <2>2. UNCHANGED <<last, terminal, running, dirty, lines, epc, uipc, rows, visible, shown, crashed, cut>>
    BY <1>9 DEF PrintError, ClearError
  <2>3. pc # "over"
    BY <1>9 DEF PrintError, ClearError
  <2>4. QED
    BY <2>1, <2>2, <2>3
<1>10. CASE LeavePresenter
  BY <1>10 DEF LeavePresenter
<1>11. CASE Interrupt
  <2>1. pc' \in Mains
    BY <1>11 DEF Interrupt, UnwindsTo
  <2>2. last' \in BOOLEAN
    BY <1>11, Zenon DEF Interrupt
  <2>3. cut' \in SUBSET (Mains \X BOOLEAN)
    BY <1>11 DEF Interrupt
  <2>4. epc' \in [Emitters -> {"idle", "half"}]
    BY <1>11 DEF Interrupt
  <2>5. QED
    BY <1>11, <2>1, <2>2, <2>3, <2>4 DEF Interrupt
<1>12. CASE CheckRunning
  BY <1>12 DEF CheckRunning, Ui
<1>13. CASE NoMoreKeys
  BY <1>13 DEF NoMoreKeys, Ui
<1>14. CASE Refresh
  BY <1>14 DEF Refresh, Ui
<1>15. CASE TestDirty
  BY <1>15 DEF TestDirty, Ui
<1>16. CASE ClearDirty
  BY <1>16 DEF ClearDirty, Ui
<1>17. CASE Draw
  <2>1. /\ lines' = lines /\ shown' \in {shown, lines}
        /\ visible' \in Nat \ {0}
    BY <1>17 DEF Draw, View, MoveTo
  <2>2. QED
    BY <1>17, <2>1 DEF Draw, Ui
<1>18. CASE UiFails
  BY <1>18 DEF UiFails, Ui
<1>19. CASE HandleKey
  <2>1. lines' = lines
    BY <1>19 DEF HandleKey, Scroll, ScrollToOldest, Follow, MoveTo
  <2>2. rows' \in Heights
    BY <1>19 DEF HandleKey
  <2>3. QED
    BY <1>19, <2>1, <2>2 DEF HandleKey, Ui
<1>20. ASSUME NEW e \in Emitters, Emit(e) PROVE Flat'
  <2>1. lines' >= lines /\ lines' \in Nat
    BY <1>20 DEF Emit, AppendLine
  <2>2. epc' \in [Emitters -> {"idle", "half"}]
    BY <1>20 DEF Emit
  <2>3. dirty' \in BOOLEAN
    BY <1>20 DEF Emit
  <2>4. QED
    BY <1>20, <2>1, <2>2, <2>3 DEF Emit
<1>21. QED
  BY <1>0, <1>1, <1>2, <1>3, <1>4, <1>5, <1>6, <1>7, <1>8, <1>9, <1>10, <1>11, <1>12, <1>13, <1>14, <1>15, <1>16, <1>17, <1>18, <1>19, <1>20 DEF Next, MainStep, CloseStep, UiStep

(* The types and the log together: a drawing shows lines that exist. *)
LEMMA TypedLog == TypeOK /\ LogInv /\ [Next]_vars => TypeOK' /\ LogInv'
<1> SUFFICES ASSUME TypeOK, LogInv, [Next]_vars PROVE TypeOK' /\ LogInv'
  OBVIOUS
<1>1. LogInv'
  BY LogStep, StepKeepsInv
<1>2. LogTypeOK /\ LogTypeOK'
  BY <1>1 DEF LogInv
<1>3. Flat'
  BY <1>2, FlatTypes, FlatStep
<1>4. LogTypeOK' => (TypeOK' <=> Flat')
  BY FlatTypes, PTL
<1>5. QED
  BY <1>1, <1>2, <1>3, <1>4

-----------------------------------------------------------------------------
(* The terminal and the threads *)

(* close waits for the UI thread before it gives the terminal back. *)
LEMMA ThreadsStep == TypeOK /\ Threads /\ [Next]_vars => Threads'
<1> SUFFICES ASSUME TypeOK, Threads, [Next]_vars PROVE Threads'
  OBVIOUS
<1> USE DEF Threads, Opening, log, ui, pane
<1>0. CASE UNCHANGED vars
  BY <1>0 DEF vars
<1>1. CASE OpenTerminal
  BY <1>1 DEF OpenTerminal
<1>2. CASE Configure
  BY <1>2 DEF Configure
<1>3. CASE StartThread
  BY <1>3 DEF StartThread
<1>4. CASE EnterSession
  BY <1>4 DEF EnterSession
<1>5. CASE EndSession
  BY <1>5 DEF EndSession
<1>6. CASE ClearRunning
  BY <1>6 DEF ClearRunning
<1>7. CASE Join
  BY <1>7 DEF Join
<1>8. CASE RestoreTerminal
  BY <1>8 DEF RestoreTerminal
<1>9. CASE PrintError \/ ClearError
  <2>1. pc' \in {"over", "summary", "printed"} /\ UNCHANGED <<uipc, terminal>> /\ pc \in {"report", "printed"}
    BY <1>9 DEF PrintError, ClearError, Closed
  <2>2. QED
    BY <2>1
<1>10. CASE LeavePresenter
  BY <1>10 DEF LeavePresenter
<1>11. CASE Interrupt
  <2>1. pc' \in {"over", "flag"} /\ UNCHANGED <<uipc, terminal>>
    BY <1>11 DEF Interrupt, UnwindsTo
  <2>2. QED
    BY <2>1
<1>12. CASE CheckRunning
  BY <1>12 DEF CheckRunning, Ui
<1>13. CASE NoMoreKeys
  BY <1>13 DEF NoMoreKeys, Ui
<1>14. CASE Refresh
  BY <1>14 DEF Refresh, Ui
<1>15. CASE TestDirty
  BY <1>15 DEF TestDirty, Ui
<1>16. CASE ClearDirty
  BY <1>16 DEF ClearDirty, Ui
<1>17. CASE Draw
  BY <1>17 DEF Draw, Ui
<1>18. CASE UiFails
  BY <1>18 DEF UiFails, Ui
<1>19. CASE HandleKey
  BY <1>19 DEF HandleKey, Ui
<1>20. ASSUME NEW e \in Emitters, Emit(e) PROVE Threads'
  BY <1>20 DEF Emit
<1>21. QED
  BY <1>0, <1>1, <1>2, <1>3, <1>4, <1>5, <1>6, <1>7, <1>8, <1>9, <1>10, <1>11, <1>12, <1>13, <1>14, <1>15, <1>16, <1>17, <1>18, <1>19, <1>20 DEF Next, MainStep, CloseStep, UiStep

(* An interrupt that reaches the end is recorded where it hit. *)
LEMMA RestoredStep == TypeOK /\ Threads /\ TerminalIsRestored /\ [Next]_vars => TerminalIsRestored'
<1> SUFFICES ASSUME TypeOK, Threads, TerminalIsRestored, [Next]_vars PROVE TerminalIsRestored'
  OBVIOUS
<1> cut' = cut => (CutForGood' <=> CutForGood)
  BY DEF CutForGood
<1> USE DEF Threads, TerminalIsRestored, log, ui, pane
<1>0. CASE UNCHANGED vars
  BY <1>0 DEF vars
<1>1. CASE OpenTerminal
  BY <1>1 DEF OpenTerminal
<1>2. CASE Configure
  BY <1>2 DEF Configure
<1>3. CASE StartThread
  <2>1. CASE pc' = "started"
    BY <1>3, <2>1 DEF StartThread
  <2>2. CASE cut' = cut \cup {<<pc, last>>}
    <3>1. <<pc, last>> \in cut' /\ <<pc, last>>[1] \in Opening
      BY <1>3, <2>2 DEF StartThread, Opening
    <3>2. CutForGood'
      BY <3>1 DEF CutForGood
    <3>3. QED
      BY <3>2
  <2>3. QED
    BY <1>3, <2>1, <2>2 DEF StartThread
<1>4. CASE EnterSession
  BY <1>4 DEF EnterSession
<1>5. CASE EndSession
  BY <1>5 DEF EndSession
<1>6. CASE ClearRunning
  BY <1>6 DEF ClearRunning
<1>7. CASE Join
  BY <1>7 DEF Join
<1>8. CASE RestoreTerminal
  BY <1>8 DEF RestoreTerminal
<1>9. CASE PrintError \/ ClearError
  <2>1. terminal' = "normal"
    BY <1>9 DEF PrintError, ClearError
  <2>2. QED
    BY <2>1
<1>10. CASE LeavePresenter
  BY <1>10 DEF LeavePresenter
<1>11. CASE Interrupt
  <2>1. CASE last \/ pc \in Opening
    <3>1. <<pc, last>> \in cut'
      BY <1>11 DEF Interrupt
    <3>2. <<pc, last>>[1] \in Opening \/ <<pc, last>>[2]
      BY <2>1
    <3>3. CutForGood'
      BY <3>1, <3>2 DEF CutForGood
    <3>4. QED
      BY <3>3
  <2>2. CASE ~(last \/ pc \in Opening)
    BY <1>11, <2>2 DEF Interrupt, UnwindsTo
  <2>3. QED
    BY <2>1, <2>2
<1>12. CASE CheckRunning
  BY <1>12 DEF CheckRunning, Ui
<1>13. CASE NoMoreKeys
  BY <1>13 DEF NoMoreKeys, Ui
<1>14. CASE Refresh
  BY <1>14 DEF Refresh, Ui
<1>15. CASE TestDirty
  BY <1>15 DEF TestDirty, Ui
<1>16. CASE ClearDirty
  BY <1>16 DEF ClearDirty, Ui
<1>17. CASE Draw
  BY <1>17 DEF Draw, Ui
<1>18. CASE UiFails
  BY <1>18 DEF UiFails, Ui
<1>19. CASE HandleKey
  BY <1>19 DEF HandleKey, Ui
<1>20. ASSUME NEW e \in Emitters, Emit(e) PROVE TerminalIsRestored'
  BY <1>20 DEF Emit
<1>21. QED
  BY <1>0, <1>1, <1>2, <1>3, <1>4, <1>5, <1>6, <1>7, <1>8, <1>9, <1>10, <1>11, <1>12, <1>13, <1>14, <1>15, <1>16, <1>17, <1>18, <1>19, <1>20 DEF Next, MainStep, CloseStep, UiStep

-----------------------------------------------------------------------------
(* The error of the UI thread *)

(* The thread fails at most once; close prints its error, then forgets it. *)
LEMMA ErrorsStep == TypeOK /\ Threads /\ Errors /\ [Next]_vars => Errors'
<1> SUFFICES ASSUME TypeOK, Threads, Errors, [Next]_vars PROVE Errors'
  OBVIOUS
<1> cut' = cut => (CutForGood' <=> CutForGood) /\ (Twice' <=> Twice)
  BY DEF CutForGood, Twice
<1> USE DEF Threads, Opening, Errors, log, ui, pane
<1>0. CASE UNCHANGED vars
  BY <1>0 DEF vars
<1>1. CASE OpenTerminal
  BY <1>1 DEF OpenTerminal
<1>2. CASE Configure
  BY <1>2 DEF Configure
<1>3. CASE StartThread
  <2>1. CASE cut' = cut
    BY <1>3, <2>1 DEF StartThread
  <2>2. CASE cut' = cut \cup {<<pc, last>>} /\ pc' = "over" /\ uipc' = uipc
    <3>1. /\ pc = "thread" /\ uipc = "off" /\ UNCHANGED <<last, error, crashed, reported>>
      BY <1>3 DEF StartThread
    <3>2. <<pc, last>> \in cut' /\ <<pc, last>>[1] \in Opening
      BY <2>2, <3>1 DEF Opening
    <3>3. CutForGood' /\ (Twice' <=> Twice)
      BY <2>2, <3>1, <3>2 DEF CutForGood, Twice
    <3>4. QED
      BY <2>2, <3>1, <3>3
  <2>3. QED
    BY <1>3, <2>1, <2>2 DEF StartThread
<1>4. CASE EnterSession
  BY <1>4 DEF EnterSession
<1>5. CASE EndSession
  BY <1>5 DEF EndSession
<1>6. CASE ClearRunning
  BY <1>6 DEF ClearRunning
<1>7. CASE Join
  BY <1>7 DEF Join
<1>8. CASE RestoreTerminal
  BY <1>8 DEF RestoreTerminal
<1>9. CASE PrintError
  <2>1. CASE error
    <3>1. /\ pc' = "printed" /\ reported' = reported + 1 /\ pc = "report"
          /\ UNCHANGED <<last, uipc, error, crashed, cut>>
      BY <1>9, <2>1 DEF PrintError
    <3>2. reported \in Nat /\ reported < 2
      BY <3>1 DEF TypeOK
    <3>3. reported = 1 => Twice /\ last
      BY <2>1, <3>1
    <3>4. QED
      BY <2>1, <3>1, <3>2, <3>3
  <2>2. CASE ~error
    <3>1. /\ pc' \in {"over", "summary"} /\ pc = "report"
          /\ UNCHANGED <<last, uipc, error, crashed, reported, cut>>
      BY <1>9, <2>2 DEF PrintError, Closed
    <3>2. QED
      BY <2>2, <3>1
  <2>3. QED
    BY <2>1, <2>2
<1>22. CASE ClearError
  <2>1. /\ pc' = Closed /\ pc = "printed" /\ error' = FALSE
        /\ UNCHANGED <<last, uipc, crashed, reported, cut>>
    BY <1>22 DEF ClearError
  <2>2. reported = 2 => pc' = "over"
    BY <2>1 DEF Closed
  <2>3. pc' \in {"over", "summary"}
    BY <2>1 DEF Closed
  <2>4. QED
    BY <2>1, <2>2, <2>3
<1>10. CASE LeavePresenter
  BY <1>10 DEF LeavePresenter
<1>11. CASE Interrupt
  <2>1. /\ cut' = cut \cup {<<pc, last>>} /\ pc # "over" /\ pc' = UnwindsTo
        /\ UNCHANGED <<uipc, error, crashed, reported>>
    BY <1>11 DEF Interrupt
  <2>2. pc \notin Opening \cup {"session"} => last' = TRUE
    BY <1>11 DEF Interrupt
  <2>3. last => last' /\ pc # "session"
    <3>1. last => pc \notin {"session"} \cup Opening
      BY DEF Opening
    <3>2. QED
      BY <1>11, <3>1 DEF Interrupt
  <2>4. Twice' <=> Twice \/ (pc = "printed" /\ ~last)
    BY <2>1 DEF TypeOK, Twice
  <2>5. Twice' => last'
    BY <2>2, <2>3, <2>4 DEF Opening
  <2>6. pc = "printed" => (pc' = "over" \/ Twice')
    BY <2>1, <2>4 DEF UnwindsTo, Opening
  <2>7. reported = 2 => pc' = "over" /\ Twice' /\ last'
    BY <2>1, <2>4, <2>5 DEF UnwindsTo
  <2>8. CutForGood \/ pc' = "over" => CutForGood'
    <3>1. CutForGood => CutForGood'
      BY <2>1 DEF CutForGood
    <3>2. ASSUME pc' = "over" PROVE CutForGood'
      <4>1. last \/ pc \in Opening
        BY <2>1, <3>2 DEF UnwindsTo
      <4>2. <<pc, last>> \in cut' /\ (<<pc, last>>[1] \in Opening \/ <<pc, last>>[2])
        BY <2>1, <4>1
      <4>3. QED
        BY <4>2 DEF CutForGood
    <3>3. QED
      BY <3>1, <3>2
  <2>9. pc' \in {"over", "flag"}
    BY <2>1 DEF UnwindsTo
  <2>10. QED
    BY <2>1, <2>4, <2>5, <2>6, <2>7, <2>8, <2>9
<1>12. CASE CheckRunning
  BY <1>12 DEF CheckRunning, Ui
<1>13. CASE NoMoreKeys
  BY <1>13 DEF NoMoreKeys, Ui
<1>14. CASE Refresh
  BY <1>14 DEF Refresh, Ui
<1>15. CASE TestDirty
  BY <1>15 DEF TestDirty, Ui
<1>16. CASE ClearDirty
  BY <1>16 DEF ClearDirty, Ui
<1>17. CASE Draw
  BY <1>17 DEF Draw, Ui
<1>18. CASE UiFails
  BY <1>18 DEF UiFails, Ui
<1>19. CASE HandleKey
  BY <1>19 DEF HandleKey, Ui
<1>20. ASSUME NEW e \in Emitters, Emit(e) PROVE Errors'
  BY <1>20 DEF Emit
<1>21. QED
  BY <1>0, <1>1, <1>2, <1>3, <1>4, <1>5, <1>6, <1>7, <1>8, <1>9, <1>10, <1>11, <1>12, <1>13, <1>14, <1>15, <1>16, <1>17, <1>18, <1>19, <1>20, <1>22 DEF Next, MainStep, CloseStep, UiStep

-----------------------------------------------------------------------------
(* What is on the screen *)

(* A new line or a moved view is marked after it is there, and the mark is
   cleared before the drawing. *)
LEMMA PendingStep == TypeOK /\ Threads /\ Pending /\ [Next]_vars => Pending'
<1> SUFFICES ASSUME TypeOK, Threads, Pending, [Next]_vars PROVE Pending'
  OBVIOUS
<1> USE DEF Pending, UpToDate, Opening, log, ui, pane
<1>0. CASE UNCHANGED vars
  BY <1>0 DEF vars
<1>1. CASE OpenTerminal
  BY <1>1 DEF OpenTerminal
<1>2. CASE Configure
  BY <1>2 DEF Configure
<1>3. CASE StartThread
  <2>1. uipc = "off"
    BY <1>3 DEF StartThread, Threads
  <2>2. QED
    BY <1>3, <2>1 DEF StartThread
<1>4. CASE EnterSession
  BY <1>4 DEF EnterSession
<1>5. CASE EndSession
  BY <1>5 DEF EndSession
<1>6. CASE ClearRunning
  BY <1>6 DEF ClearRunning
<1>7. CASE Join
  BY <1>7 DEF Join
<1>8. CASE RestoreTerminal
  BY <1>8 DEF RestoreTerminal
<1>9. CASE PrintError \/ ClearError
  <2>1. pc' \in {"over", "summary", "printed"}
    BY <1>9 DEF PrintError, ClearError, Closed
  <2>2. QED
    BY <2>1
<1>10. CASE LeavePresenter
  BY <1>10 DEF LeavePresenter
<1>11. CASE Interrupt
  <2>1. pc' \in {"over", "flag"}
    BY <1>11 DEF Interrupt, UnwindsTo
  <2>2. QED
    BY <2>1
<1>12. CASE CheckRunning
  BY <1>12 DEF CheckRunning, Ui
<1>13. CASE NoMoreKeys
  BY <1>13 DEF NoMoreKeys, Ui
<1>14. CASE Refresh
  BY <1>14 DEF Refresh, Ui
<1>15. CASE TestDirty
  BY <1>15 DEF TestDirty, Ui
<1>16. CASE ClearDirty
  BY <1>16 DEF ClearDirty, Ui
<1>17. CASE Draw
  <2>1. UNCHANGED rows
    BY <1>17 DEF Draw
  <2>2. rows # 0 => shown' = lines' /\ window'.last = lines' - offset' /\ window'.height = rows
    BY <1>17 DEF Draw, View, MoveTo
  <2>3. QED
    BY <2>1, <2>2
<1>18. CASE UiFails
  BY <1>18 DEF UiFails, Ui
<1>19. CASE HandleKey
  <2>1. dirty' = TRUE
    BY <1>19 DEF HandleKey
  <2>2. QED
    BY <2>1
<1>20. ASSUME NEW e \in Emitters, Emit(e) PROVE Pending'
  <2>1. CASE epc'[e] = "half"
    BY <1>20, <2>1
  <2>2. CASE dirty' = TRUE
    BY <1>20, <2>2
  <2>3. e \in DOMAIN epc
    BY DEF TypeOK
  <2>4. QED
    BY <1>20, <2>1, <2>2, <2>3 DEF Emit
<1>21. QED
  BY <1>0, <1>1, <1>2, <1>3, <1>4, <1>5, <1>6, <1>7, <1>8, <1>9, <1>10, <1>11, <1>12, <1>13, <1>14, <1>15, <1>16, <1>17, <1>18, <1>19, <1>20 DEF Next, MainStep, CloseStep, UiStep

-----------------------------------------------------------------------------
IInv ==
    /\ TypeOK
    /\ LogInv
    /\ Threads
    /\ TerminalIsRestored
    /\ Errors
    /\ Pending

(* It holds before start. *)
LEMMA InitHolds == Init => IInv
<1> SUFFICES ASSUME Init PROVE IInv
  OBVIOUS
<1>1. LogInv
  BY InitInv DEF Init
<1>2. TypeOK
  <2>1. epc \in [Emitters -> {"idle", "half"}]
    BY DEF Init
  <2>2. cut \in SUBSET (Mains \X BOOLEAN)
    BY DEF Init
  <2>3. /\ pc \in Mains /\ uipc \in Uis /\ terminal \in {"normal", "curses"}
        /\ rows \in Heights /\ visible \in Nat \ {0} /\ shown \in Nat /\ shown <= lines
        /\ reported \in Nat
    BY DEF Init, LogInit, Mains, Uis
  <2>4. last = FALSE /\ running = FALSE /\ dirty = TRUE /\ error = FALSE /\ crashed = FALSE
    BY DEF Init
  <2>5. Flat
    BY <2>1, <2>2, <2>3, <2>4 DEF Flat
  <2>6. QED
    BY <1>1, <2>5, FlatTypes DEF LogInv
<1>3. Threads /\ TerminalIsRestored /\ Errors /\ Pending
  BY DEF Init, Threads, TerminalIsRestored, Errors, Pending, Opening, Twice
<1>4. QED
  BY <1>1, <1>2, <1>3 DEF IInv

(* What the proofs below rest on, kept by every step of every thread. *)
THEOREM InvariantHolds == Spec => []IInv
<1>1. IInv /\ [Next]_vars => IInv'
  BY TypedLog, ThreadsStep, RestoredStep, ErrorsStep, PendingStep DEF IInv
<1>2. QED
  BY <1>1, InitHolds, PTL DEF Spec

(* Every variable of the threads keeps its type. *)
THEOREM TypeCorrect == Spec => []TypeOK
BY InvariantHolds, PTL DEF IInv

(* The dashboard implements the log: each of its steps is an operation of
   lib/logbuffer.py or leaves the log alone. *)
THEOREM ImplementsLog == Spec => LogSpec
<1>1. Init => LogInit
  BY DEF Init
<1>2. IInv /\ [Next]_vars => [LogNext]_logVars
  BY LogStep DEF IInv
<1>3. QED
  BY <1>1, <1>2, InvariantHolds, PTL DEF Spec, LogSpec

(* The view stays where it was left while lines arrive. *)
THEOREM ViewAnchored == Spec => []ViewIsAnchored
BY InvariantHolds, PTL DEF IInv, LogInv

(* A drawn window is as full as the log allows. *)
THEOREM WindowFull == Spec => []WindowIsFull
BY InvariantHolds, PTL DEF IInv, LogInv

(* No line stays undrawn unnoticed, for any interleaving of the three threads. *)
THEOREM LinesDrawn == Spec => []NoLineIsForgotten
<1>1. IInv => NoLineIsForgotten
  BY DEF IInv, Pending, UpToDate, NoLineIsForgotten, Settled
<1>2. QED
  BY <1>1, InvariantHolds, PTL

(* The UI thread never draws on a terminal that was given back. *)
THEOREM DrawsWhileOpen == Spec => []DrawsOnOpenTerminal
<1>1. IInv => DrawsOnOpenTerminal
  BY DEF IInv, Threads, DrawsOnOpenTerminal, Drawing
<1>2. QED
  BY <1>1, InvariantHolds, PTL

(* Only an interrupt in start or in the last close leaves the terminal open. *)
THEOREM TerminalGivenBack == Spec => []TerminalIsRestored
BY InvariantHolds, PTL DEF IInv

(* The error of the UI thread is printed, and twice only after an interrupt between
   its printing and its forgetting. *)
THEOREM ErrorPrinted == Spec => []ErrorIsReported
<1>1. IInv => ErrorIsReported
  BY DEF IInv, TypeOK, Errors, Twice, ErrorIsReported
<1>2. QED
  BY <1>1, InvariantHolds, PTL
=============================================================================
