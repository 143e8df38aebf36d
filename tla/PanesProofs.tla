---------------------------- MODULE PanesProofs ----------------------------
(***************************************************************************)
(* Proofs about Panes for any cores, slots, clock drops and bounds.        *)
(*                                                                         *)
(* PaneIsCurrent.  The UI thread takes no lock, so what it has drawn so    *)
(* far is only right while the session is Settled: nothing is marked as    *)
(* dirty and the main thread is not between a change and the message that  *)
(* announces it.  A session becomes settled in one way, by BeginDrawing,   *)
(* which starts from an empty pane; the rest of the drawing then keeps     *)
(* what is on the pane equal to the state (Progress), and every change of  *)
(* the state unsettles it before it can be seen.                           *)
(*                                                                         *)
(* WorstRunIsShown, SummaryIsVerdict.  They rest on what the median and    *)
(* the worst run are: the least number that half of the values do not      *)
(* exceed (KthIsKth, MedianTells), and the result of the loop over the     *)
(* runs (WorstIsWorst).  The invariant (VInv) says which of the runs that  *)
(* returned are in the statistics while Tally and Score enter one.         *)
(***************************************************************************)
EXTENDS Panes, FiniteSetTheorems, WellFoundedInduction, TLAPS

(* A sequence, of whatever elements. *)
IsSeq(r) == \E S : r \in Seq(S)

IsRow(x)  == x = [status |-> x.status, passes |-> x.passes, result |-> x.result]
IsPane(x) == x = [kind |-> x.kind, testing |-> x.testing, rows |-> x.rows]

Drawn == Len(pane.rows)

(* What the UI thread knows by its place in the drawing, whatever main does. *)
Shape ==
    /\ table \in {"live", "basic"}
    /\ upc \in {"wait", "look", "header", "active", "drop", "status", "numbers"}
    /\ IsPane(pane) /\ IsSeq(pane.rows)
    /\ \A i \in 1 .. Drawn : IsRow(pane.rows[i])
    /\ upc \in {"header", "active", "drop"} => pane.rows = <<>>
    /\ upc \in {"status", "numbers"} => Drawn <= Len(Entries)
    /\ upc = "numbers" => Drawn >= 1 /\ Entries[Drawn] # NoCore
    /\ upc \notin {"wait", "look"} => pane.kind = table
    /\ upc = "look" => dirty

(* No change that is not announced, and none announced that is not drawn or
   being drawn. *)
Settled == ~dirty /\ AllAnnounced

RowDone(i) == IF Entries[i] = NoCore THEN pane.rows[i] = Disabled ELSE ShowsRow(i, Entries[i])

(* The part of the pane that is drawn shows the session as it is. *)
Progress ==
    Settled =>
        /\ upc \notin {"look", "header"} => pane.testing = current
        /\ upc \in {"drop", "status", "numbers"} => active = current
        /\ \A i \in 1 .. Drawn : upc # "numbers" \/ i # Drawn => RowDone(i)
        /\ upc = "numbers" =>
               pane.rows[Drawn].status = CoreStatus(stats[Entries[Drawn]], Entries[Drawn] = current, FALSE)
        /\ upc = "wait" => pane.kind = table /\ Drawn = Len(Entries)

IInv == Shape /\ Progress

-----------------------------------------------------------------------------
(* Sequences whose elements have no common type: one more element. *)
LEMMA Appended ==
    ASSUME NEW r, IsSeq(r), NEW e
    PROVE  /\ IsSeq(Append(r, e))
           /\ Len(r) \in Nat
           /\ Len(Append(r, e)) = Len(r) + 1
           /\ \A i \in 1 .. Len(r) : Append(r, e)[i] = r[i]
           /\ Append(r, e)[Len(r) + 1] = e
<1>1. PICK S : r \in Seq(S)  BY DEF IsSeq
<1>2. r \in Seq(S \cup {e})
  <2>1. r \in [1 .. Len(r) -> S] /\ Len(r) \in Nat  BY <1>1
  <2>2. r \in [1 .. Len(r) -> S \cup {e}]  BY <2>1
  <2> QED  BY <2>1, <2>2
<1>3. Append(r, e) \in Seq(S \cup {e})  BY <1>2
<1>4. IsSeq(Append(r, e))  BY <1>3 DEF IsSeq
<1> QED  BY <1>2, <1>4

(* One element replaced. *)
LEMMA Replaced ==
    ASSUME NEW r, IsSeq(r), NEW k \in 1 .. Len(r), NEW e
    PROVE  /\ IsSeq([r EXCEPT ![k] = e])
           /\ Len([r EXCEPT ![k] = e]) = Len(r)
           /\ \A i \in 1 .. Len(r) : [r EXCEPT ![k] = e][i] = IF i = k THEN e ELSE r[i]
<1> DEFINE q == [r EXCEPT ![k] = e]
<1>1. PICK S : r \in Seq(S)  BY DEF IsSeq
<1>2. r \in [1 .. Len(r) -> S] /\ Len(r) \in Nat  BY <1>1
<1>3. q \in [1 .. Len(r) -> S \cup {e}]  BY <1>2
<1>4. q \in Seq(S \cup {e}) /\ Len(q) = Len(r)  BY <1>2, <1>3
<1>5. IsSeq(q)  BY <1>4 DEF IsSeq
<1>6. \A i \in 1 .. Len(r) : q[i] = IF i = k THEN e ELSE r[i]  BY <1>2
<1> QED  BY <1>4, <1>5, <1>6

(* The lists of cores and of slots are sequences of known length. *)
LEMMA EntriesList == Len(Entries) \in Nat /\ DOMAIN Entries = 1 .. Len(Entries)
<1>1. Slots \in Seq(Cores \cup {NoCore}) /\ AllCores \in Seq(Cores)  BY CoreAssumption
<1> QED  BY <1>1 DEF Entries

-----------------------------------------------------------------------------
(* The screen is marked from the start, so nothing is claimed of it yet. *)
LEMMA InitInv == Init => IInv
<1> SUFFICES ASSUME Init PROVE IInv  OBVIOUS
<1>1. IsSeq(<<>>)
  <2>1. <<>> \in Seq({})  OBVIOUS
  <2> QED  BY <2>1 DEF IsSeq
<1>2. Shape  BY <1>1 DEF Init, Shape, Drawn, Blank, IsPane
<1>3. Progress  BY DEF Init, Progress, Settled
<1> QED  BY <1>2, <1>3 DEF IInv

(* A step that leaves the UI thread alone, and either shows nothing new or
   leaves the session unsettled. *)
LEMMA MainIsQuiet ==
    ASSUME IInv, UNCHANGED ui, dirty => dirty',
           Settled' => Settled /\ UNCHANGED <<current, stats>>
    PROVE  IInv'
<1>1. UNCHANGED <<table, upc, active, runDrop, pane>>  BY DEF ui, local
<1>2. Shape'  BY <1>1 DEF IInv, Shape, Drawn, Entries
<1>3. ASSUME Settled' PROVE Progress'
  <2>1. UNCHANGED <<current, stats>> /\ Settled  BY <1>3
  <2>2. Entries' = Entries /\ Drawn' = Drawn  BY <1>1 DEF Entries, Drawn
  <2>3. ASSUME NEW i, RowDone(i) PROVE RowDone(i)'
    BY <1>1, <2>1, <2>2, <2>3 DEF RowDone, ShowsRow, LastCell, FinishedDrop
  <2> QED  BY <1>1, <2>1, <2>2, <2>3 DEF IInv, Progress
<1>4. ~Settled' => Progress'  BY DEF Progress
<1> QED  BY <1>2, <1>3, <1>4 DEF IInv

(* Every step of the main thread is quiet: it changes what the pane shows only
   where a message is still to come. *)
MainEvent ==
    \/ CoreStart \/ Emit \/ TakeSample \/ RunReturns \/ Tally \/ Score \/ CoreResult
    \/ EndSession \/ Abort

LEMMA MainKeeps == ASSUME IInv, MainEvent \/ OtherEvent PROVE IInv'
<1>1. UNCHANGED ui
  BY DEF MainEvent, OtherEvent, CoreStart, Emit, TakeSample, RunReturns, Tally, Score,
         CoreResult, EndSession, Abort, MainGoto
<1>2. dirty => dirty'
  BY DEF MainEvent, OtherEvent, CoreStart, Emit, TakeSample, RunReturns, Tally, Score,
         CoreResult, EndSession, Abort
<1>3. Settled' => Settled /\ UNCHANGED <<current, stats>>
  <2>1. CASE CoreStart  BY <2>1 DEF CoreStart, MainGoto, Settled, AllAnnounced
  <2>2. CASE Emit       BY <2>2 DEF Emit, MainGoto, Settled, AllAnnounced
  <2>3. CASE TakeSample BY <2>3 DEF TakeSample, MainGoto, Settled, AllAnnounced
  <2>4. CASE RunReturns BY <2>4 DEF RunReturns, MainGoto, Settled, AllAnnounced
  <2>5. CASE Tally      BY <2>5 DEF Tally, MainGoto, Settled, AllAnnounced
  <2>6. CASE Score      BY <2>6 DEF Score, MainGoto, Settled, AllAnnounced
  <2>7. CASE CoreResult BY <2>7 DEF CoreResult, MainGoto, Settled, AllAnnounced
  <2>8. CASE EndSession BY <2>8 DEF EndSession, MainGoto, Settled, AllAnnounced
  <2>9. CASE Abort      BY <2>9 DEF Abort, Settled, AllAnnounced
  <2>10. CASE OtherEvent  BY <2>10 DEF OtherEvent, Settled, AllAnnounced
  <2> QED  BY <2>1, <2>2, <2>3, <2>4, <2>5, <2>6, <2>7, <2>8, <2>9, <2>10 DEF MainEvent
<1> QED  BY <1>1, <1>2, <1>3, MainIsQuiet

(* The screen is taken away, and nothing is claimed of it any more. *)
LEMMA ClosingKeeps == ASSUME IInv, PrintSummary PROVE IInv'
<1>1. upc = "wait" /\ UNCHANGED <<upc, table, dirty>> /\ mpc' = "done"
  BY DEF PrintSummary, local
<1>2. pane' = [kind |-> "basic", testing |-> NoCore, rows |-> <<>>]
  BY DEF PrintSummary, Blank
<1>3. IsSeq(<<>>) /\ Len(<<>>) = 0
  <2>1. <<>> \in Seq({})  OBVIOUS
  <2> QED  BY <2>1 DEF IsSeq
<1>4. IsPane(pane') /\ pane'.rows = <<>> /\ Drawn' = 0
  BY <1>2, <1>3 DEF IsPane, Drawn
<1>5. Shape'
  <2>1. \A i \in 1 .. Drawn' : FALSE  BY <1>4
  <2> QED  BY <1>1, <1>3, <1>4, <2>1 DEF IInv, Shape
<1>6. Progress'  BY <1>1 DEF Progress, Settled, AllAnnounced
<1> QED  BY <1>5, <1>6 DEF IInv

-----------------------------------------------------------------------------
(* The UI thread.  A new refresh unsettles the session. *)
LEMMA RefreshKeeps == ASSUME IInv, Refresh PROVE IInv'
<1>1. dirty' /\ upc' = "look" /\ table' \in {"live", "basic"} /\ pane' = pane
  BY DEF Refresh, UiGoto
<1>2. Shape'  BY <1>1 DEF IInv, Shape, Drawn
<1>3. Progress'  BY <1>1 DEF Progress, Settled
<1> QED  BY <1>2, <1>3 DEF IInv

(* A drawing starts on an empty pane. *)
LEMMA BeginKeeps == ASSUME IInv, BeginDrawing PROVE IInv'
<1>1. upc' = "header" /\ table' = table
  BY DEF BeginDrawing, UiGoto
<1>2. pane' = [kind |-> table, testing |-> NoCore, rows |-> <<>>]
  BY DEF BeginDrawing, Blank
<1>3. IsSeq(<<>>) /\ Len(<<>>) = 0
  <2>1. <<>> \in Seq({})  OBVIOUS
  <2> QED  BY <2>1 DEF IsSeq
<1>4. IsPane(pane') /\ pane'.rows = <<>> /\ pane'.kind = table' /\ Drawn' = 0
  BY <1>1, <1>2, <1>3 DEF IsPane, Drawn
<1>5. Shape'
  <2>1. pane'.rows = <<>> /\ IsSeq(pane'.rows)  BY <1>3, <1>4
  <2>2. \A i \in 1 .. Drawn' : FALSE  BY <1>4
  <2> QED  BY <1>1, <1>4, <2>1, <2>2 DEF IInv, Shape
<1>6. Progress'
  <2>1. \A i \in 1 .. Drawn' : FALSE  BY <1>4
  <2> QED  BY <1>1, <2>1 DEF Progress
<1> QED  BY <1>5, <1>6 DEF IInv

(* What a step of the drawing shares: the main thread stands still. *)
Still == UNCHANGED <<dirty, table, current, stats, mpc, cut>>

LEMMA StillSettled == ASSUME Still PROVE Settled' = Settled /\ Entries' = Entries
  BY DEF Still, Settled, AllAnnounced, Entries

(* The header. *)
LEMMA TestingKeeps == ASSUME IInv, DrawTesting PROVE IInv'
<1>1. upc = "header" /\ upc' = "active" /\ Still /\ UNCHANGED active
  BY DEF DrawTesting, UiGoto, main, local, Still
<1>2. pane' = [kind |-> pane.kind, testing |-> current, rows |-> pane.rows]
  BY DEF DrawTesting, IInv, Shape, IsPane
<1>3. Drawn' = 0 /\ pane'.rows = <<>> /\ IsPane(pane') /\ pane'.kind = pane.kind /\ pane'.testing = current'
  BY <1>1, <1>2 DEF IInv, Shape, Drawn, IsPane, Still
<1>4. IsSeq(pane'.rows)  BY <1>2 DEF IInv, Shape
<1>5. \A i \in 1 .. Drawn' : FALSE  BY <1>3
<1>6. Shape'  BY <1>1, <1>3, <1>4, <1>5 DEF IInv, Shape, Still
<1>7. Progress'  BY <1>1, <1>3, <1>5 DEF Progress
<1> QED  BY <1>6, <1>7 DEF IInv

(* The core drawn as active, and its drop. *)
LEMMA ReadKeeps == ASSUME IInv, ReadActive \/ ReadDrop PROVE IInv'
<1>1. /\ upc \in {"active", "drop"} /\ upc' \in {"drop", "status"} /\ pane' = pane /\ Still
      /\ upc = "active" => active' = current
      /\ upc = "drop" => active' = active
  BY DEF ReadActive, ReadDrop, UiGoto, main, local, Still
<1>2. Drawn' = 0 /\ Entries' = Entries /\ Len(Entries) \in Nat
  BY <1>1, StillSettled, EntriesList DEF IInv, Shape, Drawn
<1>3. \A i \in 1 .. Drawn' : FALSE  BY <1>2
<1>4. Shape'  BY <1>1, <1>2, <1>3 DEF IInv, Shape, Still
<1>5. ASSUME Settled' PROVE pane'.testing = current' /\ active' = current'
  <2>1. Settled  BY <1>1, <1>5, StillSettled
  <2> QED  BY <1>1, <2>1 DEF IInv, Progress, Still
<1>6. Progress'  BY <1>1, <1>3, <1>5 DEF Progress
<1> QED  BY <1>4, <1>6 DEF IInv

(* The rows drawn before stay as they are, and right. *)
LEMMA RowStays ==
    ASSUME Still, NEW i, RowDone(i), pane'.rows[i] = pane.rows[i]
    PROVE  RowDone(i)'
<1>1. Entries' = Entries  BY StillSettled
<1> QED  BY <1>1 DEF RowDone, ShowsRow, LastCell, FinishedDrop, Still

(* A row is begun: a slot without a core is done, a core has its status. *)
LEMMA StatusKeeps == ASSUME IInv, DrawStatus PROVE IInv'
<1> DEFINE c == Entries[Row]
           e == IF c = NoCore THEN Disabled
                ELSE [Disabled EXCEPT !.status = CoreStatus(stats[c], c = active, FALSE)]
<1>1. /\ upc = "status" /\ Row <= Len(Entries) /\ Still /\ UNCHANGED active
      /\ upc' = IF c = NoCore THEN "status" ELSE "numbers"
  BY DEF DrawStatus, UiGoto, main, local, Still
<1>2. pane' = [kind |-> pane.kind, testing |-> pane.testing, rows |-> Append(pane.rows, e)]
  BY DEF DrawStatus, IInv, Shape, IsPane
<1>3. /\ IsRow(e)
      /\ c # NoCore => e.status = CoreStatus(stats[c], c = active, FALSE)
  BY DEF IsRow, Disabled
<1>4. /\ IsSeq(Append(pane.rows, e)) /\ Drawn \in Nat
      /\ Len(Append(pane.rows, e)) = Drawn + 1
      /\ \A i \in 1 .. Drawn : Append(pane.rows, e)[i] = pane.rows[i]
      /\ Append(pane.rows, e)[Drawn + 1] = e
  BY Appended DEF IInv, Shape, Drawn
<1> HIDE DEF e
<1>5. /\ IsPane(pane') /\ IsSeq(pane'.rows) /\ Drawn' = Drawn + 1 /\ Row = Drawn + 1
      /\ \A i \in 1 .. Drawn : pane'.rows[i] = pane.rows[i]
      /\ pane'.rows[Drawn + 1] = e
      /\ pane'.kind = pane.kind /\ pane'.testing = pane.testing
  BY <1>2, <1>4 DEF IsPane, Drawn, Row
<1>6. Entries' = Entries /\ Settled' = Settled  BY <1>1, StillSettled
<1>7. \A i \in 1 .. Drawn + 1 : i \in 1 .. Drawn \/ i = Drawn + 1  BY <1>4
<1>8. Shape'
  <2>1. \A i \in 1 .. Drawn' : IsRow(pane'.rows[i])
    BY <1>3, <1>5, <1>7 DEF IInv, Shape
  <2>2. /\ Drawn' <= Len(Entries')
        /\ upc' = "numbers" => Drawn' >= 1 /\ Entries'[Drawn'] # NoCore
    BY <1>1, <1>4, <1>5, <1>6
  <2>3. table' = table /\ dirty' = dirty /\ pane'.kind = table'
    BY <1>1, <1>5 DEF Still, IInv, Shape
  <2> QED  BY <1>1, <1>5, <2>1, <2>2, <2>3 DEF IInv, Shape
<1>9. ASSUME Settled' PROVE Progress'
  <2>1. /\ pane.testing = current /\ active = current
        /\ \A i \in 1 .. Drawn : RowDone(i)
    BY <1>1, <1>6, <1>9 DEF IInv, Progress
  <2>2. current' = current /\ stats' = stats  BY <1>1 DEF Still
  <2>3. pane'.testing = current' /\ active' = current'  BY <1>1, <1>5, <2>1, <2>2
  <2>4. \A i \in 1 .. Drawn : RowDone(i)'  BY <1>1, <1>5, <2>1, RowStays
  <2>5. ASSUME NEW i, i = Drawn + 1, c = NoCore PROVE RowDone(i)'
    BY <1>5, <1>6, <2>5 DEF RowDone, e
  <2>6. \A i \in 1 .. Drawn' : upc' # "numbers" \/ i # Drawn' => RowDone(i)'
    BY <1>1, <1>5, <1>7, <2>4, <2>5
  <2>7. upc' = "numbers" =>
            pane'.rows[Drawn'].status = CoreStatus(stats'[Entries'[Drawn']], Entries'[Drawn'] = current', FALSE)
    BY <1>1, <1>3, <1>5, <1>6, <2>1, <2>2
  <2> QED  BY <1>1, <2>3, <2>6, <2>7 DEF Progress
<1>10. ~Settled' => Progress'  BY DEF Progress
<1> QED  BY <1>8, <1>9, <1>10 DEF IInv

(* The row is completed with the numbers of its core. *)
LEMMA NumbersKeep == ASSUME IInv, DrawNumbers PROVE IInv'
<1> DEFINE c == Entries[Drawn]
           old == pane.rows[Drawn]
           e == [status |-> old.status, passes |-> stats[c].passes,
                 result |-> LastCell(table, c, c = active, runDrop)]
<1>1. upc = "numbers" /\ upc' = "status" /\ Still /\ UNCHANGED active
  BY DEF DrawNumbers, UiGoto, main, local, Still
<1>2. Len(Entries) \in Nat /\ Drawn \in Nat /\ Drawn \in 1 .. Drawn /\ Drawn <= Len(Entries) /\ c # NoCore
  <2>1. Drawn \in Nat  BY Appended DEF IInv, Shape, Drawn
  <2> QED  BY <1>1, <2>1, EntriesList DEF IInv, Shape
<1>4. pane' = [kind |-> pane.kind, testing |-> pane.testing, rows |-> [pane.rows EXCEPT ![Drawn] = e]]
  <2>1. IsPane(pane) /\ IsSeq(pane.rows)  BY DEF IInv, Shape
  <2>2. pane' = [pane EXCEPT !.rows = [@ EXCEPT ![Drawn] = e]]
    BY DEF DrawNumbers, Drawn
  <2> QED  BY <2>1, <2>2 DEF IsPane
<1>5. /\ IsRow(e) /\ e.status = old.status /\ e.passes = stats[c].passes
      /\ e.result = LastCell(table, c, c = active, runDrop)
  BY DEF IsRow
<1> HIDE DEF e
<1>6. /\ IsSeq([pane.rows EXCEPT ![Drawn] = e])
      /\ Len([pane.rows EXCEPT ![Drawn] = e]) = Drawn
      /\ \A i \in 1 .. Drawn : [pane.rows EXCEPT ![Drawn] = e][i] = IF i = Drawn THEN e ELSE pane.rows[i]
  <2>1. IsSeq(pane.rows) /\ Drawn \in 1 .. Len(pane.rows)  BY <1>2 DEF IInv, Shape, Drawn
  <2>2. Len([pane.rows EXCEPT ![Drawn] = e]) = Len(pane.rows)  BY <2>1, Replaced
  <2>3. \A i \in 1 .. Len(pane.rows) : [pane.rows EXCEPT ![Drawn] = e][i] = IF i = Drawn THEN e ELSE pane.rows[i]
    BY <2>1, Replaced
  <2> QED  BY <2>1, <2>2, <2>3, Replaced DEF Drawn
<1>7. /\ IsPane(pane') /\ IsSeq(pane'.rows) /\ Drawn' = Drawn
      /\ \A i \in 1 .. Drawn : pane'.rows[i] = IF i = Drawn THEN e ELSE pane.rows[i]
      /\ pane'.kind = pane.kind /\ pane'.testing = pane.testing
  BY <1>4, <1>6 DEF IsPane, Drawn
<1>8. Entries' = Entries /\ Settled' = Settled  BY <1>1, StillSettled
<1>9. Shape'
  <2>1. \A i \in 1 .. Drawn' : IsRow(pane'.rows[i])  BY <1>5, <1>7 DEF IInv, Shape
  <2>2. table' = table /\ dirty' = dirty /\ pane'.kind = table'
    BY <1>1, <1>7 DEF Still, IInv, Shape
  <2> QED  BY <1>1, <1>2, <1>7, <1>8, <2>1, <2>2 DEF IInv, Shape
<1>10. ASSUME Settled' PROVE Progress'
  <2>1. /\ pane.testing = current /\ active = current
        /\ \A i \in 1 .. Drawn : i # Drawn => RowDone(i)
        /\ old.status = CoreStatus(stats[c], c = current, FALSE)
    BY <1>1, <1>8, <1>10 DEF IInv, Progress
  <2>2. current' = current /\ stats' = stats /\ table' = table  BY <1>1 DEF Still
  <2>3. pane'.testing = current' /\ active' = current'  BY <1>1, <1>7, <2>1, <2>2
  <2>4. ASSUME NEW i \in 1 .. Drawn, i # Drawn PROVE RowDone(i)'
    <3>1. RowDone(i) /\ pane'.rows[i] = pane.rows[i]  BY <1>7, <2>1, <2>4
    <3> QED  BY <1>1, <3>1, RowStays
  <2>5. RowDone(Drawn)'
    <3>1. table = "basic" \/ c # current => e.result = LastCell(table, c, FALSE, NoDrop)
      <4>1. CASE c # current  BY <1>5, <2>1, <4>1 DEF LastCell
      <4>2. CASE table = "basic"  BY <1>5, <4>2 DEF LastCell
      <4> QED  BY <4>1, <4>2
    <3>2. LastCell(table, c, FALSE, NoDrop)' = LastCell(table, c, FALSE, NoDrop)
      BY <1>1, <1>7, <1>8, <2>2 DEF LastCell, FinishedDrop
    <3>3. pane'.rows[Drawn] = e  BY <1>2, <1>7
    <3>4. ShowsRow(Drawn, c)'
      BY <1>5, <1>7, <1>8, <2>1, <2>2, <3>1, <3>2, <3>3 DEF ShowsRow
    <3> QED  BY <1>2, <1>7, <1>8, <3>4 DEF RowDone
  <2>6. \A i \in 1 .. Drawn' : RowDone(i)'  BY <1>7, <2>4, <2>5
  <2> QED  BY <1>1, <2>3, <2>6 DEF Progress
<1>11. ~Settled' => Progress'  BY DEF Progress
<1> QED  BY <1>9, <1>10, <1>11 DEF IInv

(* The drawing is shown once every row is there. *)
LEMMA ShowKeeps == ASSUME IInv, ShowScreen PROVE IInv'
<1>1. upc = "status" /\ Row > Len(Entries) /\ upc' = "wait" /\ pane' = pane /\ Still
  BY DEF ShowScreen, UiGoto, main, Still
<1>2. Drawn = Len(Entries) /\ Drawn' = Drawn /\ pane.kind = table
  <2>1. Drawn \in Nat  BY Appended DEF IInv, Shape, Drawn
  <2> QED  BY <1>1, <2>1, EntriesList DEF IInv, Shape, Drawn, Row
<1>3. Entries' = Entries /\ Settled' = Settled  BY <1>1, StillSettled
<1>4. Shape'  BY <1>1, <1>2, <1>3 DEF IInv, Shape, Still
<1>5. ASSUME Settled' PROVE Progress'
  <2>1. pane.testing = current /\ \A i \in 1 .. Drawn : RowDone(i)
    BY <1>1, <1>3, <1>5 DEF IInv, Progress
  <2>2. \A i \in 1 .. Drawn : RowDone(i)'  BY <1>1, <2>1, RowStays
  <2>3. pane'.testing = current' /\ pane'.kind = table'  BY <1>1, <1>2, <2>1 DEF Still
  <2> QED  BY <1>1, <1>2, <1>3, <2>2, <2>3 DEF Progress
<1>6. ~Settled' => Progress'  BY DEF Progress
<1> QED  BY <1>4, <1>5, <1>6 DEF IInv

-----------------------------------------------------------------------------
(* Every step keeps the invariant. *)
THEOREM Invariance == Spec => []IInv
<1>1. IInv /\ [Next]_vars => IInv'
  <2> SUFFICES ASSUME IInv, [Next]_vars PROVE IInv'  OBVIOUS
  <2>1. CASE MainStep \/ OtherEvent
    BY <2>1, MainKeeps, ClosingKeeps DEF MainStep, MainEvent
  <2>2. CASE Refresh  BY <2>2, RefreshKeeps
  <2>3. CASE DrawStep
    BY <2>3, BeginKeeps, TestingKeeps, ReadKeeps, StatusKeeps, NumbersKeep, ShowKeeps DEF DrawStep
  <2>4. CASE UNCHANGED vars
    BY <2>4, MainIsQuiet DEF vars, main, Settled, AllAnnounced
  <2> QED  BY <2>1, <2>2, <2>3, <2>4 DEF Next
<1> QED  BY <1>1, InitInv, PTL DEF Spec

(* A drawing that a change of the session overtook does not stay on the screen
   (lib/tui.py, lib/presenter.py). *)
THEOREM ScreenCatchesUp == Spec => []PaneIsCurrent
<1>1. IInv => PaneIsCurrent
  <2> SUFFICES ASSUME IInv, upc = "wait", ~dirty, AllAnnounced
               PROVE  /\ pane.kind = table /\ pane.testing = current
                      /\ DOMAIN pane.rows = DOMAIN Entries
                      /\ \A i \in DOMAIN Entries :
                             IF Entries[i] = NoCore THEN pane.rows[i] = Disabled ELSE ShowsRow(i, Entries[i])
    BY DEF PaneIsCurrent
  <2>1. /\ pane.testing = current /\ pane.kind = table /\ Drawn = Len(Entries)
        /\ \A i \in 1 .. Drawn : RowDone(i)
    BY DEF IInv, Progress, Settled
  <2>2. DOMAIN pane.rows = 1 .. Drawn  BY DEF IInv, Shape, IsSeq, Drawn
  <2> QED  BY <2>1, <2>2, EntriesList DEF RowDone
<1> QED  BY <1>1, Invariance, PTL

-----------------------------------------------------------------------------
(* Numbers: a least one, and induction over a set of them *)

LEMMA LeastNumber ==
  ASSUME NEW T \in SUBSET Nat, T # {}
  PROVE  \E m \in T : \A n \in T : m <= n
<1>1. PICK m \in T : \A n \in T : <<n, m>> \notin OpToRel(<, Nat)
  BY WFMin, NatLessThanWellFounded
<1>2. \A n \in T : ~(n < m)
  BY <1>1 DEF OpToRel
<1>3. QED
  BY <1>2

(* Induction over a set of numbers. *)
LEMMA Induction ==
  ASSUME NEW S, 0 \in S, \A n \in Nat : n \in S => n + 1 \in S
  PROVE  \A n \in Nat : n \in S
<1> SUFFICES ASSUME NEW z \in Nat, z \notin S PROVE FALSE
  OBVIOUS
<1>1. PICK m \in Nat \ S : \A n \in Nat \ S : m <= n
  BY LeastNumber
<1>2. m # 0 /\ m - 1 \in Nat /\ (m - 1) + 1 = m
  BY <1>1
<1>3. m - 1 \in S
  BY <1>1, <1>2
<1>4. QED
  BY <1>1, <1>2, <1>3

-----------------------------------------------------------------------------
(* CoreStats.telemetry: what the loop over the runs of a core finds *)

(* k is the latest of the worst among the first i runs. *)
Top(runs, k, i) ==
    /\ k \in 1 .. i
    /\ \A j \in 1 .. i : runs[j].median <= runs[k].median
    /\ \A j \in k + 1 .. i : runs[j].median < runs[k].median

(* No two runs are. *)
LEMMA TopIsUnique ==
  ASSUME NEW runs, NEW i \in Nat, \A j \in 1 .. i : runs[j].median \in Nat,
         NEW k, NEW l, Top(runs, k, i), Top(runs, l, i)
  PROVE  k = l
<1>1. k \in 1 .. i /\ l \in 1 .. i /\ runs[k].median \in Nat /\ runs[l].median \in Nat
  BY DEF Top
<1>2. k < l => runs[l].median < runs[k].median /\ runs[k].median <= runs[l].median
  BY <1>1 DEF Top
<1>3. l < k => runs[k].median < runs[l].median /\ runs[l].median <= runs[k].median
  BY <1>1 DEF Top
<1>4. QED
  BY <1>1, <1>2, <1>3

(* One more run takes its place if it is not better. *)
LEMMA TopStep ==
  ASSUME NEW runs, NEW i \in Nat, \A j \in 1 .. i + 1 : runs[j].median \in Nat,
         NEW k, Top(runs, k, i)
  PROVE  IF runs[i + 1].median >= runs[k].median THEN Top(runs, i + 1, i + 1) ELSE Top(runs, k, i + 1)
<1>1. k \in 1 .. i /\ k \in 1 .. i + 1 /\ i + 1 \in 1 .. i + 1 /\ \A j \in 1 .. i + 1 : j \in 1 .. i \/ j = i + 1
  BY DEF Top
<1>2. runs[k].median \in Nat /\ runs[i + 1].median \in Nat
  BY <1>1
<1>3. CASE runs[i + 1].median >= runs[k].median
  <2>1. \A j \in 1 .. i + 1 : runs[j].median <= runs[i + 1].median
    <3> TAKE j \in 1 .. i + 1
    <3>1. CASE j = i + 1
      BY <1>2, <3>1
    <3>2. CASE j \in 1 .. i
      BY <1>2, <1>3, <3>2 DEF Top
    <3>3. QED
      BY <1>1, <3>1, <3>2
  <2>2. (i + 1) + 1 .. i + 1 = {}
    OBVIOUS
  <2>3. QED
    BY <1>1, <1>3, <2>1, <2>2 DEF Top
<1>4. CASE ~(runs[i + 1].median >= runs[k].median)
  <2>1. runs[i + 1].median < runs[k].median
    BY <1>2, <1>4
  <2>2. \A j \in k + 1 .. i + 1 : j \in k + 1 .. i \/ j = i + 1
    BY <1>1
  <2>3. QED
    BY <1>1, <1>2, <1>4, <2>1, <2>2 DEF Top
<1>5. QED
  BY <1>3, <1>4

LEMMA TopExists ==
  ASSUME NEW runs, NEW n \in Nat, \A j \in 1 .. n : runs[j].median \in Nat,
         NEW i \in 1 .. n
  PROVE  \E k \in 1 .. i : Top(runs, k, i)
<1> DEFINE S == {m \in Nat : m \in 1 .. n => \E k \in 1 .. m : Top(runs, k, m)}
<1>1. 0 \in S
  OBVIOUS
<1>2. ASSUME NEW m \in Nat, m \in S PROVE m + 1 \in S
  <2> SUFFICES ASSUME m + 1 \in 1 .. n PROVE \E k \in 1 .. m + 1 : Top(runs, k, m + 1)
    OBVIOUS
  <2>1. \A j \in 1 .. m + 1 : runs[j].median \in Nat
    OBVIOUS
  <2>2. CASE m = 0
    <3>1. m + 1 = 1 /\ 1 \in 1 .. 1 /\ (1 + 1 .. 1) = {} /\ \A j \in 1 .. 1 : j = 1
      BY <2>2
    <3>2. runs[1].median <= runs[1].median
      BY <2>1, <3>1
    <3>3. Top(runs, 1, 1)
      BY <3>1, <3>2 DEF Top
    <3>4. QED
      BY <3>1, <3>3
  <2>3. CASE m # 0
    <3>1. m \in 1 .. n
      BY <2>3
    <3>2. PICK k \in 1 .. m : Top(runs, k, m)
      BY <1>2, <3>1
    <3>3. Top(runs, m + 1, m + 1) \/ Top(runs, k, m + 1)
      BY <2>1, <3>2, TopStep
    <3>4. k \in 1 .. m + 1 /\ m + 1 \in 1 .. m + 1
      BY <3>2
    <3>5. QED
      BY <3>3, <3>4
  <2>4. QED
    BY <2>2, <2>3
<1> HIDE DEF S
<1>3. \A m \in Nat : m \in S
  BY <1>1, <1>2, Induction
<1>4. i \in Nat /\ i \in S
  BY <1>3
<1>5. QED
  BY <1>4 DEF S

(* The loop is defined by its own values.  Such a function exists, for the latest
   of the worst runs so far is one, and every such function is that. *)
LEMMA WorstIsWorst ==
  ASSUME NEW runs, NEW n \in Nat \ {0}, Len(runs) = n, DOMAIN runs = 1 .. n,
         \A j \in 1 .. n : runs[j].median \in Nat
  PROVE  \E k \in 1 .. n : Top(runs, k, n) /\ WorstOf(runs) = runs[k]
<1> DEFINE Body(w) == [i \in DOMAIN runs |->
                         IF i = 1 \/ runs[i].median >= w[i - 1].median THEN runs[i] ELSE w[i - 1]]
           top(i) == CHOOSE k \in 1 .. i : Top(runs, k, i)
           best == [i \in 1 .. n |-> runs[top(i)]]
           worst == CHOOSE w : w = Body(w)
<1>1. WorstOf(runs) = worst[n]
  BY DEF WorstOf
<1>2. \A i \in 1 .. n : Top(runs, top(i), i)
  BY TopExists
<1>3. best = Body(best)
  <2>1. ASSUME NEW i \in 1 .. n
        PROVE  best[i] = IF i = 1 \/ runs[i].median >= best[i - 1].median THEN runs[i] ELSE best[i - 1]
    <3>1. CASE i = 1
      <4>1. top(i) = 1
        BY <1>2, <3>1 DEF Top
      <4>2. best[i] = runs[top(i)]
        OBVIOUS
      <4> HIDE DEF top, best
      <4>3. QED
        BY <3>1, <4>1, <4>2
    <3>2. CASE i # 1
      <4>1. i - 1 \in 1 .. n /\ (i - 1) + 1 = i /\ i - 1 \in Nat /\ i \in Nat
        BY <3>2
      <4>2. Top(runs, top(i - 1), i - 1) /\ Top(runs, top(i), i)
        BY <1>2, <4>1
      <4>3. \A j \in 1 .. i : runs[j].median \in Nat
        BY <4>1
      <4> HIDE DEF top
      <4>4. IF runs[i].median >= runs[top(i - 1)].median THEN Top(runs, i, i) ELSE Top(runs, top(i - 1), i)
        BY <4>1, <4>2, <4>3, TopStep
      <4>5. IF runs[i].median >= runs[top(i - 1)].median THEN top(i) = i ELSE top(i) = top(i - 1)
        BY <4>1, <4>2, <4>3, <4>4, TopIsUnique
      <4>6. QED
        BY <3>2, <4>1, <4>5
    <3>3. QED
      BY <3>1, <3>2
  <2> HIDE DEF top
  <2>2. QED
    BY <2>1
<1>4. worst = Body(worst)
  BY <1>3
<1> HIDE DEF worst
<1>5. \A i \in 1 .. n : worst[i] = IF i = 1 \/ runs[i].median >= worst[i - 1].median THEN runs[i] ELSE worst[i - 1]
  BY <1>4
<1> DEFINE S == {m \in Nat : m \in 1 .. n => \E k \in 1 .. m : Top(runs, k, m) /\ worst[m] = runs[k]}
<1>6. 0 \in S
  OBVIOUS
<1>7. ASSUME NEW m \in Nat, m \in S PROVE m + 1 \in S
  <2> SUFFICES ASSUME m + 1 \in 1 .. n
               PROVE  \E k \in 1 .. m + 1 : Top(runs, k, m + 1) /\ worst[m + 1] = runs[k]
    OBVIOUS
  <2>1. \A j \in 1 .. m + 1 : runs[j].median \in Nat
    OBVIOUS
  <2>2. CASE m = 0
    <3>1. m + 1 = 1 /\ 1 \in 1 .. n /\ \A k \in 1 .. 1 : k = 1
      BY <2>2
    <3>2. worst[1] = runs[1]
      BY <1>5, <3>1
    <3>3. PICK k \in 1 .. 1 : Top(runs, k, 1)
      BY <3>1, TopExists
    <3>4. QED
      BY <3>1, <3>2, <3>3
  <2>3. CASE m # 0
    <3>1. m \in 1 .. n /\ (m + 1) - 1 = m
      BY <2>3
    <3>2. PICK k \in 1 .. m : Top(runs, k, m) /\ worst[m] = runs[k]
      BY <1>7, <3>1
    <3>3. IF runs[m + 1].median >= runs[k].median THEN Top(runs, m + 1, m + 1) ELSE Top(runs, k, m + 1)
      BY <2>1, <3>2, TopStep
    <3>4. worst[m + 1] = IF runs[m + 1].median >= runs[k].median THEN runs[m + 1] ELSE runs[k]
      BY <1>5, <2>3, <3>1, <3>2
    <3>5. k \in 1 .. m + 1 /\ m + 1 \in 1 .. m + 1
      BY <3>2
    <3>6. QED
      BY <3>3, <3>4, <3>5
  <2>4. QED
    BY <2>2, <2>3
<1> HIDE DEF S
<1>8. n \in S
  BY <1>6, <1>7, Induction
<1>9. QED
  BY <1>1, <1>8 DEF S

-----------------------------------------------------------------------------
(* TelemetrySummary.from_samples: the median of the clock drops of a run *)

LEMMA BoundExists ==
  ASSUME NEW n \in Nat, NEW f, \A i \in 1 .. n : f[i] \in Nat
  PROVE  \E b \in Nat : \A i \in 1 .. n : f[i] <= b
<1> DEFINE S == {m \in Nat : m <= n => \E b \in Nat : \A i \in 1 .. m : f[i] <= b}
<1>1. 0 \in S
  OBVIOUS
<1>2. ASSUME NEW m \in Nat, m \in S PROVE m + 1 \in S
  <2> SUFFICES ASSUME m + 1 <= n PROVE \E b \in Nat : \A i \in 1 .. m + 1 : f[i] <= b
    OBVIOUS
  <2>1. PICK b \in Nat : \A i \in 1 .. m : f[i] <= b
    BY <1>2
  <2>2. f[m + 1] \in Nat /\ \A i \in 1 .. m : f[i] \in Nat
    OBVIOUS
  <2>3. b + f[m + 1] \in Nat /\ \A i \in 1 .. m + 1 : i \in 1 .. m \/ i = m + 1
    BY <2>2
  <2>4. \A i \in 1 .. m : f[i] <= b + f[m + 1]
    BY <2>1, <2>2
  <2>5. f[m + 1] <= b + f[m + 1]
    BY <2>2
  <2>6. QED
    BY <2>3, <2>4, <2>5
<1> HIDE DEF S
<1>3. n \in S
  BY <1>1, <1>2, Induction
<1>4. QED
  BY <1>3 DEF S

(* Sets of positions, and how many they are. *)
LEMMA IndexSets ==
  ASSUME NEW n \in Nat, NEW D \in SUBSET (1 .. n), NEW E \in SUBSET (1 .. n)
  PROVE  /\ Cardinality(D) \in Nat /\ Cardinality(D) <= n
         /\ D \subseteq E => Cardinality(D) <= Cardinality(E)
         /\ (1 .. n) \ D = E => Cardinality(D) + Cardinality(E) = n
<1>1. IsFiniteSet(1 .. n) /\ Cardinality(1 .. n) = n
  BY FS_Interval
<1>2. /\ IsFiniteSet(D) /\ Cardinality(D) <= n /\ Cardinality(D) \in Nat
      /\ IsFiniteSet(E) /\ Cardinality(E) \in Nat
  BY <1>1, FS_Subset, FS_CardinalityType
<1>3. D \subseteq E => Cardinality(D) <= Cardinality(E)
  BY <1>2, FS_Subset
<1>4. ASSUME (1 .. n) \ D = E PROVE Cardinality(D) + Cardinality(E) = n
  <2>1. (1 .. n) \cap D = D
    OBVIOUS
  <2>2. Cardinality((1 .. n) \ D) = Cardinality(1 .. n) - Cardinality((1 .. n) \cap D)
    BY <1>1, <1>2, FS_Difference
  <2>3. Cardinality(E) = n - Cardinality(D)
    BY <1>1, <1>4, <2>1, <2>2, Zenon
  <2>4. QED
    BY <1>2, <2>3
<1>5. QED
  BY <1>2, <1>3, <1>4

NotAbove(values, v) == {i \in DOMAIN values : values[i] <= v}
Under(values, v)    == {i \in DOMAIN values : values[i] < v}

(* The k-th smallest value exists: it is the least number that k values do not
   exceed. *)
LEMMA KthIsKth ==
  ASSUME NEW n \in Nat, NEW values \in [1 .. n -> Nat], NEW k \in 1 .. n
  PROVE  /\ KthSmallest(values, k) \in Nat
         /\ Cardinality(Under(values, KthSmallest(values, k))) < k
         /\ k <= Cardinality(NotAbove(values, KthSmallest(values, k)))
<1> DEFINE T == {v \in Nat : k <= Cardinality(NotAbove(values, v))}
<1>1. PICK b \in Nat : \A i \in 1 .. n : values[i] <= b
  BY BoundExists
<1>2. NotAbove(values, b) = 1 .. n /\ Cardinality(1 .. n) = n
  BY <1>1, FS_Interval DEF NotAbove
<1>3. b \in T
  BY <1>1, <1>2
<1>4. PICK v \in T : \A u \in T : v <= u
  <2>1. T \in SUBSET Nat /\ T # {}
    BY <1>3
  <2> HIDE DEF T
  <2>2. QED
    BY <2>1, LeastNumber
<1>5. Under(values, v) \subseteq 1 .. n /\ NotAbove(values, v) \subseteq 1 .. n
  BY DEF Under, NotAbove
<1>6. Cardinality(Under(values, v)) \in Nat /\ Cardinality(NotAbove(values, v)) \in Nat
  BY <1>5, IndexSets
<1>7. Cardinality(Under(values, v)) < k
  <2>1. CASE v = 0
    <3>1. Under(values, v) = {}
      BY <2>1 DEF Under
    <3>2. QED
      BY <3>1, FS_EmptySet
  <2>2. CASE v # 0
    <3>1. v \in Nat /\ v - 1 \in Nat
      BY <2>2
    <3>2. Under(values, v) = NotAbove(values, v - 1)
      BY <3>1 DEF Under, NotAbove
    <3>3. v - 1 \notin T
      BY <1>4, <3>1
    <3>4. QED
      BY <1>6, <3>1, <3>2, <3>3
  <2>3. QED
    BY <2>1, <2>2
<1>8. \E i \in 1 .. n : values[i] = v
  <2> SUFFICES ASSUME \A i \in 1 .. n : values[i] # v PROVE FALSE
    OBVIOUS
  <2>1. v \in Nat /\ \A i \in 1 .. n : values[i] \in Nat
    OBVIOUS
  <2>2. Under(values, v) = NotAbove(values, v)
    BY <2>1 DEF Under, NotAbove
  <2>3. QED
    BY <1>4, <1>6, <1>7, <2>2
<1>9. v \in ToSet(values) /\ v \in Nat /\ k <= Cardinality(NotAbove(values, v))
  BY <1>4, <1>8 DEF ToSet
<1> HIDE DEF T
<1> DEFINE Is(x) == /\ Cardinality({i \in DOMAIN values : values[i] < x}) < k
                    /\ k <= Cardinality({i \in DOMAIN values : values[i] <= x})
<1>10. Is(v)
  BY <1>7, <1>9 DEF Under, NotAbove
<1>11. KthSmallest(values, k) = CHOOSE x \in ToSet(values) : Is(x)
  BY DEF KthSmallest
<1>12. KthSmallest(values, k) \in ToSet(values) /\ Is(KthSmallest(values, k))
  <2> HIDE DEF Is
  <2>1. QED
    BY <1>9, <1>10, <1>11
<1>13. KthSmallest(values, k) \in Nat
  BY <1>12 DEF ToSet
<1>14. QED
  BY <1>12, <1>13 DEF Under, NotAbove

(* The median of a run tells whether most of its samples were stretched. *)
LEMMA MedianTells ==
  ASSUME NEW drops \in Seq(Nat), drops # <<>>
  PROVE  /\ FromSamples(drops).median \in Nat
         /\ MostlyStretched(drops) => FromSamples(drops).median >= 2 * Threshold
         /\ MostlySteady(drops) => FromSamples(drops).median < 2 * Threshold
<1> DEFINE n == Len(drops)
           s == [i \in DOMAIN drops |-> Stretch(drops[i])]
           lo == (n + 1) \div 2
           hi == n \div 2 + 1
           a == KthSmallest(s, lo)
           b == KthSmallest(s, hi)
           High == {i \in DOMAIN drops : drops[i] >= Threshold}
           Low  == {i \in DOMAIN drops : drops[i] < Threshold}
<1>1. n \in Nat \ {0} /\ DOMAIN drops = 1 .. n /\ \A i \in 1 .. n : drops[i] \in Nat
  OBVIOUS
<1>2. /\ s \in [1 .. n -> Nat] /\ DOMAIN s = 1 .. n
      /\ \A i \in 1 .. n : s[i] = IF drops[i] > Noise THEN drops[i] ELSE 0
  BY <1>1 DEF Stretch
<1>3. lo \in 1 .. n /\ hi \in 1 .. n /\ 2 * lo >= n /\ 2 * (lo - 1) <= n /\ 2 * hi >= n /\ 2 * (hi - 1) <= n
  BY <1>1
<1>4. FromSamples(drops).median = a + b
  <2>1. Len(s) = n
    BY <1>1, <1>2
  <2>2. FromSamples(drops).median = Doubled(s)
    BY DEF FromSamples
  <2>3. QED
    BY <2>1, <2>2 DEF Doubled
<1>5. High \in SUBSET (1 .. n) /\ Low \in SUBSET (1 .. n) /\ (1 .. n) \ High = Low /\ (1 .. n) \ Low = High
  BY <1>1, ThresholdAssumption
<1>6. /\ Cardinality(High) \in Nat /\ Cardinality(Low) \in Nat
      /\ Cardinality(High) + Cardinality(Low) = n
  BY <1>1, <1>5, IndexSets
<1>7. ASSUME NEW k \in 1 .. n, 2 * k >= n, 2 * (k - 1) <= n
      PROVE  /\ KthSmallest(s, k) \in Nat
             /\ 2 * Cardinality(High) > n => KthSmallest(s, k) >= Threshold
             /\ 2 * Cardinality(Low) > n => KthSmallest(s, k) < Threshold
  <2> DEFINE x == KthSmallest(s, k)
  <2>1. x \in Nat /\ Cardinality(Under(s, x)) < k /\ k <= Cardinality(NotAbove(s, x))
    BY <1>1, <1>2, KthIsKth
  <2>2. Under(s, x) \subseteq 1 .. n /\ NotAbove(s, x) \subseteq 1 .. n
    BY <1>2 DEF Under, NotAbove
  <2> HIDE DEF x, s, High, Low, n
  <2>3. Cardinality(Under(s, x)) \in Nat /\ Cardinality(NotAbove(s, x)) \in Nat
    BY <1>1, <2>2, IndexSets
  <2>4. ASSUME x < Threshold, 2 * Cardinality(High) > n PROVE FALSE
    <3>1. ASSUME NEW i \in 1 .. n, s[i] <= x PROVE drops[i] < Threshold
      <4>1. drops[i] \in Nat /\ s[i] = IF drops[i] > Noise THEN drops[i] ELSE 0
        BY <1>1, <1>2
      <4>2. x \in Nat
        BY <2>1
      <4>3. QED
        BY <2>4, <3>1, <4>1, <4>2, ThresholdAssumption
    <3>2. NotAbove(s, x) \subseteq Low
      BY <1>1, <1>2, <3>1 DEF NotAbove, Low
    <3>3. Cardinality(NotAbove(s, x)) <= Cardinality(Low)
      BY <1>1, <1>5, <2>2, <3>2, IndexSets
    <3>4. QED
      BY <1>1, <1>6, <1>7, <2>1, <2>3, <2>4, <3>3
  <2>5. ASSUME x >= Threshold, 2 * Cardinality(Low) > n PROVE FALSE
    <3>1. ASSUME NEW i \in 1 .. n, drops[i] < Threshold PROVE s[i] < x
      <4>1. drops[i] \in Nat /\ s[i] = IF drops[i] > Noise THEN drops[i] ELSE 0
        BY <1>1, <1>2
      <4>2. x \in Nat
        BY <2>1
      <4>3. QED
        BY <2>5, <3>1, <4>1, <4>2, ThresholdAssumption
    <3>2. Low \subseteq Under(s, x)
      BY <1>1, <1>2, <3>1 DEF Under, Low
    <3>3. Cardinality(Low) <= Cardinality(Under(s, x))
      BY <1>1, <1>5, <2>2, <3>2, IndexSets
    <3>4. QED
      BY <1>1, <1>6, <1>7, <2>1, <2>3, <2>5, <3>3
  <2>6. QED
    BY <2>1, <2>4, <2>5, ThresholdAssumption DEF x
<1> HIDE DEF lo, hi, s, High, Low, n
<1>8. /\ a \in Nat /\ b \in Nat
      /\ 2 * Cardinality(High) > n => a >= Threshold /\ b >= Threshold
      /\ 2 * Cardinality(Low) > n => a < Threshold /\ b < Threshold
  BY <1>3, <1>7
<1>9. /\ MostlyStretched(drops) => 2 * Cardinality(High) > n
      /\ MostlySteady(drops) => 2 * Cardinality(Low) > n
  BY DEF MostlyStretched, MostlySteady, High, Low, n
<1> HIDE DEF a, b
<1>10. QED
  BY <1>4, <1>8, <1>9, ThresholdAssumption

-----------------------------------------------------------------------------
(* The statistics of the cores and the verdict of the summary.  The main thread
   alone changes them, in two steps: Tally keeps the telemetry of a run that
   returned, Score its verdict. *)

MainSteps == {"idle", "started", "running", "sampled", "tally", "score", "result", "resulted", "over", "done"}
Returned  == [core : Cores, status : {"PASS", "CRASH", "INTERRUPTED"}, clocks : {"stretched", "steady", "mixed"}]

Books ==
    /\ mpc \in MainSteps /\ cut \in MainSteps \cup {"none"}
    /\ mpc \notin {"over", "done"} => cut = "none"
    /\ results \in Seq(Returned) /\ samples \in Seq(Nat)
    /\ stats = [c \in Cores |-> stats[c]]
    /\ \A c \in Cores :
         /\ stats[c] = [passes |-> stats[c].passes, failed |-> stats[c].failed, runs |-> stats[c].runs]
         /\ IsSeq(stats[c].runs)
         /\ \A k \in 1 .. Len(stats[c].runs) : stats[c].runs[k].median \in Nat
    /\ mpc \in {"started", "running", "sampled", "tally", "score"} => current \in Cores

(* The run that returned, until it is in the statistics. *)
Pending ==
    mpc \in {"tally", "score"} =>
        /\ results # <<>>
        /\ results[Len(results)].core = current /\ results[Len(results)].status # "INTERRUPTED"
        /\ mpc = "tally" => results[Len(results)].clocks = Clocks(samples)

(* The runs of a core whose verdict is in the statistics. *)
Ended(c, status) ==
    {i \in DOMAIN results : /\ results[i].core = c /\ results[i].status = status
                            /\ At({"tally", "score"}) => i # Len(results)}

Scored ==
    \A c \in Cores :
        /\ stats[c].passes = Cardinality(Ended(c, "PASS"))
        /\ stats[c].failed = Cardinality(Ended(c, "CRASH"))

(* A run whose median drop counts as stretching. *)
Shows(runs) == \E k \in 1 .. Len(runs) : runs[k].median >= 2 * Threshold

Measured ==
    \A c \in Cores :
        /\ (\E i \in Counted(c) : results[i].clocks = "stretched") => Shows(stats[c].runs)
        /\ Shows(stats[c].runs) => \E i \in Counted(c) : results[i].clocks # "steady"

Told ==
    IF mpc = "done"
    THEN \E printed \in 0 .. Len(AllCores) : summary = [i \in 1 .. printed |-> SummaryRow(AllCores[i])]
    ELSE summary = <<>>

(* The invariant of the statistics: they tell of the runs that returned, but for
   the one that is being entered or was when the session was cut short, and the
   summary is made from them. *)
VInv == Books /\ Pending /\ Scored /\ Measured /\ Told

-----------------------------------------------------------------------------
(* stretching_detected: one run shows it. *)
LEMMA StretchesTells ==
  ASSUME NEW runs, IsSeq(runs), \A k \in 1 .. Len(runs) : runs[k].median \in Nat
  PROVE  Stretches(runs) <=> Shows(runs)
<1>1. DOMAIN runs = 1 .. Len(runs) /\ Len(runs) \in Nat /\ (runs = <<>> <=> Len(runs) = 0)
  BY DEF IsSeq
<1>2. CASE Len(runs) = 0
  BY <1>1, <1>2 DEF Stretches, Shows
<1>3. CASE Len(runs) # 0
  <2>1. Len(runs) \in Nat \ {0}
    BY <1>1, <1>3
  <2>2. PICK k \in 1 .. Len(runs) : Top(runs, k, Len(runs)) /\ WorstOf(runs) = runs[k]
    BY <1>1, <2>1, WorstIsWorst
  <2>3. Stretches(runs) <=> runs[k].median >= 2 * Threshold
    BY <1>1, <1>3, <2>2 DEF Stretches
  <2>4. \A j \in 1 .. Len(runs) : runs[j].median <= runs[k].median
    BY <2>2 DEF Top
  <2>5. \A j \in 1 .. Len(runs) : runs[j].median >= 2 * Threshold => runs[k].median >= 2 * Threshold
    BY <2>2, <2>4, ThresholdAssumption
  <2>6. QED
    BY <2>2, <2>3, <2>5 DEF Shows
<1>4. QED
  BY <1>2, <1>3

LEMMA CoreFacts == /\ DOMAIN AllCores = 1 .. Len(AllCores)
                   /\ \A k \in DOMAIN AllCores : AllCores[k] \in Cores
  BY CoreAssumption DEF Cores, ToSet

LEMMA InitVerdict == Init => VInv
<1> SUFFICES ASSUME Init PROVE VInv
  OBVIOUS
<1>1. IsSeq(<<>>) /\ Len(<<>>) = 0 /\ DOMAIN <<>> = {}
  <2>1. <<>> \in Seq({})
    OBVIOUS
  <2>2. QED
    BY <2>1 DEF IsSeq
<1>2. /\ stats = [c \in Cores |-> [passes |-> 0, failed |-> 0, runs |-> <<>>]]
      /\ mpc = "idle" /\ cut = "none" /\ results = <<>> /\ samples = <<>> /\ summary = <<>>
  BY DEF Init
<1>3. \A c \in Cores : stats[c] = [passes |-> 0, failed |-> 0, runs |-> <<>>]
  BY <1>2
<1>4. Books
  BY <1>1, <1>2, <1>3 DEF Books, MainSteps
<1>5. \A c \in Cores : Ended(c, "PASS") = {} /\ Ended(c, "CRASH") = {}
  BY <1>1, <1>2 DEF Ended
<1>6. Scored
  <2>1. Cardinality({}) = 0
    BY FS_EmptySet
  <2>2. \A c \in Cores : stats[c].passes = 0 /\ stats[c].failed = 0
    BY <1>3
  <2>3. QED
    BY <1>5, <2>1, <2>2 DEF Scored
<1>7. \A c \in Cores : Counted(c) = {}
  BY <1>1, <1>2 DEF Counted, ResultsOf
<1>8. \A c \in Cores : ~Shows(stats[c].runs)
  BY <1>1, <1>3 DEF Shows
<1>9. Measured
  BY <1>7, <1>8 DEF Measured
<1>10. QED
  BY <1>2, <1>4, <1>6, <1>9 DEF VInv, Pending, Told

(* A step that neither ends a run nor enters one into the statistics. *)
LEMMA BooksKept ==
  ASSUME VInv, UNCHANGED <<cut, results, stats, summary>>,
         mpc \notin {"tally", "score", "done"}, mpc' \in MainSteps \ {"tally", "score", "done"},
         mpc \in {"over", "done"} => mpc' \in {"over", "done"},
         samples' \in Seq(Nat), mpc' \in {"started", "running", "sampled"} => current' \in Cores
  PROVE  VInv'
<1>1. Books'
  BY DEF VInv, Books
<1>2. Pending'
  BY DEF Pending
<1>3. \A c : Counted(c)' = Counted(c)
  BY DEF Counted, ResultsOf, At
<1>4. \A c, s : Ended(c, s)' = Ended(c, s)
  BY DEF Ended, At
<1>5. Scored'
  BY <1>4 DEF VInv, Scored
<1>6. Measured'
  BY <1>3 DEF VInv, Measured, Shows
<1>7. Told'
  BY DEF VInv, Told
<1>8. QED
  BY <1>1, <1>2, <1>5, <1>6, <1>7 DEF VInv

LEMMA QuietKeeps ==
  ASSUME VInv, CoreStart \/ Emit \/ TakeSample \/ CoreResult \/ EndSession
  PROVE  VInv'
<1>1. Books
  BY DEF VInv
<1>2. CASE CoreStart
  <2>1. current' \in Cores /\ mpc = "idle" /\ mpc' = "started" /\ samples' = <<>> /\ UNCHANGED <<cut, results, stats, summary>>
    BY <1>2 DEF CoreStart, MainGoto
  <2>2. QED
    BY <2>1, BooksKept DEF MainSteps
<1>3. CASE Emit
  <2>1. /\ mpc \in {"started", "sampled", "resulted"} /\ UNCHANGED <<cut, current, samples, results, stats, summary>>
        /\ mpc' = IF mpc = "resulted" THEN "idle" ELSE "running"
    BY <1>3 DEF Emit, MainGoto
  <2>2. mpc' \in {"started", "running", "sampled"} => current' \in Cores
    BY <1>1, <2>1 DEF Books
  <2>3. samples' \in Seq(Nat)
    BY <1>1, <2>1 DEF Books
  <2>4. QED
    BY <2>1, <2>2, <2>3, BooksKept DEF MainSteps
<1>4. CASE TakeSample
  <2>1. PICK drop \in Drops : /\ samples' = Append(samples, drop)
                              /\ MainGoto(IF Stretch(drop) >= Threshold THEN "sampled" ELSE "running")
    BY <1>4 DEF TakeSample
  <2>2. mpc = "running" /\ mpc' \in {"running", "sampled"} /\ UNCHANGED <<cut, current, results, stats, summary>>
    BY <1>4, <2>1 DEF TakeSample, MainGoto
  <2>3. samples' \in Seq(Nat) /\ current' \in Cores
    BY <1>1, <2>1, <2>2, CoreAssumption DEF Books
  <2>4. QED
    BY <2>2, <2>3, BooksKept DEF MainSteps
<1>5. CASE CoreResult \/ EndSession
  <2>1. /\ mpc \in {"result", "idle"} /\ mpc' \in {"over", "resulted"}
        /\ UNCHANGED <<cut, samples, results, stats, summary>>
    BY <1>5 DEF CoreResult, EndSession, MainGoto
  <2>2. samples' \in Seq(Nat)
    BY <1>1, <2>1 DEF Books
  <2>3. QED
    BY <2>1, <2>2, BooksKept DEF MainSteps
<1>6. QED
  BY <1>2, <1>3, <1>4, <1>5

(* What was entered of the last run stays as it is when the session is cut short. *)
LEMMA AbortKeeps == ASSUME VInv, Abort PROVE VInv'
<1>1. /\ mpc \notin {"over", "done"} /\ mpc' = "over" /\ cut' = mpc
      /\ UNCHANGED <<current, samples, stats, results, summary>>
  BY DEF Abort
<1>2. cut = "none" /\ mpc \in MainSteps
  BY <1>1 DEF VInv, Books
<1>3. (At({"tally"})' <=> At({"tally"})) /\ (At({"tally", "score"})' <=> At({"tally", "score"}))
  BY <1>1, <1>2 DEF At
<1>4. Books' /\ Pending'
  BY <1>1, <1>2 DEF VInv, Books, Pending, MainSteps
<1>5. (\A c : Counted(c)' = Counted(c)) /\ \A c, s : Ended(c, s)' = Ended(c, s)
  BY <1>1, <1>3 DEF Counted, ResultsOf, Ended
<1>6. Scored' /\ Measured'
  BY <1>1, <1>5 DEF VInv, Scored, Measured, Shows
<1>7. Told'
  BY <1>1 DEF VInv, Told
<1>8. QED
  BY <1>4, <1>6, <1>7 DEF VInv

(* A run that returned is not in the statistics yet, and an interrupted one never is. *)
LEMMA ReturnsKeep == ASSUME VInv, RunReturns PROVE VInv'
<1>1. PICK status \in {"PASS", "CRASH", "INTERRUPTED"} :
        /\ results' = Append(results, [core |-> current, status |-> status, clocks |-> Clocks(samples)])
        /\ MainGoto(IF status = "INTERRUPTED" THEN "result" ELSE "tally")
  BY DEF RunReturns
<1>2. /\ mpc = "running" /\ mpc' = (IF status = "INTERRUPTED" THEN "result" ELSE "tally")
      /\ UNCHANGED <<cut, current, samples, stats, summary>>
  BY <1>1 DEF RunReturns, MainGoto
<1>3. Books /\ current \in Cores /\ samples \in Seq(Nat) /\ results \in Seq(Returned)
  BY <1>2 DEF VInv, Books
<1> DEFINE r == [core |-> current, status |-> status, clocks |-> Clocks(samples)]
           n == Len(results)
<1>4. r \in Returned /\ r.core = current /\ r.status = status /\ r.clocks = Clocks(samples)
  BY <1>3 DEF Returned, Clocks
<1> HIDE DEF r
<1>5. results' = Append(results, r)
  BY <1>1 DEF r
<1>6. /\ results' \in Seq(Returned) /\ Len(results') = n + 1 /\ n \in Nat /\ results'[n + 1] = r
      /\ DOMAIN results = 1 .. n /\ DOMAIN results' = 1 .. n + 1
      /\ \A i \in 1 .. n : results'[i] = results[i]
  BY <1>3, <1>4, <1>5
<1>7. \A i \in 1 .. n : i \in 1 .. n + 1 /\ i # n + 1
  BY <1>6
<1>8. \A i \in 1 .. n + 1 : i \in 1 .. n \/ i = n + 1
  BY <1>6
<1>9. Books'
  BY <1>2, <1>3, <1>6 DEF Books, MainSteps
<1>10. Pending'
  <2>1. Clocks(samples)' = Clocks(samples) /\ results' # <<>>
    BY <1>2, <1>6 DEF Clocks
  <2>2. QED
    BY <1>2, <1>4, <1>6, <2>1 DEF Pending
<1>11. cut = "none" /\ cut' = "none"
  BY <1>2 DEF VInv, Books
<1>12. /\ ~At({"tally"}) /\ ~At({"tally", "score"})
       /\ At({"tally"})' <=> status # "INTERRUPTED"
       /\ At({"tally", "score"})' <=> status # "INTERRUPTED"
  BY <1>2, <1>11 DEF At
<1>13. \A c \in Cores, s \in {"PASS", "CRASH"} : Ended(c, s)' = Ended(c, s)
  BY <1>2, <1>4, <1>6, <1>7, <1>8, <1>12 DEF Ended
<1>14. \A c \in Cores : Counted(c)' = Counted(c) /\ Counted(c) \subseteq 1 .. n
  BY <1>2, <1>4, <1>6, <1>7, <1>8, <1>12 DEF Counted, ResultsOf
<1>15. Scored'
  BY <1>2, <1>13 DEF VInv, Scored
<1>16. Measured'
  BY <1>2, <1>6, <1>14 DEF VInv, Measured, Shows
<1>17. Told'
  BY <1>2 DEF VInv, Told
<1>18. QED
  BY <1>9, <1>10, <1>15, <1>16, <1>17 DEF VInv

(* The telemetry of the run is kept: its median is one more of the core's. *)
LEMMA TallyKeeps == ASSUME VInv, Tally PROVE VInv'
<1> DEFINE n == Len(results)
           c0 == current
           old == stats[c0]
           s == FromSamples(samples)
           new == [passes |-> old.passes, failed |-> old.failed,
                   runs |-> IF samples = <<>> THEN old.runs ELSE Append(old.runs, s)]
<1>1. /\ mpc = "tally" /\ mpc' = "score" /\ UNCHANGED <<cut, current, samples, results, summary>>
      /\ stats' = IF samples = <<>> THEN stats ELSE [stats EXCEPT ![current].runs = Append(@, FromSamples(samples))]
  BY DEF Tally, MainGoto
<1>2. /\ Books /\ Pending /\ c0 \in Cores /\ samples \in Seq(Nat) /\ results \in Seq(Returned)
      /\ n \in Nat \ {0} /\ DOMAIN results = 1 .. n
      /\ results[n].core = c0 /\ results[n].status # "INTERRUPTED" /\ results[n].clocks = Clocks(samples)
  BY <1>1 DEF VInv, Books, Pending
<1>3. /\ stats = [c \in Cores |-> stats[c]]
      /\ \A c \in Cores : stats[c] = [passes |-> stats[c].passes, failed |-> stats[c].failed, runs |-> stats[c].runs]
  BY <1>2 DEF Books
<1>4. stats' = [stats EXCEPT ![c0] = new]
  <2>1. old = [passes |-> old.passes, failed |-> old.failed, runs |-> old.runs]
    BY <1>2, <1>3
  <2>2. CASE samples = <<>>
    <3>1. stats' = stats /\ new = old
      BY <1>1, <2>1, <2>2
    <3> HIDE DEF new, old
    <3>2. stats = [stats EXCEPT ![c0] = stats[c0]]
      BY <1>2, <1>3
    <3>3. QED
      BY <3>1, <3>2 DEF old
  <2>3. CASE samples # <<>>
    <3>1. new = [old EXCEPT !.runs = Append(old.runs, s)]
      BY <2>1, <2>3
    <3>2. stats' = [stats EXCEPT ![c0].runs = Append(@, s)]
      BY <1>1, <2>3
    <3>3. stats' = [stats EXCEPT ![c0] = [stats[c0] EXCEPT !.runs = Append(stats[c0].runs, s)]]
      BY <1>2, <1>3, <3>2
    <3>4. QED
      BY <3>1, <3>3
  <2>4. QED
    BY <2>2, <2>3
<1>5. /\ \A c \in Cores : c # c0 => stats'[c] = stats[c]
      /\ stats'[c0] = new /\ stats' = [c \in Cores |-> stats'[c]]
  <2> HIDE DEF new
  <2>1. QED
    BY <1>2, <1>3, <1>4
<1>6. /\ new.passes = old.passes /\ new.failed = old.failed
      /\ new = [passes |-> new.passes, failed |-> new.failed, runs |-> new.runs]
      /\ new.runs = IF samples = <<>> THEN old.runs ELSE Append(old.runs, s)
  OBVIOUS
<1>7. IsSeq(old.runs) /\ \A k \in 1 .. Len(old.runs) : old.runs[k].median \in Nat
  BY <1>2 DEF Books
<1>8. samples # <<>> =>
        /\ s.median \in Nat
        /\ MostlyStretched(samples) => s.median >= 2 * Threshold
        /\ MostlySteady(samples) => s.median < 2 * Threshold
  BY <1>2, MedianTells
<1>9. /\ Clocks(samples) = "stretched" => MostlyStretched(samples)
      /\ Clocks(samples) = "steady" <=> ~MostlyStretched(samples) /\ (samples = <<>> \/ MostlySteady(samples))
      /\ samples = <<>> => ~MostlyStretched(samples)
  <2>1. samples = <<>> => ~MostlyStretched(samples)
    <3> SUFFICES ASSUME samples = <<>> PROVE ~MostlyStretched(samples)
      OBVIOUS
    <3>1. {i \in DOMAIN samples : samples[i] >= Threshold} = {} /\ Len(samples) = 0
      OBVIOUS
    <3>2. Cardinality({i \in DOMAIN samples : samples[i] >= Threshold}) = 0
      BY <3>1, FS_EmptySet
    <3>3. QED
      BY <3>1, <3>2 DEF MostlyStretched
  <2>2. QED
    BY <2>1 DEF Clocks
<1> HIDE DEF s
<1>10. samples # <<>> =>
         /\ IsSeq(new.runs) /\ Len(new.runs) = Len(old.runs) + 1 /\ Len(old.runs) \in Nat
         /\ \A k \in 1 .. Len(old.runs) : new.runs[k] = old.runs[k]
         /\ new.runs[Len(old.runs) + 1] = s
  BY <1>6, <1>7, Appended
<1> HIDE DEF new, old
<1>11. IsSeq(new.runs) /\ \A k \in 1 .. Len(new.runs) : new.runs[k].median \in Nat
  <2>1. CASE samples = <<>>
    BY <1>6, <1>7, <2>1
  <2>2. CASE samples # <<>>
    <3>1. \A k \in 1 .. Len(new.runs) : k \in 1 .. Len(old.runs) \/ k = Len(old.runs) + 1
      BY <1>10, <2>2
    <3>2. QED
      BY <1>7, <1>8, <1>10, <2>2, <3>1
  <2>3. QED
    BY <2>1, <2>2
<1>12. Books'
  <2>1. \A c \in Cores :
          /\ stats'[c] = [passes |-> stats'[c].passes, failed |-> stats'[c].failed, runs |-> stats'[c].runs]
          /\ IsSeq(stats'[c].runs)
          /\ \A k \in 1 .. Len(stats'[c].runs) : stats'[c].runs[k].median \in Nat
    <3> SUFFICES ASSUME NEW c \in Cores
                 PROVE  /\ stats'[c] = [passes |-> stats'[c].passes, failed |-> stats'[c].failed, runs |-> stats'[c].runs]
                        /\ IsSeq(stats'[c].runs)
                        /\ \A k \in 1 .. Len(stats'[c].runs) : stats'[c].runs[k].median \in Nat
      OBVIOUS
    <3>1. CASE c = c0
      BY <1>5, <1>6, <1>11, <3>1
    <3>2. CASE c # c0
      BY <1>2, <1>5, <3>2 DEF Books
    <3>3. QED
      BY <3>1, <3>2
  <2>2. QED
    BY <1>1, <1>2, <1>5, <2>1 DEF Books, MainSteps
<1>13. Pending'
  BY <1>1, <1>2 DEF Pending
<1>14. At({"tally"}) /\ ~At({"tally"})' /\ At({"tally", "score"}) /\ At({"tally", "score"})'
  <2>1. cut = "none" /\ cut' = "none"
    BY <1>1, <1>2 DEF Books
  <2>2. QED
    BY <1>1, <2>1 DEF At
<1>15. Scored'
  <2>1. \A c, x : Ended(c, x)' = Ended(c, x)
    BY <1>1, <1>14 DEF Ended
  <2>2. \A c \in Cores : stats'[c].passes = stats[c].passes /\ stats'[c].failed = stats[c].failed
    <3> TAKE c \in Cores
    <3>1. CASE c = c0
      BY <1>5, <1>6, <3>1 DEF old
    <3>2. CASE c # c0
      BY <1>5, <3>2
    <3>3. QED
      BY <3>1, <3>2
  <2>3. QED
    BY <2>1, <2>2 DEF VInv, Scored
<1>16. Counted(c0)' = Counted(c0) \cup {n} /\ \A c \in Cores : c # c0 => Counted(c)' = Counted(c)
  BY <1>1, <1>2, <1>14 DEF Counted, ResultsOf
<1>17. (\E k \in 1 .. Len(new.runs) : new.runs[k].median >= 2 * Threshold)
         <=> Shows(old.runs) \/ (samples # <<>> /\ s.median >= 2 * Threshold)
  <2>1. CASE samples = <<>>
    BY <1>6, <2>1 DEF Shows
  <2>2. CASE samples # <<>>
    <3>1. \A k \in 1 .. Len(new.runs) : k \in 1 .. Len(old.runs) \/ k = Len(old.runs) + 1
      BY <1>10, <2>2
    <3>2. \A k \in 1 .. Len(old.runs) : k \in 1 .. Len(new.runs)
      BY <1>10, <2>2
    <3>3. Len(old.runs) + 1 \in 1 .. Len(new.runs)
      BY <1>10, <2>2
    <3>4. QED
      BY <1>10, <2>2, <3>1, <3>2, <3>3 DEF Shows
  <2>3. QED
    BY <2>1, <2>2
<1>18. Measured'
  <2> SUFFICES ASSUME NEW c \in Cores
               PROVE  /\ (\E i \in Counted(c)' : results[i].clocks = "stretched") => Shows(stats'[c].runs)
                      /\ Shows(stats'[c].runs) => \E i \in Counted(c)' : results[i].clocks # "steady"
    BY <1>1 DEF Measured, Shows
  <2>1. CASE c # c0
    BY <1>5, <1>16, <2>1 DEF VInv, Measured
  <2>2. CASE c = c0
    <3>1. /\ (\E i \in Counted(c0) : results[i].clocks = "stretched") => Shows(old.runs)
          /\ Shows(old.runs) => \E i \in Counted(c0) : results[i].clocks # "steady"
      BY <1>2 DEF VInv, Measured, old
    <3>2. Shows(new.runs) <=> Shows(old.runs) \/ (samples # <<>> /\ s.median >= 2 * Threshold)
      BY <1>17 DEF Shows
    <3>3. results[n].clocks = "stretched" => samples # <<>> /\ s.median >= 2 * Threshold
      BY <1>2, <1>8, <1>9
    <3>4. samples # <<>> /\ s.median >= 2 * Threshold => results[n].clocks # "steady"
      <4> SUFFICES ASSUME samples # <<>>, s.median >= 2 * Threshold, Clocks(samples) = "steady" PROVE FALSE
        BY <1>2
      <4>1. s.median < 2 * Threshold /\ s.median \in Nat
        BY <1>8, <1>9
      <4>2. QED
        BY <4>1, ThresholdAssumption
    <3>5. stats'[c].runs = new.runs /\ Counted(c)' = Counted(c0) \cup {n}
      <4>1. stats'[c].runs = new.runs
        BY <1>5, <2>2
      <4> HIDE DEF c0, n
      <4>2. Counted(c0)' = Counted(c0) \cup {n}
        BY <1>16
      <4>3. Counted(c)' = Counted(c0)'
        BY <1>1, <1>14, <2>2 DEF Counted, ResultsOf, c0
      <4>4. QED
        BY <4>1, <4>2, <4>3
    <3>6. QED
      BY <3>1, <3>2, <3>3, <3>4, <3>5
  <2>3. QED
    BY <2>1, <2>2
<1>19. Told'
  BY <1>1 DEF VInv, Told
<1>20. QED
  BY <1>12, <1>13, <1>15, <1>18, <1>19 DEF VInv

(* Then its verdict. *)
LEMMA ScoreKeeps == ASSUME VInv, Score PROVE VInv'
<1> DEFINE n == Len(results)
           c0 == current
           old == stats[c0]
           won == results[n].status = "PASS"
           new == [passes |-> IF won THEN old.passes + 1 ELSE old.passes,
                   failed |-> IF won THEN old.failed ELSE old.failed + 1, runs |-> old.runs]
<1>1. /\ mpc = "score" /\ mpc' = "result" /\ UNCHANGED <<cut, current, samples, results, summary>>
      /\ stats' = IF Last(results).status = "PASS" THEN [stats EXCEPT ![current].passes = @ + 1]
                  ELSE [stats EXCEPT ![current].failed = @ + 1]
  BY DEF Score, MainGoto
<1>2. /\ Books /\ c0 \in Cores /\ samples \in Seq(Nat) /\ results \in Seq(Returned)
      /\ n \in Nat \ {0} /\ DOMAIN results = 1 .. n
      /\ results[n].core = c0 /\ results[n].status # "INTERRUPTED"
  BY <1>1 DEF VInv, Books, Pending
<1>3. /\ stats = [c \in Cores |-> stats[c]]
      /\ \A c \in Cores : stats[c] = [passes |-> stats[c].passes, failed |-> stats[c].failed, runs |-> stats[c].runs]
  BY <1>2 DEF Books
<1>4. results[n].status \in {"PASS", "CRASH"}
  <2>1. results[n] \in Returned
    BY <1>2
  <2>2. results[n].status \in {"PASS", "CRASH", "INTERRUPTED"}
    BY <2>1 DEF Returned
  <2>3. QED
    BY <1>2, <2>2
<1>5. stats' = [stats EXCEPT ![c0] = new]
  <2>1. old = [passes |-> old.passes, failed |-> old.failed, runs |-> old.runs]
    BY <1>2, <1>3
  <2>2. Last(results).status = "PASS" <=> won
    BY DEF Last
  <2>3. CASE won
    <3>1. new = [old EXCEPT !.passes = old.passes + 1]
      BY <2>1, <2>3
    <3>2. stats' = [stats EXCEPT ![c0].passes = @ + 1]
      BY <1>1, <2>2, <2>3
    <3>3. stats' = [stats EXCEPT ![c0] = [stats[c0] EXCEPT !.passes = stats[c0].passes + 1]]
      BY <1>2, <1>3, <3>2
    <3>4. QED
      BY <3>1, <3>3
  <2>4. CASE ~won
    <3>1. new = [old EXCEPT !.failed = old.failed + 1]
      BY <2>1, <2>4
    <3>2. stats' = [stats EXCEPT ![c0].failed = @ + 1]
      BY <1>1, <2>2, <2>4
    <3>3. stats' = [stats EXCEPT ![c0] = [stats[c0] EXCEPT !.failed = stats[c0].failed + 1]]
      BY <1>2, <1>3, <3>2
    <3>4. QED
      BY <3>1, <3>3
  <2>5. QED
    BY <2>3, <2>4
<1>6. /\ \A c \in Cores : c # c0 => stats'[c] = stats[c]
      /\ stats'[c0] = new /\ stats' = [c \in Cores |-> stats'[c]]
  <2> HIDE DEF new
  <2>1. QED
    BY <1>2, <1>3, <1>5
<1>7. /\ new.runs = old.runs /\ new = [passes |-> new.passes, failed |-> new.failed, runs |-> new.runs]
      /\ new.passes = IF won THEN old.passes + 1 ELSE old.passes
      /\ new.failed = IF won THEN old.failed ELSE old.failed + 1
  OBVIOUS
<1> HIDE DEF new
<1>8. \A c \in Cores : stats'[c].runs = stats[c].runs
  BY <1>6, <1>7
<1>9. Books'
  <2>1. \A c \in Cores : stats'[c] = [passes |-> stats'[c].passes, failed |-> stats'[c].failed, runs |-> stats'[c].runs]
    <3> TAKE c \in Cores
    <3>1. CASE c = c0
      BY <1>6, <1>7, <3>1
    <3>2. CASE c # c0
      BY <1>3, <1>6, <3>2
    <3>3. QED
      BY <3>1, <3>2
  <2>2. QED
    BY <1>1, <1>2, <1>6, <1>8, <2>1 DEF Books, MainSteps
<1>10. Pending'
  BY <1>1 DEF Pending
<1>11. At({"tally", "score"}) /\ ~At({"tally", "score"})' /\ ~At({"tally"}) /\ ~At({"tally"})'
  <2>1. cut = "none" /\ cut' = "none"
    BY <1>1, <1>2 DEF Books
  <2>2. QED
    BY <1>1, <2>1 DEF At
<1>12. \A c \in Cores : Counted(c)' = Counted(c)
  BY <1>1, <1>11 DEF Counted, ResultsOf
<1>13. Measured'
  BY <1>1, <1>8, <1>12 DEF VInv, Measured, Shows
<1>14. \A c \in Cores, x \in {"PASS", "CRASH"} :
         /\ Ended(c, x)' = IF c = c0 /\ results[n].status = x THEN Ended(c, x) \cup {n} ELSE Ended(c, x)
         /\ n \notin Ended(c, x) /\ Ended(c, x) \subseteq 1 .. n
  <2> TAKE c \in Cores, x \in {"PASS", "CRASH"}
  <2>1. Ended(c, x)' = {i \in 1 .. n : results[i].core = c /\ results[i].status = x}
    BY <1>1, <1>2, <1>11 DEF Ended
  <2>2. Ended(c, x) = {i \in 1 .. n : results[i].core = c /\ results[i].status = x /\ i # n}
    BY <1>1, <1>2, <1>11 DEF Ended
  <2>3. n \in 1 .. n
    BY <1>2
  <2> HIDE DEF n, c0
  <2>4. QED
    BY <1>2, <2>1, <2>2, <2>3
<1>15. \A c \in Cores, x \in {"PASS", "CRASH"} :
         /\ Cardinality(Ended(c, x)) \in Nat
         /\ Cardinality(Ended(c, x) \cup {n}) = Cardinality(Ended(c, x)) + 1
  <2> TAKE c \in Cores, x \in {"PASS", "CRASH"}
  <2>1. IsFiniteSet(1 .. n)
    BY <1>2, FS_Interval
  <2>2. IsFiniteSet(Ended(c, x))
    BY <1>14, <2>1, FS_Subset
  <2>3. QED
    BY <1>14, <2>2, FS_AddElement, FS_CardinalityType
<1>16. Scored'
  <2> SUFFICES ASSUME NEW c \in Cores
               PROVE  /\ stats'[c].passes = Cardinality(Ended(c, "PASS")')
                      /\ stats'[c].failed = Cardinality(Ended(c, "CRASH")')
    BY DEF Scored
  <2>1. stats[c].passes = Cardinality(Ended(c, "PASS")) /\ stats[c].failed = Cardinality(Ended(c, "CRASH"))
    BY DEF VInv, Scored
  <2>2. CASE c # c0
    <3>1. Ended(c, "PASS")' = Ended(c, "PASS") /\ Ended(c, "CRASH")' = Ended(c, "CRASH")
      BY <1>14, <2>2
    <3>2. QED
      BY <1>6, <2>1, <2>2, <3>1
  <2>3. CASE c = c0
    <3>1. stats'[c] = new /\ old = stats[c]
      BY <1>6, <2>3
    <3> HIDE DEF old, c0, n
    <3>2. CASE won
      <4>1. Ended(c, "PASS")' = Ended(c, "PASS") \cup {n} /\ Ended(c, "CRASH")' = Ended(c, "CRASH")
        BY <1>14, <2>3, <3>2
      <4>2. new.passes = old.passes + 1 /\ new.failed = old.failed
        BY <1>7, <3>2
      <4>3. QED
        BY <1>15, <2>1, <3>1, <4>1, <4>2
    <3>3. CASE ~won
      <4>1. Ended(c, "CRASH")' = Ended(c, "CRASH") \cup {n} /\ Ended(c, "PASS")' = Ended(c, "PASS")
        BY <1>4, <1>14, <2>3, <3>3
      <4>2. new.passes = old.passes /\ new.failed = old.failed + 1
        BY <1>7, <3>3
      <4>3. QED
        BY <1>15, <2>1, <3>1, <4>1, <4>2
    <3>4. QED
      BY <3>2, <3>3
  <2>4. QED
    BY <2>2, <2>3
<1>17. Told'
  BY <1>1 DEF VInv, Told
<1>18. QED
  BY <1>9, <1>10, <1>13, <1>16, <1>17 DEF VInv

(* The summary is made from the statistics, which nothing changes any more. *)
LEMMA PrintKeeps == ASSUME VInv, PrintSummary PROVE VInv'
<1>1. /\ mpc = "over" /\ mpc' = "done" /\ UNCHANGED <<cut, current, samples, stats, results>>
      /\ \E printed \in 0 .. Len(AllCores) : summary' = [i \in 1 .. printed |-> SummaryRow(AllCores[i])]
  BY DEF PrintSummary
<1>2. Books' /\ Pending'
  BY <1>1 DEF VInv, Books, Pending, MainSteps
<1>3. (\A c : Counted(c)' = Counted(c)) /\ \A c, s : Ended(c, s)' = Ended(c, s)
  <2>1. (At({"tally"})' <=> At({"tally"})) /\ (At({"tally", "score"})' <=> At({"tally", "score"}))
    BY <1>1 DEF At
  <2>2. QED
    BY <1>1, <2>1 DEF Counted, ResultsOf, Ended
<1>4. Scored' /\ Measured'
  BY <1>1, <1>3 DEF VInv, Scored, Measured, Shows
<1>5. \A i : SummaryRow(AllCores[i])' = SummaryRow(AllCores[i])
  BY <1>1 DEF SummaryRow, FinishedDrop
<1>6. Told'
  BY <1>1, <1>5 DEF Told
<1>7. QED
  BY <1>2, <1>4, <1>6 DEF VInv

(* Nothing else changes what they depend on. *)
LEMMA StandsStill == ASSUME VInv, UNCHANGED main PROVE VInv'
<1>1. UNCHANGED <<mpc, cut, current, samples, stats, results, summary>>
  BY DEF main
<1>2. Books' /\ Pending'
  BY <1>1 DEF VInv, Books, Pending, Clocks
<1>3. (\A c : Counted(c)' = Counted(c)) /\ \A c, s : Ended(c, s)' = Ended(c, s)
  BY <1>1 DEF Counted, ResultsOf, Ended, At
<1>4. Scored' /\ Measured'
  BY <1>1, <1>3 DEF VInv, Scored, Measured, Shows
<1>5. \A i : SummaryRow(AllCores[i])' = SummaryRow(AllCores[i])
  BY <1>1 DEF SummaryRow, FinishedDrop
<1>6. Told'
  BY <1>1, <1>5 DEF VInv, Told
<1>7. QED
  BY <1>2, <1>4, <1>6 DEF VInv

-----------------------------------------------------------------------------
(* The statistics tell of the runs at every step, whatever the UI thread reads. *)
THEOREM VerdictInvariance == Spec => []VInv
<1>1. VInv /\ [Next]_vars => VInv'
  <2> SUFFICES ASSUME VInv, [Next]_vars PROVE VInv'
    OBVIOUS
  <2>1. CASE CoreStart \/ Emit \/ TakeSample \/ CoreResult \/ EndSession
    BY <2>1, QuietKeeps
  <2>2. CASE RunReturns
    BY <2>2, ReturnsKeep
  <2>3. CASE Tally
    BY <2>3, TallyKeeps
  <2>4. CASE Score
    BY <2>4, ScoreKeeps
  <2>5. CASE PrintSummary
    BY <2>5, PrintKeeps
  <2>6. CASE Abort
    BY <2>6, AbortKeeps
  <2>7. CASE OtherEvent \/ Refresh \/ DrawStep \/ UNCHANGED vars
    <3>1. UNCHANGED main
      BY <2>7 DEF OtherEvent, Refresh, DrawStep, BeginDrawing, DrawTesting, ReadActive, ReadDrop, DrawStatus,
                  DrawNumbers, ShowScreen, UiGoto, vars
    <3>2. QED
      BY <3>1, StandsStill
  <2>8. QED
    BY <2>1, <2>2, <2>3, <2>4, <2>5, <2>6, <2>7 DEF Next, MainStep
<1>2. QED
  BY <1>1, InitVerdict, PTL DEF Spec

LEMMA StretchesShows == ASSUME VInv PROVE \A c \in Cores : Stretches(stats[c].runs) <=> Shows(stats[c].runs)
<1>1. \A c \in Cores : IsSeq(stats[c].runs) /\ \A k \in 1 .. Len(stats[c].runs) : stats[c].runs[k].median \in Nat
  BY DEF VInv, Books
<1>2. QED
  BY <1>1, StretchesTells

(* A core counts as stretching for one run that was stretched for most of its
   samples, and does not if each run was steady for most of them, however many
   runs and samples there are (TelemetrySummary and CoreStats of lib/models.py). *)
THEOREM WorstRunShown == Spec => []WorstRunIsShown
<1>1. VInv => WorstRunIsShown
  BY StretchesShows DEF VInv, Measured, WorstRunIsShown
<1>2. QED
  BY <1>1, VerdictInvariance, PTL

(* The label of a core in the summary is the verdict over its judged runs, and
   its passes and failures are all of them; judged is every run that returned but
   for the last one of a session cut short before its verdict was entered
   (lib/orchestrator.py: _accumulate_stats, lib/views.py: core_status). *)
THEOREM SummaryTrue == Spec => []SummaryIsVerdict
<1>1. VInv => SummaryIsVerdict
  <2> SUFFICES ASSUME VInv, NEW k \in DOMAIN summary
               PROVE  LET c    == AllCores[k]
                          fail == {i \in Judged(c) : results[i].status \in FailedStatuses}
                      IN
                      /\ summary[k].status = "SKIPPED" <=> Judged(c) = {}
                      /\ summary[k].status = "FAIL" <=> fail # {}
                      /\ fail = {} /\ Judged(c) # {} =>
                             /\ (\E i \in Counted(c) : results[i].clocks = "stretched") => summary[k].status = "STRETCH"
                             /\ (\A i \in Counted(c) : results[i].clocks = "steady") => summary[k].status = "PASS"
                      /\ summary[k].passes + summary[k].failed = Cardinality(Judged(c))
    BY DEF SummaryIsVerdict
  <2> DEFINE c == AllCores[k]
             P == Ended(c, "PASS")
             F == Ended(c, "CRASH")
             R == Judged(c)
             fail == {i \in R : results[i].status \in FailedStatuses}
  <2>1. PICK printed \in 0 .. Len(AllCores) : summary = [i \in 1 .. printed |-> SummaryRow(AllCores[i])]
    <3>1. DOMAIN <<>> = {}
      OBVIOUS
    <3>2. QED
      BY <3>1 DEF VInv, Told
  <2>2. k \in DOMAIN AllCores /\ c \in Cores /\ summary[k] = SummaryRow(c)
    <3>1. Len(AllCores) \in Nat
      BY CoreAssumption
    <3>2. k \in 1 .. printed
      BY <2>1
    <3>3. QED
      BY <2>1, <3>1, <3>2, CoreFacts
  <2>3. /\ summary[k].status = CoreStatus(stats[c], FALSE, TRUE)
        /\ summary[k].passes = stats[c].passes /\ summary[k].failed = stats[c].failed
    BY <2>2 DEF SummaryRow
  <2>4. results \in Seq(Returned) /\ DOMAIN results = 1 .. Len(results) /\ Len(results) \in Nat
    BY DEF VInv, Books
  <2>5. \A i \in DOMAIN results : results[i].status \in {"PASS", "CRASH", "INTERRUPTED"}
    <3>1. \A i \in DOMAIN results : results[i] \in Returned
      BY <2>4
    <3>2. QED
      BY <3>1 DEF Returned
  <2> DEFINE Entered(i) == At({"tally", "score"}) => i # Len(results)
  <2>6. /\ P = {i \in DOMAIN results : results[i].core = c /\ results[i].status = "PASS" /\ Entered(i)}
        /\ F = {i \in DOMAIN results : results[i].core = c /\ results[i].status = "CRASH" /\ Entered(i)}
    BY DEF Ended
  <2>7. /\ R = {i \in DOMAIN results : results[i].core = c /\ results[i].status # "INTERRUPTED" /\ Entered(i)}
        /\ fail = {i \in R : results[i].status \in {"ERROR", "CRASH", "UNVERIFIED"}}
    BY DEF Judged, ResultsOf, FailedStatuses
  <2> HIDE DEF P, F, R, c, fail, Entered
  <2>8. R = P \cup F /\ fail = F /\ P \cap F = {}
    BY <2>5, <2>6, <2>7
  <2>9. P \subseteq 1 .. Len(results) /\ F \subseteq 1 .. Len(results)
    BY <2>4, <2>6
  <2>10. IsFiniteSet(P) /\ IsFiniteSet(F)
    <3>1. IsFiniteSet(1 .. Len(results))
      BY <2>4, FS_Interval
    <3>2. QED
      BY <2>9, <3>1, FS_Subset
  <2>11. Cardinality(P) \in Nat /\ Cardinality(F) \in Nat /\ Cardinality(R) = Cardinality(P) + Cardinality(F)
    <3>1. Cardinality(P \cup F) = Cardinality(P) + Cardinality(F) - Cardinality({})
      BY <2>8, <2>10, FS_Union
    <3>2. QED
      BY <2>8, <2>10, <3>1, FS_CardinalityType, FS_EmptySet
  <2>12. stats[c].passes = Cardinality(P) /\ stats[c].failed = Cardinality(F)
    BY <2>2 DEF VInv, Scored, P, F
  <2>13. (Cardinality(P) = 0 <=> P = {}) /\ (Cardinality(F) = 0 <=> F = {})
    BY <2>10, FS_EmptySet
  <2>14. summary[k].status =
           IF F # {} THEN "FAIL"
           ELSE IF P # {} THEN IF Stretches(stats[c].runs) THEN "STRETCH" ELSE "PASS"
           ELSE "SKIPPED"
    BY <2>3, <2>11, <2>12, <2>13 DEF CoreStatus
  <2>15. /\ (\E i \in Counted(c) : results[i].clocks = "stretched") => Stretches(stats[c].runs)
         /\ (\A i \in Counted(c) : results[i].clocks = "steady") => ~Stretches(stats[c].runs)
    <3>1. (Stretches(stats[c].runs) <=> Shows(stats[c].runs))
      BY <2>2, StretchesShows
    <3>2. /\ (\E i \in Counted(c) : results[i].clocks = "stretched") => Shows(stats[c].runs)
          /\ Shows(stats[c].runs) => \E i \in Counted(c) : results[i].clocks # "steady"
      BY <2>2 DEF VInv, Measured
    <3>3. QED
      BY <3>1, <3>2
  <2>16. QED
    BY <2>3, <2>8, <2>11, <2>12, <2>14, <2>15 DEF c, R, fail
<1>2. QED
  BY <1>1, VerdictInvariance, PTL
=============================================================================
