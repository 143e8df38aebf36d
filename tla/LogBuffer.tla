----------------------------- MODULE LogBuffer -----------------------------
(***************************************************************************)
(* The log of the dashboard (lib/logbuffer.py): a deque of the newest      *)
(* MaxLen lines and a scroll position, shared by the threads that append   *)
(* and the UI thread that scrolls and draws.  Every method holds _lock, so *)
(* it is one step.  Lines are numbered in the order they arrive.           *)
(*                                                                         *)
(* held is history: the number of the bottom line of the view when it was  *)
(* last moved or drawn while scrolled up, 0 while it follows the tail.     *)
(***************************************************************************)
EXTENDS Integers

CONSTANT MaxLen     \* maxlen of the deque
ASSUME MaxLenAssumption == MaxLen \in Nat \ {0}

VARIABLES
    lines,      \* number of lines appended so far
    offset,     \* _offset
    window,     \* the lines returned by the last view, its height, and Kept then
    held

logVars == <<lines, offset, window, held>>

Least(a, b)    == IF a < b THEN a ELSE b
Greatest(a, b) == IF a > b THEN a ELSE b

Kept   == Least(lines, MaxLen)
Oldest == lines - Kept + 1      \* the oldest line still there

Windows == [first : Nat, last : Nat, height : Nat, kept : Nat]

LogTypeOK ==
    /\ lines \in Nat
    /\ offset \in Nat
    /\ window \in Windows
    /\ held \in Nat

LogInit ==
    /\ lines = 0 /\ offset = 0 /\ held = 0
    /\ window = [first |-> 1, last |-> 0, height |-> 1, kept |-> 0]

(* Mutant of AppendLine: the view moves with the log. *)
AppendUnanchored ==
    /\ lines' = lines + 1
    /\ UNCHANGED <<offset, window, held>>

AppendLine ==
    /\ lines' = lines + 1
    /\ offset' = IF offset > 0 THEN Least(offset + 1, Kept' - 1) ELSE 0
    /\ UNCHANGED <<window, held>>

(* Mutant of Clamp: it looks at the log and not at the window. *)
ClampToLog(position, visible) == Greatest(0, Least(position, Kept - 1))

Clamp(position, visible) == Greatest(0, Least(position, Kept - visible))

(* The position is set by the operator, or by a view that has to clamp it. *)
MoveTo(position, visible) ==
    /\ offset' = Clamp(position, visible)
    /\ held' = IF offset' > 0 THEN lines - offset' ELSE 0
    /\ UNCHANGED lines

Scroll(delta, visible) == MoveTo(offset + delta, visible) /\ UNCHANGED window

ScrollToOldest(visible) == MoveTo(Kept, visible) /\ UNCHANGED window

Follow ==
    /\ offset' = 0
    /\ held' = 0
    /\ UNCHANGED <<lines, window>>

View(visible) ==
    /\ MoveTo(offset, visible)
    /\ window' = [first  |-> Greatest(Oldest, lines - offset' - visible + 1),
                  last   |-> lines - offset',
                  height |-> visible,
                  kept   |-> Kept]

LogNext ==
    \/ AppendLine \/ Follow
    \/ \E visible \in Nat \ {0} :
         \/ ScrollToOldest(visible) \/ View(visible)
         \/ \E delta \in Int : Scroll(delta, visible)

LogSpec == LogInit /\ [][LogNext]_logVars

-----------------------------------------------------------------------------
(* "Keep the scrolled-up view anchored while new lines arrive"
   (lib/logbuffer.py:25): however many lines came in since, the view ends at
   the line it was left at, or at the oldest one if that line is gone; and it
   follows the tail exactly when the operator did not scroll up. *)
ViewIsAnchored ==
    /\ held = 0 <=> offset = 0
    /\ held # 0 => lines - offset = Greatest(held, Oldest)

(* A view is as full as the log allows: with any scroll position, after any
   resize and at the limit of the deque, it shows consecutive lines that exist,
   as many as fit, when it is drawn. *)
WindowIsFull ==
    /\ window.last <= lines
    /\ window.last - window.first + 1 = Least(window.height, window.kept)
=============================================================================
