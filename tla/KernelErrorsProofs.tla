------------------------- MODULE KernelErrorsProofs -------------------------
(***************************************************************************)
(* Proofs about KernelErrors for every set of cores, resolution, buffer    *)
(* size and bound.  The attribution rests on two facts: the clock orders   *)
(* the run starts and the records the way the history does (TimeOrder),    *)
(* and the lock keeps the monitor from looking while a start that was read *)
(* is not yet in the timeline (LockHeld, EventsKnown).                     *)
(***************************************************************************)
EXTENDS KernelErrors, SequenceTheorems, TLAPS

(* What the arithmetic needs of the types. *)
Typed ==
    /\ pc \in MainSteps /\ mpc \in MonitorSteps /\ lock \in {"free", "main", "monitor"}
    /\ clock \in Nat /\ began \in Nat /\ first \in Nat \ {0} /\ next \in Nat \ {0}
    /\ rec \in Nat /\ stamp \in Nat
    /\ Len(log) \in Nat /\ Len(starts) \in Nat /\ Len(cores) \in Nat /\ Len(events) \in Nat
    /\ \A r \in 1 .. Len(log) :
         log[r].at \in Nat /\ log[r].during \in Nat /\ log[r].hw \in BOOLEAN /\ log[r].timed \in BOOLEAN
    /\ \A i \in 1 .. Len(starts) : starts[i] \in Nat
    /\ \A k \in 1 .. Len(events) : events[k].record \in Nat /\ events[k].pos \in Nat

LockHeld ==
    /\ lock = "main" <=> pc \in {"stamped", "half"}
    /\ lock = "monitor" => mpc = "lock"
    /\ pc \in {"setup", "idle", "stamped", "testing"} => Len(cores) = Len(starts)
    /\ pc = "half" => Len(starts) = Len(cores) + 1
    /\ Len(cores) <= Len(starts)
    /\ pc = "setup" => mpc = "off"

(* A record and the starts around it. *)
Ordered(r) ==
    /\ log[r].at <= clock
    /\ pc \in {"setup", "idle", "half", "testing"} => log[r].during <= Len(starts)
    /\ pc = "stamped" =>
         /\ log[r].during <= Len(starts) + 1
         /\ log[r].during <= Len(starts) => log[r].at <= began
         /\ log[r].during = Len(starts) + 1 => began <= log[r].at
    /\ \A i \in 1 .. Len(starts) :
         /\ i <= log[r].during => starts[i] <= log[r].at
         /\ i > log[r].during => log[r].at <= starts[i]

TimeOrder ==
    /\ \A i \in 1 .. Len(starts) : starts[i] <= clock
    /\ pc = "stamped" => began <= clock
    /\ \A r \in 1 .. Len(log) : Ordered(r)

RecordInHand ==
    /\ first <= next /\ next <= Len(log) + 1
    /\ mpc \in {"stamp", "lock"} =>
         /\ rec \in first .. Len(log) /\ rec < next
         /\ log[rec].hw
    /\ mpc = "lock" =>
         /\ log[rec].timed => stamp <= log[rec].at /\ log[rec].at - stamp < Resolution
         /\ ~log[rec].timed => log[rec].at <= stamp
    /\ mpc = "off" => ~running

EventKnown(e) ==
    /\ e.record \in first .. next - 1
    /\ e.pos <= Len(cores)
    /\ mpc \in {"stamp", "lock"} => e.record < rec
    /\ pc = "stamped" => log[e.record].during <= Len(starts)

EventsKnown ==
    /\ pc = "setup" => Len(events) = 0
    /\ \A k \in 1 .. Len(events) : EventKnown(events[k])

Finished ==
    /\ pc \in {"summary", "done"} /\ ~unjoined => mpc \in {"off", "ended", "dead"}
    /\ SummaryIsFinal

IInv ==
    /\ TypeOK
    /\ LockHeld
    /\ TimeOrder
    /\ RecordInHand
    /\ EventsKnown
    /\ AttributionCorrect
    /\ UntimedNotEarlier
    /\ ReportedOnceInOrder
    /\ Finished
-----------------------------------------------------------------------------
LEMMA TypedFacts == TypeOK => Typed
<1> SUFFICES ASSUME TypeOK PROVE Typed
  OBVIOUS
<1>1. /\ Len(log) \in Nat /\ Len(starts) \in Nat /\ Len(cores) \in Nat /\ Len(events) \in Nat
      /\ \A i \in 1 .. Len(starts) : starts[i] \in Nat
  BY DEF TypeOK
<1>2. \A r \in 1 .. Len(log) : log[r] \in Records
  BY DEF TypeOK
<1>3. \A k \in 1 .. Len(events) : events[k] \in Events
  BY DEF TypeOK
<1>4. \A r \in 1 .. Len(log) :
        log[r].at \in Nat /\ log[r].during \in Nat /\ log[r].hw \in BOOLEAN /\ log[r].timed \in BOOLEAN
  BY <1>2 DEF Records
<1>5. \A k \in 1 .. Len(events) : events[k].record \in Nat /\ events[k].pos \in Nat
  BY <1>3 DEF Events
<1>6. QED
  BY <1>1, <1>4, <1>5 DEF TypeOK, Typed

(* What each append leaves: the old entries, and the new one after them. *)
LEMMA LogGrows ==
  ASSUME TypeOK, LogRecord
  PROVE  /\ log' \in Seq(Records) /\ Len(log') = Len(log) + 1
         /\ \A r \in 1 .. Len(log) : log'[r] = log[r]
         /\ log'[Len(log) + 1].at = clock /\ log'[Len(log) + 1].during = InProgress
         /\ pc # "done"
         /\ UNCHANGED <<clock, session, timeline, lock, reader, running, events>>
<1>1. PICK hw \in BOOLEAN, timed \in BOOLEAN :
        log' = Append(log, [at |-> clock, hw |-> hw, timed |-> timed,
                            during |-> InProgress, inRun |-> pc = "testing"])
  BY DEF LogRecord
<1> DEFINE new == [at |-> clock, hw |-> hw, timed |-> timed,
                   during |-> InProgress, inRun |-> pc = "testing"]
<1>2. (pc = "testing") \in BOOLEAN /\ InProgress \in Nat /\ log \in Seq(Records) /\ clock \in Nat
  BY DEF TypeOK, InProgress
<1>3. new \in Records
  BY <1>2 DEF Records
<1>4. /\ log' \in Seq(Records) /\ Len(log') = Len(log) + 1
      /\ \A r \in 1 .. Len(log) : log'[r] = log[r]
      /\ log'[Len(log) + 1] = new
  <2> HIDE DEF new
  <2>1. log' = Append(log, new)
    BY <1>1 DEF new
  <2>2. QED
    BY <1>2, <1>3, <2>1, AppendProperties
<1>5. QED
  BY <1>4 DEF LogRecord

LEMMA StartsGrow ==
  ASSUME TypeOK, AppendStart
  PROVE  /\ starts' \in Seq(Nat) /\ Len(starts') = Len(starts) + 1
         /\ \A i \in 1 .. Len(starts) : starts'[i] = starts[i]
         /\ starts'[Len(starts) + 1] = began
         /\ pc = "stamped" /\ pc' = "half" /\ began' = 0
         /\ UNCHANGED <<clock, log, unjoined, summary, cores, lock, reader, running, events>>
  BY AppendProperties DEF TypeOK, AppendStart

LEMMA CoresGrow ==
  ASSUME TypeOK, AppendCore
  PROVE  /\ cores' \in Seq(Cores) /\ Len(cores') = Len(cores) + 1
         /\ \A i \in 1 .. Len(cores) : cores'[i] = cores[i]
         /\ pc = "half" /\ pc' = "testing" /\ lock' = "free"
         /\ UNCHANGED <<clock, log, unjoined, summary, starts, began, reader, running, events>>
<1>1. PICK c \in Cores : cores' = Append(cores, c)
  BY DEF AppendCore
<1>2. QED
  BY <1>1, AppendProperties DEF TypeOK, AppendCore

LEMMA AttributeFrame ==
  ASSUME Attribute
  PROVE  /\ mpc = "lock" /\ mpc' \in {"dead", "present"}
         /\ lock = "monitor" /\ lock' = "free" /\ stamp' = 0
         /\ UNCHANGED <<clock, log, session, timeline, running, first, next, rec>>
<1>1. PICK pos \in 0 .. Len(starts) : IF pos > Len(cores) THEN mpc' = "dead" ELSE mpc' = "present"
  BY DEF Attribute
<1>2. mpc' \in {"dead", "present"}
  BY <1>1
<1>3. QED
  BY <1>2 DEF Attribute, Thread

LEMMA EventsGrow ==
  ASSUME TypeOK, LockHeld, RecordInHand, Attribute
  PROVE  /\ mpc = "lock" /\ lock = "monitor" /\ lock' = "free" /\ stamp' = 0
         /\ UNCHANGED <<clock, log, session, timeline, running, first, next, rec>>
         /\ \E pos \in 0 .. Len(starts) :
              /\ IsBisectRight(starts, stamp, pos)
              /\ \/ mpc' = "dead" /\ UNCHANGED events
                 \/ /\ mpc' = "present" /\ pos <= Len(cores)
                    /\ events' \in Seq(Events) /\ Len(events') = Len(events) + 1
                    /\ \A k \in 1 .. Len(events) : events'[k] = events[k]
                    /\ events'[Len(events) + 1].record = rec
                    /\ events'[Len(events) + 1].pos = pos
                    /\ events'[Len(events) + 1].tested = IF pos = 0 THEN NoCore ELSE cores[pos]
<1>1. PICK pos \in 0 .. Len(starts) :
        /\ IsBisectRight(starts, stamp, pos)
        /\ IF pos > Len(cores)
           THEN mpc' = "dead" /\ UNCHANGED events
           ELSE /\ events' = Append(events, [record |-> rec, pos |-> pos,
                               tested |-> IF pos = 0 THEN NoCore ELSE cores[pos]])
                /\ mpc' = "present"
  BY DEF Attribute
<1>2. /\ mpc = "lock" /\ lock = "monitor" /\ lock' = "free" /\ stamp' = 0
      /\ UNCHANGED <<clock, log, session, timeline, running, first, next, rec>>
  BY DEF Attribute, Thread
<1>3. CASE pos > Len(cores)
  BY <1>1, <1>2, <1>3
<1>4. CASE ~(pos > Len(cores))
  <2> DEFINE new == [record |-> rec, pos |-> pos, tested |-> IF pos = 0 THEN NoCore ELSE cores[pos]]
  <2>1. rec \in Nat \ {0} /\ pos \in Nat
    BY <1>2, TypedFacts DEF RecordInHand, Typed
  <2>2. (IF pos = 0 THEN NoCore ELSE cores[pos]) \in Cores \cup {NoCore}
    BY <1>4, TypedFacts DEF TypeOK, Typed
  <2>3. new \in Events
    BY <2>1, <2>2 DEF Events
  <2>4. pos <= Len(cores) /\ mpc' = "present" /\ events \in Seq(Events)
    BY <1>1, <1>4, TypedFacts DEF Typed, TypeOK
  <2>5. /\ events' \in Seq(Events) /\ Len(events') = Len(events) + 1
        /\ \A k \in 1 .. Len(events) : events'[k] = events[k]
        /\ events'[Len(events) + 1] = new
    <3> HIDE DEF new
    <3>1. events' = Append(events, new)
      BY <1>1, <1>4 DEF new
    <3>2. QED
      BY <2>3, <2>4, <3>1, AppendProperties
  <2>6. new.record = rec /\ new.pos = pos /\ new.tested = IF pos = 0 THEN NoCore ELSE cores[pos]
    OBVIOUS
  <2> HIDE DEF new
  <2>7. QED
    BY <1>1, <1>2, <2>4, <2>5, <2>6
<1>5. QED
  BY <1>3, <1>4
-----------------------------------------------------------------------------
(* A timestamp is never later than its record and less than Resolution earlier. *)
LEMMA Truncation ==
  ASSUME NEW r, log[r].at \in Nat
  PROVE  /\ Timestamp(r) \in Nat
         /\ Timestamp(r) <= log[r].at
         /\ log[r].at - Timestamp(r) < Resolution
  BY ResolutionAssumption DEF Timestamp

LEMMA InitIInv == Init => IInv
<1> SUFFICES ASSUME Init PROVE IInv
  OBVIOUS
<1> USE DEF Init
<1>1. TypeOK
  <2>1. <<>> \in Seq(Records) /\ <<>> \in Seq(Nat) /\ <<>> \in Seq(Cores) /\ <<>> \in Seq(Events)
    OBVIOUS
  <2>2. log \in Seq(Records) /\ starts \in Seq(Nat) /\ cores \in Seq(Cores)
        /\ events \in Seq(Events) /\ summary \in Seq(Events)
    BY <2>1
  <2>3. /\ pc \in MainSteps /\ mpc \in MonitorSteps /\ lock \in {"free", "main", "monitor"}
        /\ unjoined \in BOOLEAN /\ running \in BOOLEAN
    BY DEF MainSteps, MonitorSteps
  <2>4. /\ clock \in Nat /\ began \in Nat /\ first \in Nat \ {0}
        /\ next \in Nat \ {0} /\ rec \in Nat /\ stamp \in Nat
    OBVIOUS
  <2>5. QED
    BY <2>2, <2>3, <2>4 DEF TypeOK
<1>2. LockHeld /\ TimeOrder /\ RecordInHand /\ EventsKnown /\ Finished
  BY DEF LockHeld, TimeOrder, RecordInHand, EventsKnown, Finished, SummaryIsFinal
<1>3. AttributionCorrect /\ UntimedNotEarlier /\ ReportedOnceInOrder
  BY DEF AttributionCorrect, UntimedNotEarlier, ReportedOnceInOrder
<1>4. QED
  BY <1>1, <1>2, <1>3 DEF IInv

(* The main thread holds the lock exactly while it records a start. *)
LEMMA LockStep ==
  TypeOK /\ Typed /\ LockHeld /\ RecordInHand /\ [Next]_vars => LockHeld'
<1> SUFFICES ASSUME TypeOK, Typed, LockHeld, RecordInHand, [Next]_vars PROVE LockHeld'
  OBVIOUS
<1>0. CASE UNCHANGED vars
  BY <1>0 DEF Typed, LockHeld, RecordInHand, MainSteps, MonitorSteps, vars, session, timeline, reader
<1> USE DEF Typed, LockHeld, RecordInHand, MainSteps, MonitorSteps, session, timeline, reader
<1>1. CASE Tick
  BY <1>1 DEF Tick
<1>2. CASE LogRecord
  BY <1>2, LogGrows DEF InProgress
<1>3. CASE StartMonitor
  <2>1. pc = "setup" /\ pc' = "idle" /\ lock # "monitor" /\ UNCHANGED <<lock, timeline>>
    BY <1>3 DEF StartMonitor
  <2>2. QED
    BY <2>1
<1>4. CASE ReadStart
  BY <1>4 DEF ReadStart
<1>5. CASE AppendStart
  BY <1>5, StartsGrow
<1>6. CASE AppendCore
  BY <1>6, CoresGrow
<1>7. CASE EndRun
  BY <1>7 DEF EndRun
<1>8. CASE LeaveCycles
  BY <1>8 DEF LeaveCycles
<1>9. CASE Abort
  BY <1>9 DEF Abort
<1>10. CASE CloseMonitor
  BY <1>10 DEF CloseMonitor
<1>11. CASE Join
  BY <1>11 DEF Join
<1>12. CASE Summarize
  BY <1>12 DEF Summarize
<1>13. CASE CheckRunning
  BY <1>13 DEF CheckRunning, Thread
<1>14. CASE Select
  BY <1>14 DEF Select, Thread
<1>15. CASE ReadPending
  BY <1>15 DEF ReadPending, Thread
<1>16. CASE TakeStamp
  BY <1>16 DEF TakeStamp, Thread
<1>17. CASE Acquire
  BY <1>17 DEF Acquire
<1>18. CASE Attribute
  BY <1>18, AttributeFrame
<1>19. CASE Present
  BY <1>19 DEF Present, Thread
<1>20. QED
  BY <1>0, <1>1, <1>2, <1>3, <1>4, <1>5, <1>6, <1>7, <1>8, <1>9, <1>10, <1>11, <1>12, <1>13, <1>14, <1>15, <1>16, <1>17, <1>18, <1>19 DEF Next, MonitorStep, MainStep

(* Every step keeps the variables in their types. *)
LEMMA TypeStep ==
  TypeOK /\ LockHeld /\ RecordInHand /\ [Next]_vars => TypeOK'
<1> SUFFICES ASSUME TypeOK, LockHeld, RecordInHand, [Next]_vars PROVE TypeOK'
  OBVIOUS
<1>0. CASE UNCHANGED vars
  BY <1>0 DEF TypeOK, MainSteps, MonitorSteps, vars, session, timeline, reader
<1> USE DEF TypeOK, MainSteps, MonitorSteps, session, timeline, reader
<1>1. CASE Tick
  BY <1>1 DEF Tick
<1>2. CASE LogRecord
  BY <1>2, LogGrows DEF InProgress
<1>3. CASE StartMonitor
  <2>1. CASE UNCHANGED <<running, mpc, first, next>>
    BY <1>3, <2>1 DEF StartMonitor
  <2>2. CASE running' = TRUE /\ mpc' = "check" /\ first' = Len(log) + 1 /\ next' = Len(log) + 1
    BY <1>3, <2>2 DEF StartMonitor
  <2>3. QED
    BY <1>3, <2>1, <2>2 DEF StartMonitor
<1>4. CASE ReadStart
  BY <1>4 DEF ReadStart
<1>5. CASE AppendStart
  <2>1. starts' \in Seq(Nat) /\ pc' \in MainSteps /\ began' \in Nat
    BY <1>5, StartsGrow
  <2>2. UNCHANGED <<clock, log, unjoined, summary, cores, lock, reader, running, events>>
    BY <1>5, StartsGrow
  <2>3. QED
    BY <2>1, <2>2
<1>6. CASE AppendCore
  BY <1>6, CoresGrow
<1>7. CASE EndRun
  BY <1>7 DEF EndRun
<1>8. CASE LeaveCycles
  BY <1>8 DEF LeaveCycles
<1>9. CASE Abort
  BY <1>9 DEF Abort
<1>10. CASE CloseMonitor
  BY <1>10 DEF CloseMonitor
<1>11. CASE Join
  BY <1>11 DEF Join
<1>12. CASE Summarize
  BY <1>12 DEF Summarize
<1>13. CASE CheckRunning
  BY <1>13 DEF CheckRunning, Thread
<1>14. CASE Select
  BY <1>14 DEF Select, Thread
<1>15. CASE ReadPending
  <2>1. next' \in Nat \ {0} /\ rec' \in Nat /\ mpc' \in MonitorSteps
    <3>1. Oldest \in Nat \ {0}
      BY BufferAssumption, TypedFacts DEF Typed, Oldest
    <3>2. QED
      BY <1>15, <3>1 DEF ReadPending
  <2>2. UNCHANGED <<clock, log, session, timeline, running, first, stamp, lock, events>>
    BY <1>15 DEF ReadPending, Thread
  <2>3. QED
    BY <2>1, <2>2
<1>16. CASE TakeStamp
  <2>1. stamp' \in Nat
    <3>1. log[rec].at \in Nat
      BY <1>16, TypedFacts DEF TakeStamp, RecordInHand, Typed
    <3>2. QED
      BY <1>16, <3>1, Truncation DEF TakeStamp
  <2>2. mpc' \in MonitorSteps /\ UNCHANGED <<clock, log, session, timeline, running, first, next, rec, lock, events>>
    BY <1>16 DEF TakeStamp, Thread
  <2>3. QED
    BY <2>1, <2>2
<1>17. CASE Acquire
  BY <1>17 DEF Acquire
<1>18. CASE Attribute
  <2>1. /\ mpc' \in MonitorSteps /\ lock' = "free" /\ stamp' = 0
        /\ UNCHANGED <<clock, log, session, timeline, running, first, next, rec>>
    BY <1>18, AttributeFrame
  <2>2. events' \in Seq(Events)
    BY <1>18, EventsGrow
  <2>3. QED
    BY <2>1, <2>2
<1>19. CASE Present
  BY <1>19 DEF Present, Thread
<1>20. QED
  BY <1>0, <1>1, <1>2, <1>3, <1>4, <1>5, <1>6, <1>7, <1>8, <1>9, <1>10, <1>11, <1>12, <1>13, <1>14, <1>15, <1>16, <1>17, <1>18, <1>19 DEF Next, MonitorStep, MainStep

LEMMA EventInLog ==
  ASSUME Typed, RecordInHand, EventsKnown, NEW k \in 1 .. Len(events)
  PROVE  EventKnown(events[k]) /\ events[k].record \in 1 .. Len(log)
<1>1. EventKnown(events[k])
  BY DEF EventsKnown
<1>2. first \in Nat \ {0} /\ next \in Nat /\ Len(log) \in Nat /\ next <= Len(log) + 1
  BY DEF Typed, RecordInHand
<1>3. events[k].record \in first .. next - 1
  BY <1>1 DEF EventKnown
<1>4. QED
  BY <1>1, <1>2, <1>3

(* The clock orders starts and records as they happened. *)
LEMMA TimeStep ==
  TypeOK /\ Typed /\ LockHeld /\ TimeOrder /\ [Next]_vars => TimeOrder'
<1> SUFFICES ASSUME TypeOK, Typed, LockHeld, TimeOrder, [Next]_vars PROVE TimeOrder'
  OBVIOUS
<1>0. CASE UNCHANGED vars
  BY <1>0 DEF Typed, LockHeld, TimeOrder, Ordered, vars, session, timeline, reader
<1> USE DEF Typed, LockHeld, TimeOrder, Ordered, session, timeline, reader
<1>1. CASE Tick
  BY <1>1 DEF Tick
<1>2. CASE LogRecord
  <2>1. \A r \in 1 .. Len(log) : Ordered(r)'
    BY <1>2, LogGrows DEF Ordered
  <2>2. ASSUME NEW r \in Nat, r = Len(log) + 1 PROVE Ordered(r)'
    <3>1. /\ log'[r].at = clock /\ clock' = clock /\ pc' = pc /\ starts' = starts /\ began' = began
          /\ log'[r].during = IF pc = "stamped" THEN Len(starts) + 1 ELSE Len(starts)
      BY <1>2, <2>2, LogGrows DEF InProgress
    <3>2. /\ \A i \in 1 .. Len(starts) : starts[i] \in Nat /\ starts[i] <= clock
          /\ pc = "stamped" => began <= clock
          /\ clock \in Nat /\ began \in Nat /\ Len(starts) \in Nat
      OBVIOUS
    <3> HIDE DEF Typed, LockHeld, TimeOrder
    <3>3. QED
      BY <3>1, <3>2
  <2>3. QED
    BY <1>2, <2>1, <2>2, LogGrows
<1>3. CASE StartMonitor
  BY <1>3 DEF StartMonitor
<1>4. CASE ReadStart
  BY <1>4 DEF ReadStart
<1>5. CASE AppendStart
  <2>0. Len(starts) \in Nat /\ Len(starts') = Len(starts) + 1
    BY <1>5, StartsGrow DEF Typed
  <2>1. \A r \in 1 .. Len(log) : Ordered(r)'
    <3> TAKE r \in 1 .. Len(log)
    <3>1. ASSUME NEW i \in 1 .. Len(starts')
          PROVE  /\ i <= log[r].during => starts'[i] <= log[r].at
                 /\ i > log[r].during => log[r].at <= starts'[i]
      <4>1. CASE i \in 1 .. Len(starts)
        BY <1>5, <4>1, StartsGrow DEF Ordered
      <4>2. CASE i = Len(starts) + 1
        BY <1>5, <4>2, StartsGrow DEF Ordered
      <4> HIDE DEF Typed, LockHeld, TimeOrder, Ordered
      <4>3. i \in 1 .. Len(starts) \/ i = Len(starts) + 1
        BY <2>0, <3>1
      <4>4. QED
        BY <4>1, <4>2, <4>3
    <3>2. QED
      BY <1>5, <3>1, StartsGrow DEF Ordered
  <2>2. ASSUME NEW i \in 1 .. Len(starts') PROVE starts'[i] <= clock
    <3>1. CASE i \in 1 .. Len(starts)
      BY <1>5, <3>1, StartsGrow
    <3>2. CASE i = Len(starts) + 1
      BY <1>5, <3>2, StartsGrow
    <3> HIDE DEF Typed, LockHeld, TimeOrder, Ordered
    <3>3. i \in 1 .. Len(starts) \/ i = Len(starts) + 1
      BY <2>0, <2>2
    <3>4. QED
      BY <3>1, <3>2, <3>3
  <2>3. QED
    BY <1>5, <2>1, <2>2, StartsGrow
<1>6. CASE AppendCore
  BY <1>6, CoresGrow
<1>7. CASE EndRun
  BY <1>7 DEF EndRun
<1>8. CASE LeaveCycles
  BY <1>8 DEF LeaveCycles
<1>9. CASE Abort
  BY <1>9 DEF Abort
<1>10. CASE CloseMonitor
  BY <1>10 DEF CloseMonitor
<1>11. CASE Join
  BY <1>11 DEF Join
<1>12. CASE Summarize
  BY <1>12 DEF Summarize
<1>13. CASE CheckRunning
  BY <1>13 DEF CheckRunning, Thread
<1>14. CASE Select
  BY <1>14 DEF Select, Thread
<1>15. CASE ReadPending
  BY <1>15 DEF ReadPending, Thread
<1>16. CASE TakeStamp
  BY <1>16 DEF TakeStamp, Thread
<1>17. CASE Acquire
  BY <1>17 DEF Acquire
<1>18. CASE Attribute
  BY <1>18, AttributeFrame
<1>19. CASE Present
  BY <1>19 DEF Present, Thread
<1>20. QED
  BY <1>0, <1>1, <1>2, <1>3, <1>4, <1>5, <1>6, <1>7, <1>8, <1>9, <1>10, <1>11, <1>12, <1>13, <1>14, <1>15, <1>16, <1>17, <1>18, <1>19 DEF Next, MonitorStep, MainStep

(* What the monitor thread holds is an error it has just read. *)
LEMMA RecordStep ==
  TypeOK /\ Typed /\ LockHeld /\ TimeOrder /\ RecordInHand /\ [Next]_vars => RecordInHand'
<1> SUFFICES ASSUME TypeOK, Typed, LockHeld, TimeOrder, RecordInHand, [Next]_vars PROVE RecordInHand'
  OBVIOUS
<1>0. CASE UNCHANGED vars
  BY <1>0 DEF Typed, LockHeld, RecordInHand, vars, session, timeline, reader
<1> USE DEF Typed, LockHeld, RecordInHand, session, timeline, reader
<1>1. CASE Tick
  BY <1>1 DEF Tick
<1>2. CASE LogRecord
  BY <1>2, LogGrows DEF InProgress
<1>3. CASE StartMonitor
  BY <1>3 DEF StartMonitor
<1>4. CASE ReadStart
  BY <1>4 DEF ReadStart
<1>5. CASE AppendStart
  BY <1>5, StartsGrow
<1>6. CASE AppendCore
  BY <1>6, CoresGrow
<1>7. CASE EndRun
  BY <1>7 DEF EndRun
<1>8. CASE LeaveCycles
  BY <1>8 DEF LeaveCycles
<1>9. CASE Abort
  BY <1>9 DEF Abort
<1>10. CASE CloseMonitor
  BY <1>10 DEF CloseMonitor
<1>11. CASE Join
  BY <1>11 DEF Join
<1>12. CASE Summarize
  BY <1>12 DEF Summarize
<1>13. CASE CheckRunning
  BY <1>13 DEF CheckRunning, Thread
<1>14. CASE Select
  BY <1>14 DEF Select, Thread
<1>15. CASE ReadPending
  <2>1. Oldest \in Nat \ {0} /\ Oldest <= Len(log) + 1
    BY BufferAssumption DEF Oldest
  <2>2. UNCHANGED <<log, running, first, stamp>> /\ mpc = "read"
    BY <1>15 DEF ReadPending, Thread
  <2>3. CASE next > Len(log)
    BY <1>15, <2>2, <2>3 DEF ReadPending
  <2>4. CASE next <= Len(log) /\ next < Oldest
    BY <1>15, <2>1, <2>2, <2>4 DEF ReadPending
  <2>5. CASE next <= Len(log) /\ next >= Oldest
    BY <1>15, <2>1, <2>2, <2>5 DEF ReadPending
  <2>6. QED
    BY <2>1, <2>3, <2>4, <2>5
<1>16. CASE TakeStamp
  <2>1. mpc = "stamp" /\ mpc' = "lock" /\ UNCHANGED <<log, clock, first, next, rec, running>>
    BY <1>16 DEF TakeStamp, Thread
  <2>2. log[rec].at \in Nat /\ log[rec].at <= clock
    BY <2>1 DEF TimeOrder, Ordered
  <2>3. stamp' = IF log[rec].timed THEN Timestamp(rec) ELSE clock
    BY <1>16 DEF TakeStamp
  <2>4. QED
    BY <2>1, <2>2, <2>3, Truncation
<1>17. CASE Acquire
  BY <1>17 DEF Acquire
<1>18. CASE Attribute
  BY <1>18, AttributeFrame
<1>19. CASE Present
  BY <1>19 DEF Present, Thread
<1>20. QED
  BY <1>0, <1>1, <1>2, <1>3, <1>4, <1>5, <1>6, <1>7, <1>8, <1>9, <1>10, <1>11, <1>12, <1>13, <1>14, <1>15, <1>16, <1>17, <1>18, <1>19 DEF Next, MonitorStep, MainStep

(* Every event is of a record already read, and of a run already in the timeline. *)
LEMMA EventsStep ==
  TypeOK /\ Typed /\ LockHeld /\ TimeOrder /\ RecordInHand /\ EventsKnown /\ [Next]_vars => EventsKnown'
<1> SUFFICES ASSUME TypeOK, Typed, LockHeld, TimeOrder, RecordInHand, EventsKnown, [Next]_vars PROVE EventsKnown'
  OBVIOUS
<1>0. CASE UNCHANGED vars
  BY <1>0 DEF Typed, LockHeld, RecordInHand, EventsKnown, EventKnown, vars, session, timeline, reader
<1> USE DEF Typed, LockHeld, RecordInHand, EventsKnown, EventKnown, session, timeline, reader
<1>1. CASE Tick
  BY <1>1 DEF Tick
<1>2. CASE LogRecord
  <2>1. UNCHANGED <<events, first, next, rec, mpc, pc, cores, starts>>
    BY <1>2, LogGrows
  <2>2. ASSUME NEW k \in 1 .. Len(events) PROVE EventKnown(events[k])'
    <3>1. events[k].record \in 1 .. Len(log)
      <4> HIDE DEF Typed, LockHeld, RecordInHand, EventsKnown, EventKnown, ReportedOnceInOrder
      <4>1. QED
        BY <2>2, EventInLog
    <3>2. log'[events[k].record] = log[events[k].record]
      BY <1>2, <3>1, LogGrows
    <3>3. QED
      BY <2>1, <2>2, <3>2 DEF EventKnown
  <2>3. QED
    BY <2>1, <2>2
<1>3. CASE StartMonitor
  BY <1>3 DEF StartMonitor
<1>4. CASE ReadStart
  <2>1. /\ UNCHANGED <<events, first, next, rec, mpc, cores, starts, log>>
        /\ pc = "idle" /\ pc' = "stamped"
    BY <1>4 DEF ReadStart
  <2>2. ASSUME NEW k \in 1 .. Len(events) PROVE EventKnown(events[k])'
    <3>1. events[k].record \in 1 .. Len(log)
      <4> HIDE DEF Typed, LockHeld, RecordInHand, EventsKnown, EventKnown, ReportedOnceInOrder
      <4>1. QED
        BY <2>2, EventInLog
    <3>2. log[events[k].record].during <= Len(starts)
      BY <2>1, <3>1 DEF TimeOrder, Ordered
    <3>3. QED
      BY <2>1, <2>2, <3>2 DEF EventKnown
  <2>3. QED
    BY <2>1, <2>2
<1>5. CASE AppendStart
  BY <1>5, StartsGrow
<1>6. CASE AppendCore
  BY <1>6, CoresGrow
<1>7. CASE EndRun
  BY <1>7 DEF EndRun
<1>8. CASE LeaveCycles
  BY <1>8 DEF LeaveCycles
<1>9. CASE Abort
  BY <1>9 DEF Abort
<1>10. CASE CloseMonitor
  BY <1>10 DEF CloseMonitor
<1>11. CASE Join
  BY <1>11 DEF Join
<1>12. CASE Summarize
  BY <1>12 DEF Summarize
<1>13. CASE CheckRunning
  BY <1>13 DEF CheckRunning, Thread
<1>14. CASE Select
  BY <1>14 DEF Select, Thread
<1>15. CASE ReadPending
  <2>1. UNCHANGED <<log, first, pc, starts, cores, events>> /\ mpc = "read"
    BY <1>15 DEF ReadPending, Thread
  <2>2. next' >= next /\ (mpc' \in {"stamp", "lock"} => rec' = next)
    <3>1. Oldest \in Nat
      BY BufferAssumption DEF Oldest
    <3>2. QED
      BY <1>15, <2>1, <3>1 DEF ReadPending
  <2>3. next' \in Nat
    <3>1. Oldest \in Nat
      BY BufferAssumption DEF Oldest
    <3>2. QED
      BY <1>15, <3>1 DEF ReadPending
  <2>4. QED
    BY <2>1, <2>2, <2>3 DEF EventKnown
<1>16. CASE TakeStamp
  BY <1>16 DEF TakeStamp, Thread
<1>17. CASE Acquire
  BY <1>17 DEF Acquire
<1>18. CASE Attribute
  <2>1. /\ mpc = "lock" /\ mpc' \in {"dead", "present"} /\ lock = "monitor"
        /\ UNCHANGED <<log, pc, starts, cores, first, next, rec>>
    BY <1>18, AttributeFrame
  <2>2. pc \notin {"setup", "stamped"}
    BY <2>1
  <2>3. PICK pos \in 0 .. Len(starts) :
          \/ UNCHANGED events
          \/ /\ pos <= Len(cores) /\ Len(events') = Len(events) + 1
             /\ \A k \in 1 .. Len(events) : events'[k] = events[k]
             /\ events'[Len(events) + 1].record = rec
             /\ events'[Len(events) + 1].pos = pos
    BY <1>18, EventsGrow
  <2>4. ASSUME NEW k \in 1 .. Len(events') PROVE EventKnown(events[k])'
    <3>1. CASE k \in 1 .. Len(events) /\ events'[k] = events[k]
      BY <2>1, <2>2, <3>1 DEF EventKnown
    <3>2. CASE k = Len(events) + 1 /\ events'[k].record = rec /\ events'[k].pos <= Len(cores)
      BY <2>1, <2>2, <3>2 DEF EventKnown
    <3>3. QED
      BY <2>3, <2>4, <3>1, <3>2
  <2>5. QED
    BY <2>1, <2>2, <2>4
<1>19. CASE Present
  BY <1>19 DEF Present, Thread
<1>20. QED
  BY <1>0, <1>1, <1>2, <1>3, <1>4, <1>5, <1>6, <1>7, <1>8, <1>9, <1>10, <1>11, <1>12, <1>13, <1>14, <1>15, <1>16, <1>17, <1>18, <1>19 DEF Next, MonitorStep, MainStep

(* No later run changes where an error belongs. *)
LEMMA AttributionStep ==
  TypeOK /\ Typed /\ LockHeld /\ TimeOrder /\ RecordInHand /\ EventsKnown /\ AttributionCorrect /\ [Next]_vars => AttributionCorrect'
<1> SUFFICES ASSUME TypeOK, Typed, LockHeld, TimeOrder, RecordInHand, EventsKnown, AttributionCorrect, [Next]_vars PROVE AttributionCorrect'
  OBVIOUS
<1>0. CASE UNCHANGED vars
  BY <1>0 DEF Typed, LockHeld, RecordInHand, EventsKnown, EventKnown, AttributionCorrect, Attributed, vars, session, timeline, reader
<1> USE DEF Typed, LockHeld, RecordInHand, EventsKnown, EventKnown, AttributionCorrect, Attributed, session, timeline, reader
<1>1. CASE Tick
  BY <1>1 DEF Tick
<1>2. CASE LogRecord
  <2>1. UNCHANGED <<events, first, next, rec, mpc, pc, cores, starts>>
    BY <1>2, LogGrows
  <2>2. ASSUME NEW k \in 1 .. Len(events) PROVE log'[events[k].record] = log[events[k].record]
    <3> HIDE DEF Typed, LockHeld, RecordInHand, EventsKnown, EventKnown, AttributionCorrect, Attributed
    <3>1. events[k].record \in 1 .. Len(log)
      BY <2>2, EventInLog
    <3>2. QED
      BY <1>2, <3>1, LogGrows
  <2>3. ASSUME NEW k \in 1 .. Len(events) PROVE Attributed(events[k])'
    <3>1. log'[events[k].record] = log[events[k].record]
      BY <2>2, <2>3
    <3>2. Attributed(events[k])
      BY <2>3
    <3>3. QED
      BY <2>1, <3>1, <3>2
  <2>4. QED
    BY <2>1, <2>3
<1>3. CASE StartMonitor
  BY <1>3 DEF StartMonitor
<1>4. CASE ReadStart
  BY <1>4 DEF ReadStart
<1>5. CASE AppendStart
  <2>1. UNCHANGED <<events, log, cores>> /\ pc = "stamped" /\ Len(starts') = Len(starts) + 1
    BY <1>5, StartsGrow
  <2>2. ASSUME NEW k \in 1 .. Len(events) PROVE Attributed(events[k])'
    <3>1. /\ events[k].pos \in Nat /\ events[k].pos <= Len(starts)
          /\ log[events[k].record].during \in Nat /\ log[events[k].record].during <= Len(starts)
      <4>1. EventKnown(events[k]) /\ events[k].record \in 1 .. Len(log)
        BY <2>2, EventInLog
      <4>2. QED
        BY <2>1, <2>2, <4>1
    <3>2. Attributed(events[k])
      BY <2>2
    <3>3. ASSUME NEW i \in 1 .. Len(starts'), log[events[k].record].timed
          PROVE  /\ i <= log[events[k].record].during /\ i > events[k].pos
                       => log[events[k].record].at - starts'[i] < Resolution
                 /\ i > log[events[k].record].during /\ i <= events[k].pos
                       => starts'[i] = log[events[k].record].at
      <4>1. CASE i \in 1 .. Len(starts)
        <5>1. starts'[i] = starts[i]
          BY <1>5, <4>1, StartsGrow
        <5>2. QED
          BY <3>2, <3>3, <4>1, <5>1
      <4>2. CASE i = Len(starts) + 1
        <5>1. Len(starts) \in Nat
          OBVIOUS
        <5> HIDE DEF Typed, LockHeld, RecordInHand, EventsKnown, EventKnown, AttributionCorrect, Attributed
        <5>2. ~(i <= log[events[k].record].during) /\ ~(i <= events[k].pos)
          BY <3>1, <4>2, <5>1
        <5>3. QED
          BY <5>2
      <4>3. QED
        BY <2>1, <3>3, <4>1, <4>2
    <3>4. QED
      BY <2>1, <3>2, <3>3
  <2>3. QED
    BY <2>1, <2>2
<1>6. CASE AppendCore
  <2>1. UNCHANGED <<events, log, starts>>
    BY <1>6, CoresGrow
  <2>2. ASSUME NEW k \in 1 .. Len(events) PROVE events[k].pos = 0 \/ cores'[events[k].pos] = cores[events[k].pos]
    <3>1. events[k].pos \in Nat /\ events[k].pos <= Len(cores)
      BY <2>2
    <3>2. Len(cores) \in Nat
      OBVIOUS
    <3> HIDE DEF Typed, LockHeld, RecordInHand, EventsKnown, EventKnown, AttributionCorrect, Attributed
    <3>3. \A i \in 1 .. Len(cores) : cores'[i] = cores[i]
      BY <1>6, CoresGrow
    <3>4. QED
      BY <3>1, <3>2, <3>3
  <2>3. QED
    BY <2>1, <2>2
<1>7. CASE EndRun
  BY <1>7 DEF EndRun
<1>8. CASE LeaveCycles
  BY <1>8 DEF LeaveCycles
<1>9. CASE Abort
  BY <1>9 DEF Abort
<1>10. CASE CloseMonitor
  BY <1>10 DEF CloseMonitor
<1>11. CASE Join
  BY <1>11 DEF Join
<1>12. CASE Summarize
  BY <1>12 DEF Summarize
<1>13. CASE CheckRunning
  BY <1>13 DEF CheckRunning, Thread
<1>14. CASE Select
  BY <1>14 DEF Select, Thread
<1>15. CASE ReadPending
  BY <1>15 DEF ReadPending, Thread
<1>16. CASE TakeStamp
  BY <1>16 DEF TakeStamp, Thread
<1>17. CASE Acquire
  BY <1>17 DEF Acquire
<1>18. CASE Attribute
  <2>1. /\ mpc = "lock" /\ lock = "monitor" /\ UNCHANGED <<log, pc, starts, cores, first, next, rec>>
        /\ rec \in 1 .. Len(log)
    BY <1>18, AttributeFrame
  <2>2. PICK pos \in 0 .. Len(starts) :
          /\ IsBisectRight(starts, stamp, pos)
          /\ \/ UNCHANGED events
             \/ /\ Len(events') = Len(events) + 1 /\ pos <= Len(cores)
                /\ \A k \in 1 .. Len(events) : events'[k] = events[k]
                /\ events'[Len(events) + 1].record = rec
                /\ events'[Len(events) + 1].pos = pos
                /\ events'[Len(events) + 1].tested = IF pos = 0 THEN NoCore ELSE cores[pos]
    BY <1>18, EventsGrow
  <2>3. /\ \A i \in 1 .. pos : starts[i] <= stamp
        /\ \A i \in pos + 1 .. Len(starts) : starts[i] > stamp
    BY <2>2 DEF IsBisectRight
  <2>4. Ordered(rec)
    BY <2>1 DEF TimeOrder
  <2>5. ASSUME NEW i \in 1 .. Len(starts), log[rec].timed
        PROVE  /\ i <= log[rec].during /\ i > pos => log[rec].at - starts[i] < Resolution
               /\ i > log[rec].during /\ i <= pos => starts[i] = log[rec].at
    <3>1. /\ stamp <= log[rec].at /\ log[rec].at - stamp < Resolution /\ log[rec].at \in Nat
          /\ starts[i] \in Nat /\ log[rec].during \in Nat
      BY <2>1, <2>5
    <3>2. CASE i > pos
      <4>1. starts[i] > stamp
        <5> HIDE DEF Typed, LockHeld, RecordInHand, EventsKnown, EventKnown, AttributionCorrect, Attributed
        <5>1. QED
          BY <2>2, <2>3, <3>1, <3>2
      <4>2. i <= log[rec].during => starts[i] <= log[rec].at
        BY <2>4 DEF Ordered
      <4>3. stamp \in Nat
        OBVIOUS
      <4> HIDE DEF Typed, LockHeld, RecordInHand, EventsKnown, EventKnown, AttributionCorrect, Attributed
      <4>4. QED
        BY <3>1, <3>2, <4>1, <4>2, <4>3, ResolutionAssumption
    <3>3. CASE i <= pos
      <4>1. starts[i] <= stamp
        BY <2>3, <3>3
      <4>2. i > log[rec].during => log[rec].at <= starts[i]
        BY <2>4 DEF Ordered
      <4>3. QED
        BY <3>1, <3>3, <4>1, <4>2
    <3>4. QED
      BY <3>2, <3>3
  <2>6. ASSUME NEW k \in 1 .. Len(events') PROVE Attributed(events[k])'
    <3>1. CASE k \in 1 .. Len(events) /\ events'[k] = events[k]
      BY <2>1, <3>1
    <3>2. CASE /\ events'[k].record = rec /\ events'[k].pos = pos
               /\ events'[k].tested = IF pos = 0 THEN NoCore ELSE cores[pos]
      BY <2>1, <2>5, <3>2
    <3> HIDE DEF Typed, LockHeld, RecordInHand, EventsKnown, EventKnown, AttributionCorrect, Attributed
    <3>3. CASE UNCHANGED events
      BY <2>6, <3>1, <3>3
    <3>4. CASE ~UNCHANGED events
      <4>1. Len(events) \in Nat
        BY DEF Typed
      <4>2. k \in 1 .. Len(events) \/ k = Len(events) + 1
        BY <2>2, <2>6, <3>4, <4>1
      <4>3. QED
        BY <2>2, <3>1, <3>2, <3>4, <4>2
    <3>5. QED
      BY <3>3, <3>4
  <2>7. QED
    BY <2>6
<1>19. CASE Present
  BY <1>19 DEF Present, Thread
<1>20. QED
  BY <1>0, <1>1, <1>2, <1>3, <1>4, <1>5, <1>6, <1>7, <1>8, <1>9, <1>10, <1>11, <1>12, <1>13, <1>14, <1>15, <1>16, <1>17, <1>18, <1>19 DEF Next, MonitorStep, MainStep

(* An error without timestamp is not blamed on an earlier run. *)
LEMMA UntimedStep ==
  TypeOK /\ Typed /\ LockHeld /\ TimeOrder /\ RecordInHand /\ EventsKnown /\ UntimedNotEarlier /\ [Next]_vars => UntimedNotEarlier'
<1> SUFFICES ASSUME TypeOK, Typed, LockHeld, TimeOrder, RecordInHand, EventsKnown, UntimedNotEarlier, [Next]_vars PROVE UntimedNotEarlier'
  OBVIOUS
<1>0. CASE UNCHANGED vars
  BY <1>0 DEF Typed, LockHeld, RecordInHand, EventsKnown, EventKnown, UntimedNotEarlier, vars, session, timeline, reader
<1> USE DEF Typed, LockHeld, RecordInHand, EventsKnown, EventKnown, UntimedNotEarlier, session, timeline, reader
<1>1. CASE Tick
  BY <1>1 DEF Tick
<1>2. CASE LogRecord
  <2>1. UNCHANGED <<events, first, next, rec, mpc, pc, cores, starts>>
    BY <1>2, LogGrows
  <2>2. ASSUME NEW k \in 1 .. Len(events) PROVE log'[events[k].record] = log[events[k].record]
    <3>1. events[k].record \in 1 .. Len(log)
      <4> HIDE DEF Typed, LockHeld, RecordInHand, EventsKnown, EventKnown, ReportedOnceInOrder
      <4>1. QED
        BY <2>2, EventInLog
    <3>2. QED
      BY <1>2, <3>1, LogGrows
  <2>3. QED
    BY <2>1, <2>2
<1>3. CASE StartMonitor
  BY <1>3 DEF StartMonitor
<1>4. CASE ReadStart
  BY <1>4 DEF ReadStart
<1>5. CASE AppendStart
  BY <1>5, StartsGrow
<1>6. CASE AppendCore
  BY <1>6, CoresGrow
<1>7. CASE EndRun
  BY <1>7 DEF EndRun
<1>8. CASE LeaveCycles
  BY <1>8 DEF LeaveCycles
<1>9. CASE Abort
  BY <1>9 DEF Abort
<1>10. CASE CloseMonitor
  BY <1>10 DEF CloseMonitor
<1>11. CASE Join
  BY <1>11 DEF Join
<1>12. CASE Summarize
  BY <1>12 DEF Summarize
<1>13. CASE CheckRunning
  BY <1>13 DEF CheckRunning, Thread
<1>14. CASE Select
  BY <1>14 DEF Select, Thread
<1>15. CASE ReadPending
  BY <1>15 DEF ReadPending, Thread
<1>16. CASE TakeStamp
  BY <1>16 DEF TakeStamp, Thread
<1>17. CASE Acquire
  BY <1>17 DEF Acquire
<1>18. CASE Attribute
  <2>1. /\ mpc = "lock" /\ lock = "monitor" /\ UNCHANGED <<log, pc, starts, cores, first, next, rec>>
        /\ rec \in 1 .. Len(log)
    BY <1>18, AttributeFrame
  <2>2. PICK pos \in 0 .. Len(starts) :
          /\ IsBisectRight(starts, stamp, pos)
          /\ \/ UNCHANGED events
             \/ /\ Len(events') = Len(events) + 1 /\ pos <= Len(cores)
                /\ \A k \in 1 .. Len(events) : events'[k] = events[k]
                /\ events'[Len(events) + 1].record = rec
                /\ events'[Len(events) + 1].pos = pos
                /\ events'[Len(events) + 1].tested = IF pos = 0 THEN NoCore ELSE cores[pos]
    BY <1>18, EventsGrow
  <2>3. /\ \A i \in 1 .. pos : starts[i] <= stamp
        /\ \A i \in pos + 1 .. Len(starts) : starts[i] > stamp
    BY <2>2 DEF IsBisectRight
  <2>4. Ordered(rec)
    BY <2>1 DEF TimeOrder
  <2>5. ~log[rec].timed /\ log[rec].during <= Len(starts) => pos >= log[rec].during
    <3>1. SUFFICES ASSUME ~log[rec].timed, log[rec].during <= Len(starts), pos < log[rec].during
                   PROVE  FALSE
      BY <2>1
    <3>2. log[rec].during \in pos + 1 .. Len(starts) /\ log[rec].during \in 1 .. Len(starts)
      BY <2>1, <3>1
    <3>3. log[rec].at <= stamp /\ log[rec].at \in Nat /\ starts[log[rec].during] \in Nat
      BY <2>1, <3>1, <3>2
    <3>4. starts[log[rec].during] <= log[rec].at
      <4>1. ASSUME NEW i \in 1 .. Len(starts), i = log[rec].during PROVE starts[i] <= log[rec].at
        <5>1. \A j \in 1 .. Len(starts) : j <= log[rec].during => starts[j] <= log[rec].at
          BY <2>4 DEF Ordered
        <5>2. i <= log[rec].during
          BY <4>1, <3>2
        <5>3. QED
          BY <5>1, <5>2, Zenon
      <4>2. QED
        BY <3>2, <4>1, Zenon
    <3>5. starts[log[rec].during] > stamp
      BY <2>3, <3>2
    <3>6. QED
      BY <3>3, <3>4, <3>5
  <2>6. ASSUME NEW k \in 1 .. Len(events'), ~log[events'[k].record].timed,
               log[events'[k].record].during <= Len(starts)
        PROVE  events'[k].pos >= log[events'[k].record].during
    <3>1. CASE k \in 1 .. Len(events) /\ events'[k] = events[k]
      BY <2>1, <2>6, <3>1
    <3>2. CASE events'[k].record = rec /\ events'[k].pos = pos
      BY <2>1, <2>5, <2>6, <3>2
    <3>3. CASE UNCHANGED events
      BY <2>6, <3>3
    <3>4. CASE /\ Len(events') = Len(events) + 1
               /\ \A j \in 1 .. Len(events) : events'[j] = events[j]
               /\ events'[Len(events) + 1].record = rec
               /\ events'[Len(events) + 1].pos = pos
      <4>1. k \in 1 .. Len(events) \/ k = Len(events) + 1
        BY <2>6, <3>4
      <4>2. QED
        BY <3>1, <3>2, <3>4, <4>1
    <3>5. QED
      BY <2>2, <3>3, <3>4
  <2>7. QED
    BY <2>1, <2>6
<1>19. CASE Present
  BY <1>19 DEF Present, Thread
<1>20. QED
  BY <1>0, <1>1, <1>2, <1>3, <1>4, <1>5, <1>6, <1>7, <1>8, <1>9, <1>10, <1>11, <1>12, <1>13, <1>14, <1>15, <1>16, <1>17, <1>18, <1>19 DEF Next, MonitorStep, MainStep

(* Each error is reported once and in the order of the log. *)
LEMMA OrderStep ==
  TypeOK /\ Typed /\ LockHeld /\ RecordInHand /\ EventsKnown /\ ReportedOnceInOrder /\ [Next]_vars => ReportedOnceInOrder'
<1> SUFFICES ASSUME TypeOK, Typed, LockHeld, RecordInHand, EventsKnown, ReportedOnceInOrder, [Next]_vars PROVE ReportedOnceInOrder'
  OBVIOUS
<1>0. CASE UNCHANGED vars
  BY <1>0 DEF Typed, LockHeld, RecordInHand, EventsKnown, EventKnown, ReportedOnceInOrder, vars, session, timeline, reader
<1> USE DEF Typed, LockHeld, RecordInHand, EventsKnown, EventKnown, ReportedOnceInOrder, session, timeline, reader
<1>1. CASE Tick
  BY <1>1 DEF Tick
<1>2. CASE LogRecord
  <2>1. UNCHANGED <<events, first, next, rec, mpc, pc, cores, starts>>
    BY <1>2, LogGrows
  <2>2. ASSUME NEW k \in 1 .. Len(events) PROVE log'[events[k].record] = log[events[k].record]
    <3>1. events[k].record \in 1 .. Len(log)
      <4> HIDE DEF Typed, LockHeld, RecordInHand, EventsKnown, EventKnown, ReportedOnceInOrder
      <4>1. QED
        BY <2>2, EventInLog
    <3>2. QED
      BY <1>2, <3>1, LogGrows
  <2>3. QED
    BY <2>1, <2>2
<1>3. CASE StartMonitor
  BY <1>3 DEF StartMonitor
<1>4. CASE ReadStart
  BY <1>4 DEF ReadStart
<1>5. CASE AppendStart
  BY <1>5, StartsGrow
<1>6. CASE AppendCore
  BY <1>6, CoresGrow
<1>7. CASE EndRun
  BY <1>7 DEF EndRun
<1>8. CASE LeaveCycles
  BY <1>8 DEF LeaveCycles
<1>9. CASE Abort
  BY <1>9 DEF Abort
<1>10. CASE CloseMonitor
  BY <1>10 DEF CloseMonitor
<1>11. CASE Join
  BY <1>11 DEF Join
<1>12. CASE Summarize
  BY <1>12 DEF Summarize
<1>13. CASE CheckRunning
  BY <1>13 DEF CheckRunning, Thread
<1>14. CASE Select
  BY <1>14 DEF Select, Thread
<1>15. CASE ReadPending
  BY <1>15 DEF ReadPending, Thread
<1>16. CASE TakeStamp
  BY <1>16 DEF TakeStamp, Thread
<1>17. CASE Acquire
  BY <1>17 DEF Acquire
<1>18. CASE Attribute
  <2>1. /\ mpc = "lock" /\ UNCHANGED <<log, first, next, rec>>
        /\ rec \in first .. Len(log) /\ log[rec].hw
    BY <1>18, AttributeFrame
  <2>2. CASE UNCHANGED events
    BY <2>1, <2>2
  <2>3. CASE /\ Len(events') = Len(events) + 1
             /\ \A k \in 1 .. Len(events) : events'[k] = events[k]
             /\ events'[Len(events) + 1].record = rec
    <3>1. \A k \in 1 .. Len(events) : events[k].record < rec
      BY <2>1
    <3>2. ASSUME NEW k \in 1 .. Len(events')
          PROVE  /\ log[events'[k].record].hw /\ events'[k].record >= first
                 /\ k > 1 => events'[k - 1].record < events'[k].record
      <4>1. CASE k \in 1 .. Len(events)
        <5>1. events'[k] = events[k] /\ (k > 1 => events'[k - 1] = events[k - 1])
          BY <2>3, <4>1
        <5>2. QED
          BY <4>1, <5>1
      <4>2. CASE k = Len(events) + 1
        <5>1. events'[k].record = rec
          BY <2>3, <4>2
        <5>2. k > 1 => events'[k - 1] = events[k - 1] /\ events[k - 1].record < rec
          BY <2>3, <3>1, <4>2
        <5>3. QED
          BY <2>1, <5>1, <5>2
      <4>3. QED
        BY <2>3, <3>2, <4>1, <4>2
    <3>3. QED
      BY <2>1, <3>2
  <2>4. QED
    BY <1>18, <2>2, <2>3, EventsGrow
<1>19. CASE Present
  BY <1>19 DEF Present, Thread
<1>20. QED
  BY <1>0, <1>1, <1>2, <1>3, <1>4, <1>5, <1>6, <1>7, <1>8, <1>9, <1>10, <1>11, <1>12, <1>13, <1>14, <1>15, <1>16, <1>17, <1>18, <1>19 DEF Next, MonitorStep, MainStep

(* Nothing is reported after the summary. *)
LEMMA FinishedStep ==
  TypeOK /\ Typed /\ LockHeld /\ Finished /\ [Next]_vars => Finished'
<1> SUFFICES ASSUME TypeOK, Typed, LockHeld, Finished, [Next]_vars PROVE Finished'
  OBVIOUS
<1>0. CASE UNCHANGED vars
  BY <1>0 DEF Typed, LockHeld, Finished, SummaryIsFinal, MonitorSteps, vars, session, timeline, reader
<1> USE DEF Typed, LockHeld, Finished, SummaryIsFinal, MonitorSteps, session, timeline, reader
<1>1. CASE Tick
  BY <1>1 DEF Tick
<1>2. CASE LogRecord
  BY <1>2, LogGrows DEF InProgress
<1>3. CASE StartMonitor
  BY <1>3 DEF StartMonitor
<1>4. CASE ReadStart
  BY <1>4 DEF ReadStart
<1>5. CASE AppendStart
  BY <1>5, StartsGrow
<1>6. CASE AppendCore
  BY <1>6, CoresGrow
<1>7. CASE EndRun
  BY <1>7 DEF EndRun
<1>8. CASE LeaveCycles
  BY <1>8 DEF LeaveCycles
<1>9. CASE Abort
  BY <1>9 DEF Abort
<1>10. CASE CloseMonitor
  BY <1>10 DEF CloseMonitor
<1>11. CASE Join
  BY <1>11 DEF Join
<1>12. CASE Summarize
  BY <1>12 DEF Summarize
<1>13. CASE CheckRunning
  BY <1>13 DEF CheckRunning, Thread
<1>14. CASE Select
  BY <1>14 DEF Select, Thread
<1>15. CASE ReadPending
  BY <1>15 DEF ReadPending, Thread
<1>16. CASE TakeStamp
  BY <1>16 DEF TakeStamp, Thread
<1>17. CASE Acquire
  BY <1>17 DEF Acquire
<1>18. CASE Attribute
  BY <1>18, AttributeFrame
<1>19. CASE Present
  BY <1>19 DEF Present, Thread
<1>20. QED
  BY <1>0, <1>1, <1>2, <1>3, <1>4, <1>5, <1>6, <1>7, <1>8, <1>9, <1>10, <1>11, <1>12, <1>13, <1>14, <1>15, <1>16, <1>17, <1>18, <1>19 DEF Next, MonitorStep, MainStep

LEMMA IInvStep == IInv /\ [Next]_vars => IInv'
  BY TypedFacts, LockStep, TypeStep, TimeStep, RecordStep, EventsStep, AttributionStep, UntimedStep,
     OrderStep, FinishedStep DEF IInv

LEMMA Invariance == Spec => []IInv
<1>1. Init => IInv
  BY InitIInv
<1>2. IInv /\ [Next]_vars => IInv'
  BY IInvStep
<1>3. QED
  BY <1>1, <1>2, PTL DEF Spec

-----------------------------------------------------------------------------
(* The state of both threads keeps its types for every bound. *)
THEOREM TypeCorrect == Spec => []TypeOK
<1>1. IInv => TypeOK
  BY DEF IInv
<1>2. QED
  BY <1>1, Invariance, PTL

(* However the threads interleave, an error is attributed to the core that was
   tested when it was logged, up to the resolution of its timestamp. *)
THEOREM Attribution == Spec => []AttributionCorrect
<1>1. IInv => AttributionCorrect
  BY DEF IInv
<1>2. QED
  BY <1>1, Invariance, PTL

(* An error without timestamp is never attributed to an earlier run. *)
THEOREM UntimedAttribution == Spec => []UntimedNotEarlier
<1>1. IInv => UntimedNotEarlier
  BY DEF IInv
<1>2. QED
  BY <1>1, Invariance, PTL

(* Errors are reported once, in order, and none from before the session. *)
THEOREM ReportedInOrder == Spec => []ReportedOnceInOrder
<1>1. IInv => ReportedOnceInOrder
  BY DEF IInv
<1>2. QED
  BY <1>1, Invariance, PTL

(* The summary misses no recorded event, unless a second signal cut the join of
   the monitor thread. *)
THEOREM SummaryComplete == Spec => []SummaryIsFinal
<1>1. IInv => SummaryIsFinal
  BY DEF IInv, Finished
<1>2. QED
  BY <1>1, Invariance, PTL

-----------------------------------------------------------------------------
(* No error that was read is dropped.  The thread that raises IndexError has
   found a start without its core, and nothing starts a run after that. *)

Recorded(i) ==
    \/ ~log[i].hw
    \/ \E k \in 1 .. Len(events) : events[k].record = i
    \/ mpc \in {"stamp", "lock"} /\ i = rec
    \/ i < Oldest
    \/ Broken /\ mpc = "dead" /\ i = rec

LEMMA BrokenStays ==
  ASSUME TypeOK, LockHeld, Broken, [Next]_vars
  PROVE  Broken'
<1>1. pc \in {"closing", "join", "summary", "done"}
  BY TypedFacts DEF Broken, LockHeld, Typed, MainSteps
<1>2. UNCHANGED <<cores, starts>> /\ pc' # "half"
  BY <1>1 DEF Next, MainStep, MonitorStep, Tick, LogRecord, StartMonitor, ReadStart, AppendStart, AppendCore,
     EndRun, LeaveCycles, Abort, CloseMonitor, Join, Summarize, CheckRunning, Select, ReadPending, TakeStamp,
     Acquire, Attribute, Present, Thread, session, timeline, vars
<1>3. QED
  BY <1>2 DEF Broken

(* What a step keeps of the record i. *)
LEMMA RecordedKept ==
  ASSUME NEW i \in Nat, Recorded(i),
         log'[i].hw = log[i].hw, Oldest' >= Oldest, Broken => Broken',
         mpc = "dead" => mpc' = "dead" /\ rec' = rec,
         \A k \in 1 .. Len(events) : events'[k] = events[k],
         Len(events) \in Nat, Len(events') \in Nat, Len(events') >= Len(events), Oldest \in Nat, Oldest' \in Nat,
         mpc \in {"stamp", "lock"} /\ i = rec =>
           \/ mpc' \in {"stamp", "lock"} /\ rec' = rec
           \/ \E k \in 1 .. Len(events') : events'[k].record = i
           \/ Broken' /\ mpc' = "dead" /\ rec' = rec
  PROVE  Recorded(i)'
  BY DEF Recorded

LEMMA DropStep ==
  ASSUME IInv, ReadIsRecorded, [Next]_vars
  PROVE  ReadIsRecorded'
<1>1. Typed /\ first <= next /\ next <= Len(log) + 1 /\ TypeOK
  BY TypedFacts DEF IInv, RecordInHand
<1>2. \A i \in first .. next - 1 : i \in Nat /\ i \in 1 .. Len(log) /\ Recorded(i)
  BY <1>1 DEF ReadIsRecorded, Recorded, Typed
<1>3. Oldest \in Nat
  BY <1>1, BufferAssumption DEF Oldest, Typed
<1>4. Len(events) \in Nat
  BY <1>1 DEF Typed
<1>5. SUFFICES ASSUME NEW i \in first' .. next' - 1 PROVE Recorded(i)'
  BY DEF ReadIsRecorded, Recorded
<1>6. Broken => Broken'
  BY <1>1, BrokenStays DEF IInv
<1>7. CASE LogRecord
  <2>1. /\ Len(log') = Len(log) + 1 /\ UNCHANGED <<first, next, events, mpc, rec>>
        /\ \A r \in 1 .. Len(log) : log'[r] = log[r]
    BY <1>1, <1>7, LogGrows DEF session, reader
  <2>2. Oldest' \in Nat /\ Oldest' >= Oldest
    BY <1>1, <2>1, BufferAssumption DEF Oldest, Typed
  <2>3. i \in 1 .. Len(log) /\ Recorded(i)
    BY <1>2, <2>1
  <2>4. QED
    BY <1>3, <1>4, <2>1, <2>2, <2>3, <1>6, RecordedKept
<1>8. CASE ReadPending
  <2>1. UNCHANGED <<first, log, events>> /\ mpc = "read"
    BY <1>8 DEF ReadPending, Thread, session
  <2>2. Oldest' = Oldest
    BY <2>1 DEF Oldest
  <2>3. CASE i \in first .. next - 1
    BY <1>2, <1>3, <1>4, <2>1, <2>2, <2>3, <1>6, RecordedKept
  <2>4. CASE i >= next
    <3>1. CASE next' = Oldest
      BY <1>1, <1>3, <2>2, <3>1 DEF Recorded, Typed
    <3>2. CASE /\ next' = next + 1 /\ rec' = next
               /\ mpc' = IF log[next].hw THEN "stamp" ELSE "read"
      <4>1. i = next
        BY <1>1, <2>4, <3>2 DEF Typed
      <4>2. QED
        BY <2>1, <3>2, <4>1 DEF Recorded
    <3>3. CASE next' = next
      BY <1>1, <2>1, <2>4, <3>3 DEF Typed
    <3>4. QED
      BY <1>8, <3>1, <3>2, <3>3 DEF ReadPending
  <2>5. QED
    BY <1>1, <2>1, <2>3, <2>4 DEF Typed
<1>9. CASE Attribute
  <2>1. /\ mpc = "lock" /\ lock = "monitor" /\ UNCHANGED <<first, next, rec, log, cores, starts, pc>>
        /\ \/ mpc' = "dead" /\ UNCHANGED events
           \/ /\ Len(events') = Len(events) + 1 /\ events'[Len(events) + 1].record = rec
              /\ \A k \in 1 .. Len(events) : events'[k] = events[k]
    BY <1>9, EventsGrow DEF IInv, session, Attribute, Thread, timeline
  <2>2. Oldest' = Oldest
    BY <2>1 DEF Oldest
  <2>3. Recorded(i)
    BY <1>2, <2>1
  <2>4. CASE mpc' = "dead" /\ UNCHANGED events
    <3>1. Len(cores) # Len(starts)
      <4>1. PICK pos \in 0 .. Len(starts) : pos > Len(cores) \/ mpc' = "present"
        BY <1>9 DEF Attribute
      <4>2. QED
        BY <1>1, <2>4, <4>1 DEF Typed
    <3>2. pc # "half"
      BY <2>1 DEF IInv, LockHeld
    <3>3. Broken'
      BY <2>1, <3>1, <3>2 DEF Broken
    <3>4. QED
      BY <1>3, <1>4, <2>1, <2>2, <2>3, <2>4, <3>3 DEF Recorded
  <2>5. CASE /\ Len(events') = Len(events) + 1 /\ events'[Len(events) + 1].record = rec
             /\ \A k \in 1 .. Len(events) : events'[k] = events[k]
    <3>1. Len(events) + 1 \in 1 .. Len(events')
      BY <1>4, <2>5
    <3>2. i \in Nat /\ Len(events') \in Nat /\ Len(events') >= Len(events)
      BY <1>2, <1>4, <2>1, <2>5
    <3>3. QED
      BY <1>3, <1>4, <2>1, <2>2, <2>3, <2>5, <3>1, <3>2, <1>6, RecordedKept
  <2>6. QED
    BY <2>1, <2>4, <2>5
<1>10. CASE StartMonitor
  <2>1. first' = next' \/ UNCHANGED <<first, next>>
    BY <1>10 DEF StartMonitor
  <2>2. CASE first' = next'
    <3>1. next' \in Nat
      BY <1>10, <1>1 DEF StartMonitor, Typed
    <3>2. \A n \in Nat : n .. n - 1 = {}
      OBVIOUS
    <3>3. first' .. next' - 1 = {}
      BY <2>2, <3>1, <3>2
    <3>4. QED
      BY <1>5, <3>3
  <2>3. CASE UNCHANGED <<first, next>>
    <3>1. UNCHANGED <<log, events, rec>> /\ mpc = "off"
      BY <1>10 DEF StartMonitor, IInv, LockHeld
    <3>2. Oldest' = Oldest
      BY <3>1 DEF Oldest
    <3>3. i \in Nat /\ Recorded(i)
      BY <1>2, <2>3
    <3>4. QED
      BY <1>3, <1>4, <3>1, <3>2, <3>3, <1>6, RecordedKept
  <2>4. QED
    BY <2>1, <2>2, <2>3
<1>11. CASE \/ Tick \/ CheckRunning \/ Select \/ TakeStamp \/ Acquire \/ Present \/ UNCHANGED vars
            \/ ReadStart \/ AppendStart \/ AppendCore \/ EndRun \/ LeaveCycles \/ Abort \/ CloseMonitor
            \/ Join \/ Summarize
  <2>1. /\ UNCHANGED <<first, next, log, events, rec>> /\ (mpc = "dead" => mpc' = "dead")
        /\ mpc \in {"stamp", "lock"} => mpc' \in {"stamp", "lock"}
    <3>1. CASE \/ CheckRunning \/ Select \/ TakeStamp \/ Acquire \/ Present
      BY <3>1 DEF CheckRunning, Select, TakeStamp, Acquire, Present, Thread, session, reader
    <3>2. CASE \/ Tick \/ UNCHANGED vars \/ ReadStart \/ AppendStart \/ AppendCore \/ EndRun \/ LeaveCycles
               \/ Abort \/ CloseMonitor \/ Join \/ Summarize
      BY <3>2 DEF Tick, vars, ReadStart, AppendStart, AppendCore, EndRun, LeaveCycles, Abort, CloseMonitor,
         Join, Summarize, session, reader
    <3>3. QED
      BY <1>11, <3>1, <3>2
  <2>2. Oldest' = Oldest
    BY <2>1 DEF Oldest
  <2>3. i \in Nat /\ Recorded(i)
    BY <1>2, <2>1
  <2>4. QED
    BY <1>3, <1>4, <2>1, <2>2, <2>3, <1>6, RecordedKept
<1>12. QED
  BY <1>7, <1>8, <1>9, <1>10, <1>11 DEF Next, MainStep, MonitorStep

(* Every hardware error the monitor has read is recorded or in its hands, unless
   the ring buffer overwrote it; a second signal that cuts the start of a run
   between its appends loses the one record the thread has in hand. *)
THEOREM NothingDropped == Spec => []ReadIsRecorded
<1>1. Init => ReadIsRecorded
  BY DEF Init, ReadIsRecorded
<1>2. IInv /\ ReadIsRecorded /\ [Next]_vars => ReadIsRecorded'
  BY DropStep
<1>3. QED
  BY <1>1, <1>2, Invariance, PTL DEF Spec
=============================================================================
