-------------------------- MODULE SmuReaderProofs --------------------------
(***************************************************************************)
(* Proofs about SmuReader for every set of threads, number of slots,       *)
(* interval and bounds.  The type invariant holds the mutual exclusion of  *)
(* the locked part.  The invariant adds how the times of a call, of the    *)
(* cached snapshot and of the clock are ordered (Times), when the last     *)
(* snapshot was stored (Spaced), which slots were asked for (AskedOnce,    *)
(* Complete), and what a version that is not known means (Resolving).      *)
(***************************************************************************)
EXTENDS SmuReader, TLAPS

Transferring == {"transfer", "offsets", "slots", "store"}

Times ==
    /\ cachedAt <= clock
    /\ cached # NoSnapshot => cached.at >= cachedAt
    /\ \A t \in Threads :
         /\ began[t] <= clock
         /\ pc[t] \in Locked => began[t] <= now[t] /\ cachedAt <= now[t] /\ now[t] <= clock /\ now[t] >= 1
         /\ pc[t] \in {"offsets", "slots", "store"} => now[t] <= read[t]

LastStored == stored[Len(stored)]

Spaced ==
    /\ \A i \in 1 .. Len(stored) - 1 : stored[i + 1] - stored[i] >= MinInterval
    /\ Len(stored) > 0 =>
         /\ IF cached # NoSnapshot THEN LastStored = cachedAt ELSE LastStored + MinInterval <= cachedAt
         /\ \A t \in Threads : pc[t] \in Transferring => LastStored + MinInterval <= now[t]

AskedOnce ==
    /\ \A s \in 1 .. Slots : asked[s] = IF s \in offsets THEN 1 ELSE 0
    /\ \A t \in Threads :
         /\ pc[t] = "slots" => offsets = 1 .. slot[t] - 1
         /\ pc[t] = "store" => offsets # NoOffsets
         /\ pc[t] \notin {"slots", "store"} => slot[t] = 1

(* The offsets are those of all slots, once the attempt to read them is over. *)
AllTold ==
    /\ offsets \in {NoOffsets, 1 .. Slots} \/ \E t \in Threads : pc[t] = "slots"
    /\ \A t \in Threads : pc[t] = "store" => offsets = 1 .. Slots
    /\ cached # NoSnapshot => cached.offsets = 1 .. Slots
    /\ \A t \in Threads : got[t] # NoSnapshot => got[t].offsets = 1 .. Slots

Complete == CutIn({"slots"}) \/ AllTold

Resolving ==
    /\ \A t \in Threads : pc[t] \in {"fetch", "answer"} => resolved
    /\ resolved /\ driver = "supported" =>
         HasLayout \/ (\E u \in Threads : pc[u] = "fetch") \/ CutIn({"fetch"})

IInv == TypeOK /\ Times /\ SnapshotIsFresh /\ Spaced /\ AskedOnce /\ Complete /\ Resolving

-----------------------------------------------------------------------------
(* Type correctness and mutual exclusion *)

LEMMA InitType == Init => TypeOK
<1> SUFFICES ASSUME Init PROVE TypeOK
  OBVIOUS
<1> USE SizeAssumption, NobodyAssumption DEF Init, Steps, Locked
<1>1. cached \in Snapshots /\ got \in [Threads -> Snapshots]
  BY DEF Snapshots, NoSnapshot
<1>2. slot \in [Threads -> 1 .. Slots + 1]
  OBVIOUS
<1>3. pc \in [Threads -> Steps] /\ \A t \in Threads : pc[t] \in Locked <=> lock = t
  OBVIOUS
<1>4. /\ stored \in Seq(Nat) /\ cut \in Seq(Steps) /\ asked \in [1 .. Slots -> Nat]
      /\ began \in [Threads -> Nat] /\ now \in [Threads -> Nat] /\ read \in [Threads -> Nat]
      /\ goal \in [Threads -> {"available", "snapshot"}]
  OBVIOUS
<1>5. clock \in Nat \ {0} /\ driver \in Drivers /\ cachedAt \in Nat
  OBVIOUS
<1>6. resolved \in BOOLEAN /\ fd \in BOOLEAN
  BY Zenon
<1>7. /\ version \in {Unread, "supported", "unsupported"} /\ lock \in Threads \cup {NoThread}
      /\ offsets \in (SUBSET (1 .. Slots)) \cup {NoOffsets}
  BY Zenon
<1>8. QED
  BY <1>1, <1>2, <1>3, <1>4, <1>5, <1>6, <1>7 DEF TypeOK

(* What the types need of a step that only moves one thread. *)
LEMMA MoveType ==
  ASSUME TypeOK, NEW t \in Threads, NEW step \in Steps,
         pc' = [pc EXCEPT ![t] = step],
         step \in Locked <=> lock' = t,
         lock' = lock \/ (lock = NoThread /\ lock' = t) \/ (lock = t /\ lock' = NoThread),
         clock' = clock, driver' = driver,
         resolved' \in BOOLEAN, version' \in {Unread, "supported", "unsupported"},
         fd' \in BOOLEAN, offsets' \in (SUBSET (1 .. Slots)) \cup {NoOffsets},
         cached' \in Snapshots, cachedAt' \in Nat,
         goal' \in [Threads -> {"available", "snapshot"}],
         began' \in [Threads -> Nat], now' \in [Threads -> Nat], read' \in [Threads -> Nat],
         slot' \in [Threads -> 1 .. Slots + 1], got' \in [Threads -> Snapshots],
         stored' \in Seq(Nat), asked' \in [1 .. Slots -> Nat], cut' \in Seq(Steps)
  PROVE  TypeOK'
<1>1. pc \in [Threads -> Steps] /\ \A u \in Threads : pc[u] \in Locked <=> lock = u
  BY DEF TypeOK
<1>2. pc' \in [Threads -> Steps]
  BY <1>1
<1>3. ASSUME NEW u \in Threads PROVE pc'[u] \in Locked <=> lock' = u
  <2>1. CASE u = t
    BY <1>1, <2>1
  <2>2. CASE u # t
    <3>1. pc'[u] = pc[u]
      BY <1>1, <2>2
    <3>2. lock = u <=> lock' = u
      BY <2>2, NobodyAssumption
    <3>3. QED
      BY <1>1, <3>1, <3>2
  <2>3. QED
    BY <2>1, <2>2
<1>4. clock' \in Nat \ {0} /\ driver' \in Drivers
  BY DEF TypeOK
<1>5. lock' \in Threads \cup {NoThread}
  BY DEF TypeOK
<1>6. QED
  BY <1>2, <1>3, <1>4, <1>5 DEF TypeOK

LEMMA Types ==
  ASSUME TypeOK
  PROVE  /\ clock \in Nat \ {0} /\ driver \in Drivers
         /\ resolved \in BOOLEAN /\ version \in {Unread, "supported", "unsupported"}
         /\ lock \in Threads \cup {NoThread}
         /\ \A t \in Threads : pc[t] \in Locked <=> lock = t
         /\ fd \in BOOLEAN
         /\ offsets \in (SUBSET (1 .. Slots)) \cup {NoOffsets}
         /\ cached \in Snapshots /\ cachedAt \in Nat
         /\ pc \in [Threads -> Steps]
         /\ goal \in [Threads -> {"available", "snapshot"}]
         /\ began \in [Threads -> Nat] /\ now \in [Threads -> Nat] /\ read \in [Threads -> Nat]
         /\ slot \in [Threads -> 1 .. Slots + 1]
         /\ got \in [Threads -> Snapshots]
         /\ stored \in Seq(Nat) /\ asked \in [1 .. Slots -> Nat]
         /\ cut \in Seq(Steps)
         /\ Slots \in Nat \ {0} /\ MinInterval \in Nat \ {0} /\ NoSnapshot \in Snapshots
  BY SizeAssumption DEF TypeOK, NoSnapshot, Snapshots

(* A call that returns a snapshot, or none. *)
LEMMA ReturnTypes ==
  ASSUME TypeOK, NEW t \in Threads, NEW snapshot \in Snapshots, Return(t, snapshot)
  PROVE  /\ pc' = [pc EXCEPT ![t] = "idle"] /\ got' = [got EXCEPT ![t] = snapshot]
         /\ got' \in [Threads -> Snapshots] /\ goal' = goal /\ began' = began
         /\ now' \in [Threads -> Nat] /\ read' \in [Threads -> Nat] /\ slot' \in [Threads -> 1 .. Slots + 1]
         /\ goal' \in [Threads -> {"available", "snapshot"}] /\ began' \in [Threads -> Nat]
<1>1. 1 \in 1 .. Slots + 1
  BY SizeAssumption
<1>2. QED
  BY <1>1 DEF TypeOK, Return, Goto

LEMMA UnlockedStepType ==
  ASSUME TypeOK, NEW t \in Threads,
         Call(t) \/ CheckResolved(t) \/ MarkResolved(t) \/ FetchVersion(t) \/ Answer(t) \/ End(t)
  PROVE  TypeOK'
<1>0. lock # t
  BY DEF TypeOK, Call, CheckResolved, MarkResolved, FetchVersion, Answer, End, Locked
<1> USE DEF lookup, table, past, Goto
<1>1. UNCHANGED <<clock, driver, lock, fd, offsets, cached, cachedAt, stored, asked, cut>>
  BY DEF Call, CheckResolved, MarkResolved, FetchVersion, Answer, End
<1>2. CASE Call(t)
  <2>1. goal' \in [Threads -> {"available", "snapshot"}]
    BY <1>2, Types DEF Call
  <2>2. began' \in [Threads -> Nat] /\ got' \in [Threads -> Snapshots]
    BY <1>2, Types DEF Call
  <2>3. pc' = [pc EXCEPT ![t] = "flag"] /\ UNCHANGED <<resolved, version, now, read, slot>>
    BY <1>2 DEF Call
  <2>4. QED
    BY <1>0, <1>1, <2>1, <2>2, <2>3, Types, MoveType DEF Steps, Locked
<1>3. CASE CheckResolved(t)
  <2>1. PICK step \in {"answer", "mark"} : pc' = [pc EXCEPT ![t] = step]
    BY <1>3 DEF CheckResolved
  <2>2. UNCHANGED <<resolved, version, goal, began, now, read, slot, got>>
    BY <1>3 DEF CheckResolved
  <2>3. QED
    BY <1>0, <1>1, <2>1, <2>2, Types, MoveType DEF Steps, Locked
<1>4. CASE MarkResolved(t)
  <2>1. pc' = [pc EXCEPT ![t] = "fetch"] /\ resolved' = TRUE
    BY <1>4 DEF MarkResolved
  <2>2. UNCHANGED <<version, goal, began, now, read, slot, got>>
    BY <1>4 DEF MarkResolved
  <2>3. QED
    BY <1>0, <1>1, <2>1, <2>2, Types, MoveType DEF Steps, Locked
<1>5. CASE FetchVersion(t)
  <2>1. pc' = [pc EXCEPT ![t] = "answer"] /\ version' \in {Unread, "supported", "unsupported"}
    BY <1>5, Types, SizeAssumption DEF FetchVersion
  <2>2. UNCHANGED <<resolved, goal, began, now, read, slot, got>>
    BY <1>5 DEF FetchVersion
  <2>3. QED
    BY <1>0, <1>1, <2>1, <2>2, Types, MoveType DEF Steps, Locked
<1>6. CASE Answer(t)
  <2>1. UNCHANGED <<resolved, version>>
    BY <1>6 DEF Answer
  <2>2. CASE Return(t, NoSnapshot)
    BY <1>0, <1>1, <2>1, <2>2, Types, ReturnTypes, MoveType DEF Steps, Locked
  <2>3. CASE Goto(t, "enter") /\ UNCHANGED <<goal, began, now, read, slot, got>>
    BY <1>0, <1>1, <2>1, <2>3, Types, MoveType DEF Steps, Locked
  <2>4. QED
    BY <1>6, <2>2, <2>3 DEF Answer
<1>7. CASE End(t)
  <2>1. pc' = [pc EXCEPT ![t] = "over"] /\ UNCHANGED <<resolved, version, goal, began, now, read, slot, got>>
    BY <1>7 DEF End
  <2>2. QED
    BY <1>0, <1>1, <2>1, Types, MoveType DEF Steps, Locked
<1>8. QED
  BY <1>2, <1>3, <1>4, <1>5, <1>6, <1>7

LEMMA LockedStepType ==
  ASSUME TypeOK, AskedOnce, NEW t \in Threads,
         \/ Acquire(t) \/ CheckCache(t) \/ TransferFails(t) \/ Transfer(t) \/ BeginOffsets(t)
         \/ AskOffset(t) \/ Store(t)
  PROVE  TypeOK'
<1> USE DEF lookup, table, past, Goto, Release
<1>1. UNCHANGED <<clock, driver, resolved, version, cut>>
  BY DEF Acquire, CheckCache, TransferFails, Transfer, BeginOffsets, AskOffset, Store
<1>2. CASE Acquire(t)
  <2>1. pc' = [pc EXCEPT ![t] = "cache"] /\ lock = NoThread /\ lock' = t
    BY <1>2 DEF Acquire
  <2>2. now' \in [Threads -> Nat]
    BY <1>2, Types DEF Acquire
  <2>3. UNCHANGED <<fd, offsets, cached, cachedAt, goal, began, read, slot, got, stored, asked>>
    BY <1>2 DEF Acquire
  <2>4. QED
    BY <1>1, <2>1, <2>2, <2>3, Types, MoveType DEF Steps, Locked
<1>3. CASE CheckCache(t) \/ TransferFails(t)
  <2>1. lock = t
    BY <1>3, Types DEF CheckCache, TransferFails, Locked
  <2>2. /\ UNCHANGED <<offsets, cached, cachedAt, stored, asked>> /\ fd' \in BOOLEAN
    BY <1>3, Types DEF CheckCache, TransferFails
  <2>3. CASE \E snapshot \in {cached, NoSnapshot} : Return(t, snapshot) /\ lock' = NoThread
    <3>1. PICK snapshot \in Snapshots : Return(t, snapshot) /\ lock' = NoThread
      BY <2>3, Types
    <3>2. QED
      BY <1>1, <2>1, <2>2, <3>1, Types, ReturnTypes, MoveType, NobodyAssumption DEF Steps, Locked
  <2>4. CASE Goto(t, "transfer") /\ UNCHANGED <<lock, goal, began, now, read, slot, got>>
    BY <1>1, <2>1, <2>2, <2>4, Types, MoveType DEF Steps, Locked
  <2>5. QED
    BY <1>3, <2>3, <2>4 DEF CheckCache, TransferFails
<1>4. CASE Transfer(t)
  <2>1. lock = t /\ lock' = lock /\ pc' = [pc EXCEPT ![t] = "offsets"] /\ fd' = TRUE
    BY <1>4, Types DEF Transfer, Locked
  <2>2. read' \in [Threads -> Nat]
    BY <1>4, Types DEF Transfer
  <2>3. UNCHANGED <<offsets, cached, cachedAt, goal, began, now, slot, got, stored, asked>>
    BY <1>4 DEF Transfer
  <2>4. QED
    BY <1>1, <2>1, <2>2, <2>3, Types, MoveType DEF Steps, Locked
<1>5. CASE BeginOffsets(t)
  <2>1. lock = t /\ lock' = lock
    BY <1>5, Types DEF BeginOffsets, Locked
  <2>2. PICK step \in {"slots", "store"} : pc' = [pc EXCEPT ![t] = step]
    BY <1>5 DEF BeginOffsets
  <2>3. offsets' \in (SUBSET (1 .. Slots)) \cup {NoOffsets}
    BY <1>5, Types DEF BeginOffsets
  <2>4. UNCHANGED <<fd, cached, cachedAt, goal, began, now, read, slot, got, stored, asked>>
    BY <1>5 DEF BeginOffsets
  <2>5. QED
    BY <1>1, <2>1, <2>2, <2>3, <2>4, Types, MoveType DEF Steps, Locked
<1>6. CASE AskOffset(t)
  <2>1. lock = t /\ lock' = lock /\ pc[t] = "slots"
    BY <1>6, Types DEF AskOffset, Locked
  <2>2. PICK step \in {"slots", "store"} : pc' = [pc EXCEPT ![t] = step]
    BY <1>6, <2>1, Types DEF AskOffset
  <2>3. /\ offsets' \in (SUBSET (1 .. Slots)) \cup {NoOffsets} /\ asked' \in [1 .. Slots -> Nat]
        /\ slot' \in [Threads -> 1 .. Slots + 1]
    <3>1. CASE slot[t] <= Slots
      <4>1. slot[t] \in 1 .. Slots /\ slot[t] + 1 \in 1 .. Slots + 1
        BY <3>1, Types
      <4>2. asked' = [asked EXCEPT ![slot[t]] = @ + 1] /\ slot' = [slot EXCEPT ![t] = @ + 1]
            /\ offsets' = offsets \cup {slot[t]}
        BY <1>6, <3>1 DEF AskOffset
      <4>3. offsets \in SUBSET (1 .. Slots)
        <5>1. offsets = 1 .. slot[t] - 1
          BY <2>1 DEF AskedOnce
        <5>2. 0 \notin offsets
          BY <5>1
        <5>3. QED
          BY <5>2, Types DEF NoOffsets
      <4>4. offsets' \in SUBSET (1 .. Slots)
        BY <4>1, <4>2, <4>3
      <4>5. asked' \in [1 .. Slots -> Nat]
        <5>1. asked \in [1 .. Slots -> Nat] /\ asked[slot[t]] + 1 \in Nat
          BY <4>1, Types
        <5>2. QED
          BY <4>2, <5>1
      <4>6. slot' \in [Threads -> 1 .. Slots + 1]
        <5>1. slot \in [Threads -> 1 .. Slots + 1]
          BY Types
        <5>2. QED
          BY <4>1, <4>2, <5>1
      <4>7. QED
        BY <4>4, <4>5, <4>6
    <3>2. CASE ~(slot[t] <= Slots)
      BY <1>6, <3>2, Types DEF AskOffset
    <3>3. QED
      BY <3>1, <3>2
  <2>4. UNCHANGED <<fd, cached, cachedAt, goal, began, now, read, got, stored>>
    BY <1>6 DEF AskOffset
  <2>5. QED
    BY <1>1, <2>1, <2>2, <2>3, <2>4, Types, MoveType DEF Steps, Locked
<1>7. CASE Store(t)
  <2>1. lock = t /\ lock' = NoThread
    BY <1>7, Types DEF Store, Locked
  <2>2. UNCHANGED <<fd, offsets, asked>> /\ cachedAt' \in Nat
    BY <1>7, Types DEF Store
  <2>3. PICK snapshot \in Snapshots :
          Return(t, snapshot) /\ cached' = snapshot /\ stored' \in Seq(Nat)
    <3>1. now[t] \in Nat /\ read[t] \in Nat /\ NoSnapshot \in Snapshots
      BY Types
    <3>2. Append(stored, now[t]) \in Seq(Nat)
      BY <3>1, Types
    <3>3. [at |-> read[t], offsets |-> offsets] \in Snapshots
      <4>1. offsets # NoOffsets
        BY <1>7 DEF Store, AskedOnce
      <4>2. offsets \in SUBSET (1 .. Slots)
        BY <4>1, Types
      <4>3. QED
        BY <3>1, <4>2 DEF Snapshots
    <3>4. QED
      BY <1>7, <3>1, <3>2, <3>3, Types DEF Store
  <2>4. QED
    BY <1>1, <2>1, <2>2, <2>3, Types, ReturnTypes, MoveType, NobodyAssumption DEF Steps, Locked
<1>8. QED
  BY <1>2, <1>3, <1>4, <1>5, <1>6, <1>7

LEMMA OtherStepType ==
  ASSUME TypeOK, Tick \/ Interrupt \/ Close
  PROVE  TypeOK'
<1> USE DEF lookup, table, thread, past, Goto
<1>1. CASE Tick
  <2>1. clock' \in Nat \ {0} /\ UNCHANGED <<driver, lookup, lock, table, thread, past>>
    BY <1>1, Types DEF Tick
  <2>2. QED
    BY <2>1 DEF TypeOK
<1>2. CASE Interrupt
  <2>1. Main \in Threads /\ Return(Main, NoSnapshot)
    BY <1>2, ThreadAssumption DEF Interrupt
  <2>2. cut' \in Seq(Steps)
    <3>1. pc[Main] \in Steps /\ cut \in Seq(Steps)
      BY <2>1, Types
    <3>2. QED
      BY <1>2, <3>1 DEF Interrupt
  <2>3. UNCHANGED <<clock, driver, lookup, table, stored, asked>>
    BY <1>2 DEF Interrupt
  <2>4. lock' # Main /\ (lock' = lock \/ (lock = Main /\ lock' = NoThread))
    BY <1>2, <2>1, NobodyAssumption DEF Interrupt
  <2>5. QED
    BY <2>1, <2>2, <2>3, <2>4, Types, ReturnTypes, MoveType DEF Steps, Locked
<1>3. CASE Close
  <2>1. /\ pc' = [pc EXCEPT ![Main] = "over"] /\ fd' = FALSE /\ lock = NoThread /\ Main \in Threads
        /\ UNCHANGED <<clock, driver, lookup, lock, offsets, cached, cachedAt, goal, began, now, read, slot, got, past>>
    BY <1>3, ThreadAssumption DEF Close
  <2>2. lock' # Main
    BY <2>1, NobodyAssumption
  <2>3. QED
    BY <2>1, <2>2, Types, MoveType DEF Steps, Locked
<1>4. QED
  BY <1>1, <1>2, <1>3

LEMMA NextType ==
  ASSUME TypeOK, AskedOnce, Next
  PROVE  TypeOK'
  BY UnlockedStepType, LockedStepType, OtherStepType DEF Next, ThreadStep
-----------------------------------------------------------------------------
(* Times *)

LEMMA Exclusion ==
  ASSUME TypeOK, NEW t \in Threads, pc[t] \in Locked
  PROVE  \A u \in Threads : u # t => pc[u] \notin Locked
  BY Types

LEMMA TimesStep ==
  ASSUME TypeOK, Times, Next
  PROVE  Times'
<1> USE Types DEF Times, Locked, Goto, Return, lookup, table, past, thread
<1>1. CASE Tick
  BY <1>1 DEF Tick
<1>2. CASE Interrupt
  BY <1>2, ThreadAssumption DEF Interrupt
<1>3. CASE Close
  BY <1>3, ThreadAssumption DEF Close
<1>4. ASSUME NEW t \in Threads, Call(t)
      PROVE  Times'
  BY <1>4 DEF Call
<1>5. ASSUME NEW t \in Threads, End(t) \/ CheckResolved(t) \/ MarkResolved(t) \/ FetchVersion(t) \/ Answer(t)
      PROVE  Times'
  <2>1. UNCHANGED <<clock, cached, cachedAt, began>>
    BY <1>5 DEF End, CheckResolved, MarkResolved, FetchVersion, Answer
  <2>2. PICK step \in {"over", "answer", "mark", "fetch", "enter", "idle"} : pc' = [pc EXCEPT ![t] = step]
    <3>1. CASE End(t) \/ CheckResolved(t)
      BY <3>1 DEF End, CheckResolved
    <3>2. CASE MarkResolved(t) \/ FetchVersion(t) \/ Answer(t)
      BY <3>2 DEF MarkResolved, FetchVersion, Answer
    <3>3. QED
      BY <1>5, <3>1, <3>2
  <2>3. \A u \in Threads : u # t => now'[u] = now[u] /\ read'[u] = read[u]
    <3>1. CASE End(t) \/ CheckResolved(t) \/ MarkResolved(t) \/ FetchVersion(t)
      BY <3>1 DEF End, CheckResolved, MarkResolved, FetchVersion
    <3>2. CASE Answer(t)
      BY <3>2 DEF Answer
    <3>3. QED
      BY <1>5, <3>1, <3>2
  <2>4. QED
    BY <2>1, <2>2, <2>3
<1>6. ASSUME NEW t \in Threads, Acquire(t) PROVE Times'
  BY <1>6 DEF Acquire
<1>7. ASSUME NEW t \in Threads, CheckCache(t) \/ TransferFails(t) PROVE Times'
  <2>1. CASE Return(t, cached) \/ Return(t, NoSnapshot)
    <3>1. UNCHANGED <<clock, cached, cachedAt, began>> /\ pc' = [pc EXCEPT ![t] = "idle"]
      BY <1>7, <2>1 DEF CheckCache, TransferFails
    <3>2. \A u \in Threads : u # t => now'[u] = now[u] /\ read'[u] = read[u]
      BY <2>1
    <3>3. QED
      BY <3>1, <3>2
  <2>2. CASE Goto(t, "transfer") /\ UNCHANGED <<began, now, read>> /\ pc[t] = "cache"
    <3>1. UNCHANGED <<clock, cached, cachedAt>>
      BY <1>7 DEF CheckCache, TransferFails
    <3>2. QED
      BY <2>2, <3>1
  <2>3. QED
    BY <1>7, <2>1, <2>2 DEF CheckCache, TransferFails
<1>8. ASSUME NEW t \in Threads, Transfer(t) \/ BeginOffsets(t) PROVE Times'
  BY <1>8 DEF Transfer, BeginOffsets
<1>9. ASSUME NEW t \in Threads, AskOffset(t) PROVE Times'
  BY <1>9 DEF AskOffset
<1>10. ASSUME NEW t \in Threads, Store(t) PROVE Times'
  <2>1. \A u \in Threads : u # t => pc[u] \notin Locked
    BY <1>10, Exclusion DEF Store
  <2>2. /\ clock' = clock /\ cachedAt' = now[t] /\ began' = began /\ pc' = [pc EXCEPT ![t] = "idle"]
    BY <1>10 DEF Store
  <2>3. cachedAt' <= clock' /\ \A u \in Threads : began'[u] <= clock' /\ pc'[u] \notin Locked
    BY <1>10, <2>1, <2>2 DEF Store
  <2>4. cached' # NoSnapshot => cached'.at >= cachedAt'
    BY <1>10, <2>2 DEF Store
  <2>5. QED
    BY <2>3, <2>4
<1>11. QED
  BY <1>1, <1>2, <1>3, <1>4, <1>5, <1>6, <1>7, <1>8, <1>9, <1>10 DEF Next, ThreadStep

LEMMA FreshStep ==
  ASSUME TypeOK, Times, SnapshotIsFresh, Next
  PROVE  SnapshotIsFresh'
<1> USE Types DEF SnapshotIsFresh, Goto, Return, lookup, table, past, thread
<1>1. CASE Tick \/ Close
  BY <1>1 DEF Tick, Close
<1>2. CASE Interrupt
  BY <1>2, ThreadAssumption DEF Interrupt
<1>3. ASSUME NEW t \in Threads, Call(t) PROVE SnapshotIsFresh'
  BY <1>3 DEF Call
<1>4. ASSUME NEW t \in Threads,
             \/ End(t) \/ CheckResolved(t) \/ MarkResolved(t) \/ FetchVersion(t)
             \/ Acquire(t) \/ Transfer(t) \/ BeginOffsets(t) \/ AskOffset(t)
      PROVE  SnapshotIsFresh'
  BY <1>4 DEF End, CheckResolved, MarkResolved, FetchVersion, Acquire, Transfer, BeginOffsets, AskOffset
<1>5. ASSUME NEW t \in Threads, Answer(t) \/ TransferFails(t) PROVE SnapshotIsFresh'
  BY <1>5 DEF Answer, TransferFails
<1>6. ASSUME NEW t \in Threads, CheckCache(t) PROVE SnapshotIsFresh'
  <2>1. CASE IsFresh(t)
    <3>1. cached.at + MinInterval > began[t]
      <4>1. cached.at \in Nat /\ cached.at >= cachedAt /\ began[t] <= now[t] /\ now[t] - cachedAt < MinInterval
        BY <1>6, <2>1 DEF CheckCache, IsFresh, Times, Locked, Snapshots
      <4>2. began[t] \in Nat /\ now[t] \in Nat /\ cachedAt \in Nat /\ MinInterval \in Nat
        OBVIOUS
      <4>3. QED
        BY <4>1, <4>2
    <3>2. got' = [got EXCEPT ![t] = cached] /\ began' = began
      BY <1>6, <2>1 DEF CheckCache
    <3>3. QED
      BY <3>1, <3>2
  <2>2. CASE ~IsFresh(t)
    BY <1>6, <2>2 DEF CheckCache
  <2>3. QED
    BY <2>1, <2>2
<1>7. ASSUME NEW t \in Threads, Store(t) PROVE SnapshotIsFresh'
  <2>1. began[t] <= now[t] /\ now[t] <= read[t]
    BY <1>7 DEF Store, Times, Locked
  <2>2. /\ began' = began
        /\ \/ got' = [got EXCEPT ![t] = [at |-> read[t], offsets |-> offsets]]
           \/ got' = [got EXCEPT ![t] = NoSnapshot]
    BY <1>7 DEF Store
  <2>3. read[t] + MinInterval > began[t]
    <3>1. began[t] \in Nat /\ now[t] \in Nat /\ read[t] \in Nat /\ MinInterval \in Nat \ {0}
      OBVIOUS
    <3>2. QED
      BY <2>1, <3>1
  <2>4. CASE got' = [got EXCEPT ![t] = [at |-> read[t], offsets |-> offsets]]
    <3>1. got'[t].at = read[t] /\ \A u \in Threads : u # t => got'[u] = got[u]
      BY <2>4
    <3>2. QED
      BY <2>2, <2>3, <3>1
  <2>5. CASE got' = [got EXCEPT ![t] = NoSnapshot]
    BY <2>2, <2>5
  <2>6. QED
    BY <2>2, <2>4, <2>5
<1>8. QED
  BY <1>1, <1>2, <1>3, <1>4, <1>5, <1>6, <1>7 DEF Next, ThreadStep
-----------------------------------------------------------------------------
(* Transfers *)

LEMMA SpacedKept ==
  ASSUME Spaced, UNCHANGED <<stored, cached, cachedAt>>,
         \A u \in Threads : pc'[u] \in Transferring => pc[u] \in Transferring /\ now'[u] = now[u]
  PROVE  Spaced'
  BY DEF Spaced, LastStored

LEMMA StoredTimes ==
  ASSUME TypeOK
  PROVE  \A i \in 1 .. Len(stored) : stored[i] \in Nat
<1>1. stored \in Seq(Nat)
  BY DEF TypeOK
<1>2. QED
  BY <1>1

(* Asking for the next slot, and having asked for all. *)
LEMMA SlotIntervals ==
  ASSUME NEW k \in Nat \ {0}
  PROVE  (1 .. k - 1) \cup {k} = 1 .. (k + 1) - 1 /\ 1 .. k - 1 # NoOffsets
<1>1. (1 .. k - 1) \cup {k} = 1 .. (k + 1) - 1
  OBVIOUS
<1>2. 0 \notin 1 .. k - 1 /\ 0 \in NoOffsets
  BY DEF NoOffsets
<1>3. QED
  BY <1>1, <1>2

LEMMA SpacedStep ==
  ASSUME TypeOK, Times, Spaced, Next
  PROVE  Spaced'
<1> USE Types DEF Goto, Return, lookup, table, past, thread, Transferring
<1>1. CASE Tick \/ Close
  BY <1>1, SpacedKept, ThreadAssumption DEF Tick, Close
<1>2. CASE Interrupt
  BY <1>2, SpacedKept, ThreadAssumption DEF Interrupt
<1>3. ASSUME NEW t \in Threads, Call(t) \/ End(t) \/ CheckResolved(t) \/ MarkResolved(t) \/ FetchVersion(t)
      PROVE  Spaced'
  BY <1>3, SpacedKept DEF Call, End, CheckResolved, MarkResolved, FetchVersion
<1>4. ASSUME NEW t \in Threads, Answer(t) \/ Acquire(t) PROVE Spaced'
  BY <1>4, SpacedKept DEF Answer, Acquire
<1>5. ASSUME NEW t \in Threads, TransferFails(t) \/ Transfer(t) \/ BeginOffsets(t) PROVE Spaced'
  BY <1>5, SpacedKept DEF TransferFails, Transfer, BeginOffsets
<1>6. ASSUME NEW t \in Threads, AskOffset(t) PROVE Spaced'
  BY <1>6, SpacedKept DEF AskOffset
<1>7. ASSUME NEW t \in Threads, CheckCache(t) PROVE Spaced'
  <2>1. CASE IsFresh(t)
    BY <1>7, <2>1, SpacedKept DEF CheckCache
  <2>2. CASE ~IsFresh(t)
    <3>1. /\ UNCHANGED <<stored, cached, cachedAt, now>> /\ pc' = [pc EXCEPT ![t] = "transfer"] /\ pc[t] = "cache"
      BY <1>7, <2>2 DEF CheckCache
    <3>2. ASSUME Len(stored) > 0 PROVE LastStored + MinInterval <= now[t]
      <4>1. LastStored \in Nat /\ now[t] \in Nat /\ cachedAt \in Nat /\ MinInterval \in Nat
        BY <3>2 DEF LastStored
      <4>2. CASE cached # NoSnapshot
        BY <2>2, <3>2, <4>1, <4>2 DEF IsFresh, Spaced
      <4>3. CASE cached = NoSnapshot
        <5>1. cachedAt <= now[t]
          BY <3>1 DEF Times, Locked
        <5>2. LastStored + MinInterval <= cachedAt
          BY <3>2, <4>3 DEF Spaced
        <5>3. QED
          BY <4>1, <5>1, <5>2
      <4>4. QED
        BY <4>2, <4>3
    <3>3. QED
      BY <3>1, <3>2 DEF Spaced, LastStored
  <2>3. QED
    BY <2>1, <2>2
<1>8. ASSUME NEW t \in Threads, Store(t) PROVE Spaced'
  <2>1. \A u \in Threads : pc'[u] \notin Transferring
    <3>1. \A u \in Threads : u # t => pc[u] \notin Locked
      BY <1>8, Exclusion DEF Store, Locked
    <3>2. pc' = [pc EXCEPT ![t] = "idle"]
      BY <1>8 DEF Store
    <3>3. QED
      BY <3>1, <3>2 DEF Locked
  <2>2. cachedAt' = now[t] /\ now[t] \in Nat /\ MinInterval \in Nat
    BY <1>8 DEF Store
  <2>3. Len(stored) > 0 => LastStored + MinInterval <= now[t]
    BY <1>8 DEF Store, Spaced
  <2>4. CASE cached' = NoSnapshot /\ stored' = stored
    BY <2>1, <2>2, <2>3, <2>4 DEF Spaced, LastStored
  <2>5. CASE cached'.at = read[t] /\ stored' = Append(stored, now[t])
    <3>1. read[t] >= 1
      BY <1>8 DEF Store, Times, Locked
    <3>2. cached' # NoSnapshot
      BY <2>5, <3>1 DEF NoSnapshot
    <3>3. /\ Len(stored') = Len(stored) + 1 /\ Len(stored) \in Nat /\ stored'[Len(stored) + 1] = now[t]
          /\ \A i \in 1 .. Len(stored) : stored'[i] = stored[i]
      BY <2>5
    <3>4. \A i \in 1 .. Len(stored) : stored[i] \in Nat
      BY StoredTimes
    <3>5. ASSUME NEW i \in 1 .. Len(stored') - 1 PROVE stored'[i + 1] - stored'[i] >= MinInterval
      <4>1. CASE i = Len(stored)
        <5>1. i > 0 /\ stored'[i + 1] = now[t] /\ stored'[i] = LastStored /\ LastStored \in Nat
          BY <3>3, <3>4, <4>1 DEF LastStored
        <5>2. QED
          BY <2>2, <2>3, <4>1, <5>1
      <4>2. CASE i # Len(stored)
        <5>1. i \in 1 .. Len(stored) - 1 /\ i + 1 \in 1 .. Len(stored) /\ i \in 1 .. Len(stored)
          BY <3>3, <4>2
        <5>2. QED
          BY <3>3, <5>1 DEF Spaced
      <4>3. QED
        BY <4>1, <4>2
    <3>6. LastStored' = now[t]
      BY <3>3 DEF LastStored
    <3>7. QED
      BY <2>1, <2>2, <3>2, <3>5, <3>6 DEF Spaced
  <2>6. QED
    BY <1>8, <2>4, <2>5 DEF Store
<1>9. QED
  BY <1>1, <1>2, <1>3, <1>4, <1>5, <1>6, <1>7, <1>8 DEF Next, ThreadStep

-----------------------------------------------------------------------------
(* Mailbox commands *)

LEMMA AskedKept ==
  ASSUME AskedOnce, UNCHANGED <<asked, offsets>>,
         \A u \in Threads : \/ pc'[u] = pc[u] /\ slot'[u] = slot[u]
                            \/ pc'[u] \notin {"slots", "store"} /\ slot'[u] = 1
                            \/ pc'[u] \notin {"slots", "store"} /\ pc[u] \notin {"slots", "store"} /\ slot'[u] = slot[u]
  PROVE  AskedOnce'
  BY DEF AskedOnce

LEMMA AskedStep ==
  ASSUME TypeOK, AskedOnce, Next
  PROVE  AskedOnce'
<1> USE Types DEF Goto, Return, lookup, table, past, thread
<1>1. CASE Tick \/ Close
  BY <1>1, AskedKept, ThreadAssumption DEF Tick, Close
<1>2. CASE Interrupt
  BY <1>2, AskedKept, ThreadAssumption DEF Interrupt
<1>3. ASSUME NEW t \in Threads, Call(t) \/ End(t) \/ CheckResolved(t) \/ MarkResolved(t) \/ FetchVersion(t)
      PROVE  AskedOnce'
  BY <1>3, AskedKept DEF Call, End, CheckResolved, MarkResolved, FetchVersion
<1>4. ASSUME NEW t \in Threads, Answer(t) \/ Acquire(t) \/ CheckCache(t) PROVE AskedOnce'
  BY <1>4, AskedKept DEF Answer, Acquire, CheckCache
<1>5. ASSUME NEW t \in Threads, TransferFails(t) \/ Transfer(t) PROVE AskedOnce'
  BY <1>5, AskedKept DEF TransferFails, Transfer
<1>6. ASSUME NEW t \in Threads, Store(t) PROVE AskedOnce'
  BY <1>6, AskedKept DEF Store
<1>7. ASSUME NEW t \in Threads, BeginOffsets(t) PROVE AskedOnce'
  <2>1. \A u \in Threads : u # t => pc[u] \notin {"slots", "store"}
    BY <1>7, Exclusion DEF BeginOffsets, Locked
  <2>2. UNCHANGED <<asked, slot>> /\ slot[t] = 1
    BY <1>7 DEF BeginOffsets, AskedOnce
  <2>3. CASE NeedsOffsets
    <3>1. offsets' = {} /\ pc' = [pc EXCEPT ![t] = "slots"] /\ offsets = {0}
      BY <1>7, <2>3 DEF BeginOffsets, NeedsOffsets, NoOffsets
    <3>2. \A s \in 1 .. Slots : asked[s] = 0
      BY <3>1 DEF AskedOnce
    <3>3. offsets' = 1 .. slot'[t] - 1
      BY <2>2, <3>1
    <3>4. QED
      BY <2>1, <2>2, <3>1, <3>2, <3>3 DEF AskedOnce
  <2>4. CASE ~NeedsOffsets
    <3>1. offsets' = offsets /\ pc' = [pc EXCEPT ![t] = "store"] /\ offsets # NoOffsets
      BY <1>7, <2>4 DEF BeginOffsets, NeedsOffsets
    <3>2. QED
      BY <2>1, <2>2, <3>1 DEF AskedOnce
  <2>5. QED
    BY <2>3, <2>4
<1>8. ASSUME NEW t \in Threads, AskOffset(t) PROVE AskedOnce'
  <2>1. \A u \in Threads : u # t => pc[u] \notin {"slots", "store"}
    BY <1>8, Exclusion DEF AskOffset, Locked
  <2>2. pc[t] = "slots" /\ offsets = 1 .. slot[t] - 1 /\ slot[t] \in 1 .. Slots + 1 /\ Slots \in Nat
    BY <1>8 DEF AskOffset, AskedOnce
  <2>3. CASE slot[t] <= Slots
    <3>1. /\ offsets' = offsets \cup {slot[t]} /\ asked' = [asked EXCEPT ![slot[t]] = @ + 1]
          /\ slot' = [slot EXCEPT ![t] = @ + 1] /\ pc' = pc
      BY <1>8, <2>3 DEF AskOffset
    <3>2. slot'[t] = slot[t] + 1 /\ offsets' = 1 .. slot'[t] - 1
      <4>1. slot'[t] = slot[t] + 1 /\ slot[t] \in Nat \ {0}
        BY <2>2, <3>1
      <4>2. offsets' = (1 .. slot[t] - 1) \cup {slot[t]}
        BY <2>2, <3>1
      <4>3. QED
        BY <4>1, <4>2, SlotIntervals
    <3>3. \A s \in 1 .. Slots : asked'[s] = IF s \in offsets' THEN 1 ELSE 0
      <4> TAKE s \in 1 .. Slots
      <4>1. asked[s] = IF s \in offsets THEN 1 ELSE 0
        BY DEF AskedOnce
      <4>2. slot[t] \notin offsets
        BY <2>2
      <4>3. CASE s = slot[t]
        BY <3>1, <4>1, <4>2, <4>3
      <4>4. CASE s # slot[t]
        BY <3>1, <4>1, <4>4
      <4>5. QED
        BY <4>3, <4>4
    <3>4. QED
      BY <2>1, <2>2, <3>1, <3>2, <3>3 DEF AskedOnce
  <2>4. CASE ~(slot[t] <= Slots)
    <3>1. UNCHANGED <<offsets, asked, slot>> /\ pc' = [pc EXCEPT ![t] = "store"]
      BY <1>8, <2>4 DEF AskOffset
    <3>2. offsets # NoOffsets
      BY <2>2, SlotIntervals
    <3>3. QED
      BY <2>1, <3>1, <3>2 DEF AskedOnce
  <2>5. QED
    BY <2>3, <2>4
<1>9. QED
  BY <1>1, <1>2, <1>3, <1>4, <1>5, <1>6, <1>7, <1>8 DEF Next, ThreadStep
-----------------------------------------------------------------------------
(* Interrupts and what the snapshots tell *)

LEMMA CutStep ==
  ASSUME TypeOK, Next, NEW steps
  PROVE  /\ CutIn(steps) => CutIn(steps)'
         /\ Interrupt /\ pc[Main] \in steps => CutIn(steps)'
<1>1. cut \in Seq(Steps)
  BY DEF TypeOK
<1>2. CASE UNCHANGED cut /\ ~Interrupt
  BY <1>2 DEF CutIn
<1>3. CASE Interrupt
  <2>1. cut' = Append(cut, pc[Main])
    BY <1>3 DEF Interrupt
  <2>2. /\ Len(cut') = Len(cut) + 1 /\ Len(cut) \in Nat /\ cut'[Len(cut) + 1] = pc[Main]
        /\ \A i \in 1 .. Len(cut) : cut'[i] = cut[i]
    BY <1>1, <2>1
  <2>3. ASSUME pc[Main] \in steps PROVE CutIn(steps)'
    BY <2>2, <2>3 DEF CutIn
  <2>4. ASSUME CutIn(steps) PROVE CutIn(steps)'
    <3>1. PICK i \in 1 .. Len(cut) : cut[i] \in steps
      BY <2>4 DEF CutIn
    <3>2. i \in 1 .. Len(cut') /\ cut'[i] \in steps
      BY <2>2, <3>1
    <3>3. QED
      BY <3>2 DEF CutIn
  <2>5. QED
    BY <2>3, <2>4
<1>4. UNCHANGED cut \/ Interrupt
  BY DEF Next, ThreadStep, Tick, Close, Call, End, CheckResolved, MarkResolved, FetchVersion, Answer, Acquire,
     CheckCache, TransferFails, Transfer, BeginOffsets, AskOffset, Store, past
<1>5. QED
  BY <1>2, <1>3, <1>4

LEMMA ToldKept ==
  ASSUME AllTold, UNCHANGED <<offsets, cached>>,
         \A t \in Threads : /\ pc[t] = "slots" <=> pc'[t] = "slots"
                            /\ pc'[t] = "store" => pc[t] = "store"
                            /\ got'[t] \in {got[t], NoSnapshot, cached}
  PROVE  AllTold'
  BY DEF AllTold

LEMMA ToldStep ==
  ASSUME TypeOK, AskedOnce, AllTold, Next, ~(Interrupt /\ pc[Main] \in {"slots"})
  PROVE  AllTold'
<1> USE Types DEF Goto, Return, lookup, table, past, thread
<1>1. CASE Tick \/ Close
  BY <1>1, ToldKept, ThreadAssumption DEF Tick, Close
<1>2. CASE Interrupt
  BY <1>2, ToldKept, ThreadAssumption DEF Interrupt
<1>3. ASSUME NEW t \in Threads, Call(t) \/ End(t) \/ CheckResolved(t) \/ MarkResolved(t) \/ FetchVersion(t)
      PROVE  AllTold'
  BY <1>3, ToldKept DEF Call, End, CheckResolved, MarkResolved, FetchVersion
<1>4. ASSUME NEW t \in Threads, Answer(t) \/ Acquire(t) \/ CheckCache(t) PROVE AllTold'
  BY <1>4, ToldKept DEF Answer, Acquire, CheckCache
<1>5. ASSUME NEW t \in Threads, TransferFails(t) \/ Transfer(t) PROVE AllTold'
  BY <1>5, ToldKept DEF TransferFails, Transfer
<1>6. ASSUME NEW t \in Threads, Store(t) PROVE AllTold'
  <2>1. /\ pc[t] = "store" /\ pc' = [pc EXCEPT ![t] = "idle"] /\ offsets' = offsets
        /\ \A u \in Threads : u # t => pc[u] \notin {"slots", "store"}
    BY <1>6, Exclusion DEF Store, Locked
  <2>2. offsets = 1 .. Slots
    BY <2>1 DEF AllTold
  <2>3. PICK snapshot : /\ cached' = snapshot /\ got' = [got EXCEPT ![t] = snapshot]
                        /\ snapshot = NoSnapshot \/ snapshot = [at |-> read[t], offsets |-> offsets]
    BY <1>6 DEF Store
  <2>4. snapshot # NoSnapshot => snapshot.offsets = 1 .. Slots
    BY <2>2, <2>3
  <2>5. QED
    BY <2>1, <2>2, <2>3, <2>4 DEF AllTold
<1>7. ASSUME NEW t \in Threads, BeginOffsets(t) PROVE AllTold'
  <2>1. /\ pc[t] = "offsets" /\ UNCHANGED <<cached, got>>
        /\ \A u \in Threads : u # t => pc[u] \notin {"slots", "store"}
    BY <1>7, Exclusion DEF BeginOffsets, Locked
  <2>2. CASE NeedsOffsets
    <3>1. pc' = [pc EXCEPT ![t] = "slots"]
      BY <1>7, <2>2 DEF BeginOffsets
    <3>2. QED
      BY <2>1, <3>1 DEF AllTold
  <2>3. CASE ~NeedsOffsets
    <3>1. pc' = [pc EXCEPT ![t] = "store"] /\ offsets' = offsets /\ offsets # NoOffsets
      BY <1>7, <2>3 DEF BeginOffsets, NeedsOffsets
    <3>2. offsets = 1 .. Slots
      BY <2>1, <3>1 DEF AllTold
    <3>3. QED
      BY <2>1, <3>1, <3>2 DEF AllTold
  <2>4. QED
    BY <2>2, <2>3
<1>8. ASSUME NEW t \in Threads, AskOffset(t) PROVE AllTold'
  <2>1. /\ pc[t] = "slots" /\ UNCHANGED <<cached, got>>
        /\ \A u \in Threads : u # t => pc[u] \notin {"slots", "store"}
    BY <1>8, Exclusion DEF AskOffset, Locked
  <2>2. CASE slot[t] <= Slots
    <3>1. pc' = pc
      BY <1>8, <2>2 DEF AskOffset
    <3>2. QED
      BY <2>1, <3>1 DEF AllTold
  <2>3. CASE ~(slot[t] <= Slots)
    <3>1. pc' = [pc EXCEPT ![t] = "store"] /\ offsets' = offsets
      BY <1>8, <2>3 DEF AskOffset
    <3>2. offsets = 1 .. Slots
      <4>1. offsets = 1 .. slot[t] - 1
        BY <2>1 DEF AskedOnce
      <4>2. slot[t] = Slots + 1
        BY <2>3
      <4>3. QED
        BY <4>1, <4>2
    <3>3. QED
      BY <2>1, <3>1, <3>2 DEF AllTold
  <2>4. QED
    BY <2>2, <2>3
<1>9. QED
  BY <1>1, <1>2, <1>3, <1>4, <1>5, <1>6, <1>7, <1>8 DEF Next, ThreadStep

LEMMA CompleteStep ==
  ASSUME TypeOK, AskedOnce, Complete, Next
  PROVE  Complete'
<1>1. CASE CutIn({"slots"}) \/ (Interrupt /\ pc[Main] \in {"slots"})
  BY <1>1, CutStep DEF Complete
<1>2. CASE ~CutIn({"slots"}) /\ ~(Interrupt /\ pc[Main] \in {"slots"})
  <2>1. AllTold
    BY <1>2 DEF Complete
  <2>2. AllTold'
    BY <1>2, <2>1, ToldStep
  <2>3. QED
    BY <2>2 DEF Complete
<1>3. QED
  BY <1>1, <1>2

(* Who is told that there is no driver. *)
LEMMA ResolvingKept ==
  ASSUME TypeOK, Next, Resolving, UNCHANGED <<driver, resolved, version>>,
         ~(Interrupt /\ pc[Main] \in {"fetch"}),
         \A t \in Threads : /\ pc[t] = "fetch" <=> pc'[t] = "fetch"
                            /\ pc'[t] = "answer" => pc[t] = "answer" \/ resolved
  PROVE  Resolving'
<1>1. CutIn({"fetch"}) => CutIn({"fetch"})'
  BY CutStep
<1>2. QED
  BY <1>1 DEF Resolving, HasLayout

LEMMA ResolvingStep ==
  ASSUME TypeOK, Resolving, Next
  PROVE  Resolving'
<1> USE Types DEF Goto, Return, lookup, table, past, thread
<1>1. CASE Tick \/ Close
  <2>1. ~(Interrupt /\ pc[Main] \in {"fetch"})
    BY <1>1 DEF Tick, Close, Interrupt
  <2>2. QED
    BY <1>1, <2>1, ResolvingKept, ThreadAssumption DEF Tick, Close
<1>2. CASE Interrupt
  <2>1. CASE pc[Main] = "fetch"
    <3>1. CutIn({"fetch"})'
      BY <1>2, <2>1, CutStep
    <3>2. /\ UNCHANGED resolved
          /\ \A t \in Threads : pc'[t] \in {"fetch", "answer"} => pc[t] \in {"fetch", "answer"}
      BY <1>2, ThreadAssumption DEF Interrupt
    <3>3. QED
      BY <3>1, <3>2 DEF Resolving
  <2>2. CASE pc[Main] # "fetch"
    BY <1>2, <2>2, ResolvingKept, ThreadAssumption DEF Interrupt
  <2>3. QED
    BY <2>1, <2>2
<1>3. ASSUME NEW t \in Threads, ~Interrupt, Call(t) \/ End(t) \/ CheckResolved(t) PROVE Resolving'
  BY <1>3, ResolvingKept DEF Call, End, CheckResolved
<1>4. ASSUME NEW t \in Threads, ~Interrupt, Answer(t) \/ Acquire(t) \/ CheckCache(t) PROVE Resolving'
  BY <1>4, ResolvingKept DEF Answer, Acquire, CheckCache
<1>5. ASSUME NEW t \in Threads, ~Interrupt, TransferFails(t) \/ Transfer(t) \/ BeginOffsets(t) PROVE Resolving'
  BY <1>5, ResolvingKept DEF TransferFails, Transfer, BeginOffsets
<1>6. ASSUME NEW t \in Threads, ~Interrupt, AskOffset(t) \/ Store(t) PROVE Resolving'
  BY <1>6, ResolvingKept DEF AskOffset, Store
<1>7. ASSUME NEW t \in Threads, MarkResolved(t) PROVE Resolving'
  BY <1>7 DEF MarkResolved, Resolving
<1>8. ASSUME NEW t \in Threads, FetchVersion(t) PROVE Resolving'
  <2>1. pc[t] = "fetch" /\ resolved' = resolved /\ driver' = driver
    BY <1>8 DEF FetchVersion
  <2>2. driver = "supported" => HasLayout'
    BY <1>8 DEF FetchVersion, HasLayout
  <2>3. \A u \in Threads : pc'[u] \in {"fetch", "answer"} => pc[u] \in {"fetch", "answer"}
    BY <1>8 DEF FetchVersion
  <2>4. QED
    BY <2>1, <2>2, <2>3 DEF Resolving
<1>9. CASE ~Interrupt
  BY <1>1, <1>3, <1>4, <1>5, <1>6, <1>7, <1>8, <1>9 DEF Next, ThreadStep
<1>10. QED
  BY <1>2, <1>9

-----------------------------------------------------------------------------
LEMMA Initially == Init => IInv
<1> SUFFICES ASSUME Init PROVE IInv
  OBVIOUS
<1>1. TypeOK
  BY InitType
<1>2. Times /\ SnapshotIsFresh
  BY DEF Init, Times, SnapshotIsFresh, Locked
<1>3. Spaced /\ Resolving
  BY DEF Init, Spaced, Resolving, Transferring
<1>4. AskedOnce
  BY DEF Init, AskedOnce, NoOffsets
<1>5. Complete
  BY DEF Init, Complete, AllTold
<1>6. QED
  BY <1>1, <1>2, <1>3, <1>4, <1>5 DEF IInv

LEMMA Unchanged ==
  ASSUME IInv, UNCHANGED vars
  PROVE  IInv'
<1>1. /\ UNCHANGED <<clock, driver, resolved, version, lock, fd, offsets, cached, cachedAt>>
      /\ UNCHANGED <<pc, goal, began, now, read, slot, got, stored, asked, cut>>
  BY DEF vars, lookup, table, thread, past
<1>2. TypeOK'
  BY <1>1 DEF IInv, TypeOK
<1>3. Times' /\ SnapshotIsFresh'
  BY <1>1 DEF IInv, Times, SnapshotIsFresh
<1>4. Spaced' /\ AskedOnce'
  BY <1>1 DEF IInv, Spaced, AskedOnce, LastStored
<1>5. Complete' /\ Resolving'
  BY <1>1 DEF IInv, Complete, AllTold, Resolving, CutIn, HasLayout
<1>6. QED
  BY <1>2, <1>3, <1>4, <1>5 DEF IInv

LEMMA Inductive == IInv /\ [Next]_vars => IInv'
<1> SUFFICES ASSUME IInv, [Next]_vars PROVE IInv'
  OBVIOUS
<1>1. CASE Next
  <2>1. TypeOK' /\ AskedOnce'
    BY <1>1, NextType, AskedStep DEF IInv
  <2>2. Times' /\ SnapshotIsFresh' /\ Spaced'
    BY <1>1, TimesStep, FreshStep, SpacedStep DEF IInv
  <2>3. Complete' /\ Resolving'
    BY <1>1, CompleteStep, ResolvingStep DEF IInv
  <2>4. QED
    BY <2>1, <2>2, <2>3 DEF IInv
<1>2. CASE UNCHANGED vars
  BY <1>2, Unchanged
<1>3. QED
  BY <1>1, <1>2

THEOREM Invariance == Spec => []IInv
<1>1. QED
  BY Initially, Inductive, PTL DEF Spec

-----------------------------------------------------------------------------
(* Every variable keeps its type, and the locked part of read_snapshot is
   executed by the holder of the lock alone, for any number of threads. *)
THEOREM TypeCorrect == Spec => []TypeOK
<1>1. IInv => TypeOK
  BY DEF IInv
<1>2. QED
  BY <1>1, Invariance, PTL

(* A snapshot is never older than the interval when the call is made. *)
THEOREM Fresh == Spec => []SnapshotIsFresh
<1>1. IInv => SnapshotIsFresh
  BY DEF IInv
<1>2. QED
  BY <1>1, Invariance, PTL

(* Transfers are shared, no slot is asked for twice, and unless an interrupt cut
   the mailbox commands every snapshot tells all offsets. *)
THEOREM DriverSpared == Spec => []DriverIsSpared
<1>1. IInv => DriverIsSpared
  <2> SUFFICES ASSUME IInv PROVE DriverIsSpared
    OBVIOUS
  <2>1. \A s \in 1 .. Slots : asked[s] <= 1
    BY DEF IInv, AskedOnce
  <2>2. QED
    BY <2>1 DEF IInv, Spaced, Complete, AllTold, DriverIsSpared
<1>2. QED
  BY <1>1, Invariance, PTL

(* A thread is told that there is no driver only while another one resolves it,
   or after an interrupt in that moment. *)
THEOREM DeniedWhileResolving == Spec => DeniedOnlyWhileResolving
<1> DEFINE Denial ==
      \A t \in Threads :
        pc[t] = "answer" /\ pc'[t] = "idle" /\ cut' = cut /\ ~HasLayout /\ driver = "supported" =>
          (\E u \in Threads : pc[u] = "fetch") \/ CutIn({"fetch"})
<1>1. IInv => Denial
  BY DEF IInv, Resolving
<1>2. IInv /\ [Next]_vars => [Denial]_vars
  BY <1>1
<1>3. QED
  BY <1>2, Invariance, PTL DEF Spec, DeniedOnlyWhileResolving
=============================================================================
