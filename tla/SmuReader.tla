----------------------------- MODULE SmuReader -----------------------------
(***************************************************************************)
(* The reader of the SMU tables (RyzenSmuMonitor of lib/smu.py), shared by *)
(* the main thread (telemetry of a run, the summary) and the dashboard     *)
(* thread.  The table version is resolved once without a lock, the Curve   *)
(* Optimizer offsets once under _lock, and a snapshot is shared for        *)
(* min_interval.  A second stop signal may cut any call of the main thread.*)
(*                                                                         *)
(* A snapshot is abstracted to the time its table was transferred and the  *)
(* core slots whose offset had been asked for when it was made.            *)
(***************************************************************************)
EXTENDS Integers, Sequences

CONSTANTS
    Threads, Main,          \* the threads that read; Main is the one signals interrupt
    Slots,                  \* PM_TABLE_CORE_SLOTS
    MinInterval,            \* min_interval, in ticks
    Drivers,                \* what the driver may be in a session
    MaxTime, MaxInterrupts  \* bounds of the clock and of the interrupts

ASSUME ThreadAssumption == Main \in Threads
ASSUME SizeAssumption ==
    /\ Slots \in Nat \ {0} /\ MinInterval \in Nat \ {0}
    /\ Drivers \subseteq {"supported", "unsupported", "missing"}
    /\ MaxTime \in Nat /\ MaxInterrupts \in Nat

VARIABLES
    clock,      \* time.monotonic
    driver,     \* the ryzen_smu driver of this session
    resolved,   \* _version_resolved
    version,    \* _version
    lock,       \* _lock
    fd,         \* _fd is open
    offsets,    \* _co_offsets
    cached,     \* _cached_snapshot
    cachedAt,   \* _cached_at
    pc, goal, began,    \* per thread: next step, the call and when it was made
    now, read, slot,    \* per thread: locals of read_snapshot
    got,        \* per thread: what its last read_snapshot returned
    stored,     \* history: the times of the snapshots stored
    asked,      \* history: how often the offset of a slot was asked for
    cut         \* history: the steps an interrupt hit

lookup == <<resolved, version>>
table  == <<fd, offsets, cached, cachedAt>>
thread == <<pc, goal, began, now, read, slot, got>>
past   == <<stored, asked, cut>>
vars   == <<clock, driver, lookup, lock, table, thread, past>>

NoThread   == "nobody"
Unread     == "none"
NoSnapshot == [at |-> 0, offsets |-> {}]
NoOffsets  == {0}
ASSUME NobodyAssumption == NoThread \notin Threads

Locked    == {"cache", "transfer", "offsets", "slots", "store"}
Steps     == {"idle", "flag", "mark", "fetch", "answer", "enter", "over"} \cup Locked
Snapshots == [at : Nat, offsets : SUBSET (1 .. Slots)]

TypeOK ==
    /\ clock \in Nat \ {0} /\ driver \in Drivers
    /\ resolved \in BOOLEAN /\ version \in {Unread, "supported", "unsupported"}
    /\ lock \in Threads \cup {NoThread}
    /\ \A t \in Threads : pc[t] \in Locked <=> lock = t
    /\ fd \in BOOLEAN
    /\ offsets \in (SUBSET (1 .. Slots)) \cup {NoOffsets}
    /\ cached \in Snapshots /\ cachedAt \in Nat
    /\ pc \in [Threads -> Steps]
    /\ goal \in [Threads -> {"available", "snapshot"}]
    /\ began \in [Threads -> Nat] /\ now \in [Threads -> Nat] /\ read \in [Threads -> Nat]
    /\ slot \in [Threads -> 1 .. Slots + 1]
    /\ got \in [Threads -> Snapshots]
    /\ stored \in Seq(Nat) /\ asked \in [1 .. Slots -> Nat]
    /\ cut \in Seq(Steps)

Init ==
    /\ clock = 1 /\ driver \in Drivers
    /\ resolved = FALSE /\ version = Unread /\ lock = NoThread
    /\ fd = FALSE /\ offsets = NoOffsets /\ cached = NoSnapshot /\ cachedAt = 0
    /\ pc = [t \in Threads |-> "idle"] /\ goal = [t \in Threads |-> "available"]
    /\ began = [t \in Threads |-> 0] /\ now = [t \in Threads |-> 0]
    /\ read = [t \in Threads |-> 0] /\ slot = [t \in Threads |-> 1]
    /\ got = [t \in Threads |-> NoSnapshot]
    /\ stored = <<>> /\ asked = [s \in 1 .. Slots |-> 0] /\ cut = <<>>

Goto(t, step) == pc' = [pc EXCEPT ![t] = step]

(* Locals are forgotten when a call returns. *)
Return(t, snapshot) ==
    /\ Goto(t, "idle")
    /\ got' = [got EXCEPT ![t] = snapshot]
    /\ now' = [now EXCEPT ![t] = 0] /\ read' = [read EXCEPT ![t] = 0]
    /\ slot' = [slot EXCEPT ![t] = 1]
    /\ UNCHANGED <<goal, began>>

Tick ==
    /\ clock < MaxTime
    /\ clock' = clock + 1
    /\ UNCHANGED <<driver, lookup, lock, table, thread, past>>

-----------------------------------------------------------------------------
(* is_available and the guard of read_snapshot: get_pm_version without a lock *)

Call(t) ==
    /\ pc[t] = "idle"
    /\ goal' \in {[goal EXCEPT ![t] = g] : g \in {"available", "snapshot"}}
    /\ began' = [began EXCEPT ![t] = clock]
    /\ got' = [got EXCEPT ![t] = NoSnapshot]
    /\ Goto(t, "flag")
    /\ UNCHANGED <<clock, driver, lookup, lock, table, now, read, slot, past>>

CheckResolved(t) ==
    /\ pc[t] = "flag"
    /\ Goto(t, IF resolved THEN "answer" ELSE "mark")
    /\ UNCHANGED <<clock, driver, lookup, lock, table, goal, began, now, read, slot, got, past>>

MarkResolved(t) ==
    /\ pc[t] = "mark"
    /\ resolved' = TRUE
    /\ Goto(t, "fetch")
    /\ UNCHANGED <<clock, driver, version, lock, table, goal, began, now, read, slot, got, past>>

(* Mutant of FetchVersion: what was read is taken only if nobody marked it. *)
FetchVersionUnmarked(t) ==
    /\ pc[t] = "fetch"
    /\ version' = IF driver = "missing" \/ resolved THEN version ELSE driver
    /\ Goto(t, "answer")
    /\ UNCHANGED <<clock, driver, resolved, lock, table, goal, began, now, read, slot, got, past>>

FetchVersion(t) ==
    /\ pc[t] = "fetch"
    /\ version' = IF driver = "missing" THEN version ELSE driver
    /\ Goto(t, "answer")
    /\ UNCHANGED <<clock, driver, resolved, lock, table, goal, began, now, read, slot, got, past>>

(* layout is None unless the version is known and supported. *)
HasLayout == version = "supported"

Answer(t) ==
    /\ pc[t] = "answer"
    /\ IF goal[t] = "snapshot" /\ HasLayout
       THEN Goto(t, "enter") /\ UNCHANGED <<goal, began, now, read, slot, got>>
       ELSE Return(t, NoSnapshot)
    /\ UNCHANGED <<clock, driver, lookup, lock, table, past>>

-----------------------------------------------------------------------------
(* read_snapshot under the lock *)

Acquire(t) ==
    /\ pc[t] = "enter"
    /\ lock = NoThread /\ lock' = t
    /\ now' = [now EXCEPT ![t] = clock]
    /\ Goto(t, "cache")
    /\ UNCHANGED <<clock, driver, lookup, table, goal, began, read, slot, got, past>>

Release == lock' = NoThread

(* Mutant of IsFresh: one tick too long. *)
IsFreshOneLonger(t) == cached # NoSnapshot /\ now[t] - cachedAt <= MinInterval

IsFresh(t) == cached # NoSnapshot /\ now[t] - cachedAt < MinInterval

CheckCache(t) ==
    /\ pc[t] = "cache"
    /\ IF IsFresh(t) THEN Return(t, cached) /\ Release
       ELSE Goto(t, "transfer") /\ UNCHANGED <<lock, goal, began, now, read, slot, got>>
    /\ UNCHANGED <<clock, driver, lookup, table, past>>

(* Mutant of TransferFails: the lock is not released on the error path. *)
TransferFailsLocked(t) ==
    /\ pc[t] = "transfer"
    /\ fd' \in {fd, TRUE}
    /\ Return(t, NoSnapshot)
    /\ UNCHANGED <<clock, driver, lookup, lock, offsets, cached, cachedAt, past>>

(* open or pread raises, or nothing could be read. *)
TransferFails(t) ==
    /\ pc[t] = "transfer"
    /\ fd' \in {fd, TRUE}
    /\ Return(t, NoSnapshot) /\ Release
    /\ UNCHANGED <<clock, driver, lookup, offsets, cached, cachedAt, past>>

Transfer(t) ==
    /\ pc[t] = "transfer"
    /\ fd' = TRUE
    /\ read' = [read EXCEPT ![t] = clock]
    /\ Goto(t, "offsets")
    /\ UNCHANGED <<clock, driver, lookup, lock, offsets, cached, cachedAt,
                   goal, began, now, slot, got, past>>

(* Mutant of NeedsOffsets: an attempt that was cut off is repeated. *)
NeedsMissingOffsets == offsets = NoOffsets \/ offsets # 1 .. Slots

NeedsOffsets == offsets = NoOffsets

(* _read_co_offsets_locked: the dict is assigned before it is filled. *)
BeginOffsets(t) ==
    /\ pc[t] = "offsets"
    /\ IF NeedsOffsets THEN offsets' = {} /\ Goto(t, "slots") ELSE Goto(t, "store") /\ UNCHANGED offsets
    /\ UNCHANGED <<clock, driver, lookup, lock, fd, cached, cachedAt,
                   goal, began, now, read, slot, got, past>>

(* One mailbox command; a slot without an answer is asked for all the same. *)
AskOffset(t) ==
    /\ pc[t] = "slots"
    /\ IF slot[t] <= Slots
       THEN /\ offsets' = offsets \cup {slot[t]}
            /\ asked' = [asked EXCEPT ![slot[t]] = @ + 1]
            /\ slot' = [slot EXCEPT ![t] = @ + 1]
            /\ UNCHANGED pc
       ELSE Goto(t, "store") /\ UNCHANGED <<offsets, asked, slot>>
    /\ UNCHANGED <<clock, driver, lookup, lock, fd, cached, cachedAt,
                   goal, began, now, read, got, stored, cut>>

(* The parsed table, or None if it is too short, replaces the cached one. *)
Store(t) ==
    /\ pc[t] = "store"
    /\ \/ LET snapshot == [at |-> read[t], offsets |-> offsets] IN
            /\ cached' = snapshot
            /\ Return(t, snapshot)
            /\ stored' = Append(stored, now[t])
       \/ cached' = NoSnapshot /\ Return(t, NoSnapshot) /\ UNCHANGED stored
    /\ cachedAt' = now[t]
    /\ Release
    /\ UNCHANGED <<clock, driver, lookup, fd, offsets, asked, cut>>

-----------------------------------------------------------------------------
(* The end of a session, and interrupts *)

(* The dashboard thread has ended before main closes the reader. *)
End(t) ==
    /\ t # Main /\ pc[t] = "idle"
    /\ Goto(t, "over")
    /\ UNCHANGED <<clock, driver, lookup, lock, table, goal, began, now, read, slot, got, past>>

Close ==
    /\ pc[Main] = "idle" /\ \A t \in Threads \ {Main} : pc[t] = "over"
    /\ lock = NoThread
    /\ fd' = FALSE
    /\ Goto(Main, "over")
    /\ UNCHANGED <<clock, driver, lookup, lock, offsets, cached, cachedAt,
                   goal, began, now, read, slot, got, past>>

(* KeyboardInterrupt in a call of the main thread: with releases the lock, and
   the summary may call again while unwinding. *)
Interrupt ==
    /\ Len(cut) < MaxInterrupts
    /\ pc[Main] \notin {"idle", "over"}
    /\ cut' = Append(cut, pc[Main])
    /\ lock' = IF lock = Main THEN NoThread ELSE lock
    /\ Return(Main, NoSnapshot)
    /\ UNCHANGED <<clock, driver, lookup, table, stored, asked>>

ThreadStep(t) ==
    \/ CheckResolved(t) \/ MarkResolved(t) \/ FetchVersion(t) \/ Answer(t)
    \/ CheckCache(t) \/ TransferFails(t) \/ Transfer(t) \/ BeginOffsets(t) \/ AskOffset(t) \/ Store(t)

Next ==
    \/ Tick \/ Interrupt \/ Close
    \/ \E t \in Threads : Call(t) \/ Acquire(t) \/ ThreadStep(t) \/ End(t)

Spec == Init /\ [][Next]_vars

(* Both threads are scheduled.  The lock is free most of the time (a thread
   takes it once per refresh or sample), so a waiting thread gets it. *)
Fairness == \A t \in Threads : WF_vars(ThreadStep(t)) /\ SF_vars(Acquire(t))

FairSpec == Spec /\ Fairness

-----------------------------------------------------------------------------
(* What a call returns was read less than min_interval before the call was
   made, whoever read it and however long the mailbox commands took. *)
SnapshotIsFresh ==
    \A t \in Threads : got[t] # NoSnapshot => got[t].at + MinInterval > began[t]

CutIn(steps) == \E i \in 1 .. Len(cut) : cut[i] \in steps

(* "concurrent readers share a single PM table transfer" (lib/smu.py:399): two
   transfers that led to a snapshot were decided min_interval apart.  "Curve
   Optimizer offsets are resolved once" (lib/smu.py:398): no slot is asked for
   twice, and every snapshot tells the offsets of all slots, unless an interrupt
   cut the one attempt to read them, which is never repeated. *)
DriverIsSpared ==
    /\ \A i \in 1 .. Len(stored) - 1 : stored[i + 1] - stored[i] >= MinInterval
    /\ \A s \in 1 .. Slots : asked[s] <= 1
    /\ \A t \in Threads :
           got[t] # NoSnapshot /\ got[t].offsets # 1 .. Slots => CutIn({"slots"})

(* "Thread-safe reader" (lib/smu.py:397): with a supported driver a thread is
   told that there is none only while another one is reading the version, which
   is marked as resolved before it is read, or for ever after an interrupt in
   that moment. *)
DeniedOnlyWhileResolving ==
    [][\A t \in Threads :
           pc[t] = "answer" /\ pc'[t] = "idle" /\ cut' = cut /\ ~HasLayout /\ driver = "supported" =>
               (\E u \in Threads : pc[u] = "fetch") \/ CutIn({"fetch"})]_vars

(* Every call returns: neither a failed transfer nor an interrupt keeps the lock. *)
CallsReturn == \A t \in Threads : (pc[t] # "idle") ~> (pc[t] \in {"idle", "over"})
=============================================================================
