---------------------------- MODULE KernelErrors ----------------------------
(***************************************************************************)
(* Hardware errors of the kernel log: the monitor thread of                *)
(* lib/monitors.py (KernelErrorMonitor) reads /dev/kmsg while the main     *)
(* thread starts runs (lib/orchestrator.py), and attributes each record to *)
(* the run in progress when it was LOGGED, however late it is read.  The   *)
(* two threads share the timeline of run starts under _timeline_lock.      *)
(*                                                                         *)
(* Time is the kernel clock in ticks; a record carries its time truncated  *)
(* to Resolution ticks (kmsg counts microseconds, the run starts are       *)
(* finer).  A record also remembers, as history, how many runs had started *)
(* when it was logged: that is what the attribution should find again; and *)
(* whether a core was being tested.                                        *)
(***************************************************************************)
EXTENDS Integers, Sequences

CONSTANTS
    Cores,        \* cores a run may test
    Resolution,   \* ticks per microsecond of a kmsg timestamp
    BufferSize,   \* records the kernel ring buffer keeps
    MaxTime, MaxRuns, MaxRecords    \* bounds of the clock, the runs and the log

ASSUME ResolutionAssumption == Resolution \in Nat \ {0}
ASSUME BufferAssumption == BufferSize \in Nat \ {0}
ASSUME BoundAssumption == MaxTime \in Nat /\ MaxRuns \in Nat /\ MaxRecords \in Nat

NoCore == "none"
ASSUME CoreAssumption == NoCore \notin Cores

VARIABLES
    clock,      \* CLOCK_MONOTONIC_RAW
    log,        \* every record the kernel logged
    pc,         \* main thread: session and run in progress
    starts,     \* _run_starts
    cores,      \* _run_cores
    began,      \* the clock read for the start being recorded
    lock,       \* _timeline_lock
    unjoined,   \* history: a second signal cut the join of the thread
    summary,    \* mce_events as printed by on_session_end
    mpc,        \* monitor thread
    running,    \* KernelErrorMonitor._running
    first,      \* position lseek(SEEK_END) left the reader at
    next,       \* next record to read
    rec,        \* record handed to the callback
    stamp,      \* timestamp the callback works with
    events      \* mce_events

timeline == <<starts, cores, began>>
session  == <<pc, unjoined, summary>>
reader   == <<mpc, first, next, rec, stamp>>
vars     == <<clock, log, session, timeline, lock, reader, running, events>>

MainSteps    == {"setup", "idle", "stamped", "half", "testing", "closing", "join", "summary", "done"}
MonitorSteps == {"off", "check", "select", "read", "stamp", "lock", "present", "ended", "dead"}

Records == [at : Nat, hw : BOOLEAN, timed : BOOLEAN, during : Nat, inRun : BOOLEAN]
Events  == [record : Nat \ {0}, pos : Nat, tested : Cores \cup {NoCore}]

TypeOK ==
    /\ clock \in Nat
    /\ log \in Seq(Records)
    /\ pc \in MainSteps /\ mpc \in MonitorSteps
    /\ starts \in Seq(Nat) /\ cores \in Seq(Cores) /\ began \in Nat
    /\ lock \in {"free", "main", "monitor"}
    /\ unjoined \in BOOLEAN /\ running \in BOOLEAN
    /\ first \in Nat \ {0} /\ next \in Nat \ {0} /\ rec \in Nat /\ stamp \in Nat
    /\ events \in Seq(Events) /\ summary \in Seq(Events)

Init ==
    /\ clock = 0 /\ log = <<>>
    /\ pc = "setup" /\ unjoined = FALSE /\ summary = <<>>
    /\ starts = <<>> /\ cores = <<>> /\ began = 0 /\ lock = "free"
    /\ mpc = "off" /\ running = FALSE
    /\ first = 1 /\ next = 1 /\ rec = 0 /\ stamp = 0
    /\ events = <<>>

-----------------------------------------------------------------------------
(* The kernel *)

(* The run whose start was read last: the truth the attribution looks for. *)
InProgress == IF pc = "stamped" THEN Len(starts) + 1 ELSE Len(starts)

Tick ==
    /\ clock < MaxTime
    /\ clock' = clock + 1
    /\ UNCHANGED <<log, session, timeline, lock, reader, running, events>>

LogRecord ==
    /\ Len(log) < MaxRecords
    /\ pc # "done"
    /\ \E hw, timed \in BOOLEAN :
         log' = Append(log, [at |-> clock, hw |-> hw, timed |-> timed,
                             during |-> InProgress, inRun |-> pc = "testing"])
    /\ UNCHANGED <<clock, session, timeline, lock, reader, running, events>>

Oldest == IF Len(log) > BufferSize THEN Len(log) - BufferSize + 1 ELSE 1

Timestamp(r) == log[r].at - (log[r].at % Resolution)

-----------------------------------------------------------------------------
(* The main thread *)

(* KernelErrorMonitor.start: only records after the current end are read. *)
StartMonitor ==
    /\ pc = "setup"
    /\ pc' = "idle"
    /\ \/ /\ running' = TRUE
          /\ mpc' = "check"
          /\ first' = Len(log) + 1
          /\ next' = Len(log) + 1
       \/ UNCHANGED <<running, mpc, first, next>>   \* kmsg is not readable
    /\ UNCHANGED <<clock, log, unjoined, summary, timeline, lock, rec, stamp, events>>

(* Mutant of ReadStart: the clock is read before the lock is taken. *)
ReadStartUnlocked ==
    /\ pc = "idle"
    /\ Len(starts) < MaxRuns
    /\ began' = clock
    /\ pc' = "stamped"
    /\ UNCHANGED <<clock, log, unjoined, summary, starts, cores, lock, reader, running, events>>

(* _record_run_start, up to each point where an interrupt can end it. *)
ReadStart ==
    /\ pc = "idle"
    /\ Len(starts) < MaxRuns
    /\ lock = "free" /\ lock' = "main"
    /\ began' = clock
    /\ pc' = "stamped"
    /\ UNCHANGED <<clock, log, unjoined, summary, starts, cores, reader, running, events>>

AppendStart ==
    /\ pc = "stamped"
    /\ starts' = Append(starts, began)
    /\ began' = 0
    /\ pc' = "half"
    /\ UNCHANGED <<clock, log, unjoined, summary, cores, lock, reader, running, events>>

AppendCore ==
    /\ pc = "half"
    /\ \E c \in Cores : cores' = Append(cores, c)
    /\ lock' = "free"
    /\ pc' = "testing"
    /\ UNCHANGED <<clock, log, unjoined, summary, starts, began, reader, running, events>>

EndRun ==
    /\ pc = "testing"
    /\ pc' = "idle"
    /\ UNCHANGED <<clock, log, unjoined, summary, timeline, lock, reader, running, events>>

(* _run_cycles returns, or an exception unwinds it. *)
LeaveCycles ==
    /\ pc \in {"idle", "testing"}
    /\ pc' = "closing"
    /\ UNCHANGED <<clock, log, unjoined, summary, timeline, lock, reader, running, events>>

(* The second signal: with blocks release the lock, close() is cut short. *)
Abort ==
    /\ pc \in {"idle", "stamped", "half", "testing", "join"}
    /\ unjoined' = (unjoined \/ pc = "join")
    /\ pc' = IF pc = "join" THEN "summary" ELSE "closing"
    /\ lock' = IF lock = "main" THEN "free" ELSE lock
    /\ UNCHANGED <<clock, log, summary, timeline, reader, running, events>>

(* Mutants of CloseMonitor: the thread is not told; the thread is not joined. *)
CloseWithoutFlag ==
    /\ pc = "closing"
    /\ pc' = IF mpc = "off" THEN "summary" ELSE "join"
    /\ UNCHANGED <<clock, log, unjoined, summary, timeline, lock, reader, running, events>>

CloseWithoutJoin ==
    /\ pc = "closing"
    /\ running' = FALSE
    /\ pc' = "summary"
    /\ UNCHANGED <<clock, log, unjoined, summary, timeline, lock, reader, events>>

CloseMonitor ==
    /\ pc = "closing"
    /\ running' = FALSE
    /\ pc' = IF mpc = "off" THEN "summary" ELSE "join"
    /\ UNCHANGED <<clock, log, unjoined, summary, timeline, lock, reader, events>>

Join ==
    /\ pc = "join"
    /\ mpc \in {"ended", "dead"}
    /\ pc' = "summary"
    /\ UNCHANGED <<clock, log, unjoined, summary, timeline, lock, reader, running, events>>

Summarize ==
    /\ pc = "summary"
    /\ lock = "free"
    /\ summary' = events
    /\ pc' = "done"
    /\ UNCHANGED <<clock, log, unjoined, timeline, lock, reader, running, events>>

-----------------------------------------------------------------------------
(* The monitor thread *)

Thread == UNCHANGED <<clock, log, session, timeline, running>>

CheckRunning ==
    /\ mpc = "check"
    /\ mpc' = IF running THEN "select" ELSE "ended"
    /\ Thread /\ UNCHANGED <<first, next, rec, stamp, lock, events>>

Select ==
    /\ mpc = "select"
    /\ mpc' = IF next <= Len(log) THEN "read" ELSE "check"
    /\ Thread /\ UNCHANGED <<first, next, rec, stamp, lock, events>>

(* Mutant of ReadPending: reading resumes one past the oldest record. *)
ReadSkippingOne ==
    /\ mpc = "read"
    /\ IF next > Len(log) THEN mpc' = "check" /\ UNCHANGED <<next, rec>>
       ELSE /\ next' = (IF next < Oldest THEN Oldest ELSE next) + 1
            /\ rec' = next
            /\ mpc' = IF next >= Oldest /\ log[next].hw THEN "stamp" ELSE "read"
    /\ Thread /\ UNCHANGED <<first, stamp, lock, events>>

(* Mutant of ReadPending: the position is not advanced past a reported record. *)
ReadTwice ==
    /\ mpc = "read"
    /\ IF next > Len(log) THEN mpc' = "check" /\ UNCHANGED <<next, rec>>
       ELSE IF next < Oldest THEN next' = Oldest /\ UNCHANGED <<mpc, rec>>
       ELSE /\ next' = IF log[next].hw /\ rec # next THEN next ELSE next + 1
            /\ rec' = next
            /\ mpc' = IF log[next].hw THEN "stamp" ELSE "read"
    /\ Thread /\ UNCHANGED <<first, stamp, lock, events>>

(* Mutant of ReadPending: EPIPE ends the thread. *)
ReadUntilOverrun ==
    /\ mpc = "read"
    /\ IF next > Len(log) THEN mpc' = "check" /\ UNCHANGED <<next, rec>>
       ELSE IF next < Oldest THEN mpc' = "ended" /\ UNCHANGED <<next, rec>>
       ELSE /\ next' = next + 1
            /\ rec' = next
            /\ mpc' = IF log[next].hw THEN "stamp" ELSE "read"
    /\ Thread /\ UNCHANGED <<first, stamp, lock, events>>

(* One read of _read_pending: nothing left, records overwritten (EPIPE, the
   next read resumes at the oldest), or one record; parse_kmsg_record passes
   on hardware errors only. *)
ReadPending ==
    /\ mpc = "read"
    /\ IF next > Len(log) THEN mpc' = "check" /\ UNCHANGED <<next, rec>>
       ELSE IF next < Oldest THEN next' = Oldest /\ UNCHANGED <<mpc, rec>>
       ELSE /\ next' = next + 1
            /\ rec' = next
            /\ mpc' = IF log[next].hw THEN "stamp" ELSE "read"
    /\ Thread /\ UNCHANGED <<first, stamp, lock, events>>

(* _on_kernel_event: a record without timestamp takes the time of its reading. *)
TakeStamp ==
    /\ mpc = "stamp"
    /\ stamp' = IF log[rec].timed THEN Timestamp(rec) ELSE clock
    /\ mpc' = "lock"
    /\ Thread /\ UNCHANGED <<first, next, rec, lock, events>>

Acquire ==
    /\ mpc = "lock"
    /\ lock = "free" /\ lock' = "monitor"
    /\ UNCHANGED <<clock, log, session, timeline, running, reader, events>>

(* bisect.bisect_right of a sorted list. *)
IsBisectRight(s, x, pos) ==
    /\ pos \in 0 .. Len(s)
    /\ \A i \in 1 .. pos : s[i] <= x
    /\ \A i \in pos + 1 .. Len(s) : s[i] > x

(* Mutant of Attribute: the run in progress when the record is READ. *)
AttributeToCurrent ==
    /\ mpc = "lock" /\ lock = "monitor"
    /\ LET pos == Len(starts) IN
         IF pos > Len(cores)
         THEN mpc' = "dead" /\ UNCHANGED events
         ELSE /\ events' = Append(events, [record |-> rec, pos |-> pos,
                             tested |-> IF pos = 0 THEN NoCore ELSE cores[pos]])
              /\ mpc' = "present"
    /\ lock' = "free" /\ stamp' = 0
    /\ Thread /\ UNCHANGED <<first, next, rec>>

(* The run whose start is the last one not after the stamp.  If an interrupt
   split the two appends of that run, _run_cores has no entry for it:
   IndexError ends the thread. *)
Attribute ==
    /\ mpc = "lock" /\ lock = "monitor"
    /\ \E pos \in 0 .. Len(starts) :
         /\ IsBisectRight(starts, stamp, pos)
         /\ IF pos > Len(cores)
            THEN mpc' = "dead" /\ UNCHANGED events
            ELSE /\ events' = Append(events, [record |-> rec, pos |-> pos,
                                tested |-> IF pos = 0 THEN NoCore ELSE cores[pos]])
                 /\ mpc' = "present"
    /\ lock' = "free" /\ stamp' = 0
    /\ Thread /\ UNCHANGED <<first, next, rec>>

(* presenter.on_hardware_error, outside the lock; an exception of it (the log
   file cannot be written) ends the thread silently. *)
Present ==
    /\ mpc = "present"
    /\ mpc' \in {"read", "dead"}
    /\ Thread /\ UNCHANGED <<first, next, rec, stamp, lock, events>>

-----------------------------------------------------------------------------
MonitorStep ==
    \/ CheckRunning \/ Select \/ ReadPending \/ TakeStamp \/ Acquire \/ Attribute \/ Present

MainStep ==
    \/ StartMonitor \/ ReadStart \/ AppendStart \/ AppendCore \/ EndRun \/ LeaveCycles
    \/ Abort \/ CloseMonitor \/ Join \/ Summarize

Next == Tick \/ LogRecord \/ MonitorStep \/ MainStep

Spec == Init /\ [][Next]_vars

(* Both threads are scheduled; the main thread leaves the locked section and,
   once closing, goes on to the end.  Runs need not end.  The lock needs no
   strong fairness: each thread takes it once per run or per error. *)
Fairness ==
    /\ WF_vars(MonitorStep)
    /\ WF_vars(AppendStart \/ AppendCore)
    /\ WF_vars(CloseMonitor \/ Join \/ Summarize)

FairSpec == Spec /\ Fairness

-----------------------------------------------------------------------------
(* A hardware error is attributed to the core tested when it was logged, no
   matter how many runs started before the monitor read it: the run found
   differs from the run then in progress only by runs that started within the
   resolution of the timestamp (_on_kernel_event; README, Features). *)
Attributed(e) ==
    LET r == log[e.record] IN
    /\ e.tested = IF e.pos = 0 THEN NoCore ELSE cores[e.pos]
    /\ r.timed => \A i \in 1 .. Len(starts) :
          /\ i <= r.during /\ i > e.pos => r.at - starts[i] < Resolution
          /\ i > r.during /\ i <= e.pos => starts[i] = r.at

AttributionCorrect == \A k \in 1 .. Len(events) : Attributed(events[k])

(* A record without timestamp, which takes the time of its reading, never goes
   to a run older than the one in progress when it was logged. *)
UntimedNotEarlier ==
    \A k \in 1 .. Len(events) :
        LET r == log[events[k].record]
        IN  ~r.timed /\ r.during <= Len(starts) => events[k].pos >= r.during

(* Only hardware errors logged after start() are reported, in the order of the
   log and each once. *)
ReportedOnceInOrder ==
    \A k \in 1 .. Len(events) :
        /\ log[events[k].record].hw
        /\ events[k].record >= first
        /\ k > 1 => events[k - 1].record < events[k].record

(* A run has a start and no core, and never gets one. *)
Broken == Len(cores) # Len(starts) /\ pc # "half"

(* No hardware error the monitor has read is dropped: it is in mce_events
   before anyone is told of it, or its callback is under way.  It is lost only
   if the ring buffer overwrote it, and the one in hand if a second signal broke
   the timeline between its two appends: the thread ends with that record. *)
ReadIsRecorded ==
    \A i \in first .. next - 1 :
        \/ ~log[i].hw
        \/ \E k \in 1 .. Len(events) : events[k].record = i
        \/ mpc \in {"stamp", "lock"} /\ i = rec
        \/ i < Oldest
        \/ Broken /\ mpc = "dead" /\ i = rec

(* The printed summary holds every event of the session: the thread has ended
   before it is made, unless a second signal cut the join; one before that does
   not matter. *)
SummaryIsFinal == pc = "done" /\ ~unjoined => summary = events

(* KernelErrorMonitor (lib/monitors.py:85): "Watches /dev/kmsg for hardware
   errors for the whole session": an error logged before the session leaves its
   runs, and still in the ring buffer, is reported. *)
WatchesWholeSession ==
    pc = "done" /\ ~unjoined /\ mpc = "ended" =>
        \A i \in first .. Len(log) :
            log[i].hw /\ log[i].inRun /\ i >= Oldest => \E k \in 1 .. Len(summary) : summary[k].record = i

(* While the monitor runs, a hardware error is reported or overwritten. *)
ErrorsGetReported ==
    \A i \in 1 .. MaxRecords :
        (running /\ i \in first .. Len(log) /\ log[i].hw)
            ~> (\/ \E k \in 1 .. Len(events) : events[k].record = i
                \/ i < Oldest \/ ~running \/ mpc = "dead")

(* close() returns: the thread notices, and nobody keeps the lock. *)
SessionEnds == pc = "closing" ~> pc = "done"
=============================================================================
