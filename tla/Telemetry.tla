----------------------------- MODULE Telemetry -----------------------------
(***************************************************************************)
(* What a session knows about the core it tests.  Three numberings have to *)
(* meet: the cores of Linux (Topology), the slots of the SMU's table and   *)
(* the slots of its mailbox (PmTable).  A session discovers its cores,     *)
(* resolves the selection, pins each run to CPUs of a core                 *)
(* (_resolve_test_cpus), samples the core's clocks while the engine loads  *)
(* it (CoreTelemetryMonitor) and shows the Curve Optimizer offsets at its  *)
(* end.  What is made of the samples is in Statistics and Panes.           *)
(***************************************************************************)
EXTENDS PmTable

CONSTANT Sessions       \* machines and command lines

ASSUME MachineAssumption ==
    \A s \in Sessions :
        /\ s.machine.slots \in SUBSET AllSlots /\ s.machine.threads \in {1, 2}
        /\ s.machine.margins \in [AllSlots -> -(WordSize \div 2) .. WordSize \div 2 - 1]
        /\ s.mode \in {"off", "on", "cycle"} /\ s.cycles \in Nat \ {0}

VARIABLES
    session,    \* the machine and the command line, fixed
    pc,         \* where main is
    cores,      \* all_cores
    selected,   \* selected_cores
    cycle, index,   \* the cycle and core loops
    offsets,    \* the offsets the summary shows, by core
    pinned,     \* history: core and CPUs of every run
    seen        \* history: core and slot of every sample taken

vars == <<session, pc, cores, selected, cycle, index, offsets, pinned, seen>>

Machine == session.machine
Current == selected[index]

Init ==
    /\ session \in Sessions
    /\ pc = "start" /\ cores = <<>> /\ selected = <<>>
    /\ cycle = 1 /\ index = 1
    /\ offsets = <<>>
    /\ pinned = {} /\ seen = {}

-----------------------------------------------------------------------------
(* main: the cores of the machine, then those of the command line *)

Discover ==
    /\ pc = "start"
    /\ cores' = IF TopologyFails(Machine) THEN <<>> ELSE DiscoverTopology(Machine)
    /\ pc' = IF cores' = <<>> THEN "refused" ELSE "cores"
    /\ UNCHANGED <<session, selected, cycle, index, offsets, pinned, seen>>

Select ==
    /\ pc = "cores"
    /\ IF SelectionFails(session.selection, cores)
       THEN pc' = "refused" /\ UNCHANGED selected
       ELSE pc' = "loop" /\ selected' = SelectedCores(session.selection, cores)
    /\ UNCHANGED <<session, cores, cycle, index, offsets, pinned, seen>>

-----------------------------------------------------------------------------
(* The cycle loop, here without failures, which Orchestrator adds *)

(* Mutant of TestCpus: the number of siblings is not looked at. *)
TestCpusByPhase(cpus, mode, n) ==
    IF mode = "off" THEN {cpus[1]}
    ELSE IF mode = "on" \/ (n - 1) % 3 = 2 THEN {cpus[i] : i \in DOMAIN cpus}
    ELSE IF (n - 1) % 3 < Len(cpus) THEN {cpus[((n - 1) % 3) + 1]} ELSE {}

(* _resolve_test_cpus *)
TestCpus(cpus, mode, n) ==
    IF mode = "off" \/ Len(cpus) = 1 THEN {cpus[1]}
    ELSE IF mode = "on" \/ (n - 1) % 3 = 2 THEN {cpus[i] : i \in DOMAIN cpus}
    ELSE {cpus[((n - 1) % 3) + 1]}

StartRun ==
    /\ pc = "loop" /\ index <= Len(selected)
    /\ pc' = "run"
    /\ pinned' = pinned \cup
        {[core |-> Current.core_idx, cycle |-> cycle,
          cpus |-> TestCpus(Current.logical_cpus, session.mode, cycle)]}
    /\ UNCHANGED <<session, cores, selected, cycle, index, offsets, seen>>

NextCycle ==
    /\ pc = "loop" /\ index > Len(selected)
    /\ IF cycle >= session.cycles
       THEN pc' = "summary" /\ UNCHANGED <<cycle, index>>
       ELSE cycle' = cycle + 1 /\ index' = 1 /\ UNCHANGED pc
    /\ UNCHANGED <<session, cores, selected, offsets, pinned, seen>>

-----------------------------------------------------------------------------
(* CoreTelemetryMonitor.poll, once the interval elapsed *)

SlotOf == SlotOfCore(Machine.version, Machine.slots, Len(cores))

(* The table is readable and has metrics of the core. *)
HasMetrics(n) == Supported(Machine.version) /\ n \in DOMAIN SlotOf

(* The slot is fully loaded at a boost clock; a core that is not loaded gives no
   sample. *)
TakeSample ==
    /\ pc = "run"
    /\ HasMetrics(Current.core_idx)
    /\ seen' = seen \cup {[core |-> Current.core_idx, slot |-> SlotOf[Current.core_idx]]}
    /\ UNCHANGED <<session, pc, cores, selected, cycle, index, offsets, pinned>>

(* run_test returns. *)
EndRun ==
    /\ pc = "run"
    /\ pc' = "loop" /\ index' = index + 1
    /\ UNCHANGED <<session, cores, selected, cycle, offsets, pinned, seen>>

(* The stop request ends the run as INTERRUPTED, and the session. *)
Interrupted ==
    /\ pc = "run"
    /\ pc' = "summary"
    /\ UNCHANGED <<session, cores, selected, cycle, index, offsets, pinned, seen>>

-----------------------------------------------------------------------------
(* on_session_end asks the reader for the offsets of all cores. *)
Summarize ==
    /\ pc = "summary"
    /\ pc' = "over"
    /\ offsets' = IF Supported(Machine.version) THEN CoOffsetsByCore(Machine, Len(cores)) ELSE <<>>
    /\ UNCHANGED <<session, cores, selected, cycle, index, pinned, seen>>

Next ==
    \/ Discover \/ Select \/ StartRun \/ NextCycle
    \/ TakeSample \/ EndRun \/ Interrupted \/ Summarize

Spec == Init /\ [][Next]_vars

-----------------------------------------------------------------------------
OnlineSlots   == {s \in Machine.slots : OnlineCpus(Machine, s) # {}}
HardwareOf(n) == cores[n + 1].hardware_core_id
Asked         == IF session.selection.all THEN 0 .. Cardinality(OnlineSlots) - 1 ELSE Named(session.selection)

(* The cores are numbered from 0 in the order of their slots; a session tests the
   cores it was asked for, each once a cycle and in that order, or refuses to start
   when one does not exist; and a run is pinned to online CPUs of its one core, to
   all of them in mode "on", also if a sibling is offline. *)
AskedCoresAreTested ==
    /\ pc \in {"loop", "run"} =>
           /\ {selected[i].core_idx : i \in DOMAIN selected} = Asked
           /\ \A i, j \in DOMAIN selected : i < j => selected[i].core_idx < selected[j].core_idx
    /\ pc = "refused" =>
           \/ TopologyFails(Machine) \/ OnlineSlots = {} \/ Asked = {}
           \/ ~Asked \subseteq 0 .. Cardinality(OnlineSlots) - 1
           \/ \E i \in DOMAIN session.selection.parts :
                  session.selection.parts[i].from > session.selection.parts[i].to
    /\ \A run \in pinned :
           /\ run.core = Cardinality(Below(HardwareOf(run.core), OnlineSlots))
           /\ run.cpus # {} /\ run.cpus \subseteq OnlineCpus(Machine, HardwareOf(run.core))
           /\ session.mode = "on" => run.cpus = OnlineCpus(Machine, HardwareOf(run.core))

(* Every working slot below the core's own counts as a core of Linux: none of
   their cores is offline, and where the table does not mark the working slots
   (Zen 1), none is fused off. *)
InOrder(n) ==
    Below(HardwareOf(n), IF LayoutOf(Machine.version).limits THEN Machine.slots ELSE AllSlots) \subseteq OnlineSlots

(* lib/smu.py:306: "fused-off slots are skipped when numbering cores, matching the
   Linux core order": with a known table every core under test has metrics; its
   samples come from its own slot exactly as long as the cores before it are in
   order, and its offset is then the one its own slot was set to. *)
TelemetryIsOfTheCore ==
    /\ pc = "run" /\ Supported(Machine.version) => HasMetrics(Current.core_idx)
    /\ \A s \in seen : s.slot = HardwareOf(s.core) <=> InOrder(s.core)
    /\ pc = "over" /\ LayoutOf(Machine.version).margins =>
           \A n \in {cores[i].core_idx : i \in DOMAIN cores} : InOrder(n) =>
               LET margin == Machine.margins[HardwareOf(n)]
               IN  IF margin \in -MaxMargin .. MaxMargin
                   THEN n \in DOMAIN offsets /\ offsets[n] = margin ELSE n \notin DOMAIN offsets
=============================================================================
