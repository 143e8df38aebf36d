------------------------------ MODULE Topology ------------------------------
(***************************************************************************)
(* From the CPUs Linux lists to the cores a session tests                  *)
(* (lib/topology.py): CPUs are grouped by their hardware core, the cores   *)
(* are numbered CCD by CCD and picked by the numbers of the command line.  *)
(* Pure operators.                                                         *)
(*                                                                         *)
(* A machine is given by what silicon and kernel have: the PM table slots  *)
(* with a working core, the threads of a core, the CPUs taken offline, and *)
(* whether the kernel tells the L3 caches and packages.  The ranking of    *)
(* the cores (CPPC) is shown to the user only and left out.                *)
(***************************************************************************)
EXTENDS Sequences, Order

CONSTANTS
    CcdSize,    \* core slots of a CCD (8)
    SlotCount   \* PM_TABLE_CORE_SLOTS (16)

(* The table and the mailbox have room for two CCDs (lib/smu.py:348, 476). *)
ASSUME SlotAssumption == CcdSize \in Nat \ {0} /\ SlotCount = 2 * CcdSize

AllSlots == 0 .. SlotCount - 1
Unknown  == -1      \* None of an optional integer

-----------------------------------------------------------------------------
(* Linux: the cores of the machine are numbered in the order of their slots,
   CPUs first thread by first thread, then the siblings. *)
Rank(m, s)       == Cardinality(Below(s, m.slots))
CpusOfSlot(m, s) == {Rank(m, s) + t * Cardinality(m.slots) : t \in 0 .. m.threads - 1}
OnlineCpus(m, s) == CpusOfSlot(m, s) \ m.offline

(* An offline CPU has no topology directory; without index3 there is no CCD. *)
CcdOf(m, s) == IF m.caches THEN s \div CcdSize ELSE Unknown

-----------------------------------------------------------------------------
OrZero(x) == IF x = Unknown THEN 0 ELSE x

(* The sort key of the cores: CCD, then hardware core id. *)
Precedes(m, s, r) ==
    \/ OrZero(CcdOf(m, s)) < OrZero(CcdOf(m, r))
    \/ OrZero(CcdOf(m, s)) = OrZero(CcdOf(m, r)) /\ s < r

(* raw_cores: the hardware cores that have a CPU *)
RawCores(m) == {s \in m.slots : OnlineCpus(m, s) # {}}

(* discover_topology; core_idx is the number of cores the sort puts before it. *)
DiscoverTopology(m) ==
    [i \in 1 .. Cardinality(RawCores(m)) |->
        LET hid == CHOOSE s \in RawCores(m) : Cardinality({r \in RawCores(m) : Precedes(m, r, s)}) = i - 1
        IN  [core_idx |-> i - 1, hardware_core_id |-> hid, ccd_id |-> CcdOf(m, hid),
             logical_cpus |-> Ascending(OnlineCpus(m, hid))]]

TopologyFails(m) == m.packages > 1

-----------------------------------------------------------------------------
(* parse_core_selection: "all", or a list of numbers and ranges. *)
Named(selection) == UNION {selection.parts[i].from .. selection.parts[i].to : i \in DOMAIN selection.parts}

SelectionFails(selection, cores) ==
    /\ ~selection.all
    /\ \/ selection.parts = <<>>
       \/ \E i \in DOMAIN selection.parts : selection.parts[i].from > selection.parts[i].to
       \/ \E n \in Named(selection) : ~\E i \in DOMAIN cores : cores[i].core_idx = n

SelectedCores(selection, cores) ==
    IF selection.all THEN cores
    ELSE LET indices == Ascending(Named(selection))
         IN  [k \in DOMAIN indices |-> cores[CHOOSE i \in DOMAIN cores : cores[i].core_idx = indices[k]]]
=============================================================================
