------------------------------ MODULE PmTable ------------------------------
(***************************************************************************)
(* Reading the tables of the SMU (the module functions of lib/smu.py and   *)
(* _read_co_offset): which layout a table version has, which core slot     *)
(* belongs to which core of Linux, how a slot is addressed in the mailbox, *)
(* and how its answer becomes a Curve Optimizer offset.  Pure operators;   *)
(* the reader around them is SmuReader.                                    *)
(***************************************************************************)
EXTENDS Topology

CONSTANTS
    WordSize,   \* 2^32: a mailbox word
    MaxMargin   \* offsets beyond this are no offsets (100)

ASSUME WordAssumption == MaxMargin \in Nat /\ WordSize \in Nat /\ WordSize > 2 * MaxMargin /\ WordSize % 2 = 0

(* What the code uses of a layout: whether it has the FIT and IDDMAX limits
   that mark a working slot, and the opcode that reads an offset. *)
Zen3 == [name |-> "zen3", limits |-> TRUE, margins |-> TRUE]
Zen2 == [name |-> "zen2", limits |-> TRUE, margins |-> FALSE]
Zen1 == [name |-> "zen1", limits |-> FALSE, margins |-> FALSE]
NoLayout == [name |-> "none", limits |-> FALSE, margins |-> FALSE]

Family(version) == (version \div \h10000) % \h100

(* get_smu_table_offsets *)
LayoutOf(version) ==
    IF Family(version) \in {\h38, \h2D} THEN Zen3
    ELSE IF Family(version) \in {\h24, \h37} THEN Zen2
    ELSE IF version \in {\h100, \h101} THEN Zen1
    ELSE NoLayout

Supported(version) == LayoutOf(version) # NoLayout

-----------------------------------------------------------------------------
(* parse_pm_table_buffer.  marked: the slots with a non-zero limit. *)

Prefix(seq, n) == SubSeq(seq, 1, IF Len(seq) < n THEN Len(seq) ELSE n)

(* Mutant of EnabledSlots: fused-off slots are numbered like the others. *)
EnabledSlotsInOrder(version, marked, count) ==
    Prefix(Ascending(AllSlots), count)

EnabledSlots(version, marked, count) ==
    LET enabled == IF LayoutOf(version).limits THEN marked ELSE {}
    IN  Prefix(Ascending(IF enabled = {} THEN 0 .. count - 1 ELSE enabled), count)

(* The slots the table lists: those of the second CCD only if it is there. *)
TotalSlots(version, marked, count) ==
    LET enabled == EnabledSlots(version, marked, count)
    IN  IF count > CcdSize \/ \E i \in DOMAIN enabled : enabled[i] >= CcdSize THEN SlotCount ELSE CcdSize

(* SmuSnapshot.cores: core_idx to the slot its metrics are read from. *)
SlotOfCore(version, marked, count) ==
    LET enabled == EnabledSlots(version, marked, count)
    IN  [n \in {i - 1 : i \in {i \in DOMAIN enabled : enabled[i] < TotalSlots(version, marked, count)}}
            |-> enabled[n + 1]]

-----------------------------------------------------------------------------
(* _read_co_offset *)

(* ((slot & 8) << 5 | (slot & 7)) << 20 *)
CoreMask(slot) == [ccd |-> (slot \div CcdSize) % 2, core |-> slot % CcdSize]

Signed(word) == IF word > WordSize \div 2 - 1 THEN word - WordSize ELSE word

(* The mailbox answers for a slot that has a core, with a two's complement. *)
Addressed(m, mask) == mask.ccd * CcdSize + mask.core
Response(m, mask)  == m.margins[Addressed(m, mask)] % WordSize

ReadsOffset(m, slot) ==
    /\ LayoutOf(m.version).margins
    /\ Addressed(m, CoreMask(slot)) \in m.slots
    /\ Signed(Response(m, CoreMask(slot))) \in -MaxMargin .. MaxMargin

(* _read_co_offsets_locked: offsets by slot. *)
CoOffsets(m) == [s \in {s \in AllSlots : ReadsOffset(m, s)} |-> Signed(Response(m, CoreMask(s)))]

(* co_offsets_by_core *)
CoOffsetsByCore(m, count) ==
    LET slotOf == SlotOfCore(m.version, m.slots, count)
    IN  [n \in {n \in DOMAIN slotOf : slotOf[n] \in DOMAIN CoOffsets(m)} |-> CoOffsets(m)[slotOf[n]]]
=============================================================================
