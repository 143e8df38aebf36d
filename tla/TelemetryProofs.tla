-------------------------- MODULE TelemetryProofs --------------------------
(***************************************************************************)
(* Theorems about Telemetry, and the lemmas about Order, Topology and      *)
(* PmTable they rest on.                                                   *)
(*                                                                         *)
(* Three numberings are compared, and each gives a slot the number of the  *)
(* members of some set below it: Linux counts the slots with a CPU online, *)
(* the table the slots it marks, or all of them.  Counting in the larger   *)
(* set finds the same slot exactly when that set has nothing more below it *)
(* (SameSlot).  Everything else is what sorting a finite set gives         *)
(* (AscendingIsSorted), that the mask and the signed word lead back to the *)
(* slot and its margin (MaskAddressesSlot, SignedReads), and an invariant  *)
(* that ties the cores, the selection, the runs and the samples of a       *)
(* session to its machine (TInv).                                          *)
(***************************************************************************)
EXTENDS Telemetry, FiniteSetTheorems, TLAPS

-----------------------------------------------------------------------------
(* Finite sets of numbers in ascending order *)

UpTo(S, n) == {m \in S : m <= n}

(* The number of members up to n identifies n. *)
LEMMA RankIsMonotonic ==
  ASSUME NEW S \in SUBSET Nat, IsFiniteSet(S), NEW m \in S, NEW n \in S, m < n
  PROVE  Cardinality(UpTo(S, m)) < Cardinality(UpTo(S, n))
<1>1. UpTo(S, n) \in SUBSET S /\ IsFiniteSet(UpTo(S, n))
  BY FS_Subset DEF UpTo
<1>2. UpTo(S, m) \subseteq UpTo(S, n)
  <2>1. \A k \in Nat : k <= m => k <= n
    OBVIOUS
  <2>2. QED
    BY <2>1 DEF UpTo
<1>3. n \in UpTo(S, n) /\ n \notin UpTo(S, m)
  BY DEF UpTo
<1>4. IsFiniteSet(UpTo(S, m))
  BY <1>1, <1>2, FS_Subset
<1>5. /\ Cardinality(UpTo(S, m)) <= Cardinality(UpTo(S, n))
      /\ Cardinality(UpTo(S, m)) # Cardinality(UpTo(S, n))
  BY <1>1, <1>2, <1>3, FS_Subset
<1>6. QED
  BY <1>1, <1>4, <1>5, FS_CardinalityType

LEMMA EveryRankIsTaken ==
  ASSUME NEW S \in SUBSET Nat, IsFiniteSet(S), NEW i \in 1 .. Cardinality(S)
  PROVE  \E n \in S : Cardinality(UpTo(S, n)) = i
<1> DEFINE N == Cardinality(S)
           rank == [n \in S |-> Cardinality(UpTo(S, n))]
<1>1. N \in Nat
  BY FS_CardinalityType
<1>2. \A n \in S : Cardinality(UpTo(S, n)) \in 1 .. N
  <2> TAKE n \in S
  <2>1. n \in UpTo(S, n) /\ UpTo(S, n) \subseteq S
    BY DEF UpTo
  <2>2. IsFiniteSet(UpTo(S, n)) /\ Cardinality(UpTo(S, n)) <= N
    BY <2>1, FS_Subset
  <2>3. Cardinality(UpTo(S, n)) \in Nat /\ Cardinality(UpTo(S, n)) # 0
    BY <2>1, <2>2, FS_CardinalityType, FS_EmptySet
  <2>4. QED
    BY <1>1, <2>2, <2>3
<1>3. \A m, n \in S : m # n => rank[m] # rank[n]
  <2> TAKE m, n \in S
  <2>1. m \in Nat /\ n \in Nat /\ rank[m] \in Nat /\ rank[n] \in Nat
    BY <1>1, <1>2
  <2>2. m < n => rank[m] < rank[n]
    BY RankIsMonotonic
  <2>3. n < m => rank[n] < rank[m]
    BY RankIsMonotonic
  <2>4. QED
    BY <2>1, <2>2, <2>3
<1>4. rank \in [S -> 1 .. N]
  BY <1>2
<1> HIDE DEF rank
<1>5. rank \in Injection(S, 1 .. N)
  BY <1>3, <1>4 DEF Injection, IsInjective
<1>6. IsFiniteSet(1 .. N) /\ Cardinality(1 .. N) = N
  BY <1>1, FS_Interval
<1>7. rank \in Surjection(S, 1 .. N)
  BY <1>5, <1>6, FS_Injection
<1>8. PICK n \in S : rank[n] = i
  BY <1>7 DEF Surjection
<1>9. QED
  BY <1>8 DEF rank

(* The rank from below, as the numbering of the cores counts. *)
LEMMA RankFromBelow ==
  ASSUME NEW S \in SUBSET Nat, IsFiniteSet(S), NEW n \in S
  PROVE  /\ Cardinality(Below(n, S)) \in Nat /\ IsFiniteSet(Below(n, S))
         /\ Cardinality(UpTo(S, n)) = Cardinality(Below(n, S)) + 1
<1>1. Below(n, S) \in SUBSET S /\ n \notin Below(n, S) /\ UpTo(S, n) = Below(n, S) \cup {n}
  <2>1. \A m \in S : m <= n <=> m < n \/ m = n
    OBVIOUS
  <2>2. ~(n < n)
    OBVIOUS
  <2>3. QED
    BY <2>1, <2>2 DEF Below, UpTo
<1>2. IsFiniteSet(Below(n, S))
  BY <1>1, FS_Subset
<1>3. QED
  BY <1>1, <1>2, FS_AddElement, FS_CardinalityType

(* Sorting lists every member once, the smaller first. *)
LEMMA AscendingIsSorted ==
  ASSUME NEW S \in SUBSET Nat, IsFiniteSet(S)
  PROVE  /\ Cardinality(S) \in Nat
         /\ Ascending(S) \in [1 .. Cardinality(S) -> S]
         /\ Ascending(S) \in Seq(S) /\ Len(Ascending(S)) = Cardinality(S)
         /\ \A i \in 1 .. Cardinality(S) : Cardinality(UpTo(S, Ascending(S)[i])) = i
         /\ \A n \in S : \E i \in 1 .. Cardinality(S) : Ascending(S)[i] = n
         /\ \A i, j \in 1 .. Cardinality(S) : i < j => Ascending(S)[i] < Ascending(S)[j]
<1> DEFINE N == Cardinality(S)
           a == Ascending(S)
<1>1. N \in Nat /\ \A n \in S : n \in Nat
  BY FS_CardinalityType
<1>2. \A i \in 1 .. N : a[i] \in S /\ Cardinality(UpTo(S, a[i])) = i
  <2> TAKE i \in 1 .. N
  <2>1. \E n \in S : Cardinality({m \in S : m <= n}) = i
    BY EveryRankIsTaken DEF UpTo
  <2>2. a[i] = CHOOSE n \in S : Cardinality({m \in S : m <= n}) = i
    BY DEF Ascending
  <2>3. QED
    BY <2>1, <2>2 DEF UpTo
<1>3. a \in [1 .. N -> S]
  BY <1>2 DEF Ascending
<1>4. a \in Seq(S) /\ Len(a) = N
  BY <1>1, <1>3
<1> HIDE DEF a
<1>5. ASSUME NEW m \in S, NEW n \in S, ~(Cardinality(UpTo(S, m)) > Cardinality(UpTo(S, n)))
      PROVE  m <= n
  <2>1. CASE n < m
    <3>1. Cardinality(UpTo(S, n)) < Cardinality(UpTo(S, m))
      BY <2>1, RankIsMonotonic
    <3>2. IsFiniteSet(UpTo(S, n)) /\ IsFiniteSet(UpTo(S, m))
      BY FS_Subset DEF UpTo
    <3>3. Cardinality(UpTo(S, n)) \in Nat /\ Cardinality(UpTo(S, m)) \in Nat
      BY <3>2, FS_CardinalityType
    <3>4. QED
      BY <1>5, <3>1, <3>3
  <2>2. QED
    BY <1>1, <2>1
<1>6. \A i, j \in 1 .. N : i < j => a[i] < a[j]
  <2> SUFFICES ASSUME NEW i \in 1 .. N, NEW j \in 1 .. N, i < j PROVE a[i] < a[j]
    OBVIOUS
  <2>1. a[i] \in S /\ a[j] \in S /\ Cardinality(UpTo(S, a[i])) = i /\ Cardinality(UpTo(S, a[j])) = j
    BY <1>2
  <2>2. a[i] \in Nat /\ a[j] \in Nat
    BY <1>1, <2>1
  <2>3. i # j /\ ~(i > j)
    BY <1>1
  <2>4. a[i] <= a[j] /\ a[i] # a[j]
    BY <1>5, <2>1, <2>3
  <2>5. QED
    BY <2>2, <2>4
<1>7. ASSUME NEW n \in S PROVE \E i \in 1 .. N : a[i] = n
  <2> DEFINE i == Cardinality(UpTo(S, n))
  <2>1. n \in UpTo(S, n) /\ UpTo(S, n) \in SUBSET S
    BY <1>1 DEF UpTo
  <2>2. i \in Nat /\ i # 0 /\ i <= N
    BY <2>1, FS_Subset, FS_CardinalityType, FS_EmptySet
  <2> HIDE DEF i
  <2>3. i \in 1 .. N
    BY <1>1, <2>2
  <2>4. a[i] \in S /\ Cardinality(UpTo(S, a[i])) = Cardinality(UpTo(S, n))
    BY <1>2, <2>3 DEF i
  <2>5. a[i] <= n /\ n <= a[i]
    <3>1. ~(i > i)
      BY <2>2
    <3>2. QED
      BY <1>5, <2>4, <3>1 DEF i
  <2>6. a[i] \in Nat /\ n \in Nat
    BY <1>1, <2>4
  <2>7. QED
    BY <2>3, <2>5, <2>6
<1>8. QED
  BY <1>1, <1>2, <1>3, <1>4, <1>6, <1>7 DEF a

-----------------------------------------------------------------------------
(* Slots: a table has room for two CCDs. *)

LEMMA SlotParts ==
  ASSUME NEW s \in AllSlots
  PROVE  /\ s \in Nat /\ s < SlotCount
         /\ s \div CcdSize = (IF s < CcdSize THEN 0 ELSE 1)
         /\ s % CcdSize = (IF s < CcdSize THEN s ELSE s - CcdSize)
<1>1. CcdSize \in Nat \ {0} /\ s \in Nat /\ s < 2 * CcdSize /\ s < SlotCount
  BY SlotAssumption DEF AllSlots
<1> DEFINE q == s \div CcdSize
           r == s % CcdSize
<1>2. q \in Nat /\ r \in 0 .. CcdSize - 1 /\ s = CcdSize * q + r
  <2>1. q \in Nat
    BY <1>1
  <2>2. r \in 0 .. CcdSize - 1
    BY <1>1
  <2>3. s = CcdSize * q + r
    BY <1>1
  <2>4. QED
    BY <2>1, <2>2, <2>3
<1> HIDE DEF q, r
<1>3. q = 0 \/ q = 1
  <2> SUFFICES ASSUME q >= 2 PROVE FALSE
    BY <1>2
  <2>1. PICK p \in Nat : q = p + 2
    BY <1>2
  <2>2. CcdSize * q = CcdSize * p + 2 * CcdSize /\ CcdSize * p >= 0
    BY <1>1, <2>1
  <2>3. QED
    BY <1>1, <1>2, <2>2
<1>4. QED
  BY <1>1, <1>2, <1>3 DEF q, r

(* The mask of a slot addresses that slot. *)
LEMMA MaskAddressesSlot ==
  ASSUME NEW m, NEW s \in AllSlots
  PROVE  Addressed(m, CoreMask(s)) = s
<1>1. 0 % 2 = 0 /\ 1 % 2 = 1
  OBVIOUS
<1>2. CcdSize \in Nat
  BY SlotAssumption
<1>3. (s \div CcdSize) % 2 = IF s < CcdSize THEN 0 ELSE 1
  BY <1>1, SlotParts
<1>4. ((s \div CcdSize) % 2) * CcdSize = IF s < CcdSize THEN 0 ELSE CcdSize
  BY <1>2, <1>3
<1>5. QED
  BY <1>2, <1>4, SlotParts DEF Addressed, CoreMask

(* A margin survives the unsigned word of the mailbox. *)
LEMMA SignedReads ==
  ASSUME NEW x \in -(WordSize \div 2) .. WordSize \div 2 - 1
  PROVE  Signed(x % WordSize) = x
<1>1. PICK h \in Nat : WordSize = 2 * h /\ WordSize \div 2 = h /\ h > 0
  BY WordAssumption
<1>2. x \in Int /\ -h <= x /\ x <= h - 1
  BY <1>1
<1>3. CASE x >= 0
  <2>1. x % WordSize = x
    BY <1>1, <1>2, <1>3
  <2>2. QED
    BY <1>1, <1>2, <2>1 DEF Signed
<1>4. CASE x < 0
  <2>1. x % WordSize = x + WordSize
    BY <1>1, <1>2, <1>4
  <2>2. QED
    BY <1>1, <1>2, <1>4, <2>1 DEF Signed
<1>5. QED
  BY <1>2, <1>3, <1>4

-----------------------------------------------------------------------------
(* The cores Linux numbers: the i-th has i - 1 others on lower slots. *)

LEMMA IntervalSize == ASSUME NEW k \in Nat PROVE IsFiniteSet(0 .. k - 1) /\ Cardinality(0 .. k - 1) = k
BY FS_Interval

LEMMA SlotsAreFinite ==
  /\ IsFiniteSet(AllSlots) /\ AllSlots \subseteq Nat
  /\ \A S \in SUBSET AllSlots : IsFiniteSet(S) /\ S \in SUBSET Nat
<1>1. SlotCount \in Nat
  BY SlotAssumption
<1>2. IsFiniteSet(AllSlots) /\ AllSlots \subseteq Nat
  BY <1>1, FS_Interval DEF AllSlots
<1>3. QED
  BY <1>2, FS_Subset

(* With two CCDs, CCD by CCD is slot by slot, also where the CCD is not known. *)
LEMMA CoresAreBySlot ==
  ASSUME NEW m, NEW r \in AllSlots, NEW s \in AllSlots
  PROVE  Precedes(m, r, s) <=> r < s
<1>1. /\ r \in Nat /\ s \in Nat
      /\ r \div CcdSize = (IF r < CcdSize THEN 0 ELSE 1)
      /\ s \div CcdSize = (IF s < CcdSize THEN 0 ELSE 1)
  BY SlotParts
<1>2. CcdSize \in Nat
  BY SlotAssumption
<1>3. CASE m.caches
  <2>1. /\ OrZero(CcdOf(m, r)) = (IF r < CcdSize THEN 0 ELSE 1)
        /\ OrZero(CcdOf(m, s)) = (IF s < CcdSize THEN 0 ELSE 1)
    BY <1>1, <1>3 DEF OrZero, CcdOf, Unknown
  <2>2. QED
    BY <1>1, <1>2, <2>1 DEF Precedes
<1>4. CASE ~m.caches
  <2>1. OrZero(CcdOf(m, r)) = 0 /\ OrZero(CcdOf(m, s)) = 0
    BY <1>4 DEF OrZero, CcdOf, Unknown
  <2>2. QED
    BY <1>1, <2>1 DEF Precedes
<1>5. QED
  BY <1>3, <1>4

(* discover_topology numbers a core by how many others have a lower slot. *)
LEMMA Numbering ==
  ASSUME NEW m, m.slots \in SUBSET AllSlots
  PROVE  /\ RawCores(m) \in SUBSET m.slots /\ Cardinality(RawCores(m)) \in Nat
         /\ DOMAIN DiscoverTopology(m) = 1 .. Cardinality(RawCores(m))
         /\ Len(DiscoverTopology(m)) = Cardinality(RawCores(m))
         /\ \A i \in 1 .. Cardinality(RawCores(m)) :
               LET core == DiscoverTopology(m)[i]
               IN  /\ core.core_idx = i - 1 /\ core.hardware_core_id \in RawCores(m)
                   /\ Cardinality(Below(core.hardware_core_id, RawCores(m))) = i - 1
                   /\ core.logical_cpus = Ascending(OnlineCpus(m, core.hardware_core_id))
<1> DEFINE S == RawCores(m)
           N == Cardinality(S)
           before(s) == {r \in S : Precedes(m, r, s)}
           hid(i) == CHOOSE s \in S : Cardinality(before(s)) = i - 1
           core(i) == [core_idx |-> i - 1, hardware_core_id |-> hid(i), ccd_id |-> CcdOf(m, hid(i)),
                       logical_cpus |-> Ascending(OnlineCpus(m, hid(i)))]
           found == DiscoverTopology(m)
<1>1. S \in SUBSET m.slots /\ S \in SUBSET AllSlots /\ S \in SUBSET Nat /\ IsFiniteSet(S) /\ N \in Nat
  BY SlotsAreFinite, FS_CardinalityType DEF RawCores
<1>2. \A s \in S : before(s) = Below(s, S)
  BY <1>1, CoresAreBySlot DEF Below
<1>3. found = [i \in 1 .. N |-> core(i)]
  BY DEF DiscoverTopology
<1>4. \A i \in 1 .. N : hid(i) \in S /\ Cardinality(Below(hid(i), S)) = i - 1
  <2> TAKE i \in 1 .. N
  <2>1. PICK s \in S : Cardinality(UpTo(S, s)) = i
    BY <1>1, EveryRankIsTaken
  <2>2. Cardinality(Below(s, S)) \in Nat /\ Cardinality(UpTo(S, s)) = Cardinality(Below(s, S)) + 1
    BY <1>1, RankFromBelow
  <2>3. Cardinality(Below(s, S)) = i - 1
    BY <2>1, <2>2
  <2>4. Cardinality(before(s)) = i - 1
    BY <1>2, <2>3
  <2>5. hid(i) \in S /\ Cardinality(before(hid(i))) = i - 1
    BY <2>4
  <2> HIDE DEF hid, before
  <2>6. QED
    BY <1>2, <2>5
<1> HIDE DEF hid, N
<1>5. DOMAIN found = 1 .. N /\ \A i \in 1 .. N : found[i] = core(i)
  BY <1>3
<1>6. found \in [1 .. N -> {core(i) : i \in 1 .. N}]
  BY <1>3
<1>7. Len(found) = N
  BY <1>1, <1>6
<1>8. \A i \in 1 .. N : /\ found[i].core_idx = i - 1 /\ found[i].hardware_core_id = hid(i)
                        /\ found[i].logical_cpus = Ascending(OnlineCpus(m, hid(i)))
  BY <1>5
<1> HIDE DEF found, core, S
<1>9. QED
  BY <1>1, <1>4, <1>5, <1>7, <1>8 DEF N, S, found

(* A core has one or two CPUs online, and they are listed in order. *)
LEMMA CpusOfCore ==
  ASSUME NEW m, m.slots \in SUBSET AllSlots, m.threads \in {1, 2}, NEW h \in RawCores(m)
  PROVE  LET cpus == Ascending(OnlineCpus(m, h))
         IN  /\ Len(cpus) \in {1, 2} /\ DOMAIN cpus = 1 .. Len(cpus)
             /\ OnlineCpus(m, h) = {cpus[i] : i \in DOMAIN cpus}
<1> DEFINE C == OnlineCpus(m, h)
           a == Rank(m, h)
           b == Cardinality(m.slots)
           cpus == Ascending(C)
<1>1. h \in m.slots /\ C # {}
  BY DEF RawCores
<1>2. a \in Nat /\ b \in Nat
  <2>1. m.slots \in SUBSET Nat /\ IsFiniteSet(m.slots)
    BY SlotsAreFinite
  <2>2. a \in Nat
    BY <1>1, <2>1, RankFromBelow DEF Rank
  <2>3. QED
    BY <2>1, <2>2, FS_CardinalityType
<1>3. C \in SUBSET {a, a + b}
  <2> HIDE DEF a, b
  <2>1. \A t \in 0 .. m.threads - 1 : a + t * b \in {a, a + b}
    <3> TAKE t \in 0 .. m.threads - 1
    <3>1. t = 0 \/ t = 1
      OBVIOUS
    <3>2. 0 * b = 0 /\ 1 * b = b
      BY <1>2
    <3>3. QED
      BY <1>2, <3>1, <3>2
  <2>2. CpusOfSlot(m, h) \subseteq {a, a + b}
    BY <2>1 DEF CpusOfSlot, a, b
  <2>3. QED
    BY <2>2 DEF OnlineCpus
<1> HIDE DEF a, b
<1>4. IsFiniteSet({a, a + b}) /\ Cardinality({a, a + b}) <= 2
  <2>1. IsFiniteSet({a}) /\ Cardinality({a}) = 1
    BY FS_Singleton
  <2>2. {a, a + b} = {a} \cup {a + b}
    OBVIOUS
  <2>3. /\ IsFiniteSet({a} \cup {a + b})
        /\ \/ Cardinality({a} \cup {a + b}) = Cardinality({a})
           \/ Cardinality({a} \cup {a + b}) = Cardinality({a}) + 1
    BY <2>1, FS_AddElement
  <2>4. QED
    BY <2>1, <2>2, <2>3
<1>5. IsFiniteSet(C) /\ Cardinality(C) <= 2 /\ Cardinality(C) \in Nat /\ Cardinality(C) # 0
  <2>1. IsFiniteSet(C) /\ Cardinality(C) <= Cardinality({a, a + b})
    BY <1>3, <1>4, FS_Subset
  <2>2. Cardinality(C) \in Nat /\ Cardinality({a, a + b}) \in Nat
    BY <1>4, <2>1, FS_CardinalityType
  <2>3. Cardinality(C) # 0
    BY <1>1, <2>1, FS_EmptySet
  <2>4. QED
    BY <1>4, <2>1, <2>2, <2>3
<1>6. C \in SUBSET Nat
  BY <1>2, <1>3
<1> HIDE DEF C
<1>7. /\ cpus \in [1 .. Cardinality(C) -> C] /\ Len(cpus) = Cardinality(C)
      /\ \A n \in C : \E i \in 1 .. Cardinality(C) : cpus[i] = n
  BY <1>5, <1>6, AscendingIsSorted
<1> HIDE DEF cpus
<1>8. Len(cpus) \in {1, 2} /\ DOMAIN cpus = 1 .. Len(cpus)
  BY <1>5, <1>7
<1>9. C = {cpus[i] : i \in DOMAIN cpus}
  BY <1>7
<1>10. QED
  BY <1>8, <1>9 DEF cpus, C

-----------------------------------------------------------------------------
(* The selection: the cores asked for, each once and in their order. *)

AskedOf(selection, count) == IF selection.all THEN 0 .. count - 1 ELSE Named(selection)

LEMMA Selecting ==
  ASSUME NEW m, m.slots \in SUBSET AllSlots, NEW selection,
         ~SelectionFails(selection, DiscoverTopology(m))
  PROVE  LET found == DiscoverTopology(m)
             chosen == SelectedCores(selection, found)
         IN  /\ Len(chosen) \in Nat /\ DOMAIN chosen = 1 .. Len(chosen)
             /\ \A k \in DOMAIN chosen : \E i \in DOMAIN found : chosen[k] = found[i]
             /\ {chosen[k].core_idx : k \in DOMAIN chosen} = AskedOf(selection, Len(found))
             /\ \A k, l \in DOMAIN chosen : k < l => chosen[k].core_idx < chosen[l].core_idx
<1> DEFINE found == DiscoverTopology(m)
           N == Len(found)
           chosen == SelectedCores(selection, found)
<1>1. /\ N \in Nat /\ DOMAIN found = 1 .. N
      /\ \A i \in 1 .. N : found[i].core_idx = i - 1
  BY Numbering
<1>2. ~SelectionFails(selection, found)
  OBVIOUS
<1> HIDE DEF found, N
<1>3. CASE selection.all
  <2>1. chosen = found
    BY <1>3 DEF SelectedCores
  <2>2. {found[k].core_idx : k \in 1 .. N} = 0 .. N - 1
    <3>1. \A k \in 1 .. N : found[k].core_idx \in 0 .. N - 1
      BY <1>1
    <3>2. \A n \in 0 .. N - 1 : n + 1 \in 1 .. N /\ found[n + 1].core_idx = n
      BY <1>1
    <3>3. QED
      BY <3>1, <3>2
  <2>3. \A k, l \in 1 .. N : k < l => found[k].core_idx < found[l].core_idx
    BY <1>1
  <2>4. Len(chosen) = N
    BY <2>1 DEF N
  <2> HIDE DEF chosen
  <2>5. QED
    BY <1>1, <1>3, <2>1, <2>2, <2>3, <2>4 DEF AskedOf, found, N, chosen
<1>4. CASE ~selection.all
  <2> DEFINE A == Named(selection)
             K == Cardinality(A)
             indices == Ascending(A)
             at(n) == CHOOSE i \in DOMAIN found : found[i].core_idx = n
  <2>1. \A n \in A : \E i \in DOMAIN found : found[i].core_idx = n
    BY <1>2, <1>4 DEF SelectionFails
  <2>2. A \subseteq 0 .. N - 1
    BY <1>1, <2>1
  <2>3. A \in SUBSET Nat /\ IsFiniteSet(A)
    <3>1. N \in Nat
      BY <1>1
    <3>2. IsFiniteSet(0 .. N - 1)
      BY <3>1, IntervalSize
    <3>3. \A n \in 0 .. N - 1 : n \in Nat
      OBVIOUS
    <3> HIDE DEF A
    <3>4. QED
      BY <2>2, <3>2, <3>3, FS_Subset
  <2>4. /\ K \in Nat /\ indices \in [1 .. K -> A]
        /\ \A n \in A : \E k \in 1 .. K : indices[k] = n
        /\ \A k, l \in 1 .. K : k < l => indices[k] < indices[l]
    BY <2>3, AscendingIsSorted
  <2>5. chosen = [k \in 1 .. K |-> found[at(indices[k])]]
    BY <1>4, <2>4 DEF SelectedCores
  <2>6. \A k \in 1 .. K : at(indices[k]) \in DOMAIN found /\ found[at(indices[k])].core_idx = indices[k]
    BY <2>1, <2>4
  <2> HIDE DEF at, indices, K
  <2>7. chosen \in [1 .. K -> {found[i] : i \in DOMAIN found}]
    BY <2>5, <2>6
  <2>8. Len(chosen) = K /\ DOMAIN chosen = 1 .. K
    BY <2>4, <2>7
  <2>9. \A k \in 1 .. K : /\ chosen[k].core_idx = indices[k]
                          /\ \E i \in DOMAIN found : chosen[k] = found[i]
    BY <2>5, <2>6
  <2> HIDE DEF chosen
  <2>10. {chosen[k].core_idx : k \in 1 .. K} = A
    BY <2>4, <2>9
  <2>11. \A k, l \in 1 .. K : k < l => chosen[k].core_idx < chosen[l].core_idx
    BY <2>4, <2>9
  <2>12. AskedOf(selection, N) = A
    BY <1>4 DEF AskedOf
  <2> HIDE DEF A
  <2>13. QED
    BY <2>4, <2>8, <2>9, <2>10, <2>11, <2>12 DEF chosen, found, N
<1>5. QED
  BY <1>3, <1>4

-----------------------------------------------------------------------------
(* The slots the metrics of the cores are read from *)

(* The slots the numbering of the table counts: the marked ones, or all. *)
TableSlots(m) == IF LayoutOf(m.version).limits THEN m.slots ELSE AllSlots

(* Cutting a sorted list keeps the smallest. *)
LEMMA FirstOfAscending ==
  ASSUME NEW T \in SUBSET Nat, IsFiniteSet(T), NEW n \in Nat, n <= Cardinality(T)
  PROVE  LET first == Prefix(Ascending(T), n)
         IN  /\ DOMAIN first = 1 .. n
             /\ \A i \in 1 .. n : first[i] \in T /\ Cardinality(Below(first[i], T)) = i - 1
<1> DEFINE K == Cardinality(T)
           a == Ascending(T)
           first == Prefix(a, n)
<1>1. /\ K \in Nat /\ a \in Seq(T) /\ Len(a) = K
      /\ \A i \in 1 .. K : a[i] \in T /\ Cardinality(UpTo(T, a[i])) = i
  BY AscendingIsSorted
<1> HIDE DEF a, K
<1>2. first = SubSeq(a, 1, n)
  <2>1. CASE K < n
    BY <1>1, <2>1 DEF K
  <2>2. CASE ~(K < n)
    BY <1>1, <2>2 DEF Prefix
  <2>3. QED
    BY <2>1, <2>2
<1>3. DOMAIN first = 1 .. n /\ \A i \in 1 .. n : first[i] = a[i]
  <2>1. n <= K
    BY DEF K
  <2>2. QED
    BY <1>1, <1>2, <2>1
<1>4. \A i \in 1 .. n : a[i] \in T /\ Cardinality(Below(a[i], T)) = i - 1
  <2> TAKE i \in 1 .. n
  <2>1. i \in 1 .. K
    BY <1>1 DEF K
  <2>2. a[i] \in T /\ Cardinality(UpTo(T, a[i])) = i
    BY <1>1, <2>1
  <2>3. Cardinality(Below(a[i], T)) \in Nat /\ Cardinality(UpTo(T, a[i])) = Cardinality(Below(a[i], T)) + 1
    BY <2>2, RankFromBelow
  <2>4. QED
    BY <2>2, <2>3
<1> HIDE DEF first
<1>5. QED
  BY <1>3, <1>4 DEF first, a

(* Counting numbers from zero: as many are below n as n says. *)
LEMMA BelowInterval ==
  ASSUME NEW k \in Nat, NEW n \in 0 .. k - 1
  PROVE  Cardinality(Below(n, 0 .. k - 1)) = n
<1>1. Below(n, 0 .. k - 1) = 0 .. n - 1
  BY DEF Below
<1>2. QED
  BY <1>1, FS_Interval

(* The n-th core of the table is the slot with n counted slots below it. *)
LEMMA SlotTable ==
  ASSUME NEW m, m.slots \in SUBSET AllSlots, NEW N \in Nat, N <= Cardinality(m.slots), N # 0
  PROVE  LET table == SlotOfCore(m.version, m.slots, N)
         IN  /\ DOMAIN table = 0 .. N - 1
             /\ \A n \in 0 .. N - 1 : table[n] \in TableSlots(m) /\ Cardinality(Below(table[n], TableSlots(m))) = n
<1> DEFINE T == TableSlots(m)
           enabled == EnabledSlots(m.version, m.slots, N)
           total == TotalSlots(m.version, m.slots, N)
           table == SlotOfCore(m.version, m.slots, N)
<1>1. m.slots \in SUBSET Nat /\ IsFiniteSet(m.slots) /\ Cardinality(m.slots) \in Nat
  BY SlotsAreFinite, FS_CardinalityType
<1>2. /\ SlotCount \in Nat /\ CcdSize \in Nat /\ IsFiniteSet(AllSlots) /\ Cardinality(AllSlots) = SlotCount
  <2>1. SlotCount \in Nat /\ CcdSize \in Nat
    BY SlotAssumption
  <2>2. QED
    BY <2>1, IntervalSize DEF AllSlots
<1>3. N <= SlotCount
  <2>1. Cardinality(m.slots) <= SlotCount
    BY <1>2, FS_Subset
  <2>2. QED
    BY <1>1, <1>2, <2>1
<1>4. /\ DOMAIN enabled = 1 .. N
      /\ \A i \in 1 .. N : enabled[i] \in T /\ Cardinality(Below(enabled[i], T)) = i - 1
  <2>1. CASE LayoutOf(m.version).limits
    <3>1. m.slots # {}
      BY <1>1, FS_EmptySet
    <3>2. enabled = Prefix(Ascending(m.slots), N) /\ T = m.slots
      BY <2>1, <3>1 DEF EnabledSlots, TableSlots
    <3> HIDE DEF enabled, T
    <3>3. QED
      BY <1>1, <3>2, FirstOfAscending
  <2>2. CASE ~LayoutOf(m.version).limits
    <3> DEFINE I == 0 .. N - 1
    <3>1. enabled = Prefix(Ascending(I), N) /\ T = AllSlots
      BY <2>2 DEF EnabledSlots, TableSlots
    <3>2. I \in SUBSET Nat /\ IsFiniteSet(I) /\ Cardinality(I) = N
      BY IntervalSize
    <3>3. \A i \in I : i \in AllSlots
      BY <1>2, <1>3 DEF AllSlots
    <3> HIDE DEF enabled, T, I
    <3>4. /\ DOMAIN enabled = 1 .. N
          /\ \A i \in 1 .. N : enabled[i] \in I /\ Cardinality(Below(enabled[i], I)) = i - 1
      BY <3>1, <3>2, FirstOfAscending
    <3>5. \A i \in 1 .. N : enabled[i] = i - 1
      <4> TAKE i \in 1 .. N
      <4>1. Cardinality(Below(enabled[i], I)) = enabled[i]
        BY <3>4, BelowInterval DEF I
      <4>2. QED
        BY <3>4, <4>1
    <3>6. \A i \in 1 .. N : Cardinality(Below(enabled[i], AllSlots)) = enabled[i]
      BY <1>2, <3>3, <3>4, BelowInterval DEF AllSlots
    <3>7. QED
      BY <3>1, <3>3, <3>4, <3>5, <3>6
  <2>3. QED
    BY <2>1, <2>2
<1>5. T \subseteq AllSlots
  BY DEF TableSlots
<1>6. \A i \in 1 .. N : enabled[i] < total
  <2> TAKE i \in 1 .. N
  <2>1. enabled[i] \in Nat /\ enabled[i] < SlotCount
    BY <1>2, <1>4, <1>5 DEF AllSlots
  <2>2. i \in DOMAIN enabled
    BY <1>4
  <2> DEFINE wide == N > CcdSize \/ \E j \in DOMAIN enabled : enabled[j] >= CcdSize
  <2>3. total = IF wide THEN SlotCount ELSE CcdSize
    BY DEF TotalSlots
  <2>4. ~wide => ~(enabled[i] >= CcdSize)
    BY <2>2
  <2> HIDE DEF enabled, total, wide
  <2>5. QED
    BY <1>2, <2>1, <2>3, <2>4
<1>7. table = [n \in {i - 1 : i \in {i \in DOMAIN enabled : enabled[i] < total}} |-> enabled[n + 1]]
  BY DEF SlotOfCore
<1> HIDE DEF table, enabled, total, T
<1>8. {i - 1 : i \in {i \in DOMAIN enabled : enabled[i] < total}} = 0 .. N - 1
  <2>1. {i \in DOMAIN enabled : enabled[i] < total} = 1 .. N
    BY <1>4, <1>6
  <2>2. \A i \in 1 .. N : i - 1 \in 0 .. N - 1
    OBVIOUS
  <2>3. \A n \in 0 .. N - 1 : n + 1 \in 1 .. N /\ n = (n + 1) - 1
    OBVIOUS
  <2>4. {i - 1 : i \in 1 .. N} = 0 .. N - 1
    BY <2>2, <2>3
  <2>5. QED
    BY <2>1, <2>4
<1>9. DOMAIN table = 0 .. N - 1 /\ \A n \in 0 .. N - 1 : table[n] = enabled[n + 1]
  BY <1>7, <1>8
<1>10. \A n \in 0 .. N - 1 : table[n] \in T /\ Cardinality(Below(table[n], T)) = n
  <2> TAKE n \in 0 .. N - 1
  <2>1. n + 1 \in 1 .. N /\ (n + 1) - 1 = n
    OBVIOUS
  <2>2. QED
    BY <1>4, <1>9, <2>1
<1>11. QED
  BY <1>9, <1>10 DEF table, T

(* Counting h's place among S and e's among T finds the same slot exactly when
   everything T has below h is in S. *)
LEMMA SameSlot ==
  ASSUME NEW T \in SUBSET Nat, IsFiniteSet(T), NEW S \in SUBSET T, NEW h \in S, NEW e \in T,
         Cardinality(Below(e, T)) = Cardinality(Below(h, S))
  PROVE  e = h <=> Below(h, T) \subseteq S
<1>1. IsFiniteSet(S) /\ h \in T /\ e \in Nat /\ h \in Nat
  BY FS_Subset
<1>2. Below(h, S) \subseteq Below(h, T) /\ IsFiniteSet(Below(h, T))
  BY <1>1, FS_Subset DEF Below
<1>3. ASSUME e = h PROVE Below(h, T) \subseteq S
  <2>1. Cardinality(Below(h, S)) = Cardinality(Below(h, T))
    BY <1>3
  <2>2. Below(h, S) = Below(h, T)
    BY <1>2, <2>1, FS_Subset
  <2>3. QED
    BY <2>2 DEF Below
<1>4. ASSUME Below(h, T) \subseteq S PROVE e = h
  <2>1. Below(h, T) = Below(h, S)
    BY <1>4 DEF Below
  <2>2. Cardinality(Below(e, T)) = Cardinality(Below(h, T))
    BY <2>1
  <2>3. /\ Cardinality(UpTo(T, e)) = Cardinality(Below(e, T)) + 1
        /\ Cardinality(UpTo(T, h)) = Cardinality(Below(h, T)) + 1
        /\ Cardinality(Below(h, T)) \in Nat
    BY <1>1, RankFromBelow
  <2>4. ~(e < h) /\ ~(h < e)
    <3>1. e < h => Cardinality(UpTo(T, e)) < Cardinality(UpTo(T, h))
      BY <1>1, RankIsMonotonic
    <3>2. h < e => Cardinality(UpTo(T, h)) < Cardinality(UpTo(T, e))
      BY <1>1, RankIsMonotonic
    <3>3. QED
      BY <2>2, <2>3, <3>1, <3>2
  <2>5. QED
    BY <1>1, <2>4
<1>5. QED
  BY <1>3, <1>4

-----------------------------------------------------------------------------
(* The invariant of a session *)

(* All steps but the first two find the cores of the machine. *)
CoresAreFound ==
    /\ pc \notin {"start", "refused"} => cores = DiscoverTopology(Machine) /\ cores # <<>>
    /\ pc = "refused" =>
           \/ TopologyFails(Machine) \/ DiscoverTopology(Machine) = <<>>
           \/ SelectionFails(session.selection, DiscoverTopology(Machine))

CoresAreChosen ==
    pc \notin {"start", "cores", "refused"} =>
        ~SelectionFails(session.selection, cores) /\ selected = SelectedCores(session.selection, cores)

(* The loops; nothing is run before them. *)
Positions ==
    /\ cycle \in Nat \ {0} /\ index \in Nat \ {0}
    /\ pc = "run" => index <= Len(selected)
    /\ pc \in {"start", "cores", "refused"} => pinned = {} /\ seen = {}

RunsArePinned ==
    \A run \in pinned : \E i \in DOMAIN cores, n \in Nat \ {0} :
        run.core = cores[i].core_idx /\ run.cpus = TestCpus(cores[i].logical_cpus, session.mode, n)

SamplesAreRead ==
    \A s \in seen : \E i \in DOMAIN cores : s.core = cores[i].core_idx /\ s.slot = SlotOf[s.core]

OffsetsAreRead ==
    pc = "over" => offsets = IF Supported(Machine.version) THEN CoOffsetsByCore(Machine, Len(cores)) ELSE <<>>

TInv ==
    /\ session \in Sessions
    /\ CoresAreFound /\ CoresAreChosen /\ Positions /\ RunsArePinned /\ SamplesAreRead /\ OffsetsAreRead

LEMMA MachineIsSound ==
  ASSUME session \in Sessions
  PROVE  /\ Machine.slots \in SUBSET AllSlots /\ Machine.threads \in {1, 2}
         /\ Machine.margins \in [AllSlots -> -(WordSize \div 2) .. WordSize \div 2 - 1]
         /\ session.mode \in {"off", "on", "cycle"}
BY MachineAssumption DEF Machine

(* The core under test is one of the machine's. *)
LEMMA CurrentIsCore ==
  ASSUME TInv, pc \in {"loop", "run"}, index <= Len(selected)
  PROVE  \E i \in DOMAIN cores : Current = cores[i]
<1>1. Machine.slots \in SUBSET AllSlots
  BY MachineIsSound DEF TInv
<1>2. /\ cores = DiscoverTopology(Machine) /\ index \in Nat \ {0}
      /\ ~SelectionFails(session.selection, cores)
      /\ selected = SelectedCores(session.selection, cores)
  BY DEF TInv, CoresAreFound, CoresAreChosen, Positions
<1>3. /\ Len(selected) \in Nat /\ DOMAIN selected = 1 .. Len(selected)
      /\ \A k \in DOMAIN selected : \E i \in DOMAIN cores : selected[k] = cores[i]
  BY <1>1, <1>2, Selecting
<1>4. index \in DOMAIN selected
  BY <1>2, <1>3
<1>5. QED
  BY <1>3, <1>4 DEF Current

LEMMA SessionBegins == Init => TInv
<1> SUFFICES ASSUME Init PROVE TInv
  OBVIOUS
<1>1. pc = "start" /\ pinned = {} /\ seen = {} /\ cycle = 1 /\ index = 1 /\ session \in Sessions
  BY DEF Init
<1>2. QED
  BY <1>1 DEF TInv, CoresAreFound, CoresAreChosen, Positions, RunsArePinned, SamplesAreRead, OffsetsAreRead

LEMMA SessionSteps == TInv /\ [Next]_vars => TInv'
<1> SUFFICES ASSUME TInv, [Next]_vars PROVE TInv'
  OBVIOUS
<1> USE DEF TInv
<1>1. CASE Discover
  <2>1. /\ session' = session /\ pinned' = {} /\ seen' = {} /\ cycle' = cycle /\ index' = index
        /\ pc' = IF cores' = <<>> THEN "refused" ELSE "cores"
        /\ cores' = IF TopologyFails(Machine) THEN <<>> ELSE DiscoverTopology(Machine)
    BY <1>1 DEF Discover, Positions
  <2>2. Machine' = Machine
    BY <2>1 DEF Machine
  <2>3. CoresAreFound'
    BY <2>1, <2>2 DEF CoresAreFound
  <2>4. CoresAreChosen' /\ OffsetsAreRead'
    BY <2>1 DEF CoresAreChosen, OffsetsAreRead
  <2>5. Positions'
    BY <2>1 DEF Positions
  <2>6. RunsArePinned' /\ SamplesAreRead'
    BY <2>1 DEF RunsArePinned, SamplesAreRead
  <2>7. QED
    BY <2>1, <2>3, <2>4, <2>5, <2>6
<1>2. CASE Select
  <2>1. /\ session' = session /\ pinned' = {} /\ seen' = {} /\ cycle' = cycle /\ index' = index
        /\ cores' = cores /\ cores = DiscoverTopology(Machine) /\ cores # <<>>
        /\ \/ SelectionFails(session.selection, cores) /\ pc' = "refused"
           \/ /\ ~SelectionFails(session.selection, cores) /\ pc' = "loop"
              /\ selected' = SelectedCores(session.selection, cores)
    BY <1>2 DEF Select, Positions, CoresAreFound
  <2>2. Machine' = Machine
    BY <2>1 DEF Machine
  <2>3. CoresAreFound'
    BY <2>1, <2>2 DEF CoresAreFound
  <2>4. CoresAreChosen'
    BY <2>1 DEF CoresAreChosen
  <2>5. Positions' /\ OffsetsAreRead'
    BY <2>1 DEF Positions, OffsetsAreRead
  <2>6. RunsArePinned' /\ SamplesAreRead'
    BY <2>1 DEF RunsArePinned, SamplesAreRead
  <2>7. QED
    BY <2>1, <2>3, <2>4, <2>5, <2>6
<1>3. CASE StartRun
  <2>1. /\ pc = "loop" /\ pc' = "run" /\ index <= Len(selected)
        /\ UNCHANGED <<session, cores, selected, cycle, index, offsets, seen>>
        /\ pinned' = pinned \cup
             {[core |-> Current.core_idx, cycle |-> cycle,
               cpus |-> TestCpus(Current.logical_cpus, session.mode, cycle)]}
    BY <1>3 DEF StartRun
  <2>2. PICK i \in DOMAIN cores : Current = cores[i]
    BY <2>1, CurrentIsCore
  <2>3. Machine' = Machine /\ SlotOf' = SlotOf
    BY <2>1 DEF Machine, SlotOf
  <2>4. CoresAreFound' /\ CoresAreChosen' /\ OffsetsAreRead'
    BY <2>1, <2>3 DEF CoresAreFound, CoresAreChosen, OffsetsAreRead
  <2>5. Positions'
    BY <2>1 DEF Positions
  <2>6. RunsArePinned'
    BY <2>1, <2>2 DEF RunsArePinned, Positions
  <2>7. SamplesAreRead'
    BY <2>1, <2>3 DEF SamplesAreRead
  <2>8. QED
    BY <2>1, <2>4, <2>5, <2>6, <2>7
<1>4. CASE NextCycle
  <2>1. /\ pc = "loop" /\ pc' \in {"loop", "summary"}
        /\ cycle' \in Nat \ {0} /\ index' \in Nat \ {0}
        /\ UNCHANGED <<session, cores, selected, offsets, pinned, seen>>
    BY <1>4 DEF NextCycle, Positions
  <2>2. Machine' = Machine /\ SlotOf' = SlotOf
    BY <2>1 DEF Machine, SlotOf
  <2>3. CoresAreFound' /\ CoresAreChosen' /\ OffsetsAreRead'
    BY <2>1, <2>2 DEF CoresAreFound, CoresAreChosen, OffsetsAreRead
  <2>4. Positions' /\ RunsArePinned'
    BY <2>1 DEF Positions, RunsArePinned
  <2>5. SamplesAreRead'
    BY <2>1, <2>2 DEF SamplesAreRead
  <2>6. QED
    BY <2>1, <2>3, <2>4, <2>5
<1>5. CASE TakeSample
  <2>1. /\ pc = "run" /\ HasMetrics(Current.core_idx) /\ index <= Len(selected)
        /\ UNCHANGED <<session, pc, cores, selected, cycle, index, offsets, pinned>>
        /\ seen' = seen \cup {[core |-> Current.core_idx, slot |-> SlotOf[Current.core_idx]]}
    BY <1>5 DEF TakeSample, Positions
  <2>2. PICK i \in DOMAIN cores : Current = cores[i]
    BY <2>1, CurrentIsCore
  <2>3. Machine' = Machine /\ SlotOf' = SlotOf
    BY <2>1 DEF Machine, SlotOf
  <2>4. CoresAreFound' /\ CoresAreChosen' /\ OffsetsAreRead'
    BY <2>1, <2>3 DEF CoresAreFound, CoresAreChosen, OffsetsAreRead
  <2>5. Positions' /\ RunsArePinned'
    BY <2>1 DEF Positions, RunsArePinned
  <2>6. SamplesAreRead'
    BY <2>1, <2>2, <2>3 DEF SamplesAreRead
  <2>7. QED
    BY <2>1, <2>4, <2>5, <2>6
<1>6. CASE EndRun \/ Interrupted
  <2>1. /\ pc = "run" /\ pc' \in {"loop", "summary"} /\ index' \in Nat \ {0}
        /\ UNCHANGED <<session, cores, selected, cycle, offsets, pinned, seen>>
    BY <1>6 DEF EndRun, Interrupted, Positions
  <2>2. Machine' = Machine /\ SlotOf' = SlotOf
    BY <2>1 DEF Machine, SlotOf
  <2>3. CoresAreFound' /\ CoresAreChosen' /\ OffsetsAreRead'
    BY <2>1, <2>2 DEF CoresAreFound, CoresAreChosen, OffsetsAreRead
  <2>4. Positions' /\ RunsArePinned'
    BY <2>1 DEF Positions, RunsArePinned
  <2>5. SamplesAreRead'
    BY <2>1, <2>2 DEF SamplesAreRead
  <2>6. QED
    BY <2>1, <2>3, <2>4, <2>5
<1>7. CASE Summarize
  <2>1. /\ pc = "summary" /\ pc' = "over"
        /\ UNCHANGED <<session, cores, selected, cycle, index, pinned, seen>>
        /\ offsets' = IF Supported(Machine.version) THEN CoOffsetsByCore(Machine, Len(cores)) ELSE <<>>
    BY <1>7 DEF Summarize
  <2>2. Machine' = Machine /\ SlotOf' = SlotOf
    BY <2>1 DEF Machine, SlotOf
  <2>3. CoresAreFound' /\ CoresAreChosen'
    BY <2>1, <2>2 DEF CoresAreFound, CoresAreChosen
  <2>4. Positions' /\ RunsArePinned'
    BY <2>1 DEF Positions, RunsArePinned
  <2>5. SamplesAreRead'
    BY <2>1, <2>2 DEF SamplesAreRead
  <2>6. OffsetsAreRead'
    BY <2>1, <2>2 DEF OffsetsAreRead
  <2>7. QED
    BY <2>1, <2>3, <2>4, <2>5, <2>6
<1>8. CASE UNCHANGED vars
  <2>1. UNCHANGED <<session, pc, cores, selected, cycle, index, offsets, pinned, seen>>
    BY <1>8 DEF vars
  <2>2. Machine' = Machine /\ SlotOf' = SlotOf
    BY <2>1 DEF Machine, SlotOf
  <2>3. CoresAreFound' /\ CoresAreChosen' /\ OffsetsAreRead'
    BY <2>1, <2>2 DEF CoresAreFound, CoresAreChosen, OffsetsAreRead
  <2>4. Positions' /\ RunsArePinned'
    BY <2>1 DEF Positions, RunsArePinned
  <2>5. SamplesAreRead'
    BY <2>1, <2>2 DEF SamplesAreRead
  <2>6. QED
    BY <2>1, <2>3, <2>4, <2>5
<1>9. QED
  BY <1>1, <1>2, <1>3, <1>4, <1>5, <1>6, <1>7, <1>8 DEF Next

(* The invariant holds throughout. *)
LEMMA SessionInvariance == Spec => []TInv
<1>1. QED
  BY SessionBegins, SessionSteps, PTL DEF Spec

-----------------------------------------------------------------------------
(* What the invariant gives: the cores and the slots are those of the machine. *)
LEMMA CoresOfMachine ==
  ASSUME TInv, pc \notin {"start", "refused"}
  PROVE  LET N == Cardinality(OnlineSlots)
         IN  /\ N \in Nat \ {0} /\ Len(cores) = N /\ DOMAIN cores = 1 .. N
             /\ N <= Cardinality(Machine.slots)
             /\ OnlineSlots \in SUBSET Machine.slots /\ Machine.slots \in SUBSET AllSlots
             /\ \A i \in 1 .. N :
                    /\ cores[i].core_idx = i - 1 /\ HardwareOf(i - 1) = cores[i].hardware_core_id
                    /\ HardwareOf(i - 1) \in OnlineSlots
                    /\ Cardinality(Below(HardwareOf(i - 1), OnlineSlots)) = i - 1
                    /\ cores[i].logical_cpus = Ascending(OnlineCpus(Machine, HardwareOf(i - 1)))
<1> DEFINE N == Cardinality(OnlineSlots)
<1>1. OnlineSlots = RawCores(Machine)
  BY DEF OnlineSlots, RawCores
<1>2. Machine.slots \in SUBSET AllSlots /\ IsFiniteSet(Machine.slots)
  BY MachineIsSound, SlotsAreFinite DEF TInv
<1>3. cores = DiscoverTopology(Machine) /\ cores # <<>>
  BY DEF TInv, CoresAreFound
<1>4. /\ OnlineSlots \in SUBSET Machine.slots /\ N \in Nat /\ DOMAIN cores = 1 .. N /\ Len(cores) = N
      /\ \A i \in 1 .. N :
            /\ cores[i].core_idx = i - 1 /\ cores[i].hardware_core_id \in OnlineSlots
            /\ Cardinality(Below(cores[i].hardware_core_id, OnlineSlots)) = i - 1
            /\ cores[i].logical_cpus = Ascending(OnlineCpus(Machine, cores[i].hardware_core_id))
  BY <1>1, <1>2, <1>3, Numbering
<1>5. N <= Cardinality(Machine.slots)
  BY <1>2, <1>4, FS_Subset
<1>6. N # 0
  <2> SUFFICES ASSUME N = 0 PROVE FALSE
    OBVIOUS
  <2>1. Cardinality(RawCores(Machine)) = 0
    BY <1>1
  <2>2. 1 .. 0 = {}
    OBVIOUS
  <2>3. DiscoverTopology(Machine) = <<>>
    BY <2>1, <2>2 DEF DiscoverTopology
  <2>4. QED
    BY <1>3, <2>3
<1>7. \A i \in 1 .. N : HardwareOf(i - 1) = cores[i].hardware_core_id
  <2> TAKE i \in 1 .. N
  <2>1. (i - 1) + 1 = i
    BY <1>4
  <2>2. QED
    BY <2>1 DEF HardwareOf
<1>8. QED
  BY <1>2, <1>4, <1>5, <1>6, <1>7

LEMMA SlotsOfMachine ==
  ASSUME TInv, pc \notin {"start", "refused"}
  PROVE  LET N == Cardinality(OnlineSlots)
         IN  /\ DOMAIN SlotOf = 0 .. N - 1
             /\ \A n \in 0 .. N - 1 : SlotOf[n] = HardwareOf(n) <=> InOrder(n)
<1> DEFINE N == Cardinality(OnlineSlots)
           T == TableSlots(Machine)
<1>1. /\ N \in Nat \ {0} /\ Len(cores) = N /\ N <= Cardinality(Machine.slots)
      /\ OnlineSlots \in SUBSET Machine.slots /\ Machine.slots \in SUBSET AllSlots
      /\ \A i \in 1 .. N : /\ HardwareOf(i - 1) \in OnlineSlots
                           /\ Cardinality(Below(HardwareOf(i - 1), OnlineSlots)) = i - 1
  BY CoresOfMachine
<1> HIDE DEF N
<1>2. SlotOf = SlotOfCore(Machine.version, Machine.slots, N)
  BY <1>1 DEF SlotOf
<1>3. DOMAIN SlotOf = 0 .. N - 1 /\ \A n \in 0 .. N - 1 : SlotOf[n] \in T /\ Cardinality(Below(SlotOf[n], T)) = n
  BY <1>1, <1>2, SlotTable
<1>4. T \in SUBSET Nat /\ IsFiniteSet(T) /\ OnlineSlots \in SUBSET T
  <2>1. T \in SUBSET AllSlots /\ OnlineSlots \in SUBSET T
    BY <1>1 DEF TableSlots
  <2>2. QED
    BY <2>1, SlotsAreFinite
<1>5. \A n : InOrder(n) <=> Below(HardwareOf(n), T) \subseteq OnlineSlots
  BY DEF InOrder, TableSlots
<1> HIDE DEF T
<1>6. \A n \in 0 .. N - 1 : SlotOf[n] = HardwareOf(n) <=> InOrder(n)
  <2> TAKE n \in 0 .. N - 1
  <2>1. n + 1 \in 1 .. N /\ (n + 1) - 1 = n
    BY <1>1
  <2>2. HardwareOf(n) \in OnlineSlots /\ Cardinality(Below(HardwareOf(n), OnlineSlots)) = n
    BY <1>1, <2>1
  <2>3. SlotOf[n] \in T /\ Cardinality(Below(SlotOf[n], T)) = Cardinality(Below(HardwareOf(n), OnlineSlots))
    BY <1>3, <2>2
  <2> DEFINE h == HardwareOf(n)
             e == SlotOf[n]
  <2> HIDE DEF h, e
  <2>4. e = h <=> Below(h, T) \subseteq OnlineSlots
    <3>1. h \in OnlineSlots /\ e \in T
      BY <2>2, <2>3 DEF h, e
    <3>2. Cardinality(Below(e, T)) = Cardinality(Below(h, OnlineSlots))
      BY <2>3 DEF h, e
    <3>3. QED
      BY <1>4, <3>1, <3>2, SameSlot
  <2>5. QED
    BY <1>5, <2>4 DEF h, e
<1>7. QED
  BY <1>3, <1>6 DEF N

(* A slot's offset is the margin it was set to, when that is one. *)
LEMMA OffsetIsMargin ==
  ASSUME session \in Sessions, LayoutOf(Machine.version).margins, NEW s \in Machine.slots
  PROVE  /\ s \in DOMAIN CoOffsets(Machine) <=> Machine.margins[s] \in -MaxMargin .. MaxMargin
         /\ s \in DOMAIN CoOffsets(Machine) => CoOffsets(Machine)[s] = Machine.margins[s]
<1>1. s \in AllSlots /\ Machine.margins[s] \in -(WordSize \div 2) .. WordSize \div 2 - 1
  BY MachineIsSound
<1>2. Addressed(Machine, CoreMask(s)) = s
  BY <1>1, MaskAddressesSlot
<1>3. Signed(Response(Machine, CoreMask(s))) = Machine.margins[s]
  BY <1>1, <1>2, SignedReads DEF Response
<1>4. QED
  BY <1>1, <1>2, <1>3 DEF CoOffsets, ReadsOffset

-----------------------------------------------------------------------------
(* The cores of a session are those it was asked for. *)

(* A session that does not start was asked for something that does not exist. *)
LEMMA RefusalIsExplained ==
  ASSUME TInv, pc = "refused"
  PROVE  \/ TopologyFails(Machine) \/ OnlineSlots = {} \/ Asked = {}
         \/ ~Asked \subseteq 0 .. Cardinality(OnlineSlots) - 1
         \/ \E i \in DOMAIN session.selection.parts :
                session.selection.parts[i].from > session.selection.parts[i].to
<1> DEFINE N == Cardinality(OnlineSlots)
           found == DiscoverTopology(Machine)
           parts == session.selection.parts
<1>1. OnlineSlots = RawCores(Machine)
  BY DEF OnlineSlots, RawCores
<1>2. Machine.slots \in SUBSET AllSlots
  BY MachineIsSound DEF TInv
<1>3. /\ OnlineSlots \in SUBSET Machine.slots /\ N \in Nat /\ DOMAIN found = 1 .. N /\ Len(found) = N
      /\ \A i \in 1 .. N : found[i].core_idx = i - 1
  BY <1>1, <1>2, Numbering
<1>4. IsFiniteSet(OnlineSlots)
  BY <1>2, <1>3, SlotsAreFinite
<1>5. TopologyFails(Machine) \/ found = <<>> \/ SelectionFails(session.selection, found)
  BY DEF TInv, CoresAreFound
<1>6. CASE found = <<>>
  <2>1. DOMAIN found = {}
    BY <1>6
  <2> HIDE DEF found
  <2>2. N = 0
    BY <1>3, <2>1
  <2>3. OnlineSlots = {}
    BY <1>4, <2>2, FS_EmptySet
  <2>4. QED
    BY <2>3
<1>7. CASE SelectionFails(session.selection, found)
  <2>1. ~session.selection.all /\ Asked = Named(session.selection)
    BY <1>7 DEF SelectionFails, Asked
  <2>2. CASE parts = <<>>
    <3>1. Named(session.selection) = {}
      BY <2>2 DEF Named
    <3>2. QED
      BY <2>1, <3>1
  <2>3. CASE \E i \in DOMAIN parts : parts[i].from > parts[i].to
    BY <2>3
  <2>4. ASSUME NEW n \in Named(session.selection), ~\E i \in DOMAIN found : found[i].core_idx = n
        PROVE  ~Asked \subseteq 0 .. N - 1
    <3>1. n \notin 0 .. N - 1
      <4> SUFFICES ASSUME n \in 0 .. N - 1 PROVE FALSE
        OBVIOUS
      <4>1. n + 1 \in 1 .. N /\ (n + 1) - 1 = n
        BY <1>3
      <4>2. QED
        BY <1>3, <2>4, <4>1
    <3>2. QED
      BY <2>1, <2>4, <3>1
  <2>5. QED
    BY <1>7, <2>2, <2>3, <2>4 DEF SelectionFails
<1>8. QED
  BY <1>5, <1>6, <1>7

(* Whatever the mode, a run is pinned to online CPUs of its core. *)
LEMMA CpusAreOfCore ==
  ASSUME NEW m, m.slots \in SUBSET AllSlots, m.threads \in {1, 2}, NEW h \in RawCores(m),
         NEW mode \in {"off", "on", "cycle"}, NEW n \in Nat \ {0}
  PROVE  LET pins == TestCpus(Ascending(OnlineCpus(m, h)), mode, n)
         IN  /\ pins # {} /\ pins \subseteq OnlineCpus(m, h)
             /\ mode = "on" => pins = OnlineCpus(m, h)
<1> DEFINE C == OnlineCpus(m, h)
           cpus == Ascending(C)
           phase == (n - 1) % 3
<1>1. /\ Len(cpus) \in {1, 2} /\ DOMAIN cpus = 1 .. Len(cpus)
      /\ C = {cpus[i] : i \in DOMAIN cpus}
  BY CpusOfCore
<1>2. phase \in {0, 1, 2}
  OBVIOUS
<1> HIDE DEF C, cpus, phase
<1>3. 1 \in DOMAIN cpus /\ cpus[1] \in C
  BY <1>1
<1>4. CASE mode = "off" \/ Len(cpus) = 1
  <2>1. TestCpus(cpus, mode, n) = {cpus[1]}
    BY <1>4 DEF TestCpus
  <2>2. Len(cpus) = 1 => C = {cpus[1]}
    BY <1>1
  <2>3. QED
    BY <1>3, <1>4, <2>1, <2>2 DEF cpus, C
<1>5. CASE ~(mode = "off" \/ Len(cpus) = 1) /\ (mode = "on" \/ phase = 2)
  <2>1. TestCpus(cpus, mode, n) = C
    BY <1>1, <1>5 DEF TestCpus, phase
  <2>2. QED
    BY <1>3, <2>1 DEF cpus, C
<1>6. CASE ~(mode = "off" \/ Len(cpus) = 1) /\ ~(mode = "on" \/ phase = 2)
  <2>1. TestCpus(cpus, mode, n) = {cpus[phase + 1]}
    BY <1>6 DEF TestCpus, phase
  <2>2. phase + 1 \in DOMAIN cpus
    BY <1>1, <1>2, <1>6
  <2>3. cpus[phase + 1] \in C
    BY <1>1, <2>2
  <2>4. QED
    BY <1>6, <2>1, <2>3 DEF cpus, C
<1>7. QED
  BY <1>4, <1>5, <1>6

LEMMA AskedFollows == TInv => AskedCoresAreTested
<1> SUFFICES ASSUME TInv PROVE AskedCoresAreTested
  OBVIOUS
<1>1. ASSUME pc \in {"loop", "run"}
      PROVE  /\ {selected[i].core_idx : i \in DOMAIN selected} = Asked
             /\ \A i, j \in DOMAIN selected : i < j => selected[i].core_idx < selected[j].core_idx
  <2>1. Machine.slots \in SUBSET AllSlots
    BY MachineIsSound DEF TInv
  <2>2. /\ cores = DiscoverTopology(Machine)
        /\ ~SelectionFails(session.selection, cores)
        /\ selected = SelectedCores(session.selection, cores)
    BY <1>1 DEF TInv, CoresAreFound, CoresAreChosen
  <2>3. Len(cores) = Cardinality(OnlineSlots)
    BY <1>1, CoresOfMachine
  <2>4. /\ {selected[k].core_idx : k \in DOMAIN selected} = AskedOf(session.selection, Len(cores))
        /\ \A k, l \in DOMAIN selected : k < l => selected[k].core_idx < selected[l].core_idx
    BY <2>1, <2>2, Selecting
  <2>5. AskedOf(session.selection, Len(cores)) = Asked
    BY <2>3 DEF AskedOf, Asked
  <2>6. QED
    BY <2>4, <2>5
<1>2. ASSUME NEW run \in pinned
      PROVE  /\ run.core = Cardinality(Below(HardwareOf(run.core), OnlineSlots))
             /\ run.cpus # {} /\ run.cpus \subseteq OnlineCpus(Machine, HardwareOf(run.core))
             /\ session.mode = "on" => run.cpus = OnlineCpus(Machine, HardwareOf(run.core))
  <2>1. pc \notin {"start", "refused"}
    BY <1>2 DEF TInv, Positions
  <2>2. PICK i \in DOMAIN cores, n \in Nat \ {0} :
            run.core = cores[i].core_idx /\ run.cpus = TestCpus(cores[i].logical_cpus, session.mode, n)
    BY <1>2 DEF TInv, RunsArePinned
  <2> DEFINE h == HardwareOf(i - 1)
  <2>3. /\ cores[i].core_idx = i - 1 /\ h \in OnlineSlots
        /\ Cardinality(Below(h, OnlineSlots)) = i - 1
        /\ cores[i].logical_cpus = Ascending(OnlineCpus(Machine, h))
    BY <2>1, CoresOfMachine
  <2>4. h \in RawCores(Machine)
    BY <2>3 DEF OnlineSlots, RawCores
  <2>5. /\ Machine.slots \in SUBSET AllSlots /\ Machine.threads \in {1, 2}
        /\ session.mode \in {"off", "on", "cycle"}
    BY MachineIsSound DEF TInv
  <2> HIDE DEF h
  <2>6. /\ run.cpus # {} /\ run.cpus \subseteq OnlineCpus(Machine, h)
        /\ session.mode = "on" => run.cpus = OnlineCpus(Machine, h)
    BY <2>2, <2>3, <2>4, <2>5, CpusAreOfCore
  <2>7. HardwareOf(run.core) = h /\ run.core = i - 1
    BY <2>2, <2>3 DEF h
  <2>8. QED
    BY <2>3, <2>6, <2>7
<1>3. QED
  BY <1>1, <1>2, RefusalIsExplained DEF AskedCoresAreTested

(* For any machine of at most two CCDs and any selection: the session tests the
   cores it was asked for or refuses, and a run stays on CPUs of its core. *)
THEOREM AskedTested == Spec => []AskedCoresAreTested
BY SessionInvariance, AskedFollows, PTL

LEMMA TelemetryFollows == TInv => TelemetryIsOfTheCore
<1> SUFFICES ASSUME TInv PROVE TelemetryIsOfTheCore
  OBVIOUS
<1> DEFINE N == Cardinality(OnlineSlots)
<1>1. ASSUME pc = "run", Supported(Machine.version)
      PROVE  HasMetrics(Current.core_idx)
  <2>1. PICK i \in DOMAIN cores : Current = cores[i]
    BY <1>1, CurrentIsCore DEF TInv, Positions
  <2>2. N \in Nat /\ DOMAIN cores = 1 .. N /\ cores[i].core_idx = i - 1
    BY <1>1, CoresOfMachine
  <2>3. i - 1 \in 0 .. N - 1
    BY <2>2
  <2>4. DOMAIN SlotOf = 0 .. N - 1
    BY <1>1, SlotsOfMachine
  <2>5. QED
    BY <1>1, <2>1, <2>2, <2>3, <2>4 DEF HasMetrics
<1>2. ASSUME NEW s \in seen
      PROVE  s.slot = HardwareOf(s.core) <=> InOrder(s.core)
  <2>1. pc \notin {"start", "refused"}
    BY <1>2 DEF TInv, Positions
  <2>2. PICK i \in DOMAIN cores : s.core = cores[i].core_idx /\ s.slot = SlotOf[s.core]
    BY <1>2 DEF TInv, SamplesAreRead
  <2>3. N \in Nat /\ DOMAIN cores = 1 .. N /\ cores[i].core_idx = i - 1
    BY <2>1, CoresOfMachine
  <2>4. s.core \in 0 .. N - 1
    BY <2>2, <2>3
  <2>5. SlotOf[s.core] = HardwareOf(s.core) <=> InOrder(s.core)
    BY <2>1, <2>4, SlotsOfMachine
  <2>6. QED
    BY <2>2, <2>5
<1>3. ASSUME pc = "over", LayoutOf(Machine.version).margins,
             NEW n \in {cores[i].core_idx : i \in DOMAIN cores}, InOrder(n)
      PROVE  LET margin == Machine.margins[HardwareOf(n)]
             IN  IF margin \in -MaxMargin .. MaxMargin
                 THEN n \in DOMAIN offsets /\ offsets[n] = margin ELSE n \notin DOMAIN offsets
  <2> DEFINE h == HardwareOf(n)
  <2>1. PICK i \in DOMAIN cores : n = cores[i].core_idx
    OBVIOUS
  <2>2. /\ N \in Nat /\ Len(cores) = N /\ DOMAIN cores = 1 .. N /\ cores[i].core_idx = i - 1
        /\ HardwareOf(i - 1) \in Machine.slots
    BY <1>3, CoresOfMachine
  <2>3. n \in 0 .. N - 1 /\ h \in Machine.slots
    BY <2>1, <2>2
  <2>4. n \in DOMAIN SlotOf /\ SlotOf[n] = h
    BY <1>3, <2>3, SlotsOfMachine
  <2>5. Supported(Machine.version)
    BY <1>3 DEF Supported, NoLayout
  <2>6. offsets = [k \in {k \in DOMAIN SlotOf : SlotOf[k] \in DOMAIN CoOffsets(Machine)}
                        |-> CoOffsets(Machine)[SlotOf[k]]]
    BY <1>3, <2>5 DEF TInv, OffsetsAreRead, CoOffsetsByCore, SlotOf
  <2>7. /\ h \in DOMAIN CoOffsets(Machine) <=> Machine.margins[h] \in -MaxMargin .. MaxMargin
        /\ h \in DOMAIN CoOffsets(Machine) => CoOffsets(Machine)[h] = Machine.margins[h]
    BY <1>3, <2>3, OffsetIsMargin DEF TInv
  <2> HIDE DEF h
  <2>8. n \in DOMAIN offsets <=> h \in DOMAIN CoOffsets(Machine)
    BY <2>4, <2>6
  <2>9. n \in DOMAIN offsets => offsets[n] = CoOffsets(Machine)[h]
    BY <2>4, <2>6
  <2>10. QED
    BY <2>7, <2>8, <2>9 DEF h
<1>4. QED
  BY <1>1, <1>2, <1>3 DEF TelemetryIsOfTheCore

(* For any such machine: the samples and the offset of a core are those of its own
   slot exactly as long as no core below it is offline or, unmarked, missing. *)
THEOREM TelemetryOfCore == Spec => []TelemetryIsOfTheCore
BY SessionInvariance, TelemetryFollows, PTL
=============================================================================
