------------------------- MODULE EngineOutputProofs -------------------------
(***************************************************************************)
(* Proofs about EngineOutput for every set of lengths, presets and command *)
(* lines, and for a pass of any length.  The parser's state is a function  *)
(* of the number of verified steps: the largest size of the pass so far    *)
(* (LargestAfter) and the complete passes (CompleteIn), which rests on the *)
(* steps of Prime95's pass being ascending and inside the range (Ordered). *)
(***************************************************************************)
EXTENDS EngineOutput, FiniteSetTheorems, TLAPS

-----------------------------------------------------------------------------
(* Division: n = E * (n \div E) + (n % E), and what the next n has. *)

LEMMA DivMod ==
  ASSUME NEW E \in Nat \ {0}, NEW n \in Nat
  PROVE  n \div E \in Nat /\ n % E \in 0 .. E - 1 /\ n = E * (n \div E) + (n % E)
<1>1. n \div E \in Nat
  OBVIOUS
<1>2. n % E \in 0 .. E - 1
  OBVIOUS
<1>3. n = E * (n \div E) + (n % E)
  OBVIOUS
<1>4. QED
  BY <1>1, <1>2, <1>3

LEMMA DivModUnique ==
  ASSUME NEW E \in Nat \ {0}, NEW q \in Nat, NEW r \in 0 .. E - 1, NEW n \in Nat, n = E * q + r
  PROVE  n % E = r /\ n \div E = q
<1>1. n % E = r
  OBVIOUS
<1>2. n \div E = q
  OBVIOUS
<1>3. QED
  BY <1>1, <1>2

LEMMA NextDivMod ==
  ASSUME NEW E \in Nat \ {0}, NEW n \in Nat
  PROVE  /\ n % E = E - 1 => (n + 1) % E = 0 /\ (n + 1) \div E = n \div E + 1
         /\ n % E # E - 1 => (n + 1) % E = (n % E) + 1 /\ (n + 1) \div E = n \div E
<1> DEFINE q == n \div E
           r == n % E
<1>1. q \in Nat /\ r \in 0 .. E - 1 /\ n = E * q + r
  BY DivMod
<1> HIDE DEF q, r
<1>2. CASE r = E - 1
  <2>1. PICK p \in Nat, z \in 0 .. E - 1 : p = q + 1 /\ z = 0
    BY <1>1
  <2>2. n + 1 = E * p + z /\ n + 1 \in Nat
    BY <1>1, <1>2, <2>1
  <2>3. (n + 1) % E = z /\ (n + 1) \div E = p
    BY <2>2, DivModUnique
  <2>4. QED
    BY <1>2, <2>1, <2>3 DEF q, r
<1>3. CASE r # E - 1
  <2>1. n + 1 = E * q + (r + 1) /\ r + 1 \in 0 .. E - 1 /\ n + 1 \in Nat
    BY <1>1, <1>3
  <2>2. (n + 1) % E = r + 1 /\ (n + 1) \div E = q
    BY <1>1, <2>1, DivModUnique
  <2>3. QED
    BY <1>3, <2>2 DEF q, r
<1>4. QED
  BY <1>2, <1>3 DEF r

-----------------------------------------------------------------------------
(* The members of a finite set in ascending order *)

UpTo(S, n) == {m \in S : m <= n}

(* The rank of a member grows with it, so every rank is taken. *)
LEMMA RankIsMonotonic ==
  ASSUME NEW S \in SUBSET Nat, IsFiniteSet(S), NEW m \in S, NEW n \in S, m < n
  PROVE  Cardinality(UpTo(S, m)) < Cardinality(UpTo(S, n))
<1>1. IsFiniteSet(UpTo(S, n)) /\ Cardinality(UpTo(S, n)) \in Nat
  <2>1. UpTo(S, n) \subseteq S
    BY DEF UpTo
  <2>2. QED
    BY <2>1, FS_Subset, FS_CardinalityType
<1>2. m \in Nat /\ n \in Nat /\ \A k \in S : k \in Nat
  OBVIOUS
<1>3. UpTo(S, m) \subseteq UpTo(S, n)
  <2>1. \A k \in Nat : k <= m => k <= n
    BY <1>2
  <2>2. QED
    BY <1>2, <2>1 DEF UpTo
<1>4. n \in UpTo(S, n) /\ n \notin UpTo(S, m)
  BY <1>2 DEF UpTo
<1>5. /\ Cardinality(UpTo(S, m)) <= Cardinality(UpTo(S, n))
      /\ Cardinality(UpTo(S, m)) # Cardinality(UpTo(S, n))
  BY <1>1, <1>3, <1>4, FS_Subset
<1>6. Cardinality(UpTo(S, m)) \in Nat
  BY <1>1, <1>3, FS_Subset, FS_CardinalityType
<1>7. QED
  BY <1>1, <1>5, <1>6

LEMMA EveryRankIsTaken ==
  ASSUME NEW S \in SUBSET Nat, IsFiniteSet(S), NEW i \in 1 .. Cardinality(S)
  PROVE  \E n \in S : Cardinality(UpTo(S, n)) = i
<1> DEFINE N == Cardinality(S)
           rank == [n \in S |-> Cardinality(UpTo(S, n))]
<1>1. N \in Nat
  BY FS_CardinalityType
<1>2. \A n \in S : Cardinality(UpTo(S, n)) \in 1 .. N
  <2> TAKE n \in S
  <2>1. n \in UpTo(S, n) /\ UpTo(S, n) \subseteq S
    BY DEF UpTo
  <2>2. IsFiniteSet(UpTo(S, n)) /\ Cardinality(UpTo(S, n)) <= N
    BY <2>1, FS_Subset
  <2>3. Cardinality(UpTo(S, n)) \in Nat /\ Cardinality(UpTo(S, n)) # 0
    BY <2>1, <2>2, FS_CardinalityType, FS_EmptySet
  <2>4. QED
    BY <1>1, <2>2, <2>3
<1>3. \A m, n \in S : m # n => rank[m] # rank[n]
  <2> TAKE m, n \in S
  <2>1. m \in Nat /\ n \in Nat /\ rank[m] \in Nat /\ rank[n] \in Nat
    BY <1>1, <1>2
  <2>2. m < n => rank[m] < rank[n]
    BY RankIsMonotonic
  <2>3. n < m => rank[n] < rank[m]
    BY RankIsMonotonic
  <2>4. QED
    BY <2>1, <2>2, <2>3
<1>4. rank \in [S -> 1 .. N]
  BY <1>2
<1>5. rank \in Injection(S, 1 .. N)
  <2> HIDE DEF rank
  <2>1. QED
    BY <1>3, <1>4 DEF Injection, IsInjective
<1>6. IsFiniteSet(1 .. N) /\ Cardinality(1 .. N) = N
  BY <1>1, FS_Interval
<1>7. rank \in Surjection(S, 1 .. N)
  <2> HIDE DEF rank
  <2>1. QED
    BY <1>5, <1>6, FS_Injection
<1>8. PICK n \in S : rank[n] = i
  <2> HIDE DEF rank
  <2>1. QED
    BY <1>7 DEF Surjection
<1>9. QED
  BY <1>8

LEMMA AscendingIsSorted ==
  ASSUME NEW S \in SUBSET Nat, IsFiniteSet(S)
  PROVE  /\ Ascending(S) \in Seq(S) /\ Len(Ascending(S)) = Cardinality(S)
         /\ Cardinality(S) \in Nat
         /\ \A i, j \in 1 .. Cardinality(S) : i < j => Ascending(S)[i] < Ascending(S)[j]
<1> DEFINE N == Cardinality(S)
           a == Ascending(S)
<1>1. N \in Nat
  BY FS_CardinalityType
<1>2. \A i \in 1 .. N : a[i] \in S /\ Cardinality(UpTo(S, a[i])) = i
  <2> TAKE i \in 1 .. N
  <2>1. \E n \in S : Cardinality({m \in S : m <= n}) = i
    BY EveryRankIsTaken DEF UpTo
  <2>2. a[i] = CHOOSE n \in S : Cardinality({m \in S : m <= n}) = i
    BY DEF Ascending
  <2>3. QED
    BY <2>1, <2>2 DEF UpTo
<1>3. a \in [1 .. N -> S]
  BY <1>2 DEF Ascending
<1>4. a \in Seq(S) /\ Len(a) = N
  BY <1>1, <1>3
<1>5. \A i, j \in 1 .. N : i < j => a[i] < a[j]
  <2> SUFFICES ASSUME NEW i \in 1 .. N, NEW j \in 1 .. N, i < j PROVE a[i] < a[j]
    OBVIOUS
  <2>1. a[i] \in Nat /\ a[j] \in Nat /\ i \in Nat /\ j \in Nat
    <3>1. \A n \in S : n \in Nat
      OBVIOUS
    <3>2. a[i] \in S /\ a[j] \in S
      BY <1>2
    <3>3. i \in Nat /\ j \in Nat
      BY <1>1
    <3>4. QED
      BY <3>1, <3>2, <3>3, Zenon
  <2>2. a[i] # a[j]
    BY <1>2, <2>1
  <2>3. ~(a[j] < a[i])
    <3> SUFFICES ASSUME a[j] < a[i] PROVE FALSE
      OBVIOUS
    <3>1. Cardinality(UpTo(S, a[j])) < Cardinality(UpTo(S, a[i]))
      BY <1>2, RankIsMonotonic
    <3>2. QED
      BY <1>2, <2>1, <3>1
  <2>4. QED
    BY <2>1, <2>2, <2>3
<1>6. QED
  BY <1>1, <1>4, <1>5

-----------------------------------------------------------------------------
(* The invariant *)

(* Reports of verified steps: their step and the iterations complete by then. *)
Reports == [step : IF IsPrime95 THEN Implemented ELSE Algorithms, completed : Nat]

Typed ==
    /\ threads \in {1, 2} /\ (~IsPrime95 => threads = 1)
    /\ passed \in [1 .. threads -> Nat]
    /\ stepsPassed \in Nat /\ completed \in Nat
    /\ largest \in Nat
    /\ verified \in Seq(Reports)

(* What the engine works through: an algorithm at least, or some lengths of the
   range in ascending order. *)
Ordered ==
    IF IsPrime95
    THEN /\ fft.min \in Nat \ {0} /\ fft.max \in Nat
         /\ steps \in Seq(Implemented)
         /\ \A i \in 1 .. PassLength : fft.min * K <= steps[i] /\ steps[i] <= fft.max * K
         /\ \A i, j \in 1 .. PassLength : i < j => steps[i] < steps[j]
    ELSE steps \in Seq(Algorithms) /\ PassLength > 0

(* What the parser makes of the lines agrees with what the engine did. *)
InStep ==
    /\ stepsPassed = Verified
    /\ threads = 2 => threadPasses = passed
    /\ PassLength = 0 => stepsPassed = 0
    /\ Len(verified) = stepsPassed
    /\ \A n \in 1 .. Len(verified) : verified[n].step = StepAt(n)

(* The parser may tell its passes apart. *)
Countable == PassLength > 0 /\ (IsPrime95 => Recognizable)

(* Prime95 has a length at max_fft, which ends the pass. *)
EndsAtMax == steps[PassLength] = fft.max * K

LargestAfter(n) == IF n = 0 \/ (EndsAtMax /\ n % PassLength = 0) THEN NoSize ELSE StepAt(n)

Counted ==
    Countable =>
        /\ completed = CompleteIn(stepsPassed)
        /\ IsPrime95 => largest = LargestAfter(stepsPassed)
        /\ \A n \in 1 .. Len(verified) : verified[n].completed = CompleteIn(n)

IInv ==
    /\ Typed
    /\ Ordered
    /\ InStep
    /\ Counted

-----------------------------------------------------------------------------
(* What the command line configures *)

LEMMA RangeOfOptions ==
  ASSUME NEW o \in Options, o.engine = "prime95", TakesPrime95(o)
  PROVE  /\ BaseRange(o).min \in Nat \ {0} /\ BaseRange(o).max \in Nat
         /\ BaseRange(o).min <= BaseRange(o).max
<1>1. o.min \in Int /\ o.max \in Int /\ o.range \in [min : Int, max : Int]
  BY OptionAssumption
<1>2. MinFft \in Nat \ {0} /\ MaxFft \in Nat
  BY FftAssumption
<1>3. BaseRange(o).min \in Int /\ BaseRange(o).max \in Int
  <2>1. CASE HasBounds(o)
    BY <1>1, <1>2, <2>1 DEF BaseRange, FftRange, OrElse
  <2>2. CASE ~HasBounds(o) /\ o.preset = "range"
    BY <1>1, <2>2 DEF BaseRange
  <2>3. CASE ~HasBounds(o) /\ o.preset # "range"
    <3> DEFINE name == IF o.preset = "none" THEN DefaultPreset ELSE o.preset
    <3>1. name \in DOMAIN Presets
      BY <2>3, FftAssumption DEF TakesPrime95, RangeFails
    <3>2. BaseRange(o) = PresetRange(name, ModeOf(o))
      BY <2>3 DEF BaseRange
    <3>3. PresetRange(name, ModeOf(o)) \in [min : Nat, max : Nat]
      BY <3>1, FftAssumption DEF PresetRange
    <3> HIDE DEF name
    <3>4. QED
      BY <3>2, <3>3
  <2>4. QED
    BY <2>1, <2>2, <2>3
<1>4. MinFft <= BaseRange(o).min /\ BaseRange(o).min <= BaseRange(o).max
  BY DEF TakesPrime95, RangeFails
<1>5. QED
  BY <1>2, <1>3, <1>4

LEMMA InitOrdered == Init => Ordered /\ threads \in {1, 2} /\ (~IsPrime95 => threads = 1)
<1> SUFFICES ASSUME Init PROVE Ordered /\ threads \in {1, 2} /\ (~IsPrime95 => threads = 1)
  OBVIOUS
<1>1. PICK o \in Options, cpus \in CpuCounts : Takes(o) /\ config = Configured(o, cpus)
  BY DEF Init
<1>2. threads = ThreadsOf(config) /\ steps = StepsOf(config)
  BY DEF Init
<1>3. threads \in {1, 2} /\ (~IsPrime95 => threads = 1)
  BY <1>2 DEF ThreadsOf, IsPrime95
<1>4. CASE o.engine = "prime95"
  <2>1. TakesPrime95(o)
    BY <1>1, <1>4 DEF Takes
  <2>2. IsPrime95 /\ fft = BaseRange(o)
    BY <1>1, <1>4 DEF Configured, IsPrime95, fft
  <2>3. fft.min \in Nat \ {0} /\ fft.max \in Nat
    BY <2>1, <2>2, <1>4, RangeOfOptions
  <2> DEFINE S == {n \in Implemented : fft.min * K <= n /\ n <= fft.max * K}
  <2>4. S \subseteq Nat /\ S \subseteq Implemented
    BY CountAssumption
  <2>5. IsFiniteSet(S)
    <3>1. fft.max * K \in Nat
      BY <2>3 DEF K
    <3>2. \A n \in S : n <= fft.max * K
      OBVIOUS
    <3> HIDE DEF S
    <3>3. QED
      BY <2>4, <3>1, <3>2, FS_BoundedSetOfNaturals
  <2>6. steps = Ascending(S)
    BY <1>2, <2>2 DEF StepsOf, IsPrime95, fft
  <2>7. \A n \in S : fft.min * K <= n /\ n <= fft.max * K
    OBVIOUS
  <2> HIDE DEF S
  <2>8. /\ steps \in Seq(S) /\ PassLength = Cardinality(S) /\ Cardinality(S) \in Nat
        /\ \A i, j \in 1 .. Cardinality(S) : i < j => steps[i] < steps[j]
    BY <2>4, <2>5, <2>6, AscendingIsSorted DEF PassLength
  <2>9. \A i \in 1 .. PassLength : steps[i] \in S
    BY <2>8 DEF PassLength
  <2>10. steps \in Seq(Implemented)
    <3>1. Len(steps) \in Nat /\ steps \in [1 .. Len(steps) -> S]
      BY <2>8
    <3>2. steps \in [1 .. Len(steps) -> Implemented]
      BY <2>4, <3>1
    <3>3. QED
      BY <3>1, <3>2
  <2>11. QED
    BY <1>3, <2>2, <2>3, <2>7, <2>8, <2>9, <2>10 DEF Ordered
<1>5. CASE o.engine # "prime95"
  <2>1. TakesYCruncher(o)
    BY <1>1, <1>5 DEF Takes
  <2>2. ~IsPrime95 /\ steps = NamedAlgorithms(o)
    BY <1>1, <1>2, <1>5 DEF Configured, IsPrime95, StepsOf
  <2>3. steps \in Seq(Algorithms) /\ steps # <<>>
    BY <2>1, <2>2 DEF TakesYCruncher
  <2>4. Len(steps) \in Nat /\ Len(steps) # 0
    BY <2>3
  <2>5. QED
    BY <1>3, <2>2, <2>3, <2>4 DEF Ordered, PassLength
<1>6. QED
  BY <1>4, <1>5

-----------------------------------------------------------------------------
(* The slowest of one or two threads *)

LEMMA SlowestFacts ==
  ASSUME threads \in {1, 2}, NEW f \in [1 .. threads -> Nat]
  PROVE  /\ SlowestOf(f) \in Nat
         /\ \A t \in 1 .. threads : SlowestOf(f) <= f[t]
         /\ \E t \in 1 .. threads : SlowestOf(f) = f[t]
<1> DEFINE V == {f[t] : t \in 1 .. threads}
<1>1. \E n \in V : \A t \in 1 .. threads : n <= f[t]
  <2>1. CASE threads = 1
    <3>1. 1 .. threads = {1} /\ f[1] \in Nat /\ f[1] \in V
      BY <2>1
    <3>2. QED
      BY <3>1
  <2>2. CASE threads = 2
    <3>1. 1 .. threads = {1, 2}
      BY <2>2
    <3>2. f[1] \in Nat /\ f[2] \in Nat /\ f[1] \in V /\ f[2] \in V
      BY <3>1
    <3>3. f[1] <= f[2] \/ f[2] <= f[1]
      BY <3>2
    <3> HIDE DEF V
    <3>4. CASE f[1] <= f[2]
      BY <3>1, <3>2, <3>4
    <3>5. CASE f[2] <= f[1]
      BY <3>1, <3>2, <3>5
    <3>6. QED
      BY <3>3, <3>4, <3>5
  <2>3. QED
    BY <2>1, <2>2
<1>2. SlowestOf(f) \in V /\ \A t \in 1 .. threads : SlowestOf(f) <= f[t]
  BY <1>1 DEF SlowestOf
<1>3. QED
  BY <1>2

(* A step of one thread: the slowest count grows by one, and then it was this
   thread that was behind, or it stays. *)
LEMMA SlowestStep ==
  ASSUME threads \in {1, 2}, NEW f \in [1 .. threads -> Nat], NEW g \in [1 .. threads -> Nat],
         NEW t \in 1 .. threads, g[t] = f[t] + 1,
         \A u \in 1 .. threads : u # t => g[u] = f[u]
  PROVE  /\ SlowestOf(g) = SlowestOf(f) \/ (SlowestOf(g) = SlowestOf(f) + 1 /\ g[t] = SlowestOf(g))
         /\ threads = 1 => SlowestOf(f) = f[1] /\ SlowestOf(g) = f[1] + 1
<1>1. /\ g[t] = f[t] + 1
      /\ \A u \in 1 .. threads : u # t => g[u] = f[u]
  OBVIOUS
<1>2. /\ SlowestOf(f) \in Nat /\ SlowestOf(g) \in Nat
      /\ \A u \in 1 .. threads : SlowestOf(f) <= f[u] /\ SlowestOf(g) <= g[u]
  BY <1>1, SlowestFacts
<1>3. PICK u \in 1 .. threads : SlowestOf(f) = f[u]
  BY SlowestFacts
<1>4. PICK v \in 1 .. threads : SlowestOf(g) = g[v]
  BY <1>1, SlowestFacts
<1>5. \A w \in 1 .. threads : f[w] \in Nat /\ g[w] \in Nat
  BY <1>1
<1>6. SlowestOf(g) = SlowestOf(f) \/ (SlowestOf(g) = SlowestOf(f) + 1 /\ g[t] = SlowestOf(g))
  <2>1. SlowestOf(f) <= SlowestOf(g)
    BY <1>1, <1>2, <1>4, <1>5
  <2>2. CASE u # t
    <3>1. SlowestOf(g) <= SlowestOf(f)
      BY <1>1, <1>2, <1>3, <2>2
    <3>2. QED
      BY <1>2, <2>1, <3>1
  <2>3. CASE u = t
    <3>1. SlowestOf(g) <= SlowestOf(f) + 1 /\ g[t] = SlowestOf(f) + 1
      BY <1>1, <1>2, <1>3, <2>3
    <3>2. QED
      BY <1>2, <2>1, <3>1
  <2>4. QED
    BY <2>2, <2>3
<1>7. threads = 1 => SlowestOf(f) = f[1] /\ SlowestOf(g) = f[1] + 1
  <2>1. threads = 1 => t = 1 /\ u = 1 /\ v = 1
    OBVIOUS
  <2>2. QED
    BY <1>1, <1>3, <1>4, <2>1
<1>8. QED
  BY <1>1, <1>6, <1>7

-----------------------------------------------------------------------------
(* One verified step *)

LEMMA StepFacts ==
  ASSUME Ordered, PassLength > 0, NEW n \in Nat
  PROVE  /\ PassLength \in Nat \ {0}
         /\ n % PassLength \in 0 .. PassLength - 1
         /\ StepAt(n + 1) = steps[(n % PassLength) + 1]
         /\ StepAt(n + 1) \in IF IsPrime95 THEN Implemented ELSE Algorithms
<1> DEFINE L == PassLength
<1>1. L \in Nat \ {0} /\ steps \in Seq(IF IsPrime95 THEN Implemented ELSE Algorithms)
  <2>1. steps \in Seq(IF IsPrime95 THEN Implemented ELSE Algorithms)
    BY DEF Ordered
  <2>2. Len(steps) \in Nat
    BY <2>1
  <2>3. QED
    BY <2>1, <2>2 DEF PassLength
<1> HIDE DEF L
<1>2. n % L \in 0 .. L - 1
  BY <1>1, DivMod
<1>3. (n + 1) - 1 = n
  OBVIOUS
<1>4. StepAt(n + 1) = steps[(n % L) + 1]
  BY <1>3 DEF StepAt, L
<1>5. (n % L) + 1 \in 1 .. L
  BY <1>1, <1>2
<1>6. QED
  BY <1>1, <1>2, <1>4, <1>5 DEF L, PassLength

(* Where the step after n others stands in the pass, and what n others count. *)
LEMMA PassFacts ==
  ASSUME NEW L \in Nat \ {0}, NEW n \in Nat \ {0}
  PROVE  \/ n % L = 0 /\ (n - 1) % L = L - 1 /\ n \div L = ((n - 1) \div L) + 1
         \/ n % L > 0 /\ (n - 1) % L = (n % L) - 1 /\ n \div L = (n - 1) \div L
<1> DEFINE m == n - 1
<1>1. m \in Nat /\ n = m + 1
  OBVIOUS
<1>2. m % L \in 0 .. L - 1
  BY <1>1, DivMod
<1> HIDE DEF m
<1>3. CASE m % L = L - 1
  <2>1. n % L = 0 /\ n \div L = (m \div L) + 1
    BY <1>1, <1>3, NextDivMod
  <2>2. QED
    BY <1>3, <2>1 DEF m
<1>4. CASE m % L # L - 1
  <2>1. n % L = (m % L) + 1 /\ n \div L = m \div L
    BY <1>1, <1>4, NextDivMod
  <2>2. n % L > 0 /\ m % L = (n % L) - 1
    BY <1>2, <2>1
  <2>3. QED
    BY <2>1, <2>2 DEF m
<1>5. QED
  BY <1>3, <1>4

(* The passes and the largest size after one more step of a range Prime95 ends
   at max_fft: the step at max_fft is the last one, and no step wraps. *)
LEMMA CountAtMax ==
  ASSUME Typed, Ordered, IsPrime95, PassLength > 0, EndsAtMax,
         NEW n \in Nat, largest = LargestAfter(n),
         NEW size, size = StepAt(n + 1)
  PROVE  /\ CompletesPass(size) <=> (n + 1) % PassLength = 0
         /\ ~Wraps(size)
         /\ largest = NoSize \/ largest < size
<1> DEFINE L == PassLength
           i == (n % L) + 1
<1>1. /\ L \in Nat \ {0} /\ n % L \in 0 .. L - 1 /\ size = steps[i]
      /\ i \in 1 .. L /\ L \in 1 .. L /\ (i = L <=> n % L = L - 1)
  BY StepFacts
<1>2. /\ \A j \in 1 .. L : steps[j] \in Nat /\ fft.min * K <= steps[j] /\ steps[j] <= fft.max * K
      /\ \A j, k \in 1 .. L : j < k => steps[j] < steps[k]
      /\ steps[L] = fft.max * K
      /\ fft.min \in Nat /\ fft.max \in Nat
  <2>1. \A j \in 1 .. Len(steps) : steps[j] \in Implemented
    BY DEF Ordered
  <2>2. QED
    BY <2>1, CountAssumption DEF Ordered, EndsAtMax, PassLength
<1>3. (n + 1) % L = 0 <=> i = L
  <2>1. /\ n % L = L - 1 => (n + 1) % L = 0
        /\ n % L # L - 1 => (n + 1) % L = (n % L) + 1
    BY <1>1, NextDivMod
  <2>2. QED
    BY <1>1, <2>1
<1>4. fft.max * K \in Nat /\ fft.min * K \in Nat
  BY <1>2 DEF K
<1> HIDE DEF i, L
<1>5. CompletesPass(size) <=> i = L
  <2>1. CASE fft.min = fft.max
    <3>1. \A j \in 1 .. L : steps[j] = fft.max * K
      BY <1>2, <1>4, <2>1
    <3>2. L = 1
      <4>1. L > 1 => 1 \in 1 .. L /\ 1 < L
        BY <1>1
      <4>2. ~(L > 1)
        BY <1>1, <1>2, <1>4, <3>1, <4>1
      <4>3. QED
        BY <1>1, <4>2
    <3>3. QED
      BY <1>1, <2>1, <3>2 DEF CompletesPass
  <2>2. CASE fft.min # fft.max
    <3>1. i = L => size >= fft.max * K
      BY <1>1, <1>2, <1>4
    <3>2. i # L => steps[i] < steps[L]
      BY <1>1, <1>2
    <3>3. i # L => ~(size >= fft.max * K)
      BY <1>1, <1>2, <1>4, <3>2
    <3>4. QED
      BY <2>2, <3>1, <3>3 DEF CompletesPass
  <2>3. QED
    BY <2>1, <2>2
<1>6. largest = NoSize \/ largest < size
  <2>1. CASE n = 0 \/ n % L = 0
    BY <2>1 DEF LargestAfter, L
  <2>2. CASE n # 0 /\ n % L # 0
    <3>1. largest = steps[((n - 1) % L) + 1]
      BY <2>2 DEF LargestAfter, StepAt, L
    <3>2. (n - 1) % L = (n % L) - 1
      BY <1>1, <2>2, PassFacts
    <3>3. largest = steps[i - 1] /\ i - 1 \in 1 .. L /\ i - 1 < i
      BY <1>1, <2>2, <3>1, <3>2 DEF i
    <3>4. QED
      BY <1>1, <1>2, <3>3
  <2>3. QED
    BY <2>1, <2>2
<1>7. ~Wraps(size)
  <2>1. size \in Nat
    BY <1>1, <1>2
  <2>2. QED
    BY <1>6, <2>1 DEF Wraps, Typed
<1>8. QED
  BY <1>3, <1>5, <1>6, <1>7 DEF L

(* The same for a range that ends below max_fft: no step is the last one, and the
   first step of every pass but the first wraps. *)
LEMMA CountBelowMax ==
  ASSUME Typed, Ordered, IsPrime95, PassLength > 1, ~EndsAtMax,
         NEW n \in Nat, largest = LargestAfter(n),
         NEW size, size = StepAt(n + 1)
  PROVE  /\ ~CompletesPass(size)
         /\ Wraps(size) <=> n # 0 /\ n % PassLength = 0
         /\ Wraps(size) \/ largest = NoSize \/ largest < size
<1> DEFINE L == PassLength
           i == (n % L) + 1
<1>1. /\ L \in Nat \ {0} /\ n % L \in 0 .. L - 1 /\ size = steps[i]
      /\ i \in 1 .. L /\ L \in 1 .. L /\ 1 \in 1 .. L /\ 1 < L
  <2>1. L \in Nat /\ L > 1
    BY DEF Ordered, PassLength
  <2>2. L > 0
    BY <2>1
  <2>3. QED
    BY <2>1, <2>2, StepFacts
<1>2. /\ \A j \in 1 .. L : steps[j] \in Nat /\ fft.min * K <= steps[j] /\ steps[j] <= fft.max * K
      /\ \A j, k \in 1 .. L : j < k => steps[j] < steps[k]
      /\ steps[L] # fft.max * K
      /\ fft.min \in Nat \ {0} /\ fft.max \in Nat
  <2>1. \A j \in 1 .. Len(steps) : steps[j] \in Implemented
    BY DEF Ordered
  <2>2. QED
    BY <2>1, CountAssumption DEF Ordered, EndsAtMax, PassLength
<1>3. fft.max * K \in Nat /\ fft.min * K \in Nat \ {0}
  BY <1>2 DEF K
<1> HIDE DEF i, L
<1>4. fft.min # fft.max
  <2>1. steps[1] < steps[L] /\ fft.min * K <= steps[1] /\ steps[L] <= fft.max * K
    BY <1>1, <1>2
  <2>2. QED
    BY <1>1, <1>2, <1>3, <2>1
<1>5. size < fft.max * K /\ size \in Nat
  <2>1. i # L => steps[i] < steps[L]
    BY <1>1, <1>2
  <2>2. QED
    BY <1>1, <1>2, <1>3, <2>1
<1>6. ~CompletesPass(size)
  BY <1>3, <1>4, <1>5 DEF CompletesPass
<1>7. CASE n = 0
  <2>1. largest = NoSize
    BY <1>7 DEF LargestAfter
  <2>2. QED
    BY <1>6, <1>7, <2>1 DEF Wraps
<1>8. CASE n # 0
  <2>1. largest = steps[((n - 1) % L) + 1]
    BY <1>8 DEF LargestAfter, StepAt, L
  <2>2. CASE n % L = 0
    <3>1. (n - 1) % L = L - 1
      <4>1. n \in Nat \ {0}
        BY <1>8
      <4>2. ~(n % L > 0)
        BY <2>2
      <4>3. QED
        BY <1>1, <4>1, <4>2, PassFacts, Zenon
    <3>2. largest = steps[L] /\ size = steps[1]
      BY <1>1, <2>1, <2>2, <3>1 DEF i
    <3>3. size < largest /\ largest # 0
      BY <1>1, <1>2, <1>3, <3>2
    <3>4. QED
      BY <1>4, <1>6, <1>8, <2>2, <3>3 DEF Wraps, NoSize, L
  <2>3. CASE n % L # 0
    <3>1. (n - 1) % L = (n % L) - 1
      BY <1>1, <1>8, <2>3, PassFacts
    <3>2. largest = steps[i - 1] /\ i - 1 \in 1 .. L /\ i - 1 < i
      BY <1>1, <2>1, <2>3, <3>1 DEF i
    <3>3. largest < size
      BY <1>1, <1>2, <3>2
    <3>4. QED
      BY <1>5, <1>6, <1>8, <2>3, <3>3 DEF Wraps, Typed, L
  <2>4. QED
    BY <2>2, <2>3
<1>9. QED
  BY <1>7, <1>8

LEMMA NextCount ==
  ASSUME Typed, Ordered, IsPrime95, PassLength > 0, Recognizable,
         NEW n \in Nat, completed = CompleteIn(n), largest = LargestAfter(n),
         NEW size, size = StepAt(n + 1),
         NEW done, done = completed + (IF Wraps(size) THEN 1 ELSE 0) + (IF CompletesPass(size) THEN 1 ELSE 0),
         NEW next, next = IF CompletesPass(size) THEN NoSize
                          ELSE IF Wraps(size) THEN size ELSE Larger(largest, size)
  PROVE  done = CompleteIn(n + 1) /\ next = LargestAfter(n + 1)
<1> DEFINE L == PassLength
<1>1. /\ L \in Nat \ {0} /\ n % L \in 0 .. L - 1 /\ size \in Nat /\ completed \in Nat /\ largest \in Nat
      /\ n + 1 # 0 /\ (n + 1) - 1 = n /\ n \div L \in Nat
  <2>1. L \in Nat \ {0} /\ n % L \in 0 .. L - 1 /\ size \in Implemented
    BY StepFacts
  <2>2. n \div L \in Nat
    BY <2>1, DivMod
  <2>3. QED
    BY <2>1, <2>2, CountAssumption DEF Typed
<1>2. /\ n % L = L - 1 => (n + 1) % L = 0 /\ (n + 1) \div L = (n \div L) + 1
      /\ n % L # L - 1 => (n + 1) % L = (n % L) + 1 /\ (n + 1) \div L = n \div L
  BY <1>1, NextDivMod
<1>3. largest = NoSize \/ largest < size => Larger(largest, size) = size
  BY <1>1 DEF Larger, NoSize
<1>4. CASE EndsAtMax
  <2>1. CompleteIn(n) = n \div L /\ CompleteIn(n + 1) = (n + 1) \div L
    BY <1>4 DEF CompleteIn, EndsAtMax, L
  <2>2. LargestAfter(n + 1) = IF (n + 1) % L = 0 THEN NoSize ELSE size
    BY <1>1, <1>4 DEF LargestAfter, L
  <2>3. /\ CompletesPass(size) <=> (n + 1) % L = 0
        /\ ~Wraps(size)
        /\ largest = NoSize \/ largest < size
    BY <1>4, CountAtMax
  <2>4. (n + 1) % L = 0 <=> n % L = L - 1
    BY <1>1, <1>2
  <2> HIDE DEF L
  <2>5. CASE n % L = L - 1
    BY <1>1, <1>2, <1>3, <2>1, <2>2, <2>3, <2>4, <2>5
  <2>6. CASE n % L # L - 1
    BY <1>1, <1>2, <1>3, <2>1, <2>2, <2>3, <2>4, <2>6
  <2>7. QED
    BY <2>5, <2>6
<1>5. CASE ~EndsAtMax
  <2>1. L > 1
    <3>1. L = 1 => EndsAtMax
      BY <1>5 DEF Recognizable, EndsAtMax, L
    <3>2. QED
      BY <1>1, <1>5, <3>1
  <2>2. CompleteIn(n + 1) = n \div L /\ CompleteIn(n) = IF n = 0 THEN n \div L ELSE (n - 1) \div L
    BY <1>1, <1>5 DEF CompleteIn, EndsAtMax, L
  <2>3. LargestAfter(n + 1) = size
    BY <1>1, <1>5 DEF LargestAfter
  <2>4. /\ ~CompletesPass(size)
        /\ Wraps(size) <=> n # 0 /\ n % L = 0
        /\ Wraps(size) \/ largest = NoSize \/ largest < size
    BY <1>5, <2>1, CountBelowMax
  <2>5. next = size
    BY <1>3, <2>4
  <2>6. CASE n = 0
    BY <1>1, <2>2, <2>3, <2>4, <2>5, <2>6
  <2>7. CASE n # 0
    <3>1. \/ n % L = 0 /\ n \div L = ((n - 1) \div L) + 1
          \/ n % L > 0 /\ n \div L = (n - 1) \div L
      <4>1. n \in Nat \ {0}
        BY <2>7
      <4>2. QED
        BY <1>1, <4>1, PassFacts
    <3>2. (n - 1) \div L \in Nat
      <4>1. n - 1 \in Nat
        BY <2>7
      <4>2. QED
        BY <1>1, <4>1, DivMod
    <3> HIDE DEF L
    <3>3. CASE n % L = 0
      BY <1>1, <2>2, <2>3, <2>4, <2>5, <2>7, <3>1, <3>2, <3>3
    <3>4. CASE n % L # 0
      BY <1>1, <2>2, <2>3, <2>4, <2>5, <2>7, <3>1, <3>2, <3>4
    <3>5. QED
      BY <3>3, <3>4
  <2>8. QED
    BY <2>6, <2>7
<1>6. QED
  BY <1>4, <1>5

(* A report more in the list of reports. *)
LEMMA ReportKeeps ==
  ASSUME Typed, Ordered, InStep, Counted, PassLength > 0,
         UNCHANGED <<config, threads, steps>>, stepsPassed' = stepsPassed + 1,
         NEW size, size = StepAt(stepsPassed + 1), NEW done \in Nat, StepVerified(size, done),
         IsPrime95 => largest' \in Nat,
         Countable => /\ done = CompleteIn(stepsPassed + 1)
                      /\ IsPrime95 => largest' = LargestAfter(stepsPassed + 1)
  PROVE  /\ completed' \in Nat /\ verified' \in Seq(Reports')
         /\ Len(verified') = stepsPassed'
         /\ \A n \in 1 .. Len(verified') : verified'[n].step = StepAt(n)'
         /\ Counted'
<1> DEFINE new == [step |-> size, completed |-> done]
<1>1. completed' = done /\ verified' = Append(verified, new)
  BY DEF StepVerified
<1>2. /\ stepsPassed \in Nat /\ verified \in Seq(Reports) /\ Len(verified) = stepsPassed
      /\ Reports' = Reports
  BY DEF Typed, InStep, Reports, IsPrime95
<1>3. new \in Reports
  <2>1. size \in IF IsPrime95 THEN Implemented ELSE Algorithms
    BY <1>2, StepFacts
  <2>2. QED
    BY <2>1 DEF Reports
<1>4. new.step = size /\ new.completed = done
  OBVIOUS
<1> HIDE DEF new
<1>5. /\ verified' \in Seq(Reports) /\ Len(verified') = stepsPassed + 1
      /\ \A n \in 1 .. Len(verified) : verified'[n] = verified[n]
      /\ verified'[stepsPassed + 1] = new
      /\ \A n \in 1 .. Len(verified') : n \in 1 .. Len(verified) \/ n = stepsPassed + 1
  BY <1>1, <1>2, <1>3
<1>6. \A n : /\ StepAt(n)' = StepAt(n) /\ CompleteIn(n)' = CompleteIn(n)
             /\ LargestAfter(n)' = LargestAfter(n)
  BY DEF StepAt, PassLength, CompleteIn, IsPrime95, fft, LargestAfter, EndsAtMax
<1>7. (Countable' <=> Countable) /\ IsPrime95' = IsPrime95
  BY DEF Countable, PassLength, IsPrime95, Recognizable, fft
<1>8. \A n \in 1 .. Len(verified') : verified'[n].step = StepAt(n)
  BY <1>4, <1>5 DEF InStep
<1>9. ASSUME Countable
      PROVE  /\ completed' = CompleteIn(stepsPassed + 1)
             /\ IsPrime95 => largest' = LargestAfter(stepsPassed + 1)
             /\ \A n \in 1 .. Len(verified') : verified'[n].completed = CompleteIn(n)
  BY <1>1, <1>4, <1>5, <1>9 DEF Counted
<1>10. Counted'
  <2>1. Counted' <=>
          (Countable' =>
             /\ completed' = CompleteIn(stepsPassed)'
             /\ IsPrime95' => largest' = LargestAfter(stepsPassed)'
             /\ \A n \in 1 .. Len(verified') : verified'[n].completed = CompleteIn(n)')
    BY DEF Counted
  <2>2. CompleteIn(stepsPassed)' = CompleteIn(stepsPassed + 1)
    BY DEF CompleteIn, PassLength, IsPrime95, fft
  <2>3. LargestAfter(stepsPassed)' = LargestAfter(stepsPassed + 1)
    BY DEF LargestAfter, EndsAtMax, StepAt, PassLength, fft
  <2>4. QED
    BY <1>6, <1>7, <1>9, <2>1, <2>2, <2>3
<1>11. QED
  BY <1>1, <1>2, <1>5, <1>6, <1>8, <1>10

-----------------------------------------------------------------------------
(* The steps *)

LEMMA ParsesWhatIsPrinted == ASSUME NEW n \in Nat PROVE ParseFftSize(Printed(n)) = n
<1>1. CASE n % K = 0
  <2>1. (n \div K) * K = n
    BY <1>1 DEF K
  <2>2. QED
    BY <1>1, <2>1 DEF ParseFftSize, Printed
<1>2. CASE n % K # 0
  BY <1>2 DEF ParseFftSize, Printed
<1>3. QED
  BY <1>1, <1>2

LEMMA Prime95Keeps ==
  ASSUME IInv, NEW t \in 1 .. threads, Prime95Passes(t)
  PROVE  IInv'
<1> DEFINE size == ParseFftSize(Printed(StepAt(passed'[t])))
<1>1. /\ IsPrime95 /\ PassLength > 0 /\ passed' = [passed EXCEPT ![t] = @ + 1]
      /\ UNCHANGED <<config, threads, steps>>
      /\ IF threads = 1 THEN FeedUntagged(size) ELSE FeedTagged(t, size)
  BY DEF Prime95Passes
<1>2. Typed /\ Ordered /\ InStep /\ Counted /\ threads \in {1, 2} /\ passed \in [1 .. threads -> Nat]
      /\ stepsPassed \in Nat /\ stepsPassed = SlowestOf(passed)
  BY DEF IInv, Typed, InStep, Verified
<1>3. /\ passed' \in [1 .. threads -> Nat] /\ passed'[t] = passed[t] + 1 /\ passed[t] \in Nat
      /\ \/ SlowestOf(passed') = SlowestOf(passed)
         \/ SlowestOf(passed') = SlowestOf(passed) + 1 /\ passed'[t] = SlowestOf(passed')
      /\ threads = 1 => SlowestOf(passed) = passed[1] /\ SlowestOf(passed') = passed[1] + 1
  <2>1. PICK g : g = passed'
    OBVIOUS
  <2>2. g = [passed EXCEPT ![t] = @ + 1]
    BY <1>1, <2>1
  <2>3. /\ g \in [1 .. threads -> Nat] /\ g[t] = passed[t] + 1
        /\ \A u \in 1 .. threads : u # t => g[u] = passed[u]
    BY <1>2, <2>2
  <2>4. /\ SlowestOf(g) = SlowestOf(passed) \/ (SlowestOf(g) = SlowestOf(passed) + 1 /\ g[t] = SlowestOf(g))
        /\ threads = 1 => SlowestOf(passed) = passed[1] /\ SlowestOf(g) = passed[1] + 1
    BY <1>2, <2>3, SlowestStep, Zenon
  <2>5. passed[t] \in Nat
    BY <1>2
  <2>6. QED
    BY <2>1, <2>3, <2>4, <2>5
<1>4. SlowestOf(passed)' = SlowestOf(passed')
  BY <1>1 DEF SlowestOf
<1>5. IsPrime95' /\ PassLength' = PassLength /\ fft' = fft
  BY <1>1 DEF IsPrime95, PassLength, fft
<1>6. size = StepAt(passed[t] + 1) /\ size \in Nat
  <2>1. StepAt(passed[t] + 1) \in Implemented
    BY <1>1, <1>2, <1>3, StepFacts
  <2>2. StepAt(passed[t] + 1) \in Nat
    BY <2>1, CountAssumption
  <2>3. QED
    BY <1>3, <2>2, ParsesWhatIsPrinted
<1> HIDE DEF size
<1>7. Ordered'
  BY <1>1, <1>2, <1>5 DEF Ordered
<1>8. ASSUME CountStep(size), stepsPassed' = stepsPassed + 1, passed[t] = stepsPassed,
             threads = 2 => threadPasses' = passed', SlowestOf(passed') = stepsPassed + 1
      PROVE  IInv'
  <2> DEFINE done == completed + (IF Wraps(size) THEN 1 ELSE 0) + (IF CompletesPass(size) THEN 1 ELSE 0)
  <2>1. /\ StepVerified(size, done)
        /\ largest' = IF CompletesPass(size) THEN NoSize
                      ELSE IF Wraps(size) THEN size ELSE Larger(largest, size)
    BY <1>8 DEF CountStep
  <2>2. done \in Nat /\ largest' \in Nat
    BY <1>2, <1>6, <2>1 DEF Typed, Larger, NoSize
  <2>3. Countable => done = CompleteIn(stepsPassed + 1) /\ largest' = LargestAfter(stepsPassed + 1)
    <3> SUFFICES ASSUME Countable
                 PROVE  done = CompleteIn(stepsPassed + 1) /\ largest' = LargestAfter(stepsPassed + 1)
      OBVIOUS
    <3>1. completed = CompleteIn(stepsPassed) /\ largest = LargestAfter(stepsPassed) /\ Recognizable
      BY <1>1, <1>2 DEF Counted, Countable
    <3>2. size = StepAt(stepsPassed + 1)
      BY <1>6, <1>8
    <3> HIDE DEF done
    <3>3. QED
      BY <1>1, <1>2, <2>1, <3>1, <3>2, NextCount DEF done
  <2> HIDE DEF done
  <2>4. /\ completed' \in Nat /\ verified' \in Seq(Reports')
        /\ Len(verified') = stepsPassed'
        /\ \A n \in 1 .. Len(verified') : verified'[n].step = StepAt(n)'
        /\ Counted'
    BY <1>1, <1>2, <1>6, <1>8, <2>1, <2>2, <2>3, ReportKeeps
  <2>5. Typed'
    BY <1>1, <1>2, <1>3, <1>5, <1>8, <2>2, <2>4 DEF Typed
  <2>6. InStep'
    BY <1>1, <1>2, <1>4, <1>5, <1>8, <2>4 DEF InStep, Verified
  <2>7. QED
    BY <1>7, <2>4, <2>5, <2>6 DEF IInv
<1>9. CASE threads = 1
  <2>1. FeedUntagged(size) /\ t = 1
    BY <1>1, <1>9
  <2>2. QED
    BY <1>2, <1>3, <1>8, <1>9, <2>1 DEF FeedUntagged
<1>10. CASE threads = 2
  <2>1. /\ FeedTagged(t, size)
        /\ threadPasses = passed /\ threadPasses' = passed'
    BY <1>1, <1>2, <1>10 DEF FeedTagged, InStep
  <2>2. CASE SlowestOf(passed') = SlowestOf(passed)
    <3>1. UNCHANGED <<stepsPassed, largest, completed, verified>>
      <4>1. SlowestOf(threadPasses') <= stepsPassed
        BY <1>2, <2>1, <2>2
      <4>2. QED
        BY <2>1, <4>1 DEF FeedTagged
    <3>2. Typed'
      BY <1>1, <1>2, <1>3, <1>5, <3>1 DEF Typed, Reports
    <3>3. InStep'
      BY <1>1, <1>2, <1>4, <1>5, <2>1, <2>2, <3>1 DEF InStep, Verified, StepAt
    <3>4. Counted'
      BY <1>1, <1>2, <3>1 DEF Counted, Countable, PassLength, IsPrime95, Recognizable, fft, CompleteIn,
         LargestAfter, EndsAtMax, StepAt
    <3>5. QED
      BY <1>7, <3>2, <3>3, <3>4 DEF IInv
  <2>3. CASE SlowestOf(passed') = SlowestOf(passed) + 1 /\ passed'[t] = SlowestOf(passed')
    <3>1. passed[t] = stepsPassed
      BY <1>2, <1>3, <2>3
    <3>2. ~(SlowestOf(threadPasses') <= stepsPassed)
      BY <1>2, <2>1, <2>3
    <3>3. stepsPassed' = SlowestOf(threadPasses') /\ CountStep(size)
      BY <2>1, <3>2 DEF FeedTagged
    <3>4. QED
      BY <1>2, <1>8, <2>1, <2>3, <3>1, <3>3
  <2>4. QED
    BY <1>3, <2>2, <2>3
<1>11. QED
  BY <1>2, <1>9, <1>10

LEMMA YCruncherKeeps == IInv /\ YCruncherPasses => IInv'
<1> SUFFICES ASSUME IInv, YCruncherPasses PROVE IInv'
  OBVIOUS
<1>1. /\ ~IsPrime95 /\ passed' = [t \in 1 .. threads |-> passed[t] + 1]
      /\ FeedPassed(StepAt(passed'[1]))
      /\ UNCHANGED <<config, threads, steps>>
  BY DEF YCruncherPasses
<1>2. Typed /\ Ordered /\ InStep /\ Counted /\ threads = 1 /\ passed \in [1 .. threads -> Nat]
      /\ stepsPassed \in Nat /\ stepsPassed = SlowestOf(passed) /\ PassLength > 0 /\ completed \in Nat
  BY <1>1 DEF IInv, Typed, InStep, Verified, Ordered
<1>3. 1 \in 1 .. threads /\ passed' = [passed EXCEPT ![1] = @ + 1]
  <2>1. 1 .. threads = {1} /\ DOMAIN passed = {1}
    BY <1>2
  <2>2. QED
    BY <1>1, <2>1
<1>4. /\ passed' \in [1 .. threads -> Nat] /\ passed'[1] = stepsPassed + 1
      /\ SlowestOf(passed') = stepsPassed + 1
  <2>1. PICK g : g = passed'
    OBVIOUS
  <2>2. g = [passed EXCEPT ![1] = @ + 1]
    BY <1>3, <2>1
  <2>3. /\ g \in [1 .. threads -> Nat] /\ g[1] = passed[1] + 1
        /\ \A u \in 1 .. threads : u # 1 => g[u] = passed[u]
    BY <1>2, <1>3, <2>2
  <2>4. threads \in {1, 2}
    BY <1>2
  <2>5. passed \in [1 .. threads -> Nat] /\ 1 \in 1 .. threads
    BY <1>2, <1>3
  <2>6. threads = 1 => SlowestOf(passed) = passed[1] /\ SlowestOf(g) = passed[1] + 1
    BY <2>3, <2>4, <2>5, SlowestStep, Zenon
  <2>7. QED
    BY <1>2, <2>1, <2>3, <2>6
<1>5. SlowestOf(passed)' = SlowestOf(passed')
  BY <1>1 DEF SlowestOf
<1>6. ~IsPrime95' /\ PassLength' = PassLength
  BY <1>1 DEF IsPrime95, PassLength
<1> DEFINE size == StepAt(stepsPassed + 1)
           done == completed + (IF (stepsPassed + 1) % PassLength = 0 THEN 1 ELSE 0)
<1>7. /\ StepVerified(size, done) /\ stepsPassed' = stepsPassed + 1
      /\ UNCHANGED <<threadPasses, largest>>
  BY <1>1, <1>4 DEF FeedPassed
<1>8. done \in Nat
  BY <1>2
<1>9. done = CompleteIn(stepsPassed + 1)
  <2> DEFINE L == PassLength
             n == stepsPassed
  <2>1. completed = n \div L /\ CompleteIn(n + 1) = (n + 1) \div L
    BY <1>1, <1>2 DEF Counted, Countable, CompleteIn
  <2>2. n \in Nat /\ L \in Nat \ {0} /\ n % L \in 0 .. L - 1
    BY <1>2, StepFacts
  <2>3. /\ n % L = L - 1 => (n + 1) % L = 0 /\ (n + 1) \div L = (n \div L) + 1
        /\ n % L # L - 1 => (n + 1) % L = (n % L) + 1 /\ (n + 1) \div L = n \div L
    BY <2>2, NextDivMod
  <2>4. done = (n \div L) + (IF (n + 1) % L = 0 THEN 1 ELSE 0)
    BY <2>1
  <2> HIDE DEF L, n, done
  <2>5. done = CompleteIn(n + 1)
    BY <2>1, <2>2, <2>3, <2>4
  <2>6. QED
    BY <2>5 DEF n
<1> HIDE DEF size, done
<1>10. /\ completed' \in Nat /\ verified' \in Seq(Reports')
       /\ Len(verified') = stepsPassed'
       /\ \A n \in 1 .. Len(verified') : verified'[n].step = StepAt(n)'
       /\ Counted'
  <2>1. size = StepAt(stepsPassed + 1)
    BY DEF size
  <2>2. QED
    BY <1>1, <1>2, <1>7, <1>8, <1>9, <2>1, ReportKeeps
<1>11. Typed'
  BY <1>1, <1>2, <1>4, <1>6, <1>7, <1>10 DEF Typed
<1>12. InStep'
  BY <1>1, <1>2, <1>4, <1>5, <1>6, <1>7, <1>10 DEF InStep, Verified
<1>13. Ordered'
  BY <1>1, <1>2, <1>6 DEF Ordered
<1>14. QED
  BY <1>10, <1>11, <1>12, <1>13 DEF IInv

LEMMA Initially == Init => IInv
<1> SUFFICES ASSUME Init PROVE IInv
  OBVIOUS
<1>1. Ordered /\ threads \in {1, 2} /\ (~IsPrime95 => threads = 1)
  BY InitOrdered
<1>2. /\ passed = [t \in 1 .. threads |-> 0] /\ threadPasses = [t \in 1 .. threads |-> 0]
      /\ stepsPassed = 0 /\ largest = NoSize /\ completed = 0 /\ verified = <<>>
  BY DEF Init
<1>3. Verified = 0
  <2>1. passed \in [1 .. threads -> Nat] /\ \A t \in 1 .. threads : passed[t] = 0
    BY <1>2
  <2>2. QED
    BY <1>1, <2>1, SlowestFacts DEF Verified
<1>4. Typed
  BY <1>1, <1>2 DEF Typed, NoSize
<1>5. InStep
  BY <1>2, <1>3 DEF InStep
<1>6. Counted
  <2> SUFFICES ASSUME Countable PROVE completed = CompleteIn(stepsPassed) /\ largest = LargestAfter(stepsPassed)
    BY <1>2 DEF Counted
  <2>1. PassLength \in Nat \ {0}
    BY <1>1, StepFacts DEF Countable
  <2>2. 0 \div PassLength = 0
    <3>1. 0 = PassLength * 0 + 0 /\ 0 \in 0 .. PassLength - 1
      BY <2>1
    <3>2. QED
      BY <2>1
  <2>3. QED
    BY <1>2, <2>2 DEF CompleteIn, LargestAfter
<1>7. QED
  BY <1>1, <1>4, <1>5, <1>6 DEF IInv

LEMMA Inductive == IInv /\ [Next]_vars => IInv'
<1> SUFFICES ASSUME IInv, [Next]_vars PROVE IInv'
  OBVIOUS
<1>1. CASE UNCHANGED vars
  <2>1. /\ UNCHANGED <<config, threads, steps, passed, threadPasses, stepsPassed, largest, completed, verified>>
    BY <1>1 DEF vars, parser
  <2>2. Typed' /\ Ordered' /\ InStep'
    BY <2>1 DEF IInv, Typed, Ordered, InStep, Reports, IsPrime95, fft, PassLength, Verified, SlowestOf, StepAt
  <2>3. Counted'
    BY <2>1 DEF IInv, Counted, Countable, PassLength, IsPrime95, Recognizable, fft, CompleteIn,
       LargestAfter, EndsAtMax, StepAt
  <2>4. QED
    BY <2>2, <2>3 DEF IInv
<1>2. QED
  BY <1>1, Prime95Keeps, YCruncherKeeps DEF Next

-----------------------------------------------------------------------------
(* Every complete pass of every thread is counted once, when it is complete as
   far as the lines tell, for every range of lengths, list of algorithms and
   order in which two threads report; the listener hears of every verified step
   once and in order. *)
THEOREM PassesCounted == Spec => []PassesAreCounted
<1>1. IInv => PassesAreCounted
  <2> SUFFICES ASSUME IInv PROVE PassesAreCounted
    OBVIOUS
  <2>1. /\ stepsPassed = Verified /\ Len(verified) = Verified
        /\ \A n \in 1 .. Len(verified) : verified[n].step = StepAt(n)
    BY DEF IInv, InStep
  <2>2. DOMAIN verified = 1 .. Len(verified)
    BY DEF IInv, Typed
  <2>3. Countable =>
          /\ completed = CompleteIn(Verified)
          /\ \A n \in 1 .. Len(verified) : verified[n].completed = CompleteIn(n)
    BY <2>1 DEF IInv, Counted
  <2>4. \A n \in DOMAIN verified : PassLength > 0
    <3>1. PassLength \in Nat
      BY DEF IInv, Ordered, PassLength
    <3>2. PassLength = 0 => Len(verified) = 0
      BY DEF IInv, InStep
    <3>3. QED
      BY <2>2, <3>1, <3>2
  <2>5. QED
    BY <2>1, <2>2, <2>3, <2>4 DEF PassesAreCounted, Countable
<1>2. QED
  BY <1>1, Initially, Inductive, PTL DEF Spec
=============================================================================
