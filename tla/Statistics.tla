----------------------------- MODULE Statistics -----------------------------
(***************************************************************************)
(* The telemetry statistics of lib/models.py: the clock drop of a sample,  *)
(* the summary of a run and the worst run of a core.  A sample is the MHz  *)
(* its effective clock is below the target, a summary is twice the median  *)
(* and the largest drop.  Panes is built on it.                            *)
(***************************************************************************)
EXTENDS Integers, SequencesExt

CONSTANTS Noise, Threshold     \* STRETCH_NOISE_MHZ, STRETCH_THRESHOLD_MHZ

ASSUME ThresholdAssumption == Noise \in Nat /\ Threshold \in Nat /\ Noise < Threshold

(* TelemetrySample.stretch_mhz *)
Stretch(drop) == IF drop > Noise THEN drop ELSE 0

(* The k-th smallest value of a sequence: fewer than k are below it, and at least
   k are not above it. *)
KthSmallest(values, k) ==
    CHOOSE v \in ToSet(values) :
        /\ Cardinality({i \in DOMAIN values : values[i] < v}) < k
        /\ k <= Cardinality({i \in DOMAIN values : values[i] <= v})

(* statistics.median, doubled: the sum of the two values in the middle, which are
   the same one if their number is odd *)
Doubled(values) ==
    KthSmallest(values, (Len(values) + 1) \div 2) + KthSmallest(values, Len(values) \div 2 + 1)

(* TelemetrySummary.from_samples, of at least one sample *)
FromSamples(drops) ==
    [median |-> Doubled([i \in DOMAIN drops |-> Stretch(drops[i])]),
     max    |-> Max({Stretch(drops[i]) : i \in DOMAIN drops})]

(* Mutant of WorstOf: the latest run is shown. *)
LatestOf(runs) == runs[Len(runs)]

(* CoreStats.telemetry: a later run replaces the worst one so far if it is not
   better. *)
WorstOf(runs) ==
    LET worst[i \in DOMAIN runs] ==
            IF i = 1 \/ runs[i].median >= worst[i - 1].median THEN runs[i] ELSE worst[i - 1]
    IN  worst[Len(runs)]

(* CoreStats.stretching_detected *)
Stretches(runs) == runs # <<>> /\ WorstOf(runs).median >= 2 * Threshold

(* Most samples of a run show a drop that counts as stretching, or do not. *)
MostlyStretched(drops) == 2 * Cardinality({i \in DOMAIN drops : drops[i] >= Threshold}) > Len(drops)
MostlySteady(drops)    == 2 * Cardinality({i \in DOMAIN drops : drops[i] < Threshold}) > Len(drops)
=============================================================================
