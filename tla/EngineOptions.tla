--------------------------- MODULE EngineOptions ---------------------------
(***************************************************************************)
(* From the command line to what an engine works through: the FFT range of *)
(* Prime95 (build_fft_config and parse_parameters of runners/prime95.py)   *)
(* and the algorithms of y-cruncher (parse_algorithms and parse_parameters *)
(* of runners/y_cruncher.py), with the instruction sets of the CPU         *)
(* (lib/cpu.py).  Pure operators; an option that was not given is None, a  *)
(* duration is a number of tenths and a unit.                              *)
(***************************************************************************)
EXTENDS Integers, Sequences, FiniteSets, SequencesExt

CONSTANTS
    MinFft, MaxFft,     \* PRIME95_MIN_FFT_K, PRIME95_MAX_FFT_K
    Presets,            \* FFT_PRESETS: name to range
    Overrides,          \* FFT_PRESET_OVERRIDES: <<name, mode>> to range
    DefaultPreset,      \* "smallest"
    Algorithms,         \* VALID_ALGORITHMS
    AlgorithmPresets    \* ALGORITHM_PRESETS: name to algorithms

Hierarchy == <<"avx512", "avx2", "avx", "sse">>
None      == -1

FftRange(from, to) == [min |-> from, max |-> to]

ASSUME FftAssumption ==
    /\ MinFft \in Nat \ {0} /\ MaxFft \in Nat /\ MinFft <= MaxFft
    /\ DefaultPreset \in DOMAIN Presets
    /\ \A name \in DOMAIN Presets :
           Presets[name] \in [min : Nat, max : Nat] /\ Presets[name].min <= Presets[name].max
    /\ \A special \in DOMAIN Overrides : Overrides[special] \in [min : Nat, max : Nat]

-----------------------------------------------------------------------------
(* detect_cpu_instruction_sets: what the flags of /proc/cpuinfo tell, or the
   baseline of x86_64 if they tell nothing. *)
SupportedBy(flags) ==
    LET told == { mode \in {"sse", "avx", "avx2", "avx512"} :
                    CASE mode = "sse"    -> flags \cap {"sse", "sse2"} # {}
                      [] mode = "avx512" -> "avx512f" \in flags
                      [] OTHER           -> mode \in flags }
    IN  IF told = {} THEN {"sse", "avx", "avx2"} ELSE told

(* parse_duration, in tenths of a second *)
Multiplier == [none |-> 1, s |-> 1, m |-> 60, h |-> 3600]
DurationOf(text) == text.number * Multiplier[text.unit]

(* get_default_instruction_set *)
BestMode(supported) ==
    LET best == SelectSeq(Hierarchy, LAMBDA mode : mode \in supported)
    IN  IF best = <<>> THEN "sse" ELSE best[1]

ModeOf(o) == IF o.mode = "none" THEN BestMode(SupportedBy(o.flags)) ELSE o.mode

OrElse(x, default) == IF x = None THEN default ELSE x

HasBounds(o) == o.min # None \/ o.max # None

PresetRange(name, mode) ==
    IF <<name, mode>> \in DOMAIN Overrides THEN Overrides[<<name, mode>>] ELSE Presets[name]

(* The range before it is checked; --prime-fft is a preset's name or a range. *)
BaseRange(o) ==
    IF HasBounds(o) THEN FftRange(OrElse(o.min, MinFft), OrElse(o.max, MaxFft))
    ELSE IF o.preset = "range" THEN o.range
    ELSE PresetRange(IF o.preset = "none" THEN DefaultPreset ELSE o.preset, ModeOf(o))

RangeFails(o) ==
    \/ IF HasBounds(o) THEN o.preset # "none" ELSE o.preset \notin DOMAIN Presets \cup {"none", "range"}
    \/ ~(MinFft <= BaseRange(o).min /\ BaseRange(o).min <= BaseRange(o).max /\ BaseRange(o).max <= MaxFft)

(* Prime95Runner.parse_parameters: the options it takes; else ValueError *)
TakesPrime95(o) ==
    /\ ModeOf(o) \in SupportedBy(o.flags)
    /\ ~RangeFails(o)
    /\ o.memory = None \/ o.memory >= 0
    /\ DurationOf(o.duration) > 0 /\ DurationOf(o.duration) % 600 = 0

-----------------------------------------------------------------------------
(* parse_algorithms: a preset's name, or a list that may have empty items; an
   algorithm named twice is tested twice. *)
NamedAlgorithms(o) ==
    IF o.preset \in DOMAIN AlgorithmPresets THEN AlgorithmPresets[o.preset]
    ELSE SelectSeq(o.items, LAMBDA item : item # "")

(* YCruncherRunner.parse_parameters: the options it takes; else ValueError *)
TakesYCruncher(o) ==
    /\ NamedAlgorithms(o) \in Seq(Algorithms) \ {<<>>}
    /\ DurationOf(o.duration) > 0 /\ DurationOf(o.duration) % 10 = 0
    /\ o.memory >= 0

(* write_config: what the engine is configured with for so many logical CPUs.
   y-cruncher is given the CPUs themselves and reports for all of them. *)
Configured(o, cpus) ==
    IF o.engine = "prime95"
    THEN [engine |-> o.engine, fft |-> BaseRange(o), hyperthreading |-> cpus > 1]
    ELSE [engine |-> o.engine, algorithms |-> NamedAlgorithms(o)]

Takes(o) == IF o.engine = "prime95" THEN TakesPrime95(o) ELSE TakesYCruncher(o)
=============================================================================
