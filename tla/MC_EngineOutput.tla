-------------------------- MODULE MC_EngineOutput --------------------------
(* TLC instances of EngineOutput.  The presets keep the shape of the source's
   with fewer lengths; the ranges end at a length Prime95 has, end above it, or
   consist of a single length, in K or in elements. *)
EXTENDS EngineOutput

InElements == {4096, 4608, 5120, 36 * K, 40 * K, 48 * K, 12 * K}

FftPresets   == [smallest |-> FftRange(4, 5), small |-> FftRange(36, 48)]
FftOverrides == [p \in {<<"small", "sse">>} |-> FftRange(40, 48)]
Tests        == {"BBP", "SFTv4", "VT3", "BKT"}
TestPresets  == [breadpit |-> <<"BBP", "SFTv4", "VT3">>]

Prime95(preset, range, min, max, mode, flags, memory, duration) ==
    [engine |-> "prime95", preset |-> preset, range |-> range, min |-> min, max |-> max,
     mode |-> mode, flags |-> flags, memory |-> memory, duration |-> duration]

Text(seconds, unit) == [number |-> 10 * seconds, unit |-> unit]

AnyRange == FftRange(4, 4)

Ranged(from, to) == Prime95("range", FftRange(from, to), None, None, "none", {"sse2", "avx"}, None, Text(1, "m"))

YCruncher(preset, items, memory, duration) ==
    [engine |-> "y-cruncher", preset |-> preset, items |-> items, memory |-> memory, duration |-> duration]

CommandLines ==
    { Ranged(from, to) : from \in {3, 4, 5, 12, 36, 41}, to \in {4, 5, 40, 48, 49, 64} }
    \cup { Prime95(preset, AnyRange, min, max, mode, flags, memory, duration) :
             preset \in {"none", "small", "tiny"}, min \in {None, 40}, max \in {None, 49},
             mode \in {"none", "sse"}, flags \in {{"sse", "sse2"}, {"sse2", "avx", "avx2"}, {"avx"}, {}},
             memory \in {None, 0, -2}, duration \in {Text(0, "s"), Text(60, "none"), Text(90, "s"), Text(1, "h")} }
    \cup { YCruncher(preset, items, memory, duration) :
             preset \in {"none", "breadpit"},
             items \in {<<"">>, <<"BKT">>, <<"VT3", "", "BKT", "VT3">>, <<"VT3", "VST">>},
             memory \in {0, -1}, duration \in {[number |-> 15, unit |-> "s"], [number |-> 15, unit |-> "m"]} }
=============================================================================
