---------------------------- MODULE EngineOutput ----------------------------
(***************************************************************************)
(* Counting what an engine verified (OutputParser of runners/base.py,      *)
(* Prime95OutputParser and YCruncherOutputParser).  Prime95 works through  *)
(* the FFT sizes of its range again and again, on one thread or on two     *)
(* that report each step for themselves; y-cruncher works through its      *)
(* algorithms.  The parser has to tell from these lines how many passes    *)
(* are complete.  A line is fed when it is printed: the pipe keeps the     *)
(* order.                                                                  *)
(*                                                                         *)
(* Assumed of the engines, as the parsers do: they take their steps in the *)
(* configured (Prime95: ascending) order, every thread takes all of them,  *)
(* and y-cruncher reports a step for all its threads.                      *)
(***************************************************************************)
EXTENDS EngineOptions, Order

CONSTANTS
    Options,    \* command lines: [engine, ...]
    Implemented,\* the FFT lengths Prime95 has, in elements
    CpuCounts,  \* logical CPUs an engine may be pinned to
    MaxSteps    \* bound: steps a thread works on

ASSUME CountAssumption ==
    /\ Implemented \subseteq Nat /\ CpuCounts \subseteq {1, 2}
    /\ MaxSteps \in Nat
ASSUME OptionAssumption ==
    \A o \in Options : o.engine = "prime95" =>
        o.min \in Int /\ o.max \in Int /\ o.range \in [min : Int, max : Int]

VARIABLES
    config,     \* what the command line configured, fixed
    threads,    \* engine: its threads that report, fixed
    steps,      \* engine: the steps of a pass, fixed
    passed,     \* engine: steps each thread passed and reported
    threadPasses,   \* _thread_passes
    stepsPassed,    \* _steps_passed of Prime95's parser, steps_verified of y-cruncher's
    largest,    \* _largest_in_pass, NoSize for None
    completed,  \* completed_iterations
    verified    \* what on_test_verified was called with: step and iterations

parser == <<threadPasses, stepsPassed, largest, completed, verified>>
vars   == <<config, threads, steps, passed, parser>>

K      == 1024
NoSize == 0

IsPrime95 == config.engine = "prime95"
fft       == config.fft

(* The engine's pass: the lengths Prime95 has in the range, or the algorithms. *)
StepsOf(c) ==
    IF c.engine = "prime95"
    THEN Ascending({n \in Implemented : c.fft.min * K <= n /\ n <= c.fft.max * K})
    ELSE c.algorithms

(* Its threads that report: TortureHyperthreading adds the sibling's. *)
ThreadsOf(c) == IF c.engine = "prime95" /\ c.hyperthreading THEN 2 ELSE 1

Init ==
    /\ config \in {Configured(o, cpus) : o \in {o \in Options : Takes(o)}, cpus \in CpuCounts}
    /\ threads = ThreadsOf(config)
    /\ steps = StepsOf(config)
    /\ passed = [t \in 1 .. threads |-> 0]
    /\ threadPasses = [t \in 1 .. threads |-> 0]
    /\ stepsPassed = 0 /\ largest = NoSize /\ completed = 0 /\ verified = <<>>

-----------------------------------------------------------------------------
PassLength == Len(steps)
StepAt(n)  == steps[((n - 1) % PassLength) + 1]

(* How Prime95 prints a length: in K where it is a whole number of them. *)
Printed(n) == IF n % K = 0 THEN [unit |-> "K", value |-> n \div K] ELSE [unit |-> "", value |-> n]

(* parse_fft_size_k, here in elements so that it stays whole *)
ParseFftSize(size) ==
    CASE size.unit = "M" -> size.value * K * K
      [] size.unit = "K" -> size.value * K
      [] OTHER -> size.value

CompletesPass(size) == fft.min = fft.max \/ size >= fft.max * K

(* The previous pass ended below max_fft. *)
Wraps(size) == fft.min # fft.max /\ largest # NoSize /\ size < largest

Larger(a, b) == IF a > b THEN a ELSE b

StepVerified(step, done) ==
    /\ completed' = done
    /\ verified' = Append(verified, [step |-> step, completed |-> done])

(* Mutant of CountStep: the largest size is not reset with a completed pass. *)
CountStepNoReset(size) ==
    /\ largest' = IF Wraps(size) THEN size ELSE Larger(largest, size)
    /\ StepVerified(size, completed + (IF Wraps(size) THEN 1 ELSE 0)
                                    + (IF CompletesPass(size) THEN 1 ELSE 0))

(* The rest of Prime95's feed once a step is verified, with step_verified. *)
CountStep(size) ==
    /\ largest' = IF CompletesPass(size) THEN NoSize
                  ELSE IF Wraps(size) THEN size ELSE Larger(largest, size)
    /\ StepVerified(size, completed + (IF Wraps(size) THEN 1 ELSE 0)
                                    + (IF CompletesPass(size) THEN 1 ELSE 0))

SlowestOf(passes) == CHOOSE n \in {passes[t] : t \in 1 .. threads} :
                        \A t \in 1 .. threads : n <= passes[t]

(* A line "(thread t of n) passed!": the step counts once all threads passed it. *)
FeedTagged(t, size) ==
    /\ threadPasses' = [threadPasses EXCEPT ![t] = @ + 1]
    /\ LET slowest == SlowestOf(threadPasses') IN
         IF slowest <= stepsPassed
         THEN UNCHANGED <<stepsPassed, largest, completed, verified>>
         ELSE stepsPassed' = slowest /\ CountStep(size)

FeedUntagged(size) ==
    /\ stepsPassed' = stepsPassed + 1
    /\ CountStep(size)
    /\ UNCHANGED threadPasses

(* YCruncherOutputParser.feed of a line "Running ...: Passed" *)
FeedPassed(algorithm) ==
    /\ stepsPassed' = stepsPassed + 1
    /\ StepVerified(algorithm, completed + (IF (stepsPassed + 1) % PassLength = 0 THEN 1 ELSE 0))
    /\ UNCHANGED <<threadPasses, largest>>

-----------------------------------------------------------------------------
(* The engines do not know of the target: they go on until they are stopped. *)
Prime95Passes(t) ==
    /\ IsPrime95 /\ PassLength > 0
    /\ passed[t] < MaxSteps
    /\ passed' = [passed EXCEPT ![t] = @ + 1]
    /\ LET size == ParseFftSize(Printed(StepAt(passed'[t]))) IN
         IF threads = 1 THEN FeedUntagged(size) ELSE FeedTagged(t, size)
    /\ UNCHANGED <<config, threads, steps>>

YCruncherPasses ==
    /\ ~IsPrime95
    /\ passed[1] < MaxSteps
    /\ passed' = [t \in 1 .. threads |-> passed[t] + 1]
    /\ FeedPassed(StepAt(passed'[1]))
    /\ UNCHANGED <<config, threads, steps>>

Next == YCruncherPasses \/ \E t \in 1 .. threads : Prime95Passes(t)

Spec == Init /\ [][Next]_vars

-----------------------------------------------------------------------------
(* Steps every thread has passed. *)
Verified == SlowestOf(passed)

(* A range a pass over which the parser can recognize: it reaches max_fft, or
   there is a smaller size to wrap to. *)
Recognizable == PassLength > 1 \/ steps[1] = fft.max * K

(* Complete passes in n verified steps: a pass counts with its last step, or, if
   Prime95 has nothing at max_fft, with the first step of the next pass. *)
CompleteIn(n) ==
    IF n = 0 \/ ~IsPrime95 \/ steps[PassLength] = fft.max * K THEN n \div PassLength ELSE (n - 1) \div PassLength

(* README, Stress Test Engines: an iteration is a complete pass of every thread
   over the whole range, or over all algorithms; none is counted early, twice or
   not at all, whichever thread is ahead.  The listener hears of each verified step
   once, in the order of the pass, under its own size, with the iterations complete
   by then. *)
PassesAreCounted ==
    /\ PassLength > 0 /\ (IsPrime95 => Recognizable) => completed = CompleteIn(Verified)
    /\ Len(verified) = Verified
    /\ \A n \in DOMAIN verified :
           /\ verified[n].step = StepAt(n)
           /\ (IsPrime95 => Recognizable) => verified[n].completed = CompleteIn(n)
=============================================================================
