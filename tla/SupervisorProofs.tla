-------------------------- MODULE SupervisorProofs --------------------------
(***************************************************************************)
(* Proofs about Supervisor for every Target, MaxPasses and MaxSignals, and *)
(* about Scheduling for every set of Limits as well.  The invariant IInv   *)
(* of Supervisor is the conjunction of five parts: where the process group *)
(* can be at each step (Lifecycle), what the call is leaving with          *)
(* (Outcome), that no verified iteration is counted that was not printed   *)
(* (Counting), where a reported error still is (ErrorKept), and who owns   *)
(* the work directory (WorkDirOwned).  Each part needs Lifecycle, and      *)
(* Lifecycle needs Outcome for the exceptional exits.                      *)
(* The two context managers of Scheduling add no behaviour to Supervisor,  *)
(* so its theorems hold of SchedSpec as well, and its invariant is used to *)
(* know that nothing runs before Popen.  SInv says where in the managers   *)
(* the main thread can be (Placed), what it runs with there (Values), and  *)
(* that nobody who was interrupted comes back to the loop (NeverBack).     *)
(***************************************************************************)
EXTENDS Scheduling, TLAPS

Before == {"start", "made", "prepare", "spawn"}
Inside == {"spawned", "read", "poll", "reap", "decide"}
Leave  == {"kill", "wait", "classify"}
After  == {"cleanup", "done", "raised"}

Lifecycle ==
    /\ pc \in Before => leader = "none"
    /\ leader = "none" => helper = "none" /\ ~eof
    /\ pc \in Inside => leader \in {"running", "killed", "zombie"}
    /\ pc \in {"drain", "draining", "final", "classify"} => leader = "reaped"
    /\ pc \in Leave => leader # "none"
    /\ pc \in Leave /\ exc = "none" => leader = "reaped"
    /\ pc \in {"wait", "classify"} => ~GroupAlive
    /\ leader = "killed" => helper # "running"
    /\ pc \in After /\ GroupAlive => abortedAt \cap {"spawned", "kill"} # {}

Outcome ==
    /\ pc \in Before \cup Inside \cup Loop \cup {"classify"} => exc = "none"
    /\ exc = "interrupt" => cancel
    /\ abortedAt # {} <=> exc = "interrupt"
    /\ pc \in {"cleanup", "done"} /\ exc = "none" => status # NoStatus
    /\ pc = "done" => exc = "none"
    /\ pc = "raised" => exc # "none"
    /\ status # NoStatus =>
         /\ pc \in After /\ leader = "reaped" /\ ~GroupAlive
         /\ exc # "none" => exc = "interrupt" /\ pc = "raised"

Counting ==
    /\ printed = completed + pipePass
    /\ status = "PASS" => Done

StopKept ==
    /\ deadline = "none" <=> stopReason = "none"
    /\ stopReason = "INTERRUPTED" => cancel
    /\ status = "CRASH" => code = "abnormal" /\ deadline = "none"

FragmentGone == helper = "none" => ~fragment

ErrorKept ==
    /\ lastWords => errors \/ pipeError \/ results
    /\ eof => PipeClosed /\ ~pipeError /\ ~fragment
    /\ pc \in {"draining", "final"} => (lastWords => errors \/ results) /\ FragmentGone
    /\ pc \in Leave /\ exc = "none" => (lastWords => errors) /\ FragmentGone
    /\ status \in {"PASS", "CRASH", "UNVERIFIED"} => ~lastWords /\ FragmentGone

WorkDirOwned ==
    /\ pc = "start" => ~workDir
    /\ pc \in Terminal /\ workDir =>
         \/ pc = "done" /\ status \in FailedStatuses
         \/ abortedAt \cap {"made", "cleanup"} # {}

IInv ==
    /\ TypeOK
    /\ Lifecycle
    /\ Outcome
    /\ Counting
    /\ StopKept
    /\ ErrorKept
    /\ WorkDirOwned
-----------------------------------------------------------------------------
(* The invariant holds initially. *)
LEMMA InitIInv == Init => IInv
<1> SUFFICES ASSUME Init PROVE IInv
  OBVIOUS
<1> USE DEF Init, NoStatus
<1>1. TypeOK
  BY DEF TypeOK, Locations
<1>2. Lifecycle /\ Outcome
  BY DEF Lifecycle, Outcome, Before, Inside, Leave, After, Loop, GroupAlive
<1>3. Counting /\ StopKept
  BY DEF Counting, StopKept
<1>4. ErrorKept /\ WorkDirOwned
  BY DEF ErrorKept, WorkDirOwned, FragmentGone, Leave, Terminal
<1>5. QED
  BY <1>1, <1>2, <1>3, <1>4 DEF IInv

(* What one read of the output leaves behind. *)
LEMMA ConsumeTypes ==
  ASSUME TypeOK, Consume
  PROVE  /\ completed' \in Nat /\ pipePass' \in Nat /\ UNCHANGED printed
         /\ errors' \in BOOLEAN /\ eof' \in BOOLEAN /\ pipeError' \in BOOLEAN
         /\ fragment' \in BOOLEAN /\ UNCHANGED <<results, lastWords>>
<1>1. CASE eof
  BY <1>1 DEF TypeOK, Consume, parser, output
<1>2. CASE ~eof
  <2>1. errors' \in BOOLEAN
    BY <1>2, Zenon DEF TypeOK, Consume
  <2>2. fragment' \in BOOLEAN
    BY <1>2, Zenon DEF TypeOK, Consume, PipeClosed
  <2>3. eof' \in BOOLEAN /\ pipeError' \in BOOLEAN
    BY <1>2 DEF TypeOK, Consume, PipeClosed
  <2>4. completed' \in Nat /\ pipePass' \in Nat /\ UNCHANGED <<results, printed, lastWords>>
    BY <1>2 DEF TypeOK, Consume
  <2>5. QED
    BY <2>1, <2>2, <2>3, <2>4
<1>3. QED
  BY <1>1, <1>2 DEF TypeOK

(* Every step keeps the variables in their types. *)
LEMMA TypeStep == TypeOK /\ [Next]_vars => TypeOK'
<1> SUFFICES ASSUME TypeOK, Next PROVE TypeOK'
  BY DEF TypeOK, vars, run, engine, output, parser, stop, request
<1> USE DEF TypeOK, Locations, Loop, Terminal, run, engine, output, parser, stop, request,
        NoStatus, RunStatus, FailedStatuses
<1>1. CASE MakeWorkDir
  BY <1>1 DEF MakeWorkDir, Goto
<1>2. CASE Unavailable
  BY <1>2 DEF Unavailable, Raise
<1>3. CASE EnterTry
  BY <1>3 DEF EnterTry, Goto
<1>4. CASE Prepare
  <2>1. CASE Goto("spawn")
    BY <1>4, <2>1 DEF Prepare, Goto
  <2>2. CASE Raise("cleanup")
    BY <1>4, <2>2 DEF Prepare, Raise
  <2>3. QED
    BY <1>4, <2>1, <2>2 DEF Prepare
<1>5. CASE Spawn
  <2>1. CASE Goto("spawned") /\ leader' = "running"
    BY <1>5, <2>1 DEF Spawn, Goto
  <2>2. CASE Raise("cleanup") /\ UNCHANGED leader
    BY <1>5, <2>2 DEF Spawn, Raise
  <2>3. QED
    BY <1>5, <2>1, <2>2 DEF Spawn
<1>6. CASE EnterLoop
  BY <1>6 DEF EnterLoop, Goto
<1>7. CASE ReadOutput
  BY <1>7, ConsumeTypes DEF ReadOutput, Goto
<1>8. CASE PollResults
  BY <1>8 DEF PollResults, Goto
<1>9. CASE ListenerFails
  BY <1>9 DEF ListenerFails, Raise
<1>10. CASE ProcPoll
  <2>1. pc' \in Locations /\ leader' \in {"none", "running", "killed", "zombie", "reaped"}
    BY <1>10 DEF ProcPoll, Goto
  <2>2. UNCHANGED <<status, exc, abortedAt, workDir, helper, code, output, parser, stop, request>>
    BY <1>10 DEF ProcPoll, Goto
  <2>3. QED
    BY <2>1, <2>2
<1>11. CASE AskToStop
  BY <1>11 DEF AskToStop, StopDecision, Goto
<1>12. CASE Escalate
  BY <1>12 DEF Escalate, SignalGroupKill, Goto
<1>13. CASE Drain
  BY <1>13, ConsumeTypes DEF Drain, Goto
<1>14. CASE DrainExpires
  BY <1>14 DEF DrainExpires, Goto
<1>15. CASE KillGroup
  BY <1>15 DEF KillGroup, SignalGroupKill, Goto
<1>16. CASE Wait
  BY <1>16 DEF Wait, Goto
<1>17. CASE Classify
  BY <1>17 DEF Classify, Verdict
<1>18. CASE Cleanup
  BY <1>18 DEF Cleanup, Goto
<1>19. CASE PrintPass
  BY <1>19 DEF PrintPass, Env
<1>20. CASE PrintError
  <2>1. lastWords' \in BOOLEAN /\ pipeError' \in BOOLEAN /\ fragment' \in BOOLEAN
    BY <1>20 DEF PrintError
  <2>2. UNCHANGED <<run, workDir, parser, request, engine, stop, pipePass, results, printed>>
    BY <1>20 DEF PrintError, Env
  <2>3. QED
    BY <2>1, <2>2
<1>21. CASE PrintFragment
  BY <1>21 DEF PrintFragment, Env
<1>22. CASE WriteResults
  BY <1>22 DEF WriteResults, Env
<1>23. CASE Fork
  BY <1>23 DEF Fork, Env
<1>24. CASE LeaderEnds
  BY <1>24 DEF LeaderEnds, Env
<1>25. CASE HelperEnds
  BY <1>25 DEF HelperEnds, Env
<1>26. CASE KilledDies
  BY <1>26 DEF KilledDies, Env
<1>27. CASE DeadlineExpires
  BY <1>27 DEF DeadlineExpires, Env
<1>28. CASE StopSignal
  <2>1. CASE FirstSignal
    BY <1>28, <2>1 DEF StopSignal, FirstSignal
  <2>2. CASE SecondSignal
    BY <1>28, <2>2 DEF StopSignal, SecondSignal, UnwindsTo
  <2>3. QED
    BY <1>28, <2>1, <2>2 DEF StopSignal
<1>29. QED
  BY <1>1, <1>2, <1>3, <1>4, <1>5, <1>6, <1>7, <1>8, <1>9, <1>10, <1>11, <1>12, <1>13, <1>14, <1>15, <1>16, <1>17, <1>18, <1>19, <1>20, <1>21, <1>22, <1>23, <1>24, <1>25, <1>26, <1>27, <1>28 DEF Next, SupervisorStep, EngineStep

(* Where the engine's processes can be at each step, and what the call leaves with. *)
LEMMA LifecycleStep ==
  TypeOK /\ Lifecycle /\ Outcome /\ [Next]_vars => Lifecycle' /\ Outcome'
<1> SUFFICES ASSUME TypeOK, Lifecycle, Outcome, Next PROVE Lifecycle' /\ Outcome'
  BY DEF Lifecycle, Outcome, GroupAlive, vars, run, engine, output, parser, stop, request
<1> USE DEF Lifecycle, Outcome, TypeOK, Before, Inside, Leave, After, Loop, Terminal, GroupAlive,
        NoStatus, RunStatus, FailedStatuses, run, engine, output, parser, stop, request
<1>1. CASE MakeWorkDir
  BY <1>1 DEF MakeWorkDir, Goto
<1>2. CASE Unavailable
  BY <1>2 DEF Unavailable, Raise
<1>3. CASE EnterTry
  BY <1>3 DEF EnterTry, Goto
<1>4. CASE Prepare
  BY <1>4 DEF Prepare, Goto, Raise
<1>5. CASE Spawn
  BY <1>5 DEF Spawn, Goto, Raise
<1>6. CASE EnterLoop
  BY <1>6 DEF EnterLoop, Goto
<1>7. CASE ReadOutput
  BY <1>7 DEF ReadOutput, Consume, Goto
<1>8. CASE PollResults
  BY <1>8 DEF PollResults, Goto
<1>9. CASE ListenerFails
  BY <1>9 DEF ListenerFails, Raise
<1>10. CASE ProcPoll
  BY <1>10 DEF ProcPoll, Goto
<1>11. CASE AskToStop
  BY <1>11 DEF AskToStop, StopDecision, Goto
<1>12. CASE Escalate
  BY <1>12 DEF Escalate, SignalGroupKill, Goto
<1>13. CASE Drain
  BY <1>13 DEF Drain, Consume, Goto
<1>14. CASE DrainExpires
  BY <1>14 DEF DrainExpires, Goto
<1>15. CASE KillGroup
  BY <1>15 DEF KillGroup, SignalGroupKill, Goto
<1>16. CASE Wait
  BY <1>16 DEF Wait, Goto
<1>17. CASE Classify
  BY <1>17 DEF Classify, Verdict
<1>18. CASE Cleanup
  BY <1>18 DEF Cleanup, Goto
<1>19. CASE PrintPass
  BY <1>19 DEF PrintPass, Env
<1>20. CASE PrintError
  BY <1>20 DEF PrintError, Env
<1>21. CASE PrintFragment
  BY <1>21 DEF PrintFragment, Env
<1>22. CASE WriteResults
  BY <1>22 DEF WriteResults, Env
<1>23. CASE Fork
  BY <1>23 DEF Fork, Env
<1>24. CASE LeaderEnds
  BY <1>24 DEF LeaderEnds, Env
<1>25. CASE HelperEnds
  BY <1>25 DEF HelperEnds, Env
<1>26. CASE KilledDies
  BY <1>26 DEF KilledDies, Env
<1>27. CASE DeadlineExpires
  BY <1>27 DEF DeadlineExpires, Env
<1>28. CASE StopSignal
  <2>1. CASE FirstSignal
    BY <1>28, <2>1 DEF StopSignal, FirstSignal
  <2>2. CASE SecondSignal
    <3>1. UNCHANGED <<leader, helper, status, eof, cancel>> /\ exc' = "interrupt" /\ cancel
      BY <1>28, <2>2 DEF StopSignal, SecondSignal
    <3>2. abortedAt' = abortedAt \cup {pc} /\ pc' = UnwindsTo /\ pc \notin Terminal
      BY <1>28, <2>2 DEF StopSignal, SecondSignal
    <3>3. CASE pc \in {"start", "made", "cleanup"}
      BY <3>1, <3>2, <3>3 DEF UnwindsTo
    <3>4. CASE pc \in Loop
      BY <3>1, <3>2, <3>4 DEF UnwindsTo
    <3>5. CASE pc \in {"prepare", "spawn", "spawned", "kill", "wait", "classify"}
      BY <3>1, <3>2, <3>5 DEF UnwindsTo
    <3>6. QED
      BY <3>2, <3>3, <3>4, <3>5 DEF Locations
  <2>3. QED
    BY <1>28, <2>1, <2>2 DEF StopSignal
<1>29. QED
  BY <1>1, <1>2, <1>3, <1>4, <1>5, <1>6, <1>7, <1>8, <1>9, <1>10, <1>11, <1>12, <1>13, <1>14, <1>15, <1>16, <1>17, <1>18, <1>19, <1>20, <1>21, <1>22, <1>23, <1>24, <1>25, <1>26, <1>27, <1>28 DEF Next, SupervisorStep, EngineStep

(* No verified iteration is lost or counted twice between engine and verdict. *)
LEMMA CountingStep ==
  TypeOK /\ Lifecycle /\ Outcome /\ Counting /\ [Next]_vars => Counting'
<1> SUFFICES ASSUME TypeOK, Lifecycle, Outcome, Counting, Next PROVE Counting'
  BY DEF Counting, Done, vars, run, engine, output, parser, stop, request
<1> USE DEF Counting, Done, TypeOK, Lifecycle, Outcome, After, Loop, NoStatus,
        run, engine, output, parser, stop, request
<1>1. CASE MakeWorkDir
  BY <1>1 DEF MakeWorkDir, Goto
<1>2. CASE Unavailable
  BY <1>2 DEF Unavailable, Raise
<1>3. CASE EnterTry
  BY <1>3 DEF EnterTry, Goto
<1>4. CASE Prepare
  BY <1>4 DEF Prepare, Goto, Raise
<1>5. CASE Spawn
  BY <1>5 DEF Spawn, Goto, Raise
<1>6. CASE EnterLoop
  BY <1>6 DEF EnterLoop, Goto
<1>7. CASE ReadOutput
  BY <1>7 DEF ReadOutput, Consume, Goto
<1>8. CASE PollResults
  BY <1>8 DEF PollResults, Goto
<1>9. CASE ListenerFails
  BY <1>9 DEF ListenerFails, Raise
<1>10. CASE ProcPoll
  BY <1>10 DEF ProcPoll, Goto
<1>11. CASE AskToStop
  BY <1>11 DEF AskToStop, StopDecision, Goto
<1>12. CASE Escalate
  BY <1>12 DEF Escalate, SignalGroupKill, Goto
<1>13. CASE Drain
  BY <1>13 DEF Drain, Consume, Goto
<1>14. CASE DrainExpires
  BY <1>14 DEF DrainExpires, Goto
<1>15. CASE KillGroup
  BY <1>15 DEF KillGroup, SignalGroupKill, Goto
<1>16. CASE Wait
  BY <1>16 DEF Wait, Goto
<1>17. CASE Classify
  BY <1>17 DEF Classify, Verdict
<1>18. CASE Cleanup
  BY <1>18 DEF Cleanup, Goto
<1>19. CASE PrintPass
  BY <1>19 DEF PrintPass, Env
<1>20. CASE PrintError
  BY <1>20 DEF PrintError, Env
<1>21. CASE PrintFragment
  BY <1>21 DEF PrintFragment, Env
<1>22. CASE WriteResults
  BY <1>22 DEF WriteResults, Env
<1>23. CASE Fork
  BY <1>23 DEF Fork, Env
<1>24. CASE LeaderEnds
  BY <1>24 DEF LeaderEnds, Env
<1>25. CASE HelperEnds
  BY <1>25 DEF HelperEnds, Env
<1>26. CASE KilledDies
  BY <1>26 DEF KilledDies, Env
<1>27. CASE DeadlineExpires
  BY <1>27 DEF DeadlineExpires, Env
<1>28. CASE StopSignal
  BY <1>28 DEF StopSignal, FirstSignal, SecondSignal, UnwindsTo
<1>29. QED
  BY <1>1, <1>2, <1>3, <1>4, <1>5, <1>6, <1>7, <1>8, <1>9, <1>10, <1>11, <1>12, <1>13, <1>14, <1>15, <1>16, <1>17, <1>18, <1>19, <1>20, <1>21, <1>22, <1>23, <1>24, <1>25, <1>26, <1>27, <1>28 DEF Next, SupervisorStep, EngineStep

(* A verdict of CRASH is taken only when nobody had asked the engine to stop. *)
LEMMA StopKeptStep ==
  TypeOK /\ Lifecycle /\ Outcome /\ StopKept /\ [Next]_vars => StopKept'
<1> SUFFICES ASSUME TypeOK, Lifecycle, Outcome, StopKept, Next PROVE StopKept'
  BY DEF StopKept, vars, run, engine, output, parser, stop, request
<1> USE DEF StopKept, TypeOK, Lifecycle, Outcome, After, Loop, GroupAlive, NoStatus,
        run, engine, output, parser, stop, request
<1>1. CASE MakeWorkDir
  BY <1>1 DEF MakeWorkDir, Goto
<1>2. CASE Unavailable
  BY <1>2 DEF Unavailable, Raise
<1>3. CASE EnterTry
  BY <1>3 DEF EnterTry, Goto
<1>4. CASE Prepare
  BY <1>4 DEF Prepare, Goto, Raise
<1>5. CASE Spawn
  BY <1>5 DEF Spawn, Goto, Raise
<1>6. CASE EnterLoop
  BY <1>6 DEF EnterLoop, Goto
<1>7. CASE ReadOutput
  BY <1>7 DEF ReadOutput, Consume, Goto
<1>8. CASE PollResults
  BY <1>8 DEF PollResults, Goto
<1>9. CASE ListenerFails
  BY <1>9 DEF ListenerFails, Raise
<1>10. CASE ProcPoll
  BY <1>10 DEF ProcPoll, Goto
<1>11. CASE AskToStop
  BY <1>11 DEF AskToStop, StopDecision, Goto
<1>12. CASE Escalate
  BY <1>12 DEF Escalate, SignalGroupKill, Goto
<1>13. CASE Drain
  BY <1>13 DEF Drain, Consume, Goto
<1>14. CASE DrainExpires
  BY <1>14 DEF DrainExpires, Goto
<1>15. CASE KillGroup
  BY <1>15 DEF KillGroup, SignalGroupKill, Goto
<1>16. CASE Wait
  BY <1>16 DEF Wait, Goto
<1>17. CASE Classify
  BY <1>17 DEF Classify, Verdict
<1>18. CASE Cleanup
  BY <1>18 DEF Cleanup, Goto
<1>19. CASE PrintPass
  BY <1>19 DEF PrintPass, Env
<1>20. CASE PrintError
  BY <1>20 DEF PrintError, Env
<1>21. CASE PrintFragment
  BY <1>21 DEF PrintFragment, Env
<1>22. CASE WriteResults
  BY <1>22 DEF WriteResults, Env
<1>23. CASE Fork
  BY <1>23 DEF Fork, Env
<1>24. CASE LeaderEnds
  BY <1>24 DEF LeaderEnds, Env
<1>25. CASE HelperEnds
  BY <1>25 DEF HelperEnds, Env
<1>26. CASE KilledDies
  BY <1>26 DEF KilledDies, Env
<1>27. CASE DeadlineExpires
  BY <1>27 DEF DeadlineExpires, Env
<1>28. CASE StopSignal
  BY <1>28 DEF StopSignal, FirstSignal, SecondSignal, UnwindsTo
<1>29. QED
  BY <1>1, <1>2, <1>3, <1>4, <1>5, <1>6, <1>7, <1>8, <1>9, <1>10, <1>11, <1>12, <1>13, <1>14, <1>15, <1>16, <1>17, <1>18, <1>19, <1>20, <1>21, <1>22, <1>23, <1>24, <1>25, <1>26, <1>27, <1>28 DEF Next, SupervisorStep, EngineStep

(* An error reported before the leader ended is in the pipe, in results.txt or
   in the parser, and in the parser once the loop was left. *)
LEMMA ErrorKeptStep ==
  TypeOK /\ Lifecycle /\ Outcome /\ ErrorKept /\ [Next]_vars => ErrorKept'
<1> SUFFICES ASSUME TypeOK, Lifecycle, Outcome, ErrorKept, Next PROVE ErrorKept'
  BY DEF ErrorKept, FragmentGone, PipeClosed, vars, run, engine, output, parser, stop, request
<1> USE DEF ErrorKept, FragmentGone, PipeClosed, TypeOK, Lifecycle, Outcome, Before, Inside,
        Leave, After, Loop, GroupAlive, NoStatus, run, engine, output, parser, stop, request
<1>1. CASE MakeWorkDir
  BY <1>1 DEF MakeWorkDir, Goto
<1>2. CASE Unavailable
  BY <1>2 DEF Unavailable, Raise
<1>3. CASE EnterTry
  BY <1>3 DEF EnterTry, Goto
<1>4. CASE Prepare
  BY <1>4 DEF Prepare, Goto, Raise
<1>5. CASE Spawn
  BY <1>5 DEF Spawn, Goto, Raise
<1>6. CASE EnterLoop
  BY <1>6 DEF EnterLoop, Goto
<1>7. CASE ReadOutput
  BY <1>7 DEF ReadOutput, Consume, Goto
<1>8. CASE PollResults
  BY <1>8 DEF PollResults, Goto
<1>9. CASE ListenerFails
  BY <1>9 DEF ListenerFails, Raise
<1>10. CASE ProcPoll
  BY <1>10 DEF ProcPoll, Goto
<1>11. CASE AskToStop
  BY <1>11 DEF AskToStop, StopDecision, Goto
<1>12. CASE Escalate
  BY <1>12 DEF Escalate, SignalGroupKill, Goto
<1>13. CASE Drain
  BY <1>13 DEF Drain, Consume, Goto
<1>14. CASE DrainExpires
  BY <1>14 DEF DrainExpires, Goto
<1>15. CASE KillGroup
  BY <1>15 DEF KillGroup, SignalGroupKill, Goto
<1>16. CASE Wait
  BY <1>16 DEF Wait, Goto
<1>17. CASE Classify
  BY <1>17 DEF Classify, Verdict
<1>18. CASE Cleanup
  BY <1>18 DEF Cleanup, Goto
<1>19. CASE PrintPass
  BY <1>19 DEF PrintPass, Env
<1>20. CASE PrintError
  BY <1>20 DEF PrintError, Env
<1>21. CASE PrintFragment
  BY <1>21 DEF PrintFragment, Env
<1>22. CASE WriteResults
  BY <1>22 DEF WriteResults, Env
<1>23. CASE Fork
  BY <1>23 DEF Fork, Env
<1>24. CASE LeaderEnds
  BY <1>24 DEF LeaderEnds, Env
<1>25. CASE HelperEnds
  BY <1>25 DEF HelperEnds, Env
<1>26. CASE KilledDies
  BY <1>26 DEF KilledDies, Env
<1>27. CASE DeadlineExpires
  BY <1>27 DEF DeadlineExpires, Env
<1>28. CASE StopSignal
  BY <1>28 DEF StopSignal, FirstSignal, SecondSignal, UnwindsTo
<1>29. QED
  BY <1>1, <1>2, <1>3, <1>4, <1>5, <1>6, <1>7, <1>8, <1>9, <1>10, <1>11, <1>12, <1>13, <1>14, <1>15, <1>16, <1>17, <1>18, <1>19, <1>20, <1>21, <1>22, <1>23, <1>24, <1>25, <1>26, <1>27, <1>28 DEF Next, SupervisorStep, EngineStep

(* The work directory has an owner when run_test is left. *)
LEMMA WorkDirStep ==
  TypeOK /\ Lifecycle /\ Outcome /\ WorkDirOwned /\ [Next]_vars => WorkDirOwned'
<1> SUFFICES ASSUME TypeOK, Lifecycle, Outcome, WorkDirOwned, Next PROVE WorkDirOwned'
  BY DEF WorkDirOwned, vars, run, engine, output, parser, stop, request
<1> USE DEF WorkDirOwned, TypeOK, Lifecycle, Outcome, Before, Inside, After, Loop, Terminal,
        NoStatus, FailedStatuses, run, engine, output, parser, stop, request
<1>1. CASE MakeWorkDir
  BY <1>1 DEF MakeWorkDir, Goto
<1>2. CASE Unavailable
  BY <1>2 DEF Unavailable, Raise
<1>3. CASE EnterTry
  BY <1>3 DEF EnterTry, Goto
<1>4. CASE Prepare
  BY <1>4 DEF Prepare, Goto, Raise
<1>5. CASE Spawn
  BY <1>5 DEF Spawn, Goto, Raise
<1>6. CASE EnterLoop
  BY <1>6 DEF EnterLoop, Goto
<1>7. CASE ReadOutput
  BY <1>7 DEF ReadOutput, Consume, Goto
<1>8. CASE PollResults
  BY <1>8 DEF PollResults, Goto
<1>9. CASE ListenerFails
  BY <1>9 DEF ListenerFails, Raise
<1>10. CASE ProcPoll
  BY <1>10 DEF ProcPoll, Goto
<1>11. CASE AskToStop
  BY <1>11 DEF AskToStop, StopDecision, Goto
<1>12. CASE Escalate
  BY <1>12 DEF Escalate, SignalGroupKill, Goto
<1>13. CASE Drain
  BY <1>13 DEF Drain, Consume, Goto
<1>14. CASE DrainExpires
  BY <1>14 DEF DrainExpires, Goto
<1>15. CASE KillGroup
  BY <1>15 DEF KillGroup, SignalGroupKill, Goto
<1>16. CASE Wait
  BY <1>16 DEF Wait, Goto
<1>17. CASE Classify
  BY <1>17 DEF Classify, Verdict
<1>18. CASE Cleanup
  <2>1. UNCHANGED <<status, exc, abortedAt>> /\ pc = "cleanup" /\ (workDir' => status \in FailedStatuses)
    BY <1>18 DEF Cleanup, Goto
  <2>2. pc' = IF exc = "none" THEN "done" ELSE "raised"
    BY <1>18 DEF Cleanup, Goto
  <2>3. QED
    BY <2>1, <2>2
<1>19. CASE PrintPass
  BY <1>19 DEF PrintPass, Env
<1>20. CASE PrintError
  BY <1>20 DEF PrintError, Env
<1>21. CASE PrintFragment
  BY <1>21 DEF PrintFragment, Env
<1>22. CASE WriteResults
  BY <1>22 DEF WriteResults, Env
<1>23. CASE Fork
  BY <1>23 DEF Fork, Env
<1>24. CASE LeaderEnds
  BY <1>24 DEF LeaderEnds, Env
<1>25. CASE HelperEnds
  BY <1>25 DEF HelperEnds, Env
<1>26. CASE KilledDies
  BY <1>26 DEF KilledDies, Env
<1>27. CASE DeadlineExpires
  BY <1>27 DEF DeadlineExpires, Env
<1>28. CASE StopSignal
  BY <1>28 DEF StopSignal, FirstSignal, SecondSignal, UnwindsTo
<1>29. QED
  BY <1>1, <1>2, <1>3, <1>4, <1>5, <1>6, <1>7, <1>8, <1>9, <1>10, <1>11, <1>12, <1>13, <1>14, <1>15, <1>16, <1>17, <1>18, <1>19, <1>20, <1>21, <1>22, <1>23, <1>24, <1>25, <1>26, <1>27, <1>28 DEF Next, SupervisorStep, EngineStep

LEMMA IInvStep == IInv /\ [Next]_vars => IInv'
  BY TypeStep, LifecycleStep, CountingStep, StopKeptStep, ErrorKeptStep, WorkDirStep DEF IInv

LEMMA Invariance == Spec => []IInv
<1>1. Init => IInv
  BY InitIInv
<1>2. IInv /\ [Next]_vars => IInv'
  BY IInvStep
<1>3. QED
  BY <1>1, <1>2, PTL DEF Spec

-----------------------------------------------------------------------------
(* The variables of run_test keep their types for every bound. *)
THEOREM TypeCorrect == Spec => []TypeOK
<1>1. IInv => TypeOK
  BY DEF IInv
<1>2. QED
  BY <1>1, Invariance, PTL

(* A core passes only on iterations the engine verified, however it ended. *)
THEOREM PassVerified == Spec => []PassIsVerified
<1>1. IInv => PassIsVerified
  BY TargetAssumption DEF IInv, TypeOK, Counting, PassIsVerified, Done
<1>2. QED
  BY <1>1, Invariance, PTL

(* No verdict but ERROR or INTERRUPTED follows an error the engine reported
   before it ended, even when nothing was left but the drain to read it. *)
THEOREM ErrorReported == Spec => []ErrorIsReported
<1>1. IInv => ErrorIsReported
  BY DEF IInv, ErrorKept, FragmentGone, ErrorIsReported
<1>2. QED
  BY <1>1, Invariance, PTL

(* A kill by the supervisor is never reported as a crash of the engine. *)
THEOREM CrashIsTheEngines == Spec => []CrashIsNotOurKill
<1>1. IInv => CrashIsNotOurKill
  BY DEF IInv, StopKept, CrashIsNotOurKill
<1>2. QED
  BY <1>1, Invariance, PTL

(* The engine's processes are gone when run_test is left, but for the second
   signal that arrives before the try block or inside its finally block. *)
THEOREM NoEngineLeft == Spec => []EngineOutlivesOnlyInWindow
<1>1. IInv => EngineOutlivesOnlyInWindow
  BY DEF IInv, Lifecycle, EngineOutlivesOnlyInWindow, After, Terminal
<1>2. QED
  BY <1>1, Invariance, PTL

(* A work directory is left behind for a failed run only, with the same exception. *)
THEOREM WorkDirAccounted == Spec => []WorkDirKeptForFailures
<1>1. IInv => WorkDirKeptForFailures
  BY DEF IInv, WorkDirOwned, WorkDirKeptForFailures
<1>2. QED
  BY <1>1, Invariance, PTL

-----------------------------------------------------------------------------
(* Refinement: every step of the supervisor is a step of RunContract or leaves
   what the contract sees unchanged. *)

Between == Locations \ (Terminal \cup {"start"})

LEMMA ContractInitially == Init => Contract!ContractInit
  BY DEF Init, Contract!ContractInit, Phase, GroupAlive, NoStatus, Contract!NoStatus

(* Moving between two steps inside the call does not change its phase. *)
LEMMA PhaseStays ==
  ASSUME pc \in Between, pc' \in Between, status' = status,
         leader' = "none" <=> leader = "none"
  PROVE  Phase' = Phase
  BY DEF Phase, Between, Terminal

(* The steps of the loop and of the engine that the contract does not see. *)
LEMMA InnerSteps ==
  ASSUME IInv,
         \/ EnterTry \/ Prepare \/ EnterLoop \/ ReadOutput \/ PollResults \/ ListenerFails
         \/ ProcPoll \/ AskToStop \/ Drain \/ DrainExpires \/ Wait
  PROVE  UNCHANGED Contract!contractVars
<1> USE DEF IInv, Lifecycle, Before, Inside, Leave, Loop, Between, Locations, Terminal
<1>1. /\ pc \in Between /\ pc' \in Between
      /\ UNCHANGED <<status, cancel, helper>>
      /\ leader' = leader \/ (leader \in {"zombie", "reaped"} /\ leader' = "reaped")
  <2>1. CASE EnterTry
    BY <2>1 DEF EnterTry, Goto, engine, request
  <2>2. CASE Prepare
    BY <2>2 DEF Prepare, Goto, Raise, engine, request
  <2>3. CASE EnterLoop
    BY <2>3 DEF EnterLoop, Goto, engine, request
  <2>4. CASE ReadOutput
    BY <2>4 DEF ReadOutput, Goto, engine, request
  <2>5. CASE PollResults
    BY <2>5 DEF PollResults, Goto, engine, request
  <2>6. CASE ListenerFails
    BY <2>6 DEF ListenerFails, Raise, engine, request
  <2>7. CASE ProcPoll
    BY <2>7 DEF ProcPoll, Goto, engine, request
  <2>8. CASE AskToStop
    BY <2>8 DEF AskToStop, Goto, engine, request
  <2>9. CASE Drain
    BY <2>9 DEF Drain, Goto, engine, request
  <2>10. CASE DrainExpires
    BY <2>10 DEF DrainExpires, Goto, engine, request
  <2>11. CASE Wait
    BY <2>11 DEF Wait, Goto, engine, request
  <2>12. QED
    BY <2>1, <2>2, <2>3, <2>4, <2>5, <2>6, <2>7, <2>8, <2>9, <2>10, <2>11
<1>2. Phase' = Phase
  BY <1>1, PhaseStays
<1>3. GroupAlive' = GroupAlive
  BY <1>1 DEF GroupAlive
<1>4. QED
  BY <1>1, <1>2, <1>3 DEF Contract!contractVars

(* A kill or a death ends the group or changes nothing the contract sees. *)
LEMMA DyingSteps ==
  ASSUME IInv, Escalate \/ KillGroup \/ LeaderEnds \/ HelperEnds
  PROVE  Contract!ProcessesEnd \/ UNCHANGED Contract!contractVars
<1> USE DEF IInv, Lifecycle, Inside, Leave, Between, Locations, Loop, Terminal, NoStatus
<1>1. /\ UNCHANGED <<status, cancel>>
      /\ leader' = "none" <=> leader = "none"
      /\ GroupAlive' => GroupAlive
  <2>1. CASE Escalate
    BY <2>1 DEF Escalate, SignalGroupKill, Goto, GroupAlive, engine, request
  <2>2. CASE KillGroup
    BY <2>2 DEF KillGroup, SignalGroupKill, Goto, GroupAlive, request
  <2>3. CASE LeaderEnds
    BY <2>3 DEF LeaderEnds, Env, GroupAlive, run, request
  <2>4. CASE HelperEnds
    BY <2>4 DEF HelperEnds, Env, GroupAlive, run, request
  <2>5. QED
    BY <2>1, <2>2, <2>3, <2>4
<1>2. Phase' = Phase
  <2>1. CASE Escalate \/ KillGroup
    <3>1. pc \in Between /\ pc' \in Between
      BY <2>1 DEF Escalate, KillGroup, Goto
    <3>2. QED
      BY <3>1, <1>1, PhaseStays
  <2>2. CASE LeaderEnds \/ HelperEnds
    <3>1. pc' = pc
      BY <2>2 DEF LeaderEnds, HelperEnds, Env, run
    <3>2. QED
      BY <3>1, <1>1 DEF Phase
  <2>3. QED
    BY <2>1, <2>2
<1>3. GroupAlive \in BOOLEAN /\ GroupAlive' \in BOOLEAN
  BY DEF GroupAlive
<1>4. QED
  BY <1>1, <1>2, <1>3 DEF Contract!ProcessesEnd, Contract!contractVars

(* What the engine and the clock do meanwhile. *)
LEMMA OutsideSteps ==
  ASSUME IInv,
         \/ PrintPass \/ PrintError \/ PrintFragment \/ WriteResults
         \/ Fork \/ KilledDies \/ DeadlineExpires
  PROVE  UNCHANGED Contract!contractVars
<1>1. /\ UNCHANGED <<pc, status, cancel>>
      /\ leader' = "none" <=> leader = "none"
      /\ GroupAlive' = GroupAlive
  <2>1. CASE PrintPass
    BY <2>1 DEF PrintPass, Env, GroupAlive, run, engine, request
  <2>2. CASE PrintError
    BY <2>2 DEF PrintError, Env, GroupAlive, run, engine, request
  <2>3. CASE PrintFragment
    BY <2>3 DEF PrintFragment, Env, GroupAlive, run, engine, request
  <2>4. CASE WriteResults
    BY <2>4 DEF WriteResults, Env, GroupAlive, run, engine, request
  <2>5. CASE Fork
    BY <2>5 DEF Fork, Env, GroupAlive, run, engine, request
  <2>6. CASE KilledDies
    BY <2>6 DEF KilledDies, Env, GroupAlive, run, engine, request
  <2>7. CASE DeadlineExpires
    BY <2>7 DEF DeadlineExpires, Env, GroupAlive, run, engine, request
  <2>8. QED
    BY <2>1, <2>2, <2>3, <2>4, <2>5, <2>6, <2>7
<1>2. QED
  BY <1>1 DEF Phase, Contract!contractVars

LEMMA ContractStep == IInv /\ [Next]_vars => [Contract!ContractNext]_(Contract!contractVars)
<1> SUFFICES ASSUME IInv, [Next]_vars
             PROVE  Contract!ContractNext \/ UNCHANGED Contract!contractVars
  OBVIOUS
<1> USE DEF IInv, Phase, NoStatus
<1>1. CASE MakeWorkDir
  <2>1. Contract!Enter
    BY <1>1 DEF MakeWorkDir, Goto, GroupAlive, engine, request, Lifecycle, Before, Outcome, After,
       Contract!Enter
  <2>2. QED
    BY <2>1 DEF Contract!ContractNext
<1>2. CASE Unavailable
  <2>1. Contract!Fail
    BY <1>2 DEF Unavailable, Raise, GroupAlive, engine, request, Lifecycle, Before, Contract!Fail
  <2>2. QED
    BY <2>1 DEF Contract!ContractNext
<1>3. CASE Spawn
  <2>1. status = NoStatus /\ leader = "none" /\ helper = "none"
    BY <1>3 DEF Spawn, Lifecycle, Outcome, Before, After
  <2>2. CASE Goto("spawned") /\ leader' = "running"
    <3>1. Contract!Launch
      BY <1>3, <2>1, <2>2 DEF Spawn, Goto, GroupAlive, request, Contract!Launch
    <3>2. QED
      BY <3>1 DEF Contract!ContractNext
  <2>3. CASE Raise("cleanup") /\ UNCHANGED leader
    BY <1>3, <2>1, <2>3 DEF Spawn, Raise, GroupAlive, request, Contract!contractVars
  <2>4. QED
    BY <1>3, <2>2, <2>3 DEF Spawn
<1>4. CASE Classify
  <2>1. /\ status = NoStatus /\ leader = "reaped" /\ ~GroupAlive
        /\ UNCHANGED <<leader, helper, cancel>> /\ pc = "classify" /\ pc' = "cleanup"
    BY <1>4 DEF Classify, Lifecycle, Outcome, After, engine, request
  <2>2. Verdict \in Contract!RunStatus /\ Verdict # NoStatus /\ (Verdict = "INTERRUPTED" <=> cancel)
    BY DEF Verdict, StopKept, Contract!RunStatus, Contract!FailedStatuses
  <2>3. Contract!Judge(Verdict)
    <3>1. status' = Verdict
      BY <1>4 DEF Classify
    <3>2. Phase = "running" /\ Phase' = "judged"
      BY <2>1, <2>2, <3>1
    <3>3. QED
      BY <2>1, <2>2, <3>1, <3>2 DEF GroupAlive, Contract!Judge
  <2>4. QED
    BY <2>2, <2>3 DEF Contract!ContractNext
<1>5. CASE Cleanup
  <2>1. UNCHANGED <<status, exc, leader, helper, cancel>> /\ pc = "cleanup"
    BY <1>5 DEF Cleanup, Goto, engine, request
  <2>2. CASE exc = "none"
    <3>1. pc' = "done" /\ status # NoStatus
      BY <1>5, <2>2 DEF Cleanup, Goto, Outcome
    <3>2. Contract!Return
      BY <2>1, <3>1 DEF GroupAlive, Contract!Return
    <3>3. QED
      BY <3>2 DEF Contract!ContractNext
  <2>3. CASE exc = "error"
    <3>1. pc' = "raised" /\ status = NoStatus /\ ~GroupAlive
      BY <1>5, <2>1, <2>3 DEF Cleanup, Goto, Outcome, Lifecycle, After
    <3>2. Contract!Fail
      BY <2>1, <3>1 DEF GroupAlive, Contract!Fail
    <3>3. QED
      BY <3>2 DEF Contract!ContractNext
  <2>4. CASE exc = "interrupt"
    <3>1. pc' = "raised" /\ cancel
      BY <1>5, <2>4 DEF Cleanup, Goto, Outcome
    <3>2. Contract!AbortCall
      BY <2>1, <3>1 DEF GroupAlive, Contract!AbortCall
    <3>3. QED
      BY <3>2 DEF Contract!ContractNext
  <2>5. QED
    BY <2>2, <2>3, <2>4 DEF TypeOK
<1>6. CASE StopSignal
  <2>1. UNCHANGED <<status, leader, helper>> /\ pc \in Locations \ Terminal
    BY <1>6 DEF StopSignal, FirstSignal, SecondSignal, run, engine, TypeOK
  <2>2. CASE FirstSignal
    <3>1. Contract!RequestStop
      BY <2>1, <2>2 DEF FirstSignal, GroupAlive, run, Contract!RequestStop
    <3>2. QED
      BY <3>1 DEF Contract!ContractNext
  <2>3. CASE SecondSignal
    <3>1. cancel /\ cancel' = cancel /\ pc' = UnwindsTo
      BY <2>3 DEF SecondSignal
    <3>2. CASE pc \in {"start", "made", "cleanup"}
      <4>1. Contract!AbortCall
        BY <2>1, <3>1, <3>2 DEF UnwindsTo, GroupAlive, Contract!AbortCall
      <4>2. QED
        BY <4>1 DEF Contract!ContractNext
    <3>3. CASE pc \notin {"start", "made", "cleanup"}
      <4>1. pc \in Between /\ pc' \in Between
        BY <2>1, <3>1, <3>3 DEF UnwindsTo, Between, Locations, Loop, Terminal
      <4>2. QED
        BY <2>1, <3>1, <4>1, PhaseStays DEF GroupAlive, Contract!contractVars
    <3>4. QED
      BY <3>2, <3>3
  <2>4. QED
    BY <1>6, <2>2, <2>3 DEF StopSignal
<1>7. CASE UNCHANGED vars
  BY <1>7 DEF vars, run, engine, request, GroupAlive, Contract!contractVars
<1>8. QED
  <2>1. CASE \/ EnterTry \/ Prepare \/ EnterLoop \/ ReadOutput \/ PollResults \/ ListenerFails
             \/ ProcPoll \/ AskToStop \/ Drain \/ DrainExpires \/ Wait
    BY <2>1, InnerSteps
  <2>2. CASE Escalate \/ KillGroup \/ LeaderEnds \/ HelperEnds
    BY <2>2, DyingSteps DEF Contract!ContractNext
  <2>3. CASE \/ PrintPass \/ PrintError \/ PrintFragment \/ WriteResults
             \/ Fork \/ KilledDies \/ DeadlineExpires
    BY <2>3, OutsideSteps
  <2>4. QED
    BY <1>1, <1>2, <1>3, <1>4, <1>5, <1>6, <1>7, <2>1, <2>2, <2>3
       DEF Next, SupervisorStep, EngineStep

(* run_test keeps the contract its caller relies on. *)
THEOREM ImplementsContract == Spec => ContractSpec
<1>1. Init => Contract!ContractInit
  BY ContractInitially
<1>2. IInv /\ [Next]_vars => [Contract!ContractNext]_(Contract!contractVars)
  BY ContractStep
<1>3. QED
  BY <1>1, <1>2, Invariance, PTL DEF Spec, ContractSpec, Contract!ContractSpec

-----------------------------------------------------------------------------
(* Scheduling *)

Switched == IF Permitted(WorkerPriority) THEN WorkerPriority ELSE 0

Placed ==
    /\ step \in {"pinned", "guarded", "switched"} => pc = "spawn"
    /\ step = "inside" => pc \in {"spawn", "spawned"}
    /\ step \in {"lowering", "unpinning"} => pc = "spawned"

Values ==
    /\ step # "out" => affinity = "tested"
    /\ step \in {"pinned", "guarded", "unpinning"} => priority = SessionPriority
    /\ step \in {"switched", "inside", "lowering"} => priority = Switched
    /\ step = "out" =>
         /\ affinity = "own" \/ cutAt \cap {"pinned", "unpinning"} # {}
         /\ priority = SessionPriority \/ cutAt \cap {"switched", "lowering"} # {}

NeverBack == pc \in Before \cup {"spawned"} \cup Loop => cutAt = {}

SInv ==
    /\ SchedTypeOK
    /\ Placed
    /\ Values
    /\ NeverBack
    /\ EngineInherits
-----------------------------------------------------------------------------
(* Every step of Scheduling is a step of Supervisor or leaves it alone. *)
LEMMA SchedStepRefines == [SchedNext]_schedVars => [Next]_vars
<1> SUFFICES ASSUME [SchedNext]_schedVars PROVE [Next]_vars
  OBVIOUS
<1>1. CASE MainStep
  BY <1>1 DEF MainStep, SwitchStep, Next
<1>2. CASE (EngineStep \/ KilledDies \/ DeadlineExpires) /\ UNCHANGED sched
  BY <1>2 DEF Next
<1>3. CASE SignalWhileScheduled
  BY <1>3 DEF SignalWhileScheduled, Next
<1>4. CASE UNCHANGED schedVars
  BY <1>4 DEF schedVars
<1>5. QED
  BY <1>1, <1>2, <1>3, <1>4 DEF SchedNext

(* Scheduling implements Supervisor: whatever is proved of a run holds of a run
   whose scheduling is switched around Popen (lib/sched.py). *)
THEOREM ImplementsSupervisor == SchedSpec => Spec
<1>1. SchedInit => Init
  BY DEF SchedInit
<1>2. QED
  BY <1>1, SchedStepRefines, PTL DEF SchedSpec, Spec

LEMMA SupervisorInvariant == SchedSpec => []IInv
  BY ImplementsSupervisor, Invariance, PTL

(* The priority of the session is below what is permitted. *)
LEMMA PriorityTypes ==
  ASSUME limit \in Nat
  PROVE  /\ SessionPriority \in {0, WorkerPriority, ControllerPriority}
         /\ Switched \in {0, WorkerPriority, ControllerPriority}
         /\ ~Permitted(WorkerPriority) => SessionPriority = 0
  BY DEF SessionPriority, Switched, Permitted, WorkerPriority, ControllerPriority

LEMMA SchedInitially == SchedInit => SInv
<1> SUFFICES ASSUME SchedInit PROVE SInv
  OBVIOUS
<1>1. limit \in Nat
  BY LimitAssumption DEF SchedInit
<1>2. SchedTypeOK
  BY <1>1, PriorityTypes DEF SchedInit, SchedTypeOK, Steps, NotSpawned
<1>3. Placed /\ Values /\ NeverBack
  BY DEF SchedInit, Placed, Values, NeverBack
<1>4. EngineInherits
  BY DEF SchedInit, Init, EngineInherits
<1>5. QED
  BY <1>2, <1>3, <1>4 DEF SInv

-----------------------------------------------------------------------------
(* The steps of the context managers leave Supervisor alone. *)
LEMMA SwitchStepKeeps == SInv /\ SwitchStep => SInv'
<1> SUFFICES ASSUME SInv, SwitchStep PROVE SInv'
  OBVIOUS
<1>0. UNCHANGED <<pc, leader, limit, inherited, cutAt>>
  BY DEF SwitchStep, vars, run, engine, Pin, EnterGuard, SwitchPriority, EnterBlock,
         LeaveBlock, RestorePriority, RestoreAffinity
<1>1. limit \in Nat
  BY LimitAssumption DEF SInv, SchedTypeOK
<1>2. SessionPriority' = SessionPriority /\ Switched' = Switched
  BY <1>0 DEF SessionPriority, Switched, Permitted
<1>3. EngineInherits' /\ NeverBack'
  BY <1>0 DEF SInv, EngineInherits, NeverBack, Permitted
<1> USE <1>0, <1>1, <1>2, PriorityTypes DEF SInv, SchedTypeOK, Placed, Values, Steps
<1>4. CASE Pin
  <2>1. cutAt = {} /\ priority = SessionPriority
    BY <1>4 DEF Pin, NeverBack, Before
  <2>2. QED
    BY <1>3, <1>4, <2>1 DEF Pin
<1>5. CASE EnterGuard
  BY <1>3, <1>5 DEF EnterGuard
<1>6. CASE SwitchPriority
  <2>1. priority' = Switched
    BY <1>6 DEF SwitchPriority, Switched
  <2>2. QED
    BY <1>3, <1>6, <2>1 DEF SwitchPriority
<1>7. CASE EnterBlock
  BY <1>3, <1>7 DEF EnterBlock
<1>8. CASE LeaveBlock
  BY <1>3, <1>8 DEF LeaveBlock
<1>9. CASE RestorePriority
  BY <1>3, <1>9 DEF RestorePriority
<1>10. CASE RestoreAffinity
  BY <1>3, <1>10 DEF RestoreAffinity
<1>11. QED
  BY <1>4, <1>5, <1>6, <1>7, <1>8, <1>9, <1>10 DEF SwitchStep

(* Only Popen makes the engine exist. *)
LEMMA OnlyPopenSpawns ==
  ASSUME SupervisorStep \/ EngineStep \/ KilledDies \/ DeadlineExpires \/ StopSignal,
         leader = "none", leader' # "none"
  PROVE  pc = "spawn" /\ pc' = "spawned" /\ leader' = "running"
  BY DEF SupervisorStep, MakeWorkDir, Unavailable, EnterTry, Prepare, Spawn, EnterLoop,
         ReadOutput, PollResults, ListenerFails, ProcPoll, AskToStop, Escalate, Drain, DrainExpires,
         KillGroup, Wait, Classify, Cleanup, SignalGroupKill, Goto, Raise,
         EngineStep, PrintPass, PrintError, PrintFragment, WriteResults, Fork, LeaderEnds, HelperEnds,
         KilledDies, DeadlineExpires, StopSignal, engine

(* How a step of the supervisor moves between the parts of run_test. *)
LEMMA NoWayBack ==
  ASSUME SupervisorStep
  PROVE  /\ pc' \in Before \cup {"spawned"} \cup Loop => pc \in Before \cup {"spawned"} \cup Loop
         /\ pc = "spawn" => pc' \in {"spawned", "cleanup"}
  BY DEF SupervisorStep, MakeWorkDir, Unavailable, EnterTry, Prepare, Spawn, EnterLoop,
         ReadOutput, PollResults, ListenerFails, ProcPoll, AskToStop, Escalate, Drain, DrainExpires,
         KillGroup, Wait, Classify, Cleanup, Goto, Raise, Before, Loop

(* The steps of Supervisor keep what its main thread runs with, except Popen. *)
LEMMA SupervisorStepKeeps == IInv /\ SInv /\ SupervisorStep /\ Alongside => SInv'
<1> SUFFICES ASSUME IInv, SInv, SupervisorStep, Alongside PROVE SInv'
  OBVIOUS
<1>1. limit' = limit /\ cutAt' = cutAt
  BY DEF Alongside, Inherit, PinFails, Elsewhere, sched
<1>2. SessionPriority' = SessionPriority /\ Switched' = Switched
  BY <1>1 DEF SessionPriority, Switched, Permitted
<1>3. NeverBack'
  BY <1>1, NoWayBack DEF SInv, NeverBack
<1>4. limit \in Nat
  BY LimitAssumption DEF SInv, SchedTypeOK
<1>5. CASE Inherit /\ leader' = "running"
  <2>1. /\ pc' \in {"spawn", "spawned"} /\ step' = "inside"
        /\ affinity' = "tested" /\ priority' = Switched
        /\ inherited' = [affinity |-> "tested", priority |-> Switched]
    <3>1. pc = "spawn" /\ step = "inside" /\ affinity = "tested" /\ priority = Switched
      BY <1>5 DEF Inherit, SpawnsAt, SInv, Values
    <3>2. leader = "none"
      BY <3>1 DEF IInv, Lifecycle, Before
    <3>3. pc' = "spawned"
      BY <1>5, <3>2, OnlyPopenSpawns
    <3>4. QED
      BY <1>5, <3>1, <3>3 DEF Inherit
  <2>2. SchedTypeOK'
    BY <1>1, <1>4, <2>1, PriorityTypes DEF SInv, SchedTypeOK, Steps
  <2>3. Placed' /\ Values'
    BY <1>2, <2>1 DEF Placed, Values
  <2>4. EngineInherits'
    BY <1>1, <2>1 DEF EngineInherits, Switched, Permitted
  <2>5. QED
    BY <1>3, <2>2, <2>3, <2>4 DEF SInv
<1>6. CASE Inherit /\ leader' # "running"
  <2>1. pc = "spawn" /\ step' = "out" /\ affinity' = "own" /\ priority' = SessionPriority /\ inherited' = inherited
    BY <1>6 DEF Inherit
  <2>2. leader = "none"
    BY <2>1 DEF IInv, Lifecycle, Before
  <2>3. leader' = "none"
    BY <1>6, <2>2, OnlyPopenSpawns
  <2>4. SchedTypeOK'
    BY <1>1, <1>4, <2>1, PriorityTypes DEF SInv, SchedTypeOK, Steps
  <2>5. Placed' /\ Values' /\ EngineInherits'
    BY <1>2, <2>1, <2>3 DEF Placed, Values, EngineInherits
  <2>6. QED
    BY <1>3, <2>4, <2>5 DEF SInv
<1>7. CASE PinFails \/ Elsewhere
  <2>1. step = "out" /\ UNCHANGED <<affinity, priority, step, inherited>>
    BY <1>7 DEF PinFails, Elsewhere, sched
  <2>2. leader = "none" => leader' = "none"
    BY <1>7, OnlyPopenSpawns DEF PinFails, Elsewhere
  <2>3. SchedTypeOK'
    BY <1>1, <2>1 DEF SInv, SchedTypeOK
  <2>4. Placed' /\ Values'
    BY <1>1, <1>2, <2>1 DEF SInv, Placed, Values
  <2>5. EngineInherits'
    BY <1>1, <2>1, <2>2 DEF SInv, EngineInherits, Permitted
  <2>6. QED
    BY <1>3, <2>3, <2>4, <2>5 DEF SInv
<1>8. QED
  BY <1>5, <1>6, <1>7 DEF Alongside

(* The engine and the clock move neither the main thread nor its scheduling. *)
LEMMA EnvironmentKeeps ==
  ASSUME SInv, EngineStep \/ KilledDies \/ DeadlineExpires, UNCHANGED sched
  PROVE  SInv'
<1>1. pc' = pc
  BY DEF EngineStep, PrintPass, PrintError, PrintFragment, WriteResults, Fork, LeaderEnds, HelperEnds,
         KilledDies, DeadlineExpires, Env, run
<1>2. leader = "none" => leader' = "none"
  BY <1>1, OnlyPopenSpawns
<1>3. QED
  BY <1>1, <1>2 DEF SInv, SchedTypeOK, Placed, Values, NeverBack, EngineInherits, sched,
                    SessionPriority, Switched, Permitted

(* A second signal unwinds through the finally blocks. *)
LEMMA SignalKeeps == SInv /\ SignalWhileScheduled => SInv'
<1> SUFFICES ASSUME SInv, SignalWhileScheduled PROVE SInv'
  OBVIOUS
<1>1. leader' = leader
  BY DEF SignalWhileScheduled, StopSignal, engine
<1>2. CASE ~cancel
  <2>1. pc' = pc /\ UNCHANGED sched
    BY <1>2 DEF SignalWhileScheduled, StopSignal, FirstSignal, SecondSignal, run
  <2>2. QED
    BY <1>1, <2>1 DEF SInv, SchedTypeOK, Placed, Values, NeverBack, EngineInherits, sched,
                      SessionPriority, Switched, Permitted
<1>3. CASE cancel
  <2>1. Unwind /\ pc' = UnwindsTo
    BY <1>3 DEF SignalWhileScheduled, StopSignal, FirstSignal, SecondSignal
  <2>2. pc' \in {"raised", "kill", "cleanup"}
    BY <2>1 DEF UnwindsTo
  <2>3. limit' = limit /\ step' = "out" /\ cutAt' = cutAt \cup {step} /\ inherited' = inherited
    BY <2>1 DEF Unwind
  <2>4. SessionPriority' = SessionPriority /\ Switched' = Switched
    BY <2>3 DEF SessionPriority, Switched, Permitted
  <2>5. limit \in Nat
    BY LimitAssumption DEF SInv, SchedTypeOK
  <2>6. SchedTypeOK'
    BY <2>1, <2>3, <2>5, PriorityTypes DEF SInv, SchedTypeOK, Steps, Unwind
  <2>7. affinity' = "own" \/ cutAt' \cap {"pinned", "unpinning"} # {}
    BY <2>1, <2>3 DEF Unwind, SInv, Values
  <2>8. priority' = SessionPriority \/ cutAt' \cap {"switched", "lowering"} # {}
    BY <2>1, <2>3 DEF Unwind, SInv, Values
  <2>9. Placed' /\ Values'
    BY <2>3, <2>4, <2>7, <2>8 DEF Placed, Values
  <2>10. NeverBack'
    BY <2>2 DEF NeverBack, Before, Loop
  <2>11. EngineInherits'
    BY <1>1, <2>3 DEF SInv, EngineInherits, Permitted
  <2>12. QED
    BY <2>6, <2>9, <2>10, <2>11 DEF SInv
<1>4. QED
  BY <1>2, <1>3

LEMMA SInvStep == IInv /\ SInv /\ [SchedNext]_schedVars => SInv'
<1> SUFFICES ASSUME IInv, SInv, [SchedNext]_schedVars PROVE SInv'
  OBVIOUS
<1>1. CASE MainStep
  BY <1>1, SwitchStepKeeps, SupervisorStepKeeps DEF MainStep
<1>2. CASE (EngineStep \/ KilledDies \/ DeadlineExpires) /\ UNCHANGED sched
  BY <1>2, EnvironmentKeeps
<1>3. CASE SignalWhileScheduled
  BY <1>3, SignalKeeps
<1>4. CASE UNCHANGED schedVars
  BY <1>4 DEF schedVars, vars, run, engine, sched, SInv, SchedTypeOK, Placed, Values, NeverBack,
              EngineInherits, SessionPriority, Switched, Permitted
<1>5. QED
  BY <1>1, <1>2, <1>3, <1>4 DEF SchedNext

LEMMA SchedInvariance == SchedSpec => []SInv
<1>1. SchedInit => SInv
  BY SchedInitially
<1>2. IInv /\ SInv /\ [SchedNext]_schedVars => SInv'
  BY SInvStep
<1>3. QED
  BY <1>1, <1>2, SupervisorInvariant, PTL DEF SchedSpec

-----------------------------------------------------------------------------
(* Affinity, priority and position in the two context managers keep their
   types, for any set of limits. *)
THEOREM SchedTypeCorrect == SchedSpec => []SchedTypeOK
<1>1. SInv => SchedTypeOK
  BY DEF SInv
<1>2. QED
  BY <1>1, SchedInvariance, PTL

(* Every engine inherits the CPUs under test and the priority of a worker, or the
   original policy where that is not permitted (lib/sched.py, README). *)
THEOREM EngineGetsScheduling == SchedSpec => []EngineInherits
<1>1. SInv => EngineInherits
  BY DEF SInv
<1>2. QED
  BY <1>1, SchedInvariance, PTL

(* The controller has its CPUs and its priority back after Popen, whatever raised;
   only a second signal at a call outside every try can cost it one of them. *)
THEOREM ControllerRestored == SchedSpec => []ControllerIsRestored
<1>1. SInv => ControllerIsRestored
  BY DEF SInv, Values, NeverBack, ControllerIsRestored
<1>2. QED
  BY <1>1, SchedInvariance, PTL
=============================================================================
