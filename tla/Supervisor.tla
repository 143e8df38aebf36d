----------------------------- MODULE Supervisor -----------------------------
(***************************************************************************)
(* One call of StressRunner.run_test (runners/base.py): the work           *)
(* directory, the engine's process group, the supervision loop, the kill   *)
(* in its finally block and the classification of the run, against an      *)
(* engine that may print, fork, hang or die at any time and an operator    *)
(* whose signals arrive between any two steps.                             *)
(*                                                                         *)
(* A step of the supervisor is the code between two points where the       *)
(* engine or a signal can be seen.  The output is abstracted to what       *)
(* decides the verdict: how many verified iterations and whether an error  *)
(* were printed.  Every read takes all there is, so order inside the pipe  *)
(* does not matter.                                                        *)
(***************************************************************************)
EXTENDS Integers

CONSTANTS
    Target,      \* request.target_iterations
    MaxPasses,   \* bound: iterations the engine may report
    MaxSignals   \* bound: stop signals the operator may send

ASSUME TargetAssumption == Target \in Nat \ {0}
ASSUME BoundAssumption  == MaxPasses \in Nat /\ MaxSignals \in Nat

NoStatus       == "none"
FailedStatuses == {"ERROR", "CRASH", "UNVERIFIED"}
RunStatus      == {"PASS", "INTERRUPTED"} \cup FailedStatuses

VARIABLES
    pc,          \* next step of run_test
    workDir,     \* the temporary engine directory exists
    status,      \* verdict of _classify
    exc,         \* exception being propagated
    leader,      \* the engine process itself
    helper,      \* a process the engine forked into its group
    code,        \* returncode of the leader
    pipePass,    \* verified iterations in the pipe, not yet read
    pipeError,   \* an error line in the pipe, not yet read
    fragment,    \* an error line whose newline was not printed (_pending)
    eof,         \* _ProcessOutput.eof
    results,     \* results.txt of the engine holds an error
    completed,   \* parser.completed_iterations
    errors,      \* parser.errors is not empty
    stopReason,  \* stop_reason of _supervise
    deadline,    \* stop_deadline
    cancel,      \* RunContext.cancel
    signals,     \* bound counter: stop signals delivered
    printed,     \* history: iterations the engine verified
    lastWords,   \* history: the leader reported an error before it ended
    abortedAt    \* history: the steps a KeyboardInterrupt hit

run     == <<pc, status, exc, abortedAt>>
engine  == <<leader, helper, code>>
output  == <<pipePass, pipeError, fragment, results, printed, lastWords>>
parser  == <<completed, errors, eof>>
stop    == <<stopReason, deadline>>
request == <<cancel, signals>>
vars    == <<run, workDir, engine, output, parser, stop, request>>

Loop      == {"read", "poll", "reap", "decide", "drain", "draining", "final"}
Terminal  == {"done", "raised"}
Locations == {"start", "made", "prepare", "spawn", "spawned", "kill", "wait",
              "classify", "cleanup"} \cup Loop \cup Terminal

GroupAlive == leader = "running" \/ helper = "running"
PipeClosed == leader \in {"zombie", "reaped"} /\ helper # "running"

TypeOK ==
    /\ pc \in Locations
    /\ workDir \in BOOLEAN
    /\ status \in RunStatus \cup {NoStatus}
    /\ exc \in {"none", "error", "interrupt"}
    /\ leader \in {"none", "running", "killed", "zombie", "reaped"}
    /\ helper \in {"none", "running", "gone"}
    /\ code \in {"none", "zero", "abnormal"}
    /\ pipePass \in Nat /\ completed \in Nat /\ printed \in Nat /\ signals \in Nat
    /\ pipeError \in BOOLEAN /\ fragment \in BOOLEAN /\ eof \in BOOLEAN
    /\ results \in BOOLEAN /\ errors \in BOOLEAN /\ cancel \in BOOLEAN
    /\ lastWords \in BOOLEAN
    /\ stopReason \in {"none", "INTERRUPTED", "ERROR", "PASS"}
    /\ deadline \in {"none", "armed", "expired"}
    /\ abortedAt \subseteq Locations

Init ==
    /\ pc = "start" /\ workDir = FALSE /\ status = NoStatus /\ exc = "none"
    /\ leader = "none" /\ helper = "none" /\ code = "none"
    /\ pipePass = 0 /\ pipeError = FALSE /\ fragment = FALSE /\ results = FALSE
    /\ printed = 0 /\ lastWords = FALSE
    /\ completed = 0 /\ errors = FALSE /\ eof = FALSE
    /\ stopReason = "none" /\ deadline = "none"
    /\ cancel \in BOOLEAN /\ signals = 0
    /\ abortedAt = {}

Goto(loc) == pc' = loc /\ UNCHANGED <<status, exc, abortedAt>>
Raise(loc) == pc' = loc /\ exc' = "error" /\ UNCHANGED <<status, abortedAt>>

-----------------------------------------------------------------------------
(* Setting up *)

MakeWorkDir ==
    /\ pc = "start"
    /\ Goto("made")
    /\ workDir' = TRUE
    /\ UNCHANGED <<engine, output, parser, stop, request>>

(* RunnerUnavailableError, or mkdtemp fails: nothing exists yet. *)
Unavailable ==
    /\ pc = "start"
    /\ Raise("raised")
    /\ UNCHANGED <<workDir, engine, output, parser, stop, request>>

EnterTry ==
    /\ pc = "made"
    /\ Goto("prepare")
    /\ UNCHANGED <<workDir, engine, output, parser, stop, request>>

(* Mutant of Prepare: the configuration is written before the try block. *)
PrepareOutsideTry ==
    /\ pc = "prepare"
    /\ Goto("spawn") \/ Raise("raised")
    /\ UNCHANGED <<workDir, engine, output, parser, stop, request>>

(* _prepare, _create_parser and the scheduling switch; each may raise. *)
Prepare ==
    /\ pc = "prepare"
    /\ Goto("spawn") \/ Raise("cleanup")
    /\ UNCHANGED <<workDir, engine, output, parser, stop, request>>

(* Popen returns with the engine running, or raises without one. *)
Spawn ==
    /\ pc = "spawn"
    /\ \/ Goto("spawned") /\ leader' = "running"
       \/ Raise("cleanup") /\ UNCHANGED leader
    /\ UNCHANGED <<workDir, helper, code, output, parser, stop, request>>

(* inherited_scheduling is left and the try block of _supervise entered. *)
EnterLoop ==
    /\ pc = "spawned"
    /\ Goto("read")
    /\ UNCHANGED <<workDir, engine, output, parser, stop, request>>

-----------------------------------------------------------------------------
(* The supervision loop *)

(* read_lines and handle_line of all there is; a closed pipe also flushes the
   unterminated last line, and nothing is read after that. *)
Consume ==
    IF eof THEN UNCHANGED <<parser, output>>
    ELSE /\ eof' = PipeClosed
         /\ completed' = completed + pipePass
         /\ errors' = (errors \/ pipeError \/ (PipeClosed /\ fragment))
         /\ pipePass' = 0
         /\ pipeError' = FALSE
         /\ fragment' = (fragment /\ ~PipeClosed)
         /\ UNCHANGED <<results, printed, lastWords>>

ReadOutput ==
    /\ pc = "read"
    /\ Consume
    /\ Goto("poll")
    /\ UNCHANGED <<workDir, engine, stop, request>>

(* parser.poll: the side channel of the engine; then the telemetry sample. *)
PollResults ==
    /\ pc \in {"poll", "final"}
    /\ errors' = (errors \/ results)
    /\ Goto(IF pc = "poll" THEN "reap" ELSE "kill")
    /\ UNCHANGED <<workDir, engine, output, completed, eof, stop, request>>

(* The listener raises while an event is delivered (the log file, say). *)
ListenerFails ==
    /\ pc \in {"read", "poll", "drain", "draining"}
    /\ Raise("kill")
    /\ UNCHANGED <<workDir, engine, output, parser, stop, request>>

ProcPoll ==
    /\ pc = "reap"
    /\ IF leader = "zombie" THEN leader' = "reaped" /\ Goto("drain")
                            ELSE UNCHANGED leader /\ Goto("decide")
    /\ UNCHANGED <<workDir, helper, code, output, parser, stop, request>>

(* Mutant of Done: the iteration in progress counts. *)
DoneOneEarly == completed + 1 >= Target

Done == completed >= Target

StopDecision ==
    IF cancel THEN "INTERRUPTED"
    ELSE IF errors THEN "ERROR"
    ELSE IF Done THEN "PASS"
    ELSE "none"

(* The stop signal only asks: the engine may end at any time anyway. *)
AskToStop ==
    /\ pc = "decide"
    /\ stopReason = "none"
    /\ stopReason' = StopDecision
    /\ deadline' = IF StopDecision = "none" THEN deadline ELSE "armed"
    /\ Goto("read")
    /\ UNCHANGED <<workDir, engine, output, parser, request>>

(* Mutant of SignalGroupKill: proc.kill() instead of killpg. *)
SignalLeaderKill ==
    /\ leader' = IF leader = "running" THEN "killed" ELSE leader
    /\ UNCHANGED <<helper, code>>

(* SIGKILL of the whole group: its members execute nothing more. *)
SignalGroupKill ==
    /\ leader' = IF leader = "running" THEN "killed" ELSE leader
    /\ helper' = IF helper = "running" THEN "gone" ELSE helper
    /\ UNCHANGED code

Escalate ==
    /\ pc = "decide"
    /\ stopReason # "none"
    /\ IF deadline = "expired" THEN SignalGroupKill ELSE UNCHANGED engine
    /\ Goto("read")
    /\ UNCHANGED <<workDir, output, parser, stop, request>>

(* Mutant of Drain: the loop is left without reading what is in the pipe. *)
DrainNothing ==
    /\ pc \in {"drain", "draining"}
    /\ Goto("final")
    /\ UNCHANGED <<workDir, engine, output, parser, stop, request>>

(* The drain loop reads at least once before its deadline. *)
Drain ==
    /\ pc \in {"drain", "draining"}
    /\ Consume
    /\ Goto(IF eof' THEN "final" ELSE "draining")
    /\ UNCHANGED <<workDir, engine, stop, request>>

(* Mutant of DrainExpires: the drain waits for the end of the output. *)
DrainUntilEof ==
    /\ pc = "draining" /\ eof
    /\ Goto("final")
    /\ UNCHANGED <<workDir, engine, output, parser, stop, request>>

DrainExpires ==
    /\ pc = "draining"
    /\ Goto("final")
    /\ UNCHANGED <<workDir, engine, output, parser, stop, request>>

-----------------------------------------------------------------------------
(* Leaving: the finally blocks and the classification *)

KillGroup ==
    /\ pc = "kill"
    /\ SignalGroupKill
    /\ Goto("wait")
    /\ UNCHANGED <<workDir, output, parser, stop, request>>

Wait ==
    /\ pc = "wait"
    /\ leader \in {"zombie", "reaped"}
    /\ leader' = "reaped"
    /\ Goto(IF exc = "none" THEN "classify" ELSE "cleanup")
    /\ UNCHANGED <<workDir, helper, code, output, parser, stop, request>>

(* Mutants of Verdict: an exit code counts even if we asked the engine to stop;
   a stop request after the stop decision is not looked at. *)
VerdictBlamesStop ==
    IF stopReason = "INTERRUPTED" \/ cancel THEN "INTERRUPTED"
    ELSE IF errors THEN "ERROR"
    ELSE IF code = "abnormal" THEN "CRASH"
    ELSE IF Done THEN "PASS"
    ELSE "UNVERIFIED"

VerdictMissesCancel ==
    IF stopReason = "INTERRUPTED" THEN "INTERRUPTED"
    ELSE IF errors THEN "ERROR"
    ELSE IF stopReason = "none" /\ code = "abnormal" THEN "CRASH"
    ELSE IF Done THEN "PASS"
    ELSE "UNVERIFIED"

Verdict ==
    IF stopReason = "INTERRUPTED" \/ cancel THEN "INTERRUPTED"
    ELSE IF errors THEN "ERROR"
    ELSE IF stopReason = "none" /\ code = "abnormal" THEN "CRASH"
    ELSE IF Done THEN "PASS"
    ELSE "UNVERIFIED"

Classify ==
    /\ pc = "classify"
    /\ status' = Verdict
    /\ pc' = "cleanup"
    /\ UNCHANGED <<exc, abortedAt, workDir, engine, output, parser, stop, request>>

(* The outer finally keeps the work directory of a failed run. *)
Cleanup ==
    /\ pc = "cleanup"
    /\ workDir' = (workDir /\ status \in FailedStatuses)
    /\ Goto(IF exc = "none" THEN "done" ELSE "raised")
    /\ UNCHANGED <<engine, output, parser, stop, request>>

-----------------------------------------------------------------------------
(* The operator: _handle_stop_signal between any two steps *)

FirstSignal ==
    /\ ~cancel
    /\ cancel' = TRUE
    /\ UNCHANGED run

(* Where KeyboardInterrupt unwinds to.  The loop is inside the try block whose
   finally kills the group; spawned and the finally block itself are not. *)
UnwindsTo ==
    IF pc \in {"start", "made", "cleanup"} THEN "raised"
    ELSE IF pc \in Loop THEN "kill"
    ELSE "cleanup"

SecondSignal ==
    /\ cancel
    /\ pc' = UnwindsTo
    /\ exc' = "interrupt"
    /\ abortedAt' = abortedAt \cup {pc}
    /\ UNCHANGED <<cancel, status>>

StopSignal ==
    /\ pc \notin Terminal
    /\ signals < MaxSignals
    /\ signals' = signals + 1
    /\ FirstSignal \/ SecondSignal
    /\ UNCHANGED <<workDir, engine, output, parser, stop>>

-----------------------------------------------------------------------------
(* The engine and the clock *)

Env == UNCHANGED <<run, workDir, parser, request>>

PrintPass ==
    /\ GroupAlive /\ ~fragment
    /\ printed < MaxPasses
    /\ printed' = printed + 1
    /\ pipePass' = pipePass + 1
    /\ Env /\ UNCHANGED <<engine, stop, pipeError, fragment, results, lastWords>>

(* A complete error line: printed at once, or by ending an unfinished one. *)
PrintError ==
    /\ GroupAlive
    /\ pipeError' = TRUE
    /\ fragment' = FALSE
    /\ lastWords' = (lastWords \/ leader = "running")
    /\ Env /\ UNCHANGED <<engine, stop, pipePass, results, printed>>

PrintFragment ==
    /\ GroupAlive
    /\ fragment' = TRUE
    /\ Env /\ UNCHANGED <<engine, stop, pipePass, pipeError, results, printed, lastWords>>

WriteResults ==
    /\ GroupAlive
    /\ results' = TRUE
    /\ lastWords' = (lastWords \/ leader = "running")
    /\ Env /\ UNCHANGED <<engine, stop, pipePass, pipeError, fragment, printed>>

Fork ==
    /\ leader = "running" /\ helper # "running"
    /\ helper' = "running"
    /\ Env /\ UNCHANGED <<leader, code, output, stop>>

LeaderEnds ==
    /\ leader = "running"
    /\ leader' = "zombie"
    /\ code' \in {"zero", "abnormal"}
    /\ Env /\ UNCHANGED <<helper, output, stop>>

HelperEnds ==
    /\ helper = "running"
    /\ helper' = "gone"
    /\ Env /\ UNCHANGED <<leader, code, output, stop>>

KilledDies ==
    /\ leader = "killed"
    /\ leader' = "zombie"
    /\ code' = "abnormal"
    /\ Env /\ UNCHANGED <<helper, output, stop>>

DeadlineExpires ==
    /\ deadline = "armed"
    /\ deadline' = "expired"
    /\ Env /\ UNCHANGED <<engine, output, stopReason>>

-----------------------------------------------------------------------------
SupervisorStep ==
    \/ MakeWorkDir \/ Unavailable \/ EnterTry \/ Prepare \/ Spawn \/ EnterLoop
    \/ ReadOutput \/ PollResults \/ ListenerFails \/ ProcPoll
    \/ AskToStop \/ Escalate \/ Drain \/ DrainExpires
    \/ KillGroup \/ Wait \/ Classify \/ Cleanup

EngineStep ==
    \/ PrintPass \/ PrintError \/ PrintFragment \/ WriteResults
    \/ Fork \/ LeaderEnds \/ HelperEnds

Next == SupervisorStep \/ EngineStep \/ KilledDies \/ DeadlineExpires \/ StopSignal

Spec == Init /\ [][Next]_vars

(* The supervisor runs and its clock advances (the drain deadline too), the
   kernel delivers SIGKILL.  Nothing is assumed of the engine or the operator. *)
Fairness ==
    /\ WF_vars(SupervisorStep)
    /\ WF_vars(DrainExpires)
    /\ WF_vars(DeadlineExpires)
    /\ WF_vars(KilledDies)

FairSpec == Spec /\ Fairness

-----------------------------------------------------------------------------
(* PASS is reported only if the engine itself verified every requested
   iteration, whichever way the run ended (done, _classify; README, Results). *)
PassIsVerified == status = "PASS" => printed >= Target

(* An error the engine reported before it ended decides the verdict, even if it
   dies right after printing it: the drain and the final poll read it.  Without
   a helper holding the pipe this includes a last line without newline. *)
ErrorIsReported ==
    status \in {"PASS", "CRASH", "UNVERIFIED"} =>
        ~lastWords /\ (helper = "none" => ~fragment)

(* CRASH blames the engine: it ended abnormally by itself.  A SIGKILL of the
   supervisor is never counted against the core (_classify, stop_reason). *)
CrashIsNotOurKill == status = "CRASH" => code = "abnormal" /\ deadline = "none"

(* No process of the engine outlives run_test, except after a second signal in
   one of the two windows that no finally block covers. *)
EngineOutlivesOnlyInWindow ==
    pc \in Terminal /\ GroupAlive => abortedAt \cap {"spawned", "kill"} # {}

(* The handler's comment (lib/orchestrator.py:54): "A second signal aborts
   immediately; the runners kill their child processes while unwinding." *)
AbortKillsEngine == pc = "raised" /\ exc = "interrupt" => ~GroupAlive

(* A work directory that remains belongs to a failed run the caller is told of,
   or a second signal hit outside the try block or inside its finally. *)
WorkDirKeptForFailures ==
    pc \in Terminal /\ workDir =>
        \/ pc = "done" /\ status \in FailedStatuses
        \/ abortedAt \cap {"made", "cleanup"} # {}

(* run_test ends once there is a reason to stop (STOP_TIMEOUT_S), whatever the
   engine does, and once the engine has ended by itself, even if a helper
   process keeps the output pipe open (DRAIN_TIMEOUT_S). *)
RunTestReturns ==
    \/ pc \in Loop /\ (cancel \/ errors \/ Done)
    \/ leader = "zombie" /\ pc \notin Terminal
    ~> pc \in Terminal

-----------------------------------------------------------------------------
(* The contract the orchestrator relies on *)

Phase ==
    IF pc = "start" THEN "idle"
    ELSE IF pc = "done" THEN "returned"
    ELSE IF pc = "raised" THEN "raised"
    ELSE IF status # NoStatus THEN "judged"
    ELSE IF leader = "none" THEN "ready"
    ELSE "running"

Contract == INSTANCE RunContract
    WITH phase <- Phase, alive <- GroupAlive, cancel <- cancel, verdict <- status

ContractSpec == Contract!ContractSpec
=============================================================================
