---------------------------- MODULE RunContract ----------------------------
(***************************************************************************)
(* What StressRunner.run_test promises its caller, whatever engine it runs *)
(* (runners/base.py, run_test): the run is judged once, only after its     *)
(* processes are gone; the verdict is INTERRUPTED exactly when the stop    *)
(* request was seen; a call that neither returns nor is aborted by a       *)
(* second signal leaves no engine process.  Supervisor implements this     *)
(* contract and Orchestrator is composed with it.                          *)
(***************************************************************************)

VARIABLES
    phase,      \* where the call to run_test is
    alive,      \* a process of the engine's group may still execute
    cancel,     \* RunContext.cancel
    verdict     \* RunResult.status, NoStatus before _classify

contractVars == <<phase, alive, cancel, verdict>>

NoStatus       == "none"
FailedStatuses == {"ERROR", "CRASH", "UNVERIFIED"}
RunStatus      == {"PASS", "INTERRUPTED"} \cup FailedStatuses
Phases         == {"idle", "ready", "running", "judged", "returned", "raised"}

ContractTypeOK ==
    /\ phase \in Phases
    /\ alive \in BOOLEAN
    /\ cancel \in BOOLEAN
    /\ verdict \in RunStatus \cup {NoStatus}

ContractInit ==
    /\ phase = "idle"
    /\ alive = FALSE
    /\ cancel \in BOOLEAN
    /\ verdict = NoStatus

(* The orchestrator's signal handler: the request is never withdrawn. *)
RequestStop ==
    /\ ~cancel
    /\ cancel' = TRUE
    /\ UNCHANGED <<phase, alive, verdict>>

Enter ==
    /\ phase = "idle"
    /\ phase' = "ready"
    /\ UNCHANGED <<alive, cancel, verdict>>

Launch ==
    /\ phase = "ready"
    /\ phase' = "running"
    /\ alive' = TRUE
    /\ UNCHANGED <<cancel, verdict>>

ProcessesEnd ==
    /\ alive
    /\ alive' = FALSE
    /\ UNCHANGED <<phase, cancel, verdict>>

Judge(s) ==
    /\ phase = "running"
    /\ ~alive
    /\ s = "INTERRUPTED" <=> cancel
    /\ phase' = "judged"
    /\ verdict' = s
    /\ UNCHANGED <<alive, cancel>>

Return ==
    /\ phase = "judged"
    /\ phase' = "returned"
    /\ UNCHANGED <<alive, cancel, verdict>>

(* An exception of its own: the engine is missing, cannot be configured or
   spawned, or the listener raises.  Only before the verdict. *)
Fail ==
    /\ phase \in {"idle", "ready", "running"}
    /\ ~alive
    /\ phase' = "raised"
    /\ UNCHANGED <<alive, cancel, verdict>>

(* KeyboardInterrupt of the second signal: the one exit that promises nothing. *)
AbortCall ==
    /\ phase \notin {"returned", "raised"}
    /\ cancel
    /\ phase' = "raised"
    /\ UNCHANGED <<alive, cancel, verdict>>

ContractNext ==
    \/ RequestStop
    \/ Enter
    \/ Launch
    \/ ProcessesEnd
    \/ \E s \in RunStatus : Judge(s)
    \/ Return
    \/ Fail
    \/ AbortCall

ContractSpec == ContractInit /\ [][ContractNext]_contractVars
=============================================================================
