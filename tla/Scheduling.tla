----------------------------- MODULE Scheduling -----------------------------
(***************************************************************************)
(* Supervisor with the scheduling of the controller's main thread: around  *)
(* Popen it takes the affinity and the priority the engine is to inherit,  *)
(* and gives them back (inherited_scheduling and thread_rt_priority of     *)
(* lib/sched.py).  The steps of the two context managers lie inside the    *)
(* locations "spawn" and "spawned" of Supervisor, and a second signal may  *)
(* arrive between any two of them.                                         *)
(***************************************************************************)
EXTENDS Supervisor

CONSTANT Limits     \* the highest SCHED_RR priorities the system may permit, 0 for none

ASSUME LimitAssumption == Limits \subseteq Nat

ControllerPriority == 50
WorkerPriority     == 40

VARIABLES
    limit,      \* the highest priority permitted in this session
    affinity,   \* CPUs of the main thread
    priority,   \* its SCHED_RR priority, 0 for its original policy
    step,       \* position in inherited_scheduling
    inherited,  \* what the engine got when it was spawned
    cutAt       \* history: the positions a KeyboardInterrupt hit

sched     == <<limit, affinity, priority, step, inherited, cutAt>>
schedVars == <<vars, sched>>

Permitted(p) == p <= limit
NotSpawned   == [affinity |-> "none", priority |-> 0]
Steps        == {"out", "pinned", "guarded", "switched", "inside", "lowering", "unpinning"}

(* old_policy: the session runs under thread_rt_priority(CONTROLLER_RT_PRIORITY). *)
SessionPriority == IF Permitted(ControllerPriority) THEN ControllerPriority ELSE 0

SchedTypeOK ==
    /\ limit \in Limits
    /\ affinity \in {"own", "tested"}
    /\ priority \in {0, WorkerPriority, ControllerPriority}
    /\ step \in Steps
    /\ inherited \in [affinity : {"none", "own", "tested"}, priority : {0, WorkerPriority, ControllerPriority}]
    /\ cutAt \subseteq Steps

SchedInit ==
    /\ Init
    /\ limit \in Limits
    /\ affinity = "own" /\ priority = SessionPriority
    /\ step = "out" /\ inherited = NotSpawned /\ cutAt = {}

-----------------------------------------------------------------------------
(* The context managers, between two steps of Supervisor *)

Pin ==
    /\ pc = "spawn" /\ step = "out"
    /\ affinity' = "tested" /\ step' = "pinned"
    /\ UNCHANGED <<limit, priority, inherited, cutAt>>

EnterGuard ==
    /\ step = "pinned"
    /\ step' = "guarded"
    /\ UNCHANGED <<limit, affinity, priority, inherited, cutAt>>

(* sched_setscheduler; without the permission the policy stays as it is. *)
SwitchPriority ==
    /\ step = "guarded"
    /\ priority' = IF Permitted(WorkerPriority) THEN WorkerPriority ELSE priority
    /\ step' = "switched"
    /\ UNCHANGED <<limit, affinity, inherited, cutAt>>

EnterBlock ==
    /\ step = "switched"
    /\ step' = "inside"
    /\ UNCHANGED <<limit, affinity, priority, inherited, cutAt>>

LeaveBlock ==
    /\ pc = "spawned" /\ step = "inside"
    /\ step' = "lowering"
    /\ UNCHANGED <<limit, affinity, priority, inherited, cutAt>>

(* Mutant of RestorePriority: the priority of the session is taken for granted. *)
RestoreConstant ==
    /\ step = "lowering"
    /\ priority' = IF Permitted(ControllerPriority) THEN ControllerPriority ELSE priority
    /\ step' = "unpinning"
    /\ UNCHANGED <<limit, affinity, inherited, cutAt>>

(* Back to the saved policy, which is never above what was permitted. *)
RestorePriority ==
    /\ step = "lowering"
    /\ priority' = SessionPriority
    /\ step' = "unpinning"
    /\ UNCHANGED <<limit, affinity, inherited, cutAt>>

RestoreAffinity ==
    /\ step = "unpinning"
    /\ affinity' = "own"
    /\ step' = "out"
    /\ UNCHANGED <<limit, priority, inherited, cutAt>>

SwitchStep ==
    /\ \/ Pin \/ EnterGuard \/ SwitchPriority \/ EnterBlock
       \/ LeaveBlock \/ RestorePriority \/ RestoreAffinity
    /\ UNCHANGED vars

-----------------------------------------------------------------------------
(* What the steps of Supervisor do with it *)

(* Mutant of SpawnsAt: the engine is spawned before the priority is switched. *)
SpawnsPinned == step = "guarded"

SpawnsAt == step = "inside"

(* Popen: the engine inherits at fork time; if it raises, both are given back. *)
Inherit ==
    /\ pc = "spawn" /\ SpawnsAt
    /\ IF leader' = "running"
       THEN /\ inherited' = [affinity |-> affinity, priority |-> priority]
            /\ step' = "inside"
            /\ UNCHANGED <<affinity, priority>>
       ELSE /\ affinity' = "own" /\ priority' = SessionPriority
            /\ step' = "out"
            /\ UNCHANGED inherited
    /\ UNCHANGED <<limit, cutAt>>

(* sched_setaffinity raises (the CPU is offline): nothing to give back. *)
PinFails ==
    /\ pc = "spawn" /\ step = "out" /\ pc' = "cleanup"
    /\ UNCHANGED sched

Elsewhere ==
    /\ step = "out" /\ pc # "spawn"
    /\ UNCHANGED sched

Alongside == Inherit \/ PinFails \/ Elsewhere

(* A finally block restores what its try block covers: not the call right before
   the try, and not the call in the finally block itself. *)
Unwind ==
    /\ affinity' = IF step \in {"out", "pinned", "unpinning"} THEN affinity ELSE "own"
    /\ priority' = IF step \in {"out", "switched", "lowering"} THEN priority ELSE SessionPriority
    /\ step' = "out"
    /\ cutAt' = cutAt \cup {step}
    /\ UNCHANGED <<limit, inherited>>

SignalWhileScheduled ==
    /\ StopSignal
    /\ IF cancel THEN Unwind ELSE UNCHANGED sched

MainStep == SwitchStep \/ (SupervisorStep /\ Alongside)

SchedNext ==
    \/ MainStep
    \/ (EngineStep \/ KilledDies \/ DeadlineExpires) /\ UNCHANGED sched
    \/ SignalWhileScheduled

SchedSpec == SchedInit /\ [][SchedNext]_schedVars

(* As in Supervisor. *)
SchedFairness ==
    /\ WF_schedVars(MainStep)
    /\ WF_schedVars(DrainExpires /\ Alongside)
    /\ WF_schedVars(DeadlineExpires /\ UNCHANGED sched)
    /\ WF_schedVars(KilledDies /\ UNCHANGED sched)

SchedFairSpec == SchedSpec /\ SchedFairness

-----------------------------------------------------------------------------
(* README.md:18: "the stress process inherits priority 40 and the target core
   affinity at spawn time": every engine does, also the one that is orphaned; if
   the priority is not permitted it has the original policy of the controller. *)
EngineInherits ==
    leader # "none" =>
        inherited = [affinity |-> "tested", priority |-> IF Permitted(WorkerPriority) THEN WorkerPriority ELSE 0]

(* README.md:18: "Controller thread runs at SCHED_RR priority 50 unpinned": while
   it supervises, judges and cleans up it has its CPUs and its priority back,
   whatever raised; a second signal alone can leave it pinned to the CPUs of the
   test or at the engine's priority, each at the two calls no try covers. *)
ControllerIsRestored ==
    step = "out" =>
        /\ affinity = "own" \/ cutAt \cap {"pinned", "unpinning"} # {}
        /\ priority = SessionPriority \/ cutAt \cap {"switched", "lowering"} # {}
        /\ pc \in Loop => affinity = "own" /\ priority = SessionPriority
=============================================================================
