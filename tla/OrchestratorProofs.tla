------------------------- MODULE OrchestratorProofs -------------------------
(***************************************************************************)
(* Proofs about Orchestrator for every set of cores, command lines and     *)
(* bounds.  The invariant says which exceptions, results and summaries     *)
(* belong to which place of the main thread (Control), what the run in     *)
(* progress and the last run have to do with the place (LastRun), that a   *)
(* request or a failure that ends the session is the last thing that       *)
(* happened (Final), and that the statistics equal what the runs returned, *)
(* up to the accounting in progress or cut (Accounted).  Calls and Progress add   *)
(* what is alive between two runs, and which runs the loop has behind it.  *)
(***************************************************************************)
EXTENDS Orchestrator, FiniteSetTheorems, TLAPS

Left == {"leave", "restore", "summarize", "exit", "done"}

Control ==
    /\ pc \in {"announce", "install"} \cup Body => exc = "none"
    /\ handlers = "default" => pc \notin {"install", "leave", "restore"} \cup Body
    /\ pc \in {"run", "tally", "score", "result"} => index <= Len(Selected)
    /\ pc # "done" => exit = NoExit
    /\ exc = "none" /\ exit # "terminated" => cut = {}
    /\ summary # NoSummary =>
         /\ pc \in {"exit", "done"}
         /\ \A c \in SelectedSet : summary[c] = stats[c]
    /\ pc \in {"exit", "done"} /\ summary = NoSummary => cut \cap Unprotected # {}
    /\ exit = "0" => summary # NoSummary
    /\ exit \in {"0", "1"} =>
         /\ exc # "interrupt"
         /\ exit = "1" <=> (exc = "error" \/ \E c \in Cores : Failed(c))

LastRun ==
    /\ pc = "run" /\ phase \in {"judged", "returned"} =>
         verdict \in Run!RunStatus /\ (verdict = "INTERRUPTED" => cancel)
    /\ pc \in {"tally", "score", "result"} =>
         Len(runs) > 0 /\ runs[Len(runs)].core = Selected[index] /\ runs[Len(runs)].status = verdict
    /\ pc \in {"tally", "score"} => verdict # "INTERRUPTED"
    /\ pc = "run" => ~Failed(Selected[index])

Final ==
    /\ late = 0 \/ (late = 1 /\ cancel /\ ~(pc = "run" /\ phase = "idle"))
    /\ \A i \in 1 .. Len(runs) :
         /\ runs[i].status = "INTERRUPTED" => i = Len(runs) /\ cancel /\ pc # "run"
         /\ StopsSession(runs[i].status) =>
              i = Len(runs) /\ pc \in {"tally", "score", "result"} \cup Left

Exact(c) ==
    /\ stats[c].passes + Owed(c, {"tally", "score"}, {"PASS"}) = RunsOf(c, {"PASS"})
    /\ stats[c].failed + Owed(c, {"tally", "score"}, Run!FailedStatuses) = RunsOf(c, Run!FailedStatuses)
    /\ stats[c].tallied + Owed(c, {"tally"}, Run!RunStatus)
         = RunsOf(c, {"PASS"}) + RunsOf(c, Run!FailedStatuses)

Accounted == \A c \in Cores : Exact(c)

IInv ==
    /\ TypeOK
    /\ Control
    /\ LastRun
    /\ Final
    /\ Accounted
    /\ FailureIsFinal

-----------------------------------------------------------------------------
(* Facts about the command lines and about counting runs *)

LEMMA OptionFacts ==
  ASSUME opts \in Options
  PROVE  /\ Selected \in Seq(Cores) /\ Len(Selected) \in Nat \ {0}
         /\ SelectedSet \subseteq Cores /\ SelectedSet # {}
         /\ \A i \in 1 .. Len(Selected) : Selected[i] \in SelectedSet
         /\ opts.mode \in {"off", "on", "cycle"} /\ opts.cycles \in Nat /\ opts.continue \in BOOLEAN
<1>1. opts.selected \in Seq(Cores) /\ Len(opts.selected) > 0
      /\ opts.mode \in {"off", "on", "cycle"} /\ opts.cycles \in Nat /\ opts.continue \in BOOLEAN
  BY OptionAssumption
<1>2. Len(opts.selected) \in Nat /\ \A i \in 1 .. Len(opts.selected) : opts.selected[i] \in Cores
  BY <1>1
<1>3. SelectedSet \subseteq Cores /\ \A i \in 1 .. Len(Selected) : Selected[i] \in SelectedSet
  BY <1>2 DEF Selected, SelectedSet
<1>4. 1 \in 1 .. Len(Selected)
  BY <1>1, <1>2 DEF Selected
<1>5. SelectedSet # {}
  BY <1>3, <1>4
<1>6. QED
  BY <1>1, <1>2, <1>3, <1>5 DEF Selected

LEMMA SummaryIsNot ==
  ASSUME opts \in Options, NEW f, f \in [SelectedSet -> Counts]
  PROVE  f # NoSummary
  BY OptionFacts DEF NoSummary

(* The number of runs of a core with one of the statuses, in any list of runs. *)
Count(q, c, statuses) == Cardinality({i \in 1 .. Len(q) : q[i].core = c /\ q[i].status \in statuses})

LEMMA CountIsFinite ==
  ASSUME NEW q \in Seq(Results), NEW c, NEW statuses
  PROVE  /\ IsFiniteSet({i \in 1 .. Len(q) : q[i].core = c /\ q[i].status \in statuses})
         /\ Count(q, c, statuses) \in Nat
         /\ Count(q, c, statuses) = 0 <=>
              \A i \in 1 .. Len(q) : ~(q[i].core = c /\ q[i].status \in statuses)
<1> DEFINE S == {i \in 1 .. Len(q) : q[i].core = c /\ q[i].status \in statuses}
<1>1. Len(q) \in Nat
  OBVIOUS
<1>2. IsFiniteSet(1 .. Len(q))
  BY <1>1, FS_Interval
<1>3. S \subseteq 1 .. Len(q)
  OBVIOUS
<1>4. IsFiniteSet(S)
  <2> HIDE DEF S
  <2> QED BY <1>2, <1>3, FS_Subset
<1>5. Cardinality(S) \in Nat /\ (Cardinality(S) = 0 <=> S = {})
  <2> HIDE DEF S
  <2> QED BY <1>4, FS_CardinalityType, FS_EmptySet
<1>6. S = {} <=> \A i \in 1 .. Len(q) : ~(q[i].core = c /\ q[i].status \in statuses)
  OBVIOUS
<1>7. QED
  BY <1>4, <1>5, <1>6 DEF Count

LEMMA CountAppend ==
  ASSUME NEW q \in Seq(Results), NEW r \in Results, NEW c, NEW statuses
  PROVE  Count(Append(q, r), c, statuses) =
           Count(q, c, statuses) + IF r.core = c /\ r.status \in statuses THEN 1 ELSE 0
<1> DEFINE S == {i \in 1 .. Len(q) : q[i].core = c /\ q[i].status \in statuses}
           new == Append(q, r)
           T == {i \in 1 .. Len(new) : new[i].core = c /\ new[i].status \in statuses}
<1>1. Len(q) \in Nat /\ Len(new) = Len(q) + 1 /\ new[Len(q) + 1] = r
      /\ \A i \in 1 .. Len(q) : new[i] = q[i]
  OBVIOUS
<1>2. T = IF r.core = c /\ r.status \in statuses THEN S \cup {Len(q) + 1} ELSE S
  <2> HIDE DEF new
  <2>1. 1 .. Len(new) = (1 .. Len(q)) \cup {Len(q) + 1}
    BY <1>1
  <2>2. \A i : i \in T <=> i \in S \/ (i = Len(q) + 1 /\ r.core = c /\ r.status \in statuses)
    BY <1>1, <2>1
  <2>3. QED
    BY <2>2
<1>3. Len(q) + 1 \notin S
  BY <1>1
<1>4. IsFiniteSet(S)
  BY CountIsFinite
<1>5. Cardinality(S \cup {Len(q) + 1}) = Cardinality(S) + 1
  <2> HIDE DEF S
  <2> QED BY <1>3, <1>4, FS_AddElement
<1>6. Cardinality(T) = Cardinality(S) + IF r.core = c /\ r.status \in statuses THEN 1 ELSE 0
  <2>1. Cardinality(S) \in Nat
    BY CountIsFinite DEF Count
  <2> HIDE DEF S, T
  <2>2. QED
    BY <1>2, <1>5, <2>1
<1>7. QED
  BY <1>6 DEF Count
-----------------------------------------------------------------------------
(* Type correctness *)

LEMMA InitType == Init => TypeOK
<1> SUFFICES ASSUME Init PROVE TypeOK
  OBVIOUS
<1>1. Len(Selected) \in Nat \ {0}
  BY OptionFacts DEF Init
<1>2. 1 \in 1 .. Len(Selected) + 1
  BY <1>1
<1>3. stats \in [Cores -> Counts]
  BY DEF Init, Counts
<1>4. Run!ContractTypeOK
  BY DEF Init, Run!ContractTypeOK, Run!Phases, Run!NoStatus
<1>5. QED
  BY <1>2, <1>3, <1>4 DEF Init, TypeOK, NoExit, Places, Body

(* The steps that move the main thread along and change nothing else that has a
   type of its own. *)
LEMMA MoveType ==
  ASSUME TypeOK, NEW next, Goto(next),
         next \in Places,
         cycle' \in Nat, index' \in 1 .. Len(Selected) + 1,
         UNCHANGED <<results, summary, exit, late, inRun>>,
         handlers' \in {"default", "own"}, exc' \in {"none", "error", "interrupt"}
  PROVE  TypeOK'
<1>1. opts' = opts /\ pc' = next /\ handling' = handling /\ signals' = signals /\ cut' = cut
  BY DEF Goto
<1>2. /\ stats' = stats /\ runs' = runs /\ summary' = summary /\ exit' = exit /\ late' = late
      /\ phase' = phase /\ alive' = alive /\ cancel' = cancel /\ verdict' = verdict
  BY DEF results, inRun
<1>3. Selected' = Selected /\ SelectedSet' = SelectedSet
  BY <1>1 DEF Selected, SelectedSet
<1>4. Run!ContractTypeOK'
  BY <1>2 DEF TypeOK, Run!ContractTypeOK
<1>5. QED
  BY <1>1, <1>2, <1>3, <1>4 DEF TypeOK

LEMMA ControlStepType ==
  ASSUME TypeOK, Control,
         \/ InstallHandlers \/ EnterSession \/ BeginCycle \/ StopCycles \/ StopCores \/ SkipCore
         \/ RunRaises \/ PresenterFails \/ CoreResult \/ EndCycle \/ LeaveMonitor \/ RestoreHandlers
  PROVE  TypeOK'
<1>0. /\ cycle \in Nat /\ index \in 1 .. Len(Selected) + 1 /\ Len(Selected) \in Nat \ {0}
      /\ handlers \in {"default", "own"} /\ exc \in {"none", "error", "interrupt"}
      /\ cycle + 1 \in Nat /\ 1 \in 1 .. Len(Selected) + 1
  BY OptionFacts DEF TypeOK
<1> USE DEF Places, Body
<1>1. CASE InstallHandlers
  <2>1. Goto("install") /\ UNCHANGED <<loop, results, exc, summary, exit, late, inRun>> /\ handlers' = "own"
    BY <1>1 DEF InstallHandlers
  <2>2. QED
    BY <2>1, <1>0, MoveType DEF loop
<1>2. CASE EnterSession \/ StopCycles \/ StopCores \/ LeaveMonitor
  <2>1. PICK next \in {"cycle", "leave", "restore"} :
          Goto(next) /\ UNCHANGED <<loop, results, ending, late, inRun>>
    BY <1>2 DEF EnterSession, StopCycles, StopCores, LeaveMonitor
  <2>2. QED
    BY <2>1, <1>0, MoveType DEF loop, ending
<1>3. CASE BeginCycle
  <2>1. Goto("core") /\ index' = 1 /\ UNCHANGED <<cycle, results, ending, late, inRun>>
    BY <1>3 DEF BeginCycle
  <2>2. QED
    BY <2>1, <1>0, MoveType DEF ending
<1>4. CASE SkipCore
  <2>1. /\ Goto("core") /\ index' = index + 1 /\ index <= Len(Selected)
        /\ UNCHANGED <<cycle, results, ending, late, inRun>>
    BY <1>4 DEF SkipCore
  <2>2. index + 1 \in 1 .. Len(Selected) + 1
    BY <2>1, <1>0
  <2>3. QED
    BY <2>1, <2>2, <1>0, MoveType DEF ending
<1>5. CASE RunRaises \/ PresenterFails
  <2>1. PICK next \in {"restore", "leave"} :
          Goto(next) /\ exc' = "error" /\ UNCHANGED <<loop, results, handlers, summary, exit, late, inRun>>
    BY <1>5 DEF RunRaises, PresenterFails
  <2>2. QED
    BY <2>1, <1>0, MoveType DEF loop
<1>6. CASE RestoreHandlers
  <2>1. /\ Goto("summarize") /\ handlers' = "default"
        /\ UNCHANGED <<loop, results, exc, summary, exit, late, inRun>>
    BY <1>6 DEF RestoreHandlers
  <2>2. QED
    BY <2>1, <1>0, MoveType DEF loop
<1>7. CASE EndCycle
  <2>1. PICK next \in {"leave", "cycle"} :
          /\ Goto(next) /\ cycle' \in {cycle, cycle + 1}
          /\ UNCHANGED <<index, results, ending, late, inRun>>
    BY <1>7 DEF EndCycle
  <2>2. QED
    BY <2>1, <1>0, MoveType DEF ending
<1>8. CASE CoreResult
  <2>1. PICK next \in {"leave", "core"} :
          /\ Goto(next) /\ index' \in {index, index + 1} /\ pc = "result"
          /\ UNCHANGED <<cycle, results, ending, late, inRun>>
    BY <1>8 DEF CoreResult
  <2>2. index' \in 1 .. Len(Selected) + 1
    BY <2>1, <1>0 DEF Control
  <2>3. QED
    BY <2>1, <2>2, <1>0, MoveType DEF ending
<1>9. QED
  BY <1>1, <1>2, <1>3, <1>4, <1>5, <1>6, <1>7, <1>8

LEMMA RunStepType ==
  ASSUME TypeOK, Control, LastRun,
         CheckCore \/ RunTest \/ EngineEnds \/ RunReturns
  PROVE  TypeOK'
<1>0. /\ index \in 1 .. Len(Selected) + 1 /\ Len(Selected) \in Nat \ {0} /\ Selected \in Seq(Cores)
      /\ Run!ContractTypeOK /\ late \in Nat /\ runs \in Seq(Results) /\ cycle \in Nat
      /\ opts.mode \in {"off", "on", "cycle"}
  BY OptionFacts DEF TypeOK
<1>1. CASE CheckCore
  <2>1. /\ opts' = opts /\ pc' = "run" /\ handling' = handling /\ signals' = signals /\ cut' = cut
        /\ UNCHANGED <<loop, results, ending, late>>
        /\ phase' = "idle" /\ verdict' = Run!NoStatus /\ alive' = alive /\ cancel' = cancel
    BY <1>1 DEF CheckCore, Goto
  <2>2. Run!ContractTypeOK'
    BY <1>0, <2>1 DEF Run!ContractTypeOK, Run!Phases, Run!NoStatus
  <2>3. QED
    BY <2>1, <2>2 DEF TypeOK, Places, Body, loop, results, ending, Selected, SelectedSet
<1>2. CASE RunTest \/ EngineEnds
  <2>1. UNCHANGED <<opts, pc, handling, signals, cut, loop, results, ending>>
    BY <1>2 DEF RunTest, EngineEnds
  <2>2. late' \in {late, late + 1}
    BY <1>2 DEF RunTest, EngineEnds
  <2>3. Run!ContractTypeOK'
    BY <1>2, <1>0 DEF RunTest, EngineEnds, Run!ContractTypeOK, Run!Phases, Run!NoStatus, Run!RunStatus,
       Run!Enter, Run!Launch, Run!Return, Run!Fail, Run!Judge, Run!ProcessesEnd
  <2>4. late' \in Nat
    BY <2>2, <1>0
  <2>5. QED
    BY <2>1, <2>3, <2>4 DEF TypeOK, loop, results, ending, Selected, SelectedSet
<1>3. CASE RunReturns
  <2>1. /\ opts' = opts /\ pc' \in {"result", "tally"} /\ handling' = handling /\ signals' = signals /\ cut' = cut
        /\ UNCHANGED <<loop, stats, ending, late, inRun>>
        /\ pc = "run" /\ phase = "returned"
    BY <1>3 DEF RunReturns, Goto
  <2>2. Selected[index] \in Cores /\ verdict \in Run!RunStatus
    BY <2>1, <1>0 DEF Control, LastRun
  <2>3. Engine(cycle) \in Nat /\ TestCpus(opts.mode, cycle) \in Cpus
    <3>1. Engine(cycle) \in Nat
      BY <1>0, EngineAssumption DEF Engine
    <3>2. TestCpus(opts.mode, cycle) \in Cpus
      BY DEF TestCpus, Cpus
    <3>3. QED
      BY <3>1, <3>2
  <2>4. runs' \in Seq(Results)
    BY <1>3, <2>2, <2>3, <1>0 DEF RunReturns, Results
  <2>5. Run!ContractTypeOK'
    BY <2>1, <1>0 DEF inRun, Run!ContractTypeOK
  <2>6. QED
    BY <2>1, <2>4, <2>5 DEF TypeOK, loop, ending, Selected, SelectedSet, Places, Body
<1>4. QED
  BY <1>1, <1>2, <1>3

LEMMA AccountStepType ==
  ASSUME TypeOK, Control, Tally \/ Score
  PROVE  TypeOK'
<1>1. /\ opts' = opts /\ pc' \in {"score", "result"} /\ handling' = handling /\ signals' = signals /\ cut' = cut
      /\ UNCHANGED <<loop, runs, ending, late, inRun>> /\ pc \in {"tally", "score"}
  BY DEF Tally, Score, Goto
<1>2. Selected[index] \in Cores
  <2>1. index \in 1 .. Len(Selected) /\ Selected \in Seq(Cores)
    BY <1>1, OptionFacts DEF TypeOK, Control
  <2>2. QED
    BY <2>1
<1>3. stats \in [Cores -> Counts]
  BY DEF TypeOK
<1>4. stats' \in [Cores -> Counts]
  <2>1. CASE Tally
    BY <2>1, <1>2, <1>3 DEF Tally, Counts
  <2>2. CASE Score
    BY <2>2, <1>2, <1>3 DEF Score, Counts
  <2>3. QED
    BY <2>1, <2>2
<1>5. Run!ContractTypeOK'
  BY <1>1 DEF inRun, TypeOK, Run!ContractTypeOK
<1>6. QED
  BY <1>1, <1>4, <1>5 DEF TypeOK, loop, ending, Selected, SelectedSet, Places, Body

LEMMA EndStepType ==
  ASSUME TypeOK, PrintSummary \/ SummaryFails \/ CloseLogFails \/ Exit
  PROVE  TypeOK'
<1>1. /\ opts' = opts /\ pc' \in {"exit", "done"} /\ handling' = handling /\ signals' = signals
      /\ cut' \in {cut, cut \cup {"summarize"}} /\ exc' \in {exc, "error"}
      /\ UNCHANGED <<loop, results, handlers, late, inRun>>
  BY DEF PrintSummary, SummaryFails, CloseLogFails, Exit, Goto
<1>2. SelectedSet \subseteq Cores /\ stats \in [Cores -> Counts]
  BY OptionFacts DEF TypeOK
<1>3. summary' \in [SelectedSet -> Counts] \cup {NoSummary} /\ exit' \in {NoExit, "0", "1", "130", "terminated"}
  <2>1. CASE PrintSummary
    <3>1. summary' = [c \in SelectedSet |-> stats[c]] /\ exit' = exit
      BY <2>1 DEF PrintSummary
    <3>2. QED
      BY <3>1, <1>2 DEF TypeOK
  <2>2. CASE SummaryFails \/ CloseLogFails \/ Exit
    <3>1. summary' = summary /\ exit' \in {exit, "0", "1", "130"}
      BY <2>2 DEF SummaryFails, CloseLogFails, Exit, ExitCode
    <3>2. QED
      BY <3>1 DEF TypeOK
  <2>3. QED
    BY <2>1, <2>2
<1>4. Run!ContractTypeOK'
  BY <1>1 DEF inRun, TypeOK, Run!ContractTypeOK
<1>5. cut' \in SUBSET Places /\ exc' \in {"none", "error", "interrupt"}
  BY <1>1 DEF TypeOK, Places
<1>6. QED
  BY <1>1, <1>3, <1>4, <1>5 DEF TypeOK, loop, results, Selected, SelectedSet, Places, Body

LEMMA HandlerStepType ==
  ASSUME TypeOK, HandlerStep
  PROVE  TypeOK'
<1> DEFINE Steps == {"checked", "locked", "flagged"}
<1>1. handling \in Seq(Steps) /\ handling # <<>>
  BY DEF TypeOK, HandlerStep
<1>2. Len(handling) \in Nat \ {0}
  BY <1>1
<1>3. \A p \in Steps : [handling EXCEPT ![Len(handling)] = p] \in Seq(Steps)
  BY <1>1, <1>2
<1>4. Front(handling) \in Seq(Steps)
  BY <1>1, <1>2 DEF Front
<1>5. handling' \in Seq(Steps)
  BY <1>3, <1>4 DEF HandlerStep
<1>6. cancel' \in BOOLEAN
  BY DEF HandlerStep, TypeOK, Run!ContractTypeOK
<1>7. UNCHANGED <<opts, pc, loop, results, ending, signals, late, cut, phase, alive, verdict>>
  BY DEF HandlerStep
<1>8. Run!ContractTypeOK'
  BY <1>6, <1>7 DEF TypeOK, Run!ContractTypeOK
<1>9. QED
  BY <1>5, <1>7, <1>8 DEF TypeOK, loop, results, ending, Selected, SelectedSet

LEMMA SignalType ==
  ASSUME TypeOK, Signal
  PROVE  TypeOK'
<1>1. UNCHANGED <<opts, loop, results, handlers, summary, late>> /\ signals' = signals + 1
  BY DEF Signal
<1>2. /\ pc' \in {pc, "leave", "restore", "exit", "done"}
      /\ exc' \in {exc, "interrupt"} /\ exit' \in {exit, "terminated"}
      /\ alive' = alive /\ cancel' = cancel /\ verdict' = verdict /\ phase' \in {phase, "raised"}
      /\ cut' \in {cut, cut \cup {pc}}
  <2>1. CASE BeginHandler
    BY <2>1 DEF BeginHandler, inRun
  <2>2. CASE SecondSignal
    BY <2>2 DEF SecondSignal, UnwindsTo, inRun, Run!AbortCall
  <2>3. CASE DefaultSignal
    BY <2>3 DEF DefaultSignal, inRun
  <2>4. QED
    BY <2>1, <2>2, <2>3 DEF Signal
<1>3. handling' \in Seq({"checked", "locked", "flagged"})
  <2>1. handling \in Seq({"checked", "locked", "flagged"})
    BY DEF TypeOK
  <2>2. handling' = handling \/ handling' = <<>> \/ handling' = Append(handling, "checked")
    BY DEF Signal, BeginHandler, SecondSignal, DefaultSignal
  <2>3. <<>> \in Seq({"checked", "locked", "flagged"})
        /\ Append(handling, "checked") \in Seq({"checked", "locked", "flagged"})
    BY <2>1
  <2>4. QED
    BY <2>1, <2>2, <2>3
<1>4. Run!ContractTypeOK'
  BY <1>2 DEF TypeOK, Run!ContractTypeOK, Run!Phases
<1>5. signals' \in Nat
  BY <1>1 DEF TypeOK
<1>6. cut' \in SUBSET Places /\ pc' \in Places
  BY <1>2 DEF TypeOK, Places
<1>7. QED
  BY <1>1, <1>2, <1>3, <1>4, <1>5, <1>6 DEF TypeOK, loop, results, Selected, SelectedSet

-----------------------------------------------------------------------------
(* Places, exceptions and results *)

LEMMA ControlMain ==
  ASSUME TypeOK, Control, MainStep \/ LogFails
  PROVE  Control'
<1> USE DEF Control, Goto, Body, loop, results, ending, inRun, Selected, SelectedSet, Failed
<1>1. CASE InstallHandlers \/ EnterSession
  BY <1>1 DEF InstallHandlers, EnterSession
<1>2. CASE BeginCycle \/ StopCycles
  BY <1>2 DEF BeginCycle, StopCycles
<1>3. CASE StopCores \/ SkipCore
  BY <1>3 DEF StopCores, SkipCore
<1>4. CASE CheckCore
  BY <1>4 DEF CheckCore
<1>5. CASE RunRaises \/ PresenterFails
  BY <1>5 DEF RunRaises, PresenterFails
<1>6. CASE RunReturns
  BY <1>6 DEF RunReturns
<1>7. CASE Tally \/ Score
  <2>1. /\ pc \in {"tally", "score"} /\ pc' \in {"score", "result"} /\ exit = NoExit
        /\ UNCHANGED <<opts, index, handlers, exc, summary, exit, cut>>
    BY <1>7 DEF Tally, Score
  <2>2. QED
    BY <2>1 DEF NoExit
<1>8. CASE CoreResult \/ EndCycle
  BY <1>8 DEF CoreResult, EndCycle
<1>9. CASE LeaveMonitor \/ RestoreHandlers
  BY <1>9 DEF LeaveMonitor, RestoreHandlers
<1>10. CASE PrintSummary
  <2>1. stats \in [Cores -> Counts] /\ SelectedSet \subseteq Cores
    BY OptionFacts DEF TypeOK
  <2>2. summary' # NoSummary
    <3>1. summary' \in [SelectedSet -> Counts]
      BY <2>1, <1>10 DEF PrintSummary
    <3>2. opts \in Options
      BY DEF TypeOK
    <3>3. QED
      BY <3>1, <3>2, SummaryIsNot
  <2>3. QED
    BY <2>2, <1>10 DEF PrintSummary, NoExit
<1>11. CASE Exit
  <2>1. /\ pc = "exit" /\ pc' = "done" /\ exit = NoExit /\ exit' = ExitCode
        /\ UNCHANGED <<opts, stats, index, handlers, exc, summary, cut>>
    BY <1>11 DEF Exit
  <2>2. exc = "none" => summary # NoSummary
    BY <2>1 DEF NoExit
  <2>3. exit' = "0" => exc = "none"
    BY <2>1 DEF ExitCode, TypeOK
  <2>4. exit' \in {"0", "1"} => exc # "interrupt" /\ (exit' = "1" <=> (exc = "error" \/ \E c \in Cores : Failed(c)))
    BY <2>1, Zenon DEF ExitCode
  <2>5. (\E c \in Cores : Failed(c))' <=> \E c \in Cores : Failed(c)
    BY <2>1
  <2>6. exit' # "terminated"
    BY <2>1 DEF ExitCode
  <2>7. exc = "none" => cut = {}
    BY <2>1 DEF NoExit
  <2>8. QED
    BY <2>1, <2>2, <2>3, <2>4, <2>5, <2>6, <2>7
<1>12. CASE SummaryFails \/ CloseLogFails
  BY <1>12 DEF SummaryFails, CloseLogFails, Unprotected, NoExit
<1>13. QED
  BY <1>1, <1>2, <1>3, <1>4, <1>5, <1>6, <1>7, <1>8, <1>9, <1>10, <1>11, <1>12 DEF MainStep, LogFails

LEMMA ControlOther ==
  ASSUME TypeOK, Control, RunTest \/ EngineEnds \/ HandlerStep \/ Signal
  PROVE  Control'
<1> USE DEF Control, Body, loop, results, ending, inRun, Selected, SelectedSet, Failed
<1>1. CASE RunTest \/ EngineEnds \/ HandlerStep
  <2>1. UNCHANGED <<opts, pc, loop, results, ending, cut>>
    BY <1>1 DEF RunTest, EngineEnds, HandlerStep
  <2>2. QED
    BY <2>1
<1>2. CASE Signal
  <2>1. UNCHANGED <<opts, loop, results, handlers, summary>> /\ pc # "done" /\ exit = NoExit
    BY <1>2 DEF Signal
  <2>2. CASE BeginHandler
    BY <2>1, <2>2 DEF BeginHandler
  <2>6. ASSUME cut' = cut \cup {pc}, pc' \in {"exit", "done"}, pc \notin Body \cup {"leave"}
        PROVE  summary = NoSummary => cut' \cap Unprotected # {}
    <3>1. CASE pc = "exit"
      BY <2>6, <3>1
    <3>2. CASE pc # "exit"
      <4>1. pc \in Unprotected
        BY <2>1, <2>6, <3>2 DEF TypeOK, Places, Unprotected
      <4>2. QED
        BY <2>6, <4>1
    <3>3. QED
      BY <3>1, <3>2
  <2>3. CASE SecondSignal
    <3>1. /\ cut' = cut \cup {pc} /\ exc' = "interrupt" /\ exit' = NoExit
          /\ pc' \in {"leave", "restore", "exit"} /\ handlers = "own"
          /\ pc' = "exit" => pc \notin Body \cup {"leave"}
      BY <2>1, <2>3 DEF SecondSignal, UnwindsTo
    <3>2. pc' = "exit" /\ summary = NoSummary => cut' \cap Unprotected # {}
      BY <2>6, <3>1
    <3>3. pc' = "exit" \/ summary = NoSummary
      BY <2>1, <2>3 DEF SecondSignal, UnwindsTo
    <3>4. QED
      BY <2>1, <3>1, <3>2, <3>3 DEF NoExit
  <2>4. CASE DefaultSignal
    <3>1. /\ cut' = cut \cup {pc} /\ handlers = "default"
          /\ \/ pc' = "exit" /\ exc' = "interrupt" /\ exit' = NoExit
             \/ pc' = "done" /\ exc' = exc /\ exit' = "terminated"
      BY <2>1, <2>4 DEF DefaultSignal
    <3>2. summary = NoSummary => cut' \cap Unprotected # {}
      BY <2>6, <3>1
    <3>3. QED
      BY <2>1, <3>1, <3>2 DEF NoExit
  <2>5. QED
    BY <1>2, <2>2, <2>3, <2>4 DEF Signal
<1>3. QED
  BY <1>1, <1>2

-----------------------------------------------------------------------------
(* The run in progress and the last run *)

LEMMA LastRunMain ==
  ASSUME TypeOK, Control, LastRun, MainStep \/ LogFails
  PROVE  LastRun'
<1> USE DEF LastRun, Goto, Body, loop, results, ending, inRun, Selected, Failed
<1>1. CASE InstallHandlers \/ EnterSession
  BY <1>1 DEF InstallHandlers, EnterSession
<1>2. CASE BeginCycle \/ StopCycles
  BY <1>2 DEF BeginCycle, StopCycles
<1>3. CASE StopCores \/ SkipCore
  BY <1>3 DEF StopCores, SkipCore
<1>4. CASE CheckCore
  BY <1>4 DEF CheckCore, MayTest
<1>5. CASE RunRaises \/ PresenterFails
  BY <1>5 DEF RunRaises, PresenterFails
<1>6. CASE RunReturns
  <2>1. /\ runs \in Seq(Results) /\ runs' = Append(runs, [core |-> Selected[index], cycle |-> cycle,
             engine |-> Engine(cycle), cpus |-> TestCpus(opts.mode, cycle), status |-> verdict])
    BY <1>6 DEF RunReturns, TypeOK
  <2>2. /\ Len(runs') > 0 /\ runs'[Len(runs')].core = Selected[index]
        /\ runs'[Len(runs')].status = verdict
    BY <2>1
  <2>3. /\ UNCHANGED <<opts, index, verdict>> /\ pc' \in {"result", "tally"}
        /\ pc' = "tally" => verdict # "INTERRUPTED"
    BY <1>6 DEF RunReturns
  <2>4. QED
    BY <2>2, <2>3
<1>7. CASE Tally \/ Score
  BY <1>7 DEF Tally, Score
<1>8. CASE CoreResult \/ EndCycle
  BY <1>8 DEF CoreResult, EndCycle
<1>9. CASE LeaveMonitor \/ RestoreHandlers \/ PrintSummary \/ SummaryFails \/ CloseLogFails \/ Exit
  BY <1>9 DEF LeaveMonitor, RestoreHandlers, PrintSummary, SummaryFails, CloseLogFails, Exit
<1>10. QED
  BY <1>1, <1>2, <1>3, <1>4, <1>5, <1>6, <1>7, <1>8, <1>9 DEF MainStep, LogFails

LEMMA LastRunOther ==
  ASSUME TypeOK, Control, LastRun, RunTest \/ EngineEnds \/ HandlerStep \/ Signal
  PROVE  LastRun'
<1> USE DEF LastRun, Body, loop, results, ending, inRun, Selected, Failed
<1>1. CASE RunTest
  <2>1. UNCHANGED <<opts, pc, loop, results>> /\ pc = "run"
    BY <1>1 DEF RunTest
  <2>2. phase' \in {"judged", "returned"} => verdict' \in Run!RunStatus /\ (verdict' = "INTERRUPTED" => cancel')
    BY <1>1, <2>1 DEF RunTest, Run!Enter, Run!Launch, Run!Return, Run!Fail, Run!Judge
  <2>3. QED
    BY <2>1, <2>2
<1>2. CASE EngineEnds
  BY <1>2 DEF EngineEnds, Run!ProcessesEnd
<1>3. CASE HandlerStep
  BY <1>3 DEF HandlerStep
<1>4. CASE Signal
  <2>1. UNCHANGED <<opts, loop, results>>
    BY <1>4 DEF Signal
  <2>2. CASE BeginHandler
    BY <2>1, <2>2 DEF BeginHandler
  <2>3. CASE SecondSignal
    BY <2>1, <2>3 DEF SecondSignal, UnwindsTo
  <2>4. CASE DefaultSignal
    BY <2>1, <2>4 DEF DefaultSignal
  <2>5. QED
    BY <1>4, <2>2, <2>3, <2>4 DEF Signal
<1>5. QED
  BY <1>1, <1>2, <1>3, <1>4
-----------------------------------------------------------------------------
(* Requests and failures that end the session *)

LEMMA FinalMain ==
  ASSUME TypeOK, Control, LastRun, Final, MainStep \/ LogFails
  PROVE  Final'
<1> USE DEF Goto, Body, Left, loop, results, ending, inRun, StopsSession
<1>1. CASE \/ InstallHandlers \/ EnterSession \/ BeginCycle \/ StopCycles \/ StopCores \/ SkipCore
           \/ EndCycle \/ LeaveMonitor \/ RestoreHandlers \/ PrintSummary \/ Exit
           \/ RunRaises \/ LogFails \/ Tally \/ Score
  <2>1. UNCHANGED <<opts, runs, late, cancel, phase>> /\ pc' # "run"
    BY <1>1 DEF InstallHandlers, EnterSession, BeginCycle, StopCycles, StopCores, SkipCore, EndCycle,
       LeaveMonitor, RestoreHandlers, PrintSummary, Exit, RunRaises, LogFails, PresenterFails, SummaryFails, CloseLogFails, Tally, Score
  <2>2. pc \in {"tally", "score", "result"} \cup Left => pc' \in {"tally", "score", "result"} \cup Left
    BY <1>1 DEF InstallHandlers, EnterSession, BeginCycle, StopCycles, StopCores, SkipCore, EndCycle,
       LeaveMonitor, RestoreHandlers, PrintSummary, Exit, RunRaises, LogFails, PresenterFails, SummaryFails, CloseLogFails, Tally, Score
  <2>3. QED
    BY <2>1, <2>2 DEF Final
<1>2. CASE CheckCore
  <2>1. UNCHANGED <<opts, runs, late, cancel>> /\ pc = "core" /\ ~cancel
    BY <1>2 DEF CheckCore, LeavesCores
  <2>2. late = 0 /\ \A i \in 1 .. Len(runs) : runs[i].status # "INTERRUPTED" /\ ~StopsSession(runs[i].status)
    BY <2>1 DEF Final
  <2>3. QED
    BY <2>1, <2>2 DEF Final
<1>3. CASE RunReturns
  <2>1. /\ UNCHANGED <<opts, late, cancel>> /\ pc = "run" /\ phase = "returned" /\ pc' \in {"tally", "result"}
        /\ runs \in Seq(Results)
    BY <1>3 DEF RunReturns, TypeOK
  <2>2. \A i \in 1 .. Len(runs) : runs[i].status # "INTERRUPTED" /\ ~StopsSession(runs[i].status)
    BY <2>1 DEF Final
  <2>3. /\ Len(runs') = Len(runs) + 1 /\ Len(runs) \in Nat
        /\ \A i \in 1 .. Len(runs) : runs'[i] = runs[i]
        /\ runs'[Len(runs) + 1].status = verdict
    BY <1>3, <2>1 DEF RunReturns
  <2>4. verdict = "INTERRUPTED" => cancel
    BY <2>1 DEF LastRun
  <2>5. late = 0 \/ (late = 1 /\ cancel)
    BY DEF Final
  <2>6. ASSUME NEW i \in 1 .. Len(runs')
        PROVE  /\ runs'[i].status = "INTERRUPTED" => i = Len(runs') /\ cancel
               /\ StopsSession(runs'[i].status) => i = Len(runs')
    <3>1. i \in 1 .. Len(runs) \/ i = Len(runs) + 1
      BY <2>3
    <3>2. QED
      BY <3>1, <2>2, <2>3, <2>4
  <2>7. QED
    BY <2>1, <2>5, <2>6 DEF Final
<1>4. CASE CoreResult
  <2>1. /\ UNCHANGED <<opts, runs, late, cancel>> /\ pc = "result" /\ pc' \in {"leave", "core"}
        /\ StopsSession(verdict) => pc' = "leave"
    BY <1>4 DEF CoreResult
  <2>2. runs[Len(runs)].status = verdict
    BY <2>1 DEF LastRun
  <2>3. QED
    BY <2>1, <2>2 DEF Final
<1>5. QED
  BY <1>1, <1>2, <1>3, <1>4 DEF MainStep

LEMMA FinalOther ==
  ASSUME TypeOK, Control, LastRun, Final, RunTest \/ EngineEnds \/ HandlerStep \/ Signal
  PROVE  Final'
<1> USE DEF Body, Left, loop, results, ending, inRun, StopsSession
<1>1. CASE RunTest
  <2>1. UNCHANGED <<opts, pc, loop, results, cancel>> /\ pc = "run"
    BY <1>1 DEF RunTest, Run!Enter, Run!Launch, Run!Return, Run!Fail, Run!Judge
  <2>2. \/ late' = late /\ phase' # "idle"
        \/ phase = "idle" /\ phase' = "ready" /\ late' = IF cancel THEN late + 1 ELSE late
    BY <1>1 DEF RunTest, Run!Enter, Run!Launch, Run!Return, Run!Fail, Run!Judge
  <2>3. late' = 0 \/ (late' = 1 /\ cancel' /\ ~(pc' = "run" /\ phase' = "idle"))
    BY <2>1, <2>2 DEF Final
  <2>4. QED
    BY <2>1, <2>3 DEF Final
<1>2. CASE EngineEnds
  BY <1>2 DEF EngineEnds, Run!ProcessesEnd, Final
<1>3. CASE HandlerStep
  <2>1. UNCHANGED <<opts, pc, runs, late, phase>> /\ (cancel => cancel')
    BY <1>3 DEF HandlerStep
  <2>2. QED
    BY <2>1 DEF Final
<1>4. CASE Signal
  <2>1. UNCHANGED <<opts, runs, late, cancel>> /\ ((pc' = pc /\ phase' = phase) \/ pc' \in Left)
    <3>1. UNCHANGED <<opts, loop, results, late>>
      BY <1>4 DEF Signal
    <3>2. CASE BeginHandler
      BY <3>1, <3>2 DEF BeginHandler
    <3>3. CASE SecondSignal
      BY <3>1, <3>3 DEF SecondSignal, UnwindsTo, Run!AbortCall
    <3>4. CASE DefaultSignal
      BY <3>1, <3>4 DEF DefaultSignal
    <3>5. QED
      BY <1>4, <3>2, <3>3, <3>4 DEF Signal
  <2>2. QED
    BY <2>1 DEF Final
<1>5. QED
  BY <1>1, <1>2, <1>3, <1>4
-----------------------------------------------------------------------------
(* The statistics and the runs *)

LEMMA CountTypes ==
  ASSUME TypeOK, NEW c, NEW statuses
  PROVE  /\ RunsOf(c, statuses) \in Nat
         /\ RunsOf(c, statuses) = 0 <=>
              \A i \in 1 .. Len(runs) : ~(runs[i].core = c /\ runs[i].status \in statuses)
<1>1. RunsOf(c, statuses) = Count(runs, c, statuses)
  BY DEF RunsOf, Count
<1>2. runs \in Seq(Results)
  BY DEF TypeOK
<1>3. /\ Count(runs, c, statuses) \in Nat
      /\ Count(runs, c, statuses) = 0 <=>
           \A i \in 1 .. Len(runs) : ~(runs[i].core = c /\ runs[i].status \in statuses)
  BY <1>2, CountIsFinite, Zenon
<1>4. QED
  BY <1>1, <1>3, Zenon

LEMMA StatsTypes ==
  ASSUME TypeOK, NEW c \in Cores
  PROVE  stats[c].tallied \in Nat /\ stats[c].passes \in Nat /\ stats[c].failed \in Nat
  BY DEF TypeOK, Counts

Accounting == {"tally", "score"}

(* What is owed depends on the last run and on where its accounting is or was cut. *)
LEMMA OwedKept ==
  ASSUME runs' = runs, Accounting \cap (cut' \cup {pc'}) = Accounting \cap (cut \cup {pc}),
         NEW c, NEW statuses
  PROVE  /\ Owed(c, {"tally", "score"}, statuses)' = Owed(c, {"tally", "score"}, statuses)
         /\ Owed(c, {"tally"}, statuses)' = Owed(c, {"tally"}, statuses)
<1>1. \A place : place \in {"tally", "score"} => (place \in cut' \cup {pc'} <=> place \in cut \cup {pc})
  BY DEF Accounting
<1>2. {"tally", "score"} \cap (cut' \cup {pc'}) # {} <=> {"tally", "score"} \cap (cut \cup {pc}) # {}
  BY <1>1
<1>3. {"tally"} \cap (cut' \cup {pc'}) # {} <=> {"tally"} \cap (cut \cup {pc}) # {}
  BY <1>1
<1>4. QED
  BY <1>2, <1>3 DEF Owed

(* Nothing is counted or returned; an accounting in progress may be cut. *)
LEMMA AccountedKept ==
  ASSUME Accounted, UNCHANGED <<runs, stats>>,
         Accounting \cap (cut' \cup {pc'}) = Accounting \cap (cut \cup {pc})
  PROVE  Accounted'
<1>1. \A c, statuses : RunsOf(c, statuses)' = RunsOf(c, statuses)
  BY DEF RunsOf
<1>2. \A c, statuses : /\ Owed(c, {"tally", "score"}, statuses)' = Owed(c, {"tally", "score"}, statuses)
                       /\ Owed(c, {"tally"}, statuses)' = Owed(c, {"tally"}, statuses)
  BY OwedKept
<1>3. \A c : Exact(c)' = Exact(c)
  BY <1>1, <1>2 DEF Exact
<1>4. QED
  BY <1>3 DEF Accounted

(* Where the loop is, nothing was cut: the last run is owed while it is accounted. *)
LEMMA OwedInBody ==
  ASSUME Control, pc \in Body, NEW c, NEW statuses
  PROVE  /\ Owed(c, {"tally", "score"}, statuses) =
              IF pc \in {"tally", "score"} /\ Last(runs).core = c /\ Last(runs).status \in statuses THEN 1 ELSE 0
         /\ Owed(c, {"tally"}, statuses) =
              IF pc = "tally" /\ Last(runs).core = c /\ Last(runs).status \in statuses THEN 1 ELSE 0
<1>1. cut \cup {pc} = {pc}
  BY DEF Control, Body, NoExit
<1>2. {"tally", "score"} \cap {pc} # {} <=> pc \in {"tally", "score"}
  OBVIOUS
<1>3. {"tally"} \cap {pc} # {} <=> pc = "tally"
  OBVIOUS
<1>4. QED
  BY <1>1, <1>2, <1>3 DEF Owed

LEMMA AccountedReturns ==
  ASSUME TypeOK, Control, LastRun, Accounted, RunReturns
  PROVE  Accounted'
<1> SUFFICES ASSUME NEW c \in Cores
             PROVE  Exact(c)'
  BY DEF Accounted
<1> DEFINE r == [core |-> Selected[index], cycle |-> cycle, engine |-> Engine(cycle),
                 cpus |-> TestCpus(opts.mode, cycle), status |-> verdict]
<1>1. /\ pc = "run" /\ phase = "returned" /\ runs' = Append(runs, r)
      /\ pc' = IF verdict = "INTERRUPTED" THEN "result" ELSE "tally"
      /\ UNCHANGED <<opts, index, stats, exc, verdict>>
  BY DEF RunReturns, Goto, loop, ending, inRun
<1>2. exc = "none" /\ verdict \in Run!RunStatus
  BY <1>1 DEF Control, LastRun, Body
<1>3. r \in Results /\ runs \in Seq(Results)
  <2>1. Selected[index] \in Cores /\ cycle \in Nat
    BY <1>1, OptionFacts DEF TypeOK, Control
  <2>2. Engine(cycle) \in Nat
    BY <2>1, EngineAssumption DEF Engine
  <2>3. TestCpus(opts.mode, cycle) \in Cpus
    BY DEF TestCpus, Cpus
  <2>4. QED
    BY <2>1, <2>2, <2>3, <1>2 DEF Results, TypeOK
<1>4. r.core = Selected[index] /\ r.status = verdict /\ Selected' = Selected
  BY <1>1 DEF Selected
<1> HIDE DEF r
<1>5. \A statuses : RunsOf(c, statuses)' =
        RunsOf(c, statuses) + IF r.core = c /\ r.status \in statuses THEN 1 ELSE 0
  <2> TAKE statuses
  <2>1. RunsOf(c, statuses) = Count(runs, c, statuses) /\ RunsOf(c, statuses)' = Count(runs', c, statuses)
    BY DEF RunsOf, Count
  <2>2. Count(runs', c, statuses) = Count(runs, c, statuses) + IF r.core = c /\ r.status \in statuses THEN 1 ELSE 0
    BY <1>1, <1>3, CountAppend
  <2>3. QED
    BY <2>1, <2>2
<1>6. /\ RunsOf(c, {"PASS"}) \in Nat /\ RunsOf(c, Run!FailedStatuses) \in Nat
      /\ stats[c].tallied \in Nat /\ stats[c].passes \in Nat /\ stats[c].failed \in Nat
  BY CountTypes, StatsTypes
<1>7. Exact(c)
  BY DEF Accounted
<1>8. /\ stats[c].passes = RunsOf(c, {"PASS"}) /\ stats[c].failed = RunsOf(c, Run!FailedStatuses)
      /\ stats[c].tallied = RunsOf(c, {"PASS"}) + RunsOf(c, Run!FailedStatuses)
  <2>1. /\ Owed(c, {"tally", "score"}, {"PASS"}) = 0 /\ Owed(c, {"tally", "score"}, Run!FailedStatuses) = 0
        /\ Owed(c, {"tally"}, Run!RunStatus) = 0
    BY <1>1, OwedInBody DEF Body
  <2>2. QED
    BY <1>6, <1>7, <2>1 DEF Exact
<1>12. /\ Last(runs').core = Selected[index] /\ Last(runs').status = verdict
  <2>1. Len(runs') = Len(runs) + 1 /\ runs'[Len(runs) + 1] = r
    BY <1>1, <1>3
  <2>2. QED
    BY <1>4, <2>1 DEF Last
<1>13. \A statuses :
         /\ Owed(c, {"tally", "score"}, statuses)' =
              IF pc' = "tally" /\ Selected[index] = c /\ verdict \in statuses THEN 1 ELSE 0
         /\ Owed(c, {"tally"}, statuses)' =
              IF pc' = "tally" /\ Selected[index] = c /\ verdict \in statuses THEN 1 ELSE 0
  <2> TAKE statuses
  <2>1. pc' \in {"tally", "result"} /\ cut' = {}
    BY <1>1, <1>2 DEF RunReturns, Goto, Control, Body, NoExit
  <2>2. {"tally", "score"} \cap (cut' \cup {pc'}) # {} <=> pc' = "tally"
    BY <2>1
  <2>3. {"tally"} \cap (cut' \cup {pc'}) # {} <=> pc' = "tally"
    BY <2>1
  <2>4. QED
    BY <1>12, <2>2, <2>3 DEF Owed
<1>9. CASE verdict = "INTERRUPTED" \/ Selected[index] # c
  <2>1. verdict = "INTERRUPTED" => verdict \notin {"PASS"} \cup Run!FailedStatuses
    BY DEF Run!FailedStatuses
  <2>2. UNCHANGED <<RunsOf(c, {"PASS"}), RunsOf(c, Run!FailedStatuses)>>
    BY <1>4, <1>5, <1>6, <1>9, <2>1
  <2>3. \A statuses : Owed(c, {"tally", "score"}, statuses)' = 0 /\ Owed(c, {"tally"}, statuses)' = 0
    BY <1>1, <1>9, <1>13
  <2>4. QED
    BY <1>1, <1>2, <1>6, <1>8, <2>2, <2>3 DEF Exact
<1>10. CASE verdict # "INTERRUPTED" /\ Selected[index] = c
  <2>1. pc' = "tally"
    BY <1>1, <1>10
  <2>2. verdict \in Run!RunStatus /\ verdict \in {"PASS"} \cup Run!FailedStatuses
    BY <1>2, <1>10 DEF Run!RunStatus
  <2>3. CASE verdict = "PASS"
    <3>1. /\ Owed(c, {"tally", "score"}, {"PASS"})' = 1 /\ Owed(c, {"tally", "score"}, Run!FailedStatuses)' = 0
          /\ Owed(c, {"tally"}, Run!RunStatus)' = 1
      BY <1>10, <1>13, <2>1, <2>2, <2>3 DEF Run!FailedStatuses
    <3>2. /\ RunsOf(c, {"PASS"})' = RunsOf(c, {"PASS"}) + 1
          /\ RunsOf(c, Run!FailedStatuses)' = RunsOf(c, Run!FailedStatuses)
      BY <1>4, <1>5, <1>6, <1>10, <2>3 DEF Run!FailedStatuses
    <3>3. QED
      BY <1>1, <1>2, <1>6, <1>8, <3>1, <3>2 DEF Exact
  <2>4. CASE verdict \in Run!FailedStatuses
    <3>1. /\ Owed(c, {"tally", "score"}, {"PASS"})' = 0 /\ Owed(c, {"tally", "score"}, Run!FailedStatuses)' = 1
          /\ Owed(c, {"tally"}, Run!RunStatus)' = 1
      BY <1>10, <1>13, <2>1, <2>2, <2>4 DEF Run!FailedStatuses
    <3>2. /\ RunsOf(c, {"PASS"})' = RunsOf(c, {"PASS"})
          /\ RunsOf(c, Run!FailedStatuses)' = RunsOf(c, Run!FailedStatuses) + 1
      BY <1>4, <1>5, <1>6, <1>10, <2>4 DEF Run!FailedStatuses
    <3>3. QED
      BY <1>1, <1>2, <1>6, <1>8, <3>1, <3>2 DEF Exact
  <2>5. QED
    BY <2>2, <2>3, <2>4
<1>11. QED
  BY <1>9, <1>10

LEMMA AccountedCounts ==
  ASSUME TypeOK, Control, LastRun, Accounted, Tally \/ Score
  PROVE  Accounted'
<1> SUFFICES ASSUME NEW c \in Cores
             PROVE  Exact(c)'
  BY DEF Accounted
<1>1. /\ pc \in {"tally", "score"} /\ UNCHANGED <<opts, index, runs, exc, verdict, cut>>
      /\ cut = {}
  BY DEF Tally, Score, Goto, loop, ending, inRun, Control, Body, NoExit
<1>2. Selected[index] \in Cores /\ Last(runs).core = Selected[index] /\ Last(runs).status = verdict
  BY <1>1, OptionFacts DEF TypeOK, Control, LastRun, Last
<1>3. \A statuses : RunsOf(c, statuses)' = RunsOf(c, statuses)
  BY <1>1 DEF RunsOf
<1>4. /\ RunsOf(c, {"PASS"}) \in Nat /\ RunsOf(c, Run!FailedStatuses) \in Nat
      /\ stats[c].tallied \in Nat /\ stats[c].passes \in Nat /\ stats[c].failed \in Nat
  BY CountTypes, StatsTypes
<1>5. verdict \in {"PASS"} \cup Run!FailedStatuses /\ verdict \in Run!RunStatus
  <2>1. Len(runs) > 0 /\ runs[Len(runs)].status = verdict /\ verdict # "INTERRUPTED"
    BY <1>1 DEF LastRun
  <2>2. runs[Len(runs)] \in Results
    BY <2>1 DEF TypeOK
  <2>3. QED
    BY <2>1, <2>2 DEF Results, Run!RunStatus
<1>6. Exact(c)
  BY DEF Accounted
<1>7. stats \in [Cores -> Counts]
  BY DEF TypeOK
<1>12. \A statuses :
         /\ Owed(c, {"tally", "score"}, statuses) = IF Selected[index] = c /\ verdict \in statuses THEN 1 ELSE 0
         /\ Owed(c, {"tally"}, statuses) =
              IF pc = "tally" /\ Selected[index] = c /\ verdict \in statuses THEN 1 ELSE 0
  BY <1>1, <1>2, OwedInBody DEF Body
<1>13. \A statuses :
         /\ Owed(c, {"tally", "score"}, statuses)' =
              IF pc' = "score" /\ Selected[index] = c /\ verdict \in statuses THEN 1 ELSE 0
         /\ Owed(c, {"tally"}, statuses)' = 0
  <2> TAKE statuses
  <2>1. pc' \in {"score", "result"} /\ cut' = {} /\ runs' = runs
    BY <1>1 DEF Tally, Score, Goto
  <2>2. {"tally", "score"} \cap (cut' \cup {pc'}) # {} <=> pc' = "score"
    BY <2>1
  <2>3. ~({"tally"} \cap (cut' \cup {pc'}) # {})
    BY <2>1
  <2>4. QED
    BY <1>2, <2>1, <2>2, <2>3 DEF Owed
<1>8. CASE Selected[index] # c
  <2>1. stats'[c] = stats[c]
    BY <1>2, <1>7, <1>8 DEF Tally, Score
  <2>2. \A statuses : /\ Owed(c, {"tally", "score"}, statuses) = 0 /\ Owed(c, {"tally", "score"}, statuses)' = 0
                      /\ Owed(c, {"tally"}, statuses) = 0 /\ Owed(c, {"tally"}, statuses)' = 0
    BY <1>8, <1>12, <1>13
  <2>3. QED
    BY <1>1, <1>3, <1>4, <1>6, <2>1, <2>2 DEF Exact
<1>9. CASE Tally /\ Selected[index] = c
  <2>1. /\ stats'[c].tallied = stats[c].tallied + 1
        /\ stats'[c].passes = stats[c].passes /\ stats'[c].failed = stats[c].failed
        /\ pc = "tally" /\ pc' = "score"
    BY <1>2, <1>7, <1>9 DEF Tally, Counts, Goto
  <2>2. /\ Owed(c, {"tally"}, Run!RunStatus) = 1 /\ Owed(c, {"tally"}, Run!RunStatus)' = 0
        /\ \A statuses : Owed(c, {"tally", "score"}, statuses)' = Owed(c, {"tally", "score"}, statuses)
    BY <1>5, <1>9, <1>12, <1>13, <2>1
  <2>3. QED
    BY <1>1, <1>3, <1>4, <1>6, <2>1, <2>2 DEF Exact
<1>10. CASE Score /\ Selected[index] = c
  <2>0. pc = "score" /\ pc' = "result" /\ stats'[c].tallied = stats[c].tallied
    BY <1>2, <1>7, <1>10 DEF Score, Counts, Goto
  <2>1. /\ Owed(c, {"tally"}, Run!RunStatus) = 0 /\ Owed(c, {"tally"}, Run!RunStatus)' = 0
        /\ \A statuses : Owed(c, {"tally", "score"}, statuses)' = 0
    BY <1>12, <1>13, <2>0
  <2>2. CASE verdict = "PASS"
    <3>1. stats'[c].passes = stats[c].passes + 1 /\ stats'[c].failed = stats[c].failed
      BY <1>2, <1>7, <1>10, <2>2 DEF Score, Counts
    <3>2. /\ Owed(c, {"tally", "score"}, {"PASS"}) = 1
          /\ Owed(c, {"tally", "score"}, Run!FailedStatuses) = 0
      BY <1>10, <1>12, <2>2 DEF Run!FailedStatuses
    <3>3. QED
      BY <1>1, <1>3, <1>4, <1>6, <2>0, <2>1, <3>1, <3>2 DEF Exact
  <2>3. CASE verdict \in Run!FailedStatuses
    <3>1. stats'[c].passes = stats[c].passes /\ stats'[c].failed = stats[c].failed + 1
      BY <1>2, <1>7, <1>10, <2>3 DEF Score, Counts, Run!FailedStatuses
    <3>2. /\ Owed(c, {"tally", "score"}, {"PASS"}) = 0
          /\ Owed(c, {"tally", "score"}, Run!FailedStatuses) = 1
      BY <1>10, <1>12, <2>3 DEF Run!FailedStatuses
    <3>3. QED
      BY <1>1, <1>3, <1>4, <1>6, <2>0, <2>1, <3>1, <3>2 DEF Exact
  <2>4. QED
    BY <1>5, <2>2, <2>3
<1>11. QED
  BY <1>8, <1>9, <1>10

LEMMA AccountedMain ==
  ASSUME TypeOK, Control, LastRun, Accounted, MainStep \/ LogFails
  PROVE  Accounted'
<1>1. CASE RunReturns
  BY <1>1, AccountedReturns
<1>2. CASE Tally \/ Score
  BY <1>2, AccountedCounts
<1>3. CASE \/ InstallHandlers \/ EnterSession \/ BeginCycle \/ StopCycles \/ StopCores \/ SkipCore
           \/ CheckCore \/ CoreResult \/ EndCycle \/ LeaveMonitor \/ RestoreHandlers \/ PrintSummary \/ Exit
           \/ RunRaises \/ LogFails
  <2>1. /\ UNCHANGED <<runs, stats>> /\ pc \notin Accounting /\ pc' \notin Accounting
        /\ cut' \in {cut, cut \cup {"summarize"}}
    BY <1>3 DEF InstallHandlers, EnterSession, BeginCycle, StopCycles, StopCores, SkipCore, CheckCore,
       CoreResult, EndCycle, LeaveMonitor, RestoreHandlers, PrintSummary, Exit, RunRaises, LogFails, PresenterFails,
       SummaryFails, CloseLogFails, Goto, results, Accounting
  <2>2. Accounting \cap (cut' \cup {pc'}) = Accounting \cap (cut \cup {pc})
    BY <2>1 DEF Accounting
  <2>3. QED
    BY <2>1, <2>2, AccountedKept
<1>4. QED
  BY <1>1, <1>2, <1>3 DEF MainStep

(* A second signal while a run is accounted leaves it owed. *)
LEMMA AccountedOther ==
  ASSUME Accounted, RunTest \/ EngineEnds \/ HandlerStep \/ Signal
  PROVE  Accounted'
<1>1. UNCHANGED <<runs, stats>>
  BY DEF RunTest, EngineEnds, HandlerStep, Signal, results
<1>2. \/ UNCHANGED <<pc, cut>>
      \/ pc' \notin Accounting /\ cut' = cut \cup {pc}
  BY DEF RunTest, EngineEnds, HandlerStep, Signal, BeginHandler, SecondSignal, DefaultSignal, UnwindsTo, Accounting
<1>3. Accounting \cap (cut' \cup {pc'}) = Accounting \cap (cut \cup {pc})
  <2>1. CASE UNCHANGED <<pc, cut>>
    BY <2>1
  <2>2. CASE pc' \notin Accounting /\ cut' = cut \cup {pc}
    BY <2>2
  <2>3. QED
    BY <1>2, <2>1, <2>2
<1>4. QED
  BY <1>1, <1>3, AccountedKept

-----------------------------------------------------------------------------
(* The invariant *)

LEMMA FailureStep ==
  ASSUME IInv, [Next]_vars
  PROVE  FailureIsFinal'
<1>1. CASE RunReturns
  <2> DEFINE r == [core |-> Selected[index], cycle |-> cycle, engine |-> Engine(cycle),
                   cpus |-> TestCpus(opts.mode, cycle), status |-> verdict]
             sel == Selected[index]
  <2>1. pc = "run" /\ runs' = Append(runs, r) /\ runs \in Seq(Results)
    BY <1>1 DEF RunReturns, IInv, TypeOK
  <2>2. sel \in Cores
    BY <2>1, OptionFacts DEF IInv, TypeOK, Control
  <2>3. stats[sel].failed = 0
    <3>1. stats[sel].failed \in Nat
      BY <2>2, StatsTypes DEF IInv
    <3>2. ~(stats[sel].failed > 0)
      BY <2>1 DEF IInv, LastRun, Failed
    <3>3. QED
      BY <3>1, <3>2
  <2>4. RunsOf(sel, Run!FailedStatuses) = 0
    <3>1. Exact(sel)
      BY <2>1, <2>2 DEF IInv, Accounted
    <3>2. Owed(sel, {"tally", "score"}, Run!FailedStatuses) = 0
      BY <2>1, OwedInBody DEF IInv, Body
    <3>3. RunsOf(sel, Run!FailedStatuses) \in Nat
      BY CountTypes DEF IInv
    <3>4. QED
      BY <2>3, <3>1, <3>2, <3>3 DEF Exact
  <2>5. \A i \in 1 .. Len(runs) : ~(runs[i].core = sel /\ runs[i].status \in Run!FailedStatuses)
    BY <2>4, CountTypes DEF IInv
  <2>6. r.core = sel
    OBVIOUS
  <2> HIDE DEF r, sel
  <2>7. /\ Len(runs) \in Nat /\ Len(runs') = Len(runs) + 1 /\ runs'[Len(runs) + 1] = r
        /\ \A i \in 1 .. Len(runs) : runs'[i] = runs[i]
    BY <2>1
  <2>8. FailureIsFinal
    BY DEF IInv
  <2>9. QED
    BY <2>5, <2>6, <2>7, <2>8 DEF FailureIsFinal
<1>2. CASE UNCHANGED runs
  BY <1>2 DEF IInv, FailureIsFinal
<1>3. RunReturns \/ UNCHANGED runs
  <2>1. CASE MainStep \/ LogFails
    BY <2>1 DEF MainStep, InstallHandlers, EnterSession, BeginCycle, StopCycles, StopCores, SkipCore,
       CheckCore, CoreResult, EndCycle, LeaveMonitor, RestoreHandlers, PrintSummary, Exit, RunRaises,
       LogFails, PresenterFails, SummaryFails, CloseLogFails, Tally, Score, results
  <2>2. CASE RunTest \/ EngineEnds \/ HandlerStep \/ Signal
    BY <2>2 DEF RunTest, EngineEnds, HandlerStep, Signal, results
  <2>3. CASE UNCHANGED vars
    BY <2>3 DEF vars, results
  <2>4. QED
    BY <2>1, <2>2, <2>3 DEF Next
<1>4. QED
  BY <1>1, <1>2, <1>3

LEMMA Initially == Init => IInv
<1> SUFFICES ASSUME Init PROVE IInv
  OBVIOUS
<1>1. TypeOK
  BY InitType
<1>2. Control /\ LastRun /\ Final
  BY DEF Init, Control, LastRun, Final, Body, NoExit
<1>3. FailureIsFinal
  BY DEF Init, FailureIsFinal
<1>4. Accounted
  <2> SUFFICES ASSUME NEW c \in Cores PROVE Exact(c)
    BY DEF Accounted, Init
  <2>1. \A statuses : RunsOf(c, statuses) = 0
    BY <1>1, CountTypes DEF Init
  <2>2. \A statuses : Owed(c, {"tally", "score"}, statuses) = 0 /\ Owed(c, {"tally"}, statuses) = 0
    <3>1. pc = "announce" /\ cut = {}
      BY DEF Init
    <3>2. {"tally", "score"} \cap (cut \cup {pc}) = {} /\ {"tally"} \cap (cut \cup {pc}) = {}
      BY <3>1
    <3>3. QED
      BY <3>2 DEF Owed
  <2>3. stats[c].tallied = 0 /\ stats[c].passes = 0 /\ stats[c].failed = 0
    BY DEF Init
  <2>4. QED
    BY <2>1, <2>2, <2>3 DEF Exact
<1>5. QED
  BY <1>1, <1>2, <1>3, <1>4 DEF IInv

LEMMA Inductive == IInv /\ [Next]_vars => IInv'
<1> SUFFICES ASSUME IInv, [Next]_vars PROVE IInv'
  OBVIOUS
<1>1. FailureIsFinal'
  BY FailureStep
<1>2. CASE MainStep \/ LogFails
  <2>1. TypeOK'
    BY <1>2, ControlStepType, RunStepType, AccountStepType, EndStepType DEF IInv, MainStep, LogFails
  <2>2. Control' /\ LastRun' /\ Final' /\ Accounted'
    BY <1>2, ControlMain, LastRunMain, FinalMain, AccountedMain DEF IInv
  <2>3. QED
    BY <1>1, <2>1, <2>2 DEF IInv
<1>3. CASE RunTest \/ EngineEnds \/ HandlerStep \/ Signal
  <2>1. TypeOK'
    BY <1>3, RunStepType, HandlerStepType, SignalType DEF IInv
  <2>2. Control' /\ LastRun' /\ Final' /\ Accounted'
    BY <1>3, ControlOther, LastRunOther, FinalOther, AccountedOther DEF IInv
  <2>3. QED
    BY <1>1, <2>1, <2>2 DEF IInv
<1>4. CASE UNCHANGED vars
  <2>1. /\ opts' = opts /\ pc' = pc /\ cycle' = cycle /\ index' = index /\ stats' = stats /\ runs' = runs
        /\ handlers' = handlers /\ exc' = exc /\ summary' = summary /\ exit' = exit /\ handling' = handling
        /\ signals' = signals /\ late' = late /\ cut' = cut
        /\ phase' = phase /\ alive' = alive /\ cancel' = cancel /\ verdict' = verdict
    BY <1>4 DEF vars, loop, results, ending, inRun
  <2>2. TypeOK'
    BY <2>1 DEF IInv, TypeOK, Selected, SelectedSet, Run!ContractTypeOK
  <2>3. Control' /\ LastRun' /\ Final'
    BY <2>1 DEF IInv, Control, LastRun, Final, Selected, SelectedSet, Failed, StopsSession
  <2>4. Accounted'
    <3>1. Accounting \cap (cut' \cup {pc'}) = Accounting \cap (cut \cup {pc})
      BY <2>1
    <3>2. QED
      BY <2>1, <3>1, AccountedKept DEF IInv
  <2>5. QED
    BY <1>1, <2>2, <2>3, <2>4 DEF IInv
<1>5. QED
  BY <1>2, <1>3, <1>4 DEF Next

THEOREM Invariance == Spec => []IInv
<1>1. QED
  BY Initially, Inductive, PTL DEF Spec

-----------------------------------------------------------------------------
(* Complete cycles *)

(* Nothing has ended the session before its time yet. *)
Whole == exc = "none" /\ exit # "terminated" /\ ~cancel /\ opts.continue

(* The core loop has dealt with the core at position k in cycle n. *)
Behind(k, n) ==
    \/ n < cycle
    \/ n = cycle /\ k < index /\ pc \in {"core", "run"}
    \/ n = cycle /\ k <= index /\ pc \in {"tally", "score", "result"}
    \/ n = cycle /\ pc \in Left

Of(i, k, n) == runs[i].core = Selected[k] /\ runs[i].cycle = n

Missed(k, n) == \A i \in 1 .. Len(runs) : ~Of(i, k, n)

Once(k, n) == \E i \in 1 .. Len(runs) : \A j \in 1 .. Len(runs) : Of(j, k, n) <=> j = i

FailedBefore(k, n) ==
    \E i \in 1 .. Len(runs) : /\ runs[i].core = Selected[k] /\ runs[i].cycle < n
                              /\ runs[i].status \in Run!FailedStatuses

CyclesDone ==
    \A k \in 1 .. Len(Selected), n \in 1 .. cycle :
        IF Behind(k, n) /\ ~FailedBefore(k, n) THEN Once(k, n) ELSE Missed(k, n)

RunsAreTold ==
    \A i \in 1 .. Len(runs) :
        /\ runs[i].cycle \in 1 .. cycle
        /\ runs[i].engine = Engine(runs[i].cycle)
        /\ runs[i].cpus = TestCpus(opts.mode, runs[i].cycle)

Progress ==
    Whole =>
        /\ cycle > 0
        /\ CyclesDone
        /\ RunsAreTold
        /\ pc \in Left => AllFailed \/ (LastCycle /\ index > Len(Selected))

LEMMA WholeStep ==
  ASSUME TypeOK, Control, [Next]_vars, Whole'
  PROVE  Whole /\ UNCHANGED opts
<1> USE DEF Whole, Goto, ending, inRun, loop, results
<1>1. CASE MainStep \/ LogFails
  <2>1. opts' = opts /\ cancel' = cancel
    BY <1>1 DEF MainStep, InstallHandlers, EnterSession, BeginCycle, StopCycles, StopCores, SkipCore,
       CheckCore, CoreResult, EndCycle, LeaveMonitor, RestoreHandlers, PrintSummary, Exit, RunRaises,
       LogFails, PresenterFails, SummaryFails, CloseLogFails, RunReturns, Tally, Score
  <2>2. exc = "none"
    BY <1>1 DEF MainStep, InstallHandlers, EnterSession, BeginCycle, StopCycles, StopCores, SkipCore,
       CheckCore, CoreResult, EndCycle, LeaveMonitor, RestoreHandlers, PrintSummary, Exit, RunRaises,
       LogFails, PresenterFails, SummaryFails, CloseLogFails, RunReturns, Tally, Score
  <2>3. pc # "done"
    BY <1>1 DEF MainStep, InstallHandlers, EnterSession, BeginCycle, StopCycles, StopCores, SkipCore,
       CheckCore, CoreResult, EndCycle, LeaveMonitor, RestoreHandlers, PrintSummary, Exit, RunRaises,
       LogFails, PresenterFails, SummaryFails, CloseLogFails, RunReturns, Tally, Score
  <2>4. QED
    BY <2>1, <2>2, <2>3 DEF Control, NoExit
<1>2. CASE RunTest \/ EngineEnds
  BY <1>2 DEF RunTest, EngineEnds, Run!Enter, Run!Launch, Run!Return, Run!Fail, Run!Judge, Run!ProcessesEnd
<1>3. CASE HandlerStep
  BY <1>3 DEF HandlerStep, TypeOK, Run!ContractTypeOK
<1>4. CASE Signal
  <2>1. opts' = opts /\ pc # "done"
    BY <1>4 DEF Signal
  <2>2. cancel' = cancel /\ exc = "none"
    BY <1>4 DEF Signal, BeginHandler, SecondSignal, DefaultSignal, Run!AbortCall
  <2>3. QED
    BY <2>1, <2>2 DEF Control, NoExit
<1>5. CASE UNCHANGED vars
  BY <1>5 DEF vars
<1>6. QED
  BY <1>1, <1>2, <1>3, <1>4, <1>5 DEF Next

(* A core counts as failed exactly when one of its runs failed, except while a
   run is accounted. *)
LEMMA FailedRuns ==
  ASSUME IInv, Whole, pc \notin {"tally", "score"}, NEW c \in Cores
  PROVE  Failed(c) <=> \E i \in 1 .. Len(runs) : runs[i].core = c /\ runs[i].status \in Run!FailedStatuses
<1>1. Exact(c)
  BY DEF IInv, Accounted, Whole
<1>2. Owed(c, {"tally", "score"}, Run!FailedStatuses) = 0
  <2>1. cut = {}
    BY DEF IInv, Control, Whole
  <2>2. {"tally", "score"} \cap (cut \cup {pc}) = {}
    BY <2>1
  <2>3. QED
    BY <2>2 DEF Owed
<1>3. stats[c].failed \in Nat
  BY StatsTypes DEF IInv
<1>4. stats[c].failed = RunsOf(c, Run!FailedStatuses)
  BY <1>1, <1>2, <1>3 DEF Exact
<1>5. QED
  BY <1>3, <1>4, CountTypes DEF IInv, Failed

(* So the loop, as long as it has not dealt with a failed core in this cycle,
   knows that it failed in an earlier one. *)
LEMMA FailedEarlier ==
  ASSUME IInv, Whole, Progress, pc \in {"cycle", "core"}, NEW k \in 1 .. Len(Selected),
         Failed(Selected[k]), ~Behind(k, cycle)
  PROVE  FailedBefore(k, cycle)
<1>1. Selected[k] \in Cores /\ cycle \in Nat \ {0} /\ RunsAreTold /\ CyclesDone
  BY OptionFacts DEF IInv, TypeOK, Progress
<1>2. PICK i \in 1 .. Len(runs) : runs[i].core = Selected[k] /\ runs[i].status \in Run!FailedStatuses
  BY <1>1, FailedRuns
<1>3. Missed(k, cycle)
  <2>1. cycle \in 1 .. cycle
    BY <1>1
  <2>2. QED
    BY <1>1, <2>1 DEF CyclesDone
<1>4. runs[i].cycle # cycle /\ runs[i].cycle \in 1 .. cycle
  BY <1>1, <1>2, <1>3 DEF Missed, Of, RunsAreTold
<1>5. runs[i].cycle < cycle
  BY <1>1, <1>4
<1>6. QED
  BY <1>2, <1>5 DEF FailedBefore

(* The loop moves on, and deals with no core but those that failed before. *)
LEMMA CyclesKept ==
  ASSUME CyclesDone, RunsAreTold, UNCHANGED <<opts, runs, cycle>>,
         \A k \in 1 .. Len(Selected), n \in 1 .. cycle :
            FailedBefore(k, n) \/ (Behind(k, n)' <=> Behind(k, n))
  PROVE  CyclesDone' /\ RunsAreTold'
<1>1. \A k, n : /\ Missed(k, n)' <=> Missed(k, n)
                /\ Once(k, n)' <=> Once(k, n)
                /\ FailedBefore(k, n)' <=> FailedBefore(k, n)
  BY DEF Missed, Once, FailedBefore, Of, Selected
<1>2. Selected' = Selected
  BY DEF Selected
<1>3. CyclesDone'
  <2> SUFFICES ASSUME NEW k \in 1 .. Len(Selected), NEW n \in 1 .. cycle
               PROVE  (IF Behind(k, n) /\ ~FailedBefore(k, n) THEN Once(k, n) ELSE Missed(k, n))'
    BY <1>2 DEF CyclesDone
  <2>1. IF Behind(k, n) /\ ~FailedBefore(k, n) THEN Once(k, n) ELSE Missed(k, n)
    BY DEF CyclesDone
  <2>2. FailedBefore(k, n) \/ (Behind(k, n)' <=> Behind(k, n))
    OBVIOUS
  <2>3. QED
    BY <1>1, <2>1, <2>2
<1>4. RunsAreTold'
  BY DEF RunsAreTold
<1>5. QED
  BY <1>3, <1>4

(* A cycle ends: every core is behind, none is in the next cycle. *)
LEMMA ProgressEndCycle ==
  ASSUME IInv, Progress, Whole, UNCHANGED opts, EndCycle
  PROVE  Progress'
<1>1. /\ cycle \in Nat \ {0} /\ RunsAreTold /\ CyclesDone
      /\ index \in Nat /\ Len(Selected) \in Nat /\ index > Len(Selected)
  BY OptionFacts DEF IInv, TypeOK, Progress, EndCycle
<1>2. /\ pc = "core" /\ UNCHANGED <<opts, index, stats, runs>>
      /\ (LastCycle /\ pc' = "leave" /\ cycle' = cycle) \/ (pc' = "cycle" /\ cycle' = cycle + 1)
  BY DEF EndCycle, Goto, results
<1>3. \A k \in 1 .. Len(Selected), n \in 1 .. cycle : Behind(k, n) /\ Behind(k, n)'
  BY <1>1, <1>2 DEF Behind, Left
<1>4. CASE cycle' = cycle
  <2>1. CyclesDone' /\ RunsAreTold'
    BY <1>1, <1>2, <1>3, <1>4, CyclesKept
  <2>2. LastCycle' /\ (index > Len(Selected))'
    BY <1>1, <1>2, <1>4 DEF LastCycle, Selected
  <2>3. QED
    BY <1>1, <1>4, <2>1, <2>2 DEF Progress
<1>5. CASE pc' = "cycle" /\ cycle' = cycle + 1
  <2>1. \A k, n : /\ Missed(k, n)' <=> Missed(k, n)
                  /\ Once(k, n)' <=> Once(k, n)
                  /\ FailedBefore(k, n)' <=> FailedBefore(k, n)
    BY <1>2 DEF Missed, Once, FailedBefore, Of, Selected
  <2>2. \A k \in 1 .. Len(Selected) : Missed(k, cycle + 1)
    <3>1. \A i \in 1 .. Len(runs) : runs[i].cycle # cycle + 1
      BY <1>1 DEF RunsAreTold
    <3>2. QED
      BY <3>1 DEF Missed, Of
  <2>3. CyclesDone'
    <3> SUFFICES ASSUME NEW k \in 1 .. Len(Selected), NEW n \in 1 .. cycle + 1
                 PROVE  (IF Behind(k, n) /\ ~FailedBefore(k, n) THEN Once(k, n) ELSE Missed(k, n))'
      BY <1>2, <1>5 DEF CyclesDone, Selected
    <3>1. CASE n \in 1 .. cycle
      BY <1>1, <1>3, <2>1, <3>1 DEF CyclesDone
    <3>2. CASE n = cycle + 1
      <4>1. ~Behind(k, n)'
        BY <1>1, <1>5, <3>2 DEF Behind, Left
      <4>2. QED
        BY <2>1, <2>2, <3>2, <4>1
    <3>3. QED
      BY <1>1, <3>1, <3>2
  <2>4. RunsAreTold'
    <3>1. \A n \in 1 .. cycle : n \in 1 .. cycle + 1
      BY <1>1
    <3>2. QED
      BY <1>1, <1>2, <1>5, <3>1 DEF RunsAreTold
  <2>5. QED
    BY <1>1, <1>5, <2>3, <2>4 DEF Progress, Left
<1>6. QED
  BY <1>2, <1>4, <1>5

(* A run returns: the only one of its core in this cycle. *)
LEMMA ProgressReturns ==
  ASSUME IInv, Progress, Whole, UNCHANGED opts, RunReturns
  PROVE  Progress'
<1> DEFINE r == [core |-> Selected[index], cycle |-> cycle, engine |-> Engine(cycle),
                 cpus |-> TestCpus(opts.mode, cycle), status |-> verdict]
<1>1. /\ cycle \in Nat \ {0} /\ RunsAreTold /\ CyclesDone /\ pc = "run"
      /\ Selected \in Seq(Cores) /\ Len(Selected) \in Nat /\ index \in 1 .. Len(Selected)
      /\ Selected[index] \in Cores /\ runs \in Seq(Results)
  BY OptionFacts DEF IInv, TypeOK, Progress, RunReturns, Control
<1>2. /\ UNCHANGED <<opts, cycle, index, stats>> /\ runs' = Append(runs, r)
      /\ pc' \in {"result", "tally"}
  BY DEF RunReturns, Goto, loop
<1>3. r.core = Selected[index] /\ r.cycle = cycle /\ r.engine = Engine(cycle)
      /\ r.cpus = TestCpus(opts.mode, cycle)
  OBVIOUS
<1> HIDE DEF r
<1>4. /\ Len(runs) \in Nat /\ Len(runs') = Len(runs) + 1 /\ runs'[Len(runs) + 1] = r
      /\ \A i \in 1 .. Len(runs) : runs'[i] = runs[i]
      /\ \A i \in 1 .. Len(runs') : i \in 1 .. Len(runs) \/ i = Len(runs) + 1
      /\ \A i \in 1 .. Len(runs) : i \in 1 .. Len(runs') /\ i # Len(runs) + 1
      /\ Len(runs) + 1 \in 1 .. Len(runs')
  BY <1>1, <1>2
<1>5. Selected' = Selected /\ \A k \in 1 .. Len(Selected) : Selected[k] = Selected[index] => k = index
  <2>1. opts \in Options
    BY DEF IInv, TypeOK
  <2>2. QED
    BY <1>1, <1>2, <2>1, OptionAssumption DEF Selected
<1>6. RunsAreTold'
  <2>1. cycle \in 1 .. cycle
    BY <1>1
  <2>2. QED
    BY <1>1, <1>2, <1>3, <1>4, <2>1 DEF RunsAreTold
<1>7. ~FailedBefore(index, cycle)
  <2>1. ~Failed(Selected[index])
    BY <1>1 DEF IInv, LastRun
  <2>2. QED
    BY <1>1, <2>1, FailedRuns DEF FailedBefore
<1>8. Missed(index, cycle)
  <2>1. cycle \in 1 .. cycle
    BY <1>1
  <2>2. ~Behind(index, cycle)
    BY <1>1 DEF Behind, Left
  <2>3. QED
    BY <1>1, <2>1, <2>2 DEF CyclesDone
<1>9. ASSUME NEW k \in 1 .. Len(Selected), NEW n \in 1 .. cycle
      PROVE  (IF Behind(k, n) /\ ~FailedBefore(k, n) THEN Once(k, n) ELSE Missed(k, n))'
  <2>1. FailedBefore(k, n)' <=> FailedBefore(k, n)
    BY <1>1, <1>3, <1>4, <1>5 DEF FailedBefore
  <2>2. CASE k = index /\ n = cycle
    <3>1. Once(k, n)'
      <4>1. \A j \in 1 .. Len(runs) : ~(runs'[j].core = Selected[k] /\ runs'[j].cycle = n)
        BY <1>4, <1>8, <2>2 DEF Missed, Of
      <4>2. runs'[Len(runs) + 1].core = Selected[k] /\ runs'[Len(runs) + 1].cycle = n
        BY <1>3, <1>4, <2>2
      <4>3. \A j \in 1 .. Len(runs') :
              runs'[j].core = Selected'[k] /\ runs'[j].cycle = n <=> j = Len(runs) + 1
        BY <1>4, <1>5, <4>1, <4>2
      <4>4. QED
        BY <1>4, <4>3 DEF Once, Of
    <3>2. Behind(k, n)'
      BY <1>1, <1>2, <2>2 DEF Behind
    <3>3. QED
      BY <1>7, <2>1, <2>2, <3>1, <3>2
  <2>3. CASE ~(k = index /\ n = cycle)
    <3>1. \A i \in 1 .. Len(runs) : Of(i, k, n)' <=> Of(i, k, n)
      BY <1>4, <1>5 DEF Of
    <3>2. ~(r.core = Selected[k] /\ r.cycle = n)
      BY <1>3, <1>5, <2>3
    <3>3. ASSUME NEW i, i = Len(runs) + 1 PROVE ~Of(i, k, n)'
      BY <1>4, <1>5, <3>2, <3>3 DEF Of
    <3>4. (Once(k, n)' <=> Once(k, n)) /\ (Missed(k, n)' <=> Missed(k, n))
      <4> HIDE DEF Of
      <4>1. Missed(k, n)' <=> Missed(k, n)
        BY <1>4, <3>1, <3>3 DEF Missed
      <4>2. Once(k, n)' => Once(k, n)
        BY <1>4, <3>1, <3>3 DEF Once
      <4>3. Once(k, n) => Once(k, n)'
        <5> SUFFICES ASSUME NEW i \in 1 .. Len(runs),
                            \A j \in 1 .. Len(runs) : Of(j, k, n) <=> j = i
                     PROVE  Once(k, n)'
          BY DEF Once
        <5>1. \A j \in 1 .. Len(runs') : Of(j, k, n)' <=> j = i
          BY <1>4, <3>1, <3>3
        <5>2. QED
          BY <1>4, <5>1 DEF Once
      <4>4. QED
        BY <4>1, <4>2, <4>3
    <3>5. Behind(k, n)' <=> Behind(k, n)
      BY <1>1, <1>2, <2>3 DEF Behind, Left
    <3>6. QED
      BY <1>1, <2>1, <3>4, <3>5 DEF CyclesDone
  <2>4. QED
    BY <2>2, <2>3
<1>10. QED
  BY <1>1, <1>2, <1>5, <1>6, <1>9 DEF Progress, CyclesDone, Left

LEMMA ProgressStep == IInv /\ Progress /\ [Next]_vars => Progress'
<1> SUFFICES ASSUME IInv, Progress, [Next]_vars, Whole' PROVE Progress'
  BY DEF Progress
<1>1. Whole /\ UNCHANGED opts
  BY WholeStep DEF IInv
<1>2. /\ cycle \in Nat \ {0} /\ RunsAreTold /\ CyclesDone
      /\ pc \in Left => AllFailed \/ (LastCycle /\ index > Len(Selected))
      /\ index \in 1 .. Len(Selected) + 1 /\ Len(Selected) \in Nat \ {0}
  BY <1>1, OptionFacts DEF IInv, TypeOK, Progress
<1>3. Selected' = Selected /\ SelectedSet' = SelectedSet
  BY <1>1 DEF Selected, SelectedSet
<1> USE DEF Goto, ending, inRun, loop, results
<1>4. CASE \/ InstallHandlers \/ EnterSession \/ BeginCycle \/ CheckCore \/ Tally \/ Score \/ CoreResult
  <2>1. UNCHANGED <<runs, cycle>> /\ pc' \notin Left
    BY <1>1, <1>4 DEF InstallHandlers, EnterSession, BeginCycle, CheckCore, Tally, Score, CoreResult, Left,
       StopsSession, Whole
  <2>2. \A k \in 1 .. Len(Selected), n \in 1 .. cycle : Behind(k, n)' <=> Behind(k, n)
    <3>1. CASE InstallHandlers \/ EnterSession \/ CheckCore \/ Tally \/ Score
      BY <1>2, <2>1, <3>1 DEF InstallHandlers, EnterSession, CheckCore, Tally, Score, Behind, Left
    <3>2. CASE BeginCycle
      BY <1>2, <2>1, <3>2 DEF BeginCycle, Behind, Left
    <3>3. CASE CoreResult
      <4>1. pc = "result" /\ pc' = "core" /\ index' = index + 1
        BY <1>1, <3>3 DEF CoreResult, StopsSession, Whole
      <4>2. QED
        BY <1>2, <2>1, <4>1 DEF Behind, Left
    <3>4. QED
      BY <1>4, <3>1, <3>2, <3>3
  <2>3. QED
    BY <1>1, <1>2, <2>1, <2>2, CyclesKept DEF Progress
<1>5. CASE SkipCore
  <2>1. /\ UNCHANGED <<runs, cycle>> /\ pc = "core" /\ pc' = "core" /\ index' = index + 1
        /\ Failed(Selected[index]) /\ index \in 1 .. Len(Selected)
    BY <1>2, <1>5 DEF SkipCore, MayTest
  <2>2. ~Behind(index, cycle)
    BY <1>2, <2>1 DEF Behind, Left
  <2>3. FailedBefore(index, cycle)
    BY <1>1, <2>1, <2>2, FailedEarlier
  <2>4. ASSUME NEW k \in 1 .. Len(Selected), NEW n \in 1 .. cycle
        PROVE  FailedBefore(k, n) \/ (Behind(k, n)' <=> Behind(k, n))
    <3>1. CASE k = index /\ n = cycle
      BY <2>3, <3>1
    <3>2. CASE ~(k = index /\ n = cycle)
      BY <1>2, <2>1, <3>2 DEF Behind, Left
    <3>3. QED
      BY <3>1, <3>2
  <2>5. QED
    BY <1>1, <1>2, <2>1, <2>4, CyclesKept DEF Progress, Left
<1>6. CASE StopCycles
  <2>1. /\ UNCHANGED <<runs, cycle, index, stats>> /\ pc = "cycle" /\ pc' = "leave" /\ AllFailed
    BY <1>1, <1>6 DEF StopCycles, LeavesCycles, Whole
  <2>2. ASSUME NEW k \in 1 .. Len(Selected), NEW n \in 1 .. cycle
        PROVE  FailedBefore(k, n) \/ (Behind(k, n)' <=> Behind(k, n))
    <3>1. CASE n = cycle
      <4>1. Failed(Selected[k])
        BY <2>1, OptionFacts DEF AllFailed, IInv, TypeOK
      <4>2. ~Behind(k, cycle)
        BY <1>2, <2>1 DEF Behind, Left
      <4>3. QED
        BY <1>1, <2>1, <3>1, <4>1, <4>2, FailedEarlier
    <3>2. CASE n # cycle
      BY <1>2, <2>1, <3>2 DEF Behind, Left
    <3>3. QED
      BY <3>1, <3>2
  <2>3. AllFailed'
    BY <1>3, <2>1 DEF AllFailed, Failed
  <2>4. QED
    BY <1>1, <1>2, <2>1, <2>2, <2>3, CyclesKept DEF Progress
<1>7. CASE \/ LeaveMonitor \/ RestoreHandlers \/ PrintSummary \/ Exit \/ RunTest \/ EngineEnds
           \/ HandlerStep \/ Signal \/ UNCHANGED vars
  <2>1. UNCHANGED <<runs, cycle, index, stats>>
    BY <1>7 DEF LeaveMonitor, RestoreHandlers, PrintSummary, Exit, RunTest, EngineEnds, HandlerStep, Signal, vars
  <2>2. pc' = pc \/ (pc \in Left /\ pc' \in Left)
    <3>1. CASE LeaveMonitor \/ RestoreHandlers \/ PrintSummary \/ Exit
      BY <3>1 DEF LeaveMonitor, RestoreHandlers, PrintSummary, Exit, Left
    <3>2. CASE RunTest \/ EngineEnds \/ HandlerStep \/ UNCHANGED vars
      BY <3>2 DEF RunTest, EngineEnds, HandlerStep, vars
    <3>3. CASE Signal
      BY <3>3 DEF Signal, BeginHandler, SecondSignal, DefaultSignal, Whole
    <3>4. QED
      BY <1>7, <3>1, <3>2, <3>3
  <2>3. \A k \in 1 .. Len(Selected), n \in 1 .. cycle : Behind(k, n)' <=> Behind(k, n)
    BY <1>2, <2>1, <2>2 DEF Behind, Left
  <2>4. (AllFailed' <=> AllFailed) /\ (LastCycle' <=> LastCycle)
    BY <1>1, <1>3, <2>1 DEF AllFailed, Failed, LastCycle
  <2>5. QED
    BY <1>1, <1>2, <1>3, <2>1, <2>2, <2>3, <2>4, CyclesKept DEF Progress
<1>8. ~(StopCores \/ RunRaises \/ LogFails)
  BY <1>1 DEF StopCores, LeavesCores, RunRaises, LogFails, PresenterFails, SummaryFails, CloseLogFails, Whole
<1>9. QED
  BY <1>1, <1>4, <1>5, <1>6, <1>7, <1>8, ProgressEndCycle, ProgressReturns DEF Next, MainStep

(* Among the first 3 * EngineCount cycles one gives every engine every phase of
   the threads, when the two rotations do not share a factor. *)
LEMMA Rotation ==
  ASSUME EngineCount % 3 # 0, NEW e \in 0 .. EngineCount - 1, NEW p \in 0 .. 2
  PROVE  \E n \in 1 .. 3 * EngineCount : Engine(n) = e /\ (n - 1) % 3 = p
<1> DEFINE E == EngineCount
<1>1. E \in Nat \ {0} /\ e \in Nat /\ e < E
  BY EngineAssumption
<1> HIDE DEF E
<1>2. e % E = e
  BY <1>1
<1>3. (e + E) % E = e
  BY <1>1
<1>4. (e + E + E) % E = e
  BY <1>1
<1>5. PICK m \in {e, e + E, e + E + E} : m % 3 = p
  <2>1. E % 3 # 0
    BY DEF E
  <2>2. e % 3 = p \/ (e + E) % 3 = p \/ (e + E + E) % 3 = p
    BY <1>1, <2>1
  <2>3. QED
    BY <2>2
<1>6. m % E = e /\ m + 1 \in 1 .. 3 * E /\ (m + 1) - 1 = m
  <2>1. m % E = e
    BY <1>2, <1>3, <1>4
  <2>2. m + 1 \in 1 .. 3 * E /\ (m + 1) - 1 = m
    BY <1>1
  <2>3. QED
    BY <2>1, <2>2
<1>7. QED
  BY <1>5, <1>6 DEF Engine, E

(* An undisturbed session that is over has every core behind in every cycle it
   was to run, or every core failed in a cycle it did run. *)
LEMMA Completed ==
  ASSUME IInv, Progress, Undisturbed
  PROVE  CyclesAreComplete
<1>1. /\ Whole /\ pc \in Left /\ cycle \in Nat \ {0} /\ RunsAreTold /\ CyclesDone
      /\ AllFailed \/ LastCycle
  <2>1. pc = "done"
    BY DEF IInv, Control, Undisturbed, NoExit
  <2>2. Whole
    BY DEF Whole, Undisturbed
  <2>3. QED
    BY <2>1, <2>2 DEF Progress, Left, IInv, TypeOK
<1>2. /\ opts.cycles \in Nat /\ Len(Selected) \in Nat /\ runs \in Seq(Results) /\ Len(runs) \in Nat
      /\ SelectedSet \subseteq Cores
  BY OptionFacts DEF IInv, TypeOK
<1>3. \A c \in SelectedSet : Failed(c) <=>
        \E i \in 1 .. Len(runs) : runs[i].core = c /\ runs[i].status \in Run!FailedStatuses
  BY <1>1, <1>2, FailedRuns DEF Left
<1>4. ASSUME NEW k \in 1 .. Len(Selected), NEW n \in 1 .. opts.cycles
      PROVE  IF FailedBefore(k, n) THEN Missed(k, n) ELSE Once(k, n)
  <2>1. CASE n <= cycle
    <3>1. n \in 1 .. cycle /\ Behind(k, n)
      BY <1>1, <1>2, <2>1 DEF Behind
    <3>2. QED
      BY <1>1, <3>1 DEF CyclesDone
  <2>2. CASE n > cycle
    <3>1. AllFailed
      BY <1>1, <1>2, <2>2 DEF LastCycle
    <3>2. PICK i \in 1 .. Len(runs) : runs[i].core = Selected[k] /\ runs[i].status \in Run!FailedStatuses
      BY <1>3, <3>1 DEF AllFailed, SelectedSet
    <3>3. \A j \in 1 .. Len(runs) : runs[j].cycle \in 1 .. cycle
      BY <1>1 DEF RunsAreTold
    <3>4. \A j \in 1 .. Len(runs) : runs[j].cycle < n
      BY <1>1, <2>2, <3>3
    <3>5. \A j \in 1 .. Len(runs) : runs[j].cycle # n
      BY <1>1, <2>2, <3>3
    <3>6. FailedBefore(k, n) /\ Missed(k, n)
      BY <3>2, <3>4, <3>5 DEF FailedBefore, Missed, Of
    <3>7. QED
      BY <3>6
  <2>3. QED
    BY <1>1, <1>2, <2>1, <2>2
<1>5. OneRunPerCycle
  <2> DEFINE hits(c, n) == {i \in 1 .. Len(runs) : runs[i].core = c /\ runs[i].cycle = n}
             failed(c, n) == \E i \in 1 .. Len(runs) : /\ runs[i].core = c /\ runs[i].cycle < n
                                                      /\ runs[i].status \in Run!FailedStatuses
  <2>1. ASSUME NEW c \in SelectedSet, NEW n \in 1 .. opts.cycles
        PROVE  IF failed(c, n) THEN hits(c, n) = {} ELSE Cardinality(hits(c, n)) = 1
    <3>1. PICK k \in 1 .. Len(Selected) : Selected[k] = c
      BY DEF SelectedSet
    <3>2. failed(c, n) <=> FailedBefore(k, n)
      BY <3>1 DEF FailedBefore
    <3>3. \A i : i \in hits(c, n) <=> i \in 1 .. Len(runs) /\ Of(i, k, n)
      BY <3>1 DEF Of
    <3> HIDE DEF hits, failed
    <3>4. CASE failed(c, n)
      BY <1>4, <3>2, <3>3, <3>4 DEF Missed
    <3>5. CASE ~failed(c, n)
      <4>1. PICK i \in 1 .. Len(runs) : \A j \in 1 .. Len(runs) : Of(j, k, n) <=> j = i
        BY <1>4, <3>2, <3>5 DEF Once
      <4>2. hits(c, n) = {i}
        BY <3>3, <4>1
      <4>3. Cardinality({i}) = 1
        BY FS_Singleton
      <4>4. QED
        BY <3>5, <4>2, <4>3
    <3>6. QED
      BY <3>4, <3>5
  <2>2. QED
    BY <2>1, Zenon DEF OneRunPerCycle
<1>6. opts.cycles = 0 => AllFailed
  BY <1>1 DEF LastCycle
<1>7. ASSUME opts.mode = "cycle", ThreadsPerCore = 2, opts.cycles >= 3 * EngineCount, EngineCount % 3 # 0
      PROVE  EveryCombination
  <2> SUFFICES ASSUME NEW k \in 1 .. Len(Selected), ~Failed(Selected[k]),
                      NEW e \in 0 .. EngineCount - 1, NEW u \in Cpus
               PROVE  \E i \in 1 .. Len(runs) :
                        runs[i].core = Selected[k] /\ runs[i].engine = e /\ runs[i].cpus = u
    BY DEF EveryCombination, SelectedSet
  <2>1. PICK p \in 0 .. 2 : u = IF p = 0 THEN "T0" ELSE IF p = 1 THEN "T1" ELSE "both"
    <3>1. u = "T0" \/ u = "T1" \/ u = "both"
      BY DEF Cpus
    <3>2. 0 \in 0 .. 2 /\ 1 \in 0 .. 2 /\ 2 \in 0 .. 2 /\ 2 # 0 /\ 2 # 1 /\ 1 # 0
      OBVIOUS
    <3>3. QED
      BY <3>1, <3>2
  <2>2. PICK n \in 1 .. 3 * EngineCount : Engine(n) = e /\ (n - 1) % 3 = p
    BY <1>7, Rotation
  <2>3. n \in 1 .. opts.cycles
    BY <1>2, <1>7, EngineAssumption
  <2>4. ~FailedBefore(k, n)
    BY <1>3 DEF FailedBefore, SelectedSet
  <2>5. PICK i \in 1 .. Len(runs) : Of(i, k, n)
    BY <1>4, <2>3, <2>4 DEF Once
  <2>6. TestCpus(opts.mode, n) = u
    BY <1>7, <2>1, <2>2 DEF TestCpus
  <2>7. QED
    BY <1>1, <2>2, <2>5, <2>6 DEF Of, RunsAreTold
<1>8. QED
  BY <1>5, <1>6, <1>7 DEF CyclesAreComplete

-----------------------------------------------------------------------------
(* Every variable of a session keeps its type, for any cores, command lines and
   number of signals. *)
THEOREM TypeCorrect == Spec => []TypeOK
<1>1. IInv => TypeOK
  BY DEF IInv
<1>2. QED
  BY <1>1, Invariance, PTL

(* A core that failed is not tested again, and so fails once. *)
THEOREM FailuresFinal == Spec => []FailureIsFinal
<1>1. IInv => FailureIsFinal
  BY DEF IInv
<1>2. QED
  BY <1>1, Invariance, PTL

(* At most one run begins after the stop request; an interrupted run, and with
   --stop-on-error a failed one, is the last. *)
THEOREM StopEndsRuns == Spec => []NothingStartsAfterStop
<1>1. IInv => NothingStartsAfterStop
  <2> SUFFICES ASSUME IInv PROVE NothingStartsAfterStop
    OBVIOUS
  <2>1. late <= 1
    BY DEF IInv, Final
  <2>2. QED
    BY <2>1 DEF IInv, Final, NothingStartsAfterStop, StopsSession
<1>2. QED
  BY <1>1, Invariance, PTL

(* The exit code tells whether a run failed or the session raised. *)
THEOREM ExitCodeTrue == Spec => []ExitCodeTellsRuns
<1>1. IInv => ExitCodeTellsRuns
  <2> SUFFICES ASSUME IInv, exit \in {"0", "1"} PROVE exit = "1" <=> (exc = "error" \/ \E c \in Cores : RunsOf(c, Run!FailedStatuses) > 0)
    BY DEF ExitCodeTellsRuns
  <2>1. exit = "1" <=> (exc = "error" \/ \E c \in Cores : Failed(c))
    BY DEF IInv, Control
  <2>2. ASSUME NEW c \in Cores, exc # "error" PROVE stats[c].failed = RunsOf(c, Run!FailedStatuses)
    <3>1. Exact(c)
      BY DEF IInv, Accounted
    <3>2. pc = "done" /\ cut = {}
      BY <2>2 DEF IInv, Control, NoExit, TypeOK
    <3>3. Owed(c, {"tally", "score"}, Run!FailedStatuses) = 0
      <4>1. {"tally", "score"} \cap (cut \cup {pc}) = {}
        BY <3>2
      <4>2. QED
        BY <4>1 DEF Owed
    <3>4. stats[c].failed \in Nat
      BY StatsTypes DEF IInv
    <3>5. QED
      BY <3>1, <3>3, <3>4 DEF Exact
  <2>3. QED
    BY <2>1, <2>2 DEF Failed
<1>2. QED
  BY <1>1, Invariance, PTL

(* The table printed at the end equals what the runs returned, but for what a
   second signal cut off the accounting of the last run; it is missing only when
   a signal or the log ended the session before the try or in the finally. *)
THEOREM SummaryTrue == Spec => []SummaryTellsRuns
<1>1. IInv => SummaryTellsRuns
  <2> SUFFICES ASSUME IInv PROVE SummaryTellsRuns
    OBVIOUS
  <2>1. exit = "0" => summary # NoSummary /\ cut = {}
    BY DEF IInv, Control, TypeOK
  <2>2. summary = NoSummary /\ exit # NoExit => cut \cap Unprotected # {}
    BY DEF IInv, Control
  <2>3. ASSUME summary # NoSummary, NEW c \in SelectedSet
        PROVE  /\ summary[c].passes + Owed(c, {"tally", "score"}, {"PASS"}) = RunsOf(c, {"PASS"})
               /\ summary[c].failed + Owed(c, {"tally", "score"}, Run!FailedStatuses) = RunsOf(c, Run!FailedStatuses)
               /\ summary[c].tallied + Owed(c, {"tally"}, Run!RunStatus)
                    = RunsOf(c, {"PASS"}) + RunsOf(c, Run!FailedStatuses)
    <3>1. c \in Cores /\ summary[c] = stats[c]
      BY <2>3, OptionFacts DEF IInv, Control, TypeOK
    <3>2. Exact(c)
      BY <3>1 DEF IInv, Accounted
    <3>3. QED
      BY <3>1, <3>2 DEF Exact
  <2>4. QED
    BY <2>1, <2>2, <2>3 DEF SummaryTellsRuns
<1>2. QED
  BY <1>1, Invariance, PTL

(* An undisturbed session runs every core once in every cycle until it fails,
   ends early only when every core failed, and shows a core that survives every
   engine with each of its threads and with both. *)
THEOREM CyclesComplete == Spec => []CyclesAreComplete
<1>1. Init => Progress
  BY DEF Init, Progress, CyclesDone, RunsAreTold, Missed, Once, FailedBefore, Behind, Left, Of
<1>2. IInv /\ Progress => CyclesAreComplete
  BY Completed DEF CyclesAreComplete
<1>3. QED
  BY <1>1, <1>2, Initially, Inductive, ProgressStep, PTL DEF Spec

-----------------------------------------------------------------------------
(* The calls of run_test *)

(* An engine runs while its call waits for it; only a second signal leaves one
   behind, and then the session is being unwound. *)
Calls ==
    /\ alive => (pc = "run" /\ phase = "running") \/ pc \in Left
    /\ pc \in {"announce", "install"} => phase = "idle"
    /\ pc \in Body \ {"run"} => phase \in {"idle", "returned"}

(* The core loop turns to its next run: the call before has returned, and its
   engine is gone. *)
NextCall ==
    /\ phase \in {"idle", "returned"} /\ ~alive
    /\ phase' = "idle" /\ verdict' = Run!NoStatus
    /\ UNCHANGED <<alive, cancel>>

LEMMA CallsBegin == Init => Run!ContractInit /\ Calls
BY DEF Init, Run!ContractInit, Run!NoStatus, Calls, Body

LEMMA CallsStep ==
  ASSUME IInv, Calls, [Next]_vars
  PROVE  Calls' /\ [Run!ContractNext \/ NextCall]_inRun
<1> USE DEF Goto, Body, Left, loop, results, ending, inRun
<1>1. /\ pc \in {"announce", "install"} \cup Body => exc = "none"
      /\ handlers = "default" => pc \notin {"install", "leave", "restore"} \cup Body
  BY DEF IInv, Control
<1>2. cancel \in BOOLEAN
  BY DEF IInv, TypeOK, Run!ContractTypeOK
<1>3. CASE CheckCore
  <2>1. ~alive
    BY <1>1, <1>3 DEF Calls, CheckCore
  <2>2. NextCall
    BY <1>3, <2>1 DEF NextCall, Calls, CheckCore
  <2>3. Calls'
    BY <1>3, <2>1 DEF Calls, CheckCore
  <2>4. QED
    BY <2>2, <2>3
<1>4. CASE \/ InstallHandlers \/ EnterSession \/ BeginCycle \/ StopCycles \/ StopCores \/ SkipCore
           \/ EndCycle \/ LeaveMonitor \/ RestoreHandlers \/ PrintSummary \/ SummaryFails \/ CloseLogFails \/ Exit
           \/ RunReturns \/ Tally \/ Score \/ CoreResult
  <2>1. UNCHANGED inRun
    BY <1>4 DEF InstallHandlers, EnterSession, BeginCycle, StopCycles, StopCores, SkipCore, EndCycle,
       LeaveMonitor, RestoreHandlers, PrintSummary, SummaryFails, CloseLogFails, Exit, RunReturns, Tally, Score, CoreResult
  <2>2. Calls'
    BY <1>1, <1>4 DEF Calls, InstallHandlers, EnterSession, BeginCycle, StopCycles, StopCores, SkipCore,
       EndCycle, LeaveMonitor, RestoreHandlers, PrintSummary, SummaryFails, CloseLogFails, Exit, RunReturns, Tally, Score, CoreResult
  <2>3. QED
    BY <2>1, <2>2
<1>5. CASE RunRaises \/ PresenterFails
  <2>1. UNCHANGED inRun /\ pc' \in {"leave", "restore"}
    BY <1>5 DEF RunRaises, PresenterFails
  <2>2. QED
    BY <2>1 DEF Calls
<1>6. CASE RunTest
  <2>1. pc = "run" /\ pc' = pc
        /\ (Run!Enter \/ Run!Launch \/ Run!Return \/ Run!Fail \/ \E s \in Run!RunStatus : Run!Judge(s))
    BY <1>6 DEF RunTest
  <2>2. Calls'
    BY <2>1 DEF Calls, Run!Enter, Run!Launch, Run!Return, Run!Fail, Run!Judge
  <2>3. Run!ContractNext
    BY <2>1 DEF Run!ContractNext
  <2>4. QED
    BY <2>2, <2>3
<1>7. CASE EngineEnds
  <2>1. Run!ProcessesEnd /\ pc' = pc
    BY <1>7 DEF EngineEnds
  <2>2. Calls'
    BY <2>1 DEF Calls, Run!ProcessesEnd
  <2>3. Run!ContractNext
    BY <2>1 DEF Run!ContractNext
  <2>4. QED
    BY <2>2, <2>3
<1>8. CASE HandlerStep
  <2>1. /\ UNCHANGED <<pc, phase, alive, verdict>>
        /\ cancel' = cancel \/ cancel' = TRUE
    BY <1>8 DEF HandlerStep
  <2>2. Calls'
    BY <2>1 DEF Calls
  <2>3. UNCHANGED inRun \/ Run!RequestStop
    BY <1>2, <2>1 DEF Run!RequestStop
  <2>4. QED
    BY <2>2, <2>3 DEF Run!ContractNext
<1>9. CASE Signal
  <2>1. CASE BeginHandler
    BY <2>1 DEF BeginHandler, Calls
  <2>2. CASE DefaultSignal
    <3>1. UNCHANGED inRun /\ pc' \in {"exit", "done"}
      BY <2>2 DEF DefaultSignal
    <3>2. QED
      BY <3>1 DEF Calls
  <2>3. CASE SecondSignal
    <3>1. /\ pc' \in {"leave", "restore", "exit"}
          /\ UNCHANGED inRun \/ Run!AbortCall
      BY <2>3 DEF SecondSignal, UnwindsTo
    <3>2. Calls'
      BY <3>1 DEF Calls
    <3>3. QED
      BY <3>1, <3>2 DEF Run!ContractNext
  <2>4. QED
    BY <1>9, <2>1, <2>2, <2>3 DEF Signal
<1>10. CASE UNCHANGED vars
  <2>1. UNCHANGED <<pc, phase, alive, cancel, verdict>>
    BY <1>10 DEF vars
  <2>2. QED
    BY <2>1 DEF Calls
<1>11. QED
  BY <1>3, <1>4, <1>5, <1>6, <1>7, <1>8, <1>9, <1>10 DEF Next, MainStep, LogFails

(* A session uses run_test as its contract says: every step is one of the contract,
   or begins a call where the last one returned and left no process.  With
   ImplementsContract of SupervisorProofs, what holds of the session holds of the
   supervised engines. *)
CallsKeepContract == Run!ContractInit /\ [][Run!ContractNext \/ NextCall]_inRun

(* For any cores, options and signals, a session keeps to the contract of run_test. *)
THEOREM SessionKeepsContract == Spec => CallsKeepContract
<1>1. Init => Run!ContractInit /\ Calls
  BY CallsBegin
<1>2. IInv /\ Calls /\ [Next]_vars => Calls' /\ [Run!ContractNext \/ NextCall]_inRun
  BY CallsStep
<1>3. QED
  BY <1>1, <1>2, Invariance, PTL DEF Spec, CallsKeepContract

(* Engines do not overlap: as long as the loop goes on, none is alive but the one
   whose run is waited for (two at once would share the CPUs under test and the
   verdicts of both would be about neither). *)
EnginesDoNotOverlap == pc \in Body /\ alive => pc = "run" /\ phase = "running"

(* Two engines never run at once while the loop goes on. *)
THEOREM OneEngineAtATime == Spec => []EnginesDoNotOverlap
<1>1. Init => Calls
  BY CallsBegin
<1>2. IInv /\ Calls /\ [Next]_vars => Calls'
  BY CallsStep
<1>3. IInv /\ Calls => EnginesDoNotOverlap
  <2> SUFFICES ASSUME IInv, Calls, pc \in Body, alive PROVE pc = "run" /\ phase = "running"
    BY DEF EnginesDoNotOverlap
  <2>1. QED
    BY DEF Calls, Body, Left
<1>4. QED
  BY <1>1, <1>2, <1>3, Invariance, PTL DEF Spec
=============================================================================
