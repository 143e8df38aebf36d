-------------------------- MODULE MC_Orchestrator --------------------------
(* TLC instance of Orchestrator: two of three cores are selected; unlimited,
   short and longer sessions, and six cycles on one core for the rotation of
   engines and threads. *)
EXTENDS Orchestrator

AllCores == {"core0", "core1", "core2"}

Option(selected, mode, cycles, continue) ==
    [selected |-> selected, mode |-> mode, cycles |-> cycles, continue |-> continue]

CommandLines ==
    { Option(<<"core0", "core2">>, "cycle", cycles, continue) :
        cycles \in {0, 2}, continue \in BOOLEAN }
    \cup { Option(<<"core1">>, mode, 6, TRUE) : mode \in {"off", "on", "cycle"} }
=============================================================================
