--------------------------- MODULE MC_Supervisor ---------------------------
(* TLC instance of Supervisor with Scheduling: one iteration is asked for, the
   engine may report one more than that, and the operator may send two
   signals, with or without a stop request from before the call.
   No real-time priority is permitted, or only the engine's, or any. *)
EXTENDS Scheduling
=============================================================================
