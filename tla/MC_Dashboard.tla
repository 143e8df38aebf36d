---------------------------- MODULE MC_Dashboard ----------------------------
(* TLC instance of Dashboard: a few lines, two interrupts of the main thread. *)
EXTENDS Dashboard
=============================================================================
