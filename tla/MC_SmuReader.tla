---------------------------- MODULE MC_SmuReader ----------------------------
(* TLC instance of SmuReader: the main thread and the dashboard thread. *)
EXTENDS SmuReader

TwoThreads == {"main", "ui"}
=============================================================================
