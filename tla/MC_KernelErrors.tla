-------------------------- MODULE MC_KernelErrors --------------------------
(* TLC instance of KernelErrors: the cores only have to be told apart. *)
EXTENDS KernelErrors, TLC

CoreSymmetry == Permutations(Cores)
=============================================================================
