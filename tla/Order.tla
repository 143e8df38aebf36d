------------------------------- MODULE Order -------------------------------
(***************************************************************************)
(* Finite sets of numbers in ascending order: Python's sorted, and the     *)
(* order in which Linux, the SMU and Prime95 number what they have.        *)
(***************************************************************************)
EXTENDS Integers, FiniteSets

Below(n, S) == {m \in S : m < n}

(* The members of S, the smallest first: the i-th is the one that i members do
   not exceed. *)
Ascending(S) ==
    [i \in 1 .. Cardinality(S) |-> CHOOSE n \in S : Cardinality({m \in S : m <= n}) = i]
=============================================================================
