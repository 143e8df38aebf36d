------------------------------ MODULE MC_Panes ------------------------------
(* TLC instance of Panes: two cores and a fused-off slot between them; a sample
   shows the largest drop that is noise, or the smallest that counts. *)
EXTENDS Panes

TwoCores   == <<"core0", "core1">>
ThreeSlots == <<"core0", "none", "core1">>
=============================================================================
