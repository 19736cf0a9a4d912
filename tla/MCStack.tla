-------------------------------- MODULE MCStack --------------------------------
(* Instances of Stack for TLC: sets of kinds for the Overlap parameter. *)
EXTENDS Stack

Pops == {"pop"}
Pushes == {"push"}
===============================================================================
