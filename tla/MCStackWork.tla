------------------------------- MODULE MCStackWork -------------------------------
(* Instances of StackWork for TLC. *)
EXTENDS StackWork

PushesAndPops == {"push", "pop"}
===============================================================================
