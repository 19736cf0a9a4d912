----------------------------- MODULE MCStackThreads -----------------------------
(* Instances of StackThreads for TLC: the constants are given in the .cfg files. *)
EXTENDS StackThreads
===============================================================================
