----------------------------- MODULE MCMapIterator -----------------------------
(* An instance of MapIterator for TLC: the size is given in the .cfg. *)
EXTENDS MapIterator
===============================================================================
