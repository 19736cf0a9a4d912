------------------------------ MODULE MCMapObjects ------------------------------
(* An instance of MapObjects for TLC: the constants are given in the .cfg. *)
EXTENDS MapObjects, TLC

\* Maps, keys and values are interchangeable: none is chosen, compared or ordered.
Symmetry == Permutations(Maps) \cup Permutations(Keys) \cup Permutations(Values)
=================================================================================
