------------------------------ MODULE MCQsbrTest ------------------------------
(* Instances of QsbrTest for TLC. *)
EXTENDS QsbrTest, TLC

\* Workers are told apart by their object only, which has their name.
Symmetric == Permutations(Threads)
===============================================================================
