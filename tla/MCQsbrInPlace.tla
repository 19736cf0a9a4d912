----------------------------- MODULE MCQsbrInPlace -----------------------------
(* Instances of QsbrInPlace for TLC. *)
EXTENDS QsbrInPlace, TLC

\* The code tells neither threads nor objects apart.
Symmetric == Permutations(Threads) \cup Permutations(Objects)
===============================================================================
