-------------------------------- MODULE MCQsbr --------------------------------
(* Instances of Qsbr for TLC. *)
EXTENDS Qsbr, TLC

\* Objects are handed to safe_free() in the order of their numbers: any other
\* order is the same behaviour with the objects renamed.
InOrder == \A o, p \in Objects : o < p /\ status[p] # "linked" => status[o] # "linked"
===============================================================================
