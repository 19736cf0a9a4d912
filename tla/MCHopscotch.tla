------------------------------ MODULE MCHopscotch ------------------------------
(* Instances of HopscotchTable for TLC: the identity hash of boost::hash<int>. *)
EXTENDS HopscotchTable

\* The key is its own hash: the cfg chooses keys whose buckets interleave, and
\* that wrap around the end of the smaller tables.
MixedHash == [k \in Keys |-> k]
===============================================================================
