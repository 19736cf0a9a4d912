------------------------------ MODULE Dictionary ------------------------------
(***************************************************************************)
(* What nanahan::Map promises its caller: a partial function from keys to  *)
(* values with the three operations of boost::unordered_map the map offers *)
(* (insert, find, erase).  Each operation is one step; out is the response *)
(* the caller receives.  HopscotchTable implements this specification.     *)
(***************************************************************************)
CONSTANTS
  Keys,      \* the key type
  Values,    \* the mapped type
  NULL       \* "no value": the key is absent, end() is returned

VARIABLES
  dict,      \* dict[k] is the value of k, NULL when k is absent
  out        \* the last response: operation, key and result

dictVars == <<dict, out>>

Response(op, k, res) == [op |-> op, key |-> k, res |-> res]

Init ==
  /\ dict = [k \in Keys |-> NULL]
  /\ out = Response("none", NULL, NULL)

\* insert() of an absent key stores the pair; of a present key it stores nothing.
Insert(k, v) ==
  \/ /\ dict[k] = NULL
     /\ dict' = [dict EXCEPT ![k] = v]
     /\ out' = Response("insert", k, "inserted")
  \/ /\ dict[k] # NULL
     /\ out' = Response("insert", k, "present")
     /\ UNCHANGED dict

\* A copy of the pair throws: the strong guarantee, nothing is inserted.
InsertThrows(k) ==
  /\ dict[k] = NULL
  /\ out' = Response("insert", k, "thrown")
  /\ UNCHANGED dict

Find(k) ==
  /\ out' = Response("find", k, dict[k])
  /\ UNCHANGED dict

\* erase() of a valid iterator, that is of a present key.
Erase(k) ==
  /\ dict[k] # NULL
  /\ dict' = [dict EXCEPT ![k] = NULL]
  /\ out' = Response("erase", k, "erased")

Next ==
  \E k \in Keys :
    \/ \E v \in Values : Insert(k, v)
    \/ InsertThrows(k)
    \/ Find(k)
    \/ Erase(k)

Spec == Init /\ [][Next]_dictVars
===============================================================================
