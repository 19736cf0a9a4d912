-------------------------------- MODULE MapValues --------------------------------
(***************************************************************************)
(* What the whole-object operations of nanahan::Map promise: every map is  *)
(* a value of its own.  A copy has the contents of its original, and what  *)
(* happens to one map afterwards does not show in another.  MapObjects     *)
(* implements this specification.                                          *)
(***************************************************************************)
CONSTANTS Maps, Keys, Values, NULL

VARIABLE value     \* of each map: does the object exist, and what it maps

Empty == [k \in Keys |-> NULL]
NoObject == [live |-> FALSE, dict |-> Empty]
Object(d) == [live |-> TRUE, dict |-> d]

Init == value = [x \in Maps |-> NoObject]

Construct(x) == ~value[x].live /\ value' = [value EXCEPT ![x] = Object(Empty)]
Destroy(x) == value[x].live /\ value' = [value EXCEPT ![x] = NoObject]

Put(x, k, v) == value[x].live /\ value' = [value EXCEPT ![x].dict[k] = v]

\* The copy constructor makes x, assignment replaces it.
Copy(x, y) == value[y].live /\ value' = [value EXCEPT ![x] = value[y]]

\* A map that has lost its value may be swapped as well.
Swap(x, y) == value' = [value EXCEPT ![x] = value[y], ![y] = value[x]]

Next ==
  \E x \in Maps :
    \/ Construct(x) \/ Destroy(x)
    \/ \E k \in Keys, v \in Values \cup {NULL} : Put(x, k, v)
    \/ \E y \in Maps : Copy(x, y) \/ Swap(x, y)

Spec == Init /\ [][Next]_value
==================================================================================
