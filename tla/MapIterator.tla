------------------------------ MODULE MapIterator ------------------------------
(***************************************************************************)
(* The iterators of nanahan::Map (map/map.hpp): a cursor is the index of a *)
(* bucket, end() is the index behind the last one.  A client fills the     *)
(* table and walks over it, forwards from begin() or backwards from end(), *)
(* and erases pairs while it walks forwards.  Which bucket a pair is in is *)
(* the matter of HopscotchTable; here a table is the set of its used       *)
(* buckets.  Nothing is inserted during a walk: an insertion displaces     *)
(* pairs or replaces the array, and its cursors go stale.                  *)
(***************************************************************************)
EXTENDS Integers

CONSTANT SIZE   \* bucket_size_

ASSUME SizeAssumption == SIZE \in Nat \ {0}

VARIABLES
  used,    \* the buckets that hold a pair
  it,      \* it_, the client's cursor
  walk,    \* what the client does: "none", "forward" or "backward"
  start,   \* the buckets that held a pair when the walk began
  seen,    \* those whose pair the walk has dereferenced
  gone     \* those whose pair was erased during the walk

vars == <<used, it, walk, start, seen, gone>>

Buckets == 0 .. SIZE - 1
End == SIZE

\* Mutant: ++ does not look whether the bucket it reaches is empty.
Incremented_Blind(b) == {b + 1}

\* Mutant: ++ first looks at the second bucket after this one.
Incremented_Skips(b) ==
  {c \in b + 1 .. SIZE : (c = SIZE \/ c \in used \ {b + 1}) /\ (b + 2 .. c - 1) \cap used = {}}

\* Where the loops of ++ and -- stop when they start at bucket b: a set of one.
Incremented(b) ==
  {c \in b + 1 .. SIZE : (c = SIZE \/ c \in used) /\ (b + 1 .. c - 1) \cap used = {}}

Decremented(b) ==
  {c \in 0 .. b - 1 : (c = 0 \/ c \in used) /\ (c + 1 .. b - 1) \cap used = {}}

\* cbegin() looks at a bucket before it compares it with the bound, so that it
\* reads the word behind the array if there is no pair: "behind" is its used bit.
Empty(b, behind) == IF b = SIZE THEN ~behind ELSE b \notin used
First(behind) ==
  {c \in 0 .. SIZE : (~Empty(c, behind) \/ c = SIZE) /\ (0 .. c - 1) \cap used = {}}

-------------------------------------------------------------------------------
Init ==
  /\ used = {}
  /\ it = End
  /\ walk = "none"
  /\ start = {} /\ seen = {} /\ gone = {}

Insert(b) ==
  /\ walk = "none"
  /\ used' = used \cup {b}
  /\ UNCHANGED <<it, walk, start, seen, gone>>

StartWalk(direction) ==
  /\ walk = "none"
  /\ walk' = direction
  /\ start' = used /\ seen' = {} /\ gone' = {}
  /\ UNCHANGED used

\* for (it = begin(); it != end(); ++it) use(*it);
Begin ==
  /\ StartWalk("forward")
  /\ \E behind \in BOOLEAN : it' \in First(behind)

\* *it
Dereference ==
  /\ walk = "forward" /\ it # End
  /\ it \notin seen
  /\ seen' = seen \cup {it}
  /\ UNCHANGED <<used, it, walk, start, gone>>

Increment ==
  /\ walk = "forward" /\ it # End
  /\ it \in seen
  /\ it' \in Incremented(it)
  /\ UNCHANGED <<used, walk, start, seen, gone>>

\* for (it = end(); it != begin();) use(*--it);
AtEnd ==
  /\ StartWalk("backward")
  /\ it' = End

\* The walk stops at begin(), which cbegin() computes anew each time.
AtBegin == \E behind \in BOOLEAN : it \in First(behind)

Decrement ==
  /\ walk = "backward" /\ ~AtBegin
  /\ \E c \in Decremented(it) : it' = c /\ seen' = seen \cup {c}
  /\ UNCHANGED <<used, walk, start, gone>>

\* erase(where) during a walk, of the pair under the cursor or of another one.
Erase(b) ==
  /\ walk = "forward"
  /\ b \in used
  /\ b = it => it \in seen
  /\ used' = used \ {b}
  /\ gone' = gone \cup {b}
  /\ UNCHANGED <<it, walk, start, seen>>

EndWalk ==
  /\ walk # "none"
  /\ IF walk = "forward" THEN it = End ELSE AtBegin
  /\ walk' = "none"
  /\ UNCHANGED <<used, it, start, seen, gone>>

Next ==
  \/ \E b \in Buckets : Insert(b)
  \/ Begin
  \/ Dereference
  \/ Increment
  \/ AtEnd
  \/ Decrement
  \/ \E b \in Buckets : Erase(b)
  \/ EndWalk

Spec == Init /\ [][Next]_vars

-------------------------------------------------------------------------------
(* Properties.                                                             *)

\* Cursors stay on the array or right behind it, and the sets are of buckets.
TypeOK ==
  /\ used \subseteq Buckets /\ it \in 0 .. SIZE
  /\ walk \in {"none", "forward", "backward"}
  /\ start \subseteq Buckets /\ seen \subseteq Buckets /\ gone \subseteq Buckets

\* A walk only dereferences a bucket that holds a pair, whichever pairs were
\* erased around the cursor (map.hpp:225-230 after 565-588).
DereferencesLive ==
  /\ walk = "forward" /\ it # End /\ it \notin seen => it \in used
  /\ walk = "backward" /\ it # End => it \in used

\* ++ passes over no pair: those of the buckets before the cursor were all seen,
\* unless they were erased, and what was seen had been there at the start.
ForwardComplete ==
  walk = "forward" =>
    /\ {b \in start : b < it} \subseteq seen \cup gone
    /\ seen \subseteq {b \in start : b <= it}

\* -- passes over no pair either, and begin() is where it has seen them all,
\* although the last step tests the bound on the bucket it has just reached.
BackwardComplete ==
  walk = "backward" =>
    /\ seen = {b \in start : b >= it}
    /\ AtBegin => seen = start

\* Walks with ++ and with -- see every pair that is not erased before its turn.
WalksComplete == ForwardComplete /\ BackwardComplete

===============================================================================
