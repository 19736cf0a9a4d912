--------------------------- MODULE MapIterator_proof ---------------------------
(***************************************************************************)
(* Walks over a table of any size: ++ and -- pass over no pair and stay on *)
(* the array, for every value of SIZE.                                     *)
(***************************************************************************)
EXTENDS MapIterator, TLAPS

USE SizeAssumption

\* The pairs that are there are those of the start that were not erased.
Accounted ==
  /\ walk # "none" => used = start \ gone
  /\ walk = "backward" => gone = {}

\* The inductive invariant.
IInv == TypeOK /\ DereferencesLive /\ ForwardComplete /\ BackwardComplete /\ Accounted

\* ++ started on the array stays in bounds, and no pair is between the two.
LEMMA IncrementStops ==
  ASSUME NEW b \in Buckets, NEW c \in Incremented(b)
  PROVE  /\ c \in 0 .. SIZE /\ b < c
         /\ c = SIZE \/ c \in used
         /\ \A d \in Buckets : b < d /\ d < c => d \notin used
BY DEF Incremented, Buckets

\* The same of --.
LEMMA DecrementStops ==
  ASSUME NEW b \in 0 .. SIZE, NEW c \in Decremented(b)
  PROVE  /\ c \in Buckets /\ c < b
         /\ c = 0 \/ c \in used
         /\ \A d \in Buckets : c < d /\ d < b => d \notin used
BY DEF Decremented, Buckets

\* begin() is the first pair, or end() if there is none, whatever it reads there.
LEMMA FirstStops ==
  ASSUME NEW behind \in BOOLEAN, NEW c \in First(behind)
  PROVE  /\ c \in 0 .. SIZE
         /\ c = SIZE \/ c \in used
         /\ \A d \in Buckets : d < c => d \notin used
BY DEF First, Empty, Buckets

LEMMA InitIInv == Init => IInv
BY DEF Init, IInv, TypeOK, DereferencesLive, ForwardComplete, BackwardComplete,
       Accounted, End, Buckets, AtBegin

LEMMA StepIInv == IInv /\ [Next]_vars => IInv'
<1> SUFFICES ASSUME IInv, [Next]_vars PROVE IInv'
  OBVIOUS
<1> USE DEF IInv, TypeOK, DereferencesLive, ForwardComplete, Accounted, End
<1>1. ASSUME NEW b \in Buckets, Insert(b) PROVE IInv'
  BY <1>1 DEF Insert, BackwardComplete
<1>2. CASE Begin
  <2>1. PICK behind \in BOOLEAN : it' \in First(behind)
    BY <1>2 DEF Begin
  <2>2. /\ it' \in 0 .. SIZE
        /\ it' = SIZE \/ it' \in used
        /\ \A d \in Buckets : d < it' => d \notin used
    BY <2>1, FirstStops
  <2>. QED BY <1>2, <2>2 DEF Begin, StartWalk, BackwardComplete, Buckets
<1>3. CASE Dereference
  BY <1>3 DEF Dereference, Buckets, BackwardComplete
<1>4. CASE Increment
  <2>1. it \in Buckets /\ it' \in Incremented(it)
    BY <1>4 DEF Increment, Buckets
  <2>2. /\ it' \in 0 .. SIZE /\ it < it'
        /\ it' = SIZE \/ it' \in used
        /\ \A d \in Buckets : it < d /\ d < it' => d \notin used
    BY <2>1, IncrementStops
  <2>3. /\ walk = "forward" /\ it \in seen
        /\ UNCHANGED <<used, walk, start, seen, gone>>
    BY <1>4 DEF Increment
  <2>4. {b \in start : b < it'} \subseteq seen \cup gone
    <3> SUFFICES ASSUME NEW b \in start, b < it', b \notin gone PROVE b \in seen
      OBVIOUS
    <3>1. b \in used /\ b \in Buckets
      BY <2>3
    <3>2. b < it \/ b = it
      BY <2>1, <2>2, <3>1 DEF Buckets
    <3>. QED BY <2>3, <3>2
  <2>5. seen \subseteq {b \in start : b <= it'}
    BY <2>1, <2>2, <2>3 DEF Buckets
  <2>6. ForwardComplete'
    BY <2>3, <2>4, <2>5
  <2>7. TypeOK' /\ DereferencesLive' /\ Accounted'
    BY <2>2, <2>3
  <2>. QED BY <2>3, <2>6, <2>7 DEF BackwardComplete
<1>5. CASE AtEnd
  <2>1. AtBegin' => used = {}
    <3> SUFFICES ASSUME NEW behind \in BOOLEAN, (it \in First(behind))' PROVE used = {}
      BY DEF AtBegin
    <3>1. it' = SIZE /\ used' = used
      BY <1>5 DEF AtEnd, StartWalk
    <3>2. (0 .. SIZE - 1) \cap used = {}
      BY <3>1 DEF First
    <3>. QED BY <3>2 DEF Buckets
  <2>2. /\ walk' = "backward" /\ used' = used /\ start' = used
        /\ seen' = {} /\ gone' = {} /\ it' = SIZE
    BY <1>5 DEF AtEnd, StartWalk
  <2>3. {b \in used : b >= SIZE} = {}
    <3>1. \A b \in Buckets : ~(b >= SIZE)
      BY DEF Buckets
    <3>. QED BY <3>1
  <2>4. BackwardComplete'
    BY <2>1, <2>2, <2>3 DEF BackwardComplete
  <2>5. TypeOK' /\ DereferencesLive' /\ ForwardComplete' /\ Accounted'
    BY <2>2
  <2>. QED BY <2>4, <2>5
<1>6. CASE Decrement
  <2>1. PICK c \in Decremented(it) : it' = c /\ seen' = seen \cup {c}
    BY <1>6 DEF Decrement
  <2>2. /\ c \in Buckets /\ c < it
        /\ c = 0 \/ c \in used
        /\ \A d \in Buckets : c < d /\ d < it => d \notin used
    BY <2>1, DecrementStops
  <2>3. used = start /\ walk = "backward" /\ walk' = walk /\ used' = used /\ start' = start
    BY <1>6 DEF Decrement
  \* Were there no pair at or below c, the cursor would have been at begin().
  <2>4. c \in used
    <3>1. SUFFICES ASSUME c \notin used PROVE FALSE
      OBVIOUS
    <3>2. c = 0 /\ \A d \in Buckets : d < it => d \notin used
      BY <2>2, <3>1 DEF Buckets
    <3>3. it \in First(FALSE)
      <4>1. it = SIZE \/ it \in used
        BY <2>3
      <4>2. \A d \in 0 .. it - 1 : d \notin used
        BY <3>2, SizeAssumption DEF Buckets
      <4>3. (0 .. it - 1) \cap used = {}
        BY <4>2
      <4>. QED BY <4>1, <4>3 DEF First, Empty
    <3>. QED BY <1>6, <3>3 DEF Decrement, AtBegin
  <2>5. seen' = {b \in start' : b >= it'}
    <3>1. \A b \in start : b >= it' <=> b >= it \/ b = c
      <4>1. \A b \in Buckets : b >= c <=> b >= it \/ b = c \/ (c < b /\ b < it)
        BY <2>2 DEF Buckets
      <4>2. \A b \in start : b \in Buckets /\ b \in used
        BY <2>3
      <4>. QED BY <2>1, <2>2, <4>1, <4>2
    <3>2. seen = {b \in start : b >= it} /\ c \in start
      BY <2>3, <2>4 DEF BackwardComplete
    <3>3. seen \cup {c} = {b \in start : b >= it'}
      BY ONLY <3>1, <3>2
    <3>. QED BY <2>1, <2>3, <3>3
  <2>6. AtBegin' => seen' = start'
    <3> SUFFICES ASSUME NEW behind \in BOOLEAN, (it \in First(behind))' PROVE seen' = start'
      BY DEF AtBegin
    <3>1. \A d \in Buckets : d < it' => d \notin start
      <4>1. (0 .. it' - 1) \cap start = {}
        BY <2>3 DEF First
      <4>. QED BY <4>1, <2>1, <2>2 DEF Buckets
    <3>2. \A d \in start : d >= it'
      BY <3>1, <2>1, <2>2 DEF Buckets
    <3>. QED BY <3>2, <2>3, <2>5
  <2>7. gone' = gone
    BY <1>6 DEF Decrement
  <2>8. BackwardComplete'
    BY <2>5, <2>6 DEF BackwardComplete
  <2>9. TypeOK' /\ DereferencesLive'
    BY <2>1, <2>2, <2>3, <2>4, <2>7 DEF Buckets
  <2>. QED BY <2>3, <2>7, <2>8, <2>9
<1>7. ASSUME NEW b \in Buckets, Erase(b) PROVE IInv'
  BY <1>7 DEF Erase, BackwardComplete, Buckets
<1>8. CASE EndWalk
  BY <1>8 DEF EndWalk, BackwardComplete, Buckets
<1>9. CASE UNCHANGED vars
  BY <1>9 DEF vars, BackwardComplete, AtBegin, First, Empty
<1>. QED
  BY <1>1, <1>2, <1>3, <1>4, <1>5, <1>6, <1>7, <1>8, <1>9 DEF Next

\* The cursor of a walk never leaves the array (map.hpp:225-246, 682-688).
THEOREM Typing == Spec => []TypeOK
<1>1. IInv => TypeOK
  BY DEF IInv
<1>. QED BY InitIInv, StepIInv, <1>1, PTL DEF Spec

\* A walk dereferences only buckets that hold a pair, also while it erases.
THEOREM WalksAreLive == Spec => []DereferencesLive
<1>1. IInv => DereferencesLive
  BY DEF IInv
<1>. QED BY InitIInv, StepIInv, <1>1, PTL DEF Spec

\* Walks with ++ and with -- see every pair that is not erased before its turn.
THEOREM WalksAreComplete == Spec => []WalksComplete
<1>1. IInv => WalksComplete
  BY DEF IInv, WalksComplete
<1>. QED BY InitIInv, StepIInv, <1>1, PTL DEF Spec

===============================================================================
