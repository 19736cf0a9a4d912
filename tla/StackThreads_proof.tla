-------------------------- MODULE StackThreads_proof --------------------------
(***************************************************************************)
(* get_index() for any number of threads and stacks: the threads of a      *)
(* stack own different slots of states_ and every index has a slot; and    *)
(* the threads of the first stack always find their own binding.           *)
(***************************************************************************)
EXTENDS StackThreads, FiniteSetTheorems, TLAPS

\* The threads of this stack that have their index.
Counted == {p \in workers : index[p] # 0}

TypeInv ==
  /\ stack \in Nat \ {0}
  /\ workers \subseteq Pthreads /\ Cardinality(workers) <= THREAD_MAX
  /\ participated_ \in Nat \ {0}
  /\ index \in [Pthreads -> Nat]

\* participated_ counts the threads with an index; their indices are below it and
\* differ.
CountInv ==
  /\ participated_ = Cardinality(Counted) + 1
  /\ \A p \in Pthreads : index[p] < participated_
  /\ \A p \in Pthreads : index[p] # 0 => p \in workers
  /\ \A p, q \in Pthreads : p # q /\ index[p] # 0 => index[p] # index[q]

\* The inductive invariant.
IInv == TypeInv /\ CountInv

LEMMA WorkersFinite ==
  ASSUME TypeInv
  PROVE  /\ IsFiniteSet(workers) /\ IsFiniteSet(Counted)
         /\ Cardinality(workers) \in Nat /\ Cardinality(Counted) \in Nat
         /\ Cardinality(Counted) <= Cardinality(workers)
<1>1. IsFiniteSet(workers)
  BY ThreadsAssumption, FS_Subset DEF TypeInv
<1>2. Counted \subseteq workers
  BY DEF Counted
<1>. QED BY <1>1, <1>2, FS_Subset, FS_CardinalityType

LEMMA InitIInv == Init => IInv
<1> SUFFICES ASSUME Init PROVE IInv
  OBVIOUS
<1>1. Counted = {} /\ workers = {}
  BY DEF Init, Counted
<1>2. Cardinality({}) = 0
  BY FS_EmptySet
<1>. QED BY <1>1, <1>2, ThreadsAssumption DEF Init, IInv, TypeInv, CountInv

\* The step that matters: a thread gets participated_, which no other has.
LEMMA FirstIndexIInv ==
  ASSUME IInv, NEW p \in workers, FirstIndex(p), workers' = workers, stack' = stack
  PROVE  IInv'
<1>1. /\ p \in Pthreads /\ index[p] = 0
      /\ index' = [index EXCEPT ![p] = participated_]
      /\ participated_' = participated_ + 1
  BY DEF IInv, TypeInv, FirstIndex
<1>2. TypeInv'
  BY <1>1 DEF IInv, TypeInv
<1>3. Counted' = Counted \cup {p} /\ p \notin Counted
  BY <1>1 DEF IInv, TypeInv, Counted
<1>4. Cardinality(Counted') = Cardinality(Counted) + 1
  BY <1>3, WorkersFinite, FS_AddElement DEF IInv
<1>5. CountInv'
  <2>1. participated_' = Cardinality(Counted') + 1
    BY <1>1, <1>4 DEF IInv, CountInv
  <2>2. \A q \in Pthreads : index'[q] = IF q = p THEN participated_ ELSE index[q]
    BY <1>1 DEF IInv, TypeInv
  <2>. QED BY <1>1, <2>1, <2>2 DEF IInv, TypeInv, CountInv
<1>. QED BY <1>2, <1>5 DEF IInv

LEMMA StepIInv == IInv /\ [Next]_vars => IInv'
<1> SUFFICES ASSUME IInv, [Next]_vars PROVE IInv'
  OBVIOUS
<1> USE DEF IInv
<1>1. ASSUME NEW p \in Pthreads, Create(p) PROVE IInv'
  <2>1. /\ workers' = workers \cup {p} /\ p \notin workers
        /\ Cardinality(workers) < THREAD_MAX
        /\ UNCHANGED <<stack, participated_, index>>
    BY <1>1 DEF Create
  <2>2. Cardinality(workers') = Cardinality(workers) + 1
    BY <2>1, WorkersFinite, FS_AddElement
  <2>3. TypeInv'
    BY <2>1, <2>2, WorkersFinite, ThreadsAssumption DEF TypeInv
  <2>4. Counted' = Counted
    BY <2>1 DEF Counted, CountInv
  <2>. QED BY <2>1, <2>3, <2>4 DEF CountInv
<1>2. ASSUME NEW p \in Pthreads, GetIndex(p) PROVE IInv'
  <2>1. CASE FirstIndex(p)
    BY <1>2, <2>1, FirstIndexIInv DEF GetIndex
  <2>2. CASE KnownIndex(p)
    BY <1>2, <2>2 DEF GetIndex, KnownIndex, TypeInv, CountInv, Counted
  <2>. QED BY <1>2, <2>1, <2>2 DEF GetIndex
<1>3. ASSUME NEW p \in Pthreads, Leave(p) PROVE IInv'
  BY <1>3 DEF Leave, TypeInv, CountInv, Counted
<1>4. CASE NextStack
  <2>1. workers' = {} /\ participated_' = 1 /\ index' = [q \in Pthreads |-> 0] /\ stack' = stack + 1
    BY <1>4 DEF NextStack
  <2>2. Counted' = {} /\ Cardinality({}) = 0
    BY <2>1, FS_EmptySet DEF Counted
  <2>. QED BY <2>1, <2>2, ThreadsAssumption DEF TypeInv, CountInv
<1>5. CASE UNCHANGED vars
  BY <1>5 DEF vars, TypeInv, CountInv, Counted
<1>. QED BY <1>1, <1>2, <1>3, <1>4, <1>5 DEF Next

\* No two threads of a stack share a slot of states_, and no thread is without one
\* (stack.hpp:103-108, 124-132).
THEOREM SlotsOwned == Spec => []SlotsAreOwned
<1>1. IInv => SlotsAreOwned
  <2> SUFFICES ASSUME IInv PROVE SlotsAreOwned
    OBVIOUS
  <2>1. participated_ <= THREAD_MAX + 1
    BY WorkersFinite, ThreadsAssumption DEF IInv, TypeInv, CountInv
  <2>. QED BY <2>1, ThreadsAssumption DEF IInv, TypeInv, CountInv, SlotsAreOwned
<1>. QED BY InitIInv, StepIInv, <1>1, PTL DEF Spec

-------------------------------------------------------------------------------
(* The assertion of get_index().                                           *)

\* On the first stack an index is bound to the thread that has it, or to none.
BindInv ==
  /\ binding \in [Indices -> SUBSET Pthreads]
  /\ FirstStackNeverAborts
  /\ stack = 1 =>
       \A i \in Indices : binding[i] # {} => \E p \in Pthreads : index[p] = i /\ binding[i] = {p}

LEMMA IndexInRange ==
  ASSUME IInv, NEW p \in Pthreads, index[p] # 0
  PROVE  index[p] \in Indices
<1>1. participated_ <= THREAD_MAX + 1
  BY WorkersFinite, ThreadsAssumption DEF IInv, TypeInv, CountInv
<1>2. Cardinality(Pthreads) \in Nat
  BY ThreadsAssumption, FS_CardinalityType
<1>. QED BY <1>1, <1>2, ThreadsAssumption DEF IInv, TypeInv, CountInv, Indices

\* The thread that has an index finds it free or bound to itself.
LEMMA KnownIndexBinds ==
  ASSUME IInv, BindInv, NEW p \in Pthreads, KnownIndex(p), stack' = stack
  PROVE  BindInv'
<1> DEFINE i == index[p]
<1>1. i \in Indices /\ index' = index /\ i # 0
  BY IndexInRange DEF KnownIndex
<1>2. CASE binding[i] = {} /\ binding' = [binding EXCEPT ![i] = {p}] /\ aborted' = aborted
  BY <1>1, <1>2 DEF BindInv, FirstStackNeverAborts
<1>3. CASE binding[i] # {} /\ aborted' = (binding[i] # {p}) /\ binding' = binding
  <2>1. stack = 1 => binding[i] = {p}
    BY <1>1, <1>3 DEF BindInv, IInv, CountInv
  <2>2. stack = 1 => ~ aborted'
    BY <1>3, <2>1
  <2>3. aborted' => stack' > 1
    BY <2>2 DEF IInv, TypeInv
  <2>. QED BY <1>1, <1>3, <2>3 DEF BindInv, FirstStackNeverAborts
<1>. QED BY <1>1, <1>2, <1>3 DEF KnownIndex

LEMMA StepBindInv == IInv /\ BindInv /\ [Next]_vars => BindInv'
<1> SUFFICES ASSUME IInv, BindInv, [Next]_vars PROVE BindInv'
  OBVIOUS
<1>1. ASSUME NEW p \in Pthreads, Create(p) PROVE BindInv'
  BY <1>1 DEF Create, BindInv, FirstStackNeverAborts
<1>2. ASSUME NEW p \in Pthreads, GetIndex(p) PROVE BindInv'
  <2>1. CASE FirstIndex(p)
    <3>1. /\ index[p] = 0 /\ index' = [index EXCEPT ![p] = participated_]
          /\ UNCHANGED <<binding, aborted, stack>>
      BY <1>2, <2>1 DEF GetIndex, FirstIndex
    <3>2. \A q \in Pthreads : index[q] # 0 => index'[q] = index[q]
      BY <3>1 DEF IInv, TypeInv
    <3>3. 0 \notin Indices
      BY DEF Indices
    <3>. QED BY <3>1, <3>2, <3>3 DEF BindInv, FirstStackNeverAborts
  <2>2. CASE KnownIndex(p)
    BY <1>2, <2>2, KnownIndexBinds DEF GetIndex
  <2>. QED BY <1>2, <2>1, <2>2 DEF GetIndex
<1>3. ASSUME NEW p \in Pthreads, Leave(p) PROVE BindInv'
  BY <1>3 DEF Leave, BindInv, FirstStackNeverAborts
<1>4. CASE NextStack
  <2>1. ~ aborted' /\ binding' = binding /\ stack' = stack + 1 /\ stack' # 1
    BY <1>4 DEF NextStack, IInv, TypeInv
  <2>. QED BY <2>1 DEF BindInv, FirstStackNeverAborts
<1>5. CASE UNCHANGED vars
  BY <1>5 DEF vars, BindInv, FirstStackNeverAborts
<1>. QED BY <1>1, <1>2, <1>3, <1>4, <1>5 DEF Next

\* An index handed to a thread of the first stack is bound to that thread or to
\* none, so that the assertion of stack.hpp:141 holds while the first stack lives.
THEOREM FirstStackKeepsAssertion == Spec => []FirstStackNeverAborts
<1>1. Init => BindInv
  BY DEF Init, BindInv, FirstStackNeverAborts
<1>2. BindInv => FirstStackNeverAborts
  BY DEF BindInv
<1>. QED BY InitIInv, StepIInv, StepBindInv, <1>1, <1>2, PTL DEF Spec
===============================================================================
