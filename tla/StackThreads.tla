------------------------------ MODULE StackThreads ------------------------------
(***************************************************************************)
(* How the threads of nanahan::Stack get the indices that Stack takes for  *)
(* granted: get_index() (stack/stack.hpp) under the test program           *)
(* (stack/stack.cpp), which makes one stack after the other, each with     *)
(* threads of its own.  A thread is its pthread_t, which the system gives  *)
(* out again once a thread was joined.  get_index() holds index_lock_ from *)
(* its first to its last access, so that a call is a step.                 *)
(***************************************************************************)
EXTENDS Integers, FiniteSets

CONSTANTS
  Pthreads,      \* the values of pthread_t
  THREAD_MAX,    \* thread_max: threads per stack, and max_threads_ of each
  Tries          \* bound: all_tries, the stacks made one after the other

ASSUME ThreadsAssumption ==
  /\ THREAD_MAX \in Nat \ {0}
  /\ Tries \in Nat \ {0}
  /\ IsFiniteSet(Pthreads) /\ Cardinality(Pthreads) >= THREAD_MAX

VARIABLES
  stack,           \* number of the current stack, j + 1 of main()
  workers,         \* the threads main() has created for it
  left,            \* those of them that have returned from work()
  participated_,
  index,           \* pthread_getspecific(key_) of each thread, 0 if it is NULL
  binding,         \* the static map of get_index(): of each index, the threads bound (one or none)
  aborted          \* an assert() has failed

vars == <<stack, workers, left, participated_, index, binding, aborted>>

Indices == 1 .. Cardinality(Pthreads)

Init ==
  /\ stack = 1
  /\ workers = {} /\ left = {}
  /\ participated_ = 1
  /\ index = [p \in Pthreads |-> 0]
  /\ binding = [i \in Indices |-> {}]
  /\ aborted = FALSE

\* pthread_create() of main()
Create(p) ==
  /\ ~aborted
  /\ p \notin workers /\ Cardinality(workers) < THREAD_MAX
  /\ workers' = workers \cup {p}
  /\ UNCHANGED <<stack, left, participated_, index, binding, aborted>>

\* Mutant: participated_ is read, not incremented.
FirstIndex_NoAdd(p) ==
  /\ index[p] = 0
  /\ index' = [index EXCEPT ![p] = participated_]
  /\ UNCHANGED <<participated_, binding, aborted>>

\* get_index() on the first call of a thread: participated_.fetch_add(1).
FirstIndex(p) ==
  /\ index[p] = 0
  /\ index' = [index EXCEPT ![p] = participated_]
  /\ participated_' = participated_ + 1
  /\ UNCHANGED <<binding, aborted>>

\* On later calls: the index is bound to the thread, or asserted to be its own.
KnownIndex(p) ==
  LET i == index[p] IN
  /\ i # 0
  /\ \/ binding[i] = {} /\ binding' = [binding EXCEPT ![i] = {p}] /\ UNCHANGED aborted
     \/ binding[i] # {} /\ aborted' = (binding[i] # {p}) /\ UNCHANGED binding
  /\ UNCHANGED <<index, participated_>>

\* work() calls get_index() once, waits at the barrier for all the threads, and
\* calls it again in push() and pop().
BehindBarrier == Cardinality({p \in workers : index[p] # 0}) = THREAD_MAX

GetIndex(p) ==
  /\ ~aborted
  /\ p \in workers \ left
  /\ FirstIndex(p) \/ (BehindBarrier /\ KnownIndex(p))
  /\ UNCHANGED <<stack, workers, left>>

\* work() has pushed and popped, and returns.
Leave(p) ==
  /\ ~aborted
  /\ p \in workers \ left
  /\ index[p] # 0 /\ binding[index[p]] # {}
  /\ left' = left \cup {p}
  /\ UNCHANGED <<stack, workers, participated_, index, binding, aborted>>

\* main() joins its threads, destroys the stack and makes the next: a new key_
\* and a new participated_, but the binding is static.
NextStack ==
  /\ ~aborted
  /\ stack < Tries
  /\ Cardinality(left) = THREAD_MAX
  /\ stack' = stack + 1
  /\ workers' = {} /\ left' = {}
  /\ participated_' = 1
  /\ index' = [p \in Pthreads |-> 0]
  /\ UNCHANGED <<binding, aborted>>

Next ==
  \/ \E p \in Pthreads : Create(p) \/ GetIndex(p) \/ Leave(p)
  \/ NextStack

Spec == Init /\ [][Next]_vars

-------------------------------------------------------------------------------
(* Properties.                                                             *)

\* No two threads of a stack get the same index, and so the same slot of states_,
\* and none gets an index without a slot (stack.hpp:103-108, 124-132).
SlotsAreOwned ==
  \A p, q \in workers :
    /\ index[p] \in 0 .. THREAD_MAX
    /\ p # q => index[p] = 0 \/ index[p] # index[q]

\* The assertion of get_index(), that an index is bound to the thread that has it
\* (stack.hpp:141), holds for the first stack, however its threads meet; only a
\* later stack finds the indices bound to the threads of an earlier one.
FirstStackNeverAborts == aborted => stack > 1
===============================================================================
