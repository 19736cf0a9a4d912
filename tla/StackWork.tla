-------------------------------- MODULE StackWork --------------------------------
(***************************************************************************)
(* The test program of the stack (stack/stack.cpp): after one barrier every*)
(* thread calls push() Tries times and then pop() Tries times, at its own  *)
(* pace.  MaxPush = N * Tries, and everything overlaps.                    *)
(***************************************************************************)
EXTENDS Stack

CONSTANT Tries      \* the program's thread_tries

VARIABLE calls      \* the calls of push() and pop() each thread has made

workVars == <<vars, calls>>

WorkInit == Init /\ calls = [t \in Threads |-> 0]

Counted(t) == calls' = [calls EXCEPT ![t] = @ + 1]

WorkPush(t) ==
  /\ calls[t] < Tries
  /\ Begin(t, "push", pushes + 1)
  /\ pushes' = pushes + 1 /\ UNCHANGED pops
  /\ Counted(t)

\* The last pop of the thread threw: work() prints "invalid!!!" and exits.
Threw(t) == calls[t] > Tries /\ pc[t] = "idle" /\ answer[t] = NULL

WorkPop(t) ==
  /\ calls[t] \in Tries..(2 * Tries - 1) /\ ~Threw(t)
  /\ Begin(t, "pop", NULL)
  /\ pops' = pops + 1 /\ UNCHANGED pushes
  /\ Counted(t)

\* main() joins the threads and leaves the scope of the stack.
Join ==
  /\ \A t \in Threads : calls[t] = 2 * Tries /\ ~Threw(t)
  /\ Destroy
  /\ UNCHANGED calls

WorkNext ==
  \/ \E t \in Threads : WorkPush(t) \/ WorkPop(t) \/ (Step(t) /\ UNCHANGED calls)
  \/ Join

WorkSpec == WorkInit /\ [][WorkNext]_workVars

-------------------------------------------------------------------------------
(* What the code does not keep, beside NoLoop.                             *)

\* A helper that finds head_ NULL has reached the point where a pop finds nothing
\* (stack/stack.hpp:342), and pop() throws length_error then (295-298): nobody reads
\* through the NULL.  Two threads with one push and one pop each break it.
NoNullHead == crashed # "nullHead"
===============================================================================
