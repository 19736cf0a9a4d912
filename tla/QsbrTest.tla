-------------------------------- MODULE QsbrTest --------------------------------
(***************************************************************************)
(* The test program of the qsbr (memory/qsbr_test.cpp) on top of Qsbr:     *)
(* each worker looks at objects of a shared vector inside its guard, takes *)
(* its own object out and hands it to safe_free(); main() joins them all   *)
(* and destroys the qsbr.  The object of worker t is named t.  The barrier *)
(* of the workers orders nothing that they do to each other and is left    *)
(* out; so is the number of turns of the loop, which is a random number.   *)
(***************************************************************************)
EXTENDS Qsbr

ASSUME OwnObjectAssumption == Objects = Threads

VARIABLES
  hoges,      \* the shared vector: object t or NULL in the place of t
  place,      \* where each worker is in test_func()
  index,      \* the place it looks at
  segv        \* a worker has read through a NULL pointer

testVars == <<hoges, place, index, segv>>
allTestVars == <<vars, testVars>>

TestInit ==
  /\ Init
  /\ hoges = [t \in Threads |-> t]
  /\ place = [t \in Threads |-> "start"]
  /\ index = [t \in Threads |-> t]
  /\ segv = FALSE

At(t, where) == place[t] = where /\ pc[t] \in {"idle", "guarded"} /\ ~segv
GoTo(t, to) == place' = [place EXCEPT ![t] = to]

Start(t) ==
  /\ At(t, "start") /\ Enter(t)
  /\ GoTo(t, "look")
  /\ UNCHANGED <<hoges, index, segv>>

\* if (hoges[index])
Look(t, i) ==
  /\ At(t, "look") /\ pc[t] = "guarded"
  /\ hoges[i] # NULL
  /\ index' = [index EXCEPT ![t] = i]
  /\ GoTo(t, "load")
  /\ UNCHANGED <<vars, hoges, segv>>

\* hoges[index]->foo loads the pointer anew, and reads through it whatever it is.
Load(t) ==
  LET o == hoges[index[t]] IN
  /\ At(t, "load")
  /\ \/ o # NULL /\ Acquire(t, o) /\ GoTo(t, "read") /\ UNCHANGED segv
     \/ o = NULL /\ segv' = TRUE /\ UNCHANGED <<vars, place>>
  /\ UNCHANGED <<hoges, index>>

\* The object was read; the second if (hoges[index]) only guards a sum.
Read(t) ==
  /\ At(t, "read")
  /\ refs' = [refs EXCEPT ![t] = {}]
  /\ GoTo(t, "look")
  /\ UNCHANGED <<clockVars, chainVars, status, mine, pruneVars, lock, pc, old, destroyed,
                 hoges, index, segv>>

\* Mutant: the pointer stays in the vector.
TakeOut_Stays(t) ==
  /\ At(t, "look") /\ Unlink(t, t)
  /\ GoTo(t, "leave")
  /\ UNCHANGED <<hoges, index, segv>>

\* The place in the vector is cleared before safe_free() is called.
TakeOut(t) ==
  /\ At(t, "look") /\ Unlink(t, t)
  /\ hoges' = [hoges EXCEPT ![t] = NULL]
  /\ GoTo(t, "leave")
  /\ UNCHANGED <<index, segv>>

\* The guard's block ends.
End(t) ==
  /\ At(t, "leave") /\ Leave(t)
  /\ GoTo(t, "gone")
  /\ UNCHANGED <<hoges, index, segv>>

Inside(t) == ~segv /\ Step(t) /\ UNCHANGED testVars

\* main() joins the workers; then ~qsbr() runs.
Join ==
  /\ \A t \in Threads : At(t, "gone")
  /\ Destroy
  /\ UNCHANGED testVars

TestNext ==
  \/ \E t \in Threads :
       \/ Start(t) \/ Load(t) \/ Read(t) \/ TakeOut(t) \/ End(t) \/ Inside(t)
       \/ \E i \in Threads : Look(t, i)
  \/ Join

TestSpec == TestInit /\ [][TestNext]_allTestVars

-------------------------------------------------------------------------------
(* Properties.                                                             *)

\* Whatever the vector still points to is there: an object is freed only after it
\* was taken out, by whichever worker prunes (qsbr_test.cpp:51-53).
VectorPointsToLive == \A t \in Threads : hoges[t] # NULL => status[t] # "freed"

\* The program frees every object it has allocated by the time it ends, each in a
\* pruning or in the destructor (qsbr_test.cpp:75-78).
NothingLeftOver == destroyed => \A t \in Threads : status[t] = "freed"
===============================================================================
