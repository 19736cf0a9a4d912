------------------------------ MODULE QsbrInPlace ------------------------------
(***************************************************************************)
(* The other nanahan qsbr (memory/qsbr.hpp), as far as it differs from     *)
(* memory/qsbr_persist.hpp, that is Qsbr.  safe_free() runs the destructor *)
(* of the object at once and puts the delete_pending_chain node into the   *)
(* memory of the object, so that the node of an object is the object; and  *)
(* attemt_delete() first moves the nodes it may delete to a chain of its   *)
(* own, then deletes and counts these.  Guards, clocks, scan and push are  *)
(* the same code in both files, and are Qsbr's actions.                    *)
(***************************************************************************)
EXTENDS Qsbr

VARIABLES
  destructed,   \* the objects whose destructor has run
  decided       \* per thread: decided_to_delete_chain

inPlaceVars == <<destructed, decided>>
allVars == <<vars, inPlaceVars>>

InPlaceInit ==
  /\ Init
  /\ destructed = {}
  /\ decided = [t \in Threads |-> NULL]

\* safe_free() of an object that the client has unlinked begins with ~T().
UnlinkAndDestruct(t, o) ==
  /\ Unlink(t, o)
  /\ destructed' = destructed \cup {o}
  /\ UNCHANGED decided

\* Mutant: the loop goes on from the node's next_ of after the move.
Move_ReadsLate(t) ==
  LET o == ptr[t] IN
  /\ o # NULL
  /\ Goto(t, "prune", "prune")
  /\ IF stamp[o] < least[t]
     THEN /\ next' = [next EXCEPT ![o] = decided[t], ![prev[t]] = next[o]]
          /\ decided' = [decided EXCEPT ![t] = o]
          /\ UNCHANGED prev
     ELSE /\ prev' = [prev EXCEPT ![t] = o]
          /\ UNCHANGED <<next, decided>>
  /\ ptr' = [ptr EXCEPT ![t] = next'[o]]
  /\ UNCHANGED <<clockVars, pending_head, stamp, center_clock, chain_length, clientVars, least,
                 deleted, lock, old, destroyed, destructed>>

\* One node of the first loop: moved to the decided chain, or stepped over.
Move(t) ==
  LET o == ptr[t] IN
  /\ o # NULL
  /\ Goto(t, "prune", "prune")
  /\ ptr' = [ptr EXCEPT ![t] = next[o]]
  /\ IF stamp[o] < least[t]
     THEN /\ next' = [next EXCEPT ![o] = decided[t], ![prev[t]] = next[o]]
          /\ decided' = [decided EXCEPT ![t] = o]
          /\ UNCHANGED prev
     ELSE /\ prev' = [prev EXCEPT ![t] = o]
          /\ UNCHANGED <<next, decided>>
  /\ UNCHANGED <<clockVars, pending_head, stamp, center_clock, chain_length, clientVars, least,
                 deleted, lock, old, destroyed, destructed>>

\* Mutant: the counter starts with the first node already counted.
FreeDecided_OneMore(t) ==
  LET o == decided[t] IN
  /\ pc[t] = "subtract" /\ o # NULL
  /\ status' = [status EXCEPT ![o] = "freed"]
  /\ decided' = [decided EXCEPT ![t] = next[o]]
  /\ deleted' = [deleted EXCEPT ![t] = IF @ = 0 THEN 2 ELSE @ + 1]
  /\ UNCHANGED <<clockVars, chainVars, refs, mine, least, ptr, prev, lock, pc, old, destroyed,
                 destructed>>

\* One node of the second loop: operator delete, without a destructor.
FreeDecided(t) ==
  LET o == decided[t] IN
  /\ pc[t] = "subtract" /\ o # NULL
  /\ status' = [status EXCEPT ![o] = "freed"]
  /\ decided' = [decided EXCEPT ![t] = next[o]]
  /\ deleted' = [deleted EXCEPT ![t] = @ + 1]
  /\ UNCHANGED <<clockVars, chainVars, refs, mine, least, ptr, prev, lock, pc, old, destroyed,
                 destructed>>

SubtractFreed(t) ==
  /\ decided[t] = NULL
  /\ Subtract(t)
  /\ UNCHANGED inPlaceVars

\* The steps that both files share: set_active() with new_chain(), the guard with
\* what its client reads, safe_free() after the destructor, scan_least_clock(), and
\* what surrounds the loops of attemt_delete().
SetActive(t) == LoadClock(t) \/ StoreClock(t)
NewChain(t) == Register(t) \/ LinkClock(t)
Guard(t) == Enter(t) \/ Leave(t) \/ \E o \in Objects : Acquire(t, o)
HandOver(t) == Stamp(t) \/ LoadHead(t) \/ Push(t) \/ Count(t)
ScanLeast(t) == ScanHead(t) \/ ScanClock(t)
Attempt(t) ==
  CheckLength(t) \/ TryLock(t) \/ RecheckLength(t) \/ LoadPending(t) \/ EndPrune(t) \/ Unlock(t)

Shared(t) ==
  /\ \/ SetActive(t) \/ NewChain(t) \/ Guard(t)
     \/ HandOver(t) \/ ScanLeast(t) \/ Attempt(t)
  /\ UNCHANGED inPlaceVars

InPlaceNext ==
  \/ \E t \in Threads :
       \/ Shared(t) \/ Move(t) \/ FreeDecided(t) \/ SubtractFreed(t)
       \/ \E o \in Objects : UnlinkAndDestruct(t, o)
  \/ Destroy /\ UNCHANGED inPlaceVars

InPlaceSpec == InPlaceInit /\ [][InPlaceNext]_allVars

-------------------------------------------------------------------------------
(* Properties.                                                             *)

\* The nodes on the chains that threads have decided to delete.
Decided == Reachable({decided[t] : t \in Threads} \ {NULL}, next)

\* A node is on one chain at a time: moving it from the pending chain, while other
\* threads push there, loses none, and puts none where it would be deleted twice
\* or met again by the next attempt (qsbr.hpp:88-126).
ListsPartition ==
  ~destroyed =>
    /\ Chain \cap Decided = {}
    /\ Chain \cup Decided = {o \in Objects : Pushed(o) /\ status[o] = "unlinked"}
    /\ \A a, b \in Chain \cup Decided : a # b => next[a] = NULL \/ next[a] # next[b]

\* Nothing is freed, as raw memory, whose destructor has not run, and the memory of
\* every object whose destructor has run is freed in the end (qsbr.hpp:148, 166-176).
DestructedThenFreed ==
  /\ \A o \in Objects : status[o] = "freed" => o \in destructed
  /\ destroyed => \A o \in destructed : status[o] = "freed"

\* chain_length_ counts the nodes of both chains, but for those that are pushed and
\* not yet counted or deleted and not yet subtracted (qsbr.hpp:120-127, 163).
InPlaceLength ==
  ~destroyed =>
    chain_length =
      (Cardinality(Chain \cup Decided) - Cardinality({t \in Threads : pc[t] = "count"})
       + (IF lock = NULL THEN 0 ELSE deleted[lock])) % Word
===============================================================================
