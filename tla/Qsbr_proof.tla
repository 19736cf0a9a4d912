------------------------------ MODULE Qsbr_proof ------------------------------
(***************************************************************************)
(* Theorems about Qsbr, its variant QsbrInPlace and the test program       *)
(* QsbrTest, for any number of threads and objects.  The steps that both   *)
(* files of the source share are steps of Qsbr; for the variant what is    *)
(* left are the two loops of its attemt_delete().  The steps of the test   *)
(* program are steps of Qsbr too, except that a worker drops the reference *)
(* it has read through.  Its assumption about objects is used in the last  *)
(* part only.                                                              *)
(***************************************************************************)
EXTENDS QsbrInPlace, QsbrTest, FiniteSetTheorems, TLAPS

\* What the variables a thread uses hold depends on the place it is at.
PlaceTypes ==
  \A t \in Threads :
    /\ pc[t] = "link" => old[t] \in Threads \cup {NULL}
    /\ pc[t] = "storeClock" => old[t] \in Nat
    /\ pc[t] \in {"stamp", "load", "push", "count"} => mine[t] \in Objects
    /\ pc[t] = "scan" => ptr[t] \in Threads \cup {NULL}
    /\ pc[t] = "prune" => ptr[t] \in Objects \cup {NULL} /\ prev[t] \in Objects

TypeInv == TypeOK /\ PlaceTypes

\* Unsigned words stay words, whatever is added or subtracted.
LEMMA WordRange == ASSUME NEW x \in Int PROVE x % Word \in 0..MAX
  BY QsbrAssumption DEF MAX

\* ~0 is a number.
LEMMA MaxNat == MAX \in Nat
  BY QsbrAssumption DEF MAX

\* The initial state is well typed.
LEMMA TypeInit == Init => TypeInv
<1>1. ASSUME Init PROVE TypeOK
  <2>1. chain_length \in 0..MAX
    BY MaxNat, <1>1 DEF Init
  <2>2. least \in [Threads -> Nat]
    BY MaxNat, <1>1 DEF Init
  <2>3. old \in [Threads -> Threads \cup Objects \cup {NULL} \cup Nat]
    BY <1>1 DEF Init
  <2>4. registered \in [Threads -> BOOLEAN] /\ destroyed \in BOOLEAN
    BY <1>1 DEF Init
  <2>5. status \in [Objects -> {"linked", "unlinked", "freed"}] /\ pc \in [Threads -> Places]
    BY <1>1 DEF Init, Places
  <2>6. clock \in [Threads -> Nat] /\ stamp \in [Objects -> Nat] /\ deleted \in [Threads -> Nat]
    BY <1>1 DEF Init
  <2> QED BY <2>1, <2>2, <2>3, <2>4, <2>5, <2>6, <1>1 DEF Init, TypeOK
<1>2. ASSUME Init PROVE PlaceTypes
  BY <1>2 DEF Init, PlaceTypes
<1> QED BY <1>1, <1>2 DEF TypeInv

\* Every step of a thread keeps the types.
LEMMA TypeStep == TypeInv /\ [Next]_vars => TypeInv'
<1> SUFFICES ASSUME TypeInv, [Next]_vars PROVE TypeInv'
  OBVIOUS
<1> USE DEF TypeInv, TypeOK, PlaceTypes, Places, Goto, vars, clockVars, chainVars, clientVars,
            pruneVars
<1>1. ASSUME NEW t \in Threads, Enter(t) PROVE TypeInv'
  BY <1>1 DEF Enter
<1>2. ASSUME NEW t \in Threads, Register(t) PROVE TypeInv'
  BY <1>2 DEF Register
<1>3. ASSUME NEW t \in Threads, LinkClock(t) PROVE TypeInv'
  BY <1>3 DEF LinkClock
<1>4. ASSUME NEW t \in Threads, LoadClock(t) PROVE TypeInv'
  BY <1>4 DEF LoadClock
<1>5. ASSUME NEW t \in Threads, StoreClock(t) PROVE TypeInv'
  BY <1>5 DEF StoreClock
<1>6. ASSUME NEW t \in Threads, NEW o \in Objects, Acquire(t, o) PROVE TypeInv'
  BY <1>6 DEF Acquire
<1>7. ASSUME NEW t \in Threads, NEW o \in Objects, Unlink(t, o) PROVE TypeInv'
  BY <1>7 DEF Unlink
<1>8. ASSUME NEW t \in Threads, Stamp(t) PROVE TypeInv'
  BY <1>8 DEF Stamp
<1>9. ASSUME NEW t \in Threads, LoadHead(t) PROVE TypeInv'
  BY <1>9 DEF LoadHead
<1>10. ASSUME NEW t \in Threads, Push(t) PROVE TypeInv'
  BY <1>10 DEF Push
<1>11. ASSUME NEW t \in Threads, Count(t) PROVE TypeInv'
  BY <1>11, WordRange DEF Count
<1>12. ASSUME NEW t \in Threads, Leave(t) PROVE TypeInv'
  BY <1>12 DEF Leave
<1>13. ASSUME NEW t \in Threads, CheckLength(t) PROVE TypeInv'
  BY <1>13 DEF CheckLength
<1>14. ASSUME NEW t \in Threads, TryLock(t) PROVE TypeInv'
  BY <1>14 DEF TryLock
<1>15. ASSUME NEW t \in Threads, RecheckLength(t) PROVE TypeInv'
  BY <1>15 DEF RecheckLength
<1>16. ASSUME NEW t \in Threads, ScanHead(t) PROVE TypeInv'
  BY <1>16, MaxNat DEF ScanHead
<1>17. ASSUME NEW t \in Threads, ScanClock(t) PROVE TypeInv'
  BY <1>17 DEF ScanClock
<1>18. ASSUME NEW t \in Threads, LoadPending(t) PROVE TypeInv'
  BY <1>18 DEF LoadPending, SpineExists
<1>19. ASSUME NEW t \in Threads, Prune(t) PROVE TypeInv'
  BY <1>19 DEF Prune
<1>20. ASSUME NEW t \in Threads, EndPrune(t) PROVE TypeInv'
  BY <1>20 DEF EndPrune
<1>21. ASSUME NEW t \in Threads, Subtract(t) PROVE TypeInv'
  BY <1>21, WordRange DEF Subtract
<1>22. ASSUME NEW t \in Threads, Unlock(t) PROVE TypeInv'
  BY <1>22 DEF Unlock
<1>23. CASE Destroy
  BY <1>23 DEF Destroy
<1>24. CASE UNCHANGED vars
  BY <1>24
<1> QED BY <1>1, <1>2, <1>3, <1>4, <1>5, <1>6, <1>7, <1>8, <1>9, <1>10, <1>11, <1>12, <1>13,
          <1>14, <1>15, <1>16, <1>17, <1>18, <1>19, <1>20, <1>21, <1>22, <1>23, <1>24 DEF Next,
          Step

\* TypeInv is an invariant of the specification.
LEMMA TypeInvHolds == Spec => []TypeInv
  BY TypeInit, TypeStep, PTL DEF Spec

\* Every variable of the reclamation scheme keeps its type (TypeOK of Qsbr).
THEOREM Typing == Spec => []TypeOK
<1>1. TypeInv => TypeOK
  BY DEF TypeInv
<1> QED BY TypeInvHolds, <1>1, PTL

-------------------------------------------------------------------------------
(* StampsProtect.  A reference is taken to a linked object, which has no   *)
(* stamp yet, by a thread whose clock is not ahead of center_clock_; the   *)
(* stamp the object gets later is ahead of center_clock_.                  *)

\* The clock a thread announces, and before that the one it is about to
\* announce, is a past value of center_clock.
ClocksInPast ==
  \A t \in Threads :
    /\ clock[t] <= center_clock
    /\ pc[t] = "storeClock" => 0 < old[t] /\ old[t] <= center_clock
    /\ pc[t] \in Guarded => 0 < clock[t]

\* References are held inside the guard only.
RefsInGuard == \A t \in Threads : pc[t] \notin Guarded => refs[t] = {}

\* An object is stamped after it was unlinked.
StampedAfterUnlink ==
  /\ \A o \in Objects : status[o] = "linked" => stamp[o] = 0
  /\ \A t \in Threads : pc[t] = "stamp" => status[mine[t]] # "linked"

StampInv == ClocksInPast /\ RefsInGuard /\ StampedAfterUnlink /\ StampsProtect

\* No object is stamped yet.
LEMMA StampInit == Init => StampInv
  BY DEF Init, StampInv, ClocksInPast, RefsInGuard, StampedAfterUnlink, StampsProtect, Guarded

\* Every step keeps the order of clocks and stamps.
LEMMA StampStep == TypeInv /\ StampInv /\ [Next]_vars => StampInv'
<1> SUFFICES ASSUME TypeInv, StampInv, [Next]_vars PROVE StampInv'
  OBVIOUS
<1> USE DEF TypeInv, TypeOK, PlaceTypes, Guarded, Goto, vars, clockVars, chainVars, clientVars,
            pruneVars, StampInv, ClocksInPast, RefsInGuard, StampedAfterUnlink, StampsProtect
<1>1. ASSUME NEW t \in Threads, Enter(t) PROVE StampInv'
  BY <1>1 DEF Enter
<1>2. ASSUME NEW t \in Threads, Register(t) PROVE StampInv'
  BY <1>2 DEF Register
<1>3. ASSUME NEW t \in Threads, LinkClock(t) PROVE StampInv'
  BY <1>3 DEF LinkClock
<1>4. ASSUME NEW t \in Threads, LoadClock(t) PROVE StampInv'
  BY <1>4 DEF LoadClock
<1>5. ASSUME NEW t \in Threads, StoreClock(t) PROVE StampInv'
  BY <1>5 DEF StoreClock
<1>6. ASSUME NEW t \in Threads, NEW o \in Objects, Acquire(t, o) PROVE StampInv'
  BY <1>6 DEF Acquire
<1>7. ASSUME NEW t \in Threads, NEW o \in Objects, Unlink(t, o) PROVE StampInv'
  BY <1>7 DEF Unlink
<1>8. ASSUME NEW t \in Threads, Stamp(t) PROVE StampInv'
  BY <1>8 DEF Stamp
<1>9. ASSUME NEW t \in Threads, LoadHead(t) PROVE StampInv'
  BY <1>9 DEF LoadHead
<1>10. ASSUME NEW t \in Threads, Push(t) PROVE StampInv'
  BY <1>10 DEF Push
<1>11. ASSUME NEW t \in Threads, Count(t) PROVE StampInv'
  BY <1>11 DEF Count
<1>12. ASSUME NEW t \in Threads, Leave(t) PROVE StampInv'
  BY <1>12 DEF Leave
<1>13. ASSUME NEW t \in Threads, CheckLength(t) PROVE StampInv'
  BY <1>13 DEF CheckLength
<1>14. ASSUME NEW t \in Threads, TryLock(t) PROVE StampInv'
  BY <1>14 DEF TryLock
<1>15. ASSUME NEW t \in Threads, RecheckLength(t) PROVE StampInv'
  BY <1>15 DEF RecheckLength
<1>16. ASSUME NEW t \in Threads, ScanHead(t) PROVE StampInv'
  BY <1>16 DEF ScanHead
<1>17. ASSUME NEW t \in Threads, ScanClock(t) PROVE StampInv'
  BY <1>17 DEF ScanClock
<1>18. ASSUME NEW t \in Threads, LoadPending(t) PROVE StampInv'
  BY <1>18 DEF LoadPending
<1>19. ASSUME NEW t \in Threads, Prune(t) PROVE StampInv'
  BY <1>19 DEF Prune
<1>20. ASSUME NEW t \in Threads, EndPrune(t) PROVE StampInv'
  BY <1>20 DEF EndPrune
<1>21. ASSUME NEW t \in Threads, Subtract(t) PROVE StampInv'
  BY <1>21 DEF Subtract
<1>22. ASSUME NEW t \in Threads, Unlock(t) PROVE StampInv'
  BY <1>22 DEF Unlock
<1>23. CASE Destroy
  BY <1>23 DEF Destroy
<1>24. CASE UNCHANGED vars
  BY <1>24
<1> QED BY <1>1, <1>2, <1>3, <1>4, <1>5, <1>6, <1>7, <1>8, <1>9, <1>10, <1>11, <1>12, <1>13,
          <1>14, <1>15, <1>16, <1>17, <1>18, <1>19, <1>20, <1>21, <1>22, <1>23, <1>24 DEF Next,
          Step

\* The stamps of safe_free() are later than the clock of every thread that can
\* still reach the object, for any number of threads (StampsProtect of Qsbr).
THEOREM StampsAreSound == Spec => []StampsProtect
<1>1. StampInv => StampsProtect
  BY DEF StampInv
<1> QED BY TypeInvHolds, StampInit, StampStep, <1>1, PTL DEF Spec

-------------------------------------------------------------------------------
(* NeverCrashes.  While the chain has fewer than two nodes chain_length_   *)
(* is exact enough to keep every thread away from the pruning; once it has *)
(* two, neither pushing nor pruning takes it below two again.              *)

\* Thread t still owns the node it is about to push.
Pushing == {"stamp", "load", "push"}

\* Object p has been pushed: nobody prepares it, nobody can unlink it.
Handed(p) ==
  /\ status[p] # "linked"
  /\ \A u \in Threads : pc[u] \in Pushing => mine[u] # p

\* Everything the list structure points to has been pushed.
PointersHanded ==
  /\ pending_head # NULL => Handed(pending_head)
  /\ \A o \in Objects : next[o] # NULL => Handed(next[o])
  /\ \A t \in Threads : pc[t] = "push" /\ old[t] # NULL => Handed(old[t])
  /\ \A t \in Threads : pc[t] = "prune" =>
       Handed(prev[t]) /\ (ptr[t] # NULL => Handed(ptr[t]))

\* Nodes under preparation are private.
NodesPrivate ==
  \A t \in Threads : pc[t] \in Pushing =>
    /\ status[mine[t]] # "linked"
    /\ \A u \in Threads : pc[u] \in Pushing /\ mine[u] = mine[t] => u = t
    /\ pc[t] = "push" => next[mine[t]] = old[t]

\* No pushed node points to the first one, and no cursor is at the first one.
HeadSafe ==
  pending_head # NULL =>
    /\ \A o \in Objects : Handed(o) => next[o] # pending_head
    /\ \A t \in Threads : pc[t] = "prune" =>
         prev[t] # pending_head /\ ptr[t] # pending_head

NobodyCounts == \A t \in Threads : pc[t] # "count"

OneCounts == \A t, u \in Threads : pc[t] = "count" /\ pc[u] = "count" => t = u

\* What chain_length_ is worth while the chain is short.
ShortChainCounted ==
  ~destroyed /\ ~SpineExists =>
    /\ pending_head = NULL => chain_length = 0 /\ NobodyCounts
    /\ pending_head # NULL =>
         (chain_length = 1 /\ NobodyCounts) \/ (chain_length = 0 /\ OneCounts)

\* A thread that prunes, or is about to, has two nodes to step over.
PrunersHaveSpine ==
  \A t \in Threads : pc[t] \in {"scanHead", "scan", "prune", "subtract"} => SpineExists

DestroyedIsIdle == destroyed => \A t \in Threads : pc[t] = "idle"

SpineInv ==
  /\ PointersHanded
  /\ NodesPrivate
  /\ HeadSafe
  /\ ShortChainCounted
  /\ PrunersHaveSpine
  /\ DestroyedIsIdle
  /\ NeverCrashes

\* A length above the threshold is only read when there are two nodes.
LEMMA LongChainHasSpine ==
  ASSUME TypeInv, SpineInv, OverThreshold, ~destroyed PROVE SpineExists
  BY QsbrAssumption DEF SpineInv, ShortChainCounted, OverThreshold, TypeInv, TypeOK

\* One is a word.
LEMMA WordAboveOne == 1 % Word = 1
<1>1. Cardinality(Objects) \in Nat
  BY QsbrAssumption, FS_CardinalityType
<1>2. Word \in Nat /\ 1 < Word
  BY <1>1, QsbrAssumption
<1> QED BY <1>2

\* No thread prunes yet.
LEMMA SpineInit == Init => SpineInv
  BY DEF Init, SpineInv, PointersHanded, NodesPrivate, HeadSafe, ShortChainCounted,
         PrunersHaveSpine, DestroyedIsIdle, NeverCrashes, NobodyCounts, Pushing, SpineExists

\* Every step keeps two nodes in front of whoever prunes.
LEMMA SpineStep == TypeInv /\ SpineInv /\ [Next]_vars => SpineInv'
<1> SUFFICES ASSUME TypeInv, SpineInv, [Next]_vars PROVE SpineInv'
  OBVIOUS
<1> USE DEF TypeInv, TypeOK, PlaceTypes, Places, Goto, vars, clockVars, chainVars, clientVars,
            pruneVars, SpineInv, PointersHanded, NodesPrivate, HeadSafe, ShortChainCounted,
            PrunersHaveSpine, DestroyedIsIdle, NeverCrashes, NobodyCounts, OneCounts,
            Pushing, SpineExists, Handed
<1>1. ASSUME NEW t \in Threads, Enter(t) PROVE SpineInv'
  BY <1>1 DEF Enter
<1>2. ASSUME NEW t \in Threads, Register(t) PROVE SpineInv'
  BY <1>2 DEF Register
<1>3. ASSUME NEW t \in Threads, LinkClock(t) PROVE SpineInv'
  BY <1>3 DEF LinkClock
<1>4. ASSUME NEW t \in Threads, LoadClock(t) PROVE SpineInv'
  BY <1>4 DEF LoadClock
<1>5. ASSUME NEW t \in Threads, StoreClock(t) PROVE SpineInv'
  BY <1>5 DEF StoreClock
<1>6. ASSUME NEW t \in Threads, NEW o \in Objects, Acquire(t, o) PROVE SpineInv'
  BY <1>6 DEF Acquire
<1>7. ASSUME NEW t \in Threads, NEW o \in Objects, Unlink(t, o) PROVE SpineInv'
  BY <1>7 DEF Unlink
<1>8. ASSUME NEW t \in Threads, Stamp(t) PROVE SpineInv'
  BY <1>8 DEF Stamp
<1>9. ASSUME NEW t \in Threads, LoadHead(t) PROVE SpineInv'
  BY <1>9 DEF LoadHead
<1>10. ASSUME NEW t \in Threads, Push(t) PROVE SpineInv'
  <2>1. CASE pending_head = old[t]
    <3>1. pending_head' = mine[t] /\ Handed(mine[t])'
      BY <1>10, <2>1 DEF Push
    <3>2. PointersHanded'
      BY <1>10, <2>1, <3>1 DEF Push
    <3>3. NodesPrivate'
      BY <1>10, <2>1 DEF Push
    <3>4. HeadSafe'
      BY <1>10, <2>1 DEF Push
    <3>5. CASE pending_head = NULL
      <4>1. chain_length' = 0 /\ OneCounts'
        BY <1>10, <2>1, <3>5 DEF Push
      <4>2. pending_head' # NULL
        BY <3>1, QsbrAssumption, <1>10 DEF Push
      <4>3. ShortChainCounted'
        BY ONLY <4>1, <4>2 DEF ShortChainCounted
      <4>4. PrunersHaveSpine'
        BY <1>10, <3>5 DEF Push
      <4> QED BY <1>10, <3>2, <3>3, <3>4, <4>3, <4>4 DEF Push
    <3>6. CASE pending_head # NULL
      <4>1. SpineExists'
        BY <1>10, <2>1, <3>1, <3>6, QsbrAssumption DEF Push
      <4>2. ShortChainCounted' /\ PrunersHaveSpine'
        BY ONLY <4>1 DEF ShortChainCounted, PrunersHaveSpine
      <4> QED BY <1>10, <3>2, <3>3, <3>4, <4>2 DEF Push
    <3> QED BY <3>5, <3>6
  <2>2. CASE pending_head # old[t]
    BY <1>10, <2>2 DEF Push
  <2> QED BY <2>1, <2>2
<1>11. ASSUME NEW t \in Threads, Count(t) PROVE SpineInv'
  <2>1. ShortChainCounted'
    BY <1>11, WordAboveOne DEF Count
  <2> QED BY <1>11, <2>1 DEF Count
<1>12. ASSUME NEW t \in Threads, Leave(t) PROVE SpineInv'
  BY <1>12 DEF Leave
<1>13. ASSUME NEW t \in Threads, CheckLength(t) PROVE SpineInv'
  BY <1>13 DEF CheckLength
<1>14. ASSUME NEW t \in Threads, TryLock(t) PROVE SpineInv'
  BY <1>14 DEF TryLock
<1>15. ASSUME NEW t \in Threads, RecheckLength(t) PROVE SpineInv'
  BY <1>15, LongChainHasSpine DEF RecheckLength
<1>16. ASSUME NEW t \in Threads, ScanHead(t) PROVE SpineInv'
  BY <1>16 DEF ScanHead
<1>17. ASSUME NEW t \in Threads, ScanClock(t) PROVE SpineInv'
  BY <1>17 DEF ScanClock
<1>18. ASSUME NEW t \in Threads, LoadPending(t) PROVE SpineInv'
  BY <1>18 DEF LoadPending
<1>19. ASSUME NEW t \in Threads, Prune(t) PROVE SpineInv'
  <2>1. PointersHanded'
    BY <1>19 DEF Prune
  <2>2. NodesPrivate'
    BY <1>19 DEF Prune
  <2>3. HeadSafe'
    BY <1>19 DEF Prune
  <2>4. ShortChainCounted' /\ PrunersHaveSpine'
    <3>1. SpineExists'
      BY <1>19 DEF Prune
    <3> QED BY ONLY <3>1 DEF ShortChainCounted, PrunersHaveSpine
  <2> QED BY <1>19, <2>1, <2>2, <2>3, <2>4 DEF Prune
<1>20. ASSUME NEW t \in Threads, EndPrune(t) PROVE SpineInv'
  BY <1>20 DEF EndPrune
<1>21. ASSUME NEW t \in Threads, Subtract(t) PROVE SpineInv'
  BY <1>21 DEF Subtract
<1>22. ASSUME NEW t \in Threads, Unlock(t) PROVE SpineInv'
  BY <1>22 DEF Unlock
<1>23. CASE Destroy
  BY <1>23 DEF Destroy
<1>24. CASE UNCHANGED vars
  BY <1>24
<1> QED BY <1>1, <1>2, <1>3, <1>4, <1>5, <1>6, <1>7, <1>8, <1>9, <1>10, <1>11, <1>12, <1>13,
          <1>14, <1>15, <1>16, <1>17, <1>18, <1>19, <1>20, <1>21, <1>22, <1>23, <1>24 DEF Next,
          Step

\* attemt_delete() never steps over a missing node, although it tests a length
\* that other threads count late (NeverCrashes of Qsbr).
THEOREM PruningNeverCrashes == Spec => []NeverCrashes
<1>1. SpineInv => NeverCrashes
  BY DEF SpineInv
<1> QED BY TypeInvHolds, SpineInit, SpineStep, <1>1, PTL DEF Spec

-------------------------------------------------------------------------------
(* What can be reached from some nodes along next_, when a next_ changes.  *)

\* What can be reached is in every closed set, ...
LEMMA ReachLeast ==
  ASSUME NEW first, NEW nx, NEW S \in SUBSET Objects, Closed(S, first, nx)
  PROVE  Reachable(first, nx) \subseteq S
<1> SUFFICES ASSUME NEW o \in Reachable(first, nx), o \notin S
             PROVE  FALSE
  OBVIOUS
<1>1. S \in SUBSET (Objects \ {o})
  OBVIOUS
<1>. QED BY <1>1 DEF Reachable

\* ... and is one itself.
LEMMA ReachClosed ==
  ASSUME NEW first \in SUBSET Objects, NEW nx \in [Objects -> Objects \cup {NULL}]
  PROVE  /\ Reachable(first, nx) \subseteq Objects
         /\ Closed(Reachable(first, nx), first, nx)
<1> DEFINE R == Reachable(first, nx)
<1>1. R \subseteq Objects /\ first \subseteq R
  BY DEF Reachable, Closed
<1>2. ASSUME NEW a \in R, nx[a] # NULL, nx[a] \notin R
      PROVE  FALSE
  <2>1. a \in Objects /\ nx[a] \in Objects
    BY <1>1, <1>2
  <2>2. PICK S \in SUBSET (Objects \ {nx[a]}) : Closed(S, first, nx)
    BY <1>2, <2>1 DEF Reachable
  <2>3. a \in S
    BY <1>2, <2>2, ReachLeast
  <2>. QED BY <1>2, <2>2, <2>3 DEF Closed
<1>. QED BY <1>1, <1>2 DEF Closed

\* Links of other nodes do not matter.
LEMMA ReachSame ==
  ASSUME NEW first \in SUBSET Objects, NEW nx \in [Objects -> Objects \cup {NULL}],
         NEW nxt \in [Objects -> Objects \cup {NULL}],
         \A a \in Reachable(first, nx) : nxt[a] = nx[a]
  PROVE  Reachable(first, nxt) = Reachable(first, nx)
<1> DEFINE R == Reachable(first, nx)
           S == Reachable(first, nxt)
<1>1. R \subseteq Objects /\ Closed(R, first, nx) /\ S \subseteq Objects /\ Closed(S, first, nxt)
  BY ReachClosed
<1>2. Closed(R, first, nxt)
  BY <1>1 DEF Closed
<1>3. S \subseteq R
  BY <1>1, <1>2, ReachLeast
<1>4. Closed(S, first, nx)
  BY <1>1, <1>3 DEF Closed
<1>. QED BY <1>1, <1>3, <1>4, ReachLeast

\* A node in front of a list.
LEMMA ReachPush ==
  ASSUME NEW m \in Objects, NEW nx \in [Objects -> Objects \cup {NULL}]
  PROVE  Reachable({m}, nx) = Reachable({nx[m]} \ {NULL}, nx) \cup {m}
<1> DEFINE rest == {nx[m]} \ {NULL}
           R == Reachable(rest, nx)
           S == Reachable({m}, nx)
<1>1. rest \subseteq Objects
  OBVIOUS
<1>2. R \subseteq Objects /\ Closed(R, rest, nx) /\ S \subseteq Objects /\ Closed(S, {m}, nx)
  BY <1>1, ReachClosed
<1>3. Closed(R \cup {m}, {m}, nx)
  BY <1>2 DEF Closed
<1>4. Closed(S, rest, nx)
  BY <1>2 DEF Closed
<1>5. R \cup {m} \in SUBSET Objects /\ S \in SUBSET Objects
  BY <1>2
<1> HIDE DEF R, S, rest
<1>6. S \subseteq R \cup {m}
  BY <1>3, <1>5, ReachLeast DEF S
<1>7. R \subseteq S
  BY <1>4, <1>5, ReachLeast DEF R
<1>8. m \in S
  BY <1>2 DEF Closed
<1>. QED BY <1>6, <1>7, <1>8 DEF R, S, rest

\* A list is what it was without its first node, if nothing points there.
LEMMA ReachPop ==
  ASSUME NEW m \in Objects, NEW nx \in [Objects -> Objects \cup {NULL}],
         \A a \in Reachable({m}, nx) : nx[a] # m
  PROVE  Reachable({nx[m]} \ {NULL}, nx) = Reachable({m}, nx) \ {m}
<1> DEFINE rest == {nx[m]} \ {NULL}
           R == Reachable(rest, nx)
           S == Reachable({m}, nx)
<1>1. S = R \cup {m} /\ S \subseteq Objects /\ Closed(S, {m}, nx)
  BY ReachPush, ReachClosed
<1>2. Closed(S \ {m}, rest, nx) /\ S \ {m} \in SUBSET Objects
  BY <1>1 DEF Closed
<1> HIDE DEF R, S, rest
<1>3. R \subseteq S \ {m}
  BY <1>2, ReachLeast DEF R
<1>. QED BY <1>1, <1>3 DEF R, S, rest

\* The links of a list: no two nodes point to the same, none points to the first.
Linked(first, nx) ==
  /\ \A a, b \in Reachable(first, nx) : a # b /\ nx[a] # NULL => nx[a] # nx[b]
  /\ \A a \in Reachable(first, nx) : nx[a] \notin first

\* A node p is made to point behind its successor, whose own link does not matter
\* any more.
LEMMA ReachSkip ==
  ASSUME NEW first \in SUBSET Objects, NEW nx \in [Objects -> Objects \cup {NULL}],
         NEW nxt \in [Objects -> Objects \cup {NULL}], NEW p \in Reachable(first, nx),
         nx[p] # NULL, Linked(first, nx), nxt[p] = nx[nx[p]],
         \A a \in Reachable(first, nx) \ {p, nx[p]} : nxt[a] = nx[a]
  PROVE  /\ Reachable(first, nxt) = Reachable(first, nx) \ {nx[p]}
         /\ nx[p] \in Reachable(first, nx) /\ p # nx[p]
         /\ Linked(first, nxt)
<1> DEFINE R == Reachable(first, nx)
           S == Reachable(first, nxt)
           o == nx[p]
<1>1. R \subseteq Objects /\ Closed(R, first, nx) /\ S \subseteq Objects /\ Closed(S, first, nxt)
  BY ReachClosed
<1>2. o \in R /\ o \notin first
  BY <1>1 DEF Closed, Linked
<1>3. \A a \in R : a # p => nx[a] # o
  BY DEF Linked
<1>4. p # o
  <2> SUFFICES ASSUME p = o PROVE FALSE
    OBVIOUS
  <2>1. Closed(R \ {o}, first, nx) /\ R \ {o} \in SUBSET Objects
    BY <1>1, <1>2, <1>3 DEF Closed
  <2>2. R \subseteq R \ {o}
    BY <2>1, ReachLeast
  <2>. QED BY <1>2, <2>2
<1>5. nx[o] # o
  BY <1>2, <1>3, <1>4
<1> HIDE DEF R, S
<1>6. S \subseteq R \ {o}
  <2>1. \A a \in R \ {o} : nxt[a] \in (R \ {o}) \cup {NULL}
    BY <1>1, <1>2, <1>3, <1>5 DEF Closed, R
  <2>2. Closed(R \ {o}, first, nxt) /\ R \ {o} \in SUBSET Objects
    BY <1>1, <1>2, <2>1 DEF Closed
  <2>. QED BY <2>2, ReachLeast DEF S
<1>7. p \in S
  <2> SUFFICES ASSUME p \notin S PROVE FALSE
    OBVIOUS
  <2>1. \A a \in S : nxt[a] = nx[a]
    BY <1>6 DEF R
  <2>2. Closed(S, first, nx)
    BY <1>1, <2>1 DEF Closed
  <2>3. R \subseteq S
    BY <1>1, <2>2, ReachLeast DEF R
  <2>. QED BY <2>3 DEF R
<1>8. R \subseteq S \cup {o}
  <2>1. \A a \in S \cup {o} : nx[a] \in S \cup {o, NULL}
    <3>1. nx[o] \in S \cup {NULL}
      BY <1>1, <1>7 DEF Closed
    <3>2. \A a \in S \ {p} : nx[a] \in S \cup {NULL}
      BY <1>1, <1>6 DEF Closed, R
    <3>. QED BY <3>1, <3>2
  <2>2. Closed(S \cup {o}, first, nx) /\ S \cup {o} \in SUBSET Objects
    BY <1>1, <1>2, <2>1 DEF Closed
  <2>. QED BY <2>2, ReachLeast DEF R
<1>9. S = R \ {o}
  BY <1>6, <1>8
<1>10. Linked(first, nxt)
  <2>1. \A a \in S \ {p} : nxt[a] = nx[a] /\ a \in R /\ a # o
    BY <1>9 DEF R
  <2>2. nxt[p] = nx[o] /\ p \in R /\ o \in R
    BY <1>2 DEF R
  <2>3. \A a \in R : nx[a] \notin first
    BY DEF Linked, R
  <2>4. \A a, b \in R : a # b /\ nx[a] # NULL => nx[a] # nx[b]
    BY DEF Linked, R
  <2>5. \A a \in S : nxt[a] \notin first
    BY <2>1, <2>2, <2>3
  <2>6. \A a, b \in S : a # b /\ nxt[a] # NULL => nxt[a] # nxt[b]
    BY <2>1, <2>2, <2>4, <1>9
  <2>. QED BY <2>5, <2>6 DEF Linked, S
<1>. QED BY <1>2, <1>4, <1>9, <1>10 DEF R, S

\* A node in front of a list leaves it a list, ...
LEMMA LinkedPush ==
  ASSUME NEW m \in Objects, NEW nx \in [Objects -> Objects \cup {NULL}],
         Linked({nx[m]} \ {NULL}, nx), m \notin Reachable({nx[m]} \ {NULL}, nx)
  PROVE  Linked({m}, nx)
<1> DEFINE first == {nx[m]} \ {NULL}
           R == Reachable(first, nx)
<1>1. Reachable({m}, nx) = R \cup {m}
  BY ReachPush
<1>2. Closed(R, first, nx) /\ m # NULL
  BY ReachClosed, QsbrAssumption
<1>3. \A a \in R : nx[a] # m
  BY <1>2 DEF Closed
<1>4. nx[m] # m
  BY <1>2 DEF Closed
<1>5. \A a \in R : nx[a] = NULL \/ nx[a] # nx[m]
  BY DEF Linked
<1>6. \A a, b \in R : a # b /\ nx[a] # NULL => nx[a] # nx[b]
  BY DEF Linked
<1>. QED BY ONLY <1>1, <1>3, <1>4, <1>5, <1>6 DEF Linked

\* ... so does taking the first node away.
LEMMA LinkedPop ==
  ASSUME NEW m \in Objects, NEW nx \in [Objects -> Objects \cup {NULL}], Linked({m}, nx)
  PROVE  /\ Reachable({nx[m]} \ {NULL}, nx) = Reachable({m}, nx) \ {m}
         /\ m \in Reachable({m}, nx)
         /\ Linked({nx[m]} \ {NULL}, nx)
<1>1. \A a \in Reachable({m}, nx) : nx[a] # m
  BY DEF Linked
<1>2. Reachable({nx[m]} \ {NULL}, nx) = Reachable({m}, nx) \ {m}
  BY <1>1, ReachPop
<1>3. m \in Reachable({m}, nx)
  <2>1. Reachable({m}, nx) = Reachable({nx[m]} \ {NULL}, nx) \cup {m}
    BY ReachPush
  <2> QED BY <2>1
<1>. QED BY <1>2, <1>3 DEF Linked

\* Links of other nodes do not matter here either.
LEMMA LinkedSame ==
  ASSUME NEW first \in SUBSET Objects, NEW nx \in [Objects -> Objects \cup {NULL}],
         NEW nxt \in [Objects -> Objects \cup {NULL}],
         \A a \in Reachable(first, nx) : nxt[a] = nx[a], Linked(first, nx)
  PROVE  Linked(first, nxt)
BY ReachSame DEF Linked

-------------------------------------------------------------------------------
(* ChainIntact and PruneCursorsLive.  Only the thread that holds the lock  *)
(* changes the link of a pushed node, and its cursor is in the chain; the  *)
(* others change the links of nodes that only they know.                   *)

Preparing == Pushing \cup {"count"}

\* A thread has a node of its own from Unlink to Count, ...
MinesOwned ==
  /\ \A t \in Threads : mine[t] # NULL <=> pc[t] \in Preparing
  /\ \A t, u \in Threads : mine[t] # NULL /\ mine[t] = mine[u] => t = u
  /\ \A t \in Threads : pc[t] \in Pushing => status[mine[t]] = "unlinked"
  /\ \A t \in Threads : pc[t] = "count" => status[mine[t]] # "linked"

\* ... which gets its stamp first.
AllStamped ==
  /\ \A o \in Objects : status[o] = "linked" => stamp[o] = 0
  /\ \A t \in Threads : pc[t] \in {"load", "push", "count"} => stamp[mine[t]] # 0
  /\ \A o \in Objects : status[o] # "linked" =>
       stamp[o] # 0 \/ \E t \in Threads : pc[t] = "stamp" /\ mine[t] = o

\* Where a thread holds deleting_lock_.
Locked == {"recheck", "scanHead", "scan", "prune", "subtract", "unlock", "crashed"}

LockHeld == \A t \in Threads : pc[t] \in Locked => lock = t

PushLinks == \A t \in Threads : pc[t] = "push" => next[mine[t]] = old[t]

NodeInv == MinesOwned /\ AllStamped /\ LockHeld /\ PushLinks /\ DestroyedIsIdle

\* The objects that are pushed and not freed.
Live == {o \in Objects : Pushed(o) /\ status[o] = "unlinked"}

CursorsInChain ==
  \A t \in Threads : pc[t] = "prune" => prev[t] \in Chain /\ ptr[t] = next[prev[t]]

ListInv ==
  /\ Chain \subseteq Live
  /\ Linked({pending_head} \ {NULL}, next)
  /\ CursorsInChain

\* The step of a thread that pushes its node, and the one that frees a node.
PushDone(t) == Push(t) /\ pending_head = old[t]
PruneDone(t) == Prune(t) /\ stamp[ptr[t]] < least[t]

\* No thread has a node yet.
LEMMA NodeInit == Init => NodeInv
  BY DEF Init, NodeInv, MinesOwned, AllStamped, LockHeld, PushLinks, DestroyedIsIdle, Preparing,
         Pushing, Locked

\* The nodes of the list, and their links.
LEMMA ChainFacts ==
  ASSUME TypeInv
  PROVE  /\ Chain \subseteq Objects
         /\ pending_head # NULL => pending_head \in Chain
         /\ \A a \in Chain : next[a] # NULL => next[a] \in Chain
         /\ {pending_head} \ {NULL} \in SUBSET Objects
         /\ next \in [Objects -> Objects \cup {NULL}]
<1>1. {pending_head} \ {NULL} \in SUBSET Objects /\ next \in [Objects -> Objects \cup {NULL}]
  BY DEF TypeInv, TypeOK
<1>. QED BY <1>1, ReachClosed DEF Chain, Closed

\* A node that its owner has not pushed is not in the chain, nor is one in the structure.
LEMMA ChainPushed ==
  ASSUME TypeInv, NodeInv, Chain \subseteq Live, NEW o \in Chain
  PROVE  /\ o \in Objects /\ status[o] = "unlinked" /\ stamp[o] # 0
         /\ \A t \in Threads : pc[t] \in Pushing => mine[t] # o
BY DEF Live, Pushed, Pushing

\* Nodes stay with their owners until they are pushed, the lock with its.
LEMMA NodeStep ==
  ASSUME TypeInv, NodeInv, ListInv, [Next]_vars
  PROVE  NodeInv'
<1> USE DEF TypeInv, TypeOK, PlaceTypes, Goto, vars, clockVars, chainVars, clientVars,
            pruneVars, NodeInv, MinesOwned, AllStamped, LockHeld, PushLinks, DestroyedIsIdle,
            Preparing, Pushing, Locked
<1>0. NULL \notin Threads \cup Objects
  BY QsbrAssumption
<1>1. ASSUME NEW t \in Threads, Enter(t) PROVE NodeInv'
  BY <1>1 DEF Enter
<1>2. ASSUME NEW t \in Threads, Register(t) PROVE NodeInv'
  BY <1>2 DEF Register
<1>3. ASSUME NEW t \in Threads, LinkClock(t) PROVE NodeInv'
  BY <1>3 DEF LinkClock
<1>4. ASSUME NEW t \in Threads, LoadClock(t) PROVE NodeInv'
  BY <1>4 DEF LoadClock
<1>5. ASSUME NEW t \in Threads, StoreClock(t) PROVE NodeInv'
  BY <1>5 DEF StoreClock
<1>6. ASSUME NEW t \in Threads, NEW o \in Objects, Acquire(t, o) PROVE NodeInv'
  BY <1>6 DEF Acquire
<1>7. ASSUME NEW t \in Threads, NEW o \in Objects, Unlink(t, o) PROVE NodeInv'
  <2>1. /\ pc[t] = "guarded" /\ pc' = [pc EXCEPT ![t] = "stamp"] /\ status[o] = "linked"
        /\ status' = [status EXCEPT ![o] = "unlinked"] /\ mine' = [mine EXCEPT ![t] = o]
        /\ UNCHANGED <<stamp, next, old, lock, destroyed>>
    BY <1>7 DEF Unlink
  <2>2. \A u \in Threads : mine[u] # o
    BY <1>0, <2>1
  <2>3. MinesOwned'
    BY <1>0, <2>1, <2>2
  <2>4. AllStamped'
    BY <1>0, <2>1, <2>2
  <2>5. LockHeld' /\ PushLinks' /\ DestroyedIsIdle'
    BY <2>1, <2>2
  <2>. QED BY <2>3, <2>4, <2>5
<1>8. ASSUME NEW t \in Threads, Stamp(t) PROVE NodeInv'
  <2>1. MinesOwned' /\ LockHeld' /\ PushLinks' /\ DestroyedIsIdle'
    BY <1>8 DEF Stamp
  <2>2. AllStamped'
    BY <1>8 DEF Stamp
  <2>. QED BY <2>1, <2>2
<1>9. ASSUME NEW t \in Threads, LoadHead(t) PROVE NodeInv'
  BY <1>9, <1>0 DEF LoadHead
<1>10. ASSUME NEW t \in Threads, Push(t) PROVE NodeInv'
  BY <1>10 DEF Push
<1>11. ASSUME NEW t \in Threads, Count(t) PROVE NodeInv'
  BY <1>11, <1>0 DEF Count
<1>12. ASSUME NEW t \in Threads, Leave(t) PROVE NodeInv'
  BY <1>12 DEF Leave
<1>13. ASSUME NEW t \in Threads, CheckLength(t) PROVE NodeInv'
  BY <1>13 DEF CheckLength
<1>14. ASSUME NEW t \in Threads, TryLock(t) PROVE NodeInv'
  BY <1>14, <1>0 DEF TryLock
<1>15. ASSUME NEW t \in Threads, RecheckLength(t) PROVE NodeInv'
  BY <1>15 DEF RecheckLength
<1>16. ASSUME NEW t \in Threads, ScanHead(t) PROVE NodeInv'
  BY <1>16 DEF ScanHead
<1>17. ASSUME NEW t \in Threads, ScanClock(t) PROVE NodeInv'
  BY <1>17 DEF ScanClock
<1>18. ASSUME NEW t \in Threads, LoadPending(t) PROVE NodeInv'
  BY <1>18 DEF LoadPending
<1>19. ASSUME NEW t \in Threads, Prune(t) PROVE NodeInv'
  <2>1. prev[t] \in Chain /\ ptr[t] \in Chain
    BY <1>19, ChainFacts DEF Prune, ListInv, CursorsInChain
  <2>2. \A o \in {prev[t], ptr[t]} :
          /\ o \in Objects /\ status[o] = "unlinked" /\ stamp[o] # 0
          /\ \A u \in Threads : pc[u] \in Pushing => mine[u] # o
    BY <2>1, ChainPushed DEF ListInv
  <2>. QED BY <1>19, <2>2 DEF Prune
<1>20. ASSUME NEW t \in Threads, EndPrune(t) PROVE NodeInv'
  <2>1. next' = next
    BY <1>20 DEF EndPrune, ListInv, CursorsInChain
  <2>. QED BY <1>20, <2>1 DEF EndPrune
<1>21. ASSUME NEW t \in Threads, Subtract(t) PROVE NodeInv'
  BY <1>21 DEF Subtract
<1>22. ASSUME NEW t \in Threads, Unlock(t) PROVE NodeInv'
  BY <1>22 DEF Unlock
<1>23. CASE Destroy
  BY <1>23, ChainFacts, ChainPushed DEF Destroy, ListInv
<1>24. CASE UNCHANGED vars
  BY <1>24
<1> QED BY <1>1, <1>2, <1>3, <1>4, <1>5, <1>6, <1>7, <1>8, <1>9, <1>10, <1>11, <1>12, <1>13,
          <1>14, <1>15, <1>16, <1>17, <1>18, <1>19, <1>20, <1>21, <1>22, <1>23, <1>24 DEF Next,
          Step

\* All steps but those two, and the end of the program, leave the pending chain alone.
LEMMA QuietStep ==
  ASSUME TypeInv, NodeInv, ListInv, [Next]_vars, ~ Destroy,
         \A t \in Threads : ~ PushDone(t) /\ ~ PruneDone(t)
  PROVE  /\ pending_head' = pending_head
         /\ \A a \in Live : next'[a] = next[a]
         /\ \A a \in Chain : next'[a] = next[a]
         /\ Live' = Live
<1> USE DEF TypeInv, TypeOK, PlaceTypes, Goto, vars, clockVars, chainVars, clientVars,
            pruneVars, NodeInv, MinesOwned, AllStamped, Preparing, Pushing
<1> DEFINE Quiet == /\ pending_head' = pending_head
                    /\ \A a \in Live : next'[a] = next[a]
                    /\ Live' = Live
<1>a. NULL \notin Threads \cup Objects
  BY QsbrAssumption
<1>b. ASSUME UNCHANGED <<pending_head, next, status, stamp, mine>>,
             \A t \in Threads : mine[t] # NULL => pc'[t] = pc[t]
      PROVE  Quiet
  <2>1. \A o \in Objects : Pushed(o)' = Pushed(o)
    BY <1>a, <1>b DEF Pushed
  <2>. QED BY <1>b, <2>1 DEF Live
<1>1. ASSUME NEW t \in Threads, Enter(t) PROVE Quiet
  BY <1>1, <1>b DEF Enter
<1>2. ASSUME NEW t \in Threads, Register(t) PROVE Quiet
  BY <1>2, <1>b DEF Register
<1>3. ASSUME NEW t \in Threads, LinkClock(t) PROVE Quiet
  BY <1>3, <1>b DEF LinkClock
<1>4. ASSUME NEW t \in Threads, LoadClock(t) PROVE Quiet
  BY <1>4, <1>b DEF LoadClock
<1>5. ASSUME NEW t \in Threads, StoreClock(t) PROVE Quiet
  BY <1>5, <1>b DEF StoreClock
<1>6. ASSUME NEW t \in Threads, NEW o \in Objects, Acquire(t, o) PROVE Quiet
  BY <1>6, <1>b DEF Acquire
<1>7. ASSUME NEW t \in Threads, NEW o \in Objects, Unlink(t, o) PROVE Quiet
  <2>1. /\ pc[t] = "guarded" /\ pc' = [pc EXCEPT ![t] = "stamp"] /\ status[o] = "linked"
        /\ status' = [status EXCEPT ![o] = "unlinked"] /\ mine' = [mine EXCEPT ![t] = o]
        /\ UNCHANGED <<stamp, next, pending_head>>
    BY <1>7 DEF Unlink
  <2>2. ~ Pushed(o) /\ ~ Pushed(o)'
    BY <1>a, <2>1 DEF Pushed
  <2>3. \A p \in Objects \ {o} : Pushed(p)' = Pushed(p)
    BY <1>a, <2>1 DEF Pushed
  <2>. QED BY <2>1, <2>2, <2>3 DEF Live
<1>8. ASSUME NEW t \in Threads, Stamp(t) PROVE Quiet
  <2> DEFINE m == mine[t]
  <2>1. /\ pc[t] = "stamp" /\ pc' = [pc EXCEPT ![t] = "load"] /\ m \in Objects
        /\ stamp' = [stamp EXCEPT ![m] = center_clock + 1]
        /\ UNCHANGED <<mine, status, next, pending_head>>
    BY <1>8 DEF Stamp
  <2>2. ~ Pushed(m) /\ ~ Pushed(m)'
    BY <2>1 DEF Pushed
  <2>3. \A p \in Objects \ {m} : Pushed(p)' = Pushed(p)
    BY <2>1 DEF Pushed
  <2>. QED BY <2>1, <2>2, <2>3 DEF Live
<1>9. ASSUME NEW t \in Threads, LoadHead(t) PROVE Quiet
  <2> DEFINE m == mine[t]
  <2>1. /\ pc[t] = "load" /\ pc' = [pc EXCEPT ![t] = "push"] /\ m \in Objects
        /\ next' = [next EXCEPT ![m] = pending_head]
        /\ UNCHANGED <<mine, status, stamp, pending_head>>
    BY <1>9 DEF LoadHead
  <2>2. \A p \in Objects : Pushed(p)' = Pushed(p)
    BY <2>1 DEF Pushed
  <2>3. m \notin Live
    BY <2>1 DEF Live, Pushed
  <2>4. \A a \in Live : next'[a] = next[a]
    BY <2>1, <2>3
  <2>. QED BY <2>1, <2>2, <2>4 DEF Live
<1>10. ASSUME NEW t \in Threads, Push(t) PROVE Quiet
  <2>1. /\ pc[t] = "push" /\ pc' = [pc EXCEPT ![t] = "load"]
        /\ UNCHANGED <<mine, status, stamp, pending_head, next>>
    BY <1>10 DEF Push, PushDone
  <2>2. \A p \in Objects : Pushed(p)' = Pushed(p)
    BY <2>1 DEF Pushed
  <2>. QED BY <2>1, <2>2 DEF Live
<1>11. ASSUME NEW t \in Threads, Count(t) PROVE Quiet
  <2>1. /\ pc[t] = "count" /\ pc' = [pc EXCEPT ![t] = "guarded"]
        /\ mine' = [mine EXCEPT ![t] = NULL]
        /\ UNCHANGED <<status, stamp, pending_head, next>>
    BY <1>11 DEF Count
  <2>2. \A p \in Objects : Pushed(p)' = Pushed(p)
    BY <1>a, <2>1 DEF Pushed
  <2>. QED BY <2>1, <2>2 DEF Live
<1>12. ASSUME NEW t \in Threads, Leave(t) PROVE Quiet
  BY <1>12, <1>b DEF Leave
<1>13. ASSUME NEW t \in Threads, CheckLength(t) PROVE Quiet
  BY <1>13, <1>b DEF CheckLength
<1>14. ASSUME NEW t \in Threads, TryLock(t) PROVE Quiet
  BY <1>14, <1>b DEF TryLock
<1>15. ASSUME NEW t \in Threads, RecheckLength(t) PROVE Quiet
  BY <1>15, <1>b DEF RecheckLength
<1>16. ASSUME NEW t \in Threads, ScanHead(t) PROVE Quiet
  BY <1>16, <1>b DEF ScanHead
<1>17. ASSUME NEW t \in Threads, ScanClock(t) PROVE Quiet
  BY <1>17, <1>b DEF ScanClock
<1>18. ASSUME NEW t \in Threads, LoadPending(t) PROVE Quiet
  BY <1>18, <1>b DEF LoadPending
<1>19. ASSUME NEW t \in Threads, Prune(t) PROVE Quiet
  <2>1. ~ PruneDone(t)
    OBVIOUS
  <2>2. ~ (stamp[ptr[t]] < least[t])
    BY <1>19, <2>1 DEF PruneDone
  <2>3. UNCHANGED <<pending_head, next, status, stamp, mine>> /\ pc' = pc
    BY <1>19, <2>2 DEF Prune
  <2>. QED BY <2>3, <1>b
<1>20. ASSUME NEW t \in Threads, EndPrune(t) PROVE Quiet
  <2>1. next' = next
    BY <1>20 DEF EndPrune, ListInv, CursorsInChain
  <2>. QED BY <1>20, <1>b, <2>1 DEF EndPrune
<1>21. ASSUME NEW t \in Threads, Subtract(t) PROVE Quiet
  BY <1>21, <1>b DEF Subtract
<1>22. ASSUME NEW t \in Threads, Unlock(t) PROVE Quiet
  BY <1>22, <1>b DEF Unlock
<1>24. ASSUME UNCHANGED vars PROVE Quiet
  BY <1>24, <1>b
<1> HIDE DEF Quiet
<1>25. Quiet
  BY ONLY [Next]_vars, ~ Destroy, <1>1, <1>2, <1>3, <1>4, <1>5, <1>6, <1>7, <1>8, <1>9, <1>10, <1>11, <1>12, <1>13,
     <1>14, <1>15, <1>16, <1>17, <1>18, <1>19, <1>20, <1>21, <1>22, <1>24 DEF Next, Step
<1> QED BY <1>25 DEF Quiet, ListInv

\* A quiet step leaves the set of nodes in the chain as it is.
LEMMA QuietChain ==
  ASSUME TypeInv, TypeInv', pending_head' = pending_head, \A a \in Chain : next'[a] = next[a]
  PROVE  /\ Chain' = Chain
         /\ Linked({pending_head} \ {NULL}, next) => Linked({pending_head} \ {NULL}, next)'
<1> DEFINE first == {pending_head} \ {NULL}
<1>1. /\ first \in SUBSET Objects /\ first' = first
      /\ next \in [Objects -> Objects \cup {NULL}] /\ next' \in [Objects -> Objects \cup {NULL}]
  BY DEF TypeInv, TypeOK
<1>2. Chain = Reachable(first, next) /\ Chain' = Reachable(first, next')
  BY <1>1 DEF Chain
<1>3. Chain' = Chain
  BY <1>1, <1>2, ReachSame
<1>4. Linked(first, next) => Linked(first, next')
  BY <1>1, <1>2, LinkedSame
<1>. QED BY <1>1, <1>3, <1>4

\* Pushing a node puts it in front of the chain.
LEMMA PushStep ==
  ASSUME TypeInv, TypeInv', NodeInv, ListInv, NEW t \in Threads, PushDone(t)
  PROVE  /\ mine[t] \notin Live /\ mine[t] \in Objects
         /\ Chain' = Chain \cup {mine[t]} /\ Live' = Live \cup {mine[t]}
         /\ next' = next
         /\ Linked({pending_head} \ {NULL}, next)'
<1>1. PICK m \in Objects : m = mine[t]
  BY DEF TypeInv, PlaceTypes, PushDone, Push, Goto
<1>2. /\ pending_head' = m /\ next' = next /\ next[m] = pending_head
      /\ pc[t] = "push" /\ pc' = [pc EXCEPT ![t] = "count"]
      /\ UNCHANGED <<mine, status, stamp>>
  BY <1>1 DEF PushDone, Push, Goto, NodeInv, PushLinks, clientVars
<1>3. /\ m # NULL /\ status[m] = "unlinked" /\ stamp[m] # 0
      /\ \A u \in Threads \ {t} : mine[u] # m
  BY <1>1, <1>2, QsbrAssumption DEF NodeInv, MinesOwned, AllStamped, Pushing
<1>4. ~ Pushed(m) /\ Pushed(m)' /\ \A o \in Objects \ {m} : Pushed(o)' = Pushed(o)
  BY <1>1, <1>2, <1>3 DEF Pushed, TypeInv, TypeOK
<1>5. Live' = Live \cup {m} /\ m \notin Live
  BY <1>2, <1>3, <1>4 DEF Live
<1> DEFINE first == {pending_head} \ {NULL}
<1>6. first' = {m} /\ first \in SUBSET Objects /\ next \in [Objects -> Objects \cup {NULL}]
  BY <1>2, <1>3 DEF TypeInv, TypeOK
<1>7. Chain = Reachable(first, next) /\ Chain' = Reachable({m}, next)
  BY <1>2, <1>6 DEF Chain
<1>8. Chain' = Chain \cup {m}
  <2>1. {next[m]} \ {NULL} = first
    BY <1>2
  <2>. QED BY <1>6, <1>7, <2>1, ReachPush
<1>9. Linked({m}, next)
  <2>1. {next[m]} \ {NULL} = first /\ m \notin Chain
    BY <1>2, <1>5 DEF ListInv
  <2>2. Linked(first, next)
    BY DEF ListInv
  <2> HIDE DEF first
  <2>. QED BY <1>6, <1>7, <2>1, <2>2, LinkedPush
<1>. QED BY <1>1, <1>2, <1>5, <1>6, <1>8, <1>9

\* Pruning a node takes it out of the chain.
LEMMA PruneStep ==
  ASSUME TypeInv, TypeInv', NodeInv, ListInv, NEW t \in Threads, PruneDone(t)
  PROVE  /\ ptr[t] \in Chain /\ prev[t] \in Chain \ {ptr[t]}
         /\ Chain' = Chain \ {ptr[t]} /\ Live' = Live \ {ptr[t]}
         /\ next'[prev[t]] = next[ptr[t]]
         /\ Linked({pending_head} \ {NULL}, next)'
<1>1. PICK p \in Chain, o \in Objects : p = prev[t] /\ o = ptr[t] /\ next[p] = o /\ o # NULL
  BY DEF PruneDone, Prune, Goto, ListInv, CursorsInChain, TypeInv, PlaceTypes
<1> DEFINE first == {pending_head} \ {NULL}
<1>2. /\ pending_head' = pending_head /\ next' = [next EXCEPT ![p] = next[o]]
      /\ status' = [status EXCEPT ![o] = "freed"]
      /\ pc' = pc /\ UNCHANGED <<mine, stamp>>
  BY <1>1 DEF PruneDone, Prune, Goto, TypeInv, TypeOK
<1>3. /\ first \in SUBSET Objects /\ first' = first /\ p \in Objects
      /\ next \in [Objects -> Objects \cup {NULL}] /\ next' \in [Objects -> Objects \cup {NULL}]
      /\ Chain = Reachable(first, next) /\ Chain' = Reachable(first, next')
  BY <1>1, <1>2, ChainFacts DEF TypeInv, TypeOK, Chain
<1>4. next'[p] = next[o] /\ \A a \in Objects \ {p} : next'[a] = next[a]
  BY <1>2, <1>3
<1>5. /\ Chain' = Chain \ {o} /\ o \in Chain /\ p # o
      /\ Linked(first, next')
  <2>1. \A a \in Chain \ {p, o} : next'[a] = next[a]
    BY <1>3, <1>4, ChainFacts
  <2>2. Linked(first, next)
    BY DEF ListInv
  <2> HIDE DEF first
  <2>. QED BY <1>1, <1>3, <1>4, <2>1, <2>2, ReachSkip
<1>6. Live' = Live \ {o}
  <2>1. \A q \in Objects : Pushed(q)' = Pushed(q)
    BY <1>2 DEF Pushed
  <2>. QED BY <1>2, <2>1 DEF Live, TypeInv, TypeOK
<1>. QED BY <1>1, <1>3, <1>4, <1>5, <1>6

\* How the cursor of a pruning thread gets where it is.
LEMMA CursorMoves ==
  ASSUME TypeInv, NodeInv, [Next]_vars, NEW u \in Threads, pc'[u] = "prune"
  PROVE  \/ pc[u] = "prune" /\ prev'[u] = prev[u] /\ ptr'[u] = ptr[u]
         \/ SpineExists /\ prev'[u] = next[pending_head] /\ ptr'[u] = next[next[pending_head]]
         \/ /\ pc[u] = "prune" /\ ptr[u] # NULL /\ ptr'[u] = next[ptr[u]]
            /\ IF stamp[ptr[u]] < least[u] THEN PruneDone(u) ELSE prev'[u] = ptr[u]
<1> DEFINE Goal ==
             \/ pc[u] = "prune" /\ prev'[u] = prev[u] /\ ptr'[u] = ptr[u]
             \/ SpineExists /\ prev'[u] = next[pending_head] /\ ptr'[u] = next[next[pending_head]]
             \/ /\ pc[u] = "prune" /\ ptr[u] # NULL /\ ptr'[u] = next[ptr[u]]
                /\ IF stamp[ptr[u]] < least[u] THEN PruneDone(u) ELSE prev'[u] = ptr[u]
<1>0. pc \in [Threads -> Places] /\ prev = [t \in Threads |-> prev[t]] /\ ptr = [t \in Threads |-> ptr[t]]
  BY DEF TypeInv, TypeOK
<1>1. ASSUME NEW t \in Threads, NEW from, NEW to, to # "prune", Goto(t, from, to),
             \A w \in Threads \ {t} : prev'[w] = prev[w] /\ ptr'[w] = ptr[w]
      PROVE  Goal
  BY <1>0, <1>1 DEF Goto
<1>2. ASSUME UNCHANGED <<pc, prev, ptr>> PROVE Goal
  BY <1>2
<1> HIDE DEF Goal
<1>3. ASSUME NEW t \in Threads, Register(t) \/ LinkClock(t) \/ LoadClock(t) \/ StoreClock(t) \/ Enter(t)
      PROVE  Goal
  BY <1>0, <1>1, <1>3 DEF Enter, Register, LinkClock, LoadClock, StoreClock, pruneVars
<1>4. ASSUME NEW t \in Threads, Stamp(t) \/ LoadHead(t) \/ Push(t) \/ Count(t) \/ Leave(t)
      PROVE  Goal
  BY <1>0, <1>1, <1>4 DEF Stamp, LoadHead, Push, Count, Leave, pruneVars
<1>5. ASSUME NEW t \in Threads, CheckLength(t) \/ TryLock(t) \/ RecheckLength(t) \/ Subtract(t)
      PROVE  Goal
  BY <1>0, <1>1, <1>5 DEF CheckLength, TryLock, RecheckLength, Subtract, pruneVars
<1>6. ASSUME NEW t \in Threads, ScanHead(t) \/ ScanClock(t) \/ Unlock(t) \/ EndPrune(t)
      PROVE  Goal
  BY <1>0, <1>1, <1>6 DEF ScanHead, ScanClock, Unlock, EndPrune, pruneVars
<1>7. ASSUME NEW t \in Threads, NEW o \in Objects, Acquire(t, o) \/ Unlink(t, o)
      PROVE  Goal
  BY <1>0, <1>1, <1>2, <1>7 DEF Acquire, Unlink, pruneVars
<1>8. ASSUME NEW t \in Threads, LoadPending(t) PROVE Goal
  BY <1>0, <1>8 DEF LoadPending, Goto, Goal
<1>9. ASSUME NEW t \in Threads, Prune(t) PROVE Goal
  <2>1. CASE u = t
    BY <1>0, <1>9, <2>1 DEF Prune, PruneDone, Goto, Goal
  <2>2. CASE u # t
    BY <1>0, <1>9, <2>2 DEF Prune, Goto, Goal
  <2>. QED BY <2>1, <2>2
<1>10. ASSUME Destroy PROVE Goal
  BY <1>2, <1>10 DEF Destroy, pruneVars
<1>11. ASSUME UNCHANGED vars PROVE Goal
  BY <1>2, <1>11 DEF vars, pruneVars
<1>12. Goal
  BY <1>3, <1>4, <1>5, <1>6, <1>7, <1>8, <1>9, <1>10, <1>11 DEF Next, Step
<1>. QED BY <1>12 DEF Goal

\* A cursor stays in a chain that no one takes nodes from.
LEMMA CursorStep ==
  ASSUME TypeInv, NodeInv, ListInv, [Next]_vars,
         \A t \in Threads : ~ PruneDone(t),
         Chain \subseteq Chain', \A a \in Chain : next'[a] = next[a]
  PROVE  CursorsInChain'
<1> SUFFICES ASSUME NEW u \in Threads, pc'[u] = "prune"
             PROVE  prev'[u] \in Chain' /\ ptr'[u] = next'[prev'[u]]
  BY DEF CursorsInChain
<1>1. prev'[u] \in Chain /\ ptr'[u] = next[prev'[u]]
  <2>1. CASE pc[u] = "prune"
    <3>1. prev[u] \in Chain /\ ptr[u] = next[prev[u]]
      BY <2>1 DEF ListInv, CursorsInChain
    <3>2. ptr[u] # NULL => ptr[u] \in Chain
      BY <3>1, ChainFacts
    <3>3. SpineExists => next[pending_head] \in Chain
      BY ChainFacts DEF SpineExists
    <3>. QED BY <3>1, <3>2, <3>3, CursorMoves
  <2>2. CASE pc[u] # "prune"
    <3>1. SpineExists /\ prev'[u] = next[pending_head] /\ ptr'[u] = next[next[pending_head]]
      BY <2>2, CursorMoves
    <3>. QED BY <3>1, ChainFacts DEF SpineExists
  <2>. QED BY <2>1, <2>2
<1>. QED BY <1>1

\* The list and the cursors survive every step; so does the rule that every object
\* handed over is in the list.
LEMMA ListStep ==
  ASSUME TypeInv, TypeInv', NodeInv, ListInv, [Next]_vars
  PROVE  ListInv' /\ (Live \subseteq Chain => Live' \subseteq Chain')
<1> DEFINE Links == Linked({pending_head} \ {NULL}, next)
<1>1. ASSUME NEW t \in Threads, PushDone(t)
      PROVE  ListInv' /\ (Live \subseteq Chain => Live' \subseteq Chain')
  <2>1. /\ Chain' = Chain \cup {mine[t]} /\ Live' = Live \cup {mine[t]} /\ next' = next /\ Links'
    BY <1>1, PushStep
  <2>2. \A w \in Threads : ~ PruneDone(w)
    BY <1>1 DEF PushDone, PruneDone, Push, Prune, Goto, TypeInv, TypeOK
  <2>3. CursorsInChain'
    BY <2>1, <2>2, CursorStep
  <2>. QED BY <2>1, <2>3 DEF ListInv
<1>2. ASSUME NEW t \in Threads, PruneDone(t)
      PROVE  ListInv' /\ (Live \subseteq Chain => Live' \subseteq Chain')
  <2>1. /\ ptr[t] \in Chain /\ prev[t] \in Chain \ {ptr[t]}
        /\ Chain' = Chain \ {ptr[t]} /\ Live' = Live \ {ptr[t]}
        /\ next'[prev[t]] = next[ptr[t]] /\ Links'
    BY <1>2, PruneStep
  <2>2. pc' = pc /\ pc[t] = "prune" /\ prev' = prev /\ ptr'[t] = next[ptr[t]]
    BY <1>2 DEF PruneDone, Prune, Goto, TypeInv, TypeOK
  <2>3. \A u \in Threads : pc'[u] = "prune" => u = t
    BY <2>2 DEF NodeInv, LockHeld, Locked
  <2>4. CursorsInChain'
    BY <2>1, <2>2, <2>3 DEF CursorsInChain
  <2>. QED BY <2>1, <2>4 DEF ListInv
<1>3. ASSUME Destroy
      PROVE  ListInv' /\ (Live \subseteq Chain => Live' \subseteq Chain')
  <2>1. pending_head' = NULL /\ next' = next /\ \A t \in Threads : pc'[t] = "idle"
    BY <1>3 DEF Destroy
  <2>2. Chain' = {}
    <3>1. Closed({}, {pending_head'} \ {NULL}, next')
      BY <2>1 DEF Closed
    <3>. QED BY <3>1, ReachLeast DEF Chain
  <2>3. Live \subseteq Chain => Live' = {}
    BY <1>3 DEF Destroy, Live, Pushed, TypeInv, TypeOK
  <2>4. Links'
    BY <2>2 DEF Linked, Chain
  <2>. QED BY <2>1, <2>2, <2>3, <2>4 DEF ListInv, CursorsInChain
<1>4. CASE ~ Destroy /\ \A t \in Threads : ~ PushDone(t) /\ ~ PruneDone(t)
  <2>1. pending_head' = pending_head /\ (\A a \in Chain : next'[a] = next[a]) /\ Live' = Live
    BY <1>4, QuietStep
  <2>2. Chain' = Chain /\ Links'
    BY <2>1, QuietChain DEF ListInv
  <2>3. CursorsInChain'
    BY <1>4, <2>1, <2>2, CursorStep
  <2>. QED BY <2>1, <2>2, <2>3 DEF ListInv
<1>. QED BY <1>1, <1>2, <1>3, <1>4

\* The pending list is empty at first.
LEMMA ListInit == Init => ListInv /\ Live \subseteq Chain
<1> SUFFICES ASSUME Init PROVE ListInv /\ Live \subseteq Chain
  OBVIOUS
<1>1. Closed({}, {pending_head} \ {NULL}, next)
  BY DEF Init, Closed
<1>2. Chain = {}
  BY <1>1, ReachLeast DEF Chain
<1>3. Live = {}
  BY DEF Init, Live
<1>4. Linked({pending_head} \ {NULL}, next)
  BY <1>2 DEF Linked, Chain
<1>. QED BY <1>2, <1>3, <1>4 DEF ListInv, CursorsInChain, Init

\* The list and what it is made of are invariant.
LEMMA ListInvHolds == Spec => [](TypeInv /\ NodeInv /\ ListInv /\ Live \subseteq Chain)
<1> DEFINE Inv == TypeInv /\ NodeInv /\ ListInv /\ Live \subseteq Chain
<1>1. Init => Inv
  BY TypeInit, NodeInit, ListInit
<1>2. Inv /\ [Next]_vars => Inv'
  BY TypeStep, NodeStep, ListStep
<1>. QED BY <1>1, <1>2, PTL DEF Spec

\* The pending chain is a list of the objects handed over and not yet freed, none
\* lost and none met again after it was freed, whoever pushes while another thread
\* prunes (ChainIntact of Qsbr).
THEOREM ChainAlwaysIntact == Spec => []ChainIntact
<1>1. ListInv /\ Live \subseteq Chain => ChainIntact
  <2> SUFFICES ASSUME ListInv, Live \subseteq Chain PROVE ChainIntact
    OBVIOUS
  <2>1. Chain = Live
    BY DEF ListInv
  <2>2. \A a, b \in Chain : a # b => next[a] = NULL \/ next[a] # next[b]
    BY DEF ListInv, Linked, Chain
  <2>3. \A a \in Chain : next[a] # pending_head
    <3>1. Chain # {} => pending_head # NULL
      <4> SUFFICES ASSUME pending_head = NULL PROVE Chain = {}
        OBVIOUS
      <4>1. Closed({}, {pending_head} \ {NULL}, next)
        BY DEF Closed
      <4>. QED BY <4>1, ReachLeast DEF Chain
    <3>. QED BY <3>1 DEF ListInv, Linked, Chain
  <2>. QED BY <2>1, <2>2, <2>3 DEF ChainIntact, Live
<1>. QED BY <1>1, ListInvHolds, PTL

\* The pruning cursor of attemt_delete() is always on nodes of the chain, and its
\* thread holds deleting_lock_ (PruneCursorsLive of Qsbr).
THEOREM CursorsAlwaysLive == Spec => []PruneCursorsLive
<1>1. TypeInv /\ NodeInv /\ ListInv => PruneCursorsLive
  <2> SUFFICES ASSUME TypeInv, NodeInv, ListInv, NEW t \in Threads, pc[t] = "prune"
               PROVE  /\ lock = t /\ prev[t] \in Chain
                      /\ ptr[t] # NULL => ptr[t] \in Chain /\ next[prev[t]] = ptr[t]
    BY DEF PruneCursorsLive
  <2>1. lock = t
    BY DEF NodeInv, LockHeld, Locked
  <2>2. prev[t] \in Chain /\ ptr[t] = next[prev[t]]
    BY DEF ListInv, CursorsInChain
  <2>. QED BY <2>1, <2>2, ChainFacts
<1>. QED BY <1>1, ListInvHolds, PTL

-------------------------------------------------------------------------------
(* AllReclaimed: when every thread is out of its guard, every object handed *)
(* over is in the chain that the destructor deletes.                        *)

\* Nothing that was taken out of the structure is linked there again.
LEMMA LinkedBefore ==
  ASSUME TypeInv, [Next]_vars, NEW o \in Objects, status'[o] = "linked"
  PROVE  status[o] = "linked"
<1>0. status \in [Objects -> {"linked", "unlinked", "freed"}]
  BY DEF TypeInv, TypeOK
<1> DEFINE Was == status[o] = "linked"
<1>1. ASSUME status' = status PROVE Was
  BY <1>1
<1>2. ASSUME NEW t \in Threads, Prune(t) PROVE Was
  BY <1>0, <1>2 DEF Prune
<1>3. ASSUME NEW t \in Threads, NEW a \in Objects, Unlink(t, a) PROVE Was
  BY <1>0, <1>3 DEF Unlink
<1>4. ASSUME Destroy PROVE Was
  BY <1>0, <1>4 DEF Destroy
<1>. QED BY <1>1, <1>2, <1>3, <1>4 DEF Next, Step, vars, clientVars, Enter, Register, LinkClock,
     LoadClock, StoreClock, Acquire, Stamp, LoadHead, Push, Count, Leave, CheckLength, TryLock,
     RecheckLength, ScanHead, ScanClock, LoadPending, EndPrune, Subtract, Unlock

\* Once the qsbr is destroyed, nothing is handed over or freed any more.
LEMMA DestroyedQuiet ==
  ASSUME NodeInv, [Next]_vars, ~ Destroy, destroyed'
  PROVE  destroyed /\ status' = status
<1>1. destroyed
  BY DEF Next, Step, vars, Enter, Register, LinkClock, LoadClock, StoreClock, Acquire, Unlink,
     Stamp, LoadHead, Push, Count, Leave, CheckLength, TryLock, RecheckLength, ScanHead, ScanClock,
     LoadPending, Prune, EndPrune, Subtract, Unlock
<1>2. \A t \in Threads : pc[t] = "idle"
  BY <1>1 DEF NodeInv, DestroyedIsIdle
<1>3. status' = status
  BY <1>1, <1>2 DEF Next, Step, vars, clientVars, Goto, Enter, Register, LinkClock, LoadClock,
     StoreClock, Acquire, Unlink, Stamp, LoadHead, Push, Count, Leave, CheckLength, TryLock,
     RecheckLength, ScanHead, ScanClock, LoadPending, Prune, EndPrune, Subtract, Unlock
<1>. QED BY <1>1, <1>3

\* The destructor deletes every object handed over, if those are all in the chain.
LEMMA DestroyReclaims ==
  ASSUME TypeInv, NodeInv, Live \subseteq Chain, Destroy
  PROVE  \A o \in Objects : status'[o] # "unlinked"
<1>1. \A t \in Threads : pc[t] = "idle" /\ mine[t] = NULL
  BY DEF Destroy, NodeInv, MinesOwned, Preparing, Pushing
<1>2. \A o \in Objects : status[o] = "unlinked" => o \in Chain
  BY <1>1, QsbrAssumption DEF NodeInv, AllStamped, Live, Pushed
<1>. QED BY <1>2 DEF Destroy, TypeInv, TypeOK

\* Nothing that was handed to safe_free() outlives the qsbr (AllReclaimed of Qsbr).
THEOREM EverythingReclaimed == Spec => []AllReclaimed
<1> DEFINE Inv == TypeInv /\ NodeInv /\ ListInv /\ Live \subseteq Chain
<1>1. Init => AllReclaimed
  BY DEF Init, AllReclaimed
<1>2. Inv /\ AllReclaimed /\ [Next]_vars => AllReclaimed'
  <2> SUFFICES ASSUME Inv, AllReclaimed, [Next]_vars, destroyed'
               PROVE  \A o \in Objects : status'[o] # "unlinked"
    BY DEF AllReclaimed
  <2>1. CASE Destroy
    BY <2>1, DestroyReclaims
  <2>2. CASE ~ Destroy
    <3>1. destroyed /\ status' = status
      BY <2>2, DestroyedQuiet
    <3>. QED BY <3>1 DEF AllReclaimed
  <2>. QED BY <2>1, <2>2
<1>. QED BY <1>1, <1>2, ListInvHolds, PTL DEF Spec

-------------------------------------------------------------------------------
(* LengthAccounts.  The arithmetic of unsigned words, then who owes what.  *)

\* Quotient and remainder.
LEMMA WordDivision ==
  ASSUME NEW a \in Int
  PROVE  a = Word * (a \div Word) + (a % Word) /\ a \div Word \in Int /\ a % Word \in 0..Word-1
BY QsbrAssumption

\* A remainder is unique.
LEMMA WordUnique ==
  ASSUME NEW q \in Int, NEW r \in Int, NEW p \in Int, NEW s \in Int,
         Word * q + r = Word * p + s, 0 <= r, r < Word, 0 <= s, s < Word
  PROVE  r = s
<1>0. Word \in Nat \ {0}
  BY QsbrAssumption
<1>1. Word * (q - p) = s - r
  BY <1>0
<1>2. CASE q - p >= 1
  <2>1. Word * (q - p) >= Word
    BY <1>2, <1>0
  <2>. QED BY <1>1, <2>1, <1>0
<1>3. CASE q - p <= -1
  <2>1. Word * (q - p) <= -Word
    BY <1>3, <1>0
  <2>. QED BY <1>1, <2>1, <1>0
<1>4. CASE q - p = 0
  BY <1>4, <1>1, <1>0
<1>. QED BY <1>2, <1>3, <1>4

\* A word that wraps, and changes, is the wrapped sum.
LEMMA WordAdd ==
  ASSUME NEW a \in Int, NEW b \in Int
  PROVE  ((a % Word) + b) % Word = (a + b) % Word
<1> DEFINE r == a % Word
           x == (r + b) % Word
           y == (a + b) % Word
           q1 == a \div Word
           q2 == (r + b) \div Word
           q3 == (a + b) \div Word
<1>0. Word \in Nat \ {0}
  BY QsbrAssumption
<1>1. a = Word * q1 + r /\ q1 \in Int /\ r \in Int
  BY WordDivision, <1>0
<1>2. r + b = Word * q2 + x /\ q2 \in Int /\ x \in 0..Word-1
  <2>1. r + b \in Int
    BY <1>1
  <2>. QED BY ONLY <2>1, WordDivision
<1>3. a + b = Word * q3 + y /\ q3 \in Int /\ y \in 0..Word-1
  <2>1. a + b \in Int
    OBVIOUS
  <2>. QED BY ONLY <2>1, WordDivision
<1> HIDE DEF r, x, y, q1, q2, q3
<1>4. a + b = Word * (q1 + q2) + x
  <2>1. Word * (q1 + q2) = Word * q1 + Word * q2
    BY <1>1, <1>2, <1>0
  <2>2. Word * q1 \in Int /\ Word * q2 \in Int
    BY <1>1, <1>2, <1>0
  <2>. QED BY <1>1, <1>2, <2>1, <2>2
<1>5. x = y
  <2>1. q1 + q2 \in Int /\ x \in Int /\ y \in Int /\ q3 \in Int
    BY <1>1, <1>2, <1>3, <1>0
  <2>2. 0 <= x /\ x < Word /\ 0 <= y /\ y < Word
    BY <1>2, <1>3, <1>0
  <2>3. Word * (q1 + q2) + x = Word * q3 + y
    BY <1>3, <1>4
  <2>. QED BY ONLY <2>1, <2>2, <2>3, WordUnique
<1>. QED BY <1>5 DEF x, y, r

Counting == {t \in Threads : pc[t] = "count"}

\* What has been deleted and not been subtracted.
Owed == IF lock = NULL THEN 0 ELSE deleted[lock]

\* chain_length_ counts n nodes.
LengthOf(n) ==
  /\ \A t \in Threads : pc[t] \notin {"prune", "subtract"} => deleted[t] = 0
  /\ IsFiniteSet(Counting)
  /\ ~ destroyed => chain_length = (n - Cardinality(Counting) + Owed) % Word

LengthInv == LengthOf(Cardinality(Chain))

\* The parts of the account are numbers.
LEMMA LengthTypes ==
  ASSUME TypeInv, NEW n, LengthOf(n)
  PROVE  Cardinality(Counting) \in Nat /\ Owed \in Nat
<1>1. Owed \in Nat
  BY DEF Owed, TypeInv, TypeOK
<1>. QED BY <1>1, FS_CardinalityType DEF LengthOf

\* Sets of nodes are finite.
LEMMA NodesFinite ==
  ASSUME NEW S \in SUBSET Objects
  PROVE  IsFiniteSet(S) /\ Cardinality(S) \in Nat
BY QsbrAssumption, FS_Subset, FS_CardinalityType

\* A step that neither counts nor subtracts.
LEMMA LengthSame ==
  ASSUME NEW n, LengthOf(n), Counting' = Counting,
         \A t \in Threads : pc'[t] \notin {"prune", "subtract"} => deleted'[t] = 0,
         Owed' = Owed, chain_length' = chain_length, destroyed' = destroyed
  PROVE  LengthOf(n)'
BY DEF LengthOf

\* A step that changes no part of the account.
LEMMA LengthKept ==
  ASSUME NEW n, LengthOf(n), UNCHANGED <<pc, deleted, lock, chain_length, destroyed>>
  PROVE  LengthOf(n)'
BY LengthSame DEF Counting, Owed, LengthOf

\* Going between other places does not change who has to count.
LEMMA CountingSame ==
  ASSUME TypeInv, NEW t \in Threads, NEW from, NEW to, Goto(t, from, to), from # "count", to # "count"
  PROVE  Counting' = Counting /\ \A u \in Threads \ {t} : pc'[u] = pc[u]
BY DEF Counting, Goto, TypeInv, TypeOK

\* What a thread has deleted is owed while it holds the lock.
LEMMA OwedSame ==
  ASSUME lock' = lock, deleted' = deleted
  PROVE  Owed' = Owed
BY DEF Owed

\* The steps that change nothing the account is about.
LEMMA LengthQuiet ==
  ASSUME TypeInv, NodeInv, NEW n, LengthOf(n), NEW t \in Threads,
         \/ Enter(t) \/ Leave(t) \/ Step(t)
         \/ \E o \in Objects : Acquire(t, o) \/ Unlink(t, o),
         ~ PushDone(t), ~ PruneDone(t), ~ Count(t), ~ Subtract(t)
  PROVE  LengthOf(n)'
<1> DEFINE Same == /\ Counting' = Counting /\ Owed' = Owed
                   /\ \A u \in Threads : pc'[u] \notin {"prune", "subtract"} => deleted'[u] = 0
                   /\ UNCHANGED <<chain_length, destroyed>>
           Kept == UNCHANGED <<chain_length, destroyed, lock, deleted>>
<1>0. /\ pc \in [Threads -> Places] /\ deleted \in [Threads -> Nat]
      /\ \A u \in Threads : pc[u] \notin {"prune", "subtract"} => deleted[u] = 0
  BY DEF TypeInv, TypeOK, LengthOf
<1>a. ASSUME NEW from, NEW to, Goto(t, from, to), from # "count", to # "count",
             from \notin {"prune", "subtract"} \/ to \in {"prune", "subtract"}, Kept
      PROVE  Same
  <2>1. Counting' = Counting /\ Owed' = Owed
    BY <1>a, CountingSame, OwedSame
  <2>2. ASSUME NEW u \in Threads, pc'[u] \notin {"prune", "subtract"} PROVE deleted'[u] = 0
    BY <1>0, <1>a, <2>2 DEF Goto
  <2>. QED BY <1>a, <2>1, <2>2
<1>b. ASSUME Kept, pc' = pc PROVE Same
  BY <1>0, <1>b, OwedSame DEF Counting
<1> HIDE DEF Same
<1>1. ASSUME Register(t) \/ LinkClock(t) \/ LoadClock(t) \/ StoreClock(t) \/ Enter(t) PROVE Same
  BY <1>a, <1>1 DEF Enter, Register, LinkClock, LoadClock, StoreClock, pruneVars, chainVars
<1>2. ASSUME Stamp(t) \/ LoadHead(t) \/ Leave(t) PROVE Same
  BY <1>a, <1>2 DEF Stamp, LoadHead, Leave, pruneVars, chainVars
<1>3. ASSUME Push(t) PROVE Same
  <2>1. Goto(t, "push", "load") /\ Kept
    BY <1>3 DEF Push, PushDone, pruneVars
  <2>. QED BY <1>a, <2>1
<1>4. ASSUME CheckLength(t) \/ RecheckLength(t) \/ ScanHead(t) \/ ScanClock(t) PROVE Same
  BY <1>a, <1>4 DEF CheckLength, RecheckLength, ScanHead, ScanClock, pruneVars, chainVars
<1>5. ASSUME TryLock(t) PROVE Same
  <2>1. /\ pc[t] = "trylock" /\ lock' \in {lock, t} /\ (lock # NULL => lock' = lock)
        /\ UNCHANGED <<chain_length, destroyed, deleted>>
        /\ \E to \in {"recheck", "idle"} : Goto(t, "trylock", to)
    BY <1>5 DEF TryLock, Goto, pruneVars, chainVars
  <2>2. Counting' = Counting /\ pc'[t] \in {"recheck", "idle"} /\ \A u \in Threads \ {t} : pc'[u] = pc[u]
    BY <1>0, <2>1, CountingSame DEF Goto
  <2>3. deleted[t] = 0
    BY <1>0, <2>1
  <2>4. Owed' = Owed
    BY <2>1, <2>3 DEF Owed
  <2>. QED BY <1>0, <2>1, <2>2, <2>3, <2>4 DEF Same
<1>6. ASSUME LoadPending(t) PROVE Same
  <2>1. /\ pc[t] = "scan" /\ deleted[t] = 0
        /\ \E to \in {"prune", "crashed"} : Goto(t, "scan", to)
        /\ deleted' = [deleted EXCEPT ![t] = 0] /\ UNCHANGED <<chain_length, destroyed, lock>>
    BY <1>0, <1>6 DEF LoadPending, Goto, chainVars
  <2>2. deleted' = deleted
    BY <1>0, <2>1
  <2>. QED BY <1>a, <2>1, <2>2
<1>7. ASSUME Prune(t) PROVE Same
  <2>1. UNCHANGED <<chain_length, destroyed, lock, deleted>> /\ pc' = pc
    BY <1>0, <1>7 DEF Prune, PruneDone, Goto
  <2>. QED BY <1>b, <2>1
<1>8. ASSUME EndPrune(t) PROVE Same
  BY <1>a, <1>8 DEF EndPrune, pruneVars
<1>9. ASSUME Unlock(t) PROVE Same
  <2>1. /\ Goto(t, "unlock", "idle") /\ pc[t] = "unlock" /\ deleted[t] = 0 /\ lock = t
        /\ lock' = NULL /\ UNCHANGED <<chain_length, destroyed, deleted>>
    BY <1>0, <1>9 DEF Unlock, Goto, chainVars, NodeInv, LockHeld, Locked
  <2>2. Counting' = Counting /\ pc'[t] = "idle" /\ \A u \in Threads \ {t} : pc'[u] = pc[u]
    BY <1>0, <2>1, CountingSame DEF Goto
  <2>3. Owed' = Owed
    BY <2>1, QsbrAssumption DEF Owed
  <2>. QED BY <1>0, <2>1, <2>2, <2>3 DEF Same
<1>10. ASSUME NEW o \in Objects, Acquire(t, o) \/ Unlink(t, o) PROVE Same
  BY <1>a, <1>b, <1>10 DEF Acquire, Unlink, pruneVars, chainVars
<1>11. Same
  BY ONLY \/ Enter(t) \/ Leave(t) \/ Step(t) \/ \E o \in Objects : Acquire(t, o) \/ Unlink(t, o),
     ~ Count(t), ~ Subtract(t), <1>1, <1>2, <1>3, <1>4, <1>5, <1>6, <1>7, <1>8, <1>9, <1>10 DEF Step
<1>. QED BY <1>11, LengthSame DEF Same

\* Nobody destroys the qsbr while a thread is inside it.
LEMMA NotDestroyed ==
  ASSUME NodeInv, NEW t \in Threads, pc[t] # "idle"
  PROVE  ~ destroyed
BY DEF NodeInv, DestroyedIsIdle

\* A node is pushed, and waits to be counted.
LEMMA LengthPush ==
  ASSUME TypeInv, NodeInv, NEW n \in Int, LengthOf(n), NEW t \in Threads, PushDone(t),
         NEW m \in Int, m = n + 1
  PROVE  LengthOf(m)'
<1>1. /\ pc[t] = "push" /\ pc' = [pc EXCEPT ![t] = "count"] /\ pc \in [Threads -> Places]
      /\ UNCHANGED <<chain_length, deleted, lock, destroyed>>
  BY DEF PushDone, Push, Goto, pruneVars, TypeInv, TypeOK
<1>2. Counting' = Counting \cup {t} /\ t \notin Counting /\ IsFiniteSet(Counting)
  BY <1>1 DEF Counting, LengthOf
<1>3. Cardinality(Counting') = Cardinality(Counting) + 1 /\ IsFiniteSet(Counting')
  BY <1>2, FS_AddElement
<1>4. Owed' = Owed
  BY <1>1 DEF Owed
<1>5. ~ destroyed
  BY <1>1, NotDestroyed
<1>6. m - Cardinality(Counting') + Owed' = n - Cardinality(Counting) + Owed
  BY <1>3, <1>4, LengthTypes
<1>7. chain_length' = (m - Cardinality(Counting') + Owed') % Word
  BY <1>1, <1>5, <1>6 DEF LengthOf
<1>8. \A u \in Threads : pc'[u] \notin {"prune", "subtract"} => deleted'[u] = 0
  BY <1>1 DEF LengthOf
<1>. QED BY <1>3, <1>7, <1>8 DEF LengthOf

\* A node is deleted, and waits to be subtracted.
LEMMA LengthFree ==
  ASSUME TypeInv, NodeInv, NEW n \in Int, LengthOf(n), NEW t \in Threads,
         pc[t] \in {"prune", "subtract"}, pc' = pc, deleted' = [deleted EXCEPT ![t] = @ + 1],
         UNCHANGED <<chain_length, lock, destroyed>>, NEW m \in Int, m = n - 1
  PROVE  LengthOf(m)'
<1>1. lock = t /\ t # NULL /\ deleted \in [Threads -> Nat] /\ ~ destroyed
  BY QsbrAssumption, NotDestroyed DEF TypeInv, TypeOK, NodeInv, LockHeld, Locked
<1>2. Counting' = Counting /\ IsFiniteSet(Counting)
  BY DEF Counting, LengthOf
<1>3. Owed' = Owed + 1
  BY <1>1 DEF Owed
<1>4. m - Cardinality(Counting') + Owed' = n - Cardinality(Counting) + Owed
  BY <1>2, <1>3, LengthTypes
<1>5. chain_length' = (m - Cardinality(Counting') + Owed') % Word
  BY <1>1, <1>4 DEF LengthOf
<1>6. \A u \in Threads : pc'[u] \notin {"prune", "subtract"} => deleted'[u] = 0
  BY <1>1 DEF LengthOf
<1>. QED BY <1>2, <1>5, <1>6 DEF LengthOf

\* A pushed node is counted.
LEMMA LengthCount ==
  ASSUME TypeInv, NodeInv, NEW n \in Int, LengthOf(n), NEW t \in Threads, Count(t)
  PROVE  LengthOf(n)'
<1>1. /\ pc[t] = "count" /\ pc' = [pc EXCEPT ![t] = "guarded"] /\ pc \in [Threads -> Places]
      /\ chain_length' = (chain_length + 1) % Word
      /\ UNCHANGED <<deleted, lock, destroyed>>
  BY DEF Count, Goto, pruneVars, TypeInv, TypeOK
<1>2. Counting' = Counting \ {t} /\ t \in Counting /\ IsFiniteSet(Counting)
  BY <1>1 DEF Counting, LengthOf
<1>3. Cardinality(Counting') = Cardinality(Counting) - 1 /\ IsFiniteSet(Counting')
  BY <1>2, FS_RemoveElement
<1>4. Owed' = Owed
  BY <1>1 DEF Owed
<1>5. ~ destroyed
  BY <1>1, NotDestroyed
<1> DEFINE sum == n - Cardinality(Counting) + Owed
<1>6. chain_length = sum % Word /\ sum \in Int
  BY <1>5, LengthTypes DEF LengthOf
<1>7. n - Cardinality(Counting') + Owed' = sum + 1
  BY <1>3, <1>4, LengthTypes
<1> HIDE DEF sum
<1>8. chain_length' = (sum + 1) % Word
  BY <1>1, <1>6, WordAdd
<1>9. \A u \in Threads : pc'[u] \notin {"prune", "subtract"} => deleted'[u] = 0
  BY <1>1 DEF LengthOf
<1>. QED BY <1>3, <1>7, <1>8, <1>9 DEF LengthOf

\* What was deleted is subtracted, whatever has been counted since.
LEMMA LengthSubtract ==
  ASSUME TypeInv, NodeInv, NEW n \in Int, LengthOf(n), NEW t \in Threads, Subtract(t)
  PROVE  LengthOf(n)'
<1>1. /\ pc[t] = "subtract" /\ pc' = [pc EXCEPT ![t] = "unlock"] /\ pc \in [Threads -> Places]
      /\ lock = t /\ deleted' = [deleted EXCEPT ![t] = 0] /\ deleted \in [Threads -> Nat]
      /\ chain_length' = (chain_length - deleted[t]) % Word
      /\ UNCHANGED <<lock, destroyed>>
  BY DEF Subtract, Goto, TypeInv, TypeOK, NodeInv, LockHeld, Locked
<1>2. Counting' = Counting
  BY <1>1 DEF Counting
<1>3. Owed = deleted[t] /\ Owed' = 0
  BY <1>1, QsbrAssumption DEF Owed
<1>4. ~ destroyed
  BY <1>1, NotDestroyed
<1> DEFINE sum == n - Cardinality(Counting) + Owed
<1>5. chain_length = sum % Word /\ sum \in Int
  BY <1>4, LengthTypes DEF LengthOf
<1>6. n - Cardinality(Counting') + Owed' = sum + (- Owed)
  BY <1>2, <1>3, LengthTypes
<1>7. chain_length - deleted[t] = chain_length + (- Owed) /\ - Owed \in Int
  BY <1>3, LengthTypes DEF TypeInv, TypeOK
<1> HIDE DEF sum
<1>8. chain_length' = (sum + (- Owed)) % Word
  BY <1>1, <1>5, <1>7, WordAdd
<1>9. \A u \in Threads : pc'[u] \notin {"prune", "subtract"} => deleted'[u] = 0
  BY <1>1 DEF LengthOf
<1>. QED BY <1>2, <1>6, <1>8, <1>9 DEF LengthOf

\* The destructor ends the account.
LEMMA LengthDestroyed ==
  ASSUME NEW n, NEW m, LengthOf(n), Destroy
  PROVE  LengthOf(m)'
<1>1. destroyed' /\ pc' = pc /\ deleted' = deleted
  BY DEF Destroy, pruneVars
<1>. QED BY <1>1 DEF LengthOf, Counting

\* The account is kept by every step.
LEMMA LengthStep ==
  ASSUME TypeInv, TypeInv', NodeInv, ListInv, LengthInv, [Next]_vars
  PROVE  LengthInv'
<1>0. Chain \in SUBSET Objects /\ Chain' \in SUBSET Objects
  BY DEF Chain, Reachable
<1>1. PICK n \in Int : n = Cardinality(Chain) /\ LengthOf(n)
  BY <1>0, NodesFinite DEF LengthInv
<1>2. PICK m \in Int : m = Cardinality(Chain')
  BY <1>0, NodesFinite
<1>3. ASSUME NEW t \in Threads, PushDone(t) PROVE LengthOf(m)'
  <2>1. Chain' = Chain \cup {mine[t]} /\ mine[t] \notin Chain
    BY <1>3, PushStep DEF ListInv
  <2>2. m = n + 1
    BY <1>1, <1>2, <1>0, <2>1, NodesFinite, FS_AddElement
  <2>. QED BY <1>1, <1>3, <2>2, LengthPush
<1>4. ASSUME NEW t \in Threads, PruneDone(t) PROVE LengthOf(m)'
  <2>1. Chain' = Chain \ {ptr[t]} /\ ptr[t] \in Chain
    BY <1>4, PruneStep
  <2>2. m = n - 1
    BY <1>1, <1>2, <1>0, <2>1, NodesFinite, FS_RemoveElement
  <2>3. /\ pc[t] = "prune" /\ pc' = pc /\ deleted' = [deleted EXCEPT ![t] = @ + 1]
        /\ UNCHANGED <<chain_length, lock, destroyed>>
    BY <1>4 DEF PruneDone, Prune, Goto, TypeInv, TypeOK
  <2>. QED BY <1>1, <2>2, <2>3, LengthFree
<1>5. ASSUME ~ Destroy, \A t \in Threads : ~ PushDone(t) /\ ~ PruneDone(t) PROVE LengthOf(m)'
  <2>1. n = m
    BY <1>1, <1>2, <1>5, QuietStep, QuietChain
  <2>2. CASE UNCHANGED vars
    <3>1. UNCHANGED <<pc, deleted, lock, chain_length, destroyed>>
      BY <2>2 DEF vars, pruneVars, chainVars
    <3>. QED BY <1>1, <2>1, <3>1, LengthKept
  <2>3. ASSUME NEW t \in Threads, Count(t) \/ Subtract(t) PROVE LengthOf(m)'
    BY <1>1, <2>1, <2>3, LengthCount, LengthSubtract
  <2>4. ASSUME NEW t \in Threads, ~ Count(t), ~ Subtract(t),
               \/ Enter(t) \/ Leave(t) \/ Step(t)
               \/ \E o \in Objects : Acquire(t, o) \/ Unlink(t, o)
        PROVE  LengthOf(m)'
    BY <1>1, <1>5, <2>1, <2>4, LengthQuiet
  <2>. QED BY <1>5, <2>2, <2>3, <2>4 DEF Next
<1>6. LengthOf(m)'
  BY <1>1, <1>3, <1>4, <1>5, LengthDestroyed
<1>. QED BY <1>2, <1>6 DEF LengthInv, LengthOf

\* Nothing is pushed, counted or deleted yet.
LEMMA LengthInit == Init => LengthOf(0) /\ Cardinality(Chain) = 0
<1> SUFFICES ASSUME Init PROVE LengthOf(0) /\ Cardinality(Chain) = 0
  OBVIOUS
<1>1. Closed({}, {pending_head} \ {NULL}, next)
  BY DEF Init, Closed
<1>2. Chain = {} /\ Counting = {} /\ Owed = 0
  BY <1>1, ReachLeast DEF Chain, Init, Counting, Owed
<1>3. IsFiniteSet(Counting) /\ Cardinality(Chain) = 0 /\ Cardinality(Counting) = 0
  BY <1>2, FS_EmptySet
<1>4. 0 % Word = 0
  BY QsbrAssumption
<1>. QED BY <1>2, <1>3, <1>4 DEF LengthOf, Init

\* chain_length_ never loses a node: it is the length of the chain up to what is
\* pushed and not counted, or deleted and not subtracted, for every word size
\* (LengthAccounts of Qsbr).
THEOREM LengthAlwaysAccounts == Spec => []LengthAccounts
<1> DEFINE Inv == TypeInv /\ NodeInv /\ ListInv /\ Live \subseteq Chain
<1>1. Inv /\ Inv' /\ LengthInv /\ [Next]_vars => LengthInv'
  BY LengthStep
<1>2. LengthInv => LengthAccounts
  BY DEF LengthInv, LengthOf, LengthAccounts, Counting, Owed
<1>3. Init => LengthInv
  BY LengthInit DEF LengthInv
<1>. QED BY <1>1, <1>2, <1>3, ListInvHolds, PTL DEF Spec

-------------------------------------------------------------------------------
(* The in-place variant.                                                   *)

DecidedFirst == {decided[t] : t \in Threads} \ {NULL}

\* Only the thread that holds the lock has a chain of its own; the nodes on it are
\* pushed, are not freed, and are not on the pending chain.
DecidedInv ==
  /\ decided \in [Threads -> Objects \cup {NULL}]
  /\ \A t \in Threads : decided[t] # NULL => pc[t] \in {"prune", "subtract"}
  /\ Decided \subseteq Live \ Chain
  /\ Linked(DecidedFirst, next)

\* Every object handed over is on a chain.
Complete == Live \subseteq Chain \cup Decided

\* The destructor has run for the objects that were handed over.
DestructInv == destructed = {o \in Objects : status[o] # "linked"}

\* chain_length_ counts the nodes of both chains.
BothCounted == LengthOf(Cardinality(Chain \cup Decided))

PartInv == TypeInv /\ NodeInv /\ ListInv /\ DecidedInv /\ Complete

-------------------------------------------------------------------------------
(* The steps.                                                              *)

\* A step of Qsbr that is not one of its pruning loop.
Plain(t) ==
  /\ \/ Enter(t) \/ Leave(t) \/ Step(t)
     \/ \E o \in Objects : Acquire(t, o) \/ Unlink(t, o)
  /\ \A u \in Threads : ~ PruneDone(u)
  /\ Subtract(t) => decided[t] = NULL
  /\ decided' = decided
  /\ destructed' = destructed \cup {o \in Objects : status'[o] # status[o]}

\* Freeing a node of the pending chain changes the counter and stays in the loop.
LEMMA PruneCounts ==
  ASSUME TypeInv, NEW t \in Threads, PruneDone(t)
  PROVE  pc' = pc /\ deleted' # deleted
BY DEF PruneDone, Prune, Goto, TypeInv, TypeOK

\* The shared steps neither free nor hand over anything.
LEMMA SharedPlain ==
  ASSUME TypeInv, NEW t \in Threads, Shared(t)
  PROVE  Plain(t)
<1> DEFINE Ok == status' = status /\ ~ Subtract(t) /\ (pc' # pc \/ deleted' = deleted)
<1>0. pc \in [Threads -> Places]
  BY DEF TypeInv, TypeOK
<1>1. ASSUME NEW from, NEW to, Goto(t, from, to), from # to, from # "subtract", status' = status
      PROVE  Ok
  BY <1>0, <1>1 DEF Goto, Subtract
<1> HIDE DEF Ok
<1>2. ASSUME SetActive(t) \/ NewChain(t) PROVE Ok
  BY <1>1, <1>2 DEF SetActive, NewChain, LoadClock, StoreClock, Register, LinkClock, clientVars
<1>3. ASSUME Guard(t) PROVE Ok
  <2>1. ASSUME NEW o \in Objects, Acquire(t, o) PROVE Ok
    BY <1>0, <2>1 DEF Acquire, Subtract, Goto, pruneVars, Ok
  <2>. QED BY <1>1, <1>3, <2>1 DEF Guard, Enter, Leave, clientVars
<1>4. ASSUME HandOver(t) PROVE Ok
  BY <1>1, <1>4 DEF HandOver, Stamp, LoadHead, Push, Count, clientVars
<1>5. ASSUME ScanLeast(t) PROVE Ok
  <2>1. ASSUME ScanClock(t) PROVE Ok
    BY <1>0, <2>1 DEF ScanClock, Subtract, Goto, clientVars, Ok
  <2>. QED BY <1>1, <1>5, <2>1 DEF ScanLeast, ScanHead, clientVars
<1>6. ASSUME Attempt(t) PROVE Ok
  BY <1>1, <1>6 DEF Attempt, CheckLength, TryLock, RecheckLength, LoadPending, EndPrune, Unlock,
     clientVars
<1>7. Ok
  BY ONLY Shared(t), <1>2, <1>3, <1>4, <1>5, <1>6 DEF Shared
<1>8. \/ Enter(t) \/ Leave(t) \/ Step(t)
      \/ \E o \in Objects : Acquire(t, o) \/ Unlink(t, o)
  BY ONLY Shared(t) DEF Shared, SetActive, NewChain, Guard, HandOver, ScanLeast, Attempt, Step
<1>9. \A u \in Threads : ~ PruneDone(u)
  BY <1>7, PruneCounts DEF Ok
<1>10. decided' = decided /\ destructed' = destructed
  BY DEF Shared, inPlaceVars
<1>. QED BY <1>7, <1>8, <1>9, <1>10 DEF Plain, Ok

\* So is handing an object over, ...
LEMMA UnlinkPlain ==
  ASSUME TypeInv, NEW t \in Threads, NEW o \in Objects, UnlinkAndDestruct(t, o)
  PROVE  Plain(t)
<1>1. /\ Unlink(t, o) /\ pc[t] = "guarded" /\ pc' # pc /\ ~ Subtract(t)
      /\ status' = [status EXCEPT ![o] = "unlinked"] /\ status[o] = "linked"
      /\ destructed' = destructed \cup {o} /\ decided' = decided
  BY DEF UnlinkAndDestruct, Unlink, Goto, Subtract, TypeInv, TypeOK
<1>2. {p \in Objects : status'[p] # status[p]} = {o}
  BY <1>1 DEF TypeInv, TypeOK
<1>3. \A u \in Threads : ~ PruneDone(u)
  BY <1>1, PruneCounts
<1>. QED BY <1>1, <1>2, <1>3 DEF Plain

\* ... and the subtraction once the decided chain is empty.
LEMMA SubtractPlain ==
  ASSUME TypeInv, NEW t \in Threads, SubtractFreed(t)
  PROVE  Plain(t)
<1>1. /\ Subtract(t) /\ decided[t] = NULL /\ pc' # pc /\ status' = status
      /\ destructed' = destructed /\ decided' = decided
  BY DEF SubtractFreed, Subtract, Goto, inPlaceVars, clientVars, TypeInv, TypeOK
<1>2. Step(t)
  BY <1>1 DEF Step
<1>3. \A u \in Threads : ~ PruneDone(u)
  BY <1>1, PruneCounts
<1>. QED BY <1>1, <1>2, <1>3 DEF Plain

\* There are no other steps.
LEMMA InPlaceSteps ==
  ASSUME TypeInv, [InPlaceNext]_allVars
  PROVE  \/ \E t \in Threads : Plain(t) \/ Move(t) \/ FreeDecided(t)
         \/ Destroy /\ UNCHANGED inPlaceVars
         \/ UNCHANGED vars /\ UNCHANGED inPlaceVars
BY SharedPlain, UnlinkPlain, SubtractPlain DEF InPlaceNext, allVars

\* A thread leaves the two loops when there is nothing left to free.
LEMMA PlainPlaces ==
  ASSUME TypeInv, NEW t \in Threads, Plain(t), NEW u \in Threads,
         pc[u] \in {"prune", "subtract"}, decided[u] # NULL
  PROVE  pc'[u] \in {"prune", "subtract"}
<1>0. pc \in [Threads -> Places]
  BY DEF TypeInv, TypeOK
<1> DEFINE Stays == pc'[u] \in {"prune", "subtract"}
<1>1. ASSUME NEW from, NEW to, Goto(t, from, to),
             from \notin {"prune", "subtract"} \/ to \in {"prune", "subtract"}
      PROVE  Stays
  BY <1>0, <1>1 DEF Goto
<1>2. ASSUME pc' = pc PROVE Stays
  BY <1>2
<1> HIDE DEF Stays
<1>3. ASSUME Register(t) \/ LinkClock(t) \/ LoadClock(t) \/ StoreClock(t) \/ Enter(t) \/ Leave(t)
      PROVE  Stays
  BY <1>1, <1>3 DEF Register, LinkClock, LoadClock, StoreClock, Enter, Leave
<1>4. ASSUME Stamp(t) \/ LoadHead(t) \/ Push(t) \/ Count(t) PROVE Stays
  BY <1>1, <1>4 DEF Stamp, LoadHead, Push, Count
<1>5. ASSUME CheckLength(t) \/ TryLock(t) \/ RecheckLength(t) \/ ScanHead(t) \/ ScanClock(t)
      PROVE  Stays
  BY <1>1, <1>5 DEF CheckLength, TryLock, RecheckLength, ScanHead, ScanClock
<1>6. ASSUME LoadPending(t) \/ Prune(t) \/ EndPrune(t) \/ Unlock(t) PROVE Stays
  BY <1>1, <1>6 DEF LoadPending, Prune, EndPrune, Unlock
<1>7. ASSUME Subtract(t) PROVE Stays
  <2>1. u # t /\ Goto(t, "subtract", "unlock")
    BY <1>7 DEF Plain, Subtract
  <2>. QED BY <1>0, <2>1 DEF Goto, Stays
<1>8. ASSUME NEW o \in Objects, Acquire(t, o) \/ Unlink(t, o) PROVE Stays
  BY <1>1, <1>2, <1>8 DEF Acquire, Unlink
<1>9. Stays
  BY ONLY Plain(t), <1>3, <1>4, <1>5, <1>6, <1>7, <1>8 DEF Plain, Step
<1>. QED BY <1>9 DEF Stays

\* Plain steps are steps of Qsbr, and not its end.
LEMMA PlainNext ==
  ASSUME TypeInv, NEW t \in Threads, Plain(t)
  PROVE  [Next]_vars /\ ~ Destroy
<1>1. Next
  BY DEF Plain, Next
<1>2. pc[t] # "idle" \/ pc' # pc
  <2>1. ASSUME Enter(t) PROVE pc' # pc
    BY <2>1 DEF Enter, Goto, TypeInv, TypeOK
  <2>2. ASSUME Leave(t) \/ Step(t) PROVE pc[t] # "idle"
    BY <2>2 DEF Leave, Step, Goto, Register, LinkClock, LoadClock, StoreClock, Stamp, LoadHead,
       Push, Count, CheckLength, TryLock, RecheckLength, ScanHead, ScanClock, LoadPending, Prune,
       EndPrune, Subtract, Unlock
  <2>3. ASSUME NEW o \in Objects, Acquire(t, o) \/ Unlink(t, o) PROVE pc[t] # "idle"
    BY <2>3 DEF Acquire, Unlink, Goto
  <2>. QED BY ONLY Plain(t), <2>1, <2>2, <2>3 DEF Plain
<1>. QED BY <1>1, <1>2 DEF Destroy

-------------------------------------------------------------------------------
(* What the steps do to the two chains.                                    *)

\* Only the thread that holds the lock has a decided chain.
LEMMA OneDecides ==
  ASSUME TypeInv, NodeInv, DecidedInv, NEW t \in Threads, pc[t] \in {"prune", "subtract"}
  PROVE  /\ \A u \in Threads \ {t} : decided[u] = NULL
         /\ DecidedFirst = {decided[t]} \ {NULL}
<1>1. \A u \in Threads \ {t} : decided[u] = NULL
  BY DEF DecidedInv, NodeInv, LockHeld, Locked
<1>. QED BY <1>1 DEF DecidedFirst

\* The nodes on the decided chains, and their links.
LEMMA DecidedFacts ==
  ASSUME TypeInv, DecidedInv
  PROVE  /\ DecidedFirst \in SUBSET Objects /\ Decided \in SUBSET Objects
         /\ next \in [Objects -> Objects \cup {NULL}]
         /\ \A a \in Decided : next[a] # NULL => next[a] \in Decided
         /\ Decided = Reachable(DecidedFirst, next)
<1>1. DecidedFirst \in SUBSET Objects /\ next \in [Objects -> Objects \cup {NULL}]
  BY DEF DecidedFirst, DecidedInv, TypeInv, TypeOK
<1>2. Decided = Reachable(DecidedFirst, next)
  BY DEF Decided, DecidedFirst
<1>. QED BY <1>1, <1>2, ReachClosed DEF Closed

\* A step of Qsbr leaves the decided chains alone.
LEMMA PlainDecided ==
  ASSUME PartInv, TypeInv', DecidedFirst' = DecidedFirst, \A a \in Decided : next'[a] = next[a]
  PROVE  Decided' = Decided /\ Linked(DecidedFirst, next)'
<1>1. /\ DecidedFirst \in SUBSET Objects /\ next \in [Objects -> Objects \cup {NULL}]
      /\ Decided = Reachable(DecidedFirst, next) /\ Linked(DecidedFirst, next)
  BY DecidedFacts DEF PartInv, DecidedInv
<1>2. next' \in [Objects -> Objects \cup {NULL}] /\ Decided' = Reachable(DecidedFirst', next')
  BY DEF TypeInv, TypeOK, Decided, DecidedFirst
<1> DEFINE first == DecidedFirst
           nxt == next'
<1>3. first \in SUBSET Objects /\ nxt \in [Objects -> Objects \cup {NULL}]
  BY <1>1, <1>2
<1>4. \A a \in Reachable(first, next) : nxt[a] = next[a]
  BY <1>1
<1> HIDE DEF first, nxt
<1>5. Reachable(first, nxt) = Reachable(first, next) /\ (Linked(first, next) => Linked(first, nxt))
  BY <1>1, <1>3, <1>4, ReachSame, LinkedSame
<1>. QED BY <1>1, <1>2, <1>5 DEF first, nxt

\* The step of a thread that moves a node from one chain to the other.
MoveDone(t) == Move(t) /\ stamp[ptr[t]] < least[t]

\* It puts the node in front of the decided chain.
LEMMA MoveStep ==
  ASSUME PartInv, TypeInv', NEW t \in Threads, MoveDone(t)
  PROVE  /\ ptr[t] \in Chain /\ ptr[t] \notin Decided
         /\ prev[t] \in Chain \ {ptr[t]}
         /\ Chain' = Chain \ {ptr[t]} /\ Decided' = Decided \cup {ptr[t]}
         /\ next' = [next EXCEPT ![ptr[t]] = decided[t], ![prev[t]] = next[ptr[t]]]
         /\ Linked({pending_head} \ {NULL}, next)' /\ Linked(DecidedFirst, next)'
<1> USE DEF PartInv
<1>1. PICK p \in Chain, o \in Objects : p = prev[t] /\ o = ptr[t] /\ next[p] = o /\ o # NULL
  BY DEF MoveDone, Move, Goto, ListInv, CursorsInChain, TypeInv, PlaceTypes
<1> DEFINE first == {pending_head} \ {NULL}
           nxt == next'
<1>a. Chain = Reachable(first, next)
  BY DEF Chain
<1>b. /\ first \in SUBSET Objects /\ p \in Objects /\ o \in Chain
      /\ next \in [Objects -> Objects \cup {NULL}] /\ nxt \in [Objects -> Objects \cup {NULL}]
  BY <1>1, ChainFacts DEF TypeInv, TypeOK
<1>c. Chain \cap Decided = {}
  BY DEF DecidedInv
<1>2. /\ first \in SUBSET Objects /\ p \in Objects /\ o \in Chain /\ o \notin Decided
      /\ Chain \cap Decided = {}
      /\ next \in [Objects -> Objects \cup {NULL}] /\ nxt \in [Objects -> Objects \cup {NULL}]
      /\ Chain = Reachable(first, next)
  BY <1>a, <1>b, <1>c
<1>3. /\ next' = [next EXCEPT ![o] = decided[t], ![p] = next[o]] /\ UNCHANGED pending_head
      /\ decided' = [decided EXCEPT ![t] = o] /\ pc[t] = "prune"
  BY <1>1 DEF MoveDone, Move, Goto
<1>4. Chain' = Reachable(first, nxt) /\ first' = first
  BY <1>3 DEF Chain
<1>5. Linked(first, next)
  BY DEF ListInv
<1>6. nxt[p] = next[o] /\ \A a \in Objects \ {p, o} : nxt[a] = next[a]
  BY <1>2, <1>3
<1> HIDE DEF first
<1>7. Chain' = Chain \ {o} /\ p # o /\ Linked(first, nxt)
  <2>1. \A a \in Chain \ {p, o} : nxt[a] = next[a]
    BY <1>2, <1>6, ChainFacts
  <2> HIDE DEF nxt
  <2>. QED BY <1>1, <1>2, <1>4, <1>5, <1>6, <2>1, ReachSkip
<1>8. nxt[o] = decided[t] /\ {nxt[o]} \ {NULL} = DecidedFirst /\ DecidedFirst' = {o}
  <2>1. nxt[o] = decided[t]
    BY <1>2, <1>3, <1>7
  <2>2. \A u \in Threads \ {t} : decided[u] = NULL
    BY <1>3, OneDecides
  <2>3. \A u \in Threads : decided'[u] = IF u = t THEN o ELSE NULL
    BY <1>3, <2>2 DEF DecidedInv
  <2>4. DecidedFirst = {decided[t]} \ {NULL}
    BY <1>3, OneDecides
  <2>5. DecidedFirst' = {o}
    BY <1>1, <2>3 DEF DecidedFirst
  <2>. QED BY <2>1, <2>4, <2>5
<1>9. Reachable({nxt[o]} \ {NULL}, nxt) = Decided /\ Linked({nxt[o]} \ {NULL}, nxt)
  <2>1. \A a \in Decided : nxt[a] = next[a]
    BY <1>1, <1>2, <1>6, DecidedFacts
  <2>2. Linked(DecidedFirst, next)
    BY DEF DecidedInv
  <2> HIDE DEF nxt
  <2>. QED BY <1>2, <1>8, <2>1, <2>2, DecidedFacts, ReachSame, LinkedSame
<1>10. Decided' = Reachable({o}, nxt)
  BY <1>8 DEF Decided, DecidedFirst
<1> HIDE DEF nxt
<1>11. Reachable({o}, nxt) = Decided \cup {o} /\ Linked({o}, nxt)
  BY <1>2, <1>9, ReachPush, LinkedPush
<1>. QED BY <1>1, <1>2, <1>3, <1>4, <1>7, <1>8, <1>10, <1>11 DEF nxt, first

\* Freeing a node takes it from the decided chain.
LEMMA FreeStep ==
  ASSUME PartInv, NEW t \in Threads, FreeDecided(t)
  PROVE  /\ decided[t] \in Decided
         /\ Chain' = Chain /\ Decided' = Decided \ {decided[t]} /\ Live' = Live \ {decided[t]}
         /\ Linked(DecidedFirst, next)'
<1> USE DEF PartInv
<1>1. PICK o \in Objects : o = decided[t] /\ o # NULL
  BY DEF FreeDecided, DecidedInv
<1>2. /\ status' = [status EXCEPT ![o] = "freed"] /\ decided' = [decided EXCEPT ![t] = next[o]]
      /\ pc[t] = "subtract" /\ UNCHANGED <<pending_head, next, pc, mine, stamp>>
  BY <1>1 DEF FreeDecided, chainVars
<1>3. Chain' = Chain
  BY <1>2 DEF Chain
<1>4. DecidedFirst = {o} /\ DecidedFirst' = {next[o]} \ {NULL}
  <2>1. \A u \in Threads \ {t} : decided[u] = NULL
    BY <1>2, OneDecides
  <2>2. \A u \in Threads : decided'[u] = IF u = t THEN next[o] ELSE NULL
    BY <1>2, <2>1 DEF DecidedInv
  <2>. QED BY <1>1, <1>2, <2>2, OneDecides DEF DecidedFirst
<1>5. Decided = Reachable({o}, next) /\ Decided' = Reachable({next[o]} \ {NULL}, next)
  BY <1>2, <1>4 DEF Decided, DecidedFirst
<1>6. Linked({o}, next) /\ next \in [Objects -> Objects \cup {NULL}]
  BY <1>4, DecidedFacts DEF DecidedInv
<1>7. /\ Decided' = Decided \ {o} /\ o \in Decided
      /\ Linked({next[o]} \ {NULL}, next)
  BY <1>5, <1>6, LinkedPop
<1>8. \A q \in Objects : Pushed(q)' = Pushed(q)
  BY <1>2 DEF Pushed
<1>9. Live' = Live \ {o}
  BY <1>2, <1>8 DEF Live, TypeInv, TypeOK
<1>. QED BY <1>1, <1>2, <1>3, <1>4, <1>7, <1>9

-------------------------------------------------------------------------------
(* ListsPartition.                                                         *)

\* The loops keep the types, ...
LEMMA LoopTypes ==
  ASSUME PartInv, NEW t \in Threads, Move(t) \/ FreeDecided(t)
  PROVE  TypeInv'
<1> USE DEF TypeInv, TypeOK, PlaceTypes, Places, Goto, clockVars, chainVars, clientVars, PartInv,
            DecidedInv
<1>1. CASE Move(t)
  BY <1>1 DEF Move
<1>2. CASE FreeDecided(t)
  BY <1>2 DEF FreeDecided
<1>. QED BY <1>1, <1>2

\* ... change no link and no state of a node that is not pushed, ...
LEMMA LoopNodes ==
  ASSUME PartInv, NEW t \in Threads, Move(t) \/ FreeDecided(t)
  PROVE  NodeInv'
<1> USE DEF TypeInv, TypeOK, PlaceTypes, Places, Goto, clockVars, chainVars, clientVars, PartInv,
            NodeInv, MinesOwned, AllStamped, LockHeld, PushLinks, DestroyedIsIdle, Preparing, Pushing,
            Locked
<1>1. CASE Move(t)
  <2>1. prev[t] \in Chain /\ ptr[t] \in Chain
    BY <1>1, ChainFacts DEF Move, ListInv, CursorsInChain
  <2>2. \A o \in {prev[t], ptr[t]} :
          o \in Objects /\ \A u \in Threads : pc[u] \in Pushing => mine[u] # o
    BY <2>1, ChainPushed DEF ListInv
  <2>3. \A u \in Threads : pc[u] = "push" => next'[mine[u]] = next[mine[u]]
    BY <1>1, <2>2 DEF Move
  <2>4. pc' = pc /\ UNCHANGED <<mine, old, status, stamp, lock, destroyed>>
    BY <1>1 DEF Move
  <2>. QED BY <2>3, <2>4
<1>2. CASE FreeDecided(t)
  <2>1. decided[t] \in Live
    BY <1>2, FreeStep DEF DecidedInv
  <2>2. \A u \in Threads : pc[u] \in Pushing => mine[u] # decided[t]
    BY <2>1 DEF Live, Pushed
  <2>3. stamp[decided[t]] # 0 /\ status[decided[t]] # "linked" /\ decided[t] \in Objects
    BY <2>1 DEF Live, Pushed
  <2>4. /\ status' = [status EXCEPT ![decided[t]] = "freed"]
        /\ UNCHANGED <<mine, old, stamp, lock, destroyed, pc, next>>
    BY <1>2 DEF FreeDecided
  <2>. QED BY <2>2, <2>3, <2>4
<1>. QED BY <1>1, <1>2

\* ... and keep the pushed nodes on one chain.
LEMMA MovePart ==
  ASSUME PartInv, TypeInv', NEW t \in Threads, Move(t)
  PROVE  ListInv' /\ DecidedInv' /\ Complete' /\ (Chain \cup Decided)' = Chain \cup Decided
<1> USE DEF PartInv
<1>1. /\ pc[t] = "prune" /\ pc' = pc /\ ptr[t] # NULL /\ UNCHANGED <<status, stamp, mine>>
      /\ ptr' = [ptr EXCEPT ![t] = next[ptr[t]]] /\ ptr \in [Threads -> Threads \cup Objects \cup {NULL}]
      /\ prev[t] \in Chain /\ ptr[t] = next[prev[t]] /\ ptr[t] \in Chain
      /\ \A u \in Threads : pc[u] = "prune" => u = t
  BY ChainFacts DEF Move, Goto, clientVars, TypeInv, TypeOK, ListInv, CursorsInChain, NodeInv,
     LockHeld, Locked
<1>2. Live' = Live
  <2>1. \A o \in Objects : Pushed(o)' = Pushed(o)
    BY <1>1 DEF Pushed
  <2>. QED BY <1>1, <2>1 DEF Live
<1>3. ptr'[t] = next[ptr[t]]
  BY <1>1
<1>4. CASE MoveDone(t)
  <2>1. /\ ptr[t] \notin Decided /\ prev[t] \in Chain \ {ptr[t]}
        /\ Chain' = Chain \ {ptr[t]} /\ Decided' = Decided \cup {ptr[t]}
        /\ next' = [next EXCEPT ![ptr[t]] = decided[t], ![prev[t]] = next[ptr[t]]]
        /\ Linked({pending_head} \ {NULL}, next)' /\ Linked(DecidedFirst, next)'
    BY <1>4, MoveStep
  <2>2. prev' = prev /\ decided' = [decided EXCEPT ![t] = ptr[t]]
    BY <1>4 DEF MoveDone, Move
  <2>3. next'[prev[t]] = next[ptr[t]]
    BY <1>1, <2>1, ChainFacts
  <2>4. CursorsInChain'
    BY <1>1, <1>3, <2>1, <2>2, <2>3 DEF CursorsInChain
  <2>5. ListInv'
    BY <1>2, <2>1, <2>4 DEF ListInv
  <2>6. ptr[t] \in Objects /\ ptr[t] \in Live
    BY <1>1, ChainFacts DEF ListInv
  <2>7. DecidedInv'
    BY <1>1, <1>2, <2>1, <2>2, <2>6 DEF DecidedInv
  <2>. QED BY <1>1, <1>2, <2>1, <2>5, <2>7 DEF Complete
<1>5. CASE ~ MoveDone(t)
  <2>1. UNCHANGED <<next, decided, pending_head>> /\ prev' = [prev EXCEPT ![t] = ptr[t]]
    BY <1>5 DEF MoveDone, Move
  <2>2. Chain' = Chain /\ Decided' = Decided /\ DecidedFirst' = DecidedFirst
    BY <2>1 DEF Chain, Decided, DecidedFirst
  <2>3. prev'[t] = ptr[t]
    BY <2>1 DEF TypeInv, TypeOK
  <2>4. CursorsInChain'
    BY <1>1, <1>3, <2>1, <2>2, <2>3 DEF CursorsInChain
  <2>5. Linked({pending_head} \ {NULL}, next)' /\ Linked(DecidedFirst, next)'
    BY <2>1, <2>2 DEF ListInv, DecidedInv
  <2>6. ListInv'
    BY <1>2, <2>2, <2>4, <2>5 DEF ListInv
  <2>7. DecidedInv'
    BY <1>1, <1>2, <2>1, <2>2, <2>5 DEF DecidedInv
  <2>. QED BY <1>2, <2>2, <2>6, <2>7 DEF Complete
<1>. QED BY <1>4, <1>5

LEMMA FreePart ==
  ASSUME PartInv, TypeInv', NEW t \in Threads, FreeDecided(t)
  PROVE  ListInv' /\ DecidedInv' /\ Complete'
<1> USE DEF PartInv
<1>1. /\ decided[t] \in Decided
      /\ Chain' = Chain /\ Decided' = Decided \ {decided[t]} /\ Live' = Live \ {decided[t]}
      /\ Linked(DecidedFirst, next)'
  BY FreeStep
<1>2. /\ pc[t] = "subtract" /\ decided' = [decided EXCEPT ![t] = next[decided[t]]]
      /\ decided[t] \in Objects
      /\ UNCHANGED <<pending_head, next, pc, ptr, prev>>
  BY DEF FreeDecided, chainVars, DecidedInv
<1>3. Linked({pending_head} \ {NULL}, next)' /\ CursorsInChain'
  BY <1>1, <1>2 DEF ListInv, CursorsInChain
<1>4. ListInv'
  BY <1>1, <1>3 DEF ListInv, DecidedInv
<1>5. next[decided[t]] \in Objects \cup {NULL}
  BY <1>2 DEF TypeInv, TypeOK
<1>6. decided' \in [Threads -> Objects \cup {NULL}]
  BY <1>2, <1>5 DEF DecidedInv
<1>7. DecidedInv'
  BY <1>1, <1>2, <1>6 DEF DecidedInv
<1>. QED BY <1>1, <1>4, <1>7 DEF Complete

\* The shared steps move no node between the chains; pushing adds one.
LEMMA PlainPart ==
  ASSUME PartInv, TypeInv', NEW t \in Threads, Plain(t)
  PROVE  /\ ListInv' /\ DecidedInv' /\ Complete'
         /\ \A u \in Threads : PushDone(u) =>
              (Chain \cup Decided)' = Chain \cup Decided \cup {mine[u]} /\ mine[u] \notin Live
         /\ (\A u \in Threads : ~ PushDone(u)) => (Chain \cup Decided)' = Chain \cup Decided
<1> USE DEF PartInv
<1>1. [Next]_vars /\ ~ Destroy /\ \A u \in Threads : ~ PruneDone(u)
  BY PlainNext DEF Plain
<1>2. ListInv'
  BY <1>1, ListStep
<1>3. /\ decided' = decided /\ DecidedFirst' = DecidedFirst
      /\ \A u \in Threads : decided[u] # NULL => pc'[u] \in {"prune", "subtract"}
  BY PlainPlaces DEF Plain, DecidedFirst, DecidedInv
<1>4. ASSUME NEW u \in Threads, PushDone(u)
      PROVE  /\ DecidedInv' /\ Complete'
             /\ (Chain \cup Decided)' = Chain \cup Decided \cup {mine[u]} /\ mine[u] \notin Live
  <2>1. /\ mine[u] \notin Live /\ mine[u] \in Objects /\ next' = next
        /\ Chain' = Chain \cup {mine[u]} /\ Live' = Live \cup {mine[u]}
    BY <1>4, PushStep
  <2>2. Decided' = Decided /\ Linked(DecidedFirst, next)'
    BY <1>3, <2>1, PlainDecided
  <2>3. DecidedInv'
    BY <1>3, <2>1, <2>2 DEF DecidedInv
  <2>. QED BY <2>1, <2>2, <2>3 DEF Complete
<1>5. ASSUME \A u \in Threads : ~ PushDone(u)
      PROVE  DecidedInv' /\ Complete' /\ (Chain \cup Decided)' = Chain \cup Decided
  <2>1. /\ pending_head' = pending_head /\ (\A a \in Live : next'[a] = next[a])
        /\ (\A a \in Chain : next'[a] = next[a]) /\ Live' = Live
    BY <1>1, <1>5, QuietStep
  <2>2. Chain' = Chain
    BY <2>1, QuietChain
  <2>3. \A a \in Decided : next'[a] = next[a]
    BY <2>1 DEF DecidedInv
  <2>4. Decided' = Decided /\ Linked(DecidedFirst, next)'
    BY <1>3, <2>3, PlainDecided
  <2>5. DecidedInv'
    BY <1>3, <2>1, <2>2, <2>4 DEF DecidedInv
  <2>. QED BY <2>1, <2>2, <2>4, <2>5 DEF Complete
<1>6. DecidedInv' /\ Complete'
  BY <1>4, <1>5
<1>. QED BY <1>2, <1>4, <1>5, <1>6

\* The destructor runs when nothing is decided any more.
LEMMA DestroyPart ==
  ASSUME PartInv, TypeInv', Destroy, UNCHANGED inPlaceVars
  PROVE  /\ ListInv' /\ DecidedInv' /\ Complete'
         /\ Decided = {}
<1> USE DEF PartInv
<1>1. /\ \A t \in Threads : pc[t] = "idle" /\ decided[t] = NULL
      /\ UNCHANGED <<next, decided, pc>>
  BY DEF Destroy, DecidedInv, inPlaceVars
<1>2. DecidedFirst = {} /\ DecidedFirst' = DecidedFirst
  BY <1>1 DEF DecidedFirst
<1>3. Decided = {}
  <2>1. Closed({}, DecidedFirst, next)
    BY <1>2 DEF Closed
  <2>. QED BY <2>1, DecidedFacts, ReachLeast
<1>4. Decided' = {} /\ Linked(DecidedFirst, next)'
  BY <1>1, <1>2, <1>3, PlainDecided
<1>5. ListInv' /\ Live' \subseteq Chain'
  <2>1. [Next]_vars
    BY DEF Next
  <2>. QED BY <1>3, <2>1, ListStep DEF Complete
<1>6. DecidedInv'
  BY <1>1, <1>4 DEF DecidedInv
<1>. QED BY <1>3, <1>5, <1>6 DEF Complete

LEMMA PartStep ==
  ASSUME PartInv, [InPlaceNext]_allVars
  PROVE  PartInv'
<1>1. ASSUME [Next]_vars PROVE TypeInv' /\ NodeInv'
  BY <1>1, TypeStep, NodeStep DEF PartInv
<1>2. ASSUME NEW t \in Threads, Plain(t) PROVE PartInv'
  BY <1>1, <1>2, PlainNext, PlainPart DEF PartInv
<1>3. ASSUME NEW t \in Threads, Move(t) PROVE PartInv'
  BY <1>3, LoopTypes, LoopNodes, MovePart DEF PartInv
<1>4. ASSUME NEW t \in Threads, FreeDecided(t) PROVE PartInv'
  BY <1>4, LoopTypes, LoopNodes, FreePart DEF PartInv
<1>5. ASSUME Destroy, UNCHANGED inPlaceVars PROVE PartInv'
  <2>1. [Next]_vars
    BY <1>5 DEF Next
  <2>. QED BY <1>1, <1>5, <2>1, DestroyPart DEF PartInv
<1>6. ASSUME UNCHANGED vars, UNCHANGED inPlaceVars PROVE PartInv'
  <2>1. TypeInv' /\ NodeInv'
    BY <1>1, <1>6
  <2>2. UNCHANGED <<pending_head, next, decided, status, stamp, mine, pc, ptr, prev>>
    BY <1>6 DEF vars, inPlaceVars, chainVars, clientVars, pruneVars
  <2>3. Chain' = Chain /\ Decided' = Decided /\ DecidedFirst' = DecidedFirst /\ Live' = Live
    BY <2>2 DEF Chain, Decided, DecidedFirst, Live, Pushed
  <2>4. ListInv'
    BY <2>2, <2>3 DEF PartInv, ListInv, CursorsInChain
  <2>5. DecidedInv' /\ Complete'
    BY <2>2, <2>3 DEF PartInv, DecidedInv, Complete
  <2>. QED BY <2>1, <2>4, <2>5 DEF PartInv
<1>7. TypeInv
  BY DEF PartInv
<1>. QED BY <1>2, <1>3, <1>4, <1>5, <1>6, <1>7, InPlaceSteps

LEMMA PartInit == InPlaceInit => PartInv
<1> SUFFICES ASSUME InPlaceInit PROVE PartInv
  OBVIOUS
<1>1. TypeInv /\ NodeInv /\ ListInv /\ Live \subseteq Chain
  BY TypeInit, NodeInit, ListInit DEF InPlaceInit
<1>2. DecidedFirst = {}
  BY DEF InPlaceInit, DecidedFirst
<1>3. Closed({}, DecidedFirst, next)
  BY <1>2 DEF Closed
<1>4. Decided = {}
  BY <1>3, ReachLeast DEF Decided, DecidedFirst
<1>5. Linked(DecidedFirst, next)
  BY <1>4 DEF Linked, Decided, DecidedFirst
<1>6. DecidedInv
  BY <1>4, <1>5 DEF DecidedInv, InPlaceInit
<1>. QED BY <1>1, <1>6 DEF PartInv, Complete

LEMMA PartInvHolds == InPlaceSpec => []PartInv
<1>1. PartInv /\ [InPlaceNext]_allVars => PartInv'
  BY PartStep
<1>. QED BY <1>1, PartInit, PTL DEF InPlaceSpec

\* Moving nodes from the pending chain to the chain to be deleted, while other
\* threads push, loses none and links none twice (ListsPartition of QsbrInPlace).
THEOREM ListsAlwaysPartition == InPlaceSpec => []ListsPartition
<1>1. PartInv => ListsPartition
  <2> SUFFICES ASSUME PartInv PROVE ListsPartition
    OBVIOUS
  <2> USE DEF PartInv
  <2>1. Chain \cap Decided = {} /\ Chain \cup Decided = Live
    BY DEF DecidedInv, ListInv, Complete
  <2>2. \A a, b \in Chain : a # b => next[a] = NULL \/ next[a] # next[b]
    BY DEF ListInv, Linked, Chain
  <2>3. \A a, b \in Decided : a # b => next[a] = NULL \/ next[a] # next[b]
    BY DecidedFacts DEF DecidedInv, Linked
  <2>4. \A a \in Chain, b \in Decided : next[a] = NULL \/ next[a] # next[b]
    BY <2>1, ChainFacts, DecidedFacts
  <2>5. \A a, b \in Chain \cup Decided : a # b => next[a] = NULL \/ next[a] # next[b]
    BY <2>2, <2>3, <2>4
  <2>. QED BY <2>1, <2>5 DEF ListsPartition, Live
<1>. QED BY <1>1, PartInvHolds, PTL

-------------------------------------------------------------------------------
(* InPlaceLength: moving a node does not count, freeing it does.           *)

\* The account is kept by every step.
LEMMA BothStep ==
  ASSUME PartInv, PartInv', BothCounted, [InPlaceNext]_allVars
  PROVE  BothCounted'
<1> USE DEF PartInv
<1> DEFINE Both == Chain \cup Decided
<1>0. Both \in SUBSET Objects /\ Both' \in SUBSET Objects
  BY DEF Chain, Decided, Reachable
<1>1. PICK n \in Int : n = Cardinality(Both) /\ LengthOf(n)
  BY <1>0, NodesFinite DEF BothCounted
<1>2. PICK m \in Int : m = Cardinality(Both')
  BY <1>0, NodesFinite
<1>3. ASSUME NEW t \in Threads, Plain(t), NEW u \in Threads, PushDone(u) PROVE LengthOf(m)'
  <2>1. Both' = Both \cup {mine[u]} /\ mine[u] \notin Both
    BY <1>3, PlainPart DEF ListInv, DecidedInv
  <2> HIDE DEF Both
  <2>2. m = n + 1
    BY <1>0, <1>1, <1>2, <2>1, NodesFinite, FS_AddElement
  <2>. QED BY <1>1, <1>3, <2>2, LengthPush
<1>4. ASSUME NEW t \in Threads, Plain(t), \A u \in Threads : ~ PushDone(u) PROVE LengthOf(m)'
  <2>1. m = n
    BY <1>1, <1>2, <1>4, PlainPart
  <2>2. ASSUME Count(t) \/ Subtract(t) PROVE LengthOf(m)'
    BY <1>1, <2>1, <2>2, LengthCount, LengthSubtract
  <2>3. ASSUME ~ Count(t), ~ Subtract(t) PROVE LengthOf(m)'
    BY <1>1, <1>4, <2>1, <2>3, LengthQuiet DEF Plain
  <2>. QED BY <2>2, <2>3
<1>5. ASSUME NEW t \in Threads, Move(t) PROVE LengthOf(m)'
  <2>1. m = n
    BY <1>1, <1>2, <1>5, MovePart
  <2>2. pc' = pc /\ UNCHANGED <<deleted, lock, chain_length, destroyed>>
    BY <1>5 DEF Move, Goto, TypeInv, TypeOK
  <2>. QED BY <1>1, <2>1, <2>2, LengthKept
<1>6. ASSUME NEW t \in Threads, FreeDecided(t) PROVE LengthOf(m)'
  <2>1. Both' = Both \ {decided[t]} /\ decided[t] \in Both
    BY <1>6, FreeStep DEF DecidedInv
  <2> HIDE DEF Both
  <2>2. m = n - 1
    BY <1>0, <1>1, <1>2, <2>1, NodesFinite, FS_RemoveElement
  <2>3. /\ pc[t] = "subtract" /\ pc' = pc /\ deleted' = [deleted EXCEPT ![t] = @ + 1]
        /\ UNCHANGED <<chain_length, lock, destroyed>>
    BY <1>6 DEF FreeDecided, chainVars
  <2>. QED BY <1>1, <2>2, <2>3, LengthFree
<1>7. ASSUME UNCHANGED vars, UNCHANGED inPlaceVars PROVE LengthOf(m)'
  <2>1. UNCHANGED <<pending_head, next, decided, pc, deleted, lock, chain_length, destroyed>>
    BY <1>7 DEF vars, inPlaceVars, chainVars, pruneVars
  <2>2. m = n
    BY <1>1, <1>2, <2>1 DEF Chain, Decided
  <2>. QED BY <1>1, <2>1, <2>2, LengthKept
<1>8. LengthOf(m)'
  BY ONLY PartInv, [InPlaceNext]_allVars, <1>1, <1>3, <1>4, <1>5, <1>6, <1>7, InPlaceSteps,
          LengthDestroyed DEF PartInv
<1>. QED BY <1>2, <1>8 DEF BothCounted, LengthOf

\* chain_length_ is the number of nodes on both chains, up to what is pushed and not
\* counted, or deleted and not subtracted (InPlaceLength of QsbrInPlace).
THEOREM BothAlwaysCounted == InPlaceSpec => []InPlaceLength
<1>1. InPlaceInit => BothCounted
  <2> SUFFICES ASSUME InPlaceInit PROVE BothCounted
    OBVIOUS
  <2>1. LengthOf(0)
    BY LengthInit DEF InPlaceInit
  <2>2. Live = {}
    BY DEF InPlaceInit, Init, Live
  <2>3. Chain \cup Decided = {}
    BY <2>2, PartInit DEF PartInv, ListInv, DecidedInv
  <2>. QED BY <2>1, <2>3, FS_EmptySet DEF BothCounted
<1>2. PartInv /\ PartInv' /\ BothCounted /\ [InPlaceNext]_allVars => BothCounted'
  BY BothStep
<1>3. BothCounted => InPlaceLength
  BY DEF BothCounted, LengthOf, InPlaceLength, Counting, Owed
<1>. QED BY <1>1, <1>2, <1>3, PartInvHolds, PTL DEF InPlaceSpec

-------------------------------------------------------------------------------
(* DestructedThenFreed.                                                    *)

LEMMA DestructStep ==
  ASSUME PartInv, DestructInv, AllReclaimed, [InPlaceNext]_allVars
  PROVE  DestructInv' /\ AllReclaimed'
<1> USE DEF PartInv
<1>0. status \in [Objects -> {"linked", "unlinked", "freed"}]
  BY DEF TypeInv, TypeOK
<1>1. ASSUME NEW t \in Threads, Plain(t) PROVE DestructInv' /\ AllReclaimed'
  <2>1. [Next]_vars /\ ~ Destroy
    BY <1>1, PlainNext
  <2>2. destructed' = destructed \cup {o \in Objects : status'[o] # status[o]}
    BY <1>1 DEF Plain
  <2>3. \A o \in Objects : status'[o] = "linked" => status[o] = "linked"
    BY <2>1, LinkedBefore
  <2>4. DestructInv'
    BY <2>2, <2>3 DEF DestructInv
  <2>. QED BY <2>1, <2>4, DestroyedQuiet DEF AllReclaimed
<1>2. ASSUME NEW t \in Threads, Move(t) PROVE DestructInv' /\ AllReclaimed'
  BY <1>2 DEF Move, clientVars, DestructInv, AllReclaimed
<1>3. ASSUME NEW t \in Threads, FreeDecided(t) PROVE DestructInv' /\ AllReclaimed'
  <2>1. status[decided[t]] = "unlinked"
    BY <1>3, FreeStep DEF DecidedInv, Live
  <2>2. /\ status' = [status EXCEPT ![decided[t]] = "freed"] /\ destructed' = destructed
        /\ destroyed' = destroyed
    BY <1>3 DEF FreeDecided
  <2>. QED BY <1>0, <2>1, <2>2 DEF DestructInv, AllReclaimed
<1>4. ASSUME Destroy, UNCHANGED inPlaceVars PROVE DestructInv' /\ AllReclaimed'
  <2>1. Live \subseteq Chain
    BY <1>4, DestroyPart, LoopTypes, TypeStep DEF Complete, Next
  <2>2. AllReclaimed'
    BY <1>4, <2>1, DestroyReclaims DEF AllReclaimed
  <2>3. \A o \in Objects : status'[o] = "linked" <=> status[o] = "linked"
    BY <1>0, <1>4 DEF Destroy, ListInv, Live
  <2>4. DestructInv'
    BY <1>4, <2>3 DEF DestructInv, inPlaceVars
  <2>. QED BY <2>2, <2>4
<1>5. ASSUME UNCHANGED vars, UNCHANGED inPlaceVars PROVE DestructInv' /\ AllReclaimed'
  BY <1>5 DEF vars, clientVars, inPlaceVars, DestructInv, AllReclaimed
<1>6. TypeInv
  OBVIOUS
<1>. QED BY <1>1, <1>2, <1>3, <1>4, <1>5, <1>6, InPlaceSteps

\* No memory is freed under an object whose destructor has not run, and when the qsbr
\* is destroyed none is left (DestructedThenFreed of QsbrInPlace).
THEOREM DestructedAlwaysFreed == InPlaceSpec => []DestructedThenFreed
<1>1. InPlaceInit => DestructInv /\ AllReclaimed
  BY DEF InPlaceInit, Init, DestructInv, AllReclaimed
<1>2. PartInv /\ (DestructInv /\ AllReclaimed) /\ [InPlaceNext]_allVars
        => (DestructInv /\ AllReclaimed)'
  BY DestructStep
<1>3. PartInv /\ DestructInv /\ AllReclaimed => DestructedThenFreed
  BY DEF PartInv, TypeInv, TypeOK, DestructInv, AllReclaimed, DestructedThenFreed
<1>. QED BY <1>1, <1>2, <1>3, PartInvHolds, PTL DEF InPlaceSpec

-------------------------------------------------------------------------------
(* The test program.                                                       *)

Base == TypeInv /\ NodeInv /\ ListInv /\ Live \subseteq Chain

\* The vector points to objects nobody took out; a worker that goes on has taken
\* its own object out.
VectorInv ==
  /\ hoges \in [Threads -> Threads \cup {NULL}] /\ index \in [Threads -> Threads]
  /\ place \in [Threads -> {"start", "look", "load", "read", "leave", "gone"}]
  /\ \A t \in Threads : hoges[t] # NULL => hoges[t] = t /\ status[t] = "linked"
  /\ \A t \in Threads : place[t] \in {"leave", "gone"} => status[t] # "linked"
  /\ destroyed => \A t \in Threads : status[t] # "linked"

\* A worker drops its reference.
DropRef(t) ==
  /\ refs' = [refs EXCEPT ![t] = {}]
  /\ UNCHANGED <<clockVars, chainVars, status, mine, pruneVars, lock, pc, old, destroyed>>

\* The steps of the program, seen from the qsbr.
LEMMA TestSteps ==
  ASSUME VectorInv, [TestNext]_allTestVars
  PROVE  [Next]_vars \/ \E t \in Threads : DropRef(t)
<1>1. ASSUME NEW t \in Threads, Start(t) \/ End(t) \/ Inside(t) PROVE Next
  BY <1>1 DEF Start, End, Inside, Next
<1>2. ASSUME NEW t \in Threads, TakeOut(t) PROVE Next
  BY <1>2, OwnObjectAssumption DEF TakeOut, Next
<1>3. ASSUME NEW t \in Threads, Load(t) PROVE Next \/ UNCHANGED vars
  <2>1. hoges[index[t]] # NULL => hoges[index[t]] \in Objects
    BY OwnObjectAssumption DEF VectorInv
  <2>. QED BY <1>3, <2>1 DEF Load, Next
<1>4. ASSUME NEW t \in Threads, NEW i \in Threads, Look(t, i) PROVE UNCHANGED vars
  BY <1>4 DEF Look
<1>5. ASSUME NEW t \in Threads, Read(t) PROVE DropRef(t)
  BY <1>5 DEF Read, DropRef
<1>6. ASSUME Join PROVE Next
  BY <1>6 DEF Join, Next
<1>7. ASSUME UNCHANGED allTestVars PROVE UNCHANGED vars
  BY <1>7 DEF allTestVars
<1>. QED BY ONLY [TestNext]_allTestVars, <1>1, <1>2, <1>3, <1>4, <1>5, <1>6, <1>7 DEF TestNext

\* Dropping a reference changes nothing of the lists.
LEMMA DropBase ==
  ASSUME Base, NEW t \in Threads, DropRef(t)
  PROVE  Base'
<1> USE DEF Base
<1>1. refs' \in [Threads -> SUBSET Objects]
  BY DEF DropRef, TypeInv, TypeOK
<1>2. TypeInv'
  BY <1>1 DEF DropRef, TypeInv, TypeOK, PlaceTypes, clockVars, chainVars, pruneVars
<1>3. UNCHANGED <<pending_head, next, status, stamp, mine, pc, ptr, prev, old, lock, destroyed>>
  BY DEF DropRef, chainVars, pruneVars
<1>4. NodeInv'
  BY <1>3 DEF NodeInv, MinesOwned, AllStamped, LockHeld, PushLinks, DestroyedIsIdle
<1>5. Chain' = Chain /\ Live' = Live
  BY <1>3 DEF Chain, Live, Pushed
<1>6. ListInv'
  BY <1>3, <1>5 DEF ListInv, CursorsInChain
<1>. QED BY <1>2, <1>4, <1>5, <1>6

\* The lists are what they are in every program that uses the qsbr.
LEMMA BaseStep ==
  ASSUME Base, VectorInv, [TestNext]_allTestVars
  PROVE  Base'
<1>1. ASSUME [Next]_vars PROVE Base'
  BY <1>1, TypeStep, NodeStep, ListStep DEF Base
<1>. QED BY <1>1, TestSteps, DropBase

\* The qsbr takes nothing out of the structure by itself: what it frees was handed over.
LEMMA StepKeepsLinked ==
  ASSUME Base, NEW t \in Threads, Enter(t) \/ Leave(t) \/ Step(t),
         NEW o \in Objects, status[o] = "linked"
  PROVE  status'[o] = "linked"
<1>1. ASSUME Prune(t) PROVE status'[o] = "linked"
  <2>1. ptr[t] \in Chain
    BY <1>1, ChainFacts DEF Base, Prune, Goto, ListInv, CursorsInChain
  <2>2. o # ptr[t]
    BY <2>1 DEF Base, ListInv, Live
  <2>. QED BY <1>1, <2>2 DEF Prune, Base, TypeInv, TypeOK
<1>2. ASSUME ~ Prune(t) PROVE status' = status
  BY <1>2 DEF Step, clientVars, Enter, Register, LinkClock, LoadClock, StoreClock, Stamp, LoadHead,
     Push, Count, Leave, CheckLength, TryLock, RecheckLength, ScanHead, ScanClock, LoadPending,
     EndPrune, Subtract, Unlock
<1>. QED BY <1>1, <1>2

\* What is not linked stays so.
LEMMA NeverLinkedAgain ==
  ASSUME Base, VectorInv, [TestNext]_allTestVars, NEW o \in Objects, status'[o] = "linked"
  PROVE  status[o] = "linked"
<1>1. ASSUME NEW t \in Threads, DropRef(t) PROVE status[o] = "linked"
  BY <1>1 DEF DropRef
<1>. QED BY <1>1, TestSteps, LinkedBefore DEF Base

\* The destructor runs after every worker has taken its object out.
LEMMA VectorStep ==
  ASSUME Base, VectorInv, [TestNext]_allTestVars
  PROVE  VectorInv'
<1> USE DEF VectorInv
<1> DEFINE Types == /\ hoges' \in [Threads -> Threads \cup {NULL}] /\ index' \in [Threads -> Threads]
                    /\ place' \in [Threads -> {"start", "look", "load", "read", "leave", "gone"}]
           Points == \A t \in Threads : hoges'[t] # NULL => hoges'[t] = t /\ status'[t] = "linked"
           Out == \A t \in Threads : place'[t] \in {"leave", "gone"} => status'[t] # "linked"
           Over == destroyed' => \A t \in Threads : status'[t] # "linked"
           Goal == Types /\ Points /\ Out /\ Over
<1>0. /\ Objects = Threads /\ status \in [Objects -> {"linked", "unlinked", "freed"}]
      /\ \A t \in Threads : status'[t] = "linked" => status[t] = "linked"
  BY OwnObjectAssumption, NeverLinkedAgain DEF Base, TypeInv, TypeOK
<1>a. ASSUME hoges' = hoges, Types, \A t \in Threads : status[t] = "linked" => status'[t] = "linked",
             \A t \in Threads : place'[t] \in {"leave", "gone"} => place[t] \in {"leave", "gone"},
             destroyed' = destroyed
      PROVE  Goal
  BY <1>0, <1>a
<1> HIDE DEF Goal
<1>1. ASSUME NEW t \in Threads, Start(t) PROVE Goal
  BY <1>1, <1>a DEF Start, GoTo, Enter, clientVars
<1>2. ASSUME NEW t \in Threads, NEW i \in Threads, Look(t, i) PROVE Goal
  BY <1>2, <1>a DEF Look, GoTo, vars, clientVars
<1>3. ASSUME NEW t \in Threads, Load(t) PROVE Goal
  BY <1>3, <1>a DEF Load, GoTo, Acquire, vars, clientVars
<1>4. ASSUME NEW t \in Threads, Read(t) PROVE Goal
  BY <1>4, <1>a DEF Read, GoTo
<1>5. ASSUME NEW t \in Threads, TakeOut(t) PROVE Goal
  <2>1. /\ hoges' = [hoges EXCEPT ![t] = NULL] /\ place' = [place EXCEPT ![t] = "leave"]
        /\ index' = index /\ status' = [status EXCEPT ![t] = "unlinked"]
        /\ destroyed' = destroyed
    BY <1>5 DEF TakeOut, GoTo, Unlink
  <2>2. Types
    BY <2>1
  <2>3. Points
    BY <1>0, <2>1
  <2>4. Out /\ Over
    BY <1>0, <2>1
  <2>. QED BY <2>2, <2>3, <2>4 DEF Goal
<1>6. ASSUME NEW t \in Threads, End(t) PROVE Goal
  <2>1. place' = [place EXCEPT ![t] = "gone"] /\ place[t] = "leave" /\ UNCHANGED <<hoges, index>>
    BY <1>6 DEF End, GoTo, At
  <2>2. status' = status /\ destroyed' = destroyed
    BY <1>6 DEF End, Leave
  <2>. QED BY <2>1, <2>2, <1>a
<1>7. ASSUME NEW t \in Threads, Inside(t) PROVE Goal
  <2>1. UNCHANGED <<hoges, place, index>> /\ Step(t)
    BY <1>7 DEF Inside, testVars
  <2>2. \A o \in Threads : status[o] = "linked" => status'[o] = "linked"
    BY <1>0, <2>1, StepKeepsLinked
  <2>3. destroyed' = destroyed
    BY <2>1 DEF Step, Register, LinkClock, LoadClock, StoreClock, Stamp, LoadHead, Push, Count,
       CheckLength, TryLock, RecheckLength, ScanHead, ScanClock, LoadPending, Prune, EndPrune,
       Subtract, Unlock
  <2>. QED BY <2>1, <2>2, <2>3, <1>a
<1>8. ASSUME Join PROVE Goal
  <2>1. UNCHANGED <<hoges, place, index>> /\ \A t \in Threads : place[t] = "gone"
    BY <1>8 DEF Join, At, testVars
  <2>2. \A t \in Threads : status[t] # "linked" /\ status'[t] # "linked"
    BY <1>0, <2>1
  <2>. QED BY <2>1, <2>2 DEF Goal
<1>9. ASSUME UNCHANGED allTestVars PROVE Goal
  BY <1>9, <1>a DEF allTestVars, vars, clientVars, testVars
<1>10. Goal
  BY ONLY [TestNext]_allTestVars, <1>1, <1>2, <1>3, <1>4, <1>5, <1>6, <1>7, <1>8, <1>9 DEF TestNext
<1>. QED BY <1>10 DEF Goal

\* Nothing handed over is left when the qsbr is gone.
LEMMA ReclaimedStep ==
  ASSUME Base, VectorInv, AllReclaimed, [TestNext]_allTestVars
  PROVE  AllReclaimed'
<1>1. ASSUME NEW t \in Threads, DropRef(t) PROVE AllReclaimed'
  BY <1>1 DEF DropRef, AllReclaimed
<1>2. ASSUME [Next]_vars PROVE AllReclaimed'
  <2>1. CASE Destroy
    BY <2>1, DestroyReclaims DEF Base, AllReclaimed
  <2>2. CASE ~ Destroy
    BY <1>2, <2>2, DestroyedQuiet DEF Base, AllReclaimed
  <2>. QED BY <2>1, <2>2
<1>. QED BY <1>1, <1>2, TestSteps

TestInv == Base /\ VectorInv /\ AllReclaimed

\* All of this is invariant.
LEMMA TestInvHolds == TestSpec => []TestInv
<1>1. TestInit => TestInv
  <2> SUFFICES ASSUME TestInit PROVE TestInv
    OBVIOUS
  <2>1. Base
    BY TypeInit, NodeInit, ListInit DEF TestInit, Base
  <2>2. VectorInv
    BY OwnObjectAssumption DEF TestInit, Init, VectorInv
  <2>. QED BY <2>1, <2>2 DEF TestInit, Init, AllReclaimed, TestInv
<1>2. TestInv /\ [TestNext]_allTestVars => TestInv'
  BY BaseStep, VectorStep, ReclaimedStep DEF TestInv
<1>. QED BY <1>1, <1>2, PTL DEF TestSpec

\* No worker finds a freed object in the vector, whoever prunes while it looks
\* (VectorPointsToLive of QsbrTest).
THEOREM VectorAlwaysLive == TestSpec => []VectorPointsToLive
<1>1. TestInv => VectorPointsToLive
  BY DEF TestInv, VectorInv, VectorPointsToLive
<1>. QED BY <1>1, TestInvHolds, PTL

\* When the program ends every object it has allocated is freed (NothingLeftOver of
\* QsbrTest).
THEOREM NothingLeft == TestSpec => []NothingLeftOver
<1>1. TestInv => NothingLeftOver
  BY OwnObjectAssumption DEF TestInv, Base, TypeInv, TypeOK, VectorInv, AllReclaimed, NothingLeftOver
<1>. QED BY <1>1, TestInvHolds, PTL
===============================================================================
