--------------------------------- MODULE Qsbr ---------------------------------
(***************************************************************************)
(* nanahan::qsbr (memory/qsbr_persist.hpp), quiescent-state-based          *)
(* reclamation: every atomic access of a thread is a step, so is every     *)
(* lock operation.  What a thread does between two shared accesses belongs *)
(* to the step before it.                                                  *)
(*                                                                         *)
(* Clients use it as stack.hpp and qsbr_test.cpp do: inside a ref_guard a  *)
(* thread takes references to objects that are linked in a shared          *)
(* structure, unlinks objects, and hands an object it unlinked to          *)
(* safe_free().  Each object stands for the delete_pending_chain node that *)
(* safe_free() allocates for it as well: next and stamp are that node's    *)
(* next_ and clock_.  The clock_chain node of thread t is named t.         *)
(***************************************************************************)
EXTENDS Integers, FiniteSets

CONSTANTS
  Threads, Objects,
  Threshold,   \* attemt_delete() works on chains longer than this (32 in the code)
  Word,        \* number of values of chain_length_ and of a clock (2^64 in the code)
  NULL

ASSUME QsbrAssumption ==
  /\ Threshold \in Nat \ {0}
  /\ Word \in Nat \ {0}
  /\ NULL \notin Threads \cup Objects
  \* The clock does not wrap: one tick per object.
  /\ IsFiniteSet(Objects) /\ Cardinality(Objects) + 1 < Word - 1

MAX == Word - 1     \* ~0

VARIABLES
  head,           \* head_ of the clock_chain list
  clock,          \* clock_ of each thread's node
  clockNext,      \* next_ of each thread's node
  pending_head,
  next,           \* next_ of each object's pending node
  stamp,          \* clock_ of each object's pending node, 0 before it has one
  center_clock,
  chain_length,
  lock,           \* owner of deleting_lock_, NULL when it is free
  status,         \* of each object: linked, unlinked (safe_free called), freed
  refs,           \* references each thread holds
  registered,     \* pthread_getspecific(key_) is not NULL
  pc,
  old,            \* per thread: the clock, or old_head, it has loaded
  mine,           \* per thread: recipient of its safe_free()
  least,          \* per thread: least_clock
  ptr,            \* per thread: ptr of its scan or its pruning
  prev,           \* per thread: the node prev_next points into
  deleted,        \* per thread: delete_counter
  destroyed       \* ~qsbr() has run

clockVars == <<head, clock, clockNext, registered>>
chainVars == <<pending_head, next, stamp, center_clock, chain_length>>
clientVars == <<status, refs, mine>>
pruneVars == <<least, ptr, prev, deleted>>
vars == <<clockVars, chainVars, clientVars, pruneVars, lock, pc, old, destroyed>>

Init ==
  /\ head = NULL
  /\ clock = [t \in Threads |-> 0]
  /\ clockNext = [t \in Threads |-> NULL]
  /\ pending_head = NULL
  /\ next = [o \in Objects |-> NULL]
  /\ stamp = [o \in Objects |-> 0]
  /\ center_clock = 1
  /\ chain_length = 0
  /\ lock = NULL
  /\ status = [o \in Objects |-> "linked"]
  /\ refs = [t \in Threads |-> {}]
  /\ registered = [t \in Threads |-> FALSE]
  /\ pc = [t \in Threads |-> "idle"]
  /\ old = [t \in Threads |-> NULL]
  /\ mine = [t \in Threads |-> NULL]
  /\ least = [t \in Threads |-> MAX]
  /\ ptr = [t \in Threads |-> NULL]
  /\ prev = [t \in Threads |-> NULL]
  /\ deleted = [t \in Threads |-> 0]
  /\ destroyed = FALSE

\* Thread t goes from one place to another.
Goto(t, from, to) ==
  /\ pc[t] = from
  /\ pc' = [pc EXCEPT ![t] = to]

-------------------------------------------------------------------------------
(* ref_guard(): set_active(), with new_chain() on a thread's first call.   *)

Enter(t) ==
  /\ ~destroyed
  /\ Goto(t, "idle", IF registered[t] THEN "loadClock" ELSE "register")
  /\ UNCHANGED <<clockVars, chainVars, clientVars, pruneVars, lock, old, destroyed>>

\* new_chain(): the node is allocated, stored under the key; head_ is loaded.
Register(t) ==
  /\ Goto(t, "register", "link")
  /\ registered' = [registered EXCEPT ![t] = TRUE]
  /\ old' = [old EXCEPT ![t] = head]
  /\ UNCHANGED <<head, clock, clockNext, chainVars, clientVars, pruneVars, lock, destroyed>>

\* The compare-and-exchange of head_; when it fails the loop loads head_ again.
LinkClock(t) ==
  /\ Goto(t, "link", IF head = old[t] THEN "loadClock" ELSE "register")
  /\ IF head = old[t]
     THEN /\ clockNext' = [clockNext EXCEPT ![t] = old[t]]
          /\ head' = t
     ELSE UNCHANGED <<clockNext, head>>
  /\ UNCHANGED <<clock, registered, chainVars, clientVars, pruneVars, lock, old, destroyed>>

LoadClock(t) ==
  /\ Goto(t, "loadClock", "storeClock")
  /\ old' = [old EXCEPT ![t] = center_clock]
  /\ UNCHANGED <<clockVars, chainVars, clientVars, pruneVars, lock, destroyed>>

StoreClock(t) ==
  /\ Goto(t, "storeClock", "guarded")
  /\ clock' = [clock EXCEPT ![t] = old[t]]
  /\ old' = [old EXCEPT ![t] = NULL]
  /\ UNCHANGED <<head, clockNext, registered, chainVars, clientVars, pruneVars, lock, destroyed>>

-------------------------------------------------------------------------------
(* The client, inside the guard.                                           *)

\* It reads a pointer to an object out of the shared structure.
Acquire(t, o) ==
  /\ pc[t] = "guarded"
  /\ status[o] = "linked"
  /\ refs' = [refs EXCEPT ![t] = @ \cup {o}]
  /\ UNCHANGED <<clockVars, chainVars, status, mine, pruneVars, lock, pc, old, destroyed>>

\* It takes the object out of the structure and calls safe_free().
Unlink(t, o) ==
  /\ status[o] = "linked"
  /\ Goto(t, "guarded", "stamp")
  /\ status' = [status EXCEPT ![o] = "unlinked"]
  /\ refs' = [refs EXCEPT ![t] = @ \ {o}]
  /\ mine' = [mine EXCEPT ![t] = o]
  /\ UNCHANGED <<clockVars, chainVars, pruneVars, lock, old, destroyed>>

-------------------------------------------------------------------------------
(* safe_free().                                                            *)

\* Mutant: the stamp is the clock before the tick.
Stamp_BeforeTick(t) ==
  /\ Goto(t, "stamp", "load")
  /\ center_clock' = center_clock + 1
  /\ stamp' = [stamp EXCEPT ![mine[t]] = center_clock]
  /\ UNCHANGED <<clockVars, pending_head, next, chain_length, clientVars, pruneVars,
                 lock, old, destroyed>>

\* center_clock_.fetch_add(1) + 1 is the delete_timing of the new node.
Stamp(t) ==
  /\ Goto(t, "stamp", "load")
  /\ center_clock' = center_clock + 1
  /\ stamp' = [stamp EXCEPT ![mine[t]] = center_clock + 1]
  /\ UNCHANGED <<clockVars, pending_head, next, chain_length, clientVars, pruneVars,
                 lock, old, destroyed>>

\* Mutant: the new node is linked to the head loaded in the previous round.
LoadHead_LinksFirst(t) ==
  /\ Goto(t, "load", "push")
  /\ old' = [old EXCEPT ![t] = pending_head]
  /\ next' = [next EXCEPT ![mine[t]] = old[t]]
  /\ UNCHANGED <<clockVars, pending_head, stamp, center_clock, chain_length, clientVars,
                 pruneVars, lock, destroyed>>

LoadHead(t) ==
  /\ Goto(t, "load", "push")
  /\ old' = [old EXCEPT ![t] = pending_head]
  /\ next' = [next EXCEPT ![mine[t]] = pending_head]
  /\ UNCHANGED <<clockVars, pending_head, stamp, center_clock, chain_length, clientVars,
                 pruneVars, lock, destroyed>>

\* Mutant: the loop goes round without loading the head again.
Push_NoReload(t) ==
  /\ Goto(t, "push", IF pending_head = old[t] THEN "count" ELSE "push")
  /\ pending_head' = IF pending_head = old[t] THEN mine[t] ELSE pending_head
  /\ UNCHANGED <<clockVars, next, stamp, center_clock, chain_length, clientVars, pruneVars,
                 lock, old, destroyed>>

\* The compare-and-exchange of pending_head_; when it fails the loop goes round.
Push(t) ==
  /\ Goto(t, "push", IF pending_head = old[t] THEN "count" ELSE "load")
  /\ pending_head' = IF pending_head = old[t] THEN mine[t] ELSE pending_head
  /\ UNCHANGED <<clockVars, next, stamp, center_clock, chain_length, clientVars, pruneVars,
                 lock, old, destroyed>>

Count(t) ==
  /\ Goto(t, "count", "guarded")
  /\ chain_length' = (chain_length + 1) % Word
  /\ mine' = [mine EXCEPT ![t] = NULL]
  /\ old' = [old EXCEPT ![t] = NULL]
  /\ UNCHANGED <<clockVars, pending_head, next, stamp, center_clock, status, refs, pruneVars,
                 lock, destroyed>>

-------------------------------------------------------------------------------
(* ~ref_guard(): set_quiescence(), then attemt_delete().                   *)

Leave(t) ==
  /\ Goto(t, "guarded", "check")
  /\ clock' = [clock EXCEPT ![t] = 0]
  /\ refs' = [refs EXCEPT ![t] = {}]
  /\ UNCHANGED <<head, clockNext, registered, chainVars, status, mine, pruneVars, lock, old,
                 destroyed>>

\* Mutant: any pending node is worth an attempt.
OverThreshold_Any == 0 < chain_length

OverThreshold == Threshold < chain_length

CheckLength(t) ==
  /\ Goto(t, "check", IF OverThreshold THEN "trylock" ELSE "idle")
  /\ UNCHANGED <<clockVars, chainVars, clientVars, pruneVars, lock, old, destroyed>>

\* Mutant: the result of trylock is not tested.
TryLock_Untested(t) ==
  /\ Goto(t, "trylock", "recheck")
  /\ lock' = IF lock = NULL THEN t ELSE lock
  /\ UNCHANGED <<clockVars, chainVars, clientVars, pruneVars, old, destroyed>>

\* pthread_mutex_trylock(): a busy lock ends the attempt.
TryLock(t) ==
  /\ Goto(t, "trylock", IF lock = NULL THEN "recheck" ELSE "idle")
  /\ lock' = IF lock = NULL THEN t ELSE lock
  /\ UNCHANGED <<clockVars, chainVars, clientVars, pruneVars, old, destroyed>>

\* double_checked_length
RecheckLength(t) ==
  /\ Goto(t, "recheck", IF OverThreshold THEN "scanHead" ELSE "unlock")
  /\ UNCHANGED <<clockVars, chainVars, clientVars, pruneVars, lock, old, destroyed>>

\* scan_least_clock() starts at the head of the clock chain ...
ScanHead(t) ==
  /\ Goto(t, "scanHead", "scan")
  /\ least' = [least EXCEPT ![t] = MAX]
  /\ ptr' = [ptr EXCEPT ![t] = head]
  /\ UNCHANGED <<clockVars, chainVars, clientVars, prev, deleted, lock, old, destroyed>>

\* ... and looks at one clock after the other: least_clock < got_clock, as written.
ScanClock(t) ==
  LET got == clock[ptr[t]] IN
  /\ ptr[t] # NULL
  /\ Goto(t, "scan", "scan")
  /\ least' = [least EXCEPT ![t] = IF 0 < got /\ @ < got THEN got ELSE @]
  /\ ptr' = [ptr EXCEPT ![t] = clockNext[ptr[t]]]
  /\ UNCHANGED <<clockVars, chainVars, clientVars, prev, deleted, lock, old, destroyed>>

\* The two nodes the pruning steps over without a NULL check are there.
SpineExists == pending_head # NULL /\ next[pending_head] # NULL

\* pending_head_ is loaded; the first two nodes are kept, pruning starts behind them.
LoadPending(t) ==
  /\ ptr[t] = NULL
  /\ Goto(t, "scan", IF SpineExists THEN "prune" ELSE "crashed")
  /\ IF SpineExists
     THEN LET second == next[pending_head] IN
          /\ prev' = [prev EXCEPT ![t] = second]
          /\ ptr' = [ptr EXCEPT ![t] = next[second]]
     ELSE UNCHANGED <<prev, ptr>>
  /\ deleted' = [deleted EXCEPT ![t] = 0]
  /\ UNCHANGED <<clockVars, chainVars, clientVars, least, lock, old, destroyed>>

\* Mutant: ++delete_counter is forgotten.
Prune_Uncounted(t) ==
  LET o == ptr[t] IN
  /\ o # NULL
  /\ Goto(t, "prune", "prune")
  /\ ptr' = [ptr EXCEPT ![t] = next[o]]
  /\ IF stamp[o] < least[t]
     THEN /\ status' = [status EXCEPT ![o] = "freed"]
          /\ next' = [next EXCEPT ![prev[t]] = next[o]]
          /\ UNCHANGED prev
     ELSE /\ prev' = [prev EXCEPT ![t] = o]
          /\ UNCHANGED <<status, next>>
  /\ UNCHANGED <<clockVars, pending_head, stamp, center_clock, chain_length, refs, mine, least,
                 deleted, lock, old, destroyed>>

\* One node of the pruning loop: deleted with its object, or stepped over.
Prune(t) ==
  LET o == ptr[t] IN
  /\ o # NULL
  /\ Goto(t, "prune", "prune")
  /\ ptr' = [ptr EXCEPT ![t] = next[o]]
  /\ IF stamp[o] < least[t]
     THEN /\ status' = [status EXCEPT ![o] = "freed"]
          /\ next' = [next EXCEPT ![prev[t]] = next[o]]
          /\ deleted' = [deleted EXCEPT ![t] = @ + 1]
          /\ UNCHANGED prev
     ELSE /\ prev' = [prev EXCEPT ![t] = o]
          /\ UNCHANGED <<status, next, deleted>>
  /\ UNCHANGED <<clockVars, pending_head, stamp, center_clock, chain_length, refs, mine, least,
                 lock, old, destroyed>>

\* The loop is over: *prev_next = NULL.
EndPrune(t) ==
  /\ ptr[t] = NULL
  /\ Goto(t, "prune", "subtract")
  /\ next' = [next EXCEPT ![prev[t]] = NULL]
  /\ UNCHANGED <<clockVars, pending_head, stamp, center_clock, chain_length, clientVars,
                 pruneVars, lock, old, destroyed>>

\* Mutant: the two kept nodes are subtracted too, from a signed counter.
Subtract_Signed(t) ==
  /\ Goto(t, "subtract", "unlock")
  /\ chain_length' = chain_length - (deleted[t] + 2)
  /\ deleted' = [deleted EXCEPT ![t] = 0]
  /\ UNCHANGED <<clockVars, pending_head, next, stamp, center_clock, clientVars, least, ptr,
                 prev, lock, old, destroyed>>

\* chain_length_.fetch_sub(delete_counter), on unsigned words.
Subtract(t) ==
  /\ Goto(t, "subtract", "unlock")
  /\ chain_length' = (chain_length - deleted[t]) % Word
  /\ deleted' = [deleted EXCEPT ![t] = 0]
  /\ UNCHANGED <<clockVars, pending_head, next, stamp, center_clock, clientVars, least, ptr,
                 prev, lock, old, destroyed>>

Unlock(t) ==
  /\ Goto(t, "unlock", "idle")
  /\ lock' = NULL
  /\ prev' = [prev EXCEPT ![t] = NULL]
  /\ UNCHANGED <<clockVars, chainVars, clientVars, least, ptr, deleted, old, destroyed>>

-------------------------------------------------------------------------------
\* A set of nodes with the given first ones that no next_ leads out of, ...
Closed(S, first, nx) == first \subseteq S /\ \A o \in S : nx[o] \in S \cup {NULL}

\* ... and the nodes that are in every such set: those that can be reached.
Reachable(first, nx) == {o \in Objects : ~ \E S \in SUBSET (Objects \ {o}) : Closed(S, first, nx)}

\* The nodes that can be reached from pending_head.
Chain == Reachable({pending_head} \ {NULL}, next)

\* Mutant: the loop starts behind the first node.
Destroy_SkipsHead ==
  /\ ~destroyed
  /\ \A t \in Threads : pc[t] = "idle"
  /\ destroyed' = TRUE
  /\ status' = [o \in Objects |-> IF o \in Chain \ {pending_head} THEN "freed" ELSE status[o]]
  /\ pending_head' = NULL
  /\ head' = NULL
  /\ UNCHANGED <<clock, clockNext, registered, next, stamp, center_clock, chain_length, refs,
                 mine, pruneVars, lock, pc, old>>

\* ~qsbr(), after the threads have been joined: every pending node is deleted.
Destroy ==
  /\ ~destroyed
  /\ \A t \in Threads : pc[t] = "idle"
  /\ destroyed' = TRUE
  /\ status' = [o \in Objects |-> IF o \in Chain THEN "freed" ELSE status[o]]
  /\ pending_head' = NULL
  /\ head' = NULL
  /\ UNCHANGED <<clock, clockNext, registered, next, stamp, center_clock, chain_length, refs,
                 mine, pruneVars, lock, pc, old>>

\* The steps a thread takes by itself once it has entered or left its guard.
Step(t) ==
  \/ Register(t) \/ LinkClock(t) \/ LoadClock(t) \/ StoreClock(t)
  \/ Stamp(t) \/ LoadHead(t) \/ Push(t) \/ Count(t)
  \/ CheckLength(t) \/ TryLock(t) \/ RecheckLength(t)
  \/ ScanHead(t) \/ ScanClock(t) \/ LoadPending(t)
  \/ Prune(t) \/ EndPrune(t) \/ Subtract(t) \/ Unlock(t)

Next ==
  \/ \E t \in Threads :
       \/ Enter(t) \/ Leave(t) \/ Step(t)
       \/ \E o \in Objects : Acquire(t, o) \/ Unlink(t, o)
  \/ Destroy

Spec == Init /\ [][Next]_vars

\* Every thread is scheduled again and again; guards and clients are free to wait.
FairSpec == Spec /\ \A t \in Threads : WF_vars(Step(t))

-------------------------------------------------------------------------------
(* Properties.                                                             *)

Places ==
  {"idle", "register", "link", "loadClock", "storeClock", "guarded", "stamp", "load", "push",
   "count", "check", "trylock", "recheck", "scanHead", "scan", "prune", "subtract", "unlock",
   "crashed"}

\* Every variable has its type.
TypeOK ==
  /\ head \in Threads \cup {NULL}
  /\ clock \in [Threads -> Nat]
  /\ clockNext \in [Threads -> Threads \cup {NULL}]
  /\ pending_head \in Objects \cup {NULL}
  /\ next \in [Objects -> Objects \cup {NULL}]
  /\ stamp \in [Objects -> Nat]
  /\ center_clock \in Nat \ {0}
  /\ chain_length \in 0..MAX
  /\ lock \in Threads \cup {NULL}
  /\ status \in [Objects -> {"linked", "unlinked", "freed"}]
  /\ refs \in [Threads -> SUBSET Objects]
  /\ registered \in [Threads -> BOOLEAN]
  /\ pc \in [Threads -> Places]
  /\ old \in [Threads -> Threads \cup Objects \cup {NULL} \cup Nat]
  /\ mine \in [Threads -> Objects \cup {NULL}]
  /\ least \in [Threads -> Nat]
  /\ ptr \in [Threads -> Threads \cup Objects \cup {NULL}]
  /\ prev \in [Threads -> Objects \cup {NULL}]
  /\ deleted \in [Threads -> Nat]
  /\ destroyed \in BOOLEAN

\* Where a thread is inside its guard.
Guarded == {"guarded", "stamp", "load", "push", "count"}

\* The objects whose safe_free() has pushed its node: all threads but the owner
\* can see it.
Pushed(o) ==
  /\ stamp[o] # 0
  /\ \A t \in Threads : mine[t] = o => pc[t] = "count"

\* The pending chain is a list of exactly the objects handed over and not yet
\* freed, although pruning unlinks nodes while other threads push: none is lost
\* (leaked), none is reached again after it was freed (deleted twice).
ChainIntact ==
  ~destroyed =>
    /\ Chain = {o \in Objects : Pushed(o) /\ status[o] = "unlinked"}
    /\ \A a, b \in Chain : a # b => next[a] = NULL \/ next[a] # next[b]
    /\ \A a \in Chain : next[a] # pending_head

\* attemt_delete() steps over the first two nodes without a NULL check; the
\* length it tests is counted after the push and before the subtraction, and
\* may wrap below zero, yet the two nodes are always there.
NeverCrashes == \A t \in Threads : pc[t] # "crashed"

\* Only the owner of deleting_lock_ prunes, so no node is freed under another
\* thread's pruning cursor.
PruneCursorsLive ==
  \A t \in Threads : pc[t] = "prune" =>
    /\ lock = t
    /\ prev[t] \in Chain
    /\ ptr[t] # NULL => ptr[t] \in Chain /\ next[prev[t]] = ptr[t]

\* chain_length_ is the length of the chain, but for nodes pushed and not yet
\* counted and nodes deleted and not yet subtracted; whatever it wraps to in
\* between, the debts settle.
LengthAccounts ==
  ~destroyed =>
    chain_length =
      (Cardinality(Chain) - Cardinality({t \in Threads : pc[t] = "count"})
       + (IF lock = NULL THEN 0 ELSE deleted[lock])) % Word

\* The stamps are sound: an object a guarded thread may still read is stamped
\* later than the clock that thread announced, so a true minimum of the clocks
\* would keep it (memory/qsbr_persist.hpp:75-84 and 139-153).
StampsProtect ==
  \A t \in Threads : \A o \in refs[t] :
    /\ clock[t] > 0
    /\ stamp[o] # 0 => clock[t] < stamp[o]

\* What ref_guard is for, and what memory/qsbr_test.cpp:37-49 relies on when it
\* reads hoges[index]->foo under its guard: no object is freed while a guarded
\* thread that could reach it still holds a reference.
GuardedRefsLive == \A t \in Threads : \A o \in refs[t] : status[o] # "freed"

\* When the qsbr is destroyed every object handed to safe_free() is freed.
AllReclaimed == destroyed => \A o \in Objects : status[o] # "unlinked"

\* Entering a guard, safe_free() and leaving a guard end: the compare-and-exchange
\* loops, the scan and the pruning do not go on for ever.
OperationsFinish ==
  \A t \in Threads : pc[t] \notin {"idle", "guarded"} ~> pc[t] \in {"idle", "guarded"}
===============================================================================
