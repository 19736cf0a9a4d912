--------------------------------- MODULE Stack ---------------------------------
(***************************************************************************)
(* nanahan::Stack (stack/stack.hpp): every atomic access of a thread is a  *)
(* step; what a thread does between two shared accesses belongs to the     *)
(* step before it.                                                         *)
(*                                                                         *)
(* Threads are the indices 1..N that get_index() hands out; winner_ holds  *)
(* them and their negatives, and scan() visits them in this order.  A node *)
(* is the number of the push that allocated it, 0 is NULL.  A descriptor   *)
(* (the code's struct state) is a record; "copy" tells a descriptor from   *)
(* the one it was made from, as its address does.                          *)
(*                                                                         *)
(* safe_free() only puts an object on the list of those to be freed        *)
(* (Qsbr models when that is); here it is remembered which threads have    *)
(* been inside their ref_guards from then on.  No more than 32 objects are *)
(* handed over in an instance for TLC, so that attemt_delete()             *)
(* (memory/qsbr_persist.hpp:95) frees none of them and no address is used  *)
(* again.                                                                  *)
(***************************************************************************)
EXTENDS Integers, FiniteSets

CONSTANTS
  N,          \* max_threads_
  MaxPush,    \* bound: calls of push()
  MaxPop,     \* bound: calls of pop()
  Pushers,    \* bound: the threads that push (all of them may pop)
  Overlap,    \* bound: the kinds of operation that may run at the same time
  Spare,      \* bound: a pop that meets others starts with Spare elements more than they take
  Survivor    \* the thread that is scheduled although the others may stop

ASSUME StackAssumption ==
  /\ N \in Nat \ {0}
  /\ MaxPush \in Nat
  /\ MaxPop \in Nat
  /\ Pushers \subseteq 1..N
  /\ Overlap \subseteq {"push", "pop"}
  /\ Spare \in Nat
  /\ Survivor \in 1..N

Threads == 1..N
Nodes == 1..MaxPush
NULL == 0

VARIABLES
  head,       \* head_
  next,       \* next_ of each node
  winner,     \* winner_ of each node
  states,     \* states_[t]: the descriptor each thread has announced
  pc,
  me,         \* the local variables of each thread
  grace,      \* of each object handed to safe_free(): the threads inside a ref_guard ever since
  crashed,    \* why the process has stopped, "none" while it runs
  pushes,     \* calls of push() so far: the last node allocated
  pops,       \* calls of pop() so far
  answer,     \* what each thread's last pop returned
  destroyed   \* ~Stack() has run

heap == <<head, next, winner>>
bookkeeping == <<grace, crashed, pushes, pops, answer, destroyed>>
vars == <<heap, states, pc, me, bookkeeping>>

Descriptor(t, phase, pending, push, node, copy) ==
  [tid |-> t, phase |-> phase, pending |-> pending, push |-> push, node |-> node, copy |-> copy]

NoState == Descriptor(0, 0, FALSE, FALSE, NULL, 0)

\* The descriptor a helper makes from d for an operation that is done.
Finished(d, push, node) ==
  [d EXCEPT !.pending = FALSE, !.push = push, !.node = node, !.copy = @ + 1]

\* Locals of push() and pop(), of help() and scan(), of help_push() and
\* help_pop(), and of finish(); "back" is the place finish() returns to.
NoHelp == [oh |-> NULL, os |-> NoState, ow |-> 0]
NoFinish == [oh |-> NULL, tid |-> 0, minus |-> 0, os |-> NoState, nx |-> NULL, back |-> "idle"]
Idle ==
  [kind |-> "none", phase |-> 0, node |-> NULL, old |-> NoState, guarded |-> FALSE,
   ahead |-> {}, less |-> 0, i |-> 0, h |-> NoHelp, f |-> NoFinish]

Init ==
  /\ head = NULL
  /\ next = [n \in Nodes |-> NULL]
  /\ winner = [n \in Nodes |-> 0]
  /\ states = [t \in Threads |-> Descriptor(t, 0, FALSE, FALSE, NULL, 0)]
  /\ pc = [t \in Threads |-> "idle"]
  /\ me = [t \in Threads |-> Idle]
  /\ grace = <<>>
  /\ crashed = "none"
  /\ pushes = 0
  /\ pops = 0
  /\ answer = [t \in Threads |-> NULL]
  /\ destroyed = FALSE

-------------------------------------------------------------------------------
(* Helpers.                                                                *)

At(t, place) == pc[t] = place /\ crashed = "none"
Goto(t, place) == pc' = [pc EXCEPT ![t] = place]
Keep(t, locals) == me' = [me EXCEPT ![t] = locals]

\* A step that only reads shared memory.
Read(t, to, locals) ==
  /\ Goto(t, to)
  /\ Keep(t, locals)
  /\ UNCHANGED <<heap, states, bookkeeping>>

\* The process stops: a NULL or negative index is used, an assert() fails.
Crash(reason) ==
  /\ crashed' = reason
  /\ UNCHANGED <<heap, states, pc, me, grace, pushes, pops, answer, destroyed>>

\* compare_exchange_strong(): what the location holds afterwards.
Exchange(location, expected, desired) == IF location = expected THEN desired ELSE location

\* Mutant: an operation with the phase asked for is passed over.
Pending_Earlier(tid, phase) == states[tid].pending /\ states[tid].phase < phase

\* is_still_pending(): the descriptor is loaded twice, until the loads agree.
Pending(tid, phase) == states[tid].pending /\ states[tid].phase <= phase

\* safe_free() of some objects, after which only these threads are inside the guards
\* they were in.  An object that is handed over twice would be deleted twice.
Retire(objects, guarded) ==
  /\ grace' = [o \in DOMAIN grace \cup objects |->
                 (IF o \in DOMAIN grace THEN grace[o] ELSE {t \in Threads : me[t].guarded})
                   \cap guarded]
  /\ crashed' = IF objects \cap DOMAIN grace = {} THEN crashed ELSE "freedTwice"

StateOf(d) == <<"state", d>>
NodeOf(n) == <<"node", n>>

\* Mutant: the replaced descriptor is not retired.
Replace_Leaks(tid, d, new) ==
  /\ states' = [states EXCEPT ![tid] = Exchange(@, d, new)]
  /\ UNCHANGED <<grace, crashed>>

\* The descriptor is exchanged for another, and retired if that succeeds.
Replace(tid, d, new) ==
  IF tid # 0 /\ states[tid] = d      \* states_[0] belongs to nobody
  THEN /\ states' = [states EXCEPT ![tid] = new]
       /\ Retire({StateOf(d)}, Threads)
  ELSE UNCHANGED <<states, grace, crashed>>

\* The nodes that can be reached from one of these, themselves included.
Reachable(first) ==
  LET reach[k \in 0..MaxPush] ==
        IF k = 0 THEN first \ {NULL}
        ELSE LET seen == reach[k-1] IN seen \cup ({next[n] : n \in seen} \ {NULL})
  IN  reach[MaxPush]

Chain == Reachable({head})

-------------------------------------------------------------------------------
(* push() and pop() up to the announcement.                                *)

(* What this module assumes of the program that uses the stack, by Overlap,*)
(* Pushers and Spare: milder than stack/stack.cpp, whose threads all push  *)
(* and pop at once until nothing is left (see StackWork, where that ends). *)

\* May a call of this kind begin?
MayStart(kind) ==
  /\ ~destroyed
  /\ \A t \in Threads : me[t].kind \in {"none"} \cup (IF kind \in Overlap THEN Overlap ELSE {})

\* A pop that meets others comes after all pushes, to a stack of Spare elements more
\* than they take; a pop by itself may also come to a stack of one element, or none.
MayPop ==
  LET popping == {t \in Threads : me[t].kind # "none"} IN
  IF popping = {} THEN pushes = MaxPush \/ Cardinality(Chain) <= 1
  ELSE pushes = MaxPush /\ Cardinality(Chain) >= Spare + Cardinality(popping)

\* The ref_guard precedes max_phase() in pop(), and follows it in push().
GuardedCall(kind) == kind = "pop"

Begin(t, kind, node) ==
  /\ At(t, "idle") /\ MayStart(kind)
  /\ Goto(t, "loadPhase")
  /\ Keep(t, [Idle EXCEPT !.kind = kind, !.node = node, !.i = 1, !.guarded = GuardedCall(kind)])
  /\ UNCHANGED <<heap, states, grace, crashed, answer, destroyed>>

CallPush(t) ==
  /\ t \in Pushers /\ pushes < MaxPush
  /\ Begin(t, "push", pushes + 1)
  /\ pushes' = pushes + 1 /\ UNCHANGED pops

CallPop(t) ==
  /\ pops < MaxPop
  /\ MayPop
  /\ Begin(t, "pop", NULL)
  /\ pops' = pops + 1 /\ UNCHANGED pushes

\* max_phase(): load_phase(i) loads a descriptor ...
LoadPhase(t) ==
  At(t, "loadPhase") /\ Read(t, "readPhase", [me[t] EXCEPT !.h.os = states[me[t].i]])

PhaseAfter(max) == max + 1

\* ... reads its phase, and does it again when the slot has changed meanwhile.
\* Behind the last slot there is a phase, and the guard of a push begins.
ReadPhase(t) ==
  LET m == [me[t] EXCEPT !.h = NoHelp]
      seen == me[t].h.os
      max == IF m.phase < seen.phase THEN seen.phase ELSE m.phase IN
  /\ At(t, "readPhase")
  /\ IF seen # states[m.i] THEN Read(t, "loadPhase", m)
     ELSE IF m.i < N THEN Read(t, "loadPhase", [m EXCEPT !.phase = max, !.i = @ + 1])
     ELSE Read(t, "loadOld", [m EXCEPT !.phase = PhaseAfter(max), !.guarded = TRUE, !.i = 0])

LoadOld(t) == At(t, "loadOld") /\ Read(t, "announce", [me[t] EXCEPT !.old = states[t]])

\* push() compares and exchanges its slot, and asserts that nobody changed it;
\* pop() stores into it.  Then both help: pop() those before it, then itself.
\* "ahead" remembers the operations announced before, which t is to see through.
Announce(t) ==
  LET m == me[t]
      d == Descriptor(t, m.phase, TRUE, m.kind = "push", m.node, 0) IN
  /\ At(t, "announce")
  /\ IF m.kind = "push" /\ states[t] # m.old
     THEN Crash("somethingWrong")
     ELSE /\ states' = [states EXCEPT ![t] = d]
          /\ Goto(t, "scan")
          /\ Keep(t, [m EXCEPT !.ahead = {states[u] : u \in {v \in Threads : Pending(v, m.phase)}},
                              !.less = IF m.kind = "push" THEN m.phase ELSE m.phase - 1, !.i = 1])
          /\ UNCHANGED <<heap, bookkeeping>>

-------------------------------------------------------------------------------
(* help() and scan(): me[t].i is the slot, the tid of help_push and help_pop. *)

\* Mutant: the closing finish() is left out.
Scan_NoFinish(t) ==
  LET m == me[t] IN
  /\ At(t, "scan")
  /\ \/ /\ m.i \in Threads
        /\ IF Pending(m.i, m.less) THEN Read(t, "dispatch", m)
           ELSE Read(t, "scan", [m EXCEPT !.i = @ + 1])
     \/ /\ m.i > N /\ m.less < m.phase
        /\ Read(t, "scan", [m EXCEPT !.i = 1, !.less = m.phase])
     \/ /\ m.i > N /\ m.less = m.phase
        /\ Read(t, IF m.kind = "push" THEN "pushNext" ELSE "popAssert", [m EXCEPT !.i = 0])

\* scan() looks for the first slot with a pending operation of that phase or an
\* earlier one; when there is none help() returns, and pop() calls it again for
\* itself.  finish() comes last.
Scan(t) ==
  LET m == me[t] IN
  /\ At(t, "scan")
  /\ \/ /\ m.i \in Threads
        /\ IF Pending(m.i, m.less) THEN Read(t, "dispatch", m)
           ELSE Read(t, "scan", [m EXCEPT !.i = @ + 1])
     \/ /\ m.i > N /\ m.less < m.phase
        /\ Read(t, "scan", [m EXCEPT !.i = 1, !.less = m.phase])
     \/ /\ m.i > N /\ m.less = m.phase
        /\ Read(t, "finish",
                [m EXCEPT !.i = 0, !.f.back = IF m.kind = "push" THEN "pushNext" ELSE "popAssert"])

Dispatch(t) ==
  At(t, "dispatch") /\ Read(t, IF states[me[t].i].push THEN "pushHead" ELSE "popHead", me[t])

\* while (is_still_pending(tid, phase)) of both helpers; then scan() again.
While(t, from, again) ==
  /\ At(t, from)
  /\ IF Pending(me[t].i, me[t].less) THEN Read(t, again, [me[t] EXCEPT !.h = NoHelp])
     ELSE Read(t, "scan", [me[t] EXCEPT !.h = NoHelp, !.i = 1])

PushWhile(t) == While(t, "pushWhile", "pushHead")
PopWhile(t) == While(t, "popWhile", "popHead")

\* A further if (is_still_pending(tid, phase)) on the way.
IfPending(t, from, then, else) ==
  At(t, from) /\ Read(t, IF Pending(me[t].i, me[t].less) THEN then ELSE else, me[t])

\* A helper calls finish(), which comes back to its while.
CallFinish(m, back) == [m EXCEPT !.f.back = back]

-------------------------------------------------------------------------------
(* help_push().                                                            *)

PushHead(t) == At(t, "pushHead") /\ Read(t, "pushState", [me[t] EXCEPT !.h.oh = head])

PushState(t) ==
  At(t, "pushState") /\ Read(t, "pushCheck", [me[t] EXCEPT !.h.os = states[me[t].i]])

PushCheck(t) ==
  /\ At(t, "pushCheck")
  /\ Read(t, IF head # me[t].h.oh THEN "pushWhile"
             ELSE IF head = NULL THEN "pushPending" ELSE "pushWinner", me[t])

\* The stack is empty and the operation is pending still, with the same descriptor:
PushPending(t) == IfPending(t, "pushPending", "pushSame", "pushWhile")

PushSame(t) ==
  /\ At(t, "pushSame")
  /\ Read(t, IF me[t].h.os = states[me[t].i] THEN "pushFirst" ELSE "pushWhile", me[t])

\* the node becomes the head if the stack is empty still.
PushFirst(t) ==
  /\ At(t, "pushFirst")
  /\ head' = Exchange(head, NULL, me[t].h.os.node)
  /\ Goto(t, IF head = NULL THEN "firstLoad" ELSE "pushWhile")
  /\ UNCHANGED <<next, winner, states, me, bookkeeping>>

FirstLoad(t) ==
  At(t, "firstLoad") /\ Read(t, "firstDone", [me[t] EXCEPT !.h.os = states[me[t].i]])

\* The descriptor just loaded, whatever it is by now, is exchanged for a finished
\* one and lost; if that fails the loop is left all the same.
FirstDone(t) ==
  LET m == me[t] IN
  /\ At(t, "firstDone")
  /\ states' = [states EXCEPT ![m.i] = Exchange(@, m.h.os, Finished(m.h.os, TRUE, m.h.os.node))]
  /\ Goto(t, "scan")
  /\ Keep(t, [m EXCEPT !.h = NoHelp, !.i = 1])
  /\ UNCHANGED <<heap, bookkeeping>>

PushWinner(t) ==
  At(t, "pushWinner") /\ Read(t, "pushRecheck", [me[t] EXCEPT !.h.ow = winner[me[t].h.oh]])

\* A node with a winner: that operation is finished first.
PushRecheck(t) ==
  LET m == me[t] IN
  /\ At(t, "pushRecheck")
  /\ IF head # m.h.oh THEN Read(t, "pushWhile", m)
     ELSE IF m.h.ow # 0 THEN Read(t, "finish", CallFinish(m, "pushWhile"))
     ELSE Read(t, "pushStill", m)

PushStill(t) == IfPending(t, "pushStill", "pushWin", "pushWhile")

PushWin(t) ==
  LET m == me[t]
      won == winner[m.h.oh] = 0 IN
  /\ At(t, "pushWin")
  /\ winner' = [winner EXCEPT ![m.h.oh] = Exchange(@, 0, m.i)]
  /\ Goto(t, IF won THEN "finish" ELSE "pushWhile")
  /\ Keep(t, IF won THEN CallFinish(m, "pushWhile") ELSE m)
  /\ UNCHANGED <<head, next, states, bookkeeping>>

-------------------------------------------------------------------------------
(* help_pop().                                                             *)

PopHead(t) == At(t, "popHead") /\ Read(t, "popState", [me[t] EXCEPT !.h.oh = head])

PopState(t) ==
  /\ At(t, "popState")
  /\ Read(t, IF me[t].h.oh = NULL THEN "popEmpty" ELSE "popWinner",
             [me[t] EXCEPT !.h.os = states[me[t].i]])

PopEmpty(t) == IfPending(t, "popEmpty", "popNothing", "popWinner")

\* Nothing to pop: the operation is finished without a node.
PopNothing(t) ==
  LET m == me[t] IN
  /\ At(t, "popNothing")
  /\ Goto(t, "popWinner")
  /\ Replace(m.i, m.h.os, Finished(m.h.os, FALSE, NULL))
  /\ UNCHANGED <<heap, me, pushes, pops, answer, destroyed>>

\* old_head->next_ (which is not used) and old_head->winner_, read through
\* old_head even if it is NULL.
PopWinner(t) ==
  /\ At(t, "popWinner")
  /\ IF me[t].h.oh = NULL THEN Crash("nullHead")
     ELSE Read(t, "popCheck", [me[t] EXCEPT !.h.ow = winner[me[t].h.oh]])

\* Mutant: a helper waits for the winner instead of finishing its operation.
PopCheck_Waits(t) ==
  LET m == me[t] IN
  /\ At(t, "popCheck")
  /\ IF head # m.h.oh \/ m.h.ow > 0 THEN Read(t, "popWhile", m)
     ELSE Read(t, IF m.h.ow < 0 THEN "popClear" ELSE "popStill", m)

PopCheck(t) ==
  LET m == me[t] IN
  /\ At(t, "popCheck")
  /\ IF head # m.h.oh THEN Read(t, "popWhile", m)
     ELSE IF m.h.ow > 0 THEN Read(t, "finish", CallFinish(m, "popWhile"))
     ELSE Read(t, IF m.h.ow < 0 THEN "popClear" ELSE "popStill", m)

PopStill(t) == IfPending(t, "popStill", "popWin", "popWhile")

\* The two exchanges of the winner: of the mark of a push that is not quite
\* finished, for nobody; then, of what the first has found or left in old_winner,
\* for the operation that is helped.  finish() follows whether it succeeds or fails.
PopWin(t) ==
  LET m == me[t]
      clear == pc[t] = "popClear" IN
  /\ pc[t] \in {"popClear", "popWin"} /\ crashed = "none"
  /\ winner' = [winner EXCEPT ![m.h.oh] = Exchange(@, m.h.ow, IF clear THEN 0 ELSE m.i)]
  /\ Goto(t, IF clear THEN "popStill" ELSE "finish")
  /\ Keep(t, IF clear THEN [m EXCEPT !.h.ow = winner[m.h.oh]] ELSE CallFinish(m, "popWhile"))
  /\ UNCHANGED <<head, next, states, bookkeeping>>

-------------------------------------------------------------------------------
(* finish(): the operation that owns the head's winner_ is completed.      *)

Return(t) == Read(t, me[t].f.back, [me[t] EXCEPT !.f = NoFinish, !.h = NoHelp])
Again(t) == Read(t, "finish", [me[t] EXCEPT !.f = [NoFinish EXCEPT !.back = me[t].f.back]])

FinishHead(t) ==
  /\ At(t, "finish")
  /\ IF head = NULL THEN Return(t) ELSE Read(t, "finishWinner", [me[t] EXCEPT !.f.oh = head])

FinishWinner(t) ==
  LET tid == winner[me[t].f.oh] IN
  /\ At(t, "finishWinner")
  /\ IF tid = 0 THEN Return(t)
     ELSE Read(t, "finishState", [me[t] EXCEPT !.f.tid = tid, !.f.minus = -tid])

\* states_ is indexed with the winner, a negative one too.
FinishState(t) ==
  /\ At(t, "finishState")
  /\ IF me[t].f.tid < 0 THEN Crash("negativeIndex")
     ELSE Read(t, "sameHead", [me[t] EXCEPT !.f.os = states[me[t].f.tid]])

\* Head, winner and descriptor must be the ones loaded, or all is loaded again.
SameHead(t) ==
  /\ At(t, "sameHead")
  /\ IF head = me[t].f.oh THEN Read(t, "sameWinner", me[t]) ELSE Again(t)

SameWinner(t) ==
  /\ At(t, "sameWinner")
  /\ IF winner[me[t].f.oh] = me[t].f.tid THEN Read(t, "sameState", me[t]) ELSE Again(t)

SameState(t) ==
  LET f == me[t].f IN
  /\ At(t, "sameState")
  /\ IF states[f.tid] = f.os THEN Read(t, IF f.os.push THEN "pushStays" ELSE "popNext", me[t])
     ELSE Again(t)

\* A push: ...
PushStays(t) ==
  LET f == me[t].f IN
  /\ At(t, "pushStays")
  /\ IF head # f.oh THEN Return(t)
     ELSE Read(t, IF f.os.pending THEN "pushMark" ELSE "pushLink", [me[t] EXCEPT !.f.nx = f.os.node])

\* ... its winner is negated; a failed exchange leaves what it found in tid.
PushMark(t) ==
  LET f == me[t].f
      found == winner[f.oh] IN
  /\ At(t, "pushMark")
  /\ winner' = [winner EXCEPT ![f.oh] = Exchange(@, f.tid, f.minus)]
  /\ Keep(t, [me[t] EXCEPT !.f.tid = found])
  /\ Goto(t, "pushFinish")
  /\ UNCHANGED <<head, next, states, bookkeeping>>

PushFinish(t) ==
  LET f == me[t].f IN
  /\ At(t, "pushFinish")
  /\ IF f.tid < 0 THEN Crash("negativeIndex")
     ELSE /\ Goto(t, "pushLink")
          /\ Replace(f.tid, f.os, Finished(f.os, TRUE, f.nx))
          /\ UNCHANGED <<heap, me, pushes, pops, answer, destroyed>>

\* Its node is linked to the head, unless it is linked already, ...
PushLink(t) ==
  LET f == me[t].f IN
  /\ At(t, "pushLink")
  /\ IF f.nx = NULL THEN Crash("nullNode")
     ELSE /\ next' = [next EXCEPT ![f.nx] = Exchange(@, NULL, f.oh)]
          /\ Goto(t, "pushSwing")
          /\ UNCHANGED <<head, winner, states, me, bookkeeping>>

\* ... and becomes the head; a failed exchange leaves what it found in old_head.
PushSwing(t) ==
  LET f == me[t].f IN
  /\ At(t, "pushSwing")
  /\ head' = Exchange(head, f.oh, f.nx)
  /\ Keep(t, [me[t] EXCEPT !.f.oh = head])
  /\ Goto(t, "pushUnmark")
  /\ UNCHANGED <<next, winner, states, bookkeeping>>

PushUnmark(t) ==
  LET f == me[t].f IN
  /\ At(t, "pushUnmark")
  /\ IF f.oh = NULL THEN Crash("nullHead")
     ELSE /\ winner' = [winner EXCEPT ![f.oh] = Exchange(@, f.minus, 0)]
          /\ Goto(t, f.back)
          /\ Keep(t, [me[t] EXCEPT !.f = NoFinish, !.h = NoHelp])
          /\ UNCHANGED <<head, next, states, bookkeeping>>

\* A pop: the next node is loaded, ...
PopNext(t) == At(t, "popNext") /\ Read(t, "popStays", [me[t] EXCEPT !.f.nx = next[me[t].f.oh]])

PopStays(t) ==
  /\ At(t, "popStays")
  /\ IF head # me[t].f.oh THEN Return(t)
     ELSE Read(t, IF me[t].f.os.pending THEN "popFinish" ELSE "popSwing", me[t])

\* ... the descriptor is exchanged for one that holds the head, ...
PopFinish(t) ==
  LET f == me[t].f IN
  /\ At(t, "popFinish")
  /\ Goto(t, "popSwing")
  /\ Replace(f.tid, f.os, Finished(f.os, FALSE, f.oh))
  /\ UNCHANGED <<heap, me, pushes, pops, answer, destroyed>>

\* Mutant: the head is stored, not exchanged.
PopSwing_Store(t) ==
  /\ At(t, "popSwing")
  /\ head' = me[t].f.nx
  /\ Goto(t, me[t].f.back)
  /\ Keep(t, [me[t] EXCEPT !.f = NoFinish, !.h = NoHelp])
  /\ UNCHANGED <<next, winner, states, bookkeeping>>

\* ... and the node behind the head becomes the head.
PopSwing(t) ==
  LET f == me[t].f IN
  /\ At(t, "popSwing")
  /\ head' = Exchange(head, f.oh, f.nx)
  /\ Goto(t, f.back)
  /\ Keep(t, [me[t] EXCEPT !.f = NoFinish, !.h = NoHelp])
  /\ UNCHANGED <<next, winner, states, bookkeeping>>

-------------------------------------------------------------------------------
(* The end of push() and of pop(), and ~Stack().                           *)

\* The last retirements of an operation, ~ref_guard() and the return.
Leave(t, objects) ==
  /\ Retire(objects, Threads \ {t})
  /\ Goto(t, "idle")
  /\ Keep(t, Idle)
  /\ UNCHANGED <<head, next, states, pushes, pops, destroyed>>

\* push() looks behind its node ...
PushNext(t) ==
  LET nx == next[me[t].node] IN
  /\ At(t, "pushNext")
  /\ IF nx = NULL THEN Leave(t, {StateOf(me[t].old)}) /\ UNCHANGED <<winner, answer>>
     ELSE Read(t, "pushClear", [me[t] EXCEPT !.f.nx = nx])

\* ... and takes its own index off the node there, if it is the winner still.
PushClear(t) ==
  /\ At(t, "pushClear")
  /\ winner' = [winner EXCEPT ![me[t].f.nx] = Exchange(@, t, 0)]
  /\ Leave(t, {StateOf(me[t].old)})
  /\ UNCHANGED answer

\* assert(!(states_[my_index].load())->pending_)
PopAssert(t) ==
  /\ At(t, "popAssert")
  /\ IF states[t].pending THEN Crash("stillPending") ELSE Read(t, "popReturn", me[t])

\* The node and the old descriptor are retired; without a node pop() throws.
PopReturn(t) ==
  LET n == states[t].node IN
  /\ At(t, "popReturn")
  /\ answer' = [answer EXCEPT ![t] = n]
  /\ Leave(t, IF n = NULL THEN {} ELSE {NodeOf(n), StateOf(me[t].old)})
  /\ UNCHANGED winner

\* ~Stack(), after the threads have been joined.
Destroy ==
  /\ ~destroyed /\ crashed = "none"
  /\ \A t \in Threads : pc[t] = "idle"
  /\ destroyed' = TRUE
  /\ Retire({NodeOf(n) : n \in Chain} \cup {StateOf(states[t]) : t \in Threads}, Threads)
  /\ UNCHANGED <<heap, states, pc, me, pushes, pops, answer>>

Help(t) ==
  \/ Scan(t) \/ Dispatch(t)
  \/ PushHead(t) \/ PushState(t) \/ PushCheck(t) \/ PushPending(t) \/ PushSame(t)
  \/ PushFirst(t) \/ FirstLoad(t) \/ FirstDone(t)
  \/ PushWinner(t) \/ PushRecheck(t) \/ PushStill(t) \/ PushWin(t) \/ PushWhile(t)
  \/ PopHead(t) \/ PopState(t) \/ PopEmpty(t) \/ PopNothing(t) \/ PopWinner(t)
  \/ PopCheck(t) \/ PopStill(t) \/ PopWin(t) \/ PopWhile(t)

Finish(t) ==
  \/ FinishHead(t) \/ FinishWinner(t) \/ FinishState(t)
  \/ SameHead(t) \/ SameWinner(t) \/ SameState(t)
  \/ PushStays(t) \/ PushMark(t) \/ PushFinish(t) \/ PushLink(t) \/ PushSwing(t) \/ PushUnmark(t)
  \/ PopNext(t) \/ PopStays(t) \/ PopFinish(t) \/ PopSwing(t)

\* The steps a thread takes by itself once it has called push() or pop().
Step(t) ==
  \/ LoadPhase(t) \/ ReadPhase(t) \/ LoadOld(t) \/ Announce(t)
  \/ Help(t) \/ Finish(t)
  \/ PushNext(t) \/ PushClear(t) \/ PopAssert(t) \/ PopReturn(t)

Next ==
  \/ \E t \in Threads : CallPush(t) \/ CallPop(t) \/ Step(t)
  \/ Destroy

Spec == Init /\ [][Next]_vars

\* Only one thread is sure to be scheduled again and again; the others may stop
\* anywhere inside their operations.
FairSpec == Spec /\ WF_vars(Step(Survivor))

-------------------------------------------------------------------------------
(* Properties.                                                             *)

\* The stack from its top down.
Items ==
  LET at[k \in 1..MaxPush] == IF k = 1 THEN head ELSE next[at[k-1]]
  IN  [k \in 1..Cardinality(Chain) |-> at[k]]

Announced(t) == pc[t] \notin {"idle", "loadPhase", "readPhase", "loadOld", "announce"}

\* The call of each thread as Lifo sees it, and its effect: a push has taken effect
\* when its node is in the chain, a pop when the node in its descriptor is no longer.
AbstractCall == [t \in Threads |-> [kind |-> me[t].kind, node |-> me[t].node]]

Effect ==
  LET pushed(t) == me[t].kind = "push" /\ me[t].node \in Chain
      popped(t) ==
        /\ me[t].kind = "pop" /\ Announced(t)
        /\ states[t].node # NULL /\ states[t].node \notin Chain
  IN  [t \in Threads |-> CASE pushed(t) -> <<me[t].node>>
                            [] popped(t) -> <<states[t].node>>
                            [] OTHER -> <<>>]

Abstract == INSTANCE Lifo WITH items <- Items, call <- AbstractCall, effect <- Effect

\* Every operation takes effect at one moment between its call and its return:
\* the exchange of head_, whoever of the helpers makes it.
AtomicLifo == Abstract!Spec

\* Pops that meet, and pushes and pops that do not, read nothing through NULL or a
\* negative index, fail no assert() and hand nothing over twice; but for one case: a
\* thread that pops an empty stack reads through the NULL head where it should throw.
\* This is about pops that meet on a stack of Spare = 2 elements more than they take;
\* a helper that finds the last element gone reads through NULL too (StackWork).
OnlyEmptyPopCrashes ==
  crashed # "none" =>
    /\ crashed = "nullHead" /\ head = NULL
    /\ \E t \in Threads :
         /\ pc[t] = "popWinner" /\ states[t].node = NULL
         /\ \A u \in Threads \ {t} : pc[u] = "idle"

\* The thread has been inside its ref_guard since the object was handed to safe_free().
Covered(t, o) == o \in DOMAIN grace => t \in grace[o]

HeldStates(t) == {me[t].old, me[t].h.os, me[t].f.os}
HeldNodes(t) == {me[t].node, me[t].h.oh, me[t].f.oh, me[t].f.nx}

\* What safe_free() asks of its clients: whoever holds a descriptor or a node that has
\* been handed over has been inside its ref_guard since before that.  This is about
\* pops that meet, and pushes that meet no other operation: push() loads descriptors
\* in max_phase() (153) before its guard (166), where one could be handed over meanwhile.
HeldStatesCovered == \A t \in Threads : \A d \in HeldStates(t) : Covered(t, StateOf(d))
HeldNodesCovered == \A t \in Threads : \A n \in HeldNodes(t) : Covered(t, NodeOf(n))

HeldCovered == HeldStatesCovered /\ HeldNodesCovered

\* help(): when a thread comes to the end of push() or pop(), the operations that
\* were announced before its own, with its phase or an earlier one, are done too.
EarlierOpsDone ==
  \A t \in Threads :
    pc[t] \in {"pushNext", "pushClear", "popAssert", "popReturn"} =>
      /\ ~states[t].pending
      /\ \A d \in me[t].ahead : states[d.tid] # d

\* A descriptor taken out of states_ is retired, or kept by the thread whose
\* announcement replaced it; only the one of a push on an empty stack is lost.
DescriptorsKept ==
  [][\A t \in Threads :
       states'[t] # states[t] =>
         \/ StateOf(states[t]) \in DOMAIN grace'
         \/ me'[t].old = states[t]
         \/ \E u \in Threads : At(u, "firstDone") /\ me[u].i = t]_vars

\* "wait-free" (stack/stack.hpp:53): an operation ends if only its own thread is
\* scheduled, wherever the others have stopped, unless the process crashes.
WaitFree == pc[Survivor] # "idle" ~> pc[Survivor] = "idle" \/ crashed # "none"

-------------------------------------------------------------------------------
(* What the code does not keep when pushes meet.                            *)

\* No node is its own successor, directly or around a loop.
NoLoop == \A n \in Chain : n \notin Reachable({next[n]})

\* push() asserts that its slot still holds the descriptor it has just loaded
\* ("something wrong", stack/stack.hpp:172).  Three pushes of two threads break it.
SlotUndisturbed == crashed # "somethingWrong"
===============================================================================
