------------------------------ MODULE Stack_proof ------------------------------
(***************************************************************************)
(* Theorems about Stack for any number of threads, pushes and pops: what   *)
(* helpers do to the slots of states_.  HelpInv holds whatever operations  *)
(* overlap; MeetInv tells the programs in which pushes meet others from    *)
(* those in which they do not; HoldInv is about descriptors that have left *)
(* their slots.                                                            *)
(***************************************************************************)
EXTENDS Stack, TLAPS

-------------------------------------------------------------------------------
(* Types.                                                                  *)

Before == {"idle", "loadPhase", "readPhase", "loadOld", "announce"}

HelpPush ==
  {"pushHead", "pushState", "pushCheck", "pushPending", "pushSame", "pushFirst", "firstLoad",
   "firstDone", "pushWinner", "pushRecheck", "pushStill", "pushWin", "pushWhile"}

HelpPop ==
  {"popHead", "popState", "popEmpty", "popNothing", "popWinner", "popCheck", "popClear", "popStill",
   "popWin", "popWhile"}

FinishPush == {"pushStays", "pushMark", "pushFinish", "pushLink", "pushSwing", "pushUnmark"}

FinishPop == {"popNext", "popStays", "popFinish", "popSwing"}

Finishing ==
  {"finish", "finishWinner", "finishState", "sameHead", "sameWinner", "sameState"}
    \cup FinishPush \cup FinishPop

Ends == {"pushNext", "pushClear", "popAssert", "popReturn"}

Places == Before \cup {"scan", "dispatch"} \cup HelpPush \cup HelpPop \cup Finishing \cup Ends

Links == 0..MaxPush
Marks == -N..N

Descriptors ==
  [tid : 0..N, phase : Nat, pending : BOOLEAN, push : BOOLEAN, node : Links, copy : Nat]

HelpLocals == [oh : Links, os : Descriptors, ow : Marks]

FinishLocals ==
  [oh : Links, tid : Marks, minus : Marks, os : Descriptors, nx : Links,
   back : {"idle", "pushWhile", "popWhile", "pushNext", "popAssert"}]

Locals ==
  [kind : {"none", "push", "pop"}, phase : Nat, node : Links, old : Descriptors,
   guarded : BOOLEAN, ahead : SUBSET Descriptors, less : Int, i : 0..N+1,
   h : HelpLocals, f : FinishLocals]

\* What the locals are at each place of the code.
LocalsOK(p, m) ==
  /\ p \in Places
  /\ m \in Locals
  /\ p = "idle" <=> m.kind = "none"
  /\ m.kind = "push" => m.node \in Nodes
  /\ p \in {"loadPhase", "readPhase", "dispatch"} \cup HelpPush \cup HelpPop => m.i \in Threads
  /\ p = "scan" => m.i # 0
  /\ p \in {"pushWinner", "pushRecheck", "pushStill", "pushWin",
            "popCheck", "popClear", "popStill", "popWin"} => m.h.oh \in Nodes
  /\ p \in Finishing =>
       /\ m.f.back # "idle"
       /\ m.f.back \in {"pushWhile", "popWhile"} => m.i \in Threads
       /\ m.f.back = "pushNext" => m.kind = "push"
  /\ p \in Finishing \ {"finish", "pushUnmark"} => m.f.oh \in Nodes
  /\ p = "finishState" => m.f.tid # 0
  /\ p \in {"sameHead", "sameWinner", "sameState", "pushStays", "pushMark"} \cup FinishPop =>
       m.f.tid \in Threads
  /\ p \in {"pushStays", "pushMark", "pushFinish"} => m.f.os.push
  /\ p \in {"pushMark", "pushFinish", "popFinish"} => m.f.os.pending
  /\ p = "pushSwing" => m.f.nx \in Nodes
  /\ p \in {"pushNext", "pushClear"} => m.kind = "push"
  /\ p = "pushClear" => m.f.nx \in Nodes

TypeInv ==
  /\ head \in Links
  /\ next \in [Nodes -> Links]
  /\ winner \in [Nodes -> Marks]
  /\ states \in [Threads -> Descriptors]
  /\ \A t \in Threads : states[t].tid = t
  /\ DOMAIN pc = Threads /\ DOMAIN me = Threads
  /\ \A t \in Threads : LocalsOK(pc[t], me[t])
  /\ pushes \in Links

-------------------------------------------------------------------------------
(* Descriptors are replaced by later ones.                                 *)

\* e has been in a slot after d.
After(d, e) == d.phase < e.phase \/ (d.phase = e.phase /\ d.copy < e.copy)

\* help() is over: finish() is run for the last time, or has been.
HelpDone(p, m) == p \in Ends \/ (p \in Finishing /\ m.f.back \in Ends)

\* What thread t at place p with locals m has seen of the slots s.
SlotsSeen(t, p, m, s) ==
  /\ p \in Before => ~s[t].pending
  /\ p \in {"loadPhase", "readPhase"} /\ t < m.i => s[t].phase <= m.phase
  /\ p \in {"loadOld", "announce"} => s[t].phase < m.phase
  /\ p \notin Before =>
       /\ s[t].phase = m.phase
       /\ \A d \in m.ahead : d.tid \in Threads /\ d.pending /\ d.phase <= m.phase
                             /\ (d = s[d.tid] \/ After(d, s[d.tid]))
  /\ p = "scan" /\ m.less = m.phase =>
       /\ t < m.i => ~s[t].pending
       /\ \A d \in m.ahead : d.tid < m.i => After(d, s[d.tid])
  /\ HelpDone(p, m) =>
       /\ ~s[t].pending
       /\ \A d \in m.ahead : After(d, s[d.tid])

HelpInv == \A t \in Threads : SlotsSeen(t, pc[t], me[t], states)

-------------------------------------------------------------------------------
(* help() and finish() change their own locals only.                       *)

\* The locals of the operation itself.
Same(m, x) ==
  /\ x.kind = m.kind /\ x.phase = m.phase /\ x.node = m.node /\ x.old = m.old
  /\ x.guarded = m.guarded /\ x.ahead = m.ahead /\ x.less = m.less

\* A thread that is in help_push() or in its call of finish().
ForPush(p, m) == p \in HelpPush \/ (p \in Finishing /\ m.f.back = "pushWhile")

Onward(p, m, q, x) ==
  /\ LocalsOK(q, x)
  /\ Same(m, x)
  /\ p \notin Before /\ q \notin Before /\ q # "dispatch"
  /\ q = "scan" => x.i = 1
  /\ HelpDone(q, x) => HelpDone(p, m)
  /\ ForPush(q, x) => ForPush(p, m) \/ p = "dispatch"

\* Thread t comes to place q with the locals x, the others stay where they are.
Moves(t, q, x) ==
  /\ DOMAIN pc' = Threads /\ DOMAIN me' = Threads
  /\ pc'[t] = q /\ me'[t] = x
  /\ \A u \in Threads \ {t} : pc'[u] = pc[u] /\ me'[u] = me[u]

\* The assignments to the locals of help() and of finish().
SetHelp(m, h) == [m EXCEPT !.h = h]
SetFinish(m, f) == [m EXCEPT !.f = f]
ScanAgain(m) == [m EXCEPT !.h = NoHelp, !.i = 1]
FinishReturns(m) == [m EXCEPT !.f = NoFinish, !.h = NoHelp]

\* What a thread has at its place.
LEMMA HasLocals ==
  ASSUME TypeInv, NEW t \in Threads
  PROVE  /\ LocalsOK(pc[t], me[t]) /\ me[t] \in Locals
         /\ me[t].h \in HelpLocals /\ me[t].f \in FinishLocals /\ me[t].i \in 0..N+1
         /\ me[t].h.oh \in Links /\ me[t].h.os \in Descriptors /\ me[t].h.ow \in Marks
         /\ me[t].f.oh \in Links /\ me[t].f.tid \in Marks /\ me[t].f.minus \in Marks
         /\ me[t].f.os \in Descriptors /\ me[t].f.nx \in Links
<1>1. LocalsOK(pc[t], me[t]) /\ me[t] \in Locals
  BY DEF TypeInv, LocalsOK
<1>2. me[t].h \in HelpLocals /\ me[t].f \in FinishLocals /\ me[t].i \in 0..N+1
  BY <1>1 DEF Locals
<1> QED BY <1>1, <1>2 DEF HelpLocals, FinishLocals

\* The locals of a new helper.
LEMMA FreshLocals ==
  /\ NoState \in Descriptors /\ NoHelp \in HelpLocals /\ NoFinish \in FinishLocals
  /\ Idle \in Locals /\ Idle.kind = "none"
<1>1. NoState \in Descriptors /\ 0 \in Links /\ 0 \in Marks /\ 0 \in 0..N+1
  BY StackAssumption DEF NoState, Descriptor, Descriptors, NULL, Links, Marks
<1>2. NoHelp \in HelpLocals
  BY <1>1 DEF NoHelp, HelpLocals, NULL
<1>3. NoFinish \in FinishLocals
  BY <1>1 DEF NoFinish, FinishLocals, NULL
<1> QED BY <1>1, <1>2, <1>3 DEF Idle, Locals, NULL

\* They leave the others alone.
LEMMA SetLocals ==
  ASSUME NEW m \in Locals
  PROVE  /\ \A h \in HelpLocals :
              LET x == SetHelp(m, h) IN
              x \in Locals /\ Same(m, x) /\ x.i = m.i /\ x.h = h /\ x.f = m.f
         /\ \A f \in FinishLocals :
              LET x == SetFinish(m, f) IN
              x \in Locals /\ Same(m, x) /\ x.i = m.i /\ x.h = m.h /\ x.f = f
         /\ LET x == ScanAgain(m) IN
            x \in Locals /\ Same(m, x) /\ x.i = 1 /\ x.h = NoHelp /\ x.f = m.f
         /\ LET x == FinishReturns(m) IN
            x \in Locals /\ Same(m, x) /\ x.i = m.i /\ x.h = NoHelp /\ x.f = NoFinish
<1>1. ASSUME NEW h \in HelpLocals
      PROVE  LET x == SetHelp(m, h) IN
             x \in Locals /\ Same(m, x) /\ x.i = m.i /\ x.h = h /\ x.f = m.f
  BY DEF SetHelp, Locals, Same
<1>2. ASSUME NEW f \in FinishLocals
      PROVE  LET x == SetFinish(m, f) IN
             x \in Locals /\ Same(m, x) /\ x.i = m.i /\ x.h = m.h /\ x.f = f
  BY DEF SetFinish, Locals, Same
<1>3. LET x == ScanAgain(m) IN
      x \in Locals /\ Same(m, x) /\ x.i = 1 /\ x.h = NoHelp /\ x.f = m.f
  <2>1. NoHelp \in HelpLocals /\ 1 \in 0..N+1
    BY FreshLocals, StackAssumption
  <2> QED BY <2>1 DEF ScanAgain, Locals, Same
<1>4. LET x == FinishReturns(m) IN
      x \in Locals /\ Same(m, x) /\ x.i = m.i /\ x.h = NoHelp /\ x.f = NoFinish
  BY FreshLocals DEF FinishReturns, Locals, Same
<1> QED BY <1>1, <1>2, <1>3, <1>4

\* Shared memory has its type.
LEMMA SharedTypes ==
  ASSUME TypeInv
  PROVE  /\ head \in Links /\ NULL \in Links
         /\ \A n \in Nodes : n \in Links /\ next[n] \in Links /\ winner[n] \in Marks
         /\ \A n \in Links : n # NULL => n \in Nodes
         /\ \A t \in Threads : states[t] \in Descriptors /\ t \in Marks /\ t \in 0..N+1 /\ -t \in Marks
         /\ \A w \in Marks : -w \in Marks
  BY StackAssumption DEF TypeInv, Links, Nodes, Threads, Marks, NULL

\* The steps that leave the locals alone.
LEMMA StaysAt ==
  ASSUME TypeInv, NEW t \in Threads, NEW q,
         pc' = [pc EXCEPT ![t] = q], me' = me \/ me' = [me EXCEPT ![t] = me[t]],
         LocalsOK(q, me[t]), pc[t] \notin Before, q \notin Before \cup {"scan", "dispatch"},
         HelpDone(q, me[t]) => HelpDone(pc[t], me[t]),
         ForPush(q, me[t]) => ForPush(pc[t], me[t]) \/ pc[t] = "dispatch"
  PROVE  \E x : Onward(pc[t], me[t], q, x) /\ Moves(t, q, x)
<1>1. Onward(pc[t], me[t], q, me[t]) /\ Moves(t, q, me[t])
  BY DEF Onward, Same, Moves, TypeInv
<1> QED BY <1>1

\* The steps that change those of help() ...
LEMMA SetsHelp ==
  ASSUME TypeInv, NEW t \in Threads, NEW q, NEW h \in HelpLocals,
         pc' = [pc EXCEPT ![t] = q], me' = [me EXCEPT ![t] = SetHelp(me[t], h)],
         LocalsOK(q, SetHelp(me[t], h)), pc[t] \notin Before, q \notin Before \cup {"scan", "dispatch"},
         HelpDone(q, me[t]) => HelpDone(pc[t], me[t]),
         ForPush(q, me[t]) => ForPush(pc[t], me[t])
  PROVE  \E x : Onward(pc[t], me[t], q, x) /\ Moves(t, q, x)
<1>1. SetHelp(me[t], h).f = me[t].f /\ Same(me[t], SetHelp(me[t], h))
  BY HasLocals, SetLocals
<1>2. Onward(pc[t], me[t], q, SetHelp(me[t], h))
  BY <1>1 DEF Onward, HelpDone, ForPush
<1>3. Moves(t, q, SetHelp(me[t], h))
  BY DEF Moves, TypeInv
<1> QED BY <1>2, <1>3

\* ... and of finish().
LEMMA SetsFinish ==
  ASSUME TypeInv, NEW t \in Threads, NEW q, NEW f \in FinishLocals,
         pc' = [pc EXCEPT ![t] = q], me' = [me EXCEPT ![t] = SetFinish(me[t], f)],
         LocalsOK(q, SetFinish(me[t], f)), pc[t] \notin Before, q \in Finishing,
         f.back \in Ends => HelpDone(pc[t], me[t]),
         f.back = "pushWhile" => ForPush(pc[t], me[t])
  PROVE  \E x : Onward(pc[t], me[t], q, x) /\ Moves(t, q, x)
<1>1. SetFinish(me[t], f).f = f /\ Same(me[t], SetFinish(me[t], f))
  BY HasLocals, SetLocals
<1>2. q \notin Before \cup {"scan", "dispatch"} \cup Ends \cup HelpPush
  BY DEF Before, Ends, Finishing, FinishPush, FinishPop, HelpPush
<1>3. Onward(pc[t], me[t], q, SetFinish(me[t], f))
  BY <1>1, <1>2 DEF Onward, HelpDone, ForPush
<1>4. Moves(t, q, SetFinish(me[t], f))
  BY DEF Moves, TypeInv
<1> QED BY <1>3, <1>4

\* help() looks for the next operation.
LEMMA ScansAgain ==
  ASSUME TypeInv, NEW t \in Threads, pc[t] \in HelpPush \cup HelpPop,
         pc' = [pc EXCEPT ![t] = "scan"], me' = [me EXCEPT ![t] = ScanAgain(me[t])]
  PROVE  \E x : Onward(pc[t], me[t], "scan", x) /\ Moves(t, "scan", x)
<1> DEFINE m == me[t]
           x == ScanAgain(m)
<1>1. LocalsOK(pc[t], m) /\ x \in Locals /\ Same(m, x) /\ x.i = 1
  BY HasLocals, SetLocals
<1> HIDE DEF m, x
<1>2. LocalsOK("scan", x) /\ pc[t] \notin Before /\ ~HelpDone("scan", x) /\ ~ForPush("scan", x)
  BY <1>1 DEF LocalsOK, Same, HelpDone, ForPush, Places, Before, HelpPush, HelpPop, Finishing, FinishPush,
              FinishPop, Ends
<1>3. Onward(pc[t], m, "scan", x)
  BY <1>1, <1>2 DEF Onward, Before
<1>4. Moves(t, "scan", x)
  BY DEF Moves, TypeInv, m, x
<1> QED BY <1>3, <1>4 DEF m

\* finish() returns.
LEMMA FinishedReturns ==
  ASSUME TypeInv, NEW t \in Threads, pc[t] \in Finishing,
         pc' = [pc EXCEPT ![t] = me[t].f.back], me' = [me EXCEPT ![t] = FinishReturns(me[t])]
  PROVE  \E q, x : Onward(pc[t], me[t], q, x) /\ Moves(t, q, x)
<1> DEFINE m == me[t]
           q == m.f.back
           x == FinishReturns(m)
<1>1. /\ LocalsOK(pc[t], m) /\ x \in Locals /\ Same(m, x) /\ x.i = m.i
      /\ q \in {"idle", "pushWhile", "popWhile", "pushNext", "popAssert"}
  BY HasLocals, SetLocals DEF FinishLocals
<1>2. Moves(t, q, x)
  BY DEF Moves, TypeInv
<1> HIDE DEF m, x
<1>3. /\ LocalsOK(q, x) /\ pc[t] \notin Before /\ q \notin Before \cup {"scan", "dispatch"}
      /\ HelpDone(q, x) => HelpDone(pc[t], m)
      /\ ForPush(q, x) => ForPush(pc[t], m)
  BY <1>1 DEF LocalsOK, Same, HelpDone, ForPush, Places, Before, HelpPush, HelpPop, Finishing, FinishPush,
              FinishPop, Ends
<1>4. Onward(pc[t], m, q, x)
  BY <1>1, <1>3 DEF Onward
<1> QED BY <1>2, <1>4 DEF m

\* help_push() goes on.
LEMMA HelpPushMoves ==
  ASSUME TypeInv, NEW t \in Threads,
         \/ PushHead(t) \/ PushState(t) \/ PushCheck(t) \/ PushPending(t) \/ PushSame(t)
         \/ PushFirst(t) \/ FirstLoad(t) \/ FirstDone(t)
         \/ PushWinner(t) \/ PushRecheck(t) \/ PushStill(t) \/ PushWin(t) \/ PushWhile(t)
  PROVE  \E q, x : Onward(pc[t], me[t], q, x) /\ Moves(t, q, x)
<1> DEFINE m == me[t]
           Goal == \E q, x : Onward(pc[t], m, q, x) /\ Moves(t, q, x)
<1> USE DEF Places, Before, HelpPush, HelpPop, Finishing, FinishPush, FinishPop, Ends
<1>1. /\ LocalsOK(pc[t], m) /\ m \in Locals
      /\ m.h \in HelpLocals /\ m.f \in FinishLocals /\ m.i \in 0..N+1
      /\ m.h.oh \in Links /\ m.h.os \in Descriptors /\ m.h.ow \in Marks
  BY HasLocals
<1>2. /\ head \in Links /\ \A u \in Threads : states[u] \in Descriptors
      /\ \A n \in Links : n # NULL => n \in Nodes
      /\ \A n \in Nodes : winner[n] \in Marks
  BY SharedTypes
<1>3. ASSUME NEW h \in HelpLocals
      PROVE  /\ SetHelp(m, h) \in Locals /\ Same(m, SetHelp(m, h))
             /\ SetHelp(m, h).kind = m.kind /\ SetHelp(m, h).node = m.node
             /\ SetHelp(m, h).i = m.i /\ SetHelp(m, h).h = h /\ SetHelp(m, h).f = m.f
  BY <1>1, SetLocals DEF Same
<1>4. ASSUME NEW f \in FinishLocals
      PROVE  /\ SetFinish(m, f) \in Locals /\ Same(m, SetFinish(m, f))
             /\ SetFinish(m, f).kind = m.kind /\ SetFinish(m, f).node = m.node
             /\ SetFinish(m, f).i = m.i /\ SetFinish(m, f).h = m.h /\ SetFinish(m, f).f = f
  BY <1>1, SetLocals DEF Same
<1> HIDE DEF m
\* finish() is called for the operation that holds the head.
<1>5. ASSUME pc[t] \in {"pushRecheck", "pushWin"}, pc' = [pc EXCEPT ![t] = "finish"],
             me' = [me EXCEPT ![t] = CallFinish(m, "pushWhile")]
      PROVE  Goal
  <2> DEFINE f == [m.f EXCEPT !.back = "pushWhile"]
  <2>1. me' = [me EXCEPT ![t] = SetFinish(m, f)]
    BY <1>5 DEF SetFinish, CallFinish
  <2>2. f \in FinishLocals /\ f.back = "pushWhile"
    BY <1>1 DEF FinishLocals
  <2> HIDE DEF f
  <2>3. LocalsOK("finish", SetFinish(m, f))
    BY <1>1, <1>4, <1>5, <2>2 DEF LocalsOK
  <2> QED BY <1>5, <2>1, <2>2, <2>3, SetsFinish DEF ForPush, m
<1>6. CASE PushHead(t)
  <2> DEFINE h == [m.h EXCEPT !.oh = head]
  <2>1. /\ pc[t] = "pushHead" /\ pc' = [pc EXCEPT ![t] = "pushState"]
        /\ me' = [me EXCEPT ![t] = SetHelp(m, h)]
    BY <1>6 DEF PushHead, Read, At, Goto, Keep, SetHelp, m
  <2>2. h \in HelpLocals
    BY <1>1, <1>2 DEF HelpLocals
  <2>3. LocalsOK("pushState", SetHelp(m, h))
    BY <1>1, <1>3, <2>1, <2>2 DEF LocalsOK
  <2> QED BY <2>1, <2>2, <2>3, SetsHelp DEF HelpDone, ForPush, m
<1>7. CASE PushState(t) \/ FirstLoad(t)
  <2> DEFINE h == [m.h EXCEPT !.os = states[m.i]]
  <2>1. PICK q \in {"pushCheck", "firstDone"} :
          /\ pc[t] \in {"pushState", "firstLoad"} /\ pc' = [pc EXCEPT ![t] = q]
          /\ me' = [me EXCEPT ![t] = SetHelp(m, h)]
    BY <1>7 DEF PushState, FirstLoad, Read, At, Goto, Keep, SetHelp, m
  <2>2. m.i \in Threads
    BY <1>1, <2>1 DEF LocalsOK
  <2>3. h \in HelpLocals
    BY <1>1, <1>2, <2>2 DEF HelpLocals
  <2>4. LocalsOK(q, SetHelp(m, h))
    BY <1>1, <1>3, <2>1, <2>3 DEF LocalsOK
  <2> QED BY <2>1, <2>3, <2>4, SetsHelp DEF HelpDone, ForPush, m
<1>8. CASE PushCheck(t) \/ PushPending(t) \/ PushSame(t)
  <2>1. PICK q \in {"pushWhile", "pushPending", "pushWinner", "pushSame", "pushFirst"} :
          /\ pc' = [pc EXCEPT ![t] = q] /\ me' = [me EXCEPT ![t] = m]
          /\ q = "pushWinner" => m.h.oh # NULL
          /\ pc[t] \in {"pushCheck", "pushPending", "pushSame"}
    BY <1>8 DEF PushCheck, PushPending, PushSame, IfPending, Read, At, Goto, Keep, m
  <2>2. LocalsOK(q, m)
    BY <1>1, <1>2, <2>1 DEF LocalsOK
  <2> QED BY <2>1, <2>2, StaysAt DEF HelpDone, ForPush, m
<1>9. CASE PushFirst(t)
  <2>1. PICK q \in {"pushWhile", "firstLoad"} :
          pc[t] = "pushFirst" /\ pc' = [pc EXCEPT ![t] = q] /\ me' = me
    BY <1>9 DEF PushFirst, At, Goto
  <2>2. LocalsOK(q, m)
    BY <1>1, <2>1 DEF LocalsOK
  <2> QED BY <2>1, <2>2, StaysAt DEF HelpDone, ForPush, m
<1>10. CASE FirstDone(t)
  <2>1. /\ pc[t] = "firstDone" /\ pc' = [pc EXCEPT ![t] = "scan"]
        /\ me' = [me EXCEPT ![t] = ScanAgain(m)]
    BY <1>10 DEF FirstDone, At, Goto, Keep, ScanAgain, m
  <2> QED BY <2>1, ScansAgain DEF m
<1>11. CASE PushWinner(t)
  <2> DEFINE h == [m.h EXCEPT !.ow = winner[m.h.oh]]
  <2>1. /\ pc[t] = "pushWinner" /\ pc' = [pc EXCEPT ![t] = "pushRecheck"]
        /\ me' = [me EXCEPT ![t] = SetHelp(m, h)]
    BY <1>11 DEF PushWinner, Read, At, Goto, Keep, SetHelp, m
  <2>2. m.h.oh \in Nodes
    BY <1>1, <2>1 DEF LocalsOK
  <2>3. h \in HelpLocals /\ h.oh = m.h.oh
    BY <1>1, <1>2, <2>2 DEF HelpLocals
  <2> HIDE DEF h
  <2>4. LocalsOK("pushRecheck", SetHelp(m, h))
    BY <1>1, <1>3, <2>1, <2>2, <2>3 DEF LocalsOK
  <2> QED BY <2>1, <2>3, <2>4, SetsHelp DEF HelpDone, ForPush, m
<1>12. CASE PushRecheck(t) \/ PushStill(t)
  <2>1. \/ /\ pc[t] = "pushRecheck" /\ pc' = [pc EXCEPT ![t] = "finish"]
           /\ me' = [me EXCEPT ![t] = CallFinish(m, "pushWhile")]
        \/ \E q \in {"pushWhile", "pushStill", "pushWin"} :
             /\ pc' = [pc EXCEPT ![t] = q] /\ me' = [me EXCEPT ![t] = m]
             /\ pc[t] \in {"pushRecheck", "pushStill"}
    BY <1>12 DEF PushRecheck, PushStill, IfPending, Read, At, Goto, Keep, m
  <2>2. ASSUME NEW q \in {"pushWhile", "pushStill", "pushWin"},
               pc' = [pc EXCEPT ![t] = q], me' = [me EXCEPT ![t] = m],
               pc[t] \in {"pushRecheck", "pushStill"}
        PROVE  Goal
    <3>1. LocalsOK(q, m)
      BY <1>1, <2>2 DEF LocalsOK
    <3> QED BY <2>2, <3>1, StaysAt DEF HelpDone, ForPush, m
  <2> QED BY <1>5, <2>1, <2>2 DEF m
<1>13. CASE PushWin(t)
  <2>1. \/ /\ pc[t] = "pushWin" /\ pc' = [pc EXCEPT ![t] = "finish"]
           /\ me' = [me EXCEPT ![t] = CallFinish(m, "pushWhile")]
        \/ /\ pc[t] = "pushWin" /\ pc' = [pc EXCEPT ![t] = "pushWhile"]
           /\ me' = [me EXCEPT ![t] = m]
    BY <1>13 DEF PushWin, At, Goto, Keep, m
  <2>2. pc[t] = "pushWin" => LocalsOK("pushWhile", m)
    BY <1>1 DEF LocalsOK
  <2> QED BY <1>5, <2>1, <2>2, StaysAt DEF HelpDone, ForPush, m
<1>14. CASE PushWhile(t)
  <2>1. \/ /\ pc[t] = "pushWhile" /\ pc' = [pc EXCEPT ![t] = "pushHead"]
           /\ me' = [me EXCEPT ![t] = SetHelp(m, NoHelp)]
        \/ /\ pc[t] = "pushWhile" /\ pc' = [pc EXCEPT ![t] = "scan"]
           /\ me' = [me EXCEPT ![t] = ScanAgain(m)]
    BY <1>14 DEF PushWhile, While, Read, At, Goto, Keep, SetHelp, ScanAgain, m
  <2>2. pc[t] = "pushWhile" => LocalsOK("pushHead", SetHelp(m, NoHelp))
    BY <1>1, <1>3, FreshLocals DEF LocalsOK
  <2> QED BY <2>1, <2>2, SetsHelp, ScansAgain, FreshLocals DEF HelpDone, ForPush, m
<1> QED BY <1>6, <1>7, <1>8, <1>9, <1>10, <1>11, <1>12, <1>13, <1>14 DEF m

\* help_pop() goes on.
LEMMA HelpPopMoves ==
  ASSUME TypeInv, NEW t \in Threads,
         \/ PopHead(t) \/ PopState(t) \/ PopEmpty(t) \/ PopNothing(t) \/ PopWinner(t)
         \/ PopCheck(t) \/ PopStill(t) \/ PopWin(t) \/ PopWhile(t)
  PROVE  (\E q, x : Onward(pc[t], me[t], q, x) /\ Moves(t, q, x)) \/ UNCHANGED <<pc, me>>
<1> DEFINE m == me[t]
           Goal == \E q, x : Onward(pc[t], m, q, x) /\ Moves(t, q, x)
<1> USE DEF Places, Before, HelpPush, HelpPop, Finishing, FinishPush, FinishPop, Ends
<1>1. /\ LocalsOK(pc[t], m) /\ m \in Locals
      /\ m.h \in HelpLocals /\ m.f \in FinishLocals /\ m.i \in 0..N+1
      /\ m.h.oh \in Links /\ m.h.os \in Descriptors /\ m.h.ow \in Marks
  BY HasLocals
<1>2. /\ head \in Links /\ \A u \in Threads : states[u] \in Descriptors
      /\ \A n \in Links : n # NULL => n \in Nodes
      /\ \A n \in Nodes : winner[n] \in Marks
  BY SharedTypes
<1>3. ASSUME NEW h \in HelpLocals
      PROVE  /\ SetHelp(m, h) \in Locals /\ Same(m, SetHelp(m, h))
             /\ SetHelp(m, h).kind = m.kind /\ SetHelp(m, h).node = m.node
             /\ SetHelp(m, h).i = m.i /\ SetHelp(m, h).h = h /\ SetHelp(m, h).f = m.f
  BY <1>1, SetLocals DEF Same
<1>4. ASSUME NEW f \in FinishLocals
      PROVE  /\ SetFinish(m, f) \in Locals /\ Same(m, SetFinish(m, f))
             /\ SetFinish(m, f).kind = m.kind /\ SetFinish(m, f).node = m.node
             /\ SetFinish(m, f).i = m.i /\ SetFinish(m, f).h = m.h /\ SetFinish(m, f).f = f
  BY <1>1, SetLocals DEF Same
<1> HIDE DEF m
<1>5. ASSUME pc[t] \in {"popCheck", "popWin"}, pc' = [pc EXCEPT ![t] = "finish"],
             me' = [me EXCEPT ![t] = CallFinish(m, "popWhile")]
      PROVE  Goal
  <2> DEFINE f == [m.f EXCEPT !.back = "popWhile"]
  <2>1. me' = [me EXCEPT ![t] = SetFinish(m, f)]
    BY <1>5 DEF SetFinish, CallFinish
  <2>2. f \in FinishLocals /\ f.back = "popWhile"
    BY <1>1 DEF FinishLocals
  <2> HIDE DEF f
  <2>3. LocalsOK("finish", SetFinish(m, f))
    BY <1>1, <1>4, <1>5, <2>2 DEF LocalsOK
  <2> QED BY <1>5, <2>1, <2>2, <2>3, SetsFinish DEF ForPush, m
<1>6. CASE PopHead(t)
  <2> DEFINE h == [m.h EXCEPT !.oh = head]
  <2>1. /\ pc[t] = "popHead" /\ pc' = [pc EXCEPT ![t] = "popState"]
        /\ me' = [me EXCEPT ![t] = SetHelp(m, h)]
    BY <1>6 DEF PopHead, Read, At, Goto, Keep, SetHelp, m
  <2>2. h \in HelpLocals
    BY <1>1, <1>2 DEF HelpLocals
  <2>3. LocalsOK("popState", SetHelp(m, h))
    BY <1>1, <1>3, <2>1, <2>2 DEF LocalsOK
  <2> QED BY <2>1, <2>2, <2>3, SetsHelp DEF HelpDone, ForPush, m
<1>7. CASE PopState(t)
  <2> DEFINE h == [m.h EXCEPT !.os = states[m.i]]
  <2>1. PICK q \in {"popEmpty", "popWinner"} :
          /\ pc[t] = "popState" /\ pc' = [pc EXCEPT ![t] = q]
          /\ me' = [me EXCEPT ![t] = SetHelp(m, h)]
    BY <1>7 DEF PopState, Read, At, Goto, Keep, SetHelp, m
  <2>2. m.i \in Threads
    BY <1>1, <2>1 DEF LocalsOK
  <2>3. h \in HelpLocals
    BY <1>1, <1>2, <2>2 DEF HelpLocals
  <2>4. LocalsOK(q, SetHelp(m, h))
    BY <1>1, <1>3, <2>1, <2>3 DEF LocalsOK
  <2> QED BY <2>1, <2>3, <2>4, SetsHelp DEF HelpDone, ForPush, m
<1>8. CASE PopEmpty(t) \/ PopStill(t)
  <2>1. PICK q \in {"popNothing", "popWinner", "popWin", "popWhile"} :
          /\ pc' = [pc EXCEPT ![t] = q] /\ me' = [me EXCEPT ![t] = m]
          /\ pc[t] \in {"popEmpty", "popStill"}
          /\ q = "popWin" => pc[t] = "popStill"
    BY <1>8 DEF PopEmpty, PopStill, IfPending, Read, At, Goto, Keep, m
  <2>2. LocalsOK(q, m)
    BY <1>1, <2>1 DEF LocalsOK
  <2> QED BY <2>1, <2>2, StaysAt DEF HelpDone, ForPush, m
<1>9. CASE PopNothing(t)
  <2>1. pc[t] = "popNothing" /\ pc' = [pc EXCEPT ![t] = "popWinner"] /\ me' = me
    BY <1>9 DEF PopNothing, At, Goto
  <2>2. LocalsOK("popWinner", m)
    BY <1>1, <2>1 DEF LocalsOK
  <2> QED BY <2>1, <2>2, StaysAt DEF HelpDone, ForPush, m
<1>10. CASE PopWinner(t)
  <2> DEFINE h == [m.h EXCEPT !.ow = winner[m.h.oh]]
  <2>1. CASE m.h.oh = NULL
    BY <1>10, <2>1 DEF PopWinner, Crash, m
  <2>2. CASE m.h.oh # NULL
    <3>1. /\ pc[t] = "popWinner" /\ pc' = [pc EXCEPT ![t] = "popCheck"]
          /\ me' = [me EXCEPT ![t] = SetHelp(m, h)]
      BY <1>10, <2>2 DEF PopWinner, Read, At, Goto, Keep, SetHelp, m
    <3>2. m.h.oh \in Nodes
      BY <1>1, <1>2, <2>2
    <3>3. h \in HelpLocals /\ h.oh = m.h.oh
      BY <1>1, <1>2, <3>2 DEF HelpLocals
    <3> HIDE DEF h
    <3>4. LocalsOK("popCheck", SetHelp(m, h))
      BY <1>1, <1>3, <3>1, <3>2, <3>3 DEF LocalsOK
    <3> QED BY <3>1, <3>3, <3>4, SetsHelp DEF HelpDone, ForPush, m
  <2> QED BY <2>1, <2>2
<1>11. CASE PopCheck(t)
  <2>1. \/ /\ pc[t] = "popCheck" /\ pc' = [pc EXCEPT ![t] = "finish"]
           /\ me' = [me EXCEPT ![t] = CallFinish(m, "popWhile")]
        \/ \E q \in {"popWhile", "popClear", "popStill"} :
             /\ pc' = [pc EXCEPT ![t] = q] /\ me' = [me EXCEPT ![t] = m]
             /\ pc[t] = "popCheck"
    BY <1>11 DEF PopCheck, Read, At, Goto, Keep, m
  <2>2. ASSUME NEW q \in {"popWhile", "popClear", "popStill"},
               pc' = [pc EXCEPT ![t] = q], me' = [me EXCEPT ![t] = m], pc[t] = "popCheck"
        PROVE  Goal
    <3>1. LocalsOK(q, m)
      BY <1>1, <2>2 DEF LocalsOK
    <3> QED BY <2>2, <3>1, StaysAt DEF HelpDone, ForPush, m
  <2> QED BY <1>5, <2>1, <2>2 DEF m
<1>12. CASE PopWin(t)
  <2> DEFINE h == [m.h EXCEPT !.ow = winner[m.h.oh]]
  <2>1. \/ /\ pc[t] = "popWin" /\ pc' = [pc EXCEPT ![t] = "finish"]
           /\ me' = [me EXCEPT ![t] = CallFinish(m, "popWhile")]
        \/ /\ pc[t] = "popClear" /\ pc' = [pc EXCEPT ![t] = "popStill"]
           /\ me' = [me EXCEPT ![t] = SetHelp(m, h)]
    BY <1>12 DEF PopWin, Goto, Keep, SetHelp, m
  <2>2. ASSUME pc[t] = "popClear", pc' = [pc EXCEPT ![t] = "popStill"],
               me' = [me EXCEPT ![t] = SetHelp(m, h)]
        PROVE  Goal
    <3>1. m.h.oh \in Nodes
      BY <1>1, <2>2 DEF LocalsOK
    <3>2. h \in HelpLocals /\ h.oh = m.h.oh
      BY <1>1, <1>2, <3>1 DEF HelpLocals
    <3>3. me' = [me EXCEPT ![t] = SetHelp(me[t], h)]
      BY <2>2 DEF m
    <3> HIDE DEF h
    <3>4. LocalsOK("popStill", SetHelp(m, h))
      BY <1>1, <1>3, <2>2, <3>1, <3>2 DEF LocalsOK
    <3> QED BY <2>2, <3>2, <3>3, <3>4, SetsHelp DEF HelpDone, ForPush, m
  <2> QED BY <1>5, <2>1, <2>2 DEF m
<1>13. CASE PopWhile(t)
  <2>1. \/ /\ pc[t] = "popWhile" /\ pc' = [pc EXCEPT ![t] = "popHead"]
           /\ me' = [me EXCEPT ![t] = SetHelp(m, NoHelp)]
        \/ /\ pc[t] = "popWhile" /\ pc' = [pc EXCEPT ![t] = "scan"]
           /\ me' = [me EXCEPT ![t] = ScanAgain(m)]
    BY <1>13 DEF PopWhile, While, Read, At, Goto, Keep, SetHelp, ScanAgain, m
  <2>2. pc[t] = "popWhile" => LocalsOK("popHead", SetHelp(m, NoHelp))
    BY <1>1, <1>3, FreshLocals DEF LocalsOK
  <2> QED BY <2>1, <2>2, SetsHelp, ScansAgain, FreshLocals DEF HelpDone, ForPush, m
<1> QED BY <1>6, <1>7, <1>8, <1>9, <1>10, <1>11, <1>12, <1>13 DEF m

\* finish() goes on; where the process stops it does not.
LEMMA FinishMoves ==
  ASSUME TypeInv, NEW t \in Threads, Finish(t)
  PROVE  (\E q, x : Onward(pc[t], me[t], q, x) /\ Moves(t, q, x)) \/ UNCHANGED <<pc, me>>
<1> DEFINE m == me[t]
           Goal == (\E q, x : Onward(pc[t], m, q, x) /\ Moves(t, q, x)) \/ UNCHANGED <<pc, me>>
<1> USE DEF Places, Before, HelpPush, HelpPop, Finishing, FinishPush, FinishPop, Ends
<1>1. /\ LocalsOK(pc[t], m) /\ m \in Locals
      /\ m.h \in HelpLocals /\ m.f \in FinishLocals /\ m.i \in 0..N+1
      /\ m.f.oh \in Links /\ m.f.tid \in Marks /\ m.f.minus \in Marks
      /\ m.f.os \in Descriptors /\ m.f.nx \in Links
  BY HasLocals
<1>2. /\ head \in Links /\ \A u \in Threads : states[u] \in Descriptors
      /\ \A n \in Links : n # NULL => n \in Nodes
      /\ \A n \in Nodes : winner[n] \in Marks /\ next[n] \in Links
      /\ \A w \in Marks : -w \in Marks
  BY SharedTypes
<1>3. \A d \in Descriptors : d.node \in Links
  BY DEF Descriptors
<1>4. ASSUME NEW f \in FinishLocals
      PROVE  /\ SetFinish(m, f) \in Locals /\ Same(m, SetFinish(m, f))
             /\ SetFinish(m, f).kind = m.kind /\ SetFinish(m, f).node = m.node
             /\ SetFinish(m, f).i = m.i /\ SetFinish(m, f).h = m.h /\ SetFinish(m, f).f = f
  BY <1>1, SetLocals DEF Same
<1> HIDE DEF m
\* An assignment to one of the locals of finish().
<1>5. ASSUME NEW q \in Finishing, NEW f \in FinishLocals, f.back = m.f.back,
             pc[t] \in Finishing, pc' = [pc EXCEPT ![t] = q],
             me' = [me EXCEPT ![t] = SetFinish(m, f)], LocalsOK(q, SetFinish(m, f))
      PROVE  Goal
  BY <1>5, SetsFinish DEF HelpDone, ForPush, m
<1>6. ASSUME NEW q \in Finishing, pc[t] \in Finishing, pc' = [pc EXCEPT ![t] = q],
             me' = me \/ me' = [me EXCEPT ![t] = m], LocalsOK(q, m)
      PROVE  Goal
  <2>1. q \notin Before \cup {"scan", "dispatch"} \cup Ends /\ pc[t] \notin Before
    BY <1>6
  <2>2. (HelpDone(q, m) => HelpDone(pc[t], m)) /\ (ForPush(q, m) => ForPush(pc[t], m))
    BY <1>6, <2>1 DEF HelpDone, ForPush
  <2> QED BY <1>6, <2>1, <2>2, StaysAt DEF m
<1>7. ASSUME Return(t), pc[t] \in Finishing PROVE Goal
  <2>1. pc' = [pc EXCEPT ![t] = me[t].f.back] /\ me' = [me EXCEPT ![t] = FinishReturns(me[t])]
    BY <1>7 DEF Return, Read, Goto, Keep, FinishReturns
  <2> QED BY <1>7, <2>1, FinishedReturns DEF m
<1>8. ASSUME Again(t), pc[t] \in Finishing PROVE Goal
  <2> DEFINE f == [NoFinish EXCEPT !.back = m.f.back]
  <2>1. pc' = [pc EXCEPT ![t] = "finish"] /\ me' = [me EXCEPT ![t] = SetFinish(m, f)]
    BY <1>8 DEF Again, Read, Goto, Keep, SetFinish, m
  <2>2. f \in FinishLocals /\ f.back = m.f.back
    BY <1>1, FreshLocals DEF FinishLocals, NoFinish
  <2> HIDE DEF f
  <2>3. LocalsOK("finish", SetFinish(m, f))
    BY <1>1, <1>4, <1>8, <2>2 DEF LocalsOK
  <2> QED BY <1>5, <1>8, <2>1, <2>2, <2>3
<1>9. ASSUME Crash("negativeIndex") \/ Crash("nullNode") \/ Crash("nullHead") PROVE Goal
  BY <1>9 DEF Crash
<1>10. CASE FinishHead(t)
  <2> DEFINE f == [m.f EXCEPT !.oh = head]
  <2>1. \/ Return(t) /\ pc[t] = "finish"
        \/ /\ pc[t] = "finish" /\ pc' = [pc EXCEPT ![t] = "finishWinner"] /\ head # NULL
           /\ me' = [me EXCEPT ![t] = SetFinish(m, f)]
    BY <1>10 DEF FinishHead, Read, At, Goto, Keep, SetFinish, m
  <2>2. f \in FinishLocals /\ f.back = m.f.back /\ f.oh = head
    BY <1>1, <1>2 DEF FinishLocals
  <2> HIDE DEF f
  <2>3. pc[t] = "finish" /\ head # NULL => LocalsOK("finishWinner", SetFinish(m, f))
    BY <1>1, <1>2, <1>4, <2>2 DEF LocalsOK
  <2> QED BY <1>5, <1>7, <2>1, <2>2, <2>3 DEF m
<1>11. CASE FinishWinner(t)
  <2> DEFINE w == winner[m.f.oh]
             f == [m.f EXCEPT !.tid = w, !.minus = -w]
  <2>1. \/ Return(t) /\ pc[t] = "finishWinner"
        \/ /\ pc[t] = "finishWinner" /\ pc' = [pc EXCEPT ![t] = "finishState"] /\ w # 0
           /\ me' = [me EXCEPT ![t] = SetFinish(m, f)]
    BY <1>11 DEF FinishWinner, Read, At, Goto, Keep, SetFinish, m
  <2>2. pc[t] = "finishWinner" => m.f.oh \in Nodes
    BY <1>1 DEF LocalsOK
  <2>3. pc[t] = "finishWinner" => w \in Marks /\ -w \in Marks
    BY <1>2, <2>2
  <2> HIDE DEF w
  <2>4. pc[t] = "finishWinner" => f \in FinishLocals /\ f.back = m.f.back /\ f.oh = m.f.oh /\ f.tid = w
    BY <1>1, <2>3 DEF FinishLocals
  <2> HIDE DEF f
  <2>5. pc[t] = "finishWinner" /\ w # 0 => LocalsOK("finishState", SetFinish(m, f))
    BY <1>1, <1>4, <2>4 DEF LocalsOK
  <2> QED BY <1>5, <1>7, <2>1, <2>4, <2>5 DEF m
<1>12. CASE FinishState(t)
  <2> DEFINE d == states[m.f.tid]
             f == [m.f EXCEPT !.os = d]
  <2>1. \/ Crash("negativeIndex")
        \/ /\ pc[t] = "finishState" /\ pc' = [pc EXCEPT ![t] = "sameHead"] /\ ~(m.f.tid < 0)
           /\ me' = [me EXCEPT ![t] = SetFinish(m, f)]
    BY <1>12 DEF FinishState, Read, At, Goto, Keep, SetFinish, m
  <2>2. pc[t] = "finishState" => m.f.tid # 0 /\ m.f.oh \in Nodes
    BY <1>1 DEF LocalsOK
  <2>3. pc[t] = "finishState" /\ ~(m.f.tid < 0) => m.f.tid \in Threads
    BY <1>1, <2>2, StackAssumption DEF Marks, Threads
  <2>4. m.f.tid \in Threads => d \in Descriptors
    BY <1>2
  <2> HIDE DEF d
  <2>5. d \in Descriptors =>
          f \in FinishLocals /\ f.back = m.f.back /\ f.oh = m.f.oh /\ f.tid = m.f.tid
    BY <1>1 DEF FinishLocals
  <2> HIDE DEF f
  <2>6. ASSUME pc[t] = "finishState", m.f.tid \in Threads, d \in Descriptors
        PROVE  LocalsOK("sameHead", SetFinish(m, f))
    BY <1>1, <1>4, <2>2, <2>5, <2>6 DEF LocalsOK
  <2> QED BY <1>5, <1>9, <2>1, <2>3, <2>4, <2>5, <2>6 DEF m
<1>13. CASE SameHead(t) \/ SameWinner(t) \/ SameState(t)
  <2>1. /\ pc[t] \in {"sameHead", "sameWinner", "sameState"}
        /\ \/ Again(t)
           \/ \E q \in {"sameWinner", "sameState", "pushStays", "popNext"} :
                /\ pc' = [pc EXCEPT ![t] = q] /\ me' = [me EXCEPT ![t] = m]
                /\ q = "pushStays" => m.f.os.push
    BY <1>13 DEF SameHead, SameWinner, SameState, Read, At, Goto, Keep, m
  <2>2. ASSUME NEW q \in {"sameWinner", "sameState", "pushStays", "popNext"},
               pc[t] \in {"sameHead", "sameWinner", "sameState"},
               q = "pushStays" => m.f.os.push
        PROVE  LocalsOK(q, m)
    BY <1>1, <2>2 DEF LocalsOK
  <2> QED BY <1>6, <1>8, <2>1, <2>2 DEF m
<1>14. CASE PushStays(t)
  <2> DEFINE n == m.f.os.node
             f == [m.f EXCEPT !.nx = n]
  <2>1. /\ pc[t] = "pushStays"
        /\ \/ Return(t)
           \/ \E q \in {"pushMark", "pushLink"} :
                /\ pc' = [pc EXCEPT ![t] = q] /\ me' = [me EXCEPT ![t] = SetFinish(m, f)]
                /\ q = "pushMark" => m.f.os.pending
    BY <1>14 DEF PushStays, Read, At, Goto, Keep, SetFinish, m
  <2>2. n \in Links
    BY <1>1, <1>3
  <2> HIDE DEF n
  <2>3. /\ f \in FinishLocals /\ f.back = m.f.back /\ f.oh = m.f.oh /\ f.tid = m.f.tid
        /\ f.os = m.f.os
    BY <1>1, <2>2 DEF FinishLocals
  <2> HIDE DEF f
  <2>4. ASSUME NEW q \in {"pushMark", "pushLink"}, q = "pushMark" => m.f.os.pending
        PROVE  LocalsOK(q, SetFinish(m, f))
    BY <1>1, <1>4, <2>1, <2>3, <2>4 DEF LocalsOK
  <2> QED BY <1>5, <1>7, <2>1, <2>3, <2>4 DEF m
<1>15. CASE PushMark(t)
  <2> DEFINE w == winner[m.f.oh]
             f == [m.f EXCEPT !.tid = w]
  <2>1. /\ pc[t] = "pushMark" /\ pc' = [pc EXCEPT ![t] = "pushFinish"]
        /\ me' = [me EXCEPT ![t] = SetFinish(m, f)]
    BY <1>15 DEF PushMark, At, Goto, Keep, SetFinish, m
  <2>2. m.f.oh \in Nodes /\ m.f.os.push /\ m.f.os.pending
    BY <1>1, <2>1 DEF LocalsOK
  <2>3. w \in Marks
    BY <1>2, <2>2
  <2> HIDE DEF w
  <2>4. f \in FinishLocals /\ f.back = m.f.back /\ f.oh = m.f.oh /\ f.os = m.f.os
    BY <1>1, <2>3 DEF FinishLocals
  <2> HIDE DEF f
  <2>5. LocalsOK("pushFinish", SetFinish(m, f))
    BY <1>1, <1>4, <2>1, <2>2, <2>4 DEF LocalsOK
  <2> QED BY <1>5, <2>1, <2>4, <2>5 DEF m
<1>16. CASE PushFinish(t) \/ PushLink(t)
  <2>1. \/ Crash("negativeIndex") \/ Crash("nullNode")
        \/ /\ pc[t] = "pushFinish" /\ pc' = [pc EXCEPT ![t] = "pushLink"] /\ me' = me
        \/ /\ pc[t] = "pushLink" /\ pc' = [pc EXCEPT ![t] = "pushSwing"] /\ me' = me
           /\ m.f.nx # NULL
    BY <1>16 DEF PushFinish, PushLink, At, Goto, m
  <2>2. pc[t] = "pushFinish" => LocalsOK("pushLink", m)
    BY <1>1 DEF LocalsOK
  <2>3. pc[t] = "pushLink" /\ m.f.nx # NULL => LocalsOK("pushSwing", m)
    BY <1>1, <1>2 DEF LocalsOK
  <2> QED BY <1>6, <1>9, <2>1, <2>2, <2>3 DEF m
<1>17. CASE PushSwing(t)
  <2> DEFINE f == [m.f EXCEPT !.oh = head]
  <2>1. /\ pc[t] = "pushSwing" /\ pc' = [pc EXCEPT ![t] = "pushUnmark"]
        /\ me' = [me EXCEPT ![t] = SetFinish(m, f)]
    BY <1>17 DEF PushSwing, At, Goto, Keep, SetFinish, m
  <2>2. f \in FinishLocals /\ f.back = m.f.back
    BY <1>1, <1>2 DEF FinishLocals
  <2> HIDE DEF f
  <2>3. LocalsOK("pushUnmark", SetFinish(m, f))
    BY <1>1, <1>4, <2>1, <2>2 DEF LocalsOK
  <2> QED BY <1>5, <2>1, <2>2, <2>3 DEF m
<1>18. CASE PushUnmark(t) \/ PopSwing(t)
  <2>1. \/ Crash("nullHead")
        \/ /\ pc[t] \in {"pushUnmark", "popSwing"} /\ pc' = [pc EXCEPT ![t] = me[t].f.back]
           /\ me' = [me EXCEPT ![t] = FinishReturns(me[t])]
    BY <1>18 DEF PushUnmark, PopSwing, At, Goto, Keep, FinishReturns
  <2> QED BY <1>9, <2>1, FinishedReturns DEF m
<1>19. CASE PopNext(t)
  <2> DEFINE n == next[m.f.oh]
             f == [m.f EXCEPT !.nx = n]
  <2>1. /\ pc[t] = "popNext" /\ pc' = [pc EXCEPT ![t] = "popStays"]
        /\ me' = [me EXCEPT ![t] = SetFinish(m, f)]
    BY <1>19 DEF PopNext, Read, At, Goto, Keep, SetFinish, m
  <2>2. m.f.oh \in Nodes /\ m.f.tid \in Threads
    BY <1>1, <2>1 DEF LocalsOK
  <2>3. n \in Links
    BY <1>2, <2>2
  <2> HIDE DEF n
  <2>4. f \in FinishLocals /\ f.back = m.f.back /\ f.oh = m.f.oh /\ f.tid = m.f.tid
    BY <1>1, <2>3 DEF FinishLocals
  <2> HIDE DEF f
  <2>5. LocalsOK("popStays", SetFinish(m, f))
    BY <1>1, <1>4, <2>1, <2>2, <2>4 DEF LocalsOK
  <2> QED BY <1>5, <2>1, <2>4, <2>5 DEF m
<1>20. CASE PopStays(t) \/ PopFinish(t)
  <2>1. \/ Return(t) /\ pc[t] = "popStays"
        \/ \E q \in {"popFinish", "popSwing"} :
             /\ pc[t] \in {"popStays", "popFinish"}
             /\ pc' = [pc EXCEPT ![t] = q] /\ (me' = me \/ me' = [me EXCEPT ![t] = m])
             /\ q = "popFinish" => m.f.os.pending
    BY <1>20 DEF PopStays, PopFinish, Read, At, Goto, Keep, m
  <2>2. ASSUME NEW q \in {"popFinish", "popSwing"}, pc[t] \in {"popStays", "popFinish"},
               q = "popFinish" => m.f.os.pending
        PROVE  LocalsOK(q, m)
    BY <1>1, <2>2 DEF LocalsOK
  <2> QED BY <1>6, <1>7, <2>1, <2>2 DEF m
<1> QED BY <1>10, <1>11, <1>12, <1>13, <1>14, <1>15, <1>16, <1>17, <1>18, <1>19, <1>20 DEF Finish, m

-------------------------------------------------------------------------------
(* What the steps write to the shared memory.                              *)

\* Slots hold d and then e: the same descriptor, or the finished one.
Follows(d, e) ==
  e = d \/ (e.tid = d.tid /\ e.phase = d.phase /\ e.copy = d.copy + 1 /\ ~e.pending)

LEMMA FinishedFollows ==
  ASSUME NEW d \in Descriptors, NEW push \in BOOLEAN, NEW node \in Links
  PROVE  Finished(d, push, node) \in Descriptors /\ Follows(d, Finished(d, push, node))
<1>0. \A c \in Descriptors :
        /\ \A b \in BOOLEAN : [c EXCEPT !.pending = b] \in Descriptors
        /\ \A b \in BOOLEAN : [c EXCEPT !.push = b] \in Descriptors
        /\ \A n \in Links : [c EXCEPT !.node = n] \in Descriptors
        /\ [c EXCEPT !.copy = @ + 1] \in Descriptors
  BY DEF Descriptors
<1>1. Finished(d, push, node) \in Descriptors
  <2> DEFINE a == [d EXCEPT !.pending = FALSE]
             b == [a EXCEPT !.push = push]
             c == [b EXCEPT !.node = node]
  <2>1. a \in Descriptors
    BY <1>0
  <2>2. Finished(d, push, node) = [c EXCEPT !.copy = @ + 1]
    BY DEF Finished
  <2> HIDE DEF a
  <2>3. b \in Descriptors
    BY <1>0, <2>1
  <2> HIDE DEF b
  <2>4. c \in Descriptors
    BY <1>0, <2>3
  <2> HIDE DEF c
  <2> QED BY <1>0, <2>2, <2>4
<1>2. Follows(d, Finished(d, push, node))
  BY DEF Finished, Descriptors, Follows
<1> QED BY <1>1, <1>2

\* One slot is exchanged for a finished descriptor, or none is.
LEMMA SlotFinished ==
  ASSUME TypeInv, NEW v, NEW d, NEW push \in BOOLEAN, NEW node \in Links,
         \/ states' = states
         \/ /\ v \in Threads /\ states[v] = d
            /\ states' = [states EXCEPT ![v] = Finished(d, push, node)]
  PROVE  /\ states' \in [Threads -> Descriptors] /\ \A u \in Threads : states'[u].tid = u
         /\ \A u \in Threads : Follows(states[u], states'[u])
<1>0. states \in [Threads -> Descriptors] /\ \A u \in Threads : states[u].tid = u
  BY DEF TypeInv
<1>1. CASE states' = states
  BY <1>0, <1>1 DEF Follows
<1>2. CASE /\ v \in Threads /\ states[v] = d
           /\ states' = [states EXCEPT ![v] = Finished(d, push, node)]
  <2> DEFINE e == Finished(d, push, node)
  <2>1. e \in Descriptors /\ Follows(d, e) /\ d.tid = v
    BY <1>0, <1>2, FinishedFollows
  <2>2. e.tid = v
    BY <2>1 DEF Follows
  <2>3. states'[v] = e /\ \A u \in Threads \ {v} : states'[u] = states[u]
    BY <1>0, <1>2
  <2>4. states' \in [Threads -> Descriptors]
    BY <1>0, <1>2, <2>1
  <2> HIDE DEF e
  <2>5. ASSUME NEW u \in Threads
        PROVE  states'[u].tid = u /\ Follows(states[u], states'[u])
    BY <1>0, <1>2, <2>1, <2>2, <2>3 DEF Follows
  <2> QED BY <2>4, <2>5
<1> QED BY <1>1, <1>2

\* Helping writes to states_ that an operation is finished, and nothing else.
LEMMA HelpWritesSlots ==
  ASSUME TypeInv, NEW t \in Threads, Help(t) \/ Finish(t)
  PROVE  /\ states' \in [Threads -> Descriptors] /\ \A u \in Threads : states'[u].tid = u
         /\ \A u \in Threads : Follows(states[u], states'[u])
<1> DEFINE Slots == /\ states' \in [Threads -> Descriptors] /\ \A u \in Threads : states'[u].tid = u
                    /\ \A u \in Threads : Follows(states[u], states'[u])
           m == me[t]
<1>1. ASSUME states' = states PROVE Slots
  BY <1>1 DEF TypeInv, Follows
<1>2. /\ LocalsOK(pc[t], m) /\ m.h.os \in Descriptors /\ m.f.os \in Descriptors
      /\ m.f.oh \in Links /\ m.f.nx \in Links /\ m.f.tid \in Marks
      /\ NULL \in Links /\ \A d \in Descriptors : d.node \in Links
  BY HasLocals, SharedTypes DEF Descriptors
<1>3. ASSUME NEW v, NEW d, NEW push \in BOOLEAN, NEW node \in Links, v # 0 => v \in Threads,
             Replace(v, d, Finished(d, push, node))
      PROVE  Slots
  BY <1>3, SlotFinished DEF Replace
<1> HIDE DEF Slots, m
<1>4. ASSUME Scan(t) \/ Dispatch(t)
      PROVE  Slots
  BY <1>1, <1>4 DEF Scan, Dispatch, Read
<1>5. ASSUME \/ PushHead(t) \/ PushState(t) \/ PushCheck(t) \/ PushPending(t) \/ PushSame(t)
             \/ PushFirst(t) \/ FirstLoad(t)
             \/ PushWinner(t) \/ PushRecheck(t) \/ PushStill(t) \/ PushWin(t) \/ PushWhile(t)
      PROVE  Slots
  BY <1>1, <1>5 DEF PushHead, PushState, PushCheck, PushPending, PushSame, PushFirst, FirstLoad,
     PushWinner, PushRecheck, PushStill, PushWin, PushWhile, While, IfPending, Read
<1>6. ASSUME FirstDone(t)
      PROVE  Slots
  <2>1. /\ pc[t] = "firstDone"
        /\ states' = [states EXCEPT ![m.i] =
                        Exchange(states[m.i], m.h.os, Finished(m.h.os, TRUE, m.h.os.node))]
    BY <1>6 DEF FirstDone, At, m
  <2>2. m.i \in Threads
    BY <1>2, <2>1 DEF LocalsOK, HelpPush
  <2>3. CASE states[m.i] = m.h.os
    <3>1. states' = [states EXCEPT ![m.i] = Finished(m.h.os, TRUE, m.h.os.node)]
      BY <2>1, <2>3 DEF Exchange
    <3> QED BY <1>2, <2>2, <2>3, <3>1, SlotFinished DEF Slots
  <2>4. CASE states[m.i] # m.h.os
    <3>1. states' = [states EXCEPT ![m.i] = states[m.i]]
      BY <2>1, <2>4 DEF Exchange
    <3>2. states' = states
      BY <3>1 DEF TypeInv
    <3> QED BY <1>1, <3>2
  <2> QED BY <2>3, <2>4
<1>7. ASSUME \/ PopHead(t) \/ PopState(t) \/ PopEmpty(t) \/ PopWinner(t)
             \/ PopCheck(t) \/ PopStill(t) \/ PopWin(t) \/ PopWhile(t)
      PROVE  Slots
  BY <1>1, <1>7 DEF PopHead, PopState, PopEmpty, PopWinner, PopCheck, PopStill, PopWin, PopWhile,
     While, IfPending, Read, Crash
<1>8. ASSUME PopNothing(t)
      PROVE  Slots
  <2>1. pc[t] = "popNothing" /\ Replace(m.i, m.h.os, Finished(m.h.os, FALSE, NULL))
    BY <1>8 DEF PopNothing, At, m
  <2>2. m.i \in Threads
    BY <1>2, <2>1 DEF LocalsOK, HelpPop
  <2> QED BY <1>2, <1>3, <2>1, <2>2
<1>9. ASSUME \/ FinishHead(t) \/ FinishWinner(t) \/ FinishState(t)
             \/ SameHead(t) \/ SameWinner(t) \/ SameState(t)
      PROVE  Slots
  BY <1>1, <1>9 DEF FinishHead, FinishWinner, FinishState, SameHead, SameWinner, SameState,
     Return, Again, Read, Crash
<1>10. ASSUME \/ PushStays(t) \/ PushMark(t) \/ PushLink(t) \/ PushSwing(t) \/ PushUnmark(t)
              \/ PopNext(t) \/ PopStays(t) \/ PopSwing(t)
      PROVE  Slots
  BY <1>1, <1>10 DEF PushStays, PushMark, PushLink, PushSwing, PushUnmark, PopNext, PopStays,
     PopSwing, Return, Read, Crash
<1>11. ASSUME PushFinish(t)
      PROVE  Slots
  <2>1. \/ Crash("negativeIndex")
        \/ ~(m.f.tid < 0) /\ Replace(m.f.tid, m.f.os, Finished(m.f.os, TRUE, m.f.nx))
    BY <1>11 DEF PushFinish, m
  <2>2. ~(m.f.tid < 0) /\ m.f.tid # 0 => m.f.tid \in Threads
    BY <1>2, StackAssumption DEF Marks, Threads
  <2> QED BY <1>1, <1>2, <1>3, <2>1, <2>2 DEF Crash
<1>12. ASSUME PopFinish(t)
      PROVE  Slots
  <2>1. pc[t] = "popFinish" /\ Replace(m.f.tid, m.f.os, Finished(m.f.os, FALSE, m.f.oh))
    BY <1>12 DEF PopFinish, At, m
  <2>2. m.f.tid \in Threads
    BY <1>2, <2>1 DEF LocalsOK, FinishPop
  <2> QED BY <1>2, <1>3, <2>1, <2>2
<1> QED BY ONLY Help(t) \/ Finish(t), <1>4, <1>5, <1>6, <1>7, <1>8, <1>9, <1>10, <1>11, <1>12
        DEF Help, Finish, Slots

\* The heap keeps its type: what helpers write to it they have read from it.
LEMMA HeapTyped ==
  ASSUME TypeInv, NEW t \in Threads, Help(t) \/ Finish(t)
  PROVE  head' \in Links /\ next' \in [Nodes -> Links] /\ winner' \in [Nodes -> Marks]
<1> DEFINE Heap == head' \in Links /\ next' \in [Nodes -> Links] /\ winner' \in [Nodes -> Marks]
           m == me[t]
<1>0. head \in Links /\ next \in [Nodes -> Links] /\ winner \in [Nodes -> Marks]
  BY DEF TypeInv
<1>1. ASSUME UNCHANGED heap PROVE Heap
  BY <1>0, <1>1 DEF heap
<1>2. ASSUME NEW n, NEW w \in Marks, NEW v \in Marks, UNCHANGED <<head, next>>,
             winner' = [winner EXCEPT ![n] = Exchange(winner[n], w, v)]
      PROVE  Heap
  BY <1>0, <1>2 DEF Exchange
<1>3. ASSUME NEW n \in Links, NEW o \in Links, UNCHANGED <<next, winner>>,
             head' = Exchange(head, o, n)
      PROVE  Heap
  BY <1>0, <1>3 DEF Exchange
<1>4. ASSUME NEW k, NEW n \in Links, UNCHANGED <<head, winner>>,
             next' = [next EXCEPT ![k] = Exchange(next[k], NULL, n)]
      PROVE  Heap
  BY <1>0, <1>4 DEF Exchange
<1>5. /\ LocalsOK(pc[t], m) /\ m.h.os.node \in Links /\ m.h.ow \in Marks
      /\ m.f.oh \in Links /\ m.f.nx \in Links /\ m.f.tid \in Marks /\ m.f.minus \in Marks
      /\ NULL \in Links /\ 0 \in Marks /\ \A u \in Threads : u \in Marks
  BY HasLocals, SharedTypes, StackAssumption DEF Descriptors, Marks
<1> HIDE DEF Heap, m
<1>6. ASSUME Scan(t) \/ Dispatch(t) PROVE Heap
  BY <1>1, <1>6 DEF Scan, Dispatch, Read
<1>7. ASSUME \/ PushHead(t) \/ PushState(t) \/ PushCheck(t) \/ PushPending(t) \/ PushSame(t)
             \/ FirstLoad(t) \/ FirstDone(t)
             \/ PushWinner(t) \/ PushRecheck(t) \/ PushStill(t) \/ PushWhile(t)
      PROVE  Heap
  BY <1>1, <1>7 DEF PushHead, PushState, PushCheck, PushPending, PushSame, FirstLoad, FirstDone,
     PushWinner, PushRecheck, PushStill, PushWhile, While, IfPending, Read
<1>8. ASSUME PushFirst(t) PROVE Heap
  BY <1>3, <1>5, <1>8 DEF PushFirst, m
<1>9. ASSUME PushWin(t) PROVE Heap
  <2>1. /\ pc[t] = "pushWin" /\ UNCHANGED <<head, next>>
        /\ winner' = [winner EXCEPT ![m.h.oh] = Exchange(winner[m.h.oh], 0, m.i)]
    BY <1>9 DEF PushWin, At, m
  <2>2. m.i \in Marks
    BY <1>5, <2>1 DEF LocalsOK, HelpPush
  <2> QED BY <1>2, <1>5, <2>1, <2>2
<1>10. ASSUME \/ PopHead(t) \/ PopState(t) \/ PopEmpty(t) \/ PopNothing(t) \/ PopWinner(t)
              \/ PopCheck(t) \/ PopStill(t) \/ PopWhile(t)
       PROVE  Heap
  BY <1>1, <1>10 DEF PopHead, PopState, PopEmpty, PopNothing, PopWinner, PopCheck, PopStill,
     PopWhile, While, IfPending, Read, Crash
<1>11. ASSUME PopWin(t) PROVE Heap
  <2>1. PICK v \in {0, m.i} :
          /\ pc[t] \in {"popClear", "popWin"} /\ UNCHANGED <<head, next>>
          /\ winner' = [winner EXCEPT ![m.h.oh] = Exchange(winner[m.h.oh], m.h.ow, v)]
    BY <1>11 DEF PopWin, m
  <2>2. v \in Marks
    BY <1>5, <2>1 DEF LocalsOK, HelpPop
  <2> QED BY <1>2, <1>5, <2>1, <2>2
<1>12. ASSUME \/ FinishHead(t) \/ FinishWinner(t) \/ FinishState(t)
              \/ SameHead(t) \/ SameWinner(t) \/ SameState(t)
       PROVE  Heap
  BY <1>1, <1>12 DEF FinishHead, FinishWinner, FinishState, SameHead, SameWinner, SameState,
     Return, Again, Read, Crash
<1>13. ASSUME PushStays(t) \/ PopNext(t) \/ PopStays(t) \/ PushFinish(t) \/ PopFinish(t) PROVE Heap
  BY <1>1, <1>13 DEF PushStays, PopNext, PopStays, PushFinish, PopFinish, Return, Read, Crash
<1>14. ASSUME PushMark(t) \/ PushUnmark(t) PROVE Heap
  <2>1. \/ Crash("nullHead")
        \/ /\ UNCHANGED <<head, next>>
           /\ \/ winner' = [winner EXCEPT ![m.f.oh] = Exchange(winner[m.f.oh], m.f.tid, m.f.minus)]
              \/ winner' = [winner EXCEPT ![m.f.oh] = Exchange(winner[m.f.oh], m.f.minus, 0)]
    BY <1>14 DEF PushMark, PushUnmark, m
  <2> QED BY <1>1, <1>2, <1>5, <2>1 DEF Crash
<1>15. ASSUME PushLink(t) PROVE Heap
  BY <1>1, <1>4, <1>5, <1>15 DEF PushLink, Crash, m
<1>16. ASSUME PushSwing(t) \/ PopSwing(t) PROVE Heap
  BY <1>3, <1>5, <1>16 DEF PushSwing, PopSwing, m
<1> QED BY ONLY Help(t) \/ Finish(t), <1>6, <1>7, <1>8, <1>9, <1>10, <1>11, <1>12, <1>13, <1>14,
        <1>15, <1>16
        DEF Help, Finish, Heap

\* Helping calls nothing.
LEMMA HelpCallsNothing ==
  ASSUME NEW t \in Threads, Help(t) \/ Finish(t)
  PROVE  UNCHANGED <<pushes, pops, destroyed>>
<1> DEFINE Ok == UNCHANGED <<pushes, pops, destroyed>>
<1>1. ASSUME UNCHANGED bookkeeping PROVE Ok
  BY <1>1 DEF bookkeeping
<1> HIDE DEF Ok
<1>2. ASSUME Scan(t) \/ Dispatch(t) PROVE Ok
  BY <1>1, <1>2 DEF Scan, Dispatch, Read
<1>3. ASSUME \/ PushHead(t) \/ PushState(t) \/ PushCheck(t) \/ PushPending(t) \/ PushSame(t)
             \/ PushFirst(t) \/ FirstLoad(t) \/ FirstDone(t)
             \/ PushWinner(t) \/ PushRecheck(t) \/ PushStill(t) \/ PushWin(t) \/ PushWhile(t)
      PROVE  Ok
  BY <1>1, <1>3 DEF PushHead, PushState, PushCheck, PushPending, PushSame, PushFirst, FirstLoad,
     FirstDone, PushWinner, PushRecheck, PushStill, PushWin, PushWhile, While, IfPending, Read
<1>4. ASSUME \/ PopHead(t) \/ PopState(t) \/ PopEmpty(t)
             \/ PopCheck(t) \/ PopStill(t) \/ PopWin(t) \/ PopWhile(t)
      PROVE  Ok
  BY <1>1, <1>4 DEF PopHead, PopState, PopEmpty, PopCheck, PopStill, PopWin, PopWhile, While,
     IfPending, Read
<1>5. ASSUME PopNothing(t) \/ PopWinner(t) \/ PushFinish(t) \/ PopFinish(t) PROVE Ok
  BY <1>5 DEF PopNothing, PopWinner, PushFinish, PopFinish, Read, Crash, bookkeeping, Ok
<1>6. ASSUME \/ FinishHead(t) \/ FinishWinner(t) \/ FinishState(t)
             \/ SameHead(t) \/ SameWinner(t) \/ SameState(t)
      PROVE  Ok
  BY <1>6 DEF FinishHead, FinishWinner, FinishState, SameHead, SameWinner, SameState,
     Return, Again, Read, Crash, bookkeeping, Ok
<1>7. ASSUME \/ PushStays(t) \/ PushMark(t) \/ PushLink(t) \/ PushSwing(t) \/ PushUnmark(t)
             \/ PopNext(t) \/ PopStays(t) \/ PopSwing(t)
      PROVE  Ok
  BY <1>7 DEF PushStays, PushMark, PushLink, PushSwing, PushUnmark, PopNext, PopStays,
     PopSwing, Return, Read, Crash, bookkeeping, Ok
<1> QED BY ONLY Help(t) \/ Finish(t), <1>2, <1>3, <1>4, <1>5, <1>6, <1>7 DEF Help, Finish, Ok

-------------------------------------------------------------------------------
(* What a thread has seen of the slots stays true.                         *)

\* The slots have gone on from s to s2, the one of t without a new operation.
GoOn(t, s, s2) ==
  /\ s \in [Threads -> Descriptors] /\ s2 \in [Threads -> Descriptors]
  /\ \A v \in Threads : s2[v] = s[v] \/ After(s[v], s2[v])
  /\ s2[t].phase = s[t].phase /\ (s2[t].pending => s[t].pending)

LEMMA AfterAfter ==
  ASSUME NEW a \in Descriptors, NEW b \in Descriptors, NEW c \in Descriptors
  PROVE  (After(a, b) /\ After(b, c) => After(a, c)) /\ ~After(a, a)
BY DEF After, Descriptors

LEMMA FollowsIsAfter ==
  ASSUME NEW a \in Descriptors, NEW b \in Descriptors, Follows(a, b)
  PROVE  (b = a \/ After(a, b)) /\ b.phase = a.phase /\ (b.pending => a.pending)
BY DEF Follows, After, Descriptors

LEMMA SeenStays ==
  ASSUME NEW t \in Threads, NEW p, NEW m \in Locals, NEW s, NEW s2,
         SlotsSeen(t, p, m, s), GoOn(t, s, s2)
  PROVE  SlotsSeen(t, p, m, s2)
<1>1. s2[t].phase = s[t].phase /\ (s2[t].pending => s[t].pending)
  BY DEF GoOn
<1>2. ASSUME NEW d \in m.ahead, d.tid \in Threads
      PROVE  /\ After(d, s[d.tid]) => After(d, s2[d.tid])
             /\ d = s[d.tid] => d = s2[d.tid] \/ After(d, s2[d.tid])
  <2>1. d \in Descriptors /\ s[d.tid] \in Descriptors /\ s2[d.tid] \in Descriptors
    BY <1>2 DEF Locals, GoOn
  <2>2. s2[d.tid] = s[d.tid] \/ After(s[d.tid], s2[d.tid])
    BY <1>2 DEF GoOn
  <2> QED BY <2>1, <2>2, AfterAfter
<1>3. p \notin Before =>
        \A d \in m.ahead : d.tid \in Threads /\ (d = s[d.tid] \/ After(d, s[d.tid]))
  BY DEF SlotsSeen
<1>4. "scan" \notin Before /\ (HelpDone(p, m) => p \notin Before)
  BY DEF HelpDone, Before, Ends, Finishing, FinishPush, FinishPop
<1> QED BY <1>1, <1>2, <1>3, <1>4 DEF SlotsSeen

LEMMA SeenOnward ==
  ASSUME NEW t \in Threads, NEW p, NEW m, NEW q, NEW x, NEW s,
         SlotsSeen(t, p, m, s), Onward(p, m, q, x)
  PROVE  SlotsSeen(t, q, x, s)
<1>1. /\ x.phase = m.phase /\ x.ahead = m.ahead /\ q \notin Before /\ p \notin Before
      /\ q = "scan" => x.i = 1
      /\ HelpDone(q, x) => HelpDone(p, m)
  BY DEF Onward, Same
<1>2. \A d \in m.ahead : d.tid \in Threads
  BY <1>1 DEF SlotsSeen
<1>3. ~(t < 1) /\ \A v \in Threads : ~(v < 1)
  BY StackAssumption DEF Threads
<1>4. q \notin {"loadPhase", "readPhase", "loadOld", "announce"}
  BY <1>1 DEF Before
<1> QED BY <1>1, <1>2, <1>3, <1>4 DEF SlotsSeen

-------------------------------------------------------------------------------
(* The steps.                                                              *)

\* A step of thread t, seen from outside.
LEMMA Typed ==
  ASSUME TypeInv, NEW t \in Threads,
         (\E q, x : LocalsOK(q, x) /\ Moves(t, q, x)) \/ UNCHANGED <<pc, me>>,
         head' \in Links, next' \in [Nodes -> Links], winner' \in [Nodes -> Marks],
         states' \in [Threads -> Descriptors], \A u \in Threads : states'[u].tid = u,
         pushes' \in Links
  PROVE  TypeInv'
<1>1. DOMAIN pc' = Threads /\ DOMAIN me' = Threads
  BY DEF TypeInv, Moves
<1>2. ASSUME NEW u \in Threads PROVE LocalsOK(pc'[u], me'[u])
  <2>1. LocalsOK(pc[u], me[u])
    BY DEF TypeInv
  <2> QED BY <2>1 DEF Moves
<1> QED BY <1>1, <1>2 DEF TypeInv

LEMMA Seen ==
  ASSUME TypeInv, HelpInv, NEW t \in Threads,
         \/ \E q, x : SlotsSeen(t, q, x, states) /\ LocalsOK(q, x) /\ Moves(t, q, x)
         \/ UNCHANGED <<pc, me>>,
         \A u \in Threads : GoOn(u, states, states')
  PROVE  HelpInv'
<1>1. ASSUME NEW u \in Threads PROVE SlotsSeen(u, pc'[u], me'[u], states')
  <2>1. SlotsSeen(u, pc[u], me[u], states) /\ me[u] \in Locals
    BY DEF HelpInv, TypeInv, LocalsOK
  <2>2. SlotsSeen(u, pc'[u], me'[u], states) /\ me'[u] \in Locals
    BY <2>1 DEF Moves, LocalsOK
  <2> QED BY <2>2, SeenStays
<1> QED BY <1>1 DEF HelpInv

\* A step of help() or finish() that does not look for a slot.
LEMMA OnwardStep ==
  ASSUME TypeInv, HelpInv, NEW t \in Threads, Help(t) \/ Finish(t),
         (\E q, x : Onward(pc[t], me[t], q, x) /\ Moves(t, q, x)) \/ UNCHANGED <<pc, me>>
  PROVE  TypeInv' /\ HelpInv'
<1>1. /\ states' \in [Threads -> Descriptors] /\ \A u \in Threads : states'[u].tid = u
      /\ \A u \in Threads : Follows(states[u], states'[u])
      /\ states \in [Threads -> Descriptors]
  BY HelpWritesSlots DEF TypeInv
<1>2. pushes' \in Links
  BY HelpCallsNothing DEF TypeInv
<1>3. SlotsSeen(t, pc[t], me[t], states)
  BY DEF HelpInv
<1>4. \/ \E q, x : SlotsSeen(t, q, x, states) /\ LocalsOK(q, x) /\ Moves(t, q, x)
      \/ UNCHANGED <<pc, me>>
  <2>1. ASSUME NEW q, NEW x, Onward(pc[t], me[t], q, x)
        PROVE  SlotsSeen(t, q, x, states) /\ LocalsOK(q, x)
    BY <1>3, <2>1, SeenOnward DEF Onward
  <2> QED BY <2>1
<1>5. ASSUME NEW u \in Threads PROVE GoOn(u, states, states')
  <2>1. \A v \in Threads : states[v] \in Descriptors /\ states'[v] \in Descriptors
    BY <1>1
  <2>2. \A v \in Threads : states'[v] = states[v] \/ After(states[v], states'[v])
    BY <1>1, <2>1, FollowsIsAfter
  <2>3. states'[u].phase = states[u].phase /\ (states'[u].pending => states[u].pending)
    BY <1>1, <2>1, FollowsIsAfter
  <2> QED BY <1>1, <2>2, <2>3 DEF GoOn
<1>6. TypeInv'
  BY <1>1, <1>2, <1>4, HeapTyped, Typed
<1>7. HelpInv'
  BY <1>4, <1>5, Seen
<1> QED BY <1>6, <1>7

\* scan() passes over a slot without an operation to help.
LEMMA ScanStep ==
  ASSUME TypeInv, HelpInv, NEW t \in Threads, Scan(t)
  PROVE  TypeInv' /\ HelpInv'
<1> DEFINE m == me[t]
           Goal == TypeInv' /\ HelpInv'
<1>1. /\ LocalsOK("scan", m) /\ m \in Locals /\ m.i \in 0..N+1 /\ m.i # 0 /\ m.less \in Int
      /\ pc[t] = "scan" /\ UNCHANGED <<heap, states, bookkeeping>>
      /\ m.f \in FinishLocals /\ m.phase \in Nat /\ m.ahead \subseteq Descriptors
  <2>1. pc[t] = "scan" /\ UNCHANGED <<heap, states, bookkeeping>>
    BY DEF Scan, At, Read
  <2>2. LocalsOK("scan", m) /\ m \in Locals
    BY <2>1, HasLocals
  <2> QED BY <2>1, <2>2 DEF LocalsOK, Locals
<1>2. SlotsSeen(t, "scan", m, states) /\ states \in [Threads -> Descriptors]
  BY <1>1 DEF HelpInv, TypeInv
<1>3. SlotsSeen(t, "scan", m, states) <=>
        /\ states[t].phase = m.phase
        /\ \A d \in m.ahead : d.tid \in Threads /\ d.pending /\ d.phase <= m.phase
                              /\ (d = states[d.tid] \/ After(d, states[d.tid]))
        /\ m.less = m.phase =>
             /\ t < m.i => ~states[t].pending
             /\ \A d \in m.ahead : d.tid < m.i => After(d, states[d.tid])
  BY DEF SlotsSeen, Before, HelpDone, Ends, Finishing, FinishPush, FinishPop
<1>4. ASSUME NEW q, NEW x, pc' = [pc EXCEPT ![t] = q], me' = [me EXCEPT ![t] = x],
             LocalsOK(q, x), SlotsSeen(t, q, x, states)
      PROVE  Goal
  <2>1. Moves(t, q, x)
    BY <1>4 DEF Moves, TypeInv
  <2>2. \A u \in Threads : GoOn(u, states, states')
    BY <1>1, <1>2 DEF GoOn
  <2>3. HelpInv'
    BY <1>4, <2>1, <2>2, Seen
  <2>4. /\ head' \in Links /\ next' \in [Nodes -> Links] /\ winner' \in [Nodes -> Marks]
        /\ states' \in [Threads -> Descriptors] /\ (\A u \in Threads : states'[u].tid = u)
        /\ pushes' \in Links
    BY <1>1 DEF TypeInv, heap, bookkeeping
  <2> QED BY <1>4, <2>1, <2>3, <2>4, Typed
<1>5. t \in 1..N /\ N \in Nat
  BY StackAssumption DEF Threads
<1>6. Scan(t) <=>
        /\ At(t, "scan")
        /\ \/ /\ m.i \in Threads
              /\ IF Pending(m.i, m.less) THEN Read(t, "dispatch", m)
                 ELSE Read(t, "scan", [m EXCEPT !.i = @ + 1])
           \/ /\ m.i > N /\ m.less < m.phase
              /\ Read(t, "scan", [m EXCEPT !.i = 1, !.less = m.phase])
           \/ /\ m.i > N /\ m.less = m.phase
              /\ Read(t, "finish",
                      [m EXCEPT !.i = 0, !.f.back = IF m.kind = "push" THEN "pushNext" ELSE "popAssert"])
  BY DEF Scan
<1> HIDE DEF Goal, m
<1>7. ASSUME m.i \in Threads, Pending(m.i, m.less), Read(t, "dispatch", m) PROVE Goal
  <2>1. LocalsOK("dispatch", m)
    BY <1>1, <1>7 DEF LocalsOK, Places, HelpPush, HelpPop, Finishing, FinishPush, FinishPop, Before, Ends
  <2>2. SlotsSeen(t, "dispatch", m, states)
    BY <1>2, <1>3 DEF SlotsSeen, Before, HelpDone, Ends, Finishing, FinishPush, FinishPop
  <2> QED BY <1>4, <1>7, <2>1, <2>2 DEF Read, Goto, Keep
<1>8. ASSUME m.i \in Threads, ~Pending(m.i, m.less), Read(t, "scan", [m EXCEPT !.i = @ + 1]) PROVE Goal
  <2> DEFINE x == [m EXCEPT !.i = @ + 1]
  <2>1. m.i \in 1..N /\ m.i + 1 \in 0..N+1 /\ m.i + 1 # 0
    BY <1>5, <1>8 DEF Threads
  <2>2. x \in Locals /\ Same(m, x) /\ x.i = m.i + 1 /\ x.h = m.h /\ x.f = m.f
    BY <1>1, <2>1 DEF Locals, Same
  <2>3. Goto(t, "scan") /\ Keep(t, x)
    BY <1>8 DEF Read
  <2> HIDE DEF x
  <2>4. LocalsOK("scan", x)
    BY <1>1, <2>1, <2>2 DEF LocalsOK, Same, Places, HelpPush, HelpPop, Finishing, FinishPush, FinishPop,
       Before, Ends
  <2>5. ASSUME m.less = m.phase
        PROVE  /\ t < m.i + 1 => ~states[t].pending
               /\ \A d \in m.ahead : d.tid < m.i + 1 => After(d, states[d.tid])
    <3>1. t < m.i + 1 => t < m.i \/ t = m.i
      BY <1>5, <2>1
    <3>2. states[t].phase <= m.phase
      BY <1>1, <1>2, <1>3
    <3>3. t = m.i => ~states[t].pending
      BY <1>8, <2>5, <3>2 DEF Pending
    <3>4. ASSUME NEW d \in m.ahead, d.tid < m.i + 1 PROVE After(d, states[d.tid])
      <4>1. /\ d.tid \in 1..N /\ d.pending /\ d.phase <= m.phase
            /\ d = states[d.tid] \/ After(d, states[d.tid])
        BY <1>2, <1>3 DEF Threads
      <4>2. d.tid < m.i \/ d.tid = m.i
        BY <2>1, <3>4, <4>1
      <4>3. CASE d.tid = m.i
        BY <1>8, <2>5, <4>1, <4>3 DEF Pending
      <4> QED BY <1>2, <1>3, <2>5, <4>2, <4>3
    <3> QED BY <1>2, <1>3, <2>5, <3>1, <3>3, <3>4
  <2>6. SlotsSeen(t, "scan", x, states)
    BY <1>2, <1>3, <2>2, <2>5 DEF SlotsSeen, Same, Before, HelpDone, Ends, Finishing, FinishPush, FinishPop
  <2> QED BY <1>4, <2>3, <2>4, <2>6 DEF Goto, Keep
<1>9. ASSUME m.less < m.phase, Read(t, "scan", [m EXCEPT !.i = 1, !.less = m.phase]) PROVE Goal
  <2> DEFINE x == [m EXCEPT !.i = 1, !.less = m.phase]
  <2>1. 1 \in 0..N+1 /\ m.phase \in Int
    BY <1>1, <1>5
  <2>2. /\ x \in Locals /\ x.i = 1 /\ x.h = m.h /\ x.f = m.f /\ x.kind = m.kind /\ x.phase = m.phase
        /\ x.node = m.node /\ x.ahead = m.ahead
    BY <1>1, <2>1 DEF Locals
  <2>3. Goto(t, "scan") /\ Keep(t, x)
    BY <1>9 DEF Read
  <2> HIDE DEF x
  <2>4. LocalsOK("scan", x)
    BY <1>1, <2>2 DEF LocalsOK, Places, HelpPush, HelpPop, Finishing, FinishPush, FinishPop,
       Before, Ends
  <2>5. ~(t < 1) /\ \A d \in m.ahead : ~(d.tid < 1)
    BY <1>2, <1>3, <1>5 DEF Threads
  <2>6. SlotsSeen(t, "scan", x, states)
    BY <1>2, <1>3, <2>2, <2>5 DEF SlotsSeen, Before, HelpDone, Ends, Finishing, FinishPush, FinishPop
  <2> QED BY <1>4, <2>3, <2>4, <2>6 DEF Goto, Keep
<1>10. ASSUME m.i > N, m.less = m.phase, NEW b \in {"pushNext", "popAssert"},
              b = "pushNext" => m.kind = "push",
              Read(t, "finish", [m EXCEPT !.i = 0, !.f.back = b])
       PROVE  Goal
  <2> DEFINE f == [m.f EXCEPT !.back = b]
             x == [m EXCEPT !.i = 0, !.f = f]
  <2>1. f \in FinishLocals /\ f.back = b /\ 0 \in 0..N+1
    BY <1>1, <1>5 DEF FinishLocals
  <2>2. Goto(t, "finish") /\ Keep(t, x)
    BY <1>10 DEF Read
  <2> HIDE DEF f
  <2>3. /\ x \in Locals /\ x.h = m.h /\ x.f = f /\ x.kind = m.kind /\ x.phase = m.phase
        /\ x.node = m.node /\ x.ahead = m.ahead
    BY <1>1, <2>1 DEF Locals
  <2> HIDE DEF x
  <2>4. LocalsOK("finish", x)
    BY <1>1, <1>10, <2>1, <2>3 DEF LocalsOK, Places, HelpPush, HelpPop, Finishing, FinishPush, FinishPop,
       Before, Ends
  <2>5. t < m.i /\ \A d \in m.ahead : d.tid < m.i
    BY <1>1, <1>2, <1>3, <1>5, <1>10 DEF Threads
  <2>6. SlotsSeen(t, "finish", x, states)
    BY <1>2, <1>3, <1>10, <2>3, <2>5 DEF SlotsSeen, Before
  <2> QED BY <1>4, <2>2, <2>4, <2>6 DEF Goto, Keep
<1> QED BY <1>6, <1>7, <1>8, <1>9, <1>10 DEF Goal

LEMMA DispatchStep ==
  ASSUME TypeInv, HelpInv, NEW t \in Threads, Dispatch(t)
  PROVE  TypeInv' /\ HelpInv'
<1>1. PICK q \in {"pushHead", "popHead"} :
        pc[t] = "dispatch" /\ pc' = [pc EXCEPT ![t] = q] /\ me' = [me EXCEPT ![t] = me[t]]
  BY DEF Dispatch, At, Read, Goto, Keep
<1>2. LocalsOK("dispatch", me[t])
  BY <1>1, HasLocals
<1>3. LocalsOK(q, me[t]) /\ q \notin Before \cup {"scan", "dispatch"} /\ ~HelpDone(q, me[t]) /\ pc[t] \notin Before
  BY <1>1, <1>2 DEF LocalsOK, HelpDone, Places, HelpPush, HelpPop, Finishing, FinishPush, FinishPop,
     Before, Ends
<1>4. \E x : Onward(pc[t], me[t], q, x) /\ Moves(t, q, x)
  BY <1>1, <1>3, StaysAt DEF ForPush
<1>5. Help(t)
  BY DEF Help
<1> QED BY <1>4, <1>5, OnwardStep

\* A step that changes no slot.
LEMMA ReadStep ==
  ASSUME TypeInv, HelpInv, NEW t \in Threads, NEW q, NEW x,
         Goto(t, q), Keep(t, x), LocalsOK(q, x), SlotsSeen(t, q, x, states),
         UNCHANGED <<head, next, states>>, winner' \in [Nodes -> Marks], pushes' \in Links
  PROVE  TypeInv' /\ HelpInv'
<1>1. Moves(t, q, x)
  BY DEF Goto, Keep, Moves, TypeInv
<1>2. states \in [Threads -> Descriptors]
  BY DEF TypeInv
<1>3. \A u \in Threads : GoOn(u, states, states')
  BY <1>2 DEF GoOn
<1>4. HelpInv'
  BY <1>1, <1>3, Seen
<1>5. /\ head' \in Links /\ next' \in [Nodes -> Links]
      /\ states' \in [Threads -> Descriptors] /\ (\A u \in Threads : states'[u].tid = u)
  BY DEF TypeInv
<1> QED BY <1>1, <1>4, <1>5, Typed

\* What has been seen before the announcement.
LEMMA SeenBefore ==
  ASSUME NEW t \in Threads, NEW p \in Before, NEW m, NEW s
  PROVE  SlotsSeen(t, p, m, s) <=>
           /\ ~s[t].pending
           /\ p \in {"loadPhase", "readPhase"} /\ t < m.i => s[t].phase <= m.phase
           /\ p \in {"loadOld", "announce"} => s[t].phase < m.phase
BY DEF SlotsSeen, Before, HelpDone, Ends, Finishing, FinishPush, FinishPop

\* A call begins.
LEMMA BeginStep ==
  ASSUME TypeInv, HelpInv, NEW t \in Threads, CallPush(t) \/ CallPop(t)
  PROVE  TypeInv' /\ HelpInv'
<1>1. ASSUME NEW kind \in {"push", "pop"}, NEW node \in Links, Begin(t, kind, node),
             kind = "push" => node \in Nodes, pushes' \in Links
      PROVE  TypeInv' /\ HelpInv'
  <2> DEFINE x == [Idle EXCEPT !.kind = kind, !.node = node, !.i = 1, !.guarded = GuardedCall(kind)]
  <2>1. /\ pc[t] = "idle" /\ Goto(t, "loadPhase") /\ Keep(t, x)
        /\ UNCHANGED <<head, next, winner, states>>
    BY <1>1 DEF Begin, At, heap
  <2>2. GuardedCall(kind) \in BOOLEAN /\ 1 \in 0..N+1 /\ 1 \in Threads
    BY StackAssumption DEF GuardedCall, Threads
  <2>3. x \in Locals /\ x.kind = kind /\ x.node = node /\ x.i = 1
    <3> DEFINE y == [Idle EXCEPT !.kind = kind, !.node = node, !.i = 1]
    <3>1. y \in Locals /\ y.kind = kind /\ y.node = node /\ y.i = 1
      BY <2>2, FreshLocals DEF Locals
    <3>2. x = [y EXCEPT !.guarded = GuardedCall(kind)]
      OBVIOUS
    <3> HIDE DEF x, y
    <3> QED BY <2>2, <3>1, <3>2 DEF Locals
  <2> HIDE DEF x
  <2>4. LocalsOK("loadPhase", x)
    BY <1>1, <2>2, <2>3 DEF LocalsOK, Places, HelpPush, HelpPop, Finishing, FinishPush, FinishPop,
       Before, Ends
  <2>5. ~states[t].pending
    BY <2>1, SeenBefore DEF HelpInv, Before
  <2>6. SlotsSeen(t, "loadPhase", x, states)
    <3>1. ~(t < 1)
      BY StackAssumption DEF Threads
    <3> QED BY <2>3, <2>5, <3>1, SeenBefore DEF Before
  <2> QED BY <1>1, <2>1, <2>4, <2>6, ReadStep DEF TypeInv
<1>2. CASE CallPush(t)
  <2>1. Begin(t, "push", pushes + 1) /\ pushes' = pushes + 1 /\ pushes < MaxPush
    BY <1>2 DEF CallPush
  <2>2. pushes + 1 \in Nodes /\ pushes + 1 \in Links
    BY <2>1, StackAssumption DEF TypeInv, Nodes, Links
  <2> QED BY <1>1, <2>1, <2>2
<1>3. CASE CallPop(t)
  BY <1>1, <1>3, SharedTypes DEF CallPop, TypeInv
<1> QED BY <1>2, <1>3

\* The phases of all slots are read.
LEMMA PhaseStep ==
  ASSUME TypeInv, HelpInv, NEW t \in Threads, LoadPhase(t) \/ ReadPhase(t) \/ LoadOld(t)
  PROVE  TypeInv' /\ HelpInv'
<1> DEFINE m == me[t]
           Goal == TypeInv' /\ HelpInv'
<1>1. /\ LocalsOK(pc[t], m) /\ m \in Locals /\ m.h \in HelpLocals /\ m.phase \in Nat
      /\ m.h.os \in Descriptors
  BY HasLocals DEF Locals
<1>2. SlotsSeen(t, pc[t], m, states)
  BY DEF HelpInv
<1>3. /\ \A u \in Threads : states[u] \in Descriptors
      /\ \A d \in Descriptors : d.phase \in Nat
  BY SharedTypes DEF Descriptors
<1>4. ASSUME NEW q, NEW x, Read(t, q, x), LocalsOK(q, x), SlotsSeen(t, q, x, states)
      PROVE  Goal
  <2>1. /\ Goto(t, q) /\ Keep(t, x) /\ UNCHANGED <<head, next, states>>
        /\ winner' \in [Nodes -> Marks] /\ pushes' \in Links
    BY <1>4 DEF Read, heap, bookkeeping, TypeInv
  <2> QED BY <1>4, <2>1, ReadStep
<1>5. t \in 1..N /\ N \in Nat
  BY StackAssumption DEF Threads
<1> USE DEF Places, HelpPush, HelpPop, Finishing, FinishPush, FinishPop, Before, Ends
<1>6. CASE LoadPhase(t)
  <2> DEFINE h == [m.h EXCEPT !.os = states[m.i]]
  <2>1. pc[t] = "loadPhase" /\ Read(t, "readPhase", SetHelp(m, h))
    BY <1>6 DEF LoadPhase, At, SetHelp
  <2>2. m.i \in Threads
    BY <1>1, <2>1 DEF LocalsOK
  <2>3. h \in HelpLocals
    BY <1>1, <1>3, <2>2 DEF HelpLocals
  <2> DEFINE x == SetHelp(m, h)
  <2>4. x \in Locals /\ Same(m, x) /\ x.i = m.i /\ x.h = h /\ x.f = m.f
    BY <1>1, <2>3, SetLocals
  <2> HIDE DEF h, x, m
  <2>5. LocalsOK("readPhase", x)
    BY <1>1, <2>1, <2>2, <2>4 DEF LocalsOK, Same
  <2>6. SlotsSeen(t, "readPhase", x, states)
    BY <1>2, <2>1, <2>4, SeenBefore DEF Same
  <2> QED BY <1>4, <2>1, <2>5, <2>6 DEF x
<1>7. CASE ReadPhase(t)
  <2> DEFINE n == SetHelp(m, NoHelp)
             seen == m.h.os
             max == IF n.phase < seen.phase THEN seen.phase ELSE n.phase
  <2>1. /\ pc[t] = "readPhase"
        /\ IF seen # states[n.i] THEN Read(t, "loadPhase", n)
           ELSE IF n.i < N THEN Read(t, "loadPhase", [n EXCEPT !.phase = max, !.i = @ + 1])
           ELSE Read(t, "loadOld", [n EXCEPT !.phase = PhaseAfter(max), !.guarded = TRUE, !.i = 0])
    BY <1>7 DEF ReadPhase, At, SetHelp
  <2>2. n \in Locals /\ Same(m, n) /\ n.i = m.i /\ n.h = NoHelp /\ n.f = m.f
    BY <1>1, FreshLocals, SetLocals
  <2>3. m.i \in Threads /\ m.i \in 1..N
    BY <1>1, <2>1 DEF LocalsOK, Threads
  <2>4. ~states[t].pending /\ (t < m.i => states[t].phase <= m.phase)
    BY <1>2, <2>1, SeenBefore
  <2>5. LocalsOK("loadPhase", n)
    <3> HIDE DEF n, m
    <3> QED BY <1>1, <2>1, <2>2, <2>3 DEF LocalsOK, Same
  <2>6. n.phase = m.phase /\ seen.phase \in Nat /\ max \in Nat /\ m.phase <= max /\ seen.phase <= max
    BY <1>1, <1>3, <2>2 DEF Same
  <2> HIDE DEF n, max
  <2>7. CASE seen # states[n.i]
    <3>1. SlotsSeen(t, "loadPhase", n, states)
      BY <2>2, <2>4, <2>6, SeenBefore
    <3> QED BY <1>4, <2>1, <2>5, <2>7, <3>1
  <2>8. ASSUME seen = states[n.i], NEW j \in 0..N+1, t < m.i + 1 PROVE states[t].phase <= max
    <3>1. t < m.i \/ t = m.i
      BY <1>5, <2>3, <2>8
    <3>2. t < m.i => states[t].phase <= max
      BY <1>1, <1>3, <2>4, <2>6
    <3> QED BY <2>2, <2>6, <2>8, <3>1, <3>2
  <2>9. CASE seen = states[n.i] /\ n.i < N
    <3> DEFINE x == [n EXCEPT !.phase = max, !.i = @ + 1]
    <3>1. m.i + 1 \in 0..N+1 /\ m.i + 1 \in Threads
      BY <1>5, <2>2, <2>3, <2>9 DEF Threads
    <3>2. /\ x \in Locals /\ x.phase = max /\ x.i = m.i + 1 /\ x.kind = n.kind /\ x.node = n.node
          /\ x.h = n.h /\ x.f = n.f
      BY <2>2, <2>6, <3>1 DEF Locals
    <3> HIDE DEF x
    <3>3. LocalsOK("loadPhase", x)
      BY <2>5, <3>1, <3>2 DEF LocalsOK
    <3>4. SlotsSeen(t, "loadPhase", x, states)
      BY <2>4, <2>8, <2>9, <3>1, <3>2, SeenBefore
    <3> QED BY <1>4, <2>1, <2>9, <3>3, <3>4 DEF x
  <2>10. CASE seen = states[n.i] /\ ~(n.i < N)
    <3> DEFINE x == [n EXCEPT !.phase = PhaseAfter(max), !.guarded = TRUE, !.i = 0]
    <3>1. PhaseAfter(max) \in Nat /\ 0 \in 0..N+1 /\ TRUE \in BOOLEAN
      BY <1>5, <2>6 DEF PhaseAfter
    <3>2. /\ x \in Locals /\ x.phase = PhaseAfter(max) /\ x.kind = n.kind /\ x.node = n.node
          /\ x.h = n.h /\ x.f = n.f
      BY <2>2, <3>1 DEF Locals
    <3> HIDE DEF x
    <3>3. LocalsOK("loadOld", x)
      BY <2>5, <3>2 DEF LocalsOK
    <3>4. states[t].phase <= max
      BY <1>5, <2>2, <2>3, <2>8, <2>10, <3>1
    <3>5. states[t].phase < x.phase
      BY <1>3, <2>6, <3>2, <3>4 DEF PhaseAfter
    <3>6. SlotsSeen(t, "loadOld", x, states)
      BY <2>4, <3>5, SeenBefore
    <3> QED BY <1>4, <2>1, <2>10, <3>3, <3>6 DEF x
  <2> QED BY <2>7, <2>9, <2>10
<1>8. CASE LoadOld(t)
  <2> DEFINE x == [m EXCEPT !.old = states[t]]
  <2>1. pc[t] = "loadOld" /\ Read(t, "announce", x)
    BY <1>8 DEF LoadOld, At
  <2>2. /\ x \in Locals /\ x.phase = m.phase /\ x.kind = m.kind /\ x.node = m.node
        /\ x.h = m.h /\ x.f = m.f /\ x.i = m.i
    BY <1>1, <1>3 DEF Locals
  <2> HIDE DEF x, m
  <2>3. LocalsOK("announce", x)
    BY <1>1, <2>1, <2>2 DEF LocalsOK
  <2>4. SlotsSeen(t, "announce", x, states)
    BY <1>2, <2>1, <2>2, SeenBefore
  <2> QED BY <1>4, <2>1, <2>3, <2>4
<1> QED BY <1>6, <1>7, <1>8

\* A thread announces its operation, later than all it has seen.
LEMMA AnnounceStep ==
  ASSUME TypeInv, HelpInv, NEW t \in Threads, Announce(t)
  PROVE  TypeInv' /\ HelpInv'
<1> DEFINE m == me[t]
           d == Descriptor(t, m.phase, TRUE, m.kind = "push", m.node, 0)
           seen == {states[u] : u \in {v \in Threads : Pending(v, m.phase)}}
           x == [m EXCEPT !.ahead = seen,
                          !.less = IF m.kind = "push" THEN m.phase ELSE m.phase - 1, !.i = 1]
<1>1. /\ pc[t] = "announce"
      /\ \/ Crash("somethingWrong")
         \/ /\ states' = [states EXCEPT ![t] = d] /\ Goto(t, "scan") /\ Keep(t, x)
            /\ UNCHANGED <<heap, bookkeeping>>
  BY DEF Announce, At
<1>2. /\ LocalsOK("announce", m) /\ m \in Locals /\ m.phase \in Nat /\ m.node \in Links
      /\ states \in [Threads -> Descriptors] /\ \A u \in Threads : states[u].tid = u
      /\ t \in 0..N /\ 1 \in 0..N+1 /\ N \in Nat
  <2>1. LocalsOK("announce", m) /\ m \in Locals
    BY <1>1, HasLocals
  <2> QED BY <2>1, StackAssumption DEF Locals, TypeInv, Threads
<1>3. ~states[t].pending /\ states[t].phase < m.phase
  BY <1>1, SeenBefore DEF HelpInv, Before
<1>4. CASE Crash("somethingWrong")
  <2>1. UNCHANGED <<heap, states, pc, me, pushes>>
    BY <1>4 DEF Crash
  <2>2. TypeInv'
    BY <2>1 DEF TypeInv, heap
  <2>3. HelpInv'
    BY <2>1 DEF HelpInv
  <2> QED BY <2>2, <2>3
<1>5. CASE /\ states' = [states EXCEPT ![t] = d] /\ Goto(t, "scan") /\ Keep(t, x)
           /\ UNCHANGED <<heap, bookkeeping>>
  <2>1. /\ d \in Descriptors /\ d.tid = t /\ d.phase = m.phase
        /\ After(states[t], d)
    <3>1. (m.kind = "push") \in BOOLEAN /\ TRUE \in BOOLEAN
      OBVIOUS
    <3>2. d \in Descriptors
      BY <1>2, <3>1 DEF Descriptor, Descriptors
    <3>3. d.tid = t /\ d.phase = m.phase
      BY DEF Descriptor
    <3> QED BY <1>3, <3>2, <3>3 DEF After
  <2> HIDE DEF d
  <2>2. seen \subseteq Descriptors
    BY <1>2
  <2>3. \A e \in seen : /\ e.tid \in Threads \ {t} /\ e = states[e.tid]
                        /\ e.pending /\ e.phase <= m.phase
    BY <1>2, <1>3 DEF Pending
  <2> HIDE DEF seen
  <2>4. (IF m.kind = "push" THEN m.phase ELSE m.phase - 1) \in Int
    BY <1>2
  <2>5. /\ x \in Locals /\ x.i = 1 /\ x.h = m.h /\ x.f = m.f /\ x.kind = m.kind
        /\ x.phase = m.phase /\ x.node = m.node /\ x.ahead = seen
    BY <1>2, <2>2, <2>4 DEF Locals
  <2> HIDE DEF x
  <2>6. LocalsOK("scan", x)
    BY <1>2, <2>5 DEF LocalsOK, Places, HelpPush, HelpPop, Finishing, FinishPush, FinishPop,
       Before, Ends
  <2>7. Moves(t, "scan", x)
    BY <1>5 DEF Goto, Keep, Moves, TypeInv
  <2>8. states'[t] = d /\ \A u \in Threads \ {t} : states'[u] = states[u]
    BY <1>2, <1>5
  <2>9. states' \in [Threads -> Descriptors] /\ \A u \in Threads : states'[u].tid = u
    BY <1>2, <1>5, <2>1, <2>8
  <2>10. /\ head' \in Links /\ next' \in [Nodes -> Links] /\ winner' \in [Nodes -> Marks]
         /\ pushes' \in Links
    BY <1>5 DEF TypeInv, heap, bookkeeping
  <2>11. TypeInv'
    BY <2>6, <2>7, <2>9, <2>10, Typed
  <2>12. SlotsSeen(t, "scan", x, states')
    <3>1. states'[t].phase = x.phase
      BY <2>1, <2>5, <2>8
    <3>2. \A e \in x.ahead : e.tid \in Threads /\ e.pending /\ e.phase <= x.phase /\ e = states'[e.tid]
      BY <2>3, <2>5, <2>8
    <3>3. ~(t < 1) /\ \A u \in Threads : ~(u < 1)
      BY DEF Threads
    <3> QED BY <2>5, <3>1, <3>2, <3>3 DEF SlotsSeen, Before, HelpDone, Ends, Finishing, FinishPush, FinishPop
  <2>13. ASSUME NEW u \in Threads \ {t} PROVE SlotsSeen(u, pc'[u], me'[u], states')
    <3>1. GoOn(u, states, states')
      BY <1>2, <2>1, <2>8, <2>9 DEF GoOn
    <3>2. SlotsSeen(u, pc[u], me[u], states) /\ me[u] \in Locals
      BY DEF HelpInv, TypeInv, LocalsOK
    <3> QED BY <2>7, <3>1, <3>2, SeenStays DEF Moves
  <2>14. HelpInv'
    BY <2>7, <2>12, <2>13 DEF HelpInv, Moves
  <2> QED BY <2>11, <2>14
<1> QED BY <1>1, <1>4, <1>5

\* An operation that has been helped is finished still when it returns.
LEMMA EndStep ==
  ASSUME TypeInv, HelpInv, NEW t \in Threads,
         PushNext(t) \/ PushClear(t) \/ PopAssert(t) \/ PopReturn(t)
  PROVE  TypeInv' /\ HelpInv'
<1> DEFINE m == me[t]
           Goal == TypeInv' /\ HelpInv'
<1>1. /\ pc[t] \in Ends /\ LocalsOK(pc[t], m) /\ m \in Locals /\ m.f \in FinishLocals
      /\ winner \in [Nodes -> Marks] /\ 0 \in Marks /\ pushes \in Links
      /\ SlotsSeen(t, pc[t], m, states)
  BY HasLocals, StackAssumption DEF PushNext, PushClear, PopAssert, PopReturn, At, Ends, TypeInv,
     HelpInv, Marks
<1>2. SlotsSeen(t, pc[t], m, states) => ~states[t].pending
  BY <1>1 DEF SlotsSeen, HelpDone
<1>3. ASSUME NEW objects, Leave(t, objects), winner' \in [Nodes -> Marks] PROVE Goal
  <2>1. LocalsOK("idle", Idle)
    BY FreshLocals DEF LocalsOK, Idle, Places, HelpPush, HelpPop, Finishing, FinishPush, FinishPop,
       Before, Ends
  <2>2. SlotsSeen(t, "idle", Idle, states)
    BY <1>1, <1>2, SeenBefore DEF Before
  <2> QED BY <1>1, <1>3, <2>1, <2>2, ReadStep DEF Leave
<1>4. ASSUME NEW q \in Ends, NEW x, Same(m, x), LocalsOK(q, x), Read(t, q, x) PROVE Goal
  <2>1. SlotsSeen(t, q, x, states)
    BY <1>1, <1>4 DEF SlotsSeen, Same, HelpDone, Before, Ends, Finishing, FinishPush, FinishPop
  <2>2. /\ Goto(t, q) /\ Keep(t, x) /\ UNCHANGED <<head, next, states>>
        /\ winner' \in [Nodes -> Marks] /\ pushes' \in Links
    BY <1>1, <1>4 DEF Read, heap, bookkeeping
  <2> QED BY <1>4, <2>1, <2>2, ReadStep
<1>5. CASE PushNext(t)
  <2> DEFINE nx == next[m.node]
             f == [m.f EXCEPT !.nx = nx]
             x == SetFinish(m, f)
  <2>1. /\ pc[t] = "pushNext"
        /\ \/ Leave(t, {StateOf(m.old)}) /\ UNCHANGED winner
           \/ nx # NULL /\ Read(t, "pushClear", x)
    BY <1>5 DEF PushNext, At, SetFinish
  <2>2. m.kind = "push" /\ m.node \in Nodes
    BY <1>1, <2>1 DEF LocalsOK
  <2>3. nx \in Links /\ (nx # NULL => nx \in Nodes)
    BY <2>2, SharedTypes
  <2> HIDE DEF nx
  <2>4. f \in FinishLocals /\ f.nx = nx
    BY <1>1, <2>3 DEF FinishLocals
  <2>5. x \in Locals /\ Same(m, x) /\ x.i = m.i /\ x.h = m.h /\ x.f = f
    BY <1>1, <2>4, SetLocals
  <2> HIDE DEF f, x
  <2>6. nx # NULL => LocalsOK("pushClear", x)
    BY <1>1, <2>2, <2>3, <2>4, <2>5 DEF LocalsOK, Same, Places, HelpPush, HelpPop, Finishing, FinishPush,
       FinishPop, Before, Ends
  <2> QED BY <1>1, <1>3, <1>4, <2>1, <2>5, <2>6 DEF Ends
<1>6. CASE PushClear(t)
  <2>1. /\ winner' = [winner EXCEPT ![m.f.nx] = Exchange(winner[m.f.nx], t, 0)]
        /\ Leave(t, {StateOf(m.old)})
    BY <1>6 DEF PushClear
  <2>2. winner' \in [Nodes -> Marks]
    BY <1>1, <2>1 DEF Exchange
  <2> QED BY <1>3, <2>1, <2>2
<1>7. CASE PopAssert(t)
  <2>1. pc[t] = "popAssert" /\ Read(t, "popReturn", m)
    BY <1>1, <1>2, <1>7 DEF PopAssert, At
  <2>2. LocalsOK("popReturn", m) /\ Same(m, m)
    BY <1>1, <2>1 DEF Same, LocalsOK, Places, HelpPush, HelpPop, Finishing, FinishPush,
       FinishPop, Before, Ends
  <2> QED BY <1>4, <2>1, <2>2 DEF Ends
<1>8. CASE PopReturn(t)
  BY <1>1, <1>3, <1>8 DEF PopReturn
<1> QED BY <1>5, <1>6, <1>7, <1>8

\* ~Stack() and steps outside the stack leave all this alone.
LEMMA StillHolds ==
  ASSUME TypeInv, HelpInv, Destroy \/ UNCHANGED vars
  PROVE  TypeInv' /\ HelpInv'
<1>1. UNCHANGED <<head, next, winner, states, pc, me, pushes>>
  BY DEF Destroy, vars, heap, bookkeeping
<1>2. TypeInv'
  BY <1>1 DEF TypeInv
<1>3. HelpInv'
  BY <1>1 DEF HelpInv
<1> QED BY <1>2, <1>3

LEMMA HelpInit == Init => TypeInv /\ HelpInv
<1> SUFFICES ASSUME Init PROVE TypeInv /\ HelpInv
  OBVIOUS
<1>1. LocalsOK("idle", Idle)
  BY FreshLocals DEF LocalsOK, Idle, Places, HelpPush, HelpPop, Finishing, FinishPush, FinishPop,
     Before, Ends
<1>2. 0 \in Links /\ 0 \in Marks /\ \A t \in Threads : t \in 0..N
  BY StackAssumption DEF Links, Marks, Threads
<1>3. ASSUME NEW t \in Threads
      PROVE  /\ states[t] = Descriptor(t, 0, FALSE, FALSE, NULL, 0)
             /\ states[t].tid = t /\ ~states[t].pending /\ states[t] \in Descriptors
  <2>1. states[t] = Descriptor(t, 0, FALSE, FALSE, NULL, 0) /\ FALSE \in BOOLEAN
    BY DEF Init
  <2> QED BY <1>2, <2>1 DEF Descriptor, Descriptors, NULL
<1>4. states \in [Threads -> Descriptors]
  BY <1>3 DEF Init
<1>5. TypeInv
  BY <1>1, <1>2, <1>3, <1>4 DEF Init, TypeInv, NULL
<1>6. HelpInv
  BY <1>3, SeenBefore DEF HelpInv, Init, Before
<1> QED BY <1>5, <1>6

LEMMA HelpStep == TypeInv /\ HelpInv /\ [Next]_vars => TypeInv' /\ HelpInv'
<1> SUFFICES ASSUME TypeInv, HelpInv, [Next]_vars PROVE TypeInv' /\ HelpInv'
  OBVIOUS
<1> DEFINE Goal == TypeInv' /\ HelpInv'
<1> HIDE DEF Goal
<1>1. ASSUME NEW t \in Threads, CallPush(t) \/ CallPop(t) PROVE Goal
  BY <1>1, BeginStep DEF Goal
<1>2. ASSUME NEW t \in Threads, LoadPhase(t) \/ ReadPhase(t) \/ LoadOld(t) PROVE Goal
  BY <1>2, PhaseStep DEF Goal
<1>3. ASSUME NEW t \in Threads, Announce(t) PROVE Goal
  BY <1>3, AnnounceStep DEF Goal
<1>4. ASSUME NEW t \in Threads, Scan(t) \/ Dispatch(t) PROVE Goal
  BY <1>4, ScanStep, DispatchStep DEF Goal
<1>5. ASSUME NEW t \in Threads,
             \/ PushHead(t) \/ PushState(t) \/ PushCheck(t) \/ PushPending(t) \/ PushSame(t)
             \/ PushFirst(t) \/ FirstLoad(t) \/ FirstDone(t)
             \/ PushWinner(t) \/ PushRecheck(t) \/ PushStill(t) \/ PushWin(t) \/ PushWhile(t)
      PROVE  Goal
  <2>1. Help(t)
    BY ONLY <1>5 DEF Help
  <2> QED BY <1>5, <2>1, HelpPushMoves, OnwardStep DEF Goal
<1>6. ASSUME NEW t \in Threads,
             \/ PopHead(t) \/ PopState(t) \/ PopEmpty(t) \/ PopNothing(t) \/ PopWinner(t)
             \/ PopCheck(t) \/ PopStill(t) \/ PopWin(t) \/ PopWhile(t)
      PROVE  Goal
  <2>1. Help(t)
    BY ONLY <1>6 DEF Help
  <2> QED BY <1>6, <2>1, HelpPopMoves, OnwardStep DEF Goal
<1>7. ASSUME NEW t \in Threads, Finish(t) PROVE Goal
  BY <1>7, FinishMoves, OnwardStep DEF Goal
<1>8. ASSUME NEW t \in Threads, PushNext(t) \/ PushClear(t) \/ PopAssert(t) \/ PopReturn(t)
      PROVE  Goal
  BY <1>8, EndStep DEF Goal
<1>9. ASSUME Destroy \/ UNCHANGED vars PROVE Goal
  BY <1>9, StillHolds DEF Goal
<1>10. Goal
  BY ONLY [Next]_vars, <1>1, <1>2, <1>3, <1>4, <1>5, <1>6, <1>7, <1>8, <1>9 DEF Next, Step, Help
<1> QED BY <1>10 DEF Goal

LEMMA HelpInvHolds == Spec => [](TypeInv /\ HelpInv)
  BY HelpInit, HelpStep, PTL DEF Spec

\* A thread that has come to the end of push() or pop() has seen the operations
\* announced before its own done, and its own, whoever helped whom and whatever
\* operations overlap.
THEOREM EarlierAlwaysDone == Spec => []EarlierOpsDone
<1>1. TypeInv /\ HelpInv => EarlierOpsDone
  <2> SUFFICES ASSUME TypeInv, HelpInv, NEW t \in Threads, pc[t] \in Ends
               PROVE  ~states[t].pending /\ \A d \in me[t].ahead : states[d.tid] # d
    BY DEF EarlierOpsDone, Ends
  <2>1. SlotsSeen(t, pc[t], me[t], states) /\ HelpDone(pc[t], me[t])
    BY DEF HelpInv, HelpDone
  <2>2. ASSUME NEW d \in me[t].ahead PROVE states[d.tid] # d
    <3>1. d \in Descriptors /\ After(d, states[d.tid])
      BY <2>1, HasLocals DEF SlotsSeen, Locals
    <3> QED BY <3>1, AfterAfter
  <2> QED BY <2>1, <2>2 DEF SlotsSeen
<1> QED BY <1>1, HelpInvHolds, PTL

-------------------------------------------------------------------------------
(* The assertions.                                                         *)

\* Helping fails none of them.
LEMMA HelpCrashes ==
  ASSUME NEW t \in Threads, Help(t) \/ Finish(t)
  PROVE  crashed' \in {crashed, "nullHead", "nullNode", "negativeIndex", "freedTwice"}
<1> DEFINE Ok == crashed' \in {crashed, "nullHead", "nullNode", "negativeIndex", "freedTwice"}
<1>1. ASSUME UNCHANGED bookkeeping PROVE Ok
  BY <1>1 DEF bookkeeping
<1>2. ASSUME Crash("nullHead") \/ Crash("nullNode") \/ Crash("negativeIndex") PROVE Ok
  BY <1>2 DEF Crash
<1>3. ASSUME NEW v, NEW d, NEW e, Replace(v, d, e) PROVE Ok
  BY <1>3 DEF Replace, Retire
<1> HIDE DEF Ok
<1>4. ASSUME Scan(t) \/ Dispatch(t) PROVE Ok
  BY <1>1, <1>4 DEF Scan, Dispatch, Read
<1>5. ASSUME \/ PushHead(t) \/ PushState(t) \/ PushCheck(t) \/ PushPending(t) \/ PushSame(t)
             \/ PushFirst(t) \/ FirstLoad(t) \/ FirstDone(t)
             \/ PushWinner(t) \/ PushRecheck(t) \/ PushStill(t) \/ PushWin(t) \/ PushWhile(t)
      PROVE  Ok
  BY <1>1, <1>5 DEF PushHead, PushState, PushCheck, PushPending, PushSame, PushFirst, FirstLoad,
     FirstDone, PushWinner, PushRecheck, PushStill, PushWin, PushWhile, While, IfPending, Read
<1>6. ASSUME \/ PopHead(t) \/ PopState(t) \/ PopEmpty(t) \/ PopWinner(t)
             \/ PopCheck(t) \/ PopStill(t) \/ PopWin(t) \/ PopWhile(t)
      PROVE  Ok
  BY <1>1, <1>2, <1>6 DEF PopHead, PopState, PopEmpty, PopWinner, PopCheck, PopStill, PopWin, PopWhile,
     While, IfPending, Read
<1>7. ASSUME PopNothing(t) \/ PushFinish(t) \/ PopFinish(t) PROVE Ok
  BY <1>2, <1>3, <1>7 DEF PopNothing, PushFinish, PopFinish
<1>8. ASSUME \/ FinishHead(t) \/ FinishWinner(t) \/ FinishState(t)
             \/ SameHead(t) \/ SameWinner(t) \/ SameState(t)
      PROVE  Ok
  BY <1>1, <1>2, <1>8 DEF FinishHead, FinishWinner, FinishState, SameHead, SameWinner, SameState,
     Return, Again, Read
<1>9. ASSUME \/ PushStays(t) \/ PushMark(t) \/ PushLink(t) \/ PushSwing(t) \/ PushUnmark(t)
             \/ PopNext(t) \/ PopStays(t) \/ PopSwing(t)
      PROVE  Ok
  BY <1>1, <1>2, <1>9 DEF PushStays, PushMark, PushLink, PushSwing, PushUnmark, PopNext, PopStays,
     PopSwing, Return, Read
<1> QED BY ONLY Help(t) \/ Finish(t), <1>4, <1>5, <1>6, <1>7, <1>8, <1>9 DEF Help, Finish, Ok

\* What the other steps may crash with.
LEMMA CrashReasons ==
  ASSUME TypeInv, HelpInv, [Next]_vars
  PROVE  \/ crashed' \in {crashed, "nullHead", "nullNode", "negativeIndex", "freedTwice"}
         \/ /\ crashed' = "somethingWrong"
            /\ \E t \in Threads : pc[t] = "announce" /\ me[t].kind = "push" /\ states[t] # me[t].old
<1> DEFINE Ok == crashed' \in {crashed, "nullHead", "nullNode", "negativeIndex", "freedTwice"}
           Wrong == /\ crashed' = "somethingWrong"
                    /\ \E t \in Threads :
                         pc[t] = "announce" /\ me[t].kind = "push" /\ states[t] # me[t].old
<1>1. ASSUME NEW t \in Threads, CallPush(t) \/ CallPop(t) PROVE Ok
  BY <1>1 DEF CallPush, CallPop, Begin
<1>2. ASSUME NEW t \in Threads, LoadPhase(t) \/ ReadPhase(t) \/ LoadOld(t) PROVE Ok
  BY <1>2 DEF LoadPhase, ReadPhase, LoadOld, Read, bookkeeping
<1>3. ASSUME NEW t \in Threads, Announce(t) PROVE Ok \/ Wrong
  BY <1>3 DEF Announce, At, Crash, bookkeeping
<1>4. ASSUME NEW t \in Threads, Help(t) \/ Finish(t) PROVE Ok
  BY <1>4, HelpCrashes
<1>5. ASSUME NEW t \in Threads, PushNext(t) \/ PushClear(t) \/ PopReturn(t) PROVE Ok
  BY <1>5 DEF PushNext, PushClear, PopReturn, Leave, Retire, Read, bookkeeping
<1>6. ASSUME NEW t \in Threads, PopAssert(t) PROVE Ok
  <2>1. pc[t] = "popAssert"
    BY <1>6 DEF PopAssert, At
  <2>2. ~states[t].pending
    BY <2>1 DEF HelpInv, SlotsSeen, HelpDone, Ends
  <2> QED BY <1>6, <2>2 DEF PopAssert, Read, bookkeeping
<1>7. ASSUME Destroy \/ UNCHANGED vars PROVE Ok
  BY <1>7 DEF Destroy, Retire, vars, bookkeeping
<1> HIDE DEF Ok, Wrong
<1>8. Ok \/ Wrong
  BY ONLY [Next]_vars, <1>1, <1>2, <1>3, <1>4, <1>5, <1>6, <1>7 DEF Next, Step
<1> QED BY <1>8 DEF Ok, Wrong

\* pop() asserts that its operation is not pending any more when help() has come
\* back: that never fails, whatever operations overlap (stack.hpp:293).
THEOREM PopAssertHolds == Spec => [](crashed # "stillPending")
<1>1. Init => crashed # "stillPending"
  BY DEF Init
<1>2. TypeInv /\ HelpInv /\ crashed # "stillPending" /\ [Next]_vars => (crashed # "stillPending")'
  BY CrashReasons
<1> QED BY <1>1, <1>2, HelpInvHolds, PTL DEF Spec

-------------------------------------------------------------------------------
(* Operations that do not meet pushes.                                     *)

MeetsPush(kind) == {kind, "push"} \subseteq Overlap

\* Operations that overlap are of kinds that may.
ApartInv ==
  \A t, u \in Threads :
    t # u /\ me[t].kind # "none" /\ me[u].kind = "push" => MeetsPush(me[t].kind)

\* A pop that meets no push helps none.
KindInv ==
  /\ \A t \in Threads : states[t].pending /\ states[t].push => me[t].kind = "push"
  /\ \A t \in Threads : me[t].kind = "pop" /\ ~MeetsPush("pop") =>
       /\ ~ForPush(pc[t], me[t])
       /\ pc[t] = "dispatch" => ~states[me[t].i].push

\* A helper of a pop that has found the stack empty finishes a pending operation.
EmptyInv ==
  \A t \in Threads :
    /\ pc[t] \in {"popEmpty", "popNothing"} =>
         me[t].h.os = states[me[t].i] \/ After(me[t].h.os, states[me[t].i])
    /\ pc[t] = "popNothing" /\ me[t].h.os = states[me[t].i] => me[t].h.os.pending

\* Nobody touches the slot between the load and the announcement.
OldInv ==
  \A t \in Threads :
    pc[t] = "announce" /\ ~MeetsPush(me[t].kind) => states[t] = me[t].old

MeetInv == ApartInv /\ KindInv /\ EmptyInv /\ OldInv

\* A helper that replaces a descriptor retires it, unless it is in FirstDone; the
\* one it replaces is pending, and it makes no push of a pop.
LEMMA SlotReplaced ==
  ASSUME TypeInv, EmptyInv, NEW t \in Threads, Help(t) \/ Finish(t), NEW v \in Threads,
         states'[v] # states[v]
  PROVE  \/ At(t, "firstDone") /\ me[t].i = v
         \/ /\ StateOf(states[v]) \in DOMAIN grace'
            /\ states[v].pending /\ (states'[v].push => states[v].push)
<1> DEFINE m == me[t]
           Goal == \/ At(t, "firstDone") /\ m.i = v
                   \/ /\ StateOf(states[v]) \in DOMAIN grace'
                      /\ states[v].pending /\ (states'[v].push => states[v].push)
<1>1. ASSUME UNCHANGED states PROVE Goal
  BY <1>1
<1>2. /\ LocalsOK(pc[t], m) /\ m.h.os \in Descriptors /\ m.f.os \in Descriptors
      /\ states \in [Threads -> Descriptors]
  BY HasLocals DEF TypeInv
<1>3. ASSUME NEW w, NEW d \in Descriptors, NEW push \in BOOLEAN, NEW node,
             Replace(w, d, Finished(d, push, node)), states[w] = d => d.pending, push => d.push
      PROVE  Goal
  <2>1. \/ states' = states
        \/ /\ states[w] = d /\ states' = [states EXCEPT ![w] = Finished(d, push, node)]
           /\ StateOf(d) \in DOMAIN grace'
    BY <1>3 DEF Replace, Retire
  <2>2. CASE states' = states
    BY <2>2
  <2>3. CASE /\ states[w] = d /\ states' = [states EXCEPT ![w] = Finished(d, push, node)]
             /\ StateOf(d) \in DOMAIN grace'
    <3>1. v = w
      BY <1>2, <2>3
    <3>2. states'[v] = Finished(d, push, node) /\ states[v] = d
      BY <1>2, <2>3, <3>1
    <3>3. Finished(d, push, node).push = push
      BY DEF Finished, Descriptors
    <3> QED BY <1>3, <2>3, <3>2, <3>3
  <2> QED BY <2>1, <2>2, <2>3
<1> HIDE DEF Goal, m
<1>4. ASSUME Scan(t) \/ Dispatch(t) PROVE Goal
  BY <1>1, <1>4 DEF Scan, Dispatch, Read
<1>5. ASSUME \/ PushHead(t) \/ PushState(t) \/ PushCheck(t) \/ PushPending(t) \/ PushSame(t)
             \/ PushFirst(t) \/ FirstLoad(t)
             \/ PushWinner(t) \/ PushRecheck(t) \/ PushStill(t) \/ PushWin(t) \/ PushWhile(t)
      PROVE  Goal
  BY <1>1, <1>5 DEF PushHead, PushState, PushCheck, PushPending, PushSame, PushFirst, FirstLoad,
     PushWinner, PushRecheck, PushStill, PushWin, PushWhile, While, IfPending, Read
<1>6. ASSUME FirstDone(t) PROVE Goal
  <2> DEFINE e == Exchange(states[m.i], m.h.os, Finished(m.h.os, TRUE, m.h.os.node))
  <2>1. At(t, "firstDone") /\ states' = [states EXCEPT ![m.i] = e]
    BY <1>6 DEF FirstDone, m
  <2> HIDE DEF e
  <2>2. m.i = v
    BY <1>2, <2>1
  <2> QED BY <2>1, <2>2 DEF Goal
<1>7. ASSUME \/ PopHead(t) \/ PopState(t) \/ PopEmpty(t) \/ PopWinner(t)
             \/ PopCheck(t) \/ PopStill(t) \/ PopWin(t) \/ PopWhile(t)
      PROVE  Goal
  BY <1>1, <1>7 DEF PopHead, PopState, PopEmpty, PopWinner, PopCheck, PopStill, PopWin, PopWhile,
     While, IfPending, Read, Crash
<1>8. ASSUME PopNothing(t) PROVE Goal
  <2>1. pc[t] = "popNothing" /\ Replace(m.i, m.h.os, Finished(m.h.os, FALSE, NULL))
    BY <1>8 DEF PopNothing, At, m
  <2>2. states[m.i] = m.h.os => m.h.os.pending
    BY <2>1 DEF EmptyInv, m
  <2> QED BY <1>2, <1>3, <2>1, <2>2
<1>9. ASSUME \/ FinishHead(t) \/ FinishWinner(t) \/ FinishState(t)
             \/ SameHead(t) \/ SameWinner(t) \/ SameState(t)
      PROVE  Goal
  BY <1>1, <1>9 DEF FinishHead, FinishWinner, FinishState, SameHead, SameWinner, SameState,
     Return, Again, Read, Crash
<1>10. ASSUME \/ PushStays(t) \/ PushMark(t) \/ PushLink(t) \/ PushSwing(t) \/ PushUnmark(t)
              \/ PopNext(t) \/ PopStays(t) \/ PopSwing(t)
       PROVE  Goal
  BY <1>1, <1>10 DEF PushStays, PushMark, PushLink, PushSwing, PushUnmark, PopNext, PopStays,
     PopSwing, Return, Read, Crash
<1>11. ASSUME PushFinish(t) PROVE Goal
  <2>1. /\ pc[t] = "pushFinish"
        /\ \/ Crash("negativeIndex")
           \/ Replace(m.f.tid, m.f.os, Finished(m.f.os, TRUE, m.f.nx))
    BY <1>11 DEF PushFinish, At, m
  <2>2. m.f.os.push /\ m.f.os.pending
    BY <1>2, <2>1 DEF LocalsOK
  <2> QED BY <1>1, <1>2, <1>3, <2>1, <2>2 DEF Crash
<1>12. ASSUME PopFinish(t) PROVE Goal
  <2>1. pc[t] = "popFinish" /\ Replace(m.f.tid, m.f.os, Finished(m.f.os, FALSE, m.f.oh))
    BY <1>12 DEF PopFinish, At, m
  <2>2. m.f.os.pending
    BY <1>2, <2>1 DEF LocalsOK
  <2> QED BY <1>2, <1>3, <2>1, <2>2
<1> QED BY ONLY Help(t) \/ Finish(t), <1>4, <1>5, <1>6, <1>7, <1>8, <1>9, <1>10, <1>11, <1>12
        DEF Help, Finish, Goal, m

\* Only two steps lead to where a helper has found the stack empty.
LEMMA ToEmpty ==
  ASSUME TypeInv, NEW t \in Threads, Help(t) \/ Finish(t), pc'[t] \in {"popEmpty", "popNothing"}
  PROVE  PopState(t) \/ PopEmpty(t) \/ UNCHANGED <<pc, me>>
<1> DEFINE Ok == UNCHANGED <<pc, me>>
<1>1. ASSUME NEW q, Goto(t, q), q \notin {"popEmpty", "popNothing"} PROVE Ok
  BY <1>1 DEF Goto, TypeInv
<1>2. me[t].f.back \notin {"popEmpty", "popNothing"}
  BY HasLocals DEF FinishLocals
<1>3. ASSUME NEW reason, Crash(reason) PROVE Ok
  BY <1>3 DEF Crash
<1> HIDE DEF Ok
<1>4. ASSUME Scan(t) \/ Dispatch(t) PROVE Ok
  BY <1>1, <1>4 DEF Scan, Dispatch, Read
<1>5. ASSUME \/ PushHead(t) \/ PushState(t) \/ PushCheck(t) \/ PushPending(t) \/ PushSame(t)
             \/ PushFirst(t) \/ FirstLoad(t) \/ FirstDone(t)
             \/ PushWinner(t) \/ PushRecheck(t) \/ PushStill(t) \/ PushWin(t) \/ PushWhile(t)
      PROVE  Ok
  BY <1>1, <1>5 DEF PushHead, PushState, PushCheck, PushPending, PushSame, PushFirst, FirstLoad,
     FirstDone, PushWinner, PushRecheck, PushStill, PushWin, PushWhile, While, IfPending, Read
<1>6. ASSUME \/ PopHead(t) \/ PopNothing(t) \/ PopWinner(t)
             \/ PopCheck(t) \/ PopStill(t) \/ PopWin(t) \/ PopWhile(t)
      PROVE  Ok
  BY <1>1, <1>3, <1>6 DEF PopHead, PopNothing, PopWinner, PopCheck, PopStill, PopWin, PopWhile,
     While, IfPending, Read
<1>7. ASSUME \/ FinishHead(t) \/ FinishWinner(t) \/ FinishState(t)
             \/ SameHead(t) \/ SameWinner(t) \/ SameState(t)
      PROVE  Ok
  BY <1>1, <1>2, <1>3, <1>7 DEF FinishHead, FinishWinner, FinishState, SameHead, SameWinner, SameState,
     Return, Again, Read
<1>8. ASSUME \/ PushStays(t) \/ PushMark(t) \/ PushFinish(t) \/ PushLink(t) \/ PushSwing(t)
             \/ PushUnmark(t) \/ PopNext(t) \/ PopStays(t) \/ PopFinish(t) \/ PopSwing(t)
      PROVE  Ok
  BY <1>1, <1>2, <1>3, <1>8 DEF PushStays, PushMark, PushFinish, PushLink, PushSwing, PushUnmark,
     PopNext, PopStays, PopFinish, PopSwing, Return, Read
<1> QED BY ONLY Help(t) \/ Finish(t), <1>4, <1>5, <1>6, <1>7, <1>8 DEF Help, Finish, Ok

\* What a step of help() or finish() does to the locals of its thread.
LEMMA HelpGoesOn ==
  ASSUME TypeInv, NEW t \in Threads, Help(t) \/ Finish(t)
  PROVE  \/ UNCHANGED <<pc, me>>
         \/ \E q, x :
              /\ Moves(t, q, x) /\ pc[t] \notin Before /\ q \notin Before
              /\ x.kind = me[t].kind /\ x.old = me[t].old /\ x.node = me[t].node
              /\ ForPush(q, x) => ForPush(pc[t], me[t]) \/ (pc[t] = "dispatch" /\ states[me[t].i].push)
              /\ q = "dispatch" =>
                   x = me[t] /\ x.i \in Threads /\ states[x.i].pending /\ states' = states
<1> DEFINE m == me[t]
           Goal == \/ UNCHANGED <<pc, me>>
                   \/ \E q, x :
                        /\ Moves(t, q, x) /\ pc[t] \notin Before /\ q \notin Before
                        /\ x.kind = m.kind /\ x.old = m.old /\ x.node = m.node
                        /\ ForPush(q, x) => ForPush(pc[t], m) \/ (pc[t] = "dispatch" /\ states[m.i].push)
                        /\ q = "dispatch" =>
                             x = m /\ x.i \in Threads /\ states[x.i].pending /\ states' = states
<1>1. ASSUME (\E q, x : Onward(pc[t], m, q, x) /\ Moves(t, q, x)) \/ UNCHANGED <<pc, me>>,
             pc[t] # "dispatch"
      PROVE  Goal
  BY <1>1 DEF Onward, Same
<1>2. m \in Locals /\ m.f \in FinishLocals
  BY HasLocals
<1>3. ASSUME NEW q, NEW x, Read(t, q, x) PROVE Moves(t, q, x) /\ states' = states
  BY <1>3 DEF Read, Goto, Keep, Moves, TypeInv
<1> HIDE DEF Goal, m
<1>4. ASSUME Scan(t) PROVE Goal
  <2>1. /\ pc[t] = "scan"
        /\ \/ m.i \in Threads /\ Pending(m.i, m.less) /\ Read(t, "dispatch", m)
           \/ Read(t, "scan", [m EXCEPT !.i = @ + 1])
           \/ Read(t, "scan", [m EXCEPT !.i = 1, !.less = m.phase])
           \/ \E b \in {"pushNext", "popAssert"} : Read(t, "finish", [m EXCEPT !.i = 0, !.f.back = b])
    BY <1>4 DEF Scan, At, m
  <2>2. ASSUME NEW q \in {"scan", "finish"}, NEW x, Read(t, q, x), x.kind = m.kind, x.old = m.old /\ x.node = m.node,
               q = "finish" => x.f.back # "pushWhile"
        PROVE  Goal
    <3>1. ~ForPush(q, x) /\ pc[t] \notin Before /\ q \notin Before
      BY <2>1, <2>2 DEF ForPush, HelpPush, Before, Finishing, FinishPush, FinishPop
    <3> QED BY <1>3, <2>2, <3>1 DEF Goal
  <2>3. CASE m.i \in Threads /\ Pending(m.i, m.less) /\ Read(t, "dispatch", m)
    <3>1. ~ForPush("dispatch", m) /\ pc[t] \notin Before /\ "dispatch" \notin Before
      BY <2>1 DEF ForPush, HelpPush, Before, Finishing, FinishPush, FinishPop
    <3>2. states[m.i].pending
      BY <2>3 DEF Pending
    <3> QED BY <1>3, <2>3, <3>1, <3>2 DEF Goal
  <2>4. CASE Read(t, "scan", [m EXCEPT !.i = @ + 1])
    <3>1. LET x == [m EXCEPT !.i = @ + 1] IN x.kind = m.kind /\ x.old = m.old /\ x.node = m.node
      BY <1>2 DEF Locals
    <3> QED BY <2>2, <2>4, <3>1
  <2>5. CASE Read(t, "scan", [m EXCEPT !.i = 1, !.less = m.phase])
    <3>1. LET x == [m EXCEPT !.i = 1, !.less = m.phase] IN x.kind = m.kind /\ x.old = m.old /\ x.node = m.node
      BY <1>2 DEF Locals
    <3> QED BY <2>2, <2>5, <3>1
  <2>6. ASSUME NEW b \in {"pushNext", "popAssert"}, Read(t, "finish", [m EXCEPT !.i = 0, !.f.back = b])
        PROVE  Goal
    <3>1. LET x == [m EXCEPT !.i = 0, !.f.back = b] IN
          x.kind = m.kind /\ x.old = m.old /\ x.node = m.node /\ x.f.back = b
      BY <1>2 DEF Locals, FinishLocals
    <3> QED BY <2>2, <2>6, <3>1
  <2> QED BY <2>1, <2>3, <2>4, <2>5, <2>6
<1>5. ASSUME Dispatch(t) PROVE Goal
  <2>1. PICK q \in {"pushHead", "popHead"} :
          pc[t] = "dispatch" /\ Read(t, q, m) /\ (q = "pushHead" => states[m.i].push)
    BY <1>5 DEF Dispatch, At, m
  <2>2. pc[t] \notin Before /\ q \notin Before /\ (ForPush(q, m) => q = "pushHead")
    BY <2>1 DEF ForPush, HelpPush, Before, Finishing, FinishPush, FinishPop
  <2> QED BY <1>3, <2>1, <2>2 DEF Goal
<1>6. ASSUME \/ PushHead(t) \/ PushState(t) \/ PushCheck(t) \/ PushPending(t) \/ PushSame(t)
             \/ PushFirst(t) \/ FirstLoad(t) \/ FirstDone(t)
             \/ PushWinner(t) \/ PushRecheck(t) \/ PushStill(t) \/ PushWin(t) \/ PushWhile(t)
      PROVE  Goal
  <2>1. pc[t] # "dispatch"
    BY <1>6 DEF PushHead, PushState, PushCheck, PushPending, PushSame, PushFirst, FirstLoad,
       FirstDone, PushWinner, PushRecheck, PushStill, PushWin, PushWhile, While, IfPending, At
  <2> QED BY <1>1, <1>6, <2>1, HelpPushMoves DEF m
<1>7. ASSUME \/ PopHead(t) \/ PopState(t) \/ PopEmpty(t) \/ PopNothing(t) \/ PopWinner(t)
             \/ PopCheck(t) \/ PopStill(t) \/ PopWin(t) \/ PopWhile(t)
      PROVE  Goal
  <2>1. pc[t] # "dispatch"
    BY <1>7 DEF PopHead, PopState, PopEmpty, PopNothing, PopWinner, PopCheck, PopStill, PopWin,
       PopWhile, While, IfPending, At
  <2> QED BY <1>1, <1>7, <2>1, HelpPopMoves DEF m
<1>8. ASSUME Finish(t) PROVE Goal
  <2>1. pc[t] # "dispatch"
    BY <1>8 DEF Finish, FinishHead, FinishWinner, FinishState, SameHead, SameWinner, SameState,
       PushStays, PushMark, PushFinish, PushLink, PushSwing, PushUnmark, PopNext, PopStays, PopFinish,
       PopSwing, At
  <2> QED BY <1>1, <1>8, <2>1, FinishMoves DEF m
<1> QED BY ONLY Help(t) \/ Finish(t), <1>4, <1>5, <1>6, <1>7, <1>8 DEF Help, Goal, m

\* What the lemmas above say of all threads and slots together.
LEMMA HelpChanges ==
  ASSUME TypeInv, NEW t \in Threads, Help(t) \/ Finish(t)
  PROVE  /\ \A u \in Threads :
              /\ me'[u].kind = me[u].kind /\ me'[u].old = me[u].old
              /\ pc'[u] = "announce" => pc[u] = "announce"
              /\ ForPush(pc'[u], me'[u]) =>
                   ForPush(pc[u], me[u]) \/ (pc[u] = "dispatch" /\ states[me[u].i].push)
              /\ pc'[u] = "dispatch" =>
                   /\ me'[u] = me[u]
                   /\ \/ pc[u] = "dispatch"
                      \/ me[u].i \in Threads /\ states[me[u].i].pending /\ states' = states
              /\ pc'[u] \in {"popEmpty", "popNothing"} =>
                   \/ pc'[u] = pc[u] /\ me'[u] = me[u]
                   \/ u = t /\ (PopState(t) \/ PopEmpty(t))
         /\ \A v \in Threads :
              \/ states'[v] = states[v]
              \/ After(states[v], states'[v]) /\ ~states'[v].pending
<1>1. \/ UNCHANGED <<pc, me>>
      \/ \E q, x :
           /\ Moves(t, q, x) /\ pc[t] \notin Before /\ q \notin Before
           /\ x.kind = me[t].kind /\ x.old = me[t].old
           /\ ForPush(q, x) => ForPush(pc[t], me[t]) \/ (pc[t] = "dispatch" /\ states[me[t].i].push)
           /\ q = "dispatch" =>
                x = me[t] /\ x.i \in Threads /\ states[x.i].pending /\ states' = states
  BY HelpGoesOn
<1>2. pc'[t] \in {"popEmpty", "popNothing"} => PopState(t) \/ PopEmpty(t) \/ UNCHANGED <<pc, me>>
  BY ToEmpty
<1>3. "announce" \in Before
  BY DEF Before
<1>4. ASSUME NEW v \in Threads
      PROVE  \/ states'[v] = states[v]
             \/ After(states[v], states'[v]) /\ ~states'[v].pending
  <2>1. Follows(states[v], states'[v]) /\ states[v] \in Descriptors
    BY HelpWritesSlots, SharedTypes
  <2> QED BY <2>1 DEF Follows, After, Descriptors
<1> QED BY <1>1, <1>2, <1>3, <1>4 DEF Moves

\* Helping keeps all of this.
LEMMA HelpMeets ==
  ASSUME TypeInv, HelpInv, MeetInv, NEW t \in Threads, Help(t) \/ Finish(t)
  PROVE  MeetInv'
<1>1. \A u \in Threads :
        /\ me'[u].kind = me[u].kind /\ me'[u].old = me[u].old
        /\ pc'[u] = "announce" => pc[u] = "announce"
        /\ ForPush(pc'[u], me'[u]) =>
             ForPush(pc[u], me[u]) \/ (pc[u] = "dispatch" /\ states[me[u].i].push)
        /\ pc'[u] = "dispatch" =>
             /\ me'[u] = me[u]
             /\ \/ pc[u] = "dispatch"
                \/ me[u].i \in Threads /\ states[me[u].i].pending /\ states' = states
        /\ pc'[u] \in {"popEmpty", "popNothing"} =>
             \/ pc'[u] = pc[u] /\ me'[u] = me[u]
             \/ u = t /\ (PopState(t) \/ PopEmpty(t))
  BY HelpChanges
<1>2. \A v \in Threads :
        \/ states'[v] = states[v]
        \/ After(states[v], states'[v]) /\ ~states'[v].pending
  BY HelpChanges
<1>3. ASSUME NEW v \in Threads, states'[v] # states[v]
      PROVE  \/ pc[t] = "firstDone"
             \/ states[v].pending /\ (states'[v].push => states[v].push)
  BY <1>3, SlotReplaced DEF MeetInv, At
<1>4. ASSUME NEW u \in Threads PROVE LocalsOK(pc[u], me[u]) /\ me[u].kind \in {"none", "push", "pop"}
  BY HasLocals DEF Locals
<1>5. ASSUME pc[t] = "firstDone", NEW u \in Threads \ {t}, me[u].kind # "none"
      PROVE  MeetsPush(me[u].kind)
  <2>1. ForPush(pc[t], me[t]) /\ me[t].kind # "none"
    BY <1>4, <1>5 DEF ForPush, HelpPush, LocalsOK
  <2>2. CASE me[t].kind = "push"
    BY <1>5, <2>2 DEF MeetInv, ApartInv
  <2>3. CASE me[t].kind = "pop"
    <3>1. MeetsPush("pop")
      BY <2>1, <2>3 DEF MeetInv, KindInv
    <3> QED BY <1>4, <1>5, <3>1 DEF MeetsPush
  <2> QED BY <1>4, <2>1, <2>2, <2>3
<1>6. ApartInv'
  <2>1. \A u \in Threads : me'[u].kind = me[u].kind
    BY <1>1
  <2> QED BY <2>1 DEF MeetInv, ApartInv
<1>7. KindInv'
  <2>1. ASSUME NEW u \in Threads, states'[u].pending, states'[u].push PROVE me'[u].kind = "push"
    BY <1>1, <1>2, <2>1 DEF MeetInv, KindInv
  <2>2. ASSUME NEW u \in Threads, me'[u].kind = "pop", ~MeetsPush("pop")
        PROVE  ~ForPush(pc'[u], me'[u])
    BY <1>1, <2>2 DEF MeetInv, KindInv
  <2>3. ASSUME NEW u \in Threads, me'[u].kind = "pop", ~MeetsPush("pop"), pc'[u] = "dispatch"
        PROVE  ~states'[me'[u].i].push
    <3> DEFINE v == me[u].i
    <3>1. me[u].kind = "pop" /\ me'[u] = me[u]
      BY <1>1, <2>3
    <3>2. CASE pc[u] = "dispatch"
      <4>1. ~states[v].push /\ v \in Threads
        BY <1>4, <2>3, <3>1, <3>2 DEF MeetInv, KindInv, LocalsOK
      <4>2. pc[t] # "firstDone"
        BY <1>5, <2>3, <3>1, <3>2
      <4> QED BY <1>3, <3>1, <4>1, <4>2
    <3>3. CASE v \in Threads /\ states[v].pending /\ states' = states
      <4>1. CASE states[v].push
        <5>1. me[v].kind = "push"
          BY <3>3, <4>1 DEF MeetInv, KindInv
        <5>2. MeetsPush("pop")
          BY <3>1, <3>3, <5>1 DEF MeetInv, ApartInv
        <5> QED BY <2>3, <5>2
      <4> QED BY <3>1, <3>3, <4>1
    <3> QED BY <1>1, <2>3, <3>2, <3>3
  <2> QED BY <2>1, <2>2, <2>3 DEF KindInv
<1>8. EmptyInv'
  <2> SUFFICES ASSUME NEW u \in Threads, pc'[u] \in {"popEmpty", "popNothing"}
               PROVE  LET d == me'[u].h.os
                          e == states'[me'[u].i] IN
                      (d = e \/ After(d, e)) /\ (pc'[u] = "popNothing" /\ d = e => d.pending)
    BY DEF EmptyInv
  <2>1. CASE pc'[u] = pc[u] /\ me'[u] = me[u]
    <3> DEFINE v == me[u].i
               d == me[u].h.os
    <3>1. v \in Threads /\ d \in Descriptors
      BY <1>4, <2>1, HasLocals DEF LocalsOK, HelpPop
    <3>2. (d = states[v] \/ After(d, states[v])) /\ (pc[u] = "popNothing" /\ d = states[v] => d.pending)
      BY <2>1 DEF MeetInv, EmptyInv
    <3>3. states[v] \in Descriptors /\ states'[v] \in Descriptors
      BY <3>1, SharedTypes, HelpWritesSlots DEF Help, Finish
    <3> HIDE DEF v, d
    <3>4. (d = states'[v] \/ After(d, states'[v])) /\ (d = states'[v] => states[v] = states'[v])
      BY <1>2, <3>1, <3>2, <3>3 DEF After, Descriptors
    <3> QED BY <2>1, <3>2, <3>4 DEF v, d
  <2>2. CASE u = t /\ PopState(t)
    <3> DEFINE x == [me[t] EXCEPT !.h.os = states[me[t].i]]
    <3>1. pc'[t] # "popNothing" /\ me'[t] = x /\ states' = states
      BY <2>2 DEF PopState, At, Read, Goto, Keep, TypeInv
    <3>2. x.h.os = states[x.i]
      BY HasLocals DEF Locals, HelpLocals
    <3> QED BY <2>2, <3>1, <3>2
  <2>3. CASE u = t /\ PopEmpty(t)
    <3>1. /\ pc[t] = "popEmpty" /\ me'[t] = me[t] /\ states' = states
          /\ pc'[t] = "popNothing" => states[me[t].i].pending
      BY <2>3 DEF PopEmpty, IfPending, At, Read, Goto, Keep, Pending, TypeInv
    <3>2. me[t].h.os = states[me[t].i] \/ After(me[t].h.os, states[me[t].i])
      BY <3>1 DEF MeetInv, EmptyInv
    <3> QED BY <2>3, <3>1, <3>2
  <2> QED BY <1>1, <2>1, <2>2, <2>3
<1>9. OldInv'
  <2> SUFFICES ASSUME NEW u \in Threads, pc'[u] = "announce", ~MeetsPush(me'[u].kind)
               PROVE  states'[u] = me'[u].old
    BY DEF OldInv
  <2>1. /\ pc[u] = "announce" /\ ~MeetsPush(me[u].kind) /\ me'[u].old = me[u].old
        /\ states[u] = me[u].old
    BY <1>1 DEF MeetInv, OldInv
  <2>2. ~states[u].pending /\ me[u].kind # "none"
    BY <1>4, <2>1 DEF HelpInv, SlotsSeen, Before, LocalsOK
  <2>3. pc[t] # "firstDone"
    BY <1>5, <2>1, <2>2
  <2> QED BY <1>3, <2>1, <2>2, <2>3
<1> QED BY <1>6, <1>7, <1>8, <1>9 DEF MeetInv

\* A step that changes no slot, before help() or after it.
LEMMA QuietMeets ==
  ASSUME TypeInv, MeetInv, NEW t \in Threads, NEW q, NEW x, Moves(t, q, x), states' = states,
         q \in Before \cup Ends,
         q = "announce" => x.old = states[t],
         \/ x.kind \in {"none", me[t].kind}
         \/ \A u \in Threads \ {t} :
              /\ me[u].kind # "none" /\ x.kind = "push" => MeetsPush(me[u].kind)
              /\ me[u].kind = "push" => MeetsPush(x.kind),
         x.kind = me[t].kind \/ ~states[t].pending
  PROVE  MeetInv'
<1>1. /\ pc'[t] = q /\ me'[t] = x
      /\ \A u \in Threads \ {t} : pc'[u] = pc[u] /\ me'[u] = me[u]
  BY DEF Moves
<1>2. ~ForPush(q, x) /\ q \notin {"dispatch", "popEmpty", "popNothing"}
  BY DEF ForPush, HelpPush, Before, Ends, Finishing, FinishPush, FinishPop
<1>3. ApartInv'
  BY <1>1 DEF MeetInv, ApartInv
<1>4. KindInv'
  BY <1>1, <1>2 DEF MeetInv, KindInv
<1>5. EmptyInv'
  BY <1>1, <1>2 DEF MeetInv, EmptyInv
<1>6. OldInv'
  BY <1>1 DEF MeetInv, OldInv
<1> QED BY <1>3, <1>4, <1>5, <1>6 DEF MeetInv

\* A call begins only if its kind may overlap with those of the calls that run.
LEMMA BeginMeets ==
  ASSUME TypeInv, HelpInv, MeetInv, NEW t \in Threads, CallPush(t) \/ CallPop(t)
  PROVE  MeetInv'
<1>1. ASSUME NEW kind \in {"push", "pop"}, NEW node, Begin(t, kind, node)
      PROVE  MeetInv'
  <2> DEFINE x == [Idle EXCEPT !.kind = kind, !.node = node, !.i = 1, !.guarded = GuardedCall(kind)]
  <2>1. pc[t] = "idle" /\ MayStart(kind) /\ Moves(t, "loadPhase", x) /\ states' = states
    BY <1>1 DEF Begin, At, Goto, Keep, Moves, TypeInv
  <2>2. x.kind = kind
    BY DEF Idle
  <2>3. ~states[t].pending
    BY <2>1, SeenBefore DEF HelpInv, Before
  <2>4. \A u \in Threads :
          /\ me[u].kind # "none" /\ kind = "push" => MeetsPush(me[u].kind)
          /\ me[u].kind = "push" => MeetsPush(kind)
    BY <2>1 DEF MayStart, MeetsPush
  <2> HIDE DEF x
  <2>5. "loadPhase" \in Before \cup Ends /\ "loadPhase" # "announce"
    BY DEF Before
  <2> QED BY <2>1, <2>2, <2>3, <2>4, <2>5, QuietMeets
<1> QED BY <1>1 DEF CallPush, CallPop

\* max_phase(), and the load of the descriptor to be replaced.
LEMMA PhaseMeets ==
  ASSUME TypeInv, MeetInv, NEW t \in Threads, LoadPhase(t) \/ ReadPhase(t) \/ LoadOld(t)
  PROVE  MeetInv'
<1> DEFINE m == me[t]
<1>1. m \in Locals
  BY HasLocals
<1>2. ASSUME NEW q \in {"loadPhase", "readPhase", "loadOld"}, NEW x, Read(t, q, x), x.kind = m.kind
      PROVE  MeetInv'
  <2>1. Moves(t, q, x) /\ states' = states
    BY <1>2 DEF Read, Goto, Keep, Moves, TypeInv
  <2>2. q \in Before \cup Ends /\ q # "announce"
    BY DEF Before
  <2> QED BY <1>2, <2>1, <2>2, QuietMeets
<1>3. CASE LoadPhase(t)
  <2> DEFINE x == [m EXCEPT !.h.os = states[m.i]]
  <2>1. Read(t, "readPhase", x) /\ x.kind = m.kind
    BY <1>1, <1>3 DEF LoadPhase, Locals
  <2> QED BY <1>2, <2>1
<1>4. CASE ReadPhase(t)
  <2> DEFINE n == [m EXCEPT !.h = NoHelp]
             seen == m.h.os
             max == IF n.phase < seen.phase THEN seen.phase ELSE n.phase
             y == [n EXCEPT !.phase = max, !.i = @ + 1]
             z == [n EXCEPT !.phase = PhaseAfter(max), !.guarded = TRUE, !.i = 0]
  <2>1. \/ Read(t, "loadPhase", n)
        \/ Read(t, "loadPhase", y)
        \/ Read(t, "loadOld", z)
    BY <1>4 DEF ReadPhase
  <2>2. n.kind = m.kind /\ y.kind = m.kind /\ z.kind = m.kind
    BY <1>1 DEF Locals
  <2> QED BY <1>2, <2>1, <2>2
<1>5. CASE LoadOld(t)
  <2> DEFINE x == [m EXCEPT !.old = states[t]]
  <2>1. Read(t, "announce", x) /\ x.kind = m.kind /\ x.old = states[t]
    BY <1>1, <1>5 DEF LoadOld, Locals
  <2>2. Moves(t, "announce", x) /\ states' = states
    BY <2>1 DEF Read, Goto, Keep, Moves, TypeInv
  <2> HIDE DEF x
  <2>3. "announce" \in Before \cup Ends
    BY DEF Before
  <2> QED BY <2>1, <2>2, <2>3, QuietMeets
<1> QED BY <1>3, <1>4, <1>5

\* The end of a call.
LEMMA EndMeets ==
  ASSUME TypeInv, HelpInv, MeetInv, NEW t \in Threads,
         PushNext(t) \/ PushClear(t) \/ PopAssert(t) \/ PopReturn(t)
  PROVE  MeetInv'
<1> DEFINE m == me[t]
<1>1. pc[t] \in Ends /\ m \in Locals
  BY HasLocals DEF PushNext, PushClear, PopAssert, PopReturn, At, Ends
<1>2. ~states[t].pending
  BY <1>1 DEF HelpInv, SlotsSeen, HelpDone
<1>3. ASSUME NEW objects, Leave(t, objects) PROVE MeetInv'
  <2>1. Moves(t, "idle", Idle) /\ states' = states
    BY <1>3 DEF Leave, Goto, Keep, Moves, TypeInv
  <2>2. Idle.kind = "none" /\ "idle" \in Before \cup Ends
    BY FreshLocals DEF Before
  <2> QED BY <1>2, <2>1, <2>2, QuietMeets
<1>4. ASSUME NEW q \in Ends, NEW x, Read(t, q, x), x.kind = m.kind PROVE MeetInv'
  <2>1. Moves(t, q, x) /\ states' = states
    BY <1>4 DEF Read, Goto, Keep, Moves, TypeInv
  <2>2. q \in Before \cup Ends /\ q # "announce"
    BY DEF Ends
  <2> QED BY <1>4, <2>1, <2>2, QuietMeets
<1>5. CASE PushNext(t)
  <2> DEFINE x == [m EXCEPT !.f.nx = next[m.node]]
  <2>1. Leave(t, {StateOf(m.old)}) \/ Read(t, "pushClear", x)
    BY <1>5 DEF PushNext
  <2>2. x.kind = m.kind
    BY <1>1 DEF Locals
  <2> QED BY <1>3, <1>4, <2>1, <2>2 DEF Ends
<1>6. CASE PushClear(t)
  BY <1>3, <1>6 DEF PushClear
<1>7. CASE PopAssert(t)
  BY <1>2, <1>4, <1>7 DEF PopAssert, Ends
<1>8. CASE PopReturn(t)
  BY <1>3, <1>8 DEF PopReturn
<1> QED BY <1>5, <1>6, <1>7, <1>8

\* The announcement makes a push of a push, and of nothing else.
LEMMA AnnounceMeets ==
  ASSUME TypeInv, HelpInv, MeetInv, NEW t \in Threads, Announce(t)
  PROVE  MeetInv'
<1> DEFINE m == me[t]
           d == Descriptor(t, m.phase, TRUE, m.kind = "push", m.node, 0)
           x == [m EXCEPT !.ahead = {states[u] : u \in {v \in Threads : Pending(v, m.phase)}},
                          !.less = IF m.kind = "push" THEN m.phase ELSE m.phase - 1, !.i = 1]
<1>1. pc[t] = "announce" /\ m \in Locals /\ m.kind \in {"push", "pop"}
  BY HasLocals DEF Announce, At, LocalsOK, Locals
<1>2. CASE Crash("somethingWrong")
  BY <1>2 DEF Crash, MeetInv, ApartInv, KindInv, EmptyInv, OldInv
<1>3. CASE states' = [states EXCEPT ![t] = d] /\ Goto(t, "scan") /\ Keep(t, x)
  <2>1. /\ pc'[t] = "scan" /\ me'[t] = x /\ states'[t] = d
        /\ \A u \in Threads \ {t} : pc'[u] = pc[u] /\ me'[u] = me[u] /\ states'[u] = states[u]
    BY <1>3 DEF Goto, Keep, TypeInv
  <2>2. x.kind = m.kind
    BY <1>1 DEF Locals
  <2>3. (d.push <=> m.kind = "push") /\ After(states[t], d)
    <3>1. states[t].phase < m.phase
      BY <1>1, SeenBefore DEF HelpInv, Before
    <3> QED BY <3>1 DEF Descriptor, After
  <2> HIDE DEF d, x
  <2>4. ~ForPush("scan", x)
    BY DEF ForPush, HelpPush, Finishing, FinishPush, FinishPop
  <2>5. ApartInv'
    BY <2>1, <2>2 DEF MeetInv, ApartInv
  <2>6. KindInv'
    <3>1. \A u \in Threads : states'[u].pending /\ states'[u].push => me'[u].kind = "push"
      BY <2>1, <2>2, <2>3 DEF MeetInv, KindInv
    <3>2. ASSUME NEW u \in Threads, me'[u].kind = "pop", ~MeetsPush("pop")
          PROVE  ~ForPush(pc'[u], me'[u]) /\ (pc'[u] = "dispatch" => ~states'[me'[u].i].push)
      <4>1. CASE u = t
        BY <2>1, <2>4, <4>1
      <4>2. CASE u # t
        <5>1. me[u].kind = "pop" /\ ~ForPush(pc[u], me[u])
          BY <2>1, <3>2, <4>2 DEF MeetInv, KindInv
        <5>2. ~d.push
          BY <2>3, <3>2, <4>2, <5>1 DEF MeetInv, ApartInv
        <5>3. pc[u] = "dispatch" => me[u].i \in Threads /\ ~states[me[u].i].push
          BY <3>2, <5>1, HasLocals DEF MeetInv, KindInv, LocalsOK
        <5> QED BY <2>1, <4>2, <5>1, <5>2, <5>3
      <4> QED BY <4>1, <4>2
    <3> QED BY <3>1, <3>2 DEF KindInv
  <2>7. EmptyInv'
    <3> SUFFICES ASSUME NEW u \in Threads, pc'[u] \in {"popEmpty", "popNothing"}
                 PROVE  LET c == me'[u].h.os
                            e == states'[me'[u].i] IN
                        (c = e \/ After(c, e)) /\ (pc'[u] = "popNothing" /\ c = e => c.pending)
      BY DEF EmptyInv
    <3> DEFINE v == me[u].i
               c == me[u].h.os
    <3>1. /\ pc'[u] = pc[u] /\ me'[u] = me[u] /\ v \in Threads /\ c \in Descriptors
      BY <2>1, HasLocals DEF LocalsOK, HelpPop
    <3>2. (c = states[v] \/ After(c, states[v])) /\ (pc[u] = "popNothing" /\ c = states[v] => c.pending)
      BY <3>1 DEF MeetInv, EmptyInv
    <3> HIDE DEF v, c
    <3>3. states'[v] = states[v] \/ After(states[v], states'[v])
      BY <2>1, <2>3, <3>1
    <3>4. states[v] \in Descriptors /\ states'[v] \in Descriptors
      BY <3>1, SharedTypes, AnnounceStep DEF TypeInv
    <3>5. (c = states'[v] \/ After(c, states'[v])) /\ (c = states'[v] => states[v] = states'[v])
      BY <3>1, <3>2, <3>3, <3>4 DEF After, Descriptors
    <3> QED BY <3>1, <3>2, <3>5 DEF v, c
  <2>8. OldInv'
    BY <2>1 DEF MeetInv, OldInv
  <2> QED BY <2>5, <2>6, <2>7, <2>8 DEF MeetInv
<1> QED BY <1>2, <1>3 DEF Announce

LEMMA MeetInit == Init => MeetInv
<1> SUFFICES ASSUME Init PROVE MeetInv
  OBVIOUS
<1>1. \A t \in Threads : pc[t] = "idle" /\ me[t].kind = "none" /\ ~states[t].pending
  <2>1. Idle.kind = "none" /\ \A t \in Threads : ~Descriptor(t, 0, FALSE, FALSE, NULL, 0).pending
    BY FreshLocals DEF Descriptor
  <2> QED BY <2>1 DEF Init
<1> QED BY <1>1 DEF MeetInv, ApartInv, KindInv, EmptyInv, OldInv

LEMMA MeetStep == TypeInv /\ HelpInv /\ MeetInv /\ [Next]_vars => MeetInv'
<1> SUFFICES ASSUME TypeInv, HelpInv, MeetInv, [Next]_vars PROVE MeetInv'
  OBVIOUS
<1> DEFINE Goal == MeetInv'
<1>1. ASSUME NEW t \in Threads, CallPush(t) \/ CallPop(t) PROVE Goal
  BY <1>1, BeginMeets
<1>2. ASSUME NEW t \in Threads, LoadPhase(t) \/ ReadPhase(t) \/ LoadOld(t) PROVE Goal
  BY <1>2, PhaseMeets
<1>3. ASSUME NEW t \in Threads, Announce(t) PROVE Goal
  BY <1>3, AnnounceMeets
<1>4. ASSUME NEW t \in Threads, Help(t) \/ Finish(t) PROVE Goal
  BY <1>4, HelpMeets
<1>5. ASSUME NEW t \in Threads, PushNext(t) \/ PushClear(t) \/ PopAssert(t) \/ PopReturn(t)
      PROVE  Goal
  BY <1>5, EndMeets
<1>6. ASSUME Destroy \/ UNCHANGED vars PROVE Goal
  <2>1. UNCHANGED <<states, pc, me>>
    BY <1>6 DEF Destroy, vars
  <2> QED BY <2>1 DEF MeetInv, ApartInv, KindInv, EmptyInv, OldInv
<1> HIDE DEF Goal
<1>7. Goal
  BY ONLY [Next]_vars, <1>1, <1>2, <1>3, <1>4, <1>5, <1>6 DEF Next, Step
<1> QED BY <1>7 DEF Goal

LEMMA MeetInvHolds == Spec => [](TypeInv /\ HelpInv /\ MeetInv)
<1>1. Spec => []MeetInv
  BY HelpInvHolds, MeetInit, MeetStep, PTL DEF Spec
<1> QED BY <1>1, HelpInvHolds, PTL

\* What a step does to the slots: helping finishes a pending operation and retires
\* the descriptor, if it is not in FirstDone; the rest is announcements.
LEMMA SlotsKept ==
  ASSUME TypeInv, HelpInv, MeetInv, [Next]_vars, ~MeetsPush("pop"),
         NEW v \in Threads, states'[v] # states[v]
  PROVE  \/ StateOf(states[v]) \in DOMAIN grace'
         \/ me'[v].old = states[v]
         \/ \E u \in Threads : At(u, "firstDone") /\ me[u].i = v
<1> DEFINE Goal == \/ StateOf(states[v]) \in DOMAIN grace'
                   \/ me'[v].old = states[v]
                   \/ \E u \in Threads : At(u, "firstDone") /\ me[u].i = v
<1>1. ASSUME NEW t \in Threads, Help(t) \/ Finish(t) PROVE Goal
  BY <1>1, SlotReplaced DEF MeetInv
<1>2. ASSUME NEW t \in Threads, CallPush(t) \/ CallPop(t) PROVE Goal
  BY <1>2 DEF CallPush, CallPop, Begin
<1>3. ASSUME NEW t \in Threads, LoadPhase(t) \/ ReadPhase(t) \/ LoadOld(t) PROVE Goal
  BY <1>3 DEF LoadPhase, ReadPhase, LoadOld, Read
<1>4. ASSUME NEW t \in Threads, PushNext(t) \/ PushClear(t) \/ PopAssert(t) \/ PopReturn(t)
      PROVE  Goal
  BY <1>4 DEF PushNext, PushClear, PopAssert, PopReturn, Leave, Read, Crash
<1>5. ASSUME Destroy \/ UNCHANGED vars PROVE Goal
  BY <1>5 DEF Destroy, vars
<1>6. ASSUME NEW t \in Threads, Announce(t) PROVE Goal
  <2> DEFINE m == me[t]
             d == Descriptor(t, m.phase, TRUE, m.kind = "push", m.node, 0)
             x == [m EXCEPT !.ahead = {states[u] : u \in {w \in Threads : Pending(w, m.phase)}},
                            !.less = IF m.kind = "push" THEN m.phase ELSE m.phase - 1, !.i = 1]
  <2>1. /\ pc[t] = "announce"
        /\ m.kind = "push" => states[t] = m.old
        /\ states' = [states EXCEPT ![t] = d] /\ Keep(t, x)
    BY <1>6 DEF Announce, At, Crash
  <2>2. v = t /\ me'[t] = x
    BY <2>1 DEF TypeInv, Keep
  <2>3. x.old = m.old /\ m.kind \in {"push", "pop"}
    BY <2>1, HasLocals DEF Locals, LocalsOK
  <2>4. states[t] = m.old
    BY <2>1, <2>3 DEF MeetInv, OldInv
  <2> QED BY <2>2, <2>3, <2>4
<1> HIDE DEF Goal
<1>7. Goal
  BY ONLY [Next]_vars, <1>1, <1>2, <1>3, <1>4, <1>5, <1>6 DEF Next, Step
<1> QED BY <1>7 DEF Goal

\* No descriptor taken out of a slot is lost, but the one of a push on an empty
\* stack, in any program whose pops do not run while pushes do.
THEOREM DescriptorsAlwaysKept == ~({"push", "pop"} \subseteq Overlap) => (Spec => DescriptorsKept)
<1> SUFFICES ASSUME ~({"push", "pop"} \subseteq Overlap) PROVE Spec => DescriptorsKept
  OBVIOUS
<1>1. ~MeetsPush("pop")
  BY DEF MeetsPush
<1>2. TypeInv /\ HelpInv /\ MeetInv /\ [Next]_vars =>
        [\A t \in Threads :
           states'[t] # states[t] =>
             \/ StateOf(states[t]) \in DOMAIN grace'
             \/ me'[t].old = states[t]
             \/ \E u \in Threads : At(u, "firstDone") /\ me[u].i = t]_vars
  BY <1>1, SlotsKept
<1> QED BY <1>2, MeetInvHolds, PTL DEF Spec, DescriptorsKept

-------------------------------------------------------------------------------
(* Descriptors that a thread holds.                                        *)

StatesOf(m) == {m.old, m.h.os, m.f.os}

\* A descriptor is retired when it has left its slot, before ~Stack() retires all.
RetiredInv ==
  /\ \A d : StateOf(d) \in DOMAIN grace =>
       d \in Descriptors /\ d.tid \in Threads /\ (destroyed \/ After(d, states[d.tid]))
  /\ destroyed => \A t \in Threads : pc[t] = "idle"

\* The descriptor that is replaced by the announcement.
OldLocal(t, p, m, s) ==
  /\ p \notin {"idle", "loadPhase", "readPhase", "loadOld"} => m.old.tid = t
  /\ p = "announce" => m.old = s[t] \/ After(m.old, s[t])
  /\ p \notin Before => After(m.old, s[t])

\* What a thread may hold: nothing outside its guard, but for the load of a push in
\* max_phase(); inside, what was not handed over before the guard began.
HoldsLocal(t, p, m, s, g) ==
  /\ p = "idle" => StatesOf(m) = {NoState}
  /\ p \notin {"idle", "loadPhase", "readPhase"} \/ m.kind = "pop" => m.guarded
  /\ ~m.guarded => /\ m.old = NoState /\ m.f.os = NoState
                   /\ p # "readPhase" => m.h.os = NoState
  /\ m.guarded => \A d \in StatesOf(m) : StateOf(d) \in DOMAIN g => t \in g[StateOf(d)]
  /\ p = "readPhase" /\ m.kind = "push" /\ ~MeetsPush("push") => m.h.os = s[m.i]

HoldInv ==
  /\ RetiredInv
  /\ \A t \in Threads :
       OldLocal(t, pc[t], me[t], states) /\ HoldsLocal(t, pc[t], me[t], states, grace)

LEMMA StateOfIsOwn ==
  /\ \A d, e : StateOf(d) = StateOf(e) => d = e
  /\ \A d, n : StateOf(d) # NodeOf(n)
  BY DEF StateOf, NodeOf

\* Whoever was covered stays so while an object is handed over, unless its guard ends.
LEMMA RetireKeeps ==
  ASSUME NEW objects, NEW guards, Retire(objects, guards)
  PROVE  /\ DOMAIN grace' = DOMAIN grace \cup objects
         /\ \A t \in Threads : \A o :
              /\ t \in guards /\ me[t].guarded
              /\ o \in DOMAIN grace => t \in grace[o]
              /\ o \in DOMAIN grace'
              => t \in grace'[o]
  BY DEF Retire

\* Helping begins with the announcement.
LEMMA HelpPlaces ==
  ASSUME NEW t \in Threads, Help(t) \/ Finish(t)
  PROVE  pc[t] \notin Before
<1> DEFINE Ok == pc[t] \notin Before
<1>1. ASSUME NEW q, At(t, q), q \notin Before PROVE Ok
  BY <1>1 DEF At
<1> HIDE DEF Ok
<1>2. ASSUME \/ Scan(t) \/ Dispatch(t)
             \/ PushHead(t) \/ PushState(t) \/ PushCheck(t) \/ PushPending(t) \/ PushSame(t)
             \/ PushFirst(t) \/ FirstLoad(t) \/ FirstDone(t)
             \/ PushWinner(t) \/ PushRecheck(t) \/ PushStill(t) \/ PushWin(t) \/ PushWhile(t)
      PROVE  Ok
  BY <1>1, <1>2 DEF Scan, Dispatch, PushHead, PushState, PushCheck, PushPending, PushSame, PushFirst,
     FirstLoad, FirstDone, PushWinner, PushRecheck, PushStill, PushWin, PushWhile, While, IfPending,
     Before
<1>3. ASSUME \/ PopHead(t) \/ PopState(t) \/ PopEmpty(t) \/ PopNothing(t) \/ PopWinner(t)
             \/ PopCheck(t) \/ PopStill(t) \/ PopWhile(t)
      PROVE  Ok
  BY <1>1, <1>3 DEF PopHead, PopState, PopEmpty, PopNothing, PopWinner, PopCheck, PopStill,
     PopWhile, While, IfPending, Before
<1>4. ASSUME PopWin(t) PROVE Ok
  BY <1>4 DEF PopWin, Before, Ok
<1>5. ASSUME Finish(t) PROVE Ok
  BY <1>1, <1>5 DEF Finish, FinishHead, FinishWinner, FinishState, SameHead, SameWinner, SameState,
     PushStays, PushMark, PushFinish, PushLink, PushSwing, PushUnmark, PopNext, PopStays, PopFinish,
     PopSwing, Before
<1> QED BY ONLY Help(t) \/ Finish(t), <1>2, <1>3, <1>4, <1>5 DEF Help, Ok

\* Helping retires a descriptor by taking it out of its slot.
LEMMA HelpRetires ==
  ASSUME TypeInv, NEW t \in Threads, Help(t) \/ Finish(t)
  PROVE  \/ grace' = grace
         \/ \E v \in Threads :
              Retire({StateOf(states[v])}, Threads) /\ After(states[v], states'[v])
<1> DEFINE Ok == \/ grace' = grace
                 \/ \E v \in Threads :
                      Retire({StateOf(states[v])}, Threads) /\ After(states[v], states'[v])
           m == me[t]
<1>1. ASSUME UNCHANGED bookkeeping PROVE Ok
  BY <1>1 DEF bookkeeping
<1>2. ASSUME NEW reason, Crash(reason) PROVE Ok
  BY <1>2 DEF Crash
<1>3. LocalsOK(pc[t], m) /\ m.f.tid \in Marks /\ states \in [Threads -> Descriptors]
  BY HasLocals DEF TypeInv
<1>4. ASSUME NEW v, NEW d, NEW push, NEW node, v # 0 => v \in Threads,
             Replace(v, d, Finished(d, push, node))
      PROVE  Ok
  <2> DEFINE e == Finished(d, push, node)
  <2>1. \/ grace' = grace
        \/ /\ v \in Threads /\ states[v] = d /\ states' = [states EXCEPT ![v] = e]
           /\ Retire({StateOf(d)}, Threads)
    BY <1>4 DEF Replace
  <2>2. ASSUME d \in Descriptors PROVE After(d, e)
    <3>1. e.phase = d.phase /\ e.copy = d.copy + 1 /\ d.copy \in Nat
      BY <2>2 DEF Finished, Descriptors
    <3> QED BY <3>1 DEF After
  <2> HIDE DEF e
  <2>3. CASE /\ v \in Threads /\ states[v] = d /\ states' = [states EXCEPT ![v] = e]
             /\ Retire({StateOf(d)}, Threads)
    <3>1. states[v] \in Descriptors /\ states'[v] = e
      BY <1>3, <2>3
    <3> QED BY <2>2, <2>3, <3>1
  <2> QED BY <2>1, <2>3
<1> HIDE DEF Ok, m
<1>5. ASSUME Scan(t) \/ Dispatch(t) PROVE Ok
  BY <1>1, <1>5 DEF Scan, Dispatch, Read
<1>6. ASSUME \/ PushHead(t) \/ PushState(t) \/ PushCheck(t) \/ PushPending(t) \/ PushSame(t)
             \/ PushFirst(t) \/ FirstLoad(t) \/ FirstDone(t)
             \/ PushWinner(t) \/ PushRecheck(t) \/ PushStill(t) \/ PushWin(t) \/ PushWhile(t)
      PROVE  Ok
  BY <1>1, <1>6 DEF PushHead, PushState, PushCheck, PushPending, PushSame, PushFirst, FirstLoad,
     FirstDone, PushWinner, PushRecheck, PushStill, PushWin, PushWhile, While, IfPending, Read
<1>7. ASSUME \/ PopHead(t) \/ PopState(t) \/ PopEmpty(t) \/ PopWinner(t)
             \/ PopCheck(t) \/ PopStill(t) \/ PopWin(t) \/ PopWhile(t)
      PROVE  Ok
  BY <1>1, <1>2, <1>7 DEF PopHead, PopState, PopEmpty, PopWinner, PopCheck, PopStill, PopWin,
     PopWhile, While, IfPending, Read
<1>8. ASSUME PopNothing(t) PROVE Ok
  <2>1. pc[t] = "popNothing" /\ Replace(m.i, m.h.os, Finished(m.h.os, FALSE, NULL))
    BY <1>8 DEF PopNothing, At, m
  <2>2. m.i \in Threads
    BY <1>3, <2>1 DEF LocalsOK, HelpPop
  <2> QED BY <1>4, <2>1, <2>2
<1>9. ASSUME \/ FinishHead(t) \/ FinishWinner(t) \/ FinishState(t)
             \/ SameHead(t) \/ SameWinner(t) \/ SameState(t)
      PROVE  Ok
  BY <1>1, <1>2, <1>9 DEF FinishHead, FinishWinner, FinishState, SameHead, SameWinner, SameState,
     Return, Again, Read
<1>10. ASSUME \/ PushStays(t) \/ PushMark(t) \/ PushLink(t) \/ PushSwing(t) \/ PushUnmark(t)
              \/ PopNext(t) \/ PopStays(t) \/ PopSwing(t)
       PROVE  Ok
  BY <1>1, <1>2, <1>10 DEF PushStays, PushMark, PushLink, PushSwing, PushUnmark, PopNext, PopStays,
     PopSwing, Return, Read
<1>11. ASSUME PushFinish(t) PROVE Ok
  <2>1. \/ Crash("negativeIndex")
        \/ ~(m.f.tid < 0) /\ Replace(m.f.tid, m.f.os, Finished(m.f.os, TRUE, m.f.nx))
    BY <1>11 DEF PushFinish, m
  <2>2. ~(m.f.tid < 0) /\ m.f.tid # 0 => m.f.tid \in Threads
    BY <1>3, StackAssumption DEF Marks, Threads
  <2> QED BY <1>2, <1>4, <2>1, <2>2
<1>12. ASSUME PopFinish(t) PROVE Ok
  <2>1. pc[t] = "popFinish" /\ Replace(m.f.tid, m.f.os, Finished(m.f.os, FALSE, m.f.oh))
    BY <1>12 DEF PopFinish, At, m
  <2>2. m.f.tid \in Threads
    BY <1>3, <2>1 DEF LocalsOK, FinishPop
  <2> QED BY <1>4, <2>1, <2>2
<1> QED BY ONLY Help(t) \/ Finish(t), <1>5, <1>6, <1>7, <1>8, <1>9, <1>10, <1>11, <1>12
        DEF Help, Finish, Ok

\* Helpers load descriptors from the slots, and only then.
LEMMA HelpLoads ==
  ASSUME TypeInv, NEW t \in Threads, Help(t) \/ Finish(t)
  PROVE  LET m == me[t]
             x == me'[t] IN
         /\ x.guarded = m.guarded /\ x.old = m.old
         /\ \/ StatesOf(x) \subseteq StatesOf(m) \cup {NoState}
            \/ /\ UNCHANGED <<states, bookkeeping>>
               /\ \E v \in Threads : StatesOf(x) \subseteq StatesOf(m) \cup {states[v]}
<1> DEFINE m == me[t]
           Plain(x) == /\ x.guarded = m.guarded /\ x.old = m.old
                       /\ x.h.os \in {m.h.os, NoState} /\ x.f.os \in {m.f.os, NoState}
           Ok == LET x == me'[t] IN
                 /\ x.guarded = m.guarded /\ x.old = m.old
                 /\ \/ StatesOf(x) \subseteq StatesOf(m) \cup {NoState}
                    \/ /\ UNCHANGED <<states, bookkeeping>>
                       /\ \E v \in Threads : StatesOf(x) \subseteq StatesOf(m) \cup {states[v]}
<1>1. LocalsOK(pc[t], m) /\ m \in Locals /\ m.h \in HelpLocals /\ m.f \in FinishLocals
  BY HasLocals
<1>2. ASSUME NEW x, me' = me \/ Keep(t, x), Plain(x) \/ me' = me PROVE Ok
  <2>1. me'[t] = m \/ (me'[t] = x /\ Plain(x))
    BY <1>2 DEF Keep, TypeInv
  <2>2. Plain(m)
    OBVIOUS
  <2> QED BY <2>1, <2>2 DEF StatesOf
<1>3. ASSUME NEW v \in Threads, NEW q, NEW x, Read(t, q, x), x.guarded = m.guarded, x.old = m.old,
             StatesOf(x) \subseteq StatesOf(m) \cup {states[v]}
      PROVE  Ok
  BY <1>3 DEF Read, Keep, TypeInv
<1>4. NoHelp.os = NoState /\ NoFinish.os = NoState
  BY DEF NoHelp, NoFinish
<1>5. /\ Plain(m) /\ Plain([m EXCEPT !.h = NoHelp]) /\ Plain([m EXCEPT !.h = NoHelp, !.i = 1])
      /\ Plain([m EXCEPT !.f = NoFinish, !.h = NoHelp])
      /\ \A f : f.os \in {m.f.os, NoState} => Plain([m EXCEPT !.f = f])
      /\ \A h : h.os = m.h.os => Plain([m EXCEPT !.h = h])
  BY <1>1, <1>4 DEF Locals
<1>6. \A a, b : /\ [m.f EXCEPT !.tid = a, !.minus = b].os = m.f.os
                /\ [m.f EXCEPT !.tid = a].os = m.f.os /\ [m.f EXCEPT !.oh = a].os = m.f.os
                /\ [m.f EXCEPT !.nx = a].os = m.f.os /\ [m.f EXCEPT !.back = a].os = m.f.os
                /\ [NoFinish EXCEPT !.back = a].os = NoState
                /\ [m.h EXCEPT !.oh = a].os = m.h.os /\ [m.h EXCEPT !.ow = a].os = m.h.os
  BY <1>1, <1>4 DEF HelpLocals, FinishLocals, NoFinish
<1>7. \A a, b : /\ Plain([m EXCEPT !.f.tid = a, !.f.minus = b])
                /\ Plain([m EXCEPT !.f.tid = a]) /\ Plain([m EXCEPT !.f.oh = a])
                /\ Plain([m EXCEPT !.f.nx = a]) /\ Plain(CallFinish(m, a))
                /\ Plain([m EXCEPT !.f = [NoFinish EXCEPT !.back = a]])
                /\ Plain([m EXCEPT !.h.oh = a]) /\ Plain([m EXCEPT !.h.ow = a])
  <2>1. \A a, b : /\ Plain([m EXCEPT !.f.tid = a, !.f.minus = b])
                  /\ Plain([m EXCEPT !.f.tid = a]) /\ Plain([m EXCEPT !.f.oh = a])
                  /\ Plain([m EXCEPT !.f.nx = a]) /\ Plain([m EXCEPT !.f.back = a])
    BY <1>1 DEF Locals, FinishLocals
  <2>2. \A a : Plain([m EXCEPT !.h.oh = a]) /\ Plain([m EXCEPT !.h.ow = a])
    BY <1>1 DEF Locals, HelpLocals
  <2> HIDE DEF m, Plain
  <2>3. \A a : Plain([m EXCEPT !.f = [NoFinish EXCEPT !.back = a]])
    <3> SUFFICES ASSUME NEW a PROVE Plain([m EXCEPT !.f = [NoFinish EXCEPT !.back = a]])
      OBVIOUS
    <3> DEFINE f == [NoFinish EXCEPT !.back = a]
    <3>1. f.os = NoState
      BY <1>6
    <3> HIDE DEF f
    <3>2. Plain([m EXCEPT !.f = f])
      BY <1>5, <3>1
    <3> QED BY <3>2 DEF f
  <2>4. \A a : Plain(CallFinish(m, a))
    BY <2>1 DEF CallFinish
  <2> QED BY <2>1, <2>2, <2>3, <2>4
<1>8. \A a, b : /\ Plain([m EXCEPT !.i = a]) /\ Plain([m EXCEPT !.i = a, !.less = b])
                /\ Plain([m EXCEPT !.i = a, !.f.back = b])
  BY <1>1 DEF Locals, FinishLocals
<1>9. ASSUME NEW d
      PROVE  /\ LET x == [m EXCEPT !.h.os = d] IN
                x.guarded = m.guarded /\ x.old = m.old /\ StatesOf(x) \subseteq StatesOf(m) \cup {d}
             /\ LET x == [m EXCEPT !.f.os = d] IN
                x.guarded = m.guarded /\ x.old = m.old /\ StatesOf(x) \subseteq StatesOf(m) \cup {d}
  BY <1>1 DEF Locals, HelpLocals, FinishLocals, StatesOf
<1> HIDE DEF Ok, m, Plain
<1>10. ASSUME NEW q, NEW x, Read(t, q, x), Plain(x) PROVE Ok
  BY <1>2, <1>10 DEF Read
<1>11. ASSUME NEW reason, Crash(reason) PROVE Ok
  BY <1>2, <1>5, <1>11 DEF Crash
<1>12. ASSUME Scan(t) PROVE Ok
  <2>1. \/ Read(t, "dispatch", m)
        \/ Read(t, "scan", [m EXCEPT !.i = m.i + 1])
        \/ Read(t, "scan", [m EXCEPT !.i = 1, !.less = m.phase])
        \/ \E b : Read(t, "finish", [m EXCEPT !.i = 0, !.f.back = b])
    BY <1>12 DEF Scan, m
  <2> QED BY <1>5, <1>8, <1>10, <2>1
<1>13. ASSUME \/ PushState(t) \/ FirstLoad(t) \/ PopState(t) PROVE Ok
  <2>1. /\ pc[t] \in {"pushState", "firstLoad", "popState"}
        /\ \E q : Read(t, q, [m EXCEPT !.h.os = states[m.i]])
    BY <1>13 DEF PushState, FirstLoad, PopState, At, m
  <2>2. m.i \in Threads
    BY <1>1, <2>1 DEF LocalsOK, HelpPush, HelpPop
  <2> QED BY <1>3, <1>9, <2>1, <2>2
<1>14. ASSUME FinishState(t) PROVE Ok
  <2>1. /\ pc[t] = "finishState"
        /\ \/ Crash("negativeIndex")
           \/ ~(m.f.tid < 0) /\ Read(t, "sameHead", [m EXCEPT !.f.os = states[m.f.tid]])
    BY <1>14 DEF FinishState, At, m
  <2>2. ~(m.f.tid < 0) => m.f.tid \in Threads
    BY <1>1, <2>1, StackAssumption DEF LocalsOK, FinishLocals, Marks, Threads
  <2>3. CASE ~(m.f.tid < 0) /\ Read(t, "sameHead", [m EXCEPT !.f.os = states[m.f.tid]])
    <3> DEFINE v == m.f.tid
               x == [m EXCEPT !.f.os = states[v]]
    <3>1. x.guarded = m.guarded /\ x.old = m.old /\ StatesOf(x) \subseteq StatesOf(m) \cup {states[v]}
      BY <1>9
    <3>2. v \in Threads /\ Read(t, "sameHead", x)
      BY <2>2, <2>3
    <3> HIDE DEF v, x
    <3> QED BY <1>3, <3>1, <3>2
  <2> QED BY <1>11, <2>1, <2>3
<1>15. ASSUME \/ Dispatch(t) \/ PushHead(t) \/ PushCheck(t) \/ PushPending(t) \/ PushSame(t)
              \/ PushFirst(t) \/ FirstDone(t)
       PROVE  Ok
  BY <1>2, <1>5, <1>7, <1>10, <1>15 DEF Dispatch, PushHead, PushCheck, PushPending, PushSame, PushFirst,
     FirstDone, IfPending, m
<1>16. ASSUME \/ PushWinner(t) \/ PushRecheck(t) \/ PushStill(t) \/ PushWin(t) \/ PushWhile(t)
       PROVE  Ok
  BY <1>2, <1>5, <1>7, <1>10, <1>16 DEF PushWinner, PushRecheck, PushStill, PushWin, PushWhile,
     While, IfPending, m
<1>17. ASSUME \/ PopHead(t) \/ PopEmpty(t) \/ PopNothing(t) \/ PopWinner(t)
              \/ PopCheck(t) \/ PopStill(t) \/ PopWin(t) \/ PopWhile(t)
       PROVE  Ok
  BY <1>2, <1>5, <1>7, <1>10, <1>11, <1>17 DEF PopHead, PopEmpty, PopNothing, PopWinner, PopCheck,
     PopStill, PopWin, PopWhile, While, IfPending, m
<1>18. ASSUME \/ FinishHead(t) \/ FinishWinner(t) \/ SameHead(t) \/ SameWinner(t) \/ SameState(t)
       PROVE  Ok
  BY <1>2, <1>5, <1>7, <1>10, <1>11, <1>18 DEF FinishHead, FinishWinner, SameHead, SameWinner,
     SameState, Return, Again, m
<1>19. ASSUME \/ PushStays(t) \/ PushMark(t) \/ PushFinish(t) \/ PushLink(t) \/ PushSwing(t)
              \/ PushUnmark(t)
       PROVE  Ok
  BY <1>2, <1>5, <1>7, <1>10, <1>11, <1>19 DEF PushStays, PushMark, PushFinish, PushLink, PushSwing,
     PushUnmark, Return, m
<1>20. ASSUME PopNext(t) \/ PopStays(t) \/ PopFinish(t) \/ PopSwing(t) PROVE Ok
  BY <1>2, <1>5, <1>7, <1>10, <1>20 DEF PopNext, PopStays, PopFinish, PopSwing, Return, m
<1> QED BY ONLY Help(t) \/ Finish(t), <1>12, <1>13, <1>14, <1>15, <1>16, <1>17, <1>18, <1>19, <1>20
        DEF Help, Finish, Ok, m

\* NoState belongs to nobody and is never retired; what a slot holds is not retired.
LEMMA SlotsInUse ==
  ASSUME TypeInv, HoldInv
  PROVE  /\ StateOf(NoState) \notin DOMAIN grace
         /\ \A v \in Threads : ~destroyed => StateOf(states[v]) \notin DOMAIN grace
<1>1. NoState.tid = 0 /\ 0 \notin Threads
  BY DEF NoState, Descriptor, Threads
<1>2. ASSUME NEW v \in Threads, ~destroyed, StateOf(states[v]) \in DOMAIN grace PROVE FALSE
  <2>1. states[v] \in Descriptors /\ states[v].tid = v
    BY SharedTypes DEF TypeInv
  <2>2. After(states[v], states[v])
    BY <1>2, <2>1 DEF HoldInv, RetiredInv
  <2> QED BY <2>1, <2>2, AfterAfter
<1> QED BY <1>1, <1>2 DEF HoldInv, RetiredInv

\* What a thread that does not move holds while slots go on and objects are retired.
LEMMA HoldsStay ==
  ASSUME NEW t \in Threads, NEW p, NEW m, m.old \in Descriptors,
         NEW s, NEW s2, s[t] \in Descriptors, s2[t] \in Descriptors, NEW g, NEW g2,
         OldLocal(t, p, m, s), HoldsLocal(t, p, m, s, g),
         s2[t] = s[t] \/ After(s[t], s2[t]),
         m.guarded => \A o : (o \in DOMAIN g => t \in g[o]) /\ o \in DOMAIN g2 => t \in g2[o],
         p = "readPhase" /\ m.kind = "push" /\ ~MeetsPush("push") => s2 = s
  PROVE  OldLocal(t, p, m, s2) /\ HoldsLocal(t, p, m, s2, g2)
<1>1. /\ m.old = s[t] => m.old = s2[t] \/ After(m.old, s2[t])
      /\ After(m.old, s[t]) => After(m.old, s2[t])
  BY AfterAfter
<1>2. OldLocal(t, p, m, s2)
  BY <1>1 DEF OldLocal
<1>3. HoldsLocal(t, p, m, s2, g2)
  BY DEF HoldsLocal
<1> QED BY <1>2, <1>3

\* Retired descriptors stay behind their slots.
LEMMA RetiredStays ==
  ASSUME TypeInv, TypeInv', RetiredInv,
         \A v \in Threads : states'[v] = states[v] \/ After(states[v], states'[v]),
         \A d : StateOf(d) \in DOMAIN grace' =>
           \/ StateOf(d) \in DOMAIN grace
           \/ d \in Descriptors /\ d.tid \in Threads /\ After(d, states'[d.tid]),
         destroyed' = destroyed, destroyed => \A t \in Threads : pc'[t] = "idle"
  PROVE  RetiredInv'
<1>1. ASSUME NEW d, StateOf(d) \in DOMAIN grace'
      PROVE  d \in Descriptors /\ d.tid \in Threads /\ (destroyed \/ After(d, states'[d.tid]))
  <2>1. CASE StateOf(d) \in DOMAIN grace
    <3>1. d \in Descriptors /\ d.tid \in Threads /\ (destroyed \/ After(d, states[d.tid]))
      BY <2>1 DEF RetiredInv
    <3>2. states[d.tid] \in Descriptors /\ states'[d.tid] \in Descriptors
      BY <3>1 DEF TypeInv
    <3> QED BY <3>1, <3>2, AfterAfter
  <2> QED BY <1>1, <2>1
<1> QED BY <1>1 DEF RetiredInv

\* A pushing thread in max_phase() is alone, unless pushes may meet.
LEMMA ReaderAlone ==
  ASSUME TypeInv, ApartInv, NEW t \in Threads, pc[t] # "idle", NEW u \in Threads \ {t},
         me[u].kind = "push", ~MeetsPush("push")
  PROVE  FALSE
<1>1. me[t].kind # "none"
  BY DEF TypeInv, LocalsOK
<1>2. MeetsPush(me[t].kind)
  BY <1>1 DEF ApartInv
<1> QED BY <1>2 DEF MeetsPush

\* Helping keeps HoldInv.
LEMMA HelpKeepsHolds ==
  ASSUME TypeInv, TypeInv', ApartInv, HoldInv, NEW t \in Threads, Help(t) \/ Finish(t)
  PROVE  HoldInv'
<1>1. pc[t] \notin Before /\ pc[t] # "idle" /\ ~destroyed
  BY HelpPlaces DEF Before, HoldInv, RetiredInv
<1>2. /\ \A v \in Threads : states[v] \in Descriptors /\ states'[v] \in Descriptors
      /\ \A v \in Threads : states'[v] = states[v] \/ After(states[v], states'[v])
  BY HelpChanges DEF TypeInv
<1>3. \/ grace' = grace
      \/ \E v \in Threads : Retire({StateOf(states[v])}, Threads) /\ After(states[v], states'[v])
  BY HelpRetires
<1>4. \A u \in Threads : me[u].guarded =>
        \A o : (o \in DOMAIN grace => u \in grace[o]) /\ o \in DOMAIN grace' => u \in grace'[o]
  <2>1. CASE grace' = grace
    BY <2>1
  <2>2. ASSUME NEW objects, Retire(objects, Threads)
        PROVE  \A u \in Threads : me[u].guarded =>
                 \A o : (o \in DOMAIN grace => u \in grace[o]) /\ o \in DOMAIN grace' => u \in grace'[o]
    BY <2>2, RetireKeeps
  <2> QED BY <1>3, <2>1, <2>2
<1>5. RetiredInv'
  <2>1. ASSUME NEW d, StateOf(d) \in DOMAIN grace', StateOf(d) \notin DOMAIN grace
        PROVE  d \in Descriptors /\ d.tid \in Threads /\ After(d, states'[d.tid])
    <3>1. PICK v \in Threads : Retire({StateOf(states[v])}, Threads) /\ After(states[v], states'[v])
      BY <1>3, <2>1
    <3>2. DOMAIN grace' = DOMAIN grace \cup {StateOf(states[v])}
      BY <3>1, RetireKeeps
    <3>3. d = states[v]
      BY <2>1, <3>2, StateOfIsOwn
    <3>4. d.tid = v /\ d \in Descriptors
      BY <1>2, <3>3 DEF TypeInv
    <3> QED BY <3>1, <3>3, <3>4
  <2>2. destroyed' = destroyed
    BY HelpCallsNothing
  <2> QED BY <1>1, <1>2, <2>1, <2>2, RetiredStays DEF HoldInv
<1>6. /\ \/ UNCHANGED <<pc, me>>
         \/ \E q, x : Moves(t, q, x) /\ q \notin Before /\ x.kind = me[t].kind
      /\ \A u \in Threads \ {t} : pc'[u] = pc[u] /\ me'[u] = me[u]
  BY HelpGoesOn DEF Moves
<1>7. ASSUME NEW u \in Threads, pc'[u] = pc[u], me'[u] = me[u], u = t => me'[t] = me[t]
      PROVE  OldLocal(u, pc'[u], me'[u], states') /\ HoldsLocal(u, pc'[u], me'[u], states', grace')
  <2>1. /\ OldLocal(u, pc[u], me[u], states) /\ HoldsLocal(u, pc[u], me[u], states, grace)
        /\ me[u].old \in Descriptors
    BY HasLocals DEF HoldInv, Locals
  <2>2. pc[u] = "readPhase" /\ me[u].kind = "push" /\ ~MeetsPush("push") => states' = states
    BY <1>1, ReaderAlone DEF Before
  <2> QED BY <1>2, <1>4, <1>7, <2>1, <2>2, HoldsStay
<1>8. ASSUME NEW q, NEW x, Moves(t, q, x), q \notin Before, x.kind = me[t].kind
      PROVE  OldLocal(t, q, x, states') /\ HoldsLocal(t, q, x, states', grace')
  <2> DEFINE m == me[t]
  <2>1. /\ OldLocal(t, pc[t], m, states) /\ HoldsLocal(t, pc[t], m, states, grace)
        /\ m.old \in Descriptors
    BY HasLocals DEF HoldInv, Locals
  <2>2. m.guarded
    BY <1>1, <2>1 DEF HoldsLocal, Before
  <2>3. me'[t] = x
    BY <1>8 DEF Moves
  <2>4. /\ x.guarded = m.guarded /\ x.old = m.old
        /\ \/ StatesOf(x) \subseteq StatesOf(m) \cup {NoState}
           \/ /\ UNCHANGED <<states, bookkeeping>>
              /\ \E v \in Threads : StatesOf(x) \subseteq StatesOf(m) \cup {states[v]}
    BY <2>3, HelpLoads
  <2>5. OldLocal(t, q, x, states')
    <3>1. m.old.tid = t /\ After(m.old, states[t])
      BY <1>1, <2>1 DEF OldLocal, Before
    <3>2. After(m.old, states'[t])
      BY <1>2, <2>1, <3>1, AfterAfter
    <3> QED BY <1>8, <2>4, <3>1, <3>2 DEF OldLocal, Before
  <2>6. ASSUME NEW d \in StatesOf(x), StateOf(d) \in DOMAIN grace' PROVE t \in grace'[StateOf(d)]
    <3>1. \A e \in StatesOf(m) : StateOf(e) \in DOMAIN grace => t \in grace[StateOf(e)]
      BY <2>1, <2>2 DEF HoldsLocal
    <3>2. StateOf(NoState) \notin DOMAIN grace /\ StateOf(NoState) \notin DOMAIN grace'
      <4>1. NoState.tid \notin Threads
        BY DEF NoState, Descriptor, Threads
      <4> QED BY <1>5, <4>1, SlotsInUse DEF RetiredInv
    <3>3. CASE d \in StatesOf(m)
      BY <1>4, <2>2, <2>6, <3>1, <3>3
    <3>4. ASSUME UNCHANGED bookkeeping, NEW v \in Threads, d = states[v] PROVE FALSE
      BY <1>1, <2>6, <3>4, SlotsInUse DEF bookkeeping
    <3> QED BY <2>4, <2>6, <3>2, <3>3, <3>4
  <2>7. HoldsLocal(t, q, x, states', grace')
    BY <1>8, <2>2, <2>4, <2>6 DEF HoldsLocal, Before
  <2> QED BY <2>5, <2>7
<1>9. ASSUME NEW u \in Threads
      PROVE  OldLocal(u, pc'[u], me'[u], states') /\ HoldsLocal(u, pc'[u], me'[u], states', grace')
  <2>1. CASE u # t \/ UNCHANGED <<pc, me>>
    BY <1>6, <1>7, <2>1
  <2>2. ASSUME NEW q, NEW x, Moves(t, q, x), q \notin Before, x.kind = me[t].kind, u = t
        PROVE  OldLocal(u, pc'[u], me'[u], states') /\ HoldsLocal(u, pc'[u], me'[u], states', grace')
    <3>1. pc'[u] = q /\ me'[u] = x
      BY <2>2 DEF Moves
    <3> QED BY <1>8, <2>2, <3>1
  <2> QED BY <1>6, <2>1, <2>2
<1> QED BY <1>5, <1>9 DEF HoldInv

\* A step that changes no slot and retires nothing.
LEMMA QuietHolds ==
  ASSUME TypeInv, HoldInv, NEW t \in Threads, ~destroyed, NEW q, NEW x, Moves(t, q, x),
         UNCHANGED <<states, grace, destroyed>>,
         OldLocal(t, q, x, states), HoldsLocal(t, q, x, states, grace)
  PROVE  HoldInv'
<1>1. RetiredInv'
  BY DEF HoldInv, RetiredInv
<1>2. ASSUME NEW u \in Threads
      PROVE  OldLocal(u, pc'[u], me'[u], states') /\ HoldsLocal(u, pc'[u], me'[u], states', grace')
  <2>1. u = t \/ (pc'[u] = pc[u] /\ me'[u] = me[u])
    BY DEF Moves
  <2>2. OldLocal(u, pc[u], me[u], states) /\ HoldsLocal(u, pc[u], me[u], states, grace)
    BY DEF HoldInv
  <2>3. CASE u = t
    BY <2>3 DEF Moves
  <2>4. CASE pc'[u] = pc[u] /\ me'[u] = me[u]
    BY <2>2, <2>4
  <2> QED BY <2>1, <2>3, <2>4
<1> QED BY <1>1, <1>2 DEF HoldInv

\* A call begins with nothing in its hands.
LEMMA BeginHolds ==
  ASSUME TypeInv, HoldInv, NEW t \in Threads, CallPush(t) \/ CallPop(t)
  PROVE  HoldInv'
<1>1. ASSUME NEW kind \in {"push", "pop"}, NEW node, Begin(t, kind, node)
      PROVE  HoldInv'
  <2> DEFINE x == [Idle EXCEPT !.kind = kind, !.node = node, !.i = 1, !.guarded = GuardedCall(kind)]
  <2>1. ~destroyed /\ Moves(t, "loadPhase", x) /\ UNCHANGED <<states, grace, destroyed>>
    BY <1>1 DEF Begin, MayStart, At, Goto, Keep, Moves, TypeInv
  <2>2. x.kind = kind /\ x.guarded = GuardedCall(kind)
    BY DEF Idle
  <2>3. StatesOf(x) = {NoState} /\ x.old = NoState /\ x.h.os = NoState /\ x.f.os = NoState
    BY DEF Idle, NoHelp, NoFinish, StatesOf
  <2> HIDE DEF x
  <2>4. OldLocal(t, "loadPhase", x, states)
    BY DEF OldLocal, Before
  <2>5. HoldsLocal(t, "loadPhase", x, states, grace)
    BY <2>2, <2>3, SlotsInUse DEF HoldsLocal, GuardedCall
  <2> QED BY <2>1, <2>4, <2>5, QuietHolds
<1> QED BY <1>1 DEF CallPush, CallPop

\* max_phase() reads what the slots hold; a push begins to hold behind its guard.
LEMMA PhaseHolds ==
  ASSUME TypeInv, HoldInv, NEW t \in Threads, LoadPhase(t) \/ ReadPhase(t) \/ LoadOld(t)
  PROVE  HoldInv'
<1> DEFINE m == me[t]
<1>1. /\ LocalsOK(pc[t], m) /\ m \in Locals /\ m.h \in HelpLocals
      /\ OldLocal(t, pc[t], m, states) /\ HoldsLocal(t, pc[t], m, states, grace)
  BY HasLocals DEF HoldInv
<1>2. pc[t] \in {"loadPhase", "readPhase", "loadOld"} /\ ~destroyed
  BY DEF LoadPhase, ReadPhase, LoadOld, At, HoldInv, RetiredInv
<1>3. ASSUME NEW q \in {"loadPhase", "readPhase", "loadOld", "announce"}, NEW x, Read(t, q, x),
             OldLocal(t, q, x, states), HoldsLocal(t, q, x, states, grace)
      PROVE  HoldInv'
  <2>1. Moves(t, q, x) /\ UNCHANGED <<states, grace, destroyed>>
    BY <1>3 DEF Read, Goto, Keep, Moves, TypeInv, bookkeeping
  <2> QED BY <1>2, <1>3, <2>1, QuietHolds
<1>4. /\ StateOf(NoState) \notin DOMAIN grace
      /\ \A v \in Threads : StateOf(states[v]) \notin DOMAIN grace
  BY <1>2, SlotsInUse
<1>5. NoHelp.os = NoState
  BY DEF NoHelp
<1>6. CASE LoadPhase(t)
  <2> DEFINE x == [m EXCEPT !.h.os = states[m.i]]
  <2>1. pc[t] = "loadPhase" /\ Read(t, "readPhase", x)
    BY <1>6 DEF LoadPhase, At
  <2>2. /\ x.kind = m.kind /\ x.guarded = m.guarded /\ x.old = m.old /\ x.i = m.i
        /\ x.h.os = states[m.i] /\ x.f = m.f
    BY <1>1 DEF Locals, HelpLocals
  <2>3. m.i \in Threads
    BY <1>1, <2>1 DEF LocalsOK
  <2> HIDE DEF m, x
  <2>4. OldLocal(t, "readPhase", x, states)
    BY DEF OldLocal, Before
  <2>5. HoldsLocal(t, "readPhase", x, states, grace)
    BY <1>1, <1>4, <2>1, <2>2, <2>3 DEF HoldsLocal, StatesOf
  <2> QED BY <1>3, <2>1, <2>4, <2>5
<1>7. CASE ReadPhase(t)
  <2> DEFINE n == [m EXCEPT !.h = NoHelp]
             seen == m.h.os
             max == IF n.phase < seen.phase THEN seen.phase ELSE n.phase
             y == [n EXCEPT !.phase = max, !.i = @ + 1]
             z == [n EXCEPT !.phase = PhaseAfter(max), !.guarded = TRUE, !.i = 0]
  <2>1. /\ pc[t] = "readPhase"
        /\ Read(t, "loadPhase", n) \/ Read(t, "loadPhase", y) \/ Read(t, "loadOld", z)
    BY <1>7 DEF ReadPhase, At
  <2>2. /\ n.kind = m.kind /\ n.guarded = m.guarded /\ n.old = m.old /\ n.h = NoHelp /\ n.f = m.f
        /\ y.kind = m.kind /\ y.guarded = m.guarded /\ y.old = m.old /\ y.h = NoHelp /\ y.f = m.f
        /\ z.guarded = TRUE /\ z.old = m.old /\ z.h = NoHelp /\ z.f = m.f
    BY <1>1 DEF Locals
  <2> HIDE DEF m, n, y, z
  <2>3. \A x : OldLocal(t, "loadPhase", x, states) /\ OldLocal(t, "loadOld", x, states)
    BY DEF OldLocal, Before
  <2>4. ASSUME NEW x, x.kind = m.kind, x.guarded = m.guarded, x.old = m.old, x.h = NoHelp, x.f = m.f
        PROVE  HoldsLocal(t, "loadPhase", x, states, grace)
    BY <1>1, <1>4, <1>5, <2>1, <2>4 DEF HoldsLocal, StatesOf
  <2>5. HoldsLocal(t, "loadOld", z, states, grace)
    BY <1>1, <1>4, <1>5, <2>1, <2>2 DEF HoldsLocal, StatesOf
  <2> QED BY <1>3, <2>1, <2>2, <2>3, <2>4, <2>5
<1>8. CASE LoadOld(t)
  <2> DEFINE x == [m EXCEPT !.old = states[t]]
  <2>1. pc[t] = "loadOld" /\ Read(t, "announce", x)
    BY <1>8 DEF LoadOld, At
  <2>2. x.guarded = m.guarded /\ x.old = states[t] /\ x.h = m.h /\ x.f = m.f
    BY <1>1 DEF Locals
  <2>3. states[t].tid = t
    BY DEF TypeInv
  <2> HIDE DEF m, x
  <2>4. OldLocal(t, "announce", x, states)
    BY <2>2, <2>3 DEF OldLocal, Before
  <2>5. HoldsLocal(t, "announce", x, states, grace)
    BY <1>1, <1>4, <2>1, <2>2 DEF HoldsLocal, StatesOf
  <2> QED BY <1>3, <2>1, <2>4, <2>5
<1> QED BY <1>6, <1>7, <1>8

\* The descriptor that an announcement replaces stays with the thread.
LEMMA AnnounceHolds ==
  ASSUME TypeInv, TypeInv', HelpInv, ApartInv, HoldInv, NEW t \in Threads, Announce(t)
  PROVE  HoldInv'
<1> DEFINE m == me[t]
           d == Descriptor(t, m.phase, TRUE, m.kind = "push", m.node, 0)
           x == [m EXCEPT !.ahead = {states[u] : u \in {v \in Threads : Pending(v, m.phase)}},
                          !.less = IF m.kind = "push" THEN m.phase ELSE m.phase - 1, !.i = 1]
<1>1. /\ pc[t] = "announce" /\ m \in Locals /\ m.old \in Descriptors /\ ~destroyed
      /\ OldLocal(t, "announce", m, states) /\ HoldsLocal(t, "announce", m, states, grace)
  BY HasLocals DEF HoldInv, RetiredInv, Announce, At, Locals
<1>2. CASE Crash("somethingWrong")
  BY <1>2 DEF Crash, HoldInv, RetiredInv
<1>3. CASE /\ states' = [states EXCEPT ![t] = d] /\ Goto(t, "scan") /\ Keep(t, x)
           /\ UNCHANGED bookkeeping
  <2>1. /\ pc'[t] = "scan" /\ me'[t] = x /\ states'[t] = d
        /\ \A u \in Threads \ {t} : pc'[u] = pc[u] /\ me'[u] = me[u] /\ states'[u] = states[u]
        /\ grace' = grace /\ destroyed' = destroyed
    BY <1>3 DEF Goto, Keep, TypeInv, bookkeeping
  <2>2. x.old = m.old /\ x.h = m.h /\ x.f = m.f /\ x.guarded = m.guarded /\ x.kind = m.kind
    BY <1>1 DEF Locals
  <2>3. After(states[t], d)
    <3>1. states[t].phase < m.phase
      BY <1>1, SeenBefore DEF HelpInv, Before
    <3> QED BY <3>1 DEF Descriptor, After
  <2> HIDE DEF d, x
  <2>4. /\ \A v \in Threads : states[v] \in Descriptors /\ states'[v] \in Descriptors
        /\ \A v \in Threads : states'[v] = states[v] \/ After(states[v], states'[v])
    BY <2>1, <2>3 DEF TypeInv
  <2>5. RetiredInv'
    BY <1>1, <2>1, <2>4, RetiredStays DEF HoldInv
  <2>6. OldLocal(t, "scan", x, states')
    <3>1. m.old.tid = t /\ (m.old = states[t] \/ After(m.old, states[t]))
      BY <1>1 DEF OldLocal
    <3>2. After(m.old, d)
      BY <1>1, <2>1, <2>3, <2>4, <3>1, AfterAfter
    <3> QED BY <2>1, <2>2, <3>1, <3>2 DEF OldLocal
  <2>7. HoldsLocal(t, "scan", x, states', grace')
    BY <1>1, <2>1, <2>2 DEF HoldsLocal, StatesOf
  <2>8. ASSUME NEW u \in Threads \ {t}
        PROVE  OldLocal(u, pc'[u], me'[u], states') /\ HoldsLocal(u, pc'[u], me'[u], states', grace')
    <3>1. /\ OldLocal(u, pc[u], me[u], states) /\ HoldsLocal(u, pc[u], me[u], states, grace)
          /\ me[u].old \in Descriptors
      BY HasLocals DEF HoldInv, Locals
    <3>2. pc[u] = "readPhase" /\ me[u].kind = "push" /\ ~MeetsPush("push") => states' = states
      BY <1>1, ReaderAlone
    <3>3. me[u].guarded =>
            \A o : (o \in DOMAIN grace => u \in grace[o]) /\ o \in DOMAIN grace' => u \in grace'[o]
      BY <2>1
    <3>4. states'[u] = states[u] \/ After(states[u], states'[u])
      BY <2>1
    <3>5. OldLocal(u, pc[u], me[u], states') /\ HoldsLocal(u, pc[u], me[u], states', grace')
      BY <2>4, <3>1, <3>2, <3>3, <3>4, HoldsStay
    <3> QED BY <2>1, <3>5
  <2> QED BY <2>1, <2>5, <2>6, <2>7, <2>8 DEF HoldInv
<1> QED BY <1>2, <1>3 DEF Announce

\* An operation that returns retires the descriptor it has replaced, and lets go of all.
LEMMA EndHolds ==
  ASSUME TypeInv, TypeInv', HoldInv, NEW t \in Threads,
         PushNext(t) \/ PushClear(t) \/ PopAssert(t) \/ PopReturn(t)
  PROVE  HoldInv'
<1> DEFINE m == me[t]
<1>1. /\ pc[t] \in Ends /\ pc[t] \notin Before /\ ~destroyed
      /\ m \in Locals /\ m.old \in Descriptors
      /\ OldLocal(t, pc[t], m, states) /\ HoldsLocal(t, pc[t], m, states, grace)
  BY HasLocals DEF PushNext, PushClear, PopAssert, PopReturn, At, Ends, Before, HoldInv, RetiredInv,
     Locals
<1>2. m.old.tid = t /\ After(m.old, states[t]) /\ m.guarded
  BY <1>1 DEF OldLocal, HoldsLocal, Before, Ends
<1>3. ASSUME NEW objects, Leave(t, objects),
             \A d : StateOf(d) \in objects => d = m.old
      PROVE  HoldInv'
  <2>1. /\ Retire(objects, Threads \ {t}) /\ Moves(t, "idle", Idle) /\ states' = states
        /\ destroyed' = destroyed
    BY <1>3 DEF Leave, Goto, Keep, Moves, TypeInv
  <2>2. /\ DOMAIN grace' = DOMAIN grace \cup objects
        /\ \A u \in Threads \ {t} : me[u].guarded =>
             \A o : (o \in DOMAIN grace => u \in grace[o]) /\ o \in DOMAIN grace' => u \in grace'[o]
    BY <2>1, RetireKeeps
  <2>3. RetiredInv'
    <3>1. ASSUME NEW d, StateOf(d) \in DOMAIN grace', StateOf(d) \notin DOMAIN grace
          PROVE  d \in Descriptors /\ d.tid \in Threads /\ After(d, states'[d.tid])
      <4>1. d = m.old
        BY <1>3, <2>2, <3>1
      <4> QED BY <1>1, <1>2, <2>1, <4>1
    <3> QED BY <1>1, <2>1, <3>1, RetiredStays DEF HoldInv
  <2>4. OldLocal(t, "idle", Idle, states')
    BY DEF OldLocal, Before
  <2>5. HoldsLocal(t, "idle", Idle, states', grace')
    <3>1. /\ StatesOf(Idle) = {NoState} /\ Idle.old = NoState /\ Idle.h.os = NoState
          /\ Idle.f.os = NoState /\ Idle.kind = "none"
      BY DEF Idle, NoHelp, NoFinish, StatesOf
    <3>2. StateOf(NoState) \notin DOMAIN grace'
      <4>1. NoState.tid \notin Threads
        BY DEF NoState, Descriptor, Threads
      <4> QED BY <2>3, <4>1 DEF RetiredInv
    <3> QED BY <3>1, <3>2 DEF HoldsLocal
  <2>6. ASSUME NEW u \in Threads \ {t}
        PROVE  OldLocal(u, pc'[u], me'[u], states') /\ HoldsLocal(u, pc'[u], me'[u], states', grace')
    <3>1. /\ OldLocal(u, pc[u], me[u], states) /\ HoldsLocal(u, pc[u], me[u], states, grace)
          /\ me[u].old \in Descriptors /\ states[u] \in Descriptors /\ states'[u] \in Descriptors
      BY HasLocals DEF HoldInv, Locals, TypeInv
    <3>2. me[u].guarded =>
            \A o : (o \in DOMAIN grace => u \in grace[o]) /\ o \in DOMAIN grace' => u \in grace'[o]
      BY <2>2
    <3>3. OldLocal(u, pc[u], me[u], states') /\ HoldsLocal(u, pc[u], me[u], states', grace')
      BY <2>1, <3>1, <3>2, HoldsStay
    <3> QED BY <2>1, <3>3 DEF Moves
  <2> QED BY <2>1, <2>3, <2>4, <2>5, <2>6 DEF HoldInv, Moves
<1>4. ASSUME NEW q \in Ends, NEW x, Read(t, q, x), x.guarded = m.guarded, x.old = m.old,
             StatesOf(x) = StatesOf(m)
      PROVE  HoldInv'
  <2>1. Moves(t, q, x) /\ UNCHANGED <<states, grace, destroyed>>
    BY <1>4 DEF Read, Goto, Keep, Moves, TypeInv, bookkeeping
  <2>2. OldLocal(t, q, x, states)
    BY <1>2, <1>4 DEF OldLocal, Before, Ends
  <2>3. HoldsLocal(t, q, x, states, grace)
    BY <1>1, <1>2, <1>4 DEF HoldsLocal, Before, Ends
  <2> QED BY <1>1, <2>1, <2>2, <2>3, QuietHolds
<1>5. CASE PushNext(t)
  <2> DEFINE x == [m EXCEPT !.f.nx = next[m.node]]
  <2>1. Leave(t, {StateOf(m.old)}) \/ Read(t, "pushClear", x)
    BY <1>5 DEF PushNext
  <2>2. x.guarded = m.guarded /\ x.old = m.old /\ x.h = m.h /\ x.f.os = m.f.os
    <3>1. m.f \in FinishLocals
      BY HasLocals
    <3> QED BY <1>1, <3>1 DEF Locals, FinishLocals
  <2> HIDE DEF x, m
  <2>3. StatesOf(x) = StatesOf(m)
    BY <2>2 DEF StatesOf
  <2>4. \A d : StateOf(d) \in {StateOf(m.old)} => d = m.old
    BY StateOfIsOwn
  <2> QED BY <1>3, <1>4, <2>1, <2>2, <2>3, <2>4 DEF Ends
<1>6. CASE PushClear(t)
  BY <1>3, <1>6, StateOfIsOwn DEF PushClear
<1>7. CASE PopAssert(t)
  <2>1. Crash("stillPending") \/ Read(t, "popReturn", m)
    BY <1>7 DEF PopAssert
  <2>2. CASE Crash("stillPending")
    BY <2>2 DEF Crash, HoldInv, RetiredInv
  <2> QED BY <1>4, <2>1, <2>2 DEF Ends
<1>8. CASE PopReturn(t)
  <2>1. \E n : Leave(t, {}) \/ Leave(t, {NodeOf(n), StateOf(m.old)})
    BY <1>8 DEF PopReturn
  <2> QED BY <1>3, <2>1, StateOfIsOwn
<1> QED BY <1>5, <1>6, <1>7, <1>8

\* ~Stack() retires the descriptors in the slots when nobody is left to hold them.
LEMMA DestroyHolds ==
  ASSUME TypeInv, HoldInv, Destroy
  PROVE  HoldInv'
<1>1. /\ \A t \in Threads : pc[t] = "idle"
      /\ UNCHANGED <<states, pc, me>> /\ destroyed' = TRUE
      /\ Retire({NodeOf(n) : n \in Chain} \cup {StateOf(states[t]) : t \in Threads}, Threads)
  BY DEF Destroy
<1>2. DOMAIN grace' = DOMAIN grace \cup ({NodeOf(n) : n \in Chain} \cup {StateOf(states[t]) : t \in Threads})
  BY <1>1, RetireKeeps
<1>3. RetiredInv'
  <2>1. ASSUME NEW d, StateOf(d) \in DOMAIN grace' PROVE d \in Descriptors /\ d.tid \in Threads
    <3>1. CASE StateOf(d) \in DOMAIN grace
      BY <3>1 DEF HoldInv, RetiredInv
    <3>2. CASE StateOf(d) \notin DOMAIN grace
      <4>1. PICK t \in Threads : d = states[t]
        BY <1>2, <2>1, <3>2, StateOfIsOwn
      <4> QED BY <4>1 DEF TypeInv
    <3> QED BY <3>1, <3>2
  <2> QED BY <1>1, <2>1 DEF RetiredInv
<1>4. StateOf(NoState) \notin DOMAIN grace'
  <2>1. NoState.tid \notin Threads
    BY DEF NoState, Descriptor, Threads
  <2> QED BY <1>3, <2>1 DEF RetiredInv
<1>5. ASSUME NEW t \in Threads
      PROVE  OldLocal(t, pc'[t], me'[t], states') /\ HoldsLocal(t, pc'[t], me'[t], states', grace')
  <2>1. OldLocal(t, "idle", me[t], states) /\ HoldsLocal(t, "idle", me[t], states, grace)
    BY <1>1 DEF HoldInv
  <2>2. OldLocal(t, "idle", me[t], states') /\ HoldsLocal(t, "idle", me[t], states', grace')
    BY <1>1, <1>4, <2>1 DEF OldLocal, HoldsLocal
  <2> QED BY <1>1, <2>2
<1> QED BY <1>3, <1>5 DEF HoldInv

LEMMA HoldInit == Init => HoldInv
<1> SUFFICES ASSUME Init PROVE HoldInv
  OBVIOUS
<1>1. DOMAIN grace = {} /\ ~destroyed
  BY DEF Init
<1>2. /\ StatesOf(Idle) = {NoState} /\ Idle.old = NoState /\ Idle.h.os = NoState
      /\ Idle.f.os = NoState /\ Idle.kind = "none"
  BY DEF Idle, NoHelp, NoFinish, StatesOf
<1>3. ASSUME NEW t \in Threads
      PROVE  OldLocal(t, "idle", Idle, states) /\ HoldsLocal(t, "idle", Idle, states, grace)
  BY <1>1, <1>2 DEF OldLocal, HoldsLocal, Before
<1> QED BY <1>1, <1>3 DEF Init, HoldInv, RetiredInv

LEMMA HoldStep ==
  TypeInv /\ TypeInv' /\ HelpInv /\ MeetInv /\ HoldInv /\ [Next]_vars => HoldInv'
<1> SUFFICES ASSUME TypeInv, TypeInv', HelpInv, MeetInv, HoldInv, [Next]_vars PROVE HoldInv'
  OBVIOUS
<1> DEFINE Goal == HoldInv'
<1>0. ApartInv
  BY DEF MeetInv
<1>1. ASSUME NEW t \in Threads, CallPush(t) \/ CallPop(t) PROVE Goal
  BY <1>1, BeginHolds
<1>2. ASSUME NEW t \in Threads, LoadPhase(t) \/ ReadPhase(t) \/ LoadOld(t) PROVE Goal
  BY <1>2, PhaseHolds
<1>3. ASSUME NEW t \in Threads, Announce(t) PROVE Goal
  BY <1>0, <1>3, AnnounceHolds
<1>4. ASSUME NEW t \in Threads, Help(t) \/ Finish(t) PROVE Goal
  BY <1>0, <1>4, HelpKeepsHolds
<1>5. ASSUME NEW t \in Threads, PushNext(t) \/ PushClear(t) \/ PopAssert(t) \/ PopReturn(t)
      PROVE  Goal
  BY <1>5, EndHolds
<1>6. ASSUME Destroy PROVE Goal
  BY <1>6, DestroyHolds
<1>7. ASSUME UNCHANGED vars PROVE Goal
  BY <1>7 DEF vars, bookkeeping, HoldInv, RetiredInv
<1> HIDE DEF Goal
<1>8. Goal
  BY ONLY [Next]_vars, <1>1, <1>2, <1>3, <1>4, <1>5, <1>6, <1>7 DEF Next, Step
<1> QED BY <1>8 DEF Goal

LEMMA HoldInvHolds == Spec => [](TypeInv /\ HoldInv)
<1>1. Spec => []HoldInv
  BY MeetInvHolds, HoldInit, HoldStep, PTL DEF Spec
<1> QED BY <1>1, MeetInvHolds, PTL

\* What is held inside a guard is covered by it.
LEMMA GuardProtects ==
  ASSUME HoldInv, NEW t \in Threads, me[t].guarded, NEW d \in HeldStates(t)
  PROVE  Covered(t, StateOf(d))
<1>1. d \in StatesOf(me[t]) /\ HoldsLocal(t, pc[t], me[t], states, grace)
  BY DEF HeldStates, StatesOf, HoldInv
<1> QED BY <1>1 DEF HoldsLocal, Covered

\* A thread inside its ref_guard has been there since before any of the descriptors it
\* holds was handed to safe_free(), whatever operations overlap.
THEOREM GuardedStatesCovered ==
  Spec => [](\A t \in Threads : me[t].guarded => \A d \in HeldStates(t) : Covered(t, StateOf(d)))
<1>1. HoldInv => \A t \in Threads : me[t].guarded => \A d \in HeldStates(t) : Covered(t, StateOf(d))
  BY GuardProtects
<1> QED BY <1>1, HoldInvHolds, PTL

\* If pushes meet no other operation, no descriptor that a thread holds outside its
\* guard has been handed over either: push() loads some in max_phase() (stack.hpp:153).
LEMMA StatesAlwaysCovered == "push" \notin Overlap => (Spec => []HeldStatesCovered)
<1> SUFFICES ASSUME "push" \notin Overlap PROVE Spec => []HeldStatesCovered
  OBVIOUS
<1>1. TypeInv /\ HoldInv => HeldStatesCovered
  <2> SUFFICES ASSUME TypeInv, HoldInv, NEW t \in Threads, NEW d \in HeldStates(t)
               PROVE  Covered(t, StateOf(d))
    BY DEF HeldStatesCovered
  <2> DEFINE m == me[t]
  <2>1. CASE m.guarded
    BY <2>1, GuardProtects
  <2>2. CASE ~m.guarded
    <3>1. /\ HoldsLocal(t, pc[t], m, states, grace) /\ LocalsOK(pc[t], m) /\ m \in Locals
      BY HasLocals DEF HoldInv
    <3>2. d = NoState \/ (pc[t] = "readPhase" /\ d = m.h.os)
      BY <2>2, <3>1 DEF HeldStates, HoldsLocal
    <3>3. CASE d = NoState
      BY <3>3, SlotsInUse DEF Covered
    <3>4. CASE pc[t] = "readPhase" /\ d = m.h.os
      <4>1. m.kind = "push" /\ m.i \in Threads
        BY <2>2, <3>1, <3>4 DEF HoldsLocal, LocalsOK, Locals
      <4>2. d = states[m.i]
        BY <3>1, <3>4, <4>1 DEF HoldsLocal, MeetsPush
      <4>3. ~destroyed
        BY <3>4 DEF HoldInv, RetiredInv
      <4> QED BY <4>1, <4>2, <4>3, SlotsInUse DEF Covered
    <3> QED BY <3>2, <3>3, <3>4
  <2> QED BY <2>1, <2>2
<1> QED BY <1>1, HoldInvHolds, PTL
================================================================================
