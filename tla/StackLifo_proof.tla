----------------------------- MODULE StackLifo_proof -----------------------------
(***************************************************************************)
(* Theorems about Stack for any number of threads, pushes and pops, if no  *)
(* push meets another operation: what happens to the stack itself.  Sound  *)
(* is the inductive invariant of the chain, the winners and the nodes the  *)
(* threads hold.  SpareInv, EmptyPopInv and NothingInv count the elements  *)
(* that are left for the pops: they keep all pops but a lone one off an    *)
(* empty stack, where the code has no answer.  What Sound says of pops     *)
(* that meet makes every step one of Lifo's, or none.                      *)
(***************************************************************************)
EXTENDS Stack_proof, WellFoundedInduction, FiniteSetTheorems, SequenceTheorems

-------------------------------------------------------------------------------
(* The chain: what can be reached from a node.                             *)

\* Induction over the natural numbers, for a set in place of a predicate.
LEMMA SetInduction ==
  ASSUME NEW S, 0 \in S, \A n \in S : n + 1 \in S
  PROVE  Nat \subseteq S
<1> SUFFICES ASSUME NEW z \in Nat, z \notin S PROVE FALSE
  OBVIOUS
<1> DEFINE T == Nat \ S
           R == OpToRel(<, Nat)
<1>1. T \subseteq Nat /\ T # {}
  OBVIOUS
<1>2. \A a, b \in Nat : a < b => <<a, b>> \in R
  BY DEF OpToRel
<1>3. IsWellFoundedOn(R, Nat)
  BY NatLessThanWellFounded
<1> HIDE DEF T, R
<1>4. PICK x \in T : \A y \in T : <<y, x>> \notin R
  BY <1>1, <1>3, WFMin
<1>5. x \in Nat /\ x # 0 /\ x \notin S
  BY <1>4 DEF T
<1>6. x - 1 \in Nat /\ x - 1 < x /\ (x - 1) + 1 = x
  BY <1>5
<1>7. x - 1 \notin S
  BY <1>5, <1>6
<1>8. x - 1 \in T
  BY <1>6, <1>7 DEF T
<1> QED BY <1>2, <1>4, <1>5, <1>6, <1>8

\* The nodes that can be reached along the links nx: Reachable and Chain with the links
\* as an argument, to speak of those before and after a step.
Reach(first, nx) ==
  LET reach[k \in 0..MaxPush] ==
        IF k = 0 THEN first \ {NULL}
        ELSE LET seen == reach[k-1] IN seen \cup ({nx[n] : n \in seen} \ {NULL})
  IN  reach[MaxPush]

\* The chain is what can be reached from the head.
LEMMA ChainIs ==
  /\ Chain = Reach({head}, next)
  /\ Chain' = Reach({head'}, next')
  BY DEF Chain, Reachable, Reach

\* The nodes after m links.
ReachesIn(f, first, nx, m) ==
  f = [k \in 0..m |-> IF k = 0 THEN first \ {NULL}
                      ELSE LET seen == f[k-1] IN seen \cup ({nx[n] : n \in seen} \ {NULL})]

\* Nodes at most k links away: the recursive function of Reachable, unfolded.
LEMMA ReachDefined ==
  ASSUME NEW first, NEW nx
  PROVE  \E f : ReachesIn(f, first, nx, MaxPush) /\ Reach(first, nx) = f[MaxPush]
<1> DEFINE S == {m \in Nat : \E f : ReachesIn(f, first, nx, m)}
<1>1. 0 \in S
  <2> DEFINE f == [k \in 0..0 |-> first \ {NULL}]
  <2>1. ReachesIn(f, first, nx, 0)
    BY DEF ReachesIn
  <2> QED BY <2>1
<1>2. ASSUME NEW m \in S PROVE m + 1 \in S
  <2>1. PICK f : ReachesIn(f, first, nx, m)
    OBVIOUS
  <2> DEFINE after == f[m] \cup ({nx[n] : n \in f[m]} \ {NULL})
             g == [k \in 0..m+1 |-> IF k = m + 1 THEN after ELSE f[k]]
  <2>2. m \in Nat
    OBVIOUS
  <2>3. ReachesIn(g, first, nx, m + 1)
    <3>1. \A k \in 0..m : f[k] = IF k = 0 THEN first \ {NULL}
                                 ELSE f[k-1] \cup ({nx[n] : n \in f[k-1]} \ {NULL})
      BY <2>1, <2>2 DEF ReachesIn
    <3>2. \A k \in 0..m : g[k] = f[k]
      BY <2>2
    <3>3. g[m+1] = after
      BY <2>2
    <3> DEFINE h == [k \in 0..m+1 |-> IF k = 0 THEN first \ {NULL}
                      ELSE LET seen == g[k-1] IN seen \cup ({nx[n] : n \in seen} \ {NULL})]
    <3>4. ASSUME NEW k \in 0..m+1 PROVE g[k] = h[k]
      <4>1. CASE k = m + 1
        <5>1. g[k-1] = f[m] /\ k # 0
          BY <2>2, <3>2, <4>1
        <5> HIDE DEF g
        <5>2. h[k] = g[k-1] \cup ({nx[n] : n \in g[k-1]} \ {NULL})
          BY <2>2, <5>1
        <5> QED BY <3>3, <4>1, <5>1, <5>2
      <4>2. CASE k # m + 1 /\ k # 0
        <5>1. k \in 0..m /\ k - 1 \in 0..m
          BY <2>2, <4>2
        <5>2. g[k] = f[k] /\ g[k-1] = f[k-1]
          BY <3>2, <5>1
        <5> HIDE DEF g
        <5>3. h[k] = g[k-1] \cup ({nx[n] : n \in g[k-1]} \ {NULL})
          BY <2>2, <4>2
        <5> QED BY <3>1, <4>2, <5>1, <5>2, <5>3
      <4>3. CASE k # m + 1 /\ k = 0
        <5>1. g[k] = f[k] /\ k \in 0..m
          BY <2>2, <3>2, <4>3
        <5> HIDE DEF g
        <5>2. h[k] = first \ {NULL}
          BY <2>2, <4>3
        <5> QED BY <3>1, <4>3, <5>1, <5>2
      <4> QED BY <4>1, <4>2, <4>3
    <3>5. g = h
      <4>1. g = [k \in 0..m+1 |-> g[k]] /\ h = [k \in 0..m+1 |-> h[k]]
        OBVIOUS
      <4> HIDE DEF g, h
      <4> QED BY <3>4, <4>1
    <3> QED BY <3>5 DEF ReachesIn
  <2> QED BY <2>2, <2>3
<1> HIDE DEF S
<1>3. MaxPush \in S
  BY <1>1, <1>2, SetInduction, StackAssumption
<1>4. PICK f : ReachesIn(f, first, nx, MaxPush)
  BY <1>3 DEF S
<1> DEFINE reach == CHOOSE r : ReachesIn(r, first, nx, MaxPush)
<1>5. ReachesIn(reach, first, nx, MaxPush)
  BY <1>4
<1>6. Reach(first, nx) = reach[MaxPush]
  BY DEF Reach, ReachesIn
<1> QED BY <1>5, <1>6

\* What can be reached is in every set that is closed under the links.
LEMMA ReachLeast ==
  ASSUME NEW first, NEW nx, NEW S, first \ {NULL} \subseteq S,
         \A n \in S : nx[n] \in S \cup {NULL}
  PROVE  Reach(first, nx) \subseteq S
<1>1. PICK f : ReachesIn(f, first, nx, MaxPush) /\ Reach(first, nx) = f[MaxPush]
  BY ReachDefined
<1>2. MaxPush \in Nat
  BY StackAssumption
<1> DEFINE T == {k \in Nat : k <= MaxPush => f[k] \subseteq S}
<1>3. 0 \in T
  <2>1. f[0] = first \ {NULL}
    BY <1>1, <1>2 DEF ReachesIn
  <2> QED BY <2>1
<1>4. ASSUME NEW k \in T PROVE k + 1 \in T
  <2>1. k \in Nat
    OBVIOUS
  <2>2. ASSUME k + 1 <= MaxPush PROVE f[k+1] \subseteq S
    <3>1. f[k+1] = f[k] \cup ({nx[n] : n \in f[k]} \ {NULL})
      <4>1. k + 1 \in 0..MaxPush /\ k + 1 # 0 /\ (k + 1) - 1 = k
        BY <1>2, <2>1, <2>2
      <4> QED BY <1>1, <4>1 DEF ReachesIn
    <3>2. f[k] \subseteq S
      BY <1>2, <2>1, <2>2
    <3> QED BY <3>1, <3>2
  <2> QED BY <2>1, <2>2
<1>5. MaxPush \in T
  <2> HIDE DEF T
  <2> QED BY <1>2, <1>3, <1>4, SetInduction
<1> QED BY <1>1, <1>2, <1>5

\* Links lead from a node to an older one.
Downward(nx) == nx \in [Nodes -> Links] /\ \A n \in Nodes : nx[n] < n

\* Then it is closed itself: what is new after k links is at most MaxPush - k.
LEMMA ReachClosed ==
  ASSUME NEW first \in SUBSET Links, NEW nx, Downward(nx)
  PROVE  /\ Reach(first, nx) \subseteq Nodes
         /\ first \ {NULL} \subseteq Reach(first, nx)
         /\ \A n \in Reach(first, nx) : nx[n] \in Reach(first, nx) \cup {NULL}
<1>1. PICK f : ReachesIn(f, first, nx, MaxPush) /\ Reach(first, nx) = f[MaxPush]
  BY ReachDefined
<1>2. MaxPush \in Nat
  BY StackAssumption
<1>3. /\ first \ {NULL} \subseteq Nodes
      /\ \A n \in Nodes : nx[n] \in Nodes \cup {NULL} /\ nx[n] < n
      /\ \A n \in Nodes : n \in Nat /\ 1 <= n /\ n <= MaxPush
  BY <1>2 DEF Downward, Nodes, Links, NULL
<1> DEFINE Good(k) ==
             /\ f[k] \subseteq Nodes /\ first \ {NULL} \subseteq f[k]
             /\ \A n \in f[k] : nx[n] \in f[k] \cup {NULL} \/ n <= MaxPush - k
           T == {k \in Nat : k <= MaxPush => Good(k)}
<1>4. 0 \in T
  <2>1. f[0] = first \ {NULL}
    BY <1>1, <1>2 DEF ReachesIn
  <2>2. \A n \in f[0] : n <= MaxPush - 0
    BY <1>2, <1>3, <2>1
  <2> QED BY <1>3, <2>1, <2>2
<1>5. ASSUME NEW k \in T PROVE k + 1 \in T
  <2>1. k \in Nat
    OBVIOUS
  <2>2. ASSUME k + 1 <= MaxPush PROVE Good(k + 1)
    <3>1. f[k+1] = f[k] \cup ({nx[n] : n \in f[k]} \ {NULL})
      <4>1. k + 1 \in 0..MaxPush /\ k + 1 # 0 /\ (k + 1) - 1 = k
        BY <1>2, <2>1, <2>2
      <4> QED BY <1>1, <4>1 DEF ReachesIn
    <3>2. Good(k)
      BY <1>2, <2>1, <2>2
    <3>3. f[k+1] \subseteq Nodes /\ first \ {NULL} \subseteq f[k+1]
      BY <1>3, <3>1, <3>2
    <3>4. ASSUME NEW n \in f[k+1] PROVE nx[n] \in f[k+1] \cup {NULL} \/ n <= MaxPush - (k + 1)
      <4>1. CASE n \in f[k]
        BY <3>1, <4>1
      <4>2. CASE n \notin f[k]
        <5>1. PICK m \in f[k] : n = nx[m] /\ n # NULL
          BY <3>1, <4>2
        <5>2. m <= MaxPush - k
          BY <3>2, <4>2, <5>1
        <5>3. n < m /\ n \in Nat /\ m \in Nat
          BY <1>3, <3>2, <3>3, <5>1
        <5> QED BY <1>2, <2>1, <5>2, <5>3
      <4> QED BY <4>1, <4>2
    <3> QED BY <3>3, <3>4
  <2> HIDE DEF Good
  <2> QED BY <2>1, <2>2
<1>6. MaxPush \in T
  <2> HIDE DEF T
  <2> QED BY <1>2, <1>4, <1>5, SetInduction
<1>7. Good(MaxPush)
  BY <1>2, <1>6
<1>8. \A n \in Nodes : ~(n <= MaxPush - MaxPush)
  BY <1>2, <1>3
<1> QED BY <1>1, <1>7, <1>8

\* The links of other nodes do not matter.
LEMMA ReachSame ==
  ASSUME NEW first \in SUBSET Links, NEW nx, NEW nxt, Downward(nx), Downward(nxt),
         \A n \in Reach(first, nx) : nxt[n] = nx[n]
  PROVE  Reach(first, nxt) = Reach(first, nx)
<1> DEFINE R == Reach(first, nx)
           S == Reach(first, nxt)
<1>1. /\ first \ {NULL} \subseteq R /\ \A n \in R : nx[n] \in R \cup {NULL}
      /\ first \ {NULL} \subseteq S /\ \A n \in S : nxt[n] \in S \cup {NULL}
  BY ReachClosed
<1>2. S \subseteq R
  <2> HIDE DEF R
  <2> QED BY <1>1, ReachLeast DEF R
<1>3. R \subseteq S
  <2>1. first \ {NULL} \subseteq S \cap R /\ \A n \in S \cap R : nx[n] \in (S \cap R) \cup {NULL}
    BY <1>1
  <2>2. R \subseteq S \cap R
    <3> DEFINE Q == S \cap R
    <3> HIDE DEF Q
    <3>1. Reach(first, nx) \subseteq Q
      BY <2>1, ReachLeast DEF Q
    <3> QED BY <3>1 DEF Q
  <2> QED BY <2>2
<1> QED BY <1>2, <1>3

\* A list is its first node and the list behind it, which is older.
LEMMA ReachFirst ==
  ASSUME NEW n \in Nodes, NEW nx, Downward(nx)
  PROVE  /\ Reach({n}, nx) = Reach({nx[n]}, nx) \cup {n}
         /\ n \notin Reach({nx[n]}, nx)
         /\ \A a \in Reach({n}, nx) : a <= n
<1> DEFINE R == Reach({nx[n]}, nx)
           S == Reach({n}, nx)
<1>1. /\ n \in Links /\ n # NULL /\ nx[n] \in Links /\ nx[n] < n
      /\ \A a \in Nodes : nx[a] \in Nodes \cup {NULL} /\ nx[a] < a
      /\ \A a \in Nodes : a \in Nat
  BY StackAssumption DEF Downward, Nodes, Links, NULL
<1>2. /\ R \subseteq Nodes /\ {nx[n]} \ {NULL} \subseteq R /\ \A a \in R : nx[a] \in R \cup {NULL}
      /\ S \subseteq Nodes /\ n \in S /\ \A a \in S : nx[a] \in S \cup {NULL}
  <2>1. {n} \in SUBSET Links /\ {nx[n]} \in SUBSET Links /\ n \in {n} \ {NULL}
    BY <1>1
  <2> QED BY <2>1, ReachClosed
<1>3. S \subseteq R \cup {n}
  <2> DEFINE Q == R \cup {n}
  <2>1. {n} \ {NULL} \subseteq Q /\ \A a \in Q : nx[a] \in Q \cup {NULL}
    BY <1>2
  <2> HIDE DEF Q
  <2>2. S \subseteq Q
    BY <2>1, ReachLeast
  <2> QED BY <2>2 DEF Q
<1>4. R \subseteq S
  <2>1. {nx[n]} \ {NULL} \subseteq S
    BY <1>2
  <2> HIDE DEF S
  <2> QED BY <1>2, <2>1, ReachLeast
<1>5. \A a \in R : a < n
  <2> DEFINE Q == {a \in Nodes : a < n}
  <2>1. {nx[n]} \ {NULL} \subseteq Q /\ \A a \in Q : nx[a] \in Q \cup {NULL}
    <3>1. \A a \in Q : nx[a] < n /\ nx[a] \in Nodes \cup {NULL}
      <4> SUFFICES ASSUME NEW a \in Q PROVE nx[a] < n /\ nx[a] \in Nodes \cup {NULL}
        OBVIOUS
      <4>1. a \in Nodes /\ a < n /\ nx[a] < a /\ nx[a] \in Links /\ a \in Nat /\ n \in Nat
        BY <1>1 DEF Downward
      <4>2. nx[a] \in Nat
        BY <4>1 DEF Links
      <4> QED BY <1>1, <4>1, <4>2
    <3> QED BY <1>1, <3>1
  <2> HIDE DEF Q
  <2>2. R \subseteq Q
    BY <2>1, ReachLeast
  <2> QED BY <2>2 DEF Q
<1>6. \A a \in R \cup {n} : a <= n
  BY <1>1, <1>2, <1>5
<1>7. n \notin R
  BY <1>1, <1>5
<1>8. S = R \cup {n}
  BY <1>2, <1>3, <1>4
<1> QED BY <1>6, <1>7, <1>8

\* NULL leads nowhere.
LEMMA ReachNothing ==
  ASSUME NEW nx
  PROVE  Reach({NULL}, nx) = {}
<1>1. Reach({NULL}, nx) \subseteq {}
  <2>1. {NULL} \ {NULL} \subseteq {} /\ \A n \in {} : nx[n] \in {} \cup {NULL}
    OBVIOUS
  <2> QED BY <2>1, ReachLeast
<1> QED BY <1>1

-------------------------------------------------------------------------------
(* The stack itself, if pushes meet no other operation.                    *)

\* A node that a pop has found at the head: it is there still, or has been popped
\* and keeps its winner.
Passed(n, hd, ch, wn) == n = hd \/ (n \in Nodes /\ n \notin ch /\ wn[n] > 0)

\* help_pop() holds a head, finish() holds one, and a descriptor too.
PopHolds == {"popState", "popEmpty", "popNothing", "popWinner", "popCheck", "popStill", "popWin"}
FinishHolds == Finishing \ {"finish"}
FinishReads == {"sameHead", "sameWinner", "sameState"} \cup FinishPop

\* What thread t, which pops, knows of the head hd, the chain ch, the links nx, the
\* winners wn and the slots st.
PopLocal(t, p, m, hd, ch, nx, wn, st) ==
  /\ p \notin HelpPush \cup FinishPush \cup {"popClear", "pushNext", "pushClear"}
  /\ p \in PopHolds => Passed(m.h.oh, hd, ch, wn)
  /\ p \in {"popEmpty", "popNothing"} => m.h.oh = NULL
  /\ p = "popCheck" => m.h.ow >= 0
  /\ p \in {"popStill", "popWin"} => m.h.ow = 0
  /\ p = "popWin" /\ wn[m.h.oh] = 0 => st[m.i].pending
  /\ p \in Finishing => m.f.back \in {"popWhile", "popAssert"}
  /\ p \in FinishHolds => Passed(m.f.oh, hd, ch, wn)
  /\ p \in {"finishState"} \cup FinishReads => m.f.tid > 0 /\ wn[m.f.oh] = m.f.tid
  /\ p \in FinishReads =>
       /\ m.f.os.tid = m.f.tid
       /\ m.f.os = st[m.f.tid] \/ After(m.f.os, st[m.f.tid])
       /\ m.f.oh = hd =>
            ~m.f.os.push /\ (m.f.os = st[m.f.tid] \/ (m.f.os.pending /\ ~st[m.f.tid].pending))
  /\ p \in FinishReads \ {"sameHead"} =>
       ~m.f.os.push /\ (m.f.os = st[m.f.tid] /\ m.f.os.pending => m.f.oh = hd)
  /\ p \in {"popStays", "popFinish", "popSwing"} => m.f.nx = nx[m.f.oh]
  /\ p = "popSwing" /\ m.f.oh = hd => ~st[m.f.tid].pending
  /\ HelpDone(p, m) /\ st[t].node \in ch =>
       p \in Finishing /\ (p # "finish" => m.f.oh = hd)

Clean(s, wn) == \A n \in s : wn[n] = 0

\* The node of a push is not in the chain yet, and nobody has linked it.
Fresh(n, ch, nx) == n \notin ch /\ nx[n] = NULL

\* The places of a push whose node is still to be put on the stack, before it has won the head.
PushStarts ==
  {"dispatch", "pushHead", "pushState", "pushCheck", "pushPending", "pushSame", "pushFirst",
   "pushWinner", "pushRecheck", "pushStill", "pushWin"}

PushEmpty == {"pushPending", "pushSame", "pushFirst"}

\* ... and those where it has.
PushWon ==
  {"finish", "finishWinner", "finishState", "sameHead", "sameWinner", "sameState",
   "pushStays", "pushMark"}

PushReads == {"sameHead", "sameWinner", "sameState", "pushStays", "pushMark", "pushFinish"}

\* The head is marked with the winner w, and no other node has a winner.
HeadHas(w, hd, ch, wn) == hd # NULL /\ wn[hd] = w /\ Clean(ch \ {hd}, wn)

\* The push is complete.
PushDone(n, d, hd, ch, wn) == ~d.pending /\ hd = n /\ Clean(ch, wn)

\* What thread t, which pushes and is alone, knows.
PushLocal(t, p, m, hd, ch, nx, wn, st) ==
  LET n == m.node
      d == st[t]
      still == d.pending /\ Fresh(n, ch, nx) /\ Clean(ch, wn)
      done == PushDone(n, d, hd, ch, wn) IN
  /\ p \notin HelpPop \cup FinishPop \cup {"popAssert", "popReturn"}
  /\ n \notin ch => wn[n] = 0
  /\ p \in Before => Fresh(n, ch, nx) /\ Clean(ch, wn)
  /\ p \notin Before => d.push /\ d.node = n
  /\ p \in {"scan", "pushWhile"} => still \/ done
  /\ p \in PushStarts => still /\ m.i = t
  /\ p \in PushStarts \ {"dispatch", "pushHead"} => m.h.oh = hd
  /\ p \in PushEmpty \cup {"pushCheck", "firstDone"} => m.h.os = d
  /\ p \in PushEmpty => hd = NULL
  /\ p \in {"firstLoad", "firstDone"} => m.i = t /\ d.pending /\ hd = n /\ Clean(ch, wn)
  /\ p \in {"pushRecheck", "pushStill", "pushWin"} => m.h.ow = 0
  /\ p \in Finishing =>
       m.f.back = "pushWhile" \/ (m.f.back = "pushNext" /\ p \in {"finish", "finishWinner"} /\ done)
  /\ p \in PushWon /\ m.f.back = "pushWhile" =>
       d.pending /\ Fresh(n, ch, nx) /\ HeadHas(t, hd, ch, wn)
  /\ p = "pushFinish" => d.pending /\ Fresh(n, ch, nx) /\ HeadHas(-t, hd, ch, wn)
  /\ p = "pushLink" => ~d.pending /\ Fresh(n, ch, nx) /\ HeadHas(-t, hd, ch, wn)
  /\ p = "pushSwing" => ~d.pending /\ n \notin ch /\ nx[n] = hd /\ HeadHas(-t, hd, ch, wn)
  /\ p = "pushUnmark" => ~d.pending /\ hd = n /\ m.f.oh = nx[n] /\ HeadHas(-t, m.f.oh, ch, wn)
  /\ p \in FinishHolds \ {"pushUnmark"} => m.f.oh = hd
  /\ p \in {"finishState"} \cup PushReads => m.f.tid = t
  /\ p \in {"finishState"} \cup PushReads \cup FinishPush => m.f.minus = -t
  /\ p \in PushReads => m.f.os = d
  /\ p \in {"pushMark", "pushFinish", "pushLink", "pushSwing"} => m.f.nx = n
  /\ p \in Ends => done
  /\ p = "pushClear" => m.f.nx = nx[n]

Local(t, p, m, hd, ch, nx, wn, st) ==
  /\ m.kind # "push" => m.node = NULL
  /\ m.kind = "pop" => PopLocal(t, p, m, hd, ch, nx, wn, st)
  /\ m.kind = "push" => PushLocal(t, p, m, hd, ch, nx, wn, st)

LocalInv == \A t \in Threads : Local(t, pc[t], me[t], head, Chain, next, winner, states)

LinkInv ==
  /\ Downward(next)
  /\ \A n \in Chain : n <= pushes
  /\ \A n \in Nodes : n > pushes => next[n] = NULL /\ winner[n] = 0

\* The head belongs to the operation that takes it, the nodes behind it to nobody.
WinnerInv ==
  (\A t \in Threads : me[t].kind # "push") =>
    /\ Clean(Chain \ {head}, winner)
    /\ head # NULL /\ winner[head] # 0 =>
         LET v == winner[head] IN
         /\ v \in Threads /\ me[v].kind = "pop" /\ pc[v] \notin Before
         /\ states[v].pending \/ states[v].node = head

\* The node in the descriptor of a pop is its own, and not retired yet.
TakenInv ==
  \A t \in Threads : me[t].kind = "pop" /\ pc[t] \notin Before =>
    /\ ~states[t].push
    /\ states[t].pending => states[t].node = NULL
    /\ states[t].node # NULL =>
         winner[states[t].node] = t /\ NodeOf(states[t].node) \notin DOMAIN grace

StackInv == LinkInv /\ WinnerInv /\ TakenInv /\ LocalInv

\* What a thread holds is kept for it: nodes, and the link behind the head of finish().
KeepsNodes(t, p, m, nx, g) ==
  /\ p \in Before => m.h.oh = NULL /\ m.f.oh = NULL /\ m.f.nx = NULL
  /\ \A n \in {m.h.oh, m.f.oh, m.f.nx} : NodeOf(n) \in DOMAIN g => t \in g[NodeOf(n)]
  /\ m.kind = "pop" /\ p \in FinishHolds /\ NodeOf(nx[m.f.oh]) \in DOMAIN g =>
       t \in g[NodeOf(nx[m.f.oh])]

NodeInv ==
  /\ \A n : NodeOf(n) \in DOMAIN grace => n \in 1..pushes /\ (destroyed \/ n \notin Chain)
  /\ \A t \in Threads :
       /\ me[t].kind = "push" => NodeOf(me[t].node) \notin DOMAIN grace
       /\ me[t].kind = "push" => pushes = me[t].node
       /\ pc[t] \notin Before => StateOf(me[t].old) \notin DOMAIN grace
       /\ KeepsNodes(t, pc[t], me[t], next, grace)

\* Nodes, links, threads and marks as numbers.
LEMMA NodesTyped ==
  ASSUME TypeInv
  PROVE  /\ \A n \in Nodes : n \in Nat /\ n \in Links /\ n # NULL /\ 1 <= n /\ n <= MaxPush
         /\ \A n \in Links : n # NULL => n \in Nodes
         /\ NULL \in Links /\ NULL \notin Nodes
         /\ \A t \in Threads : t \in Nat /\ t > 0 /\ t # 0 /\ t \in Marks /\ -t \in Marks /\ -t < 0
         /\ \A w \in Marks : w \in Int /\ (w > 0 => w \in Threads)
  BY StackAssumption DEF Nodes, Links, NULL, Threads, Marks

\* The chain consists of nodes; the head is its first, and not its own successor.
LEMMA ChainTyped ==
  ASSUME TypeInv, LinkInv
  PROVE  /\ Chain \subseteq Nodes
         /\ head # NULL => head \in Chain /\ next[head] \in Chain \cup {NULL} /\ next[head] # head
         /\ head = NULL => Chain = {}
         /\ \A n \in Chain : next[n] \in Chain \cup {NULL}
<1>1. {head} \in SUBSET Links /\ Downward(next)
  BY DEF TypeInv, LinkInv
<1>2. head = NULL => Chain = {}
  BY ReachNothing, ChainIs
<1>3. /\ Chain \subseteq Nodes /\ {head} \ {NULL} \subseteq Chain
      /\ \A n \in Chain : next[n] \in Chain \cup {NULL}
  BY <1>1, ChainIs, ReachClosed
<1>4. head # NULL => next[head] # head
  <2>1. head # NULL => head \in Nodes /\ head \in Nat /\ next[head] < head
    BY <1>1, NodesTyped DEF Downward
  <2> QED BY <2>1
<1> QED BY <1>2, <1>3, <1>4

LEMMA NoFields ==
  /\ NoHelp.oh = NULL /\ NoFinish.oh = NULL /\ NoFinish.nx = NULL
  /\ \A a : LET x == [NoFinish EXCEPT !.back = a] IN x.oh = NULL /\ x.nx = NULL /\ x.back = a
  BY DEF NoHelp, NoFinish

\* What a popper knows stays true when the head gets its winner v, ...
LEMMA KnowsWinner ==
  ASSUME NEW t \in Threads, NEW p, NEW m, NEW hd, NEW ch, NEW nx, NEW wn, NEW st,
         LocalsOK(p, m), PopLocal(t, p, m, hd, ch, nx, wn, st),
         wn \in [Nodes -> Marks], hd \in Nodes, wn[hd] = 0, NEW v \in Threads
  PROVE  PopLocal(t, p, m, hd, ch, nx, [wn EXCEPT ![hd] = v], st)
<1> DEFINE w == [wn EXCEPT ![hd] = v]
<1>1. w[hd] = v /\ v > 0 /\ \A n \in Nodes : n # hd => w[n] = wn[n]
  BY StackAssumption DEF Threads
<1>2. \A n : Passed(n, hd, ch, wn) => Passed(n, hd, ch, w)
  BY <1>1 DEF Passed
<1>3. p \in {"popCheck", "popClear", "popStill", "popWin"} => m.h.oh \in Nodes
  BY DEF LocalsOK
<1>4. p \in Finishing \ {"finish", "pushUnmark"} => m.f.oh \in Nodes
  BY DEF LocalsOK
<1>5. {"finishState"} \cup FinishReads \subseteq Finishing \ {"finish", "pushUnmark"}
  BY DEF FinishReads, Finishing, FinishPop, FinishPush
<1> HIDE DEF w
<1>6. p \in {"finishState"} \cup FinishReads => m.f.tid > 0 /\ w[m.f.oh] = m.f.tid
  BY <1>1, <1>4, <1>5 DEF PopLocal
<1>7. p = "popWin" /\ w[m.h.oh] = 0 => wn[m.h.oh] = 0
  BY <1>1, <1>3 DEF Threads
<1> QED BY <1>2, <1>6, <1>7 DEF PopLocal, w

\* ... when a helper finishes the operation of v without a node or with the head it has won, ...
LEMMA KnowsFinished ==
  ASSUME NEW t \in Threads, NEW p, NEW m, NEW hd, NEW ch, NEW nx, NEW wn, NEW st,
         LocalsOK(p, m), PopLocal(t, p, m, hd, ch, nx, wn, st),
         st \in [Threads -> Descriptors], HelpDone(p, m) => ~st[t].pending,
         NEW v \in Threads, st[v].pending, hd = NULL \/ wn[hd] = v,
         NEW e \in Descriptors, After(st[v], e), ~e.pending
  PROVE  PopLocal(t, p, m, hd, ch, nx, wn, [st EXCEPT ![v] = e])
<1> DEFINE s == [st EXCEPT ![v] = e]
<1>1. s[v] = e /\ \A u \in Threads : u # v => s[u] = st[u]
  OBVIOUS
<1>2. m \in Locals /\ m.h \in HelpLocals /\ m.f \in FinishLocals /\ m.f.os \in Descriptors /\ m.f.tid \in Marks
  BY DEF LocalsOK, Locals, FinishLocals
<1>3. p = "popWin" /\ wn[m.h.oh] = 0 => m.i # v
  <2>1. p = "popWin" => m.h.oh \in Nodes /\ Passed(m.h.oh, hd, ch, wn)
    BY DEF LocalsOK, PopLocal, PopHolds
  <2>2. NULL \notin Nodes /\ v # 0
    BY DEF NULL, Nodes, Threads
  <2> QED BY <2>1, <2>2 DEF Passed
<1>4. p \in FinishReads => m.f.tid \in Threads
  BY DEF LocalsOK, FinishReads
<1>5. ~After(e, e) /\ (After(m.f.os, st[v]) => After(m.f.os, e)) /\ e # st[v]
  BY <1>2, AfterAfter DEF After, Descriptors
<1> HIDE DEF s
<1>6. p \in FinishReads =>
       /\ m.f.os = s[m.f.tid] \/ After(m.f.os, s[m.f.tid])
       /\ m.f.oh = hd =>
            ~m.f.os.push /\ (m.f.os = s[m.f.tid] \/ (m.f.os.pending /\ ~s[m.f.tid].pending))
  BY <1>1, <1>4, <1>5 DEF PopLocal
<1>7. p \in FinishReads \ {"sameHead"} =>
        ~m.f.os.push /\ (m.f.os = s[m.f.tid] /\ m.f.os.pending => m.f.oh = hd)
  BY <1>1, <1>4, <1>5 DEF PopLocal
<1>8. p = "popSwing" /\ m.f.oh = hd => ~s[m.f.tid].pending
  BY <1>1, <1>4, <1>5 DEF PopLocal, FinishReads, FinishPop
<1>9. HelpDone(p, m) /\ s[t].node \in ch => s[t] = st[t]
  BY <1>1
<1>10. p = "popWin" /\ wn[m.h.oh] = 0 => s[m.i].pending
  BY <1>1, <1>3 DEF PopLocal, LocalsOK, HelpPop
<1> QED BY <1>6, <1>7, <1>8, <1>9, <1>10 DEF PopLocal, s

\* ... when the head is popped, ...
LEMMA KnowsPopped ==
  ASSUME NEW t \in Threads, NEW p, NEW m, NEW hd, NEW ch, NEW nx, NEW wn, NEW st,
         LocalsOK(p, m), PopLocal(t, p, m, hd, ch, nx, wn, st),
         hd \in Nodes, nx[hd] \in (ch \ {hd}) \cup {NULL}, wn[hd] > 0, ~st[wn[hd]].pending,
         HelpDone(p, m) /\ st[t].node \in ch => st[t].node = hd
  PROVE  PopLocal(t, p, m, nx[hd], ch \ {hd}, nx, wn, st)
<1>1. \A n : Passed(n, hd, ch, wn) => Passed(n, nx[hd], ch \ {hd}, wn)
  BY DEF Passed
<1>2. p \in FinishHolds /\ p # "pushUnmark" => m.f.oh \in Nodes /\ m.f.oh # nx[hd]
  <2>1. p \in FinishHolds /\ p # "pushUnmark" => m.f.oh \in Nodes /\ Passed(m.f.oh, hd, ch, wn)
    BY DEF PopLocal, LocalsOK, FinishHolds
  <2>2. NULL \notin Nodes /\ nx[hd] # hd
    BY DEF NULL, Nodes
  <2> QED BY <2>1, <2>2 DEF Passed
<1>3. /\ p \in FinishReads => p \in FinishHolds /\ p # "pushUnmark"
      /\ p = "popSwing" => p \in FinishReads
      /\ HelpDone(p, m) /\ p # "finish" /\ p \in Finishing => p \in FinishHolds
  BY DEF FinishReads, FinishHolds, Finishing, FinishPop, FinishPush
<1>4. p \in FinishReads \ {"sameHead"} => ~(m.f.os = st[m.f.tid] /\ m.f.os.pending)
  BY DEF PopLocal, FinishReads
<1>5. ~(HelpDone(p, m) /\ st[t].node \in ch \ {hd})
  OBVIOUS
<1> QED BY <1>1, <1>2, <1>3, <1>4, <1>5 DEF PopLocal

\* ... and when another operation is announced.
LEMMA KnowsAnnounced ==
  ASSUME NEW t \in Threads, NEW p, NEW m, NEW hd, NEW ch, NEW nx, NEW wn, NEW st,
         LocalsOK(p, m), PopLocal(t, p, m, hd, ch, nx, wn, st),
         st \in [Threads -> Descriptors], NEW v \in Threads, v # t,
         hd # NULL => wn[hd] # v, NEW e \in Descriptors, After(st[v], e), e.pending
  PROVE  PopLocal(t, p, m, hd, ch, nx, wn, [st EXCEPT ![v] = e])
<1> DEFINE s == [st EXCEPT ![v] = e]
<1>1. s[v] = e /\ \A u \in Threads : u # v => s[u] = st[u]
  OBVIOUS
<1>2. m \in Locals /\ m.h \in HelpLocals /\ m.f \in FinishLocals /\ m.f.os \in Descriptors /\ m.f.tid \in Marks
  BY DEF LocalsOK, Locals, FinishLocals
<1>3. p \in FinishReads => m.f.tid \in Threads /\ m.f.oh \in Nodes
  BY DEF LocalsOK, FinishReads, Finishing, FinishPop, FinishPush
<1>4. p \in FinishReads /\ m.f.tid = v => m.f.oh # hd
  <2>1. NULL \notin Nodes
    BY DEF NULL, Nodes
  <2> QED BY <1>3, <2>1 DEF PopLocal
<1>5. ~After(e, e) /\ (After(m.f.os, st[v]) => After(m.f.os, e)) /\ e # st[v]
  BY <1>2, AfterAfter DEF After, Descriptors
<1> HIDE DEF s
<1>6. p \in FinishReads =>
       /\ m.f.os = s[m.f.tid] \/ After(m.f.os, s[m.f.tid])
       /\ m.f.oh = hd =>
            ~m.f.os.push /\ (m.f.os = s[m.f.tid] \/ (m.f.os.pending /\ ~s[m.f.tid].pending))
  BY <1>1, <1>3, <1>4, <1>5 DEF PopLocal
<1>7. p \in FinishReads \ {"sameHead"} =>
        ~m.f.os.push /\ (m.f.os = s[m.f.tid] /\ m.f.os.pending => m.f.oh = hd)
  BY <1>1, <1>3, <1>5 DEF PopLocal
<1>8. p = "popSwing" /\ m.f.oh = hd => ~s[m.f.tid].pending
  BY <1>1, <1>3, <1>4 DEF PopLocal, FinishReads, FinishPop
<1>9. s[t] = st[t]
  BY <1>1
<1>10. p = "popWin" /\ wn[m.h.oh] = 0 => s[m.i].pending
  BY <1>1 DEF PopLocal, LocalsOK, HelpPop
<1> QED BY <1>6, <1>7, <1>8, <1>9, <1>10 DEF PopLocal, s

Sound == TypeInv /\ HelpInv /\ MeetInv /\ HoldInv /\ StackInv /\ NodeInv

-------------------------------------------------------------------------------
(* What the steps of a pop do to the stack.                                *)

\* The steps of help() and finish() that a pop can take.
PopRead(t) ==
  \/ Scan(t) \/ Dispatch(t) \/ PopHead(t) \/ PopState(t) \/ PopEmpty(t) \/ PopWinner(t)
  \/ PopCheck(t) \/ PopStill(t) \/ PopWhile(t)
  \/ FinishHead(t) \/ FinishWinner(t) \/ FinishState(t)
  \/ SameHead(t) \/ SameWinner(t) \/ SameState(t) \/ PopNext(t) \/ PopStays(t)

PopWrite(t) == PopNothing(t) \/ PopWin(t) \/ PopFinish(t) \/ PopSwing(t)

\* Outside help_push() and the pushing half of finish() a step is one of these.
LEMMA PopHelps ==
  ASSUME NEW t \in Threads, Help(t) \/ Finish(t), pc[t] \notin HelpPush \cup FinishPush
  PROVE  PopRead(t) \/ PopWrite(t)
<1>1. ~\/ PushHead(t) \/ PushState(t) \/ PushCheck(t) \/ PushPending(t) \/ PushSame(t)
       \/ PushFirst(t) \/ FirstLoad(t) \/ FirstDone(t)
       \/ PushWinner(t) \/ PushRecheck(t) \/ PushStill(t) \/ PushWin(t) \/ PushWhile(t)
  BY DEF PushHead, PushState, PushCheck, PushPending, PushSame, PushFirst, FirstLoad, FirstDone,
     PushWinner, PushRecheck, PushStill, PushWin, PushWhile, While, IfPending, HelpPush, At
<1>2. ~\/ PushStays(t) \/ PushMark(t) \/ PushFinish(t) \/ PushLink(t) \/ PushSwing(t) \/ PushUnmark(t)
  BY DEF PushStays, PushMark, PushFinish, PushLink, PushSwing, PushUnmark, FinishPush, At
<1> QED BY <1>1, <1>2 DEF Help, Finish, PopRead, PopWrite

\* A step that reads changes nothing shared; the process can stop in two places.
LEMMA PopReads ==
  ASSUME NEW t \in Threads, PopRead(t)
  PROVE  /\ UNCHANGED <<heap, states, grace, pushes, pops, answer, destroyed>>
         /\ \/ UNCHANGED crashed
            \/ UNCHANGED <<pc, me>> /\ PopWinner(t) /\ me[t].h.oh = NULL /\ crashed' = "nullHead"
            \/ UNCHANGED <<pc, me>> /\ FinishState(t) /\ me[t].f.tid < 0
<1> DEFINE Ok == /\ UNCHANGED <<heap, states, grace, pushes, pops, answer, destroyed>>
                 /\ \/ UNCHANGED crashed
                    \/ UNCHANGED <<pc, me>> /\ PopWinner(t) /\ me[t].h.oh = NULL /\ crashed' = "nullHead"
                    \/ UNCHANGED <<pc, me>> /\ FinishState(t) /\ me[t].f.tid < 0
<1>1. ASSUME NEW q, NEW x, Read(t, q, x) PROVE Ok
  BY <1>1 DEF Read, bookkeeping
<1> HIDE DEF Ok
<1>2. ASSUME Scan(t) \/ Dispatch(t) PROVE Ok
  BY <1>1, <1>2 DEF Scan, Dispatch
<1>3. ASSUME PopHead(t) \/ PopState(t) \/ PopEmpty(t) \/ PopCheck(t) \/ PopStill(t) \/ PopWhile(t) PROVE Ok
  BY <1>1, <1>3 DEF PopHead, PopState, PopEmpty, PopCheck, PopStill, PopWhile, While, IfPending
<1>4. ASSUME PopWinner(t) PROVE Ok
  <2>1. \/ \E q, x : Read(t, q, x)
        \/ me[t].h.oh = NULL /\ Crash("nullHead")
    BY <1>4 DEF PopWinner
  <2>2. CASE me[t].h.oh = NULL /\ Crash("nullHead")
    BY <1>4, <2>2 DEF Crash, Ok
  <2> QED BY <1>1, <2>1, <2>2
<1>5. ASSUME FinishHead(t) \/ FinishWinner(t) PROVE Ok
  BY <1>1, <1>5 DEF FinishHead, FinishWinner, Return
<1>6. ASSUME FinishState(t) PROVE Ok
  <2>1. \/ \E q, x : Read(t, q, x)
        \/ me[t].f.tid < 0 /\ Crash("negativeIndex")
    BY <1>6 DEF FinishState
  <2>2. CASE me[t].f.tid < 0 /\ Crash("negativeIndex")
    BY <1>6, <2>2 DEF Crash, Ok
  <2> QED BY <1>1, <2>1, <2>2
<1>7. ASSUME SameHead(t) \/ SameWinner(t) \/ SameState(t) PROVE Ok
  BY <1>1, <1>7 DEF SameHead, SameWinner, SameState, Again
<1>8. ASSUME PopNext(t) \/ PopStays(t) PROVE Ok
  BY <1>1, <1>8 DEF PopNext, PopStays, Return
<1> QED BY ONLY PopRead(t), <1>2, <1>3, <1>4, <1>5, <1>6, <1>7, <1>8 DEF PopRead, Ok

\* A pending operation wins the head, ...
HeadWon(v) ==
  /\ head # NULL /\ winner[head] = 0 /\ states[v].pending
  /\ winner' = [winner EXCEPT ![head] = v]
  /\ UNCHANGED <<head, next, states, grace>>

\* ... is finished with the head it has won, or with nothing, ...
OpFinished(v) ==
  /\ states[v].pending /\ (head # NULL => winner[head] = v)
  /\ states' = [states EXCEPT ![v] = Finished(states[v], FALSE, head)]
  /\ Retire({StateOf(states[v])}, Threads)
  /\ UNCHANGED heap

\* ... and the head is popped.
HeadPopped(v) ==
  /\ head # NULL /\ winner[head] = v /\ ~states[v].pending
  /\ head' = next[head]
  /\ UNCHANGED <<next, winner, states, grace>>

PopEffect ==
  \/ UNCHANGED <<heap, states, grace>>
  \/ \E v \in Threads : HeadWon(v) \/ OpFinished(v) \/ HeadPopped(v)

\* A write of a popper has one of the three effects, or none.
LEMMA PopWrites ==
  ASSUME Sound, NEW t \in Threads, me[t].kind = "pop", PopWrite(t)
  PROVE  /\ PopEffect
         /\ UNCHANGED <<pushes, pops, answer, destroyed>>
<1> DEFINE m == me[t]
<1>1. /\ TypeInv /\ LocalsOK(pc[t], m)
      /\ PopLocal(t, pc[t], m, head, Chain, next, winner, states)
      /\ winner \in [Nodes -> Marks] /\ states \in [Threads -> Descriptors]
  BY HasLocals DEF Sound, StackInv, LocalInv, Local, TypeInv
<1>2. m.f.tid \in Marks /\ m.h.oh \in Links /\ m.f.oh \in Links
  BY <1>1, HasLocals
<1>3. NULL \notin Nodes /\ 0 \notin Threads
  BY DEF Nodes, NULL, Threads
<1> HIDE DEF m
<1>4. CASE PopWin(t)
  <2>1. /\ pc[t] \in {"popClear", "popWin"}
        /\ winner' = [winner EXCEPT ![m.h.oh] =
                        Exchange(winner[m.h.oh], m.h.ow, IF pc[t] = "popClear" THEN 0 ELSE m.i)]
        /\ UNCHANGED <<head, next, states, bookkeeping>>
    BY <1>4 DEF PopWin, m
  <2>2. pc[t] = "popWin" /\ m.h.ow = 0 /\ m.h.oh \in Nodes /\ m.i \in Threads
    BY <1>1, <2>1 DEF PopLocal, LocalsOK, HelpPop
  <2>3. Passed(m.h.oh, head, Chain, winner) /\ (winner[m.h.oh] = 0 => states[m.i].pending)
    BY <1>1, <2>2 DEF PopLocal, PopHolds
  <2>4. CASE winner[m.h.oh] = 0
    <3>1. m.h.oh = head /\ head # NULL
      BY <1>3, <2>2, <2>3, <2>4 DEF Passed
    <3>2. winner' = [winner EXCEPT ![head] = m.i]
      BY <2>1, <2>2, <2>4, <3>1 DEF Exchange
    <3>3. HeadWon(m.i)
      BY <2>1, <2>3, <2>4, <3>1, <3>2 DEF HeadWon, bookkeeping
    <3> QED BY <2>1, <2>2, <3>3 DEF PopEffect, bookkeeping
  <2>5. CASE winner[m.h.oh] # 0
    <3>1. winner' = winner
      BY <1>1, <2>1, <2>2, <2>5 DEF Exchange
    <3> QED BY <2>1, <3>1 DEF PopEffect, heap, bookkeeping
  <2> QED BY <2>4, <2>5
\* The exchange of a descriptor of the operation v.
<1>5. ASSUME NEW v \in Threads, NEW d, Replace(v, d, Finished(d, FALSE, head)), UNCHANGED heap,
             states[v] = d => d.pending /\ (head # NULL => winner[head] = v)
      PROVE  PopEffect
  BY <1>3, <1>5 DEF Replace, PopEffect, OpFinished
<1>6. CASE PopNothing(t)
  <2>1. /\ pc[t] = "popNothing" /\ Replace(m.i, m.h.os, Finished(m.h.os, FALSE, NULL))
        /\ UNCHANGED <<heap, me, pushes, pops, answer, destroyed>>
    BY <1>6 DEF PopNothing, At, m
  <2>2. m.i \in Threads /\ m.h.oh = NULL /\ Passed(m.h.oh, head, Chain, winner)
    BY <1>1, <2>1 DEF PopLocal, PopHolds, LocalsOK, HelpPop
  <2>3. head = NULL
    BY <1>3, <2>2 DEF Passed
  <2>4. states[m.i] = m.h.os => m.h.os.pending
    BY <2>1 DEF Sound, MeetInv, EmptyInv, m
  <2>5. PopEffect
    BY <1>5, <2>1, <2>2, <2>3, <2>4
  <2> QED BY <2>1, <2>5
<1>7. CASE PopFinish(t)
  <2>1. /\ pc[t] = "popFinish" /\ Replace(m.f.tid, m.f.os, Finished(m.f.os, FALSE, m.f.oh))
        /\ UNCHANGED <<heap, me, pushes, pops, answer, destroyed>>
    BY <1>7 DEF PopFinish, At, m
  <2>2. m.f.tid \in Threads /\ m.f.os.pending /\ winner[m.f.oh] = m.f.tid
    BY <1>1, <2>1 DEF PopLocal, LocalsOK, FinishReads, FinishPop
  <2>3. states[m.f.tid] = m.f.os => m.f.oh = head
    BY <1>1, <2>1, <2>2 DEF PopLocal, FinishReads, FinishPop
  <2>4. CASE states[m.f.tid] = m.f.os
    <3>1. PopEffect
      BY <1>5, <2>1, <2>2, <2>3, <2>4
    <3> QED BY <2>1, <3>1
  <2>5. CASE states[m.f.tid] # m.f.os
    <3>1. UNCHANGED <<states, grace>>
      BY <2>1, <2>5 DEF Replace
    <3> QED BY <2>1, <3>1 DEF PopEffect
  <2> QED BY <2>4, <2>5
<1>8. CASE PopSwing(t)
  <2>1. /\ pc[t] = "popSwing" /\ head' = Exchange(head, m.f.oh, m.f.nx)
        /\ UNCHANGED <<next, winner, states, bookkeeping>>
    BY <1>8 DEF PopSwing, At, m
  <2>2. /\ m.f.tid \in Threads /\ winner[m.f.oh] = m.f.tid /\ m.f.nx = next[m.f.oh] /\ m.f.oh \in Nodes
        /\ m.f.oh = head => ~states[m.f.tid].pending
    BY <1>1, <2>1 DEF PopLocal, LocalsOK, FinishReads, FinishPop, Finishing
  <2>3. CASE head = m.f.oh
    <3>1. HeadPopped(m.f.tid)
      BY <1>3, <2>1, <2>2, <2>3 DEF HeadPopped, Exchange, bookkeeping
    <3> QED BY <2>1, <2>2, <3>1 DEF PopEffect, bookkeeping
  <2>4. CASE head # m.f.oh
    BY <2>1, <2>4 DEF PopEffect, Exchange, heap, bookkeeping
  <2> QED BY <2>3, <2>4
<1> QED BY <1>4, <1>6, <1>7, <1>8 DEF PopWrite

\* Places where a popper knows little.
LEMMA PlainPlaces ==
  ASSUME NEW t \in Threads, NEW hd, NEW ch, NEW nx, NEW wn, NEW st, NEW x
  PROVE  /\ \A q \in Before \cup {"scan", "dispatch", "popHead", "popWhile"} :
              PopLocal(t, q, x, hd, ch, nx, wn, st)
         /\ x.f.back \in {"popWhile", "popAssert"} => PopLocal(t, "finish", x, hd, ch, nx, wn, st)
         /\ st[t].node \notin ch =>
              \A q \in {"popAssert", "popReturn"} : PopLocal(t, q, x, hd, ch, nx, wn, st)
  BY DEF PopLocal, Before, HelpPush, FinishPush, PopHolds, FinishHolds, FinishReads, FinishPop, Finishing,
     HelpDone, Ends

\* What the popper t knows after a step of its own that reads.
LEMMA PopReadKnows ==
  ASSUME Sound, "push" \notin Overlap, NEW t \in Threads, me[t].kind = "pop", PopRead(t)
  PROVE  PopLocal(t, pc'[t], me'[t], head, Chain, next, winner, states)
<1> DEFINE m == me[t]
           Ok(q, x) == PopLocal(t, q, x, head, Chain, next, winner, states)
           Goal == Ok(pc'[t], me'[t])
<1>1. /\ TypeInv /\ LocalsOK(pc[t], m) /\ m \in Locals /\ m.h \in HelpLocals /\ m.f \in FinishLocals
      /\ Ok(pc[t], m) /\ LinkInv /\ WinnerInv /\ TakenInv
      /\ winner \in [Nodes -> Marks] /\ states \in [Threads -> Descriptors]
      /\ head \in Links /\ next \in [Nodes -> Links]
  BY HasLocals DEF Sound, StackInv, LocalInv, Local, TypeInv
<1>2. \A u \in Threads : me[u].kind # "push"
  BY DEF Sound, MeetInv, ApartInv, MeetsPush
<1>3. /\ Clean(Chain \ {head}, winner)
      /\ head # NULL /\ winner[head] # 0 =>
           LET v == winner[head] IN
           v \in Threads /\ v > 0 /\ ~states[v].push /\ states[v].tid = v
  <2>1. \A v \in Threads : v > 0 /\ states[v].tid = v
    BY <1>1 DEF TypeInv, Threads
  <2> QED BY <1>1, <1>2, <2>1 DEF WinnerInv, TakenInv
<1>4. states[t].node \in Chain => states[t].node = head /\ winner[head] = t /\ t # 0
  <2>1. states[t].node \in Chain /\ pc[t] \notin Before => winner[states[t].node] = t /\ states[t].node # NULL
    BY <1>1, ChainTyped, NodesTyped DEF TakenInv
  <2>2. pc[t] \notin Before /\ t # 0
    BY DEF PopRead, Scan, Dispatch, PopHead, PopState, PopEmpty, PopWinner, PopCheck, PopStill, PopWhile,
       While, IfPending, FinishHead, FinishWinner, FinishState, SameHead, SameWinner, SameState, PopNext,
       PopStays, At, Before, Threads
  <2> QED BY <1>3, <2>1, <2>2 DEF Clean
<1>5. ASSUME NEW q, NEW x, Read(t, q, x), Ok(q, x) PROVE Goal
  <2>1. pc'[t] = q /\ me'[t] = x
    BY <1>1, <1>5 DEF Read, Goto, Keep, TypeInv
  <2> QED BY <1>5, <2>1
<1>6. ASSUME NEW x
      PROVE  /\ Ok("scan", x) /\ Ok("dispatch", x) /\ Ok("popHead", x) /\ Ok("popWhile", x)
             /\ x.f.back \in {"popWhile", "popAssert"} => Ok("finish", x)
             /\ states[t].node \notin Chain => Ok("popAssert", x)
  BY PlainPlaces
<1>7. pc[t] \in Finishing => m.f.back \in {"popWhile", "popAssert"}
  BY <1>1 DEF PopLocal
\* finish() returns, ...
<1>8. ASSUME pc[t] \in Finishing, Return(t), m.f.back = "popAssert" => states[t].node \notin Chain PROVE Goal
  BY <1>5, <1>6, <1>7, <1>8 DEF Return
\* ... or begins again.
<1>9. ASSUME pc[t] \in Finishing, Again(t) PROVE Goal
  <2> DEFINE x == [m EXCEPT !.f = [NoFinish EXCEPT !.back = m.f.back]]
  <2>1. Read(t, "finish", x)
    BY <1>9 DEF Again
  <2>2. x.f.back = m.f.back
    BY <1>1, NoFields DEF Locals
  <2> HIDE DEF x
  <2> QED BY <1>5, <1>6, <1>7, <1>9, <2>1, <2>2
<1>10. ASSUME pc[t] \in Finishing, m.f.back = "popAssert" PROVE HelpDone(pc[t], m)
  BY <1>10 DEF HelpDone, Ends
<1> HIDE DEF Ok, m, Goal
<1>11. ASSUME Scan(t) PROVE Goal
  <2>1. \/ Read(t, "dispatch", m)
        \/ \E a : Read(t, "scan", [m EXCEPT !.i = a])
        \/ \E a, b : Read(t, "scan", [m EXCEPT !.i = a, !.less = b])
        \/ Read(t, "finish", [m EXCEPT !.i = 0, !.f.back = "popAssert"])
    BY <1>11 DEF Scan, m
  <2>2. ASSUME Read(t, "finish", [m EXCEPT !.i = 0, !.f.back = "popAssert"]) PROVE Goal
    <3> DEFINE x == [m EXCEPT !.i = 0, !.f.back = "popAssert"]
    <3>1. x.f.back = "popAssert"
      BY <1>1 DEF Locals, FinishLocals
    <3> HIDE DEF x
    <3> QED BY <1>5, <1>6, <2>2, <3>1 DEF x
  <2> QED BY <1>5, <1>6, <2>1, <2>2
<1>12. ASSUME Dispatch(t) PROVE Goal
  <2>1. ~states[m.i].push
    BY <1>12 DEF Dispatch, At, Sound, MeetInv, KindInv, MeetsPush, m
  <2>2. Read(t, "popHead", m)
    BY <1>12, <2>1 DEF Dispatch, m
  <2> QED BY <1>5, <1>6, <2>2
<1>13. ASSUME PopHead(t) PROVE Goal
  <2> DEFINE x == [m EXCEPT !.h.oh = head]
  <2>1. Read(t, "popState", x)
    BY <1>13 DEF PopHead, m
  <2>2. x.h.oh = head
    BY <1>1 DEF Locals, HelpLocals
  <2> HIDE DEF x
  <2>3. Ok("popState", x)
    BY <2>2 DEF Ok, PopLocal, Passed, HelpPush, FinishPush, PopHolds, FinishHolds, FinishReads, FinishPop,
       Finishing, HelpDone, Ends
  <2> QED BY <1>5, <2>1, <2>3
<1>14. ASSUME PopState(t) PROVE Goal
  <2> DEFINE x == [m EXCEPT !.h.os = states[m.i]]
             q == IF m.h.oh = NULL THEN "popEmpty" ELSE "popWinner"
  <2>1. pc[t] = "popState" /\ Read(t, q, x)
    BY <1>14 DEF PopState, At, m
  <2>2. x.h.oh = m.h.oh
    BY <1>1 DEF Locals, HelpLocals
  <2>3. Passed(m.h.oh, head, Chain, winner)
    BY <1>1, <2>1 DEF Ok, PopLocal, PopHolds
  <2>4. q = "popWinner" \/ (q = "popEmpty" /\ m.h.oh = NULL)
    OBVIOUS
  <2> HIDE DEF x, q
  <2>5. Ok(q, x)
    BY <2>2, <2>3, <2>4 DEF Ok, PopLocal, HelpPush, FinishPush, PopHolds, FinishHolds, FinishReads, FinishPop,
       Finishing, HelpDone, Ends
  <2> QED BY <1>5, <2>1, <2>5
<1>15. ASSUME PopEmpty(t) PROVE Goal
  <2>1. pc[t] = "popEmpty" /\ \E q \in {"popNothing", "popWinner"} : Read(t, q, m)
    BY <1>15 DEF PopEmpty, IfPending, At, m
  <2>2. ASSUME NEW q \in {"popNothing", "popWinner"} PROVE Ok(q, m)
    BY <1>1, <2>1 DEF Ok, PopLocal, HelpPush, FinishPush, PopHolds, FinishHolds, FinishReads, FinishPop,
       Finishing, HelpDone, Ends
  <2> QED BY <1>5, <2>1, <2>2
<1>16. ASSUME PopWinner(t) PROVE Goal
  <2>1. CASE m.h.oh = NULL
    <3>1. pc' = pc /\ me' = me
      BY <1>16, <2>1 DEF PopWinner, Crash, m
    <3> QED BY <1>1, <3>1 DEF Goal, m
  <2>2. CASE m.h.oh # NULL
    <3> DEFINE x == [m EXCEPT !.h.ow = winner[m.h.oh]]
    <3>1. pc[t] = "popWinner" /\ Read(t, "popCheck", x)
      BY <1>16, <2>2 DEF PopWinner, At, m
    <3>2. x.h.oh = m.h.oh /\ x.h.ow = winner[m.h.oh]
      BY <1>1 DEF Locals, HelpLocals
    <3>3. Passed(m.h.oh, head, Chain, winner)
      BY <1>1, <3>1 DEF Ok, PopLocal, PopHolds
    <3>4. winner[m.h.oh] >= 0
      <4>1. winner[m.h.oh] \in Marks
        BY <1>1, <2>2, HasLocals, NodesTyped DEF m
      <4>2. winner[m.h.oh] \in Int
        BY <1>1, <4>1, NodesTyped
      <4> QED BY <1>3, <2>2, <3>3, <4>2 DEF Passed
    <3> HIDE DEF x
    <3>5. Ok("popCheck", x)
      BY <3>2, <3>3, <3>4 DEF Ok, PopLocal, HelpPush, FinishPush, PopHolds, FinishHolds, FinishReads, FinishPop,
         Finishing, HelpDone, Ends
    <3> QED BY <1>5, <3>1, <3>5
  <2> QED BY <2>1, <2>2
<1>17. ASSUME PopCheck(t) PROVE Goal
  <2>1. /\ pc[t] = "popCheck"
        /\ \/ Read(t, "popWhile", m)
           \/ Read(t, "finish", CallFinish(m, "popWhile"))
           \/ Read(t, IF m.h.ow < 0 THEN "popClear" ELSE "popStill", m) /\ ~(m.h.ow > 0)
    BY <1>17 DEF PopCheck, At, m
  <2>2. m.h.ow >= 0 /\ m.h.ow \in Marks /\ Passed(m.h.oh, head, Chain, winner)
    BY <1>1, <2>1 DEF Ok, PopLocal, HelpLocals, PopHolds
  <2>3. m.h.ow \in Int
    BY <1>1, <2>2, NodesTyped
  <2>4. CASE Read(t, "finish", CallFinish(m, "popWhile"))
    <3> DEFINE x == CallFinish(m, "popWhile")
    <3>1. x.f.back = "popWhile"
      BY <1>1 DEF CallFinish, Locals, FinishLocals
    <3> HIDE DEF x
    <3> QED BY <1>5, <1>6, <2>4, <3>1 DEF x
  <2>5. CASE Read(t, IF m.h.ow < 0 THEN "popClear" ELSE "popStill", m) /\ ~(m.h.ow > 0)
    <3>1. m.h.ow = 0 /\ Read(t, "popStill", m)
      BY <2>2, <2>3, <2>5
    <3>2. Ok("popStill", m)
      BY <2>2, <3>1 DEF Ok, PopLocal, HelpPush, FinishPush, PopHolds, FinishHolds, FinishReads, FinishPop,
         Finishing, HelpDone, Ends
    <3> QED BY <1>5, <3>1, <3>2
  <2> QED BY <1>5, <1>6, <2>1, <2>4, <2>5
<1>18. ASSUME PopStill(t) PROVE Goal
  <2>1. /\ pc[t] = "popStill"
        /\ \/ Read(t, "popWin", m) /\ states[m.i].pending
           \/ Read(t, "popWhile", m)
    BY <1>18 DEF PopStill, IfPending, Pending, At, m
  <2>2. m.h.ow = 0 /\ Passed(m.h.oh, head, Chain, winner)
    BY <1>1, <2>1 DEF Ok, PopLocal, PopHolds
  <2>3. states[m.i].pending => Ok("popWin", m)
    BY <2>2 DEF Ok, PopLocal, HelpPush, FinishPush, PopHolds, FinishHolds, FinishReads, FinishPop,
       Finishing, HelpDone, Ends
  <2> QED BY <1>5, <1>6, <2>1, <2>3
<1>19. ASSUME PopWhile(t) PROVE Goal
  BY <1>5, <1>6, <1>19 DEF PopWhile, While
<1>20. ASSUME FinishHead(t) PROVE Goal
  <2>1. pc[t] = "finish" /\ pc[t] \in Finishing
    BY <1>20 DEF FinishHead, At, Finishing
  <2>2. CASE head = NULL
    <3>1. Return(t)
      BY <1>20, <2>2 DEF FinishHead
    <3>2. states[t].node \notin Chain
      BY <1>1, <2>2, ChainTyped
    <3> QED BY <1>8, <2>1, <3>1, <3>2
  <2>3. CASE head # NULL
    <3> DEFINE x == [m EXCEPT !.f.oh = head]
    <3>1. Read(t, "finishWinner", x)
      BY <1>20, <2>3 DEF FinishHead, m
    <3>2. x.f.oh = head /\ x.f.back = m.f.back
      BY <1>1 DEF Locals, FinishLocals
    <3> HIDE DEF x
    <3>3. Ok("finishWinner", x)
      BY <1>7, <2>1, <3>2 DEF Ok, PopLocal, Passed, HelpPush, FinishPush, PopHolds, FinishHolds, FinishReads,
         FinishPop, Finishing, HelpDone, Ends
    <3> QED BY <1>5, <3>1, <3>3
  <2> QED BY <2>2, <2>3
<1>21. ASSUME FinishWinner(t) PROVE Goal
  <2>1. pc[t] = "finishWinner" /\ pc[t] \in Finishing
    BY <1>21 DEF FinishWinner, At, Finishing
  <2>2. m.f.oh \in Nodes /\ Passed(m.f.oh, head, Chain, winner)
    BY <1>1, <2>1 DEF LocalsOK, Ok, PopLocal, FinishHolds
  <2>3. HelpDone(pc[t], m) /\ states[t].node \in Chain => m.f.oh = head
    BY <1>1, <2>1 DEF Ok, PopLocal
  <2>4. CASE winner[m.f.oh] = 0
    <3>1. Return(t)
      BY <1>21, <2>4 DEF FinishWinner, m
    <3> QED BY <1>4, <1>8, <1>10, <2>1, <2>3, <2>4, <3>1
  <2>5. CASE winner[m.f.oh] # 0
    <3> DEFINE x == [m EXCEPT !.f.tid = winner[m.f.oh], !.f.minus = -winner[m.f.oh]]
    <3>1. Read(t, "finishState", x)
      BY <1>21, <2>5 DEF FinishWinner, m
    <3>2. x.f.oh = m.f.oh /\ x.f.back = m.f.back /\ x.f.tid = winner[m.f.oh]
      BY <1>1 DEF Locals, FinishLocals
    <3>3. winner[m.f.oh] > 0
      <4>1. NULL \notin Nodes
        BY DEF NULL, Nodes
      <4> QED BY <1>3, <2>2, <2>5, <4>1 DEF Passed
    <3>4. HelpDone("finishState", x) => HelpDone(pc[t], m)
      BY <2>1, <3>2 DEF HelpDone, Ends
    <3> HIDE DEF x
    <3>5. Ok("finishState", x)
      BY <1>7, <2>1, <2>2, <2>3, <3>2, <3>3, <3>4
         DEF Ok, PopLocal, HelpPush, FinishPush, PopHolds, FinishHolds, FinishReads, FinishPop, Finishing
    <3> QED BY <1>5, <3>1, <3>5
  <2> QED BY <2>4, <2>5
\* The places between the load of the descriptor and finish()'s own writes.
<1>22. ASSUME pc[t] \in {"finishState"} \cup FinishReads
       PROVE  /\ pc[t] \in Finishing /\ m.f.oh \in Nodes /\ m.f.tid \in Marks
              /\ Passed(m.f.oh, head, Chain, winner) /\ m.f.tid > 0 /\ winner[m.f.oh] = m.f.tid
              /\ m.f.tid \in Threads
              /\ HelpDone(pc[t], m) /\ states[t].node \in Chain => m.f.oh = head
              /\ pc[t] # "finishState" =>
                   /\ m.f.os.tid = m.f.tid
                   /\ m.f.os = states[m.f.tid] \/ After(m.f.os, states[m.f.tid])
                   /\ m.f.oh = head =>
                        ~m.f.os.push /\ (m.f.os = states[m.f.tid] \/ (m.f.os.pending /\ ~states[m.f.tid].pending))
  <2>1. /\ pc[t] \in Finishing /\ pc[t] \in FinishHolds /\ pc[t] # "finish"
        /\ pc[t] \in Finishing \ {"finish", "pushUnmark"}
    BY <1>22 DEF Finishing, FinishHolds, FinishReads, FinishPop
  <2>2. m.f.tid > 0 /\ m.f.tid \in Marks /\ m.f.tid \in Threads
    <3>1. m.f.tid > 0 /\ m.f.tid \in Marks
      BY <1>1, <1>22 DEF FinishLocals, Ok, PopLocal
    <3> QED BY <1>1, <3>1, NodesTyped
  <2> QED BY <1>1, <1>22, <2>1, <2>2 DEF LocalsOK, Ok, PopLocal
<1>23. ASSUME FinishState(t) PROVE Goal
  <2>1. pc[t] = "finishState"
    BY <1>23 DEF FinishState, At
  <2> DEFINE x == [m EXCEPT !.f.os = states[m.f.tid]]
  <2>2. ~(m.f.tid < 0) /\ m.f.tid \in Threads /\ m.f.tid # 0
    BY <1>22, <2>1, StackAssumption DEF Threads
  <2>3. Read(t, "sameHead", x)
    BY <1>23, <2>2 DEF FinishState, m
  <2>4. x.f.oh = m.f.oh /\ x.f.tid = m.f.tid /\ x.f.back = m.f.back /\ x.f.os = states[m.f.tid]
    BY <1>1 DEF Locals, FinishLocals
  <2>5. states[m.f.tid].tid = m.f.tid /\ (m.f.oh = head => ~states[m.f.tid].push)
    <3>1. states[m.f.tid].tid = m.f.tid
      BY <1>1, <2>2 DEF TypeInv
    <3>2. m.f.oh = head => head # NULL /\ winner[head] = m.f.tid
      BY <1>22, <2>1 DEF NULL, Nodes
    <3> QED BY <1>3, <2>2, <3>1, <3>2
  <2>6. HelpDone("sameHead", x) => HelpDone(pc[t], m)
    BY <2>1, <2>4 DEF HelpDone, Ends, Finishing
  <2> HIDE DEF x
  <2>7. Ok("sameHead", x)
    BY <1>7, <1>22, <2>1, <2>4, <2>5, <2>6
       DEF Ok, PopLocal, HelpPush, FinishPush, PopHolds, FinishHolds, FinishReads, FinishPop, Finishing
  <2> QED BY <1>5, <2>3, <2>7
<1>24. ASSUME pc[t] \in FinishReads, NEW q \in FinishReads \ {"sameHead"}, ~m.f.os.push,
              m.f.os = states[m.f.tid] /\ m.f.os.pending => m.f.oh = head,
              q \notin {"popStays", "popFinish", "popSwing"} \/ m.f.nx = next[m.f.oh],
              q = "popSwing" /\ m.f.oh = head => ~states[m.f.tid].pending
       PROVE  Ok(q, m)
  <2>1. HelpDone(q, m) => HelpDone(pc[t], m)
    BY <1>24 DEF HelpDone, Ends, FinishReads, FinishPop, Finishing
  <2> QED
    BY <1>7, <1>22, <1>24, <2>1
       DEF Ok, PopLocal, HelpPush, FinishPush, PopHolds, FinishHolds, FinishReads, FinishPop, Finishing
<1>25. ASSUME SameHead(t) PROVE Goal
  <2>1. pc[t] = "sameHead" /\ pc[t] \in FinishReads /\ pc[t] \in Finishing
    BY <1>25 DEF SameHead, At, FinishReads, Finishing
  <2>2. CASE head = m.f.oh
    <3>1. Ok("sameWinner", m)
      BY <1>22, <1>24, <2>1, <2>2 DEF FinishReads
    <3>2. Read(t, "sameWinner", m)
      BY <1>25, <2>2 DEF SameHead, m
    <3> QED BY <1>5, <3>1, <3>2
  <2>3. CASE head # m.f.oh
    BY <1>9, <1>25, <2>1, <2>3 DEF SameHead, m
  <2> QED BY <2>2, <2>3
<1>26. ASSUME pc[t] \in FinishReads \ {"sameHead"}
       PROVE  ~m.f.os.push /\ (m.f.os = states[m.f.tid] /\ m.f.os.pending => m.f.oh = head)
  BY <1>1, <1>26 DEF Ok, PopLocal
<1>27. ASSUME SameWinner(t) PROVE Goal
  <2>1. pc[t] = "sameWinner" /\ pc[t] \in FinishReads /\ pc[t] \in Finishing
    BY <1>27 DEF SameWinner, At, FinishReads, Finishing
  <2>2. Ok("sameState", m)
    BY <1>24, <1>26, <2>1 DEF FinishReads
  <2>3. Read(t, "sameState", m) \/ Again(t)
    BY <1>27 DEF SameWinner, m
  <2> QED BY <1>5, <1>9, <2>1, <2>2, <2>3
<1>28. ASSUME SameState(t) PROVE Goal
  <2>1. pc[t] = "sameState" /\ pc[t] \in FinishReads /\ pc[t] \in Finishing
    BY <1>28 DEF SameState, At, FinishReads, Finishing
  <2>2. Ok("popNext", m) /\ ~m.f.os.push
    BY <1>24, <1>26, <2>1 DEF FinishReads, FinishPop
  <2>3. Read(t, "popNext", m) \/ Again(t)
    BY <1>28, <2>2 DEF SameState, m
  <2> QED BY <1>5, <1>9, <2>1, <2>2, <2>3
<1>29. ASSUME PopNext(t) PROVE Goal
  <2>1. pc[t] = "popNext" /\ pc[t] \in FinishReads
    BY <1>29 DEF PopNext, At, FinishReads, FinishPop
  <2> DEFINE x == [m EXCEPT !.f.nx = next[m.f.oh]]
  <2>2. Read(t, "popStays", x)
    BY <1>29 DEF PopNext, m
  <2>3. /\ x.f.oh = m.f.oh /\ x.f.tid = m.f.tid /\ x.f.back = m.f.back /\ x.f.os = m.f.os
        /\ x.f.nx = next[m.f.oh]
    BY <1>1 DEF Locals, FinishLocals
  <2>4. HelpDone("popStays", x) => HelpDone(pc[t], m)
    BY <2>1, <2>3 DEF HelpDone, Ends, Finishing, FinishPop
  <2> HIDE DEF x
  <2>5. Ok("popStays", x)
    BY <1>7, <1>22, <1>26, <2>1, <2>3, <2>4
       DEF Ok, PopLocal, HelpPush, FinishPush, PopHolds, FinishHolds, FinishReads, FinishPop, Finishing
  <2> QED BY <1>5, <2>2, <2>5
<1>30. ASSUME PopStays(t) PROVE Goal
  <2>1. pc[t] = "popStays" /\ pc[t] \in FinishReads /\ pc[t] \in Finishing /\ m.f.nx = next[m.f.oh]
    BY <1>1, <1>30 DEF PopStays, At, FinishReads, FinishPop, Finishing, Ok, PopLocal, m
  <2>2. CASE head # m.f.oh
    <3>1. Return(t)
      BY <1>30, <2>2 DEF PopStays, m
    <3> QED BY <1>8, <1>10, <1>22, <2>1, <2>2, <3>1
  <2>3. CASE head = m.f.oh
    <3>1. Read(t, IF m.f.os.pending THEN "popFinish" ELSE "popSwing", m)
      BY <1>30, <2>3 DEF PopStays, m
    <3>2. CASE m.f.os.pending
      <4>1. Ok("popFinish", m)
        BY <1>24, <1>26, <2>1 DEF FinishReads, FinishPop
      <4> QED BY <1>5, <3>1, <3>2, <4>1
    <3>3. CASE ~m.f.os.pending
      <4>1. ~states[m.f.tid].pending
        BY <1>22, <2>1, <2>3, <3>3
      <4>2. Ok("popSwing", m)
        BY <1>24, <1>26, <2>1, <4>1 DEF FinishReads, FinishPop
      <4> QED BY <1>5, <3>1, <3>3, <4>2
    <3> QED BY <3>2, <3>3
  <2> QED BY <2>2, <2>3
<1>31. Goal
  BY ONLY PopRead(t), <1>11, <1>12, <1>13, <1>14, <1>15, <1>16, <1>17, <1>18, <1>19, <1>20, <1>21,
          <1>23, <1>25, <1>27, <1>28, <1>29, <1>30 DEF PopRead
<1> QED BY <1>31 DEF Goal, Ok

\* The descriptor of a finished operation.
LEMMA FinishedIs ==
  ASSUME NEW d \in Descriptors, NEW push \in BOOLEAN, NEW node \in Links
  PROVE  LET e == Finished(d, push, node) IN
         /\ e \in Descriptors /\ After(d, e) /\ e # d
         /\ e.tid = d.tid /\ e.phase = d.phase /\ ~e.pending /\ e.push = push /\ e.node = node
<1> DEFINE e == Finished(d, push, node)
<1>1. e \in Descriptors
  BY FinishedFollows
<1>2. /\ e.tid = d.tid /\ e.phase = d.phase /\ ~e.pending /\ e.push = push /\ e.node = node
      /\ e.copy = d.copy + 1
  BY DEF Finished, Descriptors
<1>3. d.copy \in Nat
  BY DEF Descriptors
<1> HIDE DEF e
<1>4. e.copy > d.copy
  BY <1>2, <1>3
<1>5. After(d, e) /\ e # d
  BY <1>2, <1>3, <1>4 DEF After
<1> QED BY <1>1, <1>2, <1>5 DEF e

\* The chain after a step.
LEMMA ChainStays == UNCHANGED <<head, next>> => Chain' = Chain
  BY ChainIs

\* The chain without its head.
LEMMA ChainPopped ==
  ASSUME TypeInv, LinkInv, NEW v, HeadPopped(v)
  PROVE  Chain' = Chain \ {head} /\ next[head] \in (Chain \ {head}) \cup {NULL}
<1>1. head \in Nodes /\ Downward(next)
  BY NodesTyped DEF TypeInv, LinkInv, HeadPopped
<1>2. /\ Reach({head}, next) = Reach({next[head]}, next) \cup {head}
      /\ head \notin Reach({next[head]}, next)
  BY <1>1, ReachFirst
<1>3. Chain' = Reach({next[head]}, next)
  BY ChainIs DEF HeadPopped
<1> QED BY <1>1, <1>2, <1>3, ChainIs, ChainTyped

\* If no push is under way, a node of the chain that a pop has taken is the head.
LEMMA TakenIsHead ==
  ASSUME TypeInv, StackInv, \A u \in Threads : me[u].kind # "push",
         NEW t \in Threads, me[t].kind = "pop", pc[t] \notin Before, states[t].node \in Chain
  PROVE  states[t].node = head /\ winner[head] = t /\ head # NULL
<1>1. Chain \subseteq Nodes /\ NULL \notin Nodes /\ 0 \notin Threads
  BY ChainTyped DEF StackInv, NULL, Nodes, Threads
<1>2. states[t].node # NULL /\ winner[states[t].node] = t
  BY <1>1 DEF StackInv, TakenInv
<1> QED BY <1>1, <1>2 DEF StackInv, WinnerInv, Clean

\* A thread that is not announced is never the winner of the head.
LEMMA WinnerAnnounced ==
  ASSUME TypeInv, StackInv, \A u \in Threads : me[u].kind # "push",
         head # NULL, winner[head] \in Threads
  PROVE  me[winner[head]].kind = "pop" /\ pc[winner[head]] \notin Before
<1>1. 0 \notin Threads
  BY DEF Threads
<1> QED BY <1>1 DEF StackInv, WinnerInv

\* The steps of a pop leave what any popper knows, the one that takes the step included.
LEMMA PopFrame ==
  ASSUME Sound, \A u \in Threads : me[u].kind # "push", PopEffect,
         NEW u \in Threads, me[u].kind = "pop"
  PROVE  PopLocal(u, pc[u], me[u], head', Chain', next', winner', states')
<1>1. /\ TypeInv /\ LocalsOK(pc[u], me[u]) /\ StackInv /\ LinkInv
      /\ PopLocal(u, pc[u], me[u], head, Chain, next, winner, states)
      /\ winner \in [Nodes -> Marks] /\ states \in [Threads -> Descriptors]
      /\ head \in Links /\ next \in [Nodes -> Links]
  BY HasLocals DEF Sound, StackInv, LocalInv, Local, TypeInv
<1>2. HelpDone(pc[u], me[u]) => ~states[u].pending /\ pc[u] \notin Before
  BY DEF Sound, HelpInv, SlotsSeen, HelpDone, Ends, Before, Finishing, FinishPush, FinishPop
<1>3. CASE UNCHANGED <<heap, states, grace>>
  BY <1>1, <1>3, ChainStays DEF heap
<1>4. ASSUME NEW v \in Threads, HeadWon(v)
      PROVE  PopLocal(u, pc[u], me[u], head', Chain', next', winner', states')
  <2>1. head \in Nodes
    BY <1>1, <1>4, NodesTyped DEF HeadWon
  <2>2. Chain' = Chain /\ head' = head /\ next' = next /\ states' = states
    BY <1>4, ChainStays DEF HeadWon
  <2>3. winner' = [winner EXCEPT ![head] = v] /\ winner[head] = 0
    BY <1>4 DEF HeadWon
  <2> QED BY <1>1, <2>1, <2>2, <2>3, KnowsWinner
<1>5. ASSUME NEW v \in Threads, OpFinished(v)
      PROVE  PopLocal(u, pc[u], me[u], head', Chain', next', winner', states')
  <2> DEFINE e == Finished(states[v], FALSE, head)
  <2>1. /\ e \in Descriptors /\ After(states[v], e) /\ ~e.pending
    <3>1. states[v] \in Descriptors /\ head \in Links /\ FALSE \in BOOLEAN
      BY <1>1
    <3> QED BY <3>1, FinishedIs
  <2>2. Chain' = Chain /\ head' = head /\ next' = next /\ winner' = winner
    BY <1>5, ChainStays DEF OpFinished, heap
  <2>3. states' = [states EXCEPT ![v] = e] /\ states[v].pending /\ (head = NULL \/ winner[head] = v)
    BY <1>5 DEF OpFinished
  <2> HIDE DEF e
  <2> QED BY <1>1, <1>2, <2>1, <2>2, <2>3, KnowsFinished
<1>6. ASSUME NEW v \in Threads, HeadPopped(v)
      PROVE  PopLocal(u, pc[u], me[u], head', Chain', next', winner', states')
  <2>1. head \in Nodes /\ v > 0
    BY <1>1, <1>6, NodesTyped DEF HeadPopped
  <2>2. Chain' = Chain \ {head} /\ next[head] \in (Chain \ {head}) \cup {NULL}
    BY <1>1, <1>6, ChainPopped
  <2>3. /\ head' = next[head] /\ next' = next /\ winner' = winner /\ states' = states
        /\ winner[head] > 0 /\ ~states[winner[head]].pending
    BY <1>6, <2>1 DEF HeadPopped
  <2>4. HelpDone(pc[u], me[u]) /\ states[u].node \in Chain => states[u].node = head
    BY <1>1, <1>2, TakenIsHead
  <2> QED BY <1>1, <2>1, <2>2, <2>3, <2>4, KnowsPopped
<1> QED BY <1>3, <1>4, <1>5, <1>6 DEF PopEffect

\* What the popper t knows after a step of its own that writes.
LEMMA PopWriteKnows ==
  ASSUME Sound, \A u \in Threads : me[u].kind # "push", NEW t \in Threads, me[t].kind = "pop", PopWrite(t)
  PROVE  PopLocal(t, pc'[t], me'[t], head', Chain', next', winner', states')
<1> DEFINE m == me[t]
           Ok(q, x) == PopLocal(t, q, x, head', Chain', next', winner', states')
           Goal == Ok(pc'[t], me'[t])
<1>1. /\ TypeInv /\ LocalsOK(pc[t], m) /\ m \in Locals /\ m.h \in HelpLocals /\ m.f \in FinishLocals
      /\ DOMAIN pc = Threads /\ DOMAIN me = Threads /\ states \in [Threads -> Descriptors]
      /\ PopLocal(t, pc[t], m, head, Chain, next, winner, states)
  BY HasLocals DEF Sound, StackInv, LocalInv, Local, TypeInv
<1>2. Ok(pc[t], m)
  BY PopFrame, PopWrites
<1>3. ASSUME NEW x
      PROVE  /\ \A q \in Before \cup {"scan", "dispatch", "popHead", "popWhile"} : Ok(q, x)
             /\ x.f.back \in {"popWhile", "popAssert"} => Ok("finish", x)
             /\ states'[t].node \notin Chain' => Ok("popAssert", x)
  BY PlainPlaces
<1> HIDE DEF Ok, m, Goal
<1>4. ASSUME PopNothing(t) PROVE Goal
  <2>1. pc[t] = "popNothing" /\ pc'[t] = "popWinner" /\ me'[t] = m
    BY <1>1, <1>4 DEF PopNothing, At, Goto, m
  <2>2. Ok("popWinner", m)
    BY <1>2, <2>1 DEF Ok, PopLocal, HelpPush, FinishPush, PopHolds, FinishHolds, FinishReads, FinishPop,
       Finishing, HelpDone, Ends
  <2> QED BY <2>1, <2>2 DEF Goal
<1>5. ASSUME PopWin(t) PROVE Goal
  <2> DEFINE x == CallFinish(m, "popWhile")
  <2>1. pc[t] # "popClear" /\ pc[t] = "popWin"
    BY <1>1, <1>5 DEF PopLocal, PopWin
  <2>2. pc'[t] = "finish" /\ me'[t] = x
    BY <1>1, <1>5, <2>1 DEF PopWin, Goto, Keep, m
  <2>3. x.f.back = "popWhile"
    BY <1>1 DEF CallFinish, Locals, FinishLocals
  <2> HIDE DEF x
  <2> QED BY <1>3, <2>2, <2>3 DEF Goal
<1>6. ASSUME PopFinish(t) PROVE Goal
  <2> DEFINE e == Finished(m.f.os, FALSE, m.f.oh)
             v == m.f.tid
  <2>1. /\ pc[t] = "popFinish" /\ pc'[t] = "popSwing" /\ me'[t] = m
        /\ Replace(v, m.f.os, e)
        /\ UNCHANGED heap
    BY <1>1, <1>6 DEF PopFinish, At, Goto, m
  <2>2. v \in Threads /\ m.f.os \in Descriptors
    BY <1>1, <2>1 DEF LocalsOK, FinishLocals, FinishPop
  <2>3. ~e.pending
    BY <2>2 DEF Finished, Descriptors
  <2>4. states[v] = m.f.os => states'[v] = e
    <3>1. v # 0
      BY <2>2 DEF Threads
    <3> HIDE DEF e, v
    <3>2. states[v] = m.f.os => states' = [states EXCEPT ![v] = e]
      BY <2>1, <3>1 DEF Replace
    <3> QED BY <1>1, <2>2, <3>2
  <2>5. states[v] # m.f.os => states' = states
    BY <2>1 DEF Replace
  <2>6. m.f.oh = head => m.f.os = states[v] \/ ~states[v].pending
    BY <1>1, <2>1 DEF PopLocal, FinishReads, FinishPop
  <2>7. m.f.oh = head' => ~states'[v].pending
    BY <2>1, <2>3, <2>4, <2>5, <2>6 DEF heap
  <2>8. HelpDone("popSwing", m) => HelpDone("popFinish", m)
    BY DEF HelpDone, Ends, Finishing, FinishPop
  <2>9. Ok("popSwing", m)
    BY <1>2, <2>1, <2>7, <2>8
       DEF Ok, PopLocal, HelpPush, FinishPush, PopHolds, FinishHolds, FinishReads, FinishPop, Finishing
  <2> QED BY <2>1, <2>9 DEF Goal
<1>7. ASSUME PopSwing(t) PROVE Goal
  <2> DEFINE q == m.f.back
  <2>1. pc[t] = "popSwing" /\ pc'[t] = q /\ head' = Exchange(head, m.f.oh, m.f.nx) /\ states' = states
    BY <1>1, <1>7 DEF PopSwing, At, Goto, m
  <2>2. q \in {"popWhile", "popAssert"}
    BY <1>1, <2>1 DEF PopLocal, Finishing, FinishPop
  <2>3. ASSUME q = "popAssert", states'[t].node \in Chain' PROVE FALSE
    <3>1. HelpDone("popSwing", m)
      BY <2>3 DEF HelpDone, Finishing, FinishPop, Ends
    <3>2. m.f.oh = head'
      BY <1>2, <2>1, <2>3, <3>1 DEF Ok, PopLocal
    <3>3. m.f.nx = next[m.f.oh] /\ m.f.oh \in Nodes
      BY <1>1, <2>1 DEF PopLocal, LocalsOK, Finishing, FinishPop
    <3>4. next[m.f.oh] # m.f.oh
      <4>1. m.f.oh \in Int /\ next[m.f.oh] < m.f.oh
        BY <3>3, <1>1, NodesTyped DEF Sound, StackInv, LinkInv, Downward
      <4> QED BY <4>1
    <3>5. head # m.f.oh
      BY <2>1, <3>2, <3>3, <3>4 DEF Exchange
    <3> QED BY <2>1, <3>2, <3>5 DEF Exchange
  <2> QED BY <1>3, <2>1, <2>2, <2>3 DEF Goal
<1> QED BY <1>4, <1>5, <1>6, <1>7 DEF PopWrite, Goal, Ok

\* What help() and finish() leave of the places and of the locals.
LEMMA HelpLeaves ==
  ASSUME TypeInv, NEW t \in Threads, Help(t) \/ Finish(t)
  PROVE  /\ \A u \in Threads \ {t} : pc'[u] = pc[u] /\ me'[u] = me[u]
         /\ \A u \in Threads :
              /\ me'[u].kind = me[u].kind /\ me'[u].node = me[u].node /\ me'[u].old = me[u].old
              /\ pc'[u] \in Before <=> pc[u] \in Before
<1>1. \/ UNCHANGED <<pc, me>>
      \/ \E q, x :
           /\ Moves(t, q, x) /\ pc[t] \notin Before /\ q \notin Before
           /\ x.kind = me[t].kind /\ x.old = me[t].old /\ x.node = me[t].node
  BY HelpGoesOn
<1> QED BY <1>1 DEF Moves

\* No push is under way when a pop is.
LEMMA PopsOnly ==
  ASSUME Sound, "push" \notin Overlap, NEW t \in Threads, me[t].kind = "pop"
  PROVE  /\ \A u \in Threads : me[u].kind # "push"
         /\ ~destroyed /\ pc[t] # "idle"
<1>1. \A u \in Threads : me[u].kind # "push"
  BY DEF Sound, MeetInv, ApartInv, MeetsPush
<1>2. pc[t] # "idle"
  BY DEF Sound, TypeInv, LocalsOK
<1> QED BY <1>1, <1>2 DEF Sound, HoldInv, RetiredInv

\* A step of help() or finish() for pops: its effect, and what the poppers know after it.
LEMMA PopStep ==
  ASSUME Sound, "push" \notin Overlap, NEW t \in Threads, me[t].kind = "pop", Help(t) \/ Finish(t)
  PROVE  /\ PopEffect /\ (PopRead(t) \/ PopWrite(t))
         /\ UNCHANGED <<pushes, pops, answer, destroyed>>
         /\ \A u \in Threads : me'[u].kind = "pop" =>
              PopLocal(u, pc'[u], me'[u], head', Chain', next', winner', states')
<1>1. TypeInv /\ \A u \in Threads : me[u].kind # "push"
  BY PopsOnly DEF Sound
<1>2. PopLocal(t, pc[t], me[t], head, Chain, next, winner, states)
  BY DEF Sound, StackInv, LocalInv, Local
<1>3. PopRead(t) \/ PopWrite(t)
  BY <1>2, PopHelps DEF PopLocal
<1>4. PopEffect /\ UNCHANGED <<pushes, pops, answer, destroyed>>
  BY <1>1, <1>3, PopReads, PopWrites DEF PopEffect
<1>5. PopLocal(t, pc'[t], me'[t], head', Chain', next', winner', states')
  <2>1. CASE PopRead(t)
    <3>1. head' = head /\ Chain' = Chain /\ next' = next /\ winner' = winner /\ states' = states
      BY <2>1, PopReads, ChainStays DEF heap
    <3>2. PopLocal(t, pc'[t], me'[t], head, Chain, next, winner, states)
      BY <2>1, PopReadKnows
    <3> QED BY <3>1, <3>2
  <2>2. CASE PopWrite(t)
    BY <1>1, <2>2, PopWriteKnows
  <2> QED BY <1>3, <2>1, <2>2
<1>6. ASSUME NEW u \in Threads \ {t}, me'[u].kind = "pop"
      PROVE  PopLocal(u, pc'[u], me'[u], head', Chain', next', winner', states')
  BY <1>1, <1>4, <1>6, HelpLeaves, PopFrame
<1> QED BY <1>3, <1>4, <1>5, <1>6

\* A pop's help() and finish() keep the stack.
LEMMA PopKeepsStack ==
  ASSUME Sound, "push" \notin Overlap, NEW t \in Threads, me[t].kind = "pop", Help(t) \/ Finish(t)
  PROVE  StackInv'
<1>1. /\ TypeInv /\ StackInv /\ LinkInv /\ WinnerInv /\ TakenInv /\ NodeInv
      /\ winner \in [Nodes -> Marks] /\ states \in [Threads -> Descriptors]
      /\ head \in Links /\ next \in [Nodes -> Links]
  BY DEF Sound, StackInv, TypeInv
<1>2. /\ \A u \in Threads : me[u].kind # "push"
      /\ ~destroyed
  BY PopsOnly
<1>3. \A u \in Threads :
        /\ me'[u].kind = me[u].kind /\ me'[u].node = me[u].node
        /\ pc'[u] \in Before <=> pc[u] \in Before
  BY <1>1, HelpLeaves
<1>4. PopEffect /\ pushes' = pushes
  BY PopStep
<1>5. head # NULL => head \in Nodes /\ head \in Chain /\ next[head] # head
  BY <1>1, ChainTyped, NodesTyped
<1>6. next' = next /\ Chain' \subseteq Chain
  <2>1. ASSUME NEW v \in Threads, HeadPopped(v) PROVE next' = next /\ Chain' \subseteq Chain
    BY <1>1, <2>1, ChainPopped DEF HeadPopped
  <2>2. ASSUME NEW v \in Threads, HeadWon(v) \/ OpFinished(v) PROVE next' = next /\ Chain' \subseteq Chain
    BY <2>2, ChainStays DEF HeadWon, OpFinished, heap
  <2> QED BY <1>4, <2>1, <2>2, ChainStays DEF PopEffect, heap
<1>7. LinkInv'
  <2>1. \A n \in Nodes : winner'[n] = winner[n] \/ n \in Chain
    <3>1. ASSUME NEW v \in Threads, HeadWon(v), NEW n \in Nodes PROVE winner'[n] = winner[n] \/ n \in Chain
      BY <1>1, <1>5, <3>1 DEF HeadWon
    <3> QED BY <1>4, <3>1 DEF PopEffect, OpFinished, HeadPopped, heap
  <2>2. \A n \in Chain : n <= pushes /\ ~(n > pushes)
    <3>1. \A n \in Chain : n \in Int /\ pushes \in Int
      BY <1>1, ChainTyped, NodesTyped DEF TypeInv, Links
    <3> QED BY <1>1, <3>1 DEF LinkInv
  <2>3. \A n \in Nodes : n > pushes => next[n] = NULL /\ winner[n] = 0 /\ winner'[n] = winner[n]
    BY <1>1, <2>1, <2>2 DEF LinkInv
  <2>4. Downward(next') /\ pushes' = pushes
    BY <1>1, <1>4, <1>6 DEF LinkInv
  <2> QED BY <1>6, <2>2, <2>3, <2>4 DEF LinkInv
\* The operations that are announced, and pending or not.
<1>8. ASSUME NEW v \in Threads, states[v].pending PROVE me[v].kind = "pop" /\ pc[v] \notin Before
  <2>1. pc[v] \notin Before
    BY <1>8 DEF Sound, HelpInv, SlotsSeen
  <2>2. me[v].kind # "none" /\ me[v] \in Locals
    BY <1>1, <2>1 DEF TypeInv, LocalsOK, Before
  <2> QED BY <1>2, <2>1, <2>2 DEF Locals
<1>9. WinnerInv'
  <2>1. CASE UNCHANGED <<heap, states, grace>>
    <3>1. Chain' = Chain /\ head' = head /\ winner' = winner /\ states' = states
      BY <2>1, ChainStays DEF heap
    <3> QED BY <1>1, <1>2, <1>3, <3>1 DEF WinnerInv
  <2>2. ASSUME NEW v \in Threads, HeadWon(v) PROVE WinnerInv'
    <3>1. /\ Chain' = Chain /\ head' = head /\ states' = states /\ head # NULL /\ states[v].pending
          /\ winner' = [winner EXCEPT ![head] = v]
      BY <2>2, ChainStays DEF HeadWon
    <3>2. winner'[head] = v /\ \A n \in Nodes : n # head => winner'[n] = winner[n]
      BY <1>1, <1>5, <3>1
    <3>3. Clean(Chain \ {head}, winner')
      BY <1>1, <1>2, <3>2, ChainTyped DEF WinnerInv, Clean
    <3>4. me'[v].kind = "pop" /\ pc'[v] \notin Before
      BY <1>3, <1>8, <3>1
    <3> QED BY <3>1, <3>2, <3>3, <3>4 DEF WinnerInv
  <2>3. ASSUME NEW v \in Threads, OpFinished(v) PROVE WinnerInv'
    <3> DEFINE e == Finished(states[v], FALSE, head)
    <3>1. /\ Chain' = Chain /\ head' = head /\ winner' = winner
          /\ head # NULL => winner[head] = v
          /\ states' = [states EXCEPT ![v] = e]
      BY <2>3, ChainStays DEF OpFinished, heap
    <3>2. e.node = head
      BY <1>1, FinishedIs
    <3> HIDE DEF e
    <3>3. states'[v].node = head
      BY <1>1, <3>1, <3>2
    <3> QED BY <1>1, <1>2, <1>3, <3>1, <3>3 DEF WinnerInv
  <2>4. ASSUME NEW v \in Threads, HeadPopped(v) PROVE WinnerInv'
    <3>1. /\ Chain' = Chain \ {head} /\ next[head] \in (Chain \ {head}) \cup {NULL}
          /\ head' = next[head] /\ winner' = winner
      BY <1>1, <2>4, ChainPopped DEF HeadPopped
    <3>2. Clean(Chain', winner')
      BY <1>1, <1>2, <3>1 DEF WinnerInv
    <3>3. head' # NULL => winner'[head'] = 0
      BY <3>1, <3>2 DEF Clean
    <3> QED BY <3>2, <3>3 DEF WinnerInv, Clean
  <2> QED BY <1>4, <2>1, <2>2, <2>3, <2>4 DEF PopEffect
<1>10. TakenInv'
  <2> SUFFICES ASSUME NEW u \in Threads, me'[u].kind = "pop", pc'[u] \notin Before
               PROVE  /\ ~states'[u].push
                      /\ states'[u].pending => states'[u].node = NULL
                      /\ states'[u].node # NULL =>
                           winner'[states'[u].node] = u /\ NodeOf(states'[u].node) \notin DOMAIN grace'
    BY DEF TakenInv
  <2>1. /\ ~states[u].push
        /\ states[u].pending => states[u].node = NULL
        /\ states[u].node # NULL =>
             winner[states[u].node] = u /\ NodeOf(states[u].node) \notin DOMAIN grace
    BY <1>1, <1>3 DEF TakenInv
  <2>2. u # 0 /\ states[u].node \in Links
    BY <1>1, NodesTyped DEF Descriptors
  <2>3. CASE states' = states /\ winner' = winner /\ grace' = grace
    BY <2>1, <2>3
  <2>4. ASSUME NEW v \in Threads, HeadWon(v)
        PROVE  /\ states' = states /\ grace' = grace
               /\ states[u].node # NULL => winner'[states[u].node] = winner[states[u].node]
    <3>1. states[u].node # NULL => states[u].node \in Nodes /\ states[u].node # head
      BY <1>1, <2>1, <2>2, <2>4, NodesTyped DEF HeadWon
    <3> QED BY <1>1, <2>4, <3>1 DEF HeadWon
  <2>5. ASSUME NEW v \in Threads, OpFinished(v)
        PROVE  /\ ~states'[u].push
               /\ states'[u].pending => states'[u].node = NULL
               /\ states'[u].node # NULL =>
                    winner'[states'[u].node] = u /\ NodeOf(states'[u].node) \notin DOMAIN grace'
    <3> DEFINE e == Finished(states[v], FALSE, head)
    <3>1. /\ winner' = winner /\ (head # NULL => winner[head] = v)
          /\ states' = [states EXCEPT ![v] = e]
          /\ DOMAIN grace' = DOMAIN grace \cup {StateOf(states[v])}
      BY <2>5, RetireKeeps DEF OpFinished, heap
    <3>2. e.node = head /\ ~e.push /\ ~e.pending
      BY <1>1, FinishedIs
    <3> HIDE DEF e
    <3>3. \A n : NodeOf(n) \in DOMAIN grace' => NodeOf(n) \in DOMAIN grace
      BY <3>1, StateOfIsOwn
    <3>4. head # NULL => NodeOf(head) \notin DOMAIN grace
      BY <1>1, <1>2, <1>5 DEF NodeInv
    <3>5. CASE u = v
      <4>1. states'[u] = e
        BY <1>1, <3>1, <3>5
      <4> QED BY <3>1, <3>2, <3>3, <3>4, <3>5, <4>1
    <3>6. CASE u # v
      <4>1. states'[u] = states[u]
        BY <1>1, <3>1, <3>6
      <4> QED BY <2>1, <3>1, <3>3, <4>1
    <3> QED BY <3>5, <3>6
  <2> QED BY <1>4, <2>1, <2>3, <2>4, <2>5 DEF PopEffect, HeadPopped, heap
<1>11. LocalInv'
  <2>1. \A u \in Threads : me[u].kind # "push" => me[u].node = NULL
    BY <1>1 DEF StackInv, LocalInv, Local
  <2>2. \A u \in Threads : me'[u].kind # "push" /\ me'[u].node = NULL
    BY <1>2, <1>3, <2>1
  <2> QED BY <2>2, PopStep DEF LocalInv, Local
<1> QED BY <1>7, <1>9, <1>10, <1>11 DEF StackInv

\* A step that leaves the stack and the slots as they are.
LEMMA QuietStack ==
  ASSUME TypeInv, StackInv, NEW t \in Threads, NEW q, NEW x, Moves(t, q, x),
         UNCHANGED <<heap, states>>, pushes' = pushes,
         Local(t, q, x, head, Chain, next, winner, states),
         \/ x.kind = "push"
         \/ /\ \A u \in Threads : me[u].kind # "push"
            /\ head # NULL /\ winner[head] = t => x.kind = "pop" /\ q \notin Before,
         x.kind = "pop" /\ q \notin Before => me[t].kind = "pop" /\ pc[t] \notin Before,
         \A u \in Threads :
           me'[u].kind = "pop" /\ pc'[u] \notin Before /\ states[u].node # NULL =>
             NodeOf(states[u].node) \notin DOMAIN grace' \ DOMAIN grace
  PROVE  StackInv'
<1>1. /\ LinkInv /\ WinnerInv /\ TakenInv /\ LocalInv
      /\ pc'[t] = q /\ me'[t] = x /\ \A u \in Threads \ {t} : pc'[u] = pc[u] /\ me'[u] = me[u]
      /\ head' = head /\ next' = next /\ winner' = winner /\ Chain' = Chain
  BY ChainStays DEF StackInv, Moves, heap
<1>2. LinkInv'
  BY <1>1 DEF LinkInv
<1>3. WinnerInv'
  BY <1>1 DEF WinnerInv
<1>4. TakenInv'
  BY <1>1 DEF TakenInv
<1>5. LocalInv'
  BY <1>1 DEF LocalInv
<1> QED BY <1>2, <1>3, <1>4, <1>5 DEF StackInv

\* Steps that leave the stack, the slots and the threads alone.
LEMMA StackUnchanged ==
  ASSUME StackInv, UNCHANGED <<heap, states, pc, me, grace, pushes>>
  PROVE  StackInv'
<1>1. Chain' = Chain /\ head' = head /\ next' = next /\ winner' = winner
  BY ChainStays DEF heap
<1>2. LinkInv' /\ WinnerInv'
  BY <1>1 DEF StackInv, LinkInv, WinnerInv
<1>3. TakenInv' /\ LocalInv'
  BY <1>1 DEF StackInv, TakenInv, LocalInv
<1> QED BY <1>2, <1>3 DEF StackInv

\* A call begins when no push is under way.
LEMMA CallBegins ==
  ASSUME TypeInv, "push" \notin Overlap, NEW t \in Threads, NEW kind \in {"push", "pop"}, NEW node,
         Begin(t, kind, node)
  PROVE  LET x == me'[t] IN
         /\ Moves(t, "loadPhase", x) /\ x.kind = kind /\ x.node = node
         /\ x.h = NoHelp /\ x.f = NoFinish
         /\ UNCHANGED <<heap, states, grace, answer, destroyed>> /\ crashed' = crashed
         /\ pc[t] = "idle" /\ me[t].kind = "none" /\ ~destroyed
         /\ \A u \in Threads : me[u].kind # "push"
         /\ kind = "push" => \A u \in Threads : me[u].kind = "none"
<1> DEFINE x == [Idle EXCEPT !.kind = kind, !.node = node, !.i = 1, !.guarded = GuardedCall(kind)]
<1>1. /\ At(t, "idle") /\ MayStart(kind) /\ Goto(t, "loadPhase") /\ Keep(t, x)
      /\ UNCHANGED <<heap, states, grace, crashed, answer, destroyed>>
  BY DEF Begin
<1>2. pc[t] = "idle" /\ me[t].kind = "none"
  BY <1>1 DEF At, TypeInv, LocalsOK
<1>3. /\ ~destroyed /\ \A u \in Threads : me[u].kind # "push"
      /\ kind = "push" => \A u \in Threads : me[u].kind = "none"
  BY <1>1 DEF MayStart
<1>4. Moves(t, "loadPhase", x) /\ me'[t] = x
  BY <1>1 DEF Moves, Goto, Keep, TypeInv
<1>5. x.kind = kind /\ x.node = node /\ x.h = NoHelp /\ x.f = NoFinish
  BY DEF Idle
<1> HIDE DEF x
<1> QED BY <1>1, <1>2, <1>3, <1>4, <1>5

LEMMA CallPopStack ==
  ASSUME Sound, "push" \notin Overlap, NEW t \in Threads, CallPop(t)
  PROVE  StackInv'
<1> DEFINE x == me'[t]
<1>1. TypeInv /\ StackInv /\ Begin(t, "pop", NULL) /\ pushes' = pushes
  BY DEF Sound, CallPop
<1>2. /\ Moves(t, "loadPhase", x) /\ x.kind = "pop" /\ x.node = NULL
      /\ UNCHANGED <<heap, states, grace>> /\ pc[t] = "idle"
      /\ \A u \in Threads : me[u].kind # "push"
  BY <1>1, CallBegins
<1>3. "loadPhase" \in Before /\ "idle" \in Before
  BY DEF Before
<1> HIDE DEF x
<1>4. Local(t, "loadPhase", x, head, Chain, next, winner, states)
  BY <1>2, <1>3, PlainPlaces DEF Local
<1>5. head # NULL => winner[head] # t
  BY <1>1, <1>2, <1>3, WinnerAnnounced
<1> QED BY <1>1, <1>2, <1>3, <1>4, <1>5, QuietStack

\* max_phase() and the load of the slot.
LEMMA PhaseMoves ==
  ASSUME TypeInv, NEW t \in Threads, LoadPhase(t) \/ ReadPhase(t) \/ LoadOld(t)
  PROVE  LET m == me[t]
             x == me'[t]
             q == pc'[t] IN
         /\ Moves(t, q, x) /\ pc[t] \in Before \ {"idle"} /\ q \in Before \ {"idle"}
         /\ x.kind = m.kind /\ x.node = m.node /\ x.f = m.f /\ x.h.oh \in {m.h.oh, NULL}
         /\ UNCHANGED <<heap, states, bookkeeping>>
<1> DEFINE m == me[t]
           Goal == /\ Moves(t, pc'[t], me'[t]) /\ pc[t] \in Before \ {"idle"} /\ pc'[t] \in Before \ {"idle"}
                   /\ me'[t].kind = m.kind /\ me'[t].node = m.node /\ me'[t].f = m.f
                   /\ me'[t].h.oh \in {m.h.oh, NULL}
                   /\ UNCHANGED <<heap, states, bookkeeping>>
<1>1. m \in Locals /\ m.h \in HelpLocals
  BY HasLocals
<1>2. ASSUME NEW q \in Before \ {"idle"}, NEW x, Read(t, q, x), pc[t] \in Before \ {"idle"},
             x.kind = m.kind, x.node = m.node, x.f = m.f, x.h.oh \in {m.h.oh, NULL}
      PROVE  Goal
  <2>1. Moves(t, q, x) /\ pc'[t] = q /\ me'[t] = x /\ UNCHANGED <<heap, states, bookkeeping>>
    BY <1>2 DEF Read, Goto, Keep, Moves, TypeInv
  <2> QED BY <1>2, <2>1
<1> HIDE DEF m, Goal
<1>3. ASSUME LoadPhase(t) PROVE Goal
  <2> DEFINE x == [m EXCEPT !.h.os = states[m.i]]
  <2>1. pc[t] = "loadPhase" /\ Read(t, "readPhase", x)
    BY <1>3 DEF LoadPhase, At, m
  <2>2. x.kind = m.kind /\ x.node = m.node /\ x.f = m.f /\ x.h.oh = m.h.oh
    BY <1>1 DEF Locals, HelpLocals
  <2> HIDE DEF x
  <2> QED BY <1>2, <2>1, <2>2 DEF Before
<1>4. ASSUME ReadPhase(t) PROVE Goal
  <2> DEFINE n == [m EXCEPT !.h = NoHelp]
  <2>1. /\ pc[t] = "readPhase"
        /\ \/ Read(t, "loadPhase", n)
           \/ \E a, b : Read(t, "loadPhase", [n EXCEPT !.phase = a, !.i = b])
           \/ \E a, b, c : Read(t, "loadOld", [n EXCEPT !.phase = a, !.guarded = b, !.i = c])
    BY <1>4 DEF ReadPhase, At, m
  <2>2. n.kind = m.kind /\ n.node = m.node /\ n.f = m.f /\ n.h.oh = NULL
    BY <1>1 DEF Locals, NoHelp
  <2>3. /\ \A a, b : LET x == [n EXCEPT !.phase = a, !.i = b] IN
             x.kind = n.kind /\ x.node = n.node /\ x.f = n.f /\ x.h = n.h
        /\ \A a, b, c : LET x == [n EXCEPT !.phase = a, !.guarded = b, !.i = c] IN
             x.kind = n.kind /\ x.node = n.node /\ x.f = n.f /\ x.h = n.h
    BY <1>1 DEF Locals
  <2> HIDE DEF n
  <2>4. CASE Read(t, "loadPhase", n)
    BY <1>2, <2>1, <2>2, <2>4 DEF Before
  <2>5. ASSUME NEW a, NEW b, Read(t, "loadPhase", [n EXCEPT !.phase = a, !.i = b]) PROVE Goal
    <3> DEFINE x == [n EXCEPT !.phase = a, !.i = b]
    <3>1. x.kind = m.kind /\ x.node = m.node /\ x.f = m.f /\ x.h.oh = NULL
      BY <2>2, <2>3
    <3> HIDE DEF x
    <3> QED BY <1>2, <2>1, <2>5, <3>1 DEF Before, x
  <2>6. ASSUME NEW a, NEW b, NEW c, Read(t, "loadOld", [n EXCEPT !.phase = a, !.guarded = b, !.i = c])
        PROVE  Goal
    <3> DEFINE x == [n EXCEPT !.phase = a, !.guarded = b, !.i = c]
    <3>1. x.kind = m.kind /\ x.node = m.node /\ x.f = m.f /\ x.h.oh = NULL
      BY <2>2, <2>3
    <3> HIDE DEF x
    <3> QED BY <1>2, <2>1, <2>6, <3>1 DEF Before, x
  <2> QED BY <2>1, <2>4, <2>5, <2>6
<1>5. ASSUME LoadOld(t) PROVE Goal
  <2> DEFINE x == [m EXCEPT !.old = states[t]]
  <2>1. pc[t] = "loadOld" /\ Read(t, "announce", x)
    BY <1>5 DEF LoadOld, At, m
  <2>2. x.kind = m.kind /\ x.node = m.node /\ x.f = m.f /\ x.h = m.h
    BY <1>1 DEF Locals
  <2> HIDE DEF x
  <2> QED BY <1>2, <2>1, <2>2 DEF Before
<1> QED BY <1>3, <1>4, <1>5 DEF Goal, m

\* Before the announcement a push knows this.
LEMMA PushBegins ==
  ASSUME NEW t \in Threads, NEW p \in Before, NEW m, NEW hd, NEW ch, NEW nx, NEW wn, NEW st
  PROVE  PushLocal(t, p, m, hd, ch, nx, wn, st) <=>
           (m.node \notin ch => wn[m.node] = 0) /\ Fresh(m.node, ch, nx) /\ Clean(ch, wn)
  BY DEF PushLocal, Before, HelpPop, FinishPop, PushStarts, PushEmpty, Finishing, PushWon, FinishHolds,
     FinishPush, PushReads, Ends

LEMMA PhaseStack ==
  ASSUME Sound, "push" \notin Overlap, NEW t \in Threads, LoadPhase(t) \/ ReadPhase(t) \/ LoadOld(t)
  PROVE  StackInv'
<1> DEFINE m == me[t]
           x == me'[t]
           q == pc'[t]
<1>1. /\ TypeInv /\ StackInv /\ Local(t, pc[t], m, head, Chain, next, winner, states)
      /\ LocalsOK(pc[t], m)
  BY HasLocals DEF Sound, StackInv, LocalInv
<1>2. /\ Moves(t, q, x) /\ pc[t] \in Before \ {"idle"} /\ q \in Before \ {"idle"}
      /\ x.kind = m.kind /\ x.node = m.node
      /\ UNCHANGED <<heap, states, bookkeeping>>
  BY <1>1, PhaseMoves
<1>3. m.kind # "none" /\ m.kind \in {"none", "push", "pop"}
  BY <1>1, <1>2 DEF LocalsOK, Locals
<1>4. pushes' = pushes /\ grace' = grace
  BY <1>2 DEF bookkeeping
<1> HIDE DEF q, x, m
<1>5. Local(t, q, x, head, Chain, next, winner, states)
  <2>1. PopLocal(t, q, x, head, Chain, next, winner, states)
    BY <1>2, PlainPlaces
  <2>2. PushLocal(t, pc[t], m, head, Chain, next, winner, states) =>
          PushLocal(t, q, x, head, Chain, next, winner, states)
    <3>1. pc[t] \in Before /\ q \in Before
      BY <1>2
    <3>2. /\ PushLocal(t, pc[t], m, head, Chain, next, winner, states) <=>
                (m.node \notin Chain => winner[m.node] = 0) /\ Fresh(m.node, Chain, next) /\ Clean(Chain, winner)
          /\ PushLocal(t, q, x, head, Chain, next, winner, states) <=>
                (x.node \notin Chain => winner[x.node] = 0) /\ Fresh(x.node, Chain, next) /\ Clean(Chain, winner)
      BY <3>1, PushBegins
    <3> QED BY <1>2, <3>2
  <2> QED BY <1>1, <1>2, <2>1, <2>2 DEF Local
<1>6. CASE m.kind = "push"
  BY <1>1, <1>2, <1>4, <1>5, <1>6, QuietStack
<1>7. CASE m.kind = "pop"
  <2>1. \A u \in Threads : me[u].kind # "push"
    BY <1>7, PopsOnly DEF m
  <2>2. head # NULL => winner[head] # t
    BY <1>1, <1>2, <2>1, WinnerAnnounced
  <2> QED BY <1>1, <1>2, <1>4, <1>5, <1>7, <2>1, <2>2, QuietStack
<1> QED BY <1>3, <1>6, <1>7

\* pop() announces itself.
LEMMA AnnouncePopStack ==
  ASSUME Sound, "push" \notin Overlap, NEW t \in Threads, me[t].kind = "pop", Announce(t)
  PROVE  StackInv' /\ UNCHANGED <<head, next, winner, grace, crashed, pushes, pops, answer, destroyed>>
<1> DEFINE m == me[t]
           d == Descriptor(t, m.phase, TRUE, FALSE, m.node, 0)
           x == [m EXCEPT !.ahead = {states[u] : u \in {v \in Threads : Pending(v, m.phase)}},
                          !.less = m.phase - 1, !.i = 1]
<1>1. /\ TypeInv /\ StackInv /\ LinkInv /\ WinnerInv /\ TakenInv /\ LocalInv /\ m \in Locals
      /\ states \in [Threads -> Descriptors]
  BY HasLocals DEF Sound, StackInv, TypeInv
<1>2. /\ pc[t] = "announce" /\ states' = [states EXCEPT ![t] = d] /\ Goto(t, "scan") /\ Keep(t, x)
      /\ UNCHANGED <<heap, bookkeeping>>
  BY DEF Announce, At
<1>3. /\ pc'[t] = "scan" /\ me'[t] = x
      /\ \A u \in Threads \ {t} : pc'[u] = pc[u] /\ me'[u] = me[u] /\ states'[u] = states[u]
      /\ states'[t] = d /\ head' = head /\ next' = next /\ winner' = winner /\ Chain' = Chain
      /\ grace' = grace /\ pushes' = pushes
  BY <1>1, <1>2, ChainStays DEF Goto, Keep, TypeInv, heap, bookkeeping
<1>4. x.kind = "pop" /\ x.node = m.node
  BY <1>1 DEF Locals
<1>5. m.node = NULL
  BY <1>1 DEF LocalInv, Local
<1>6. /\ d.pending /\ ~d.push /\ d.node = NULL /\ d.phase = m.phase /\ d \in Descriptors
  <2>1. m.phase \in Nat /\ t \in 0..N /\ NULL \in Links
    BY <1>1, NodesTyped, StackAssumption DEF Locals, Threads
  <2> QED BY <1>5, <2>1 DEF Descriptor, Descriptors
<1>7. After(states[t], d)
  <2>1. states[t].phase < m.phase
    BY <1>2 DEF Sound, HelpInv, SlotsSeen
  <2> QED BY <1>6, <2>1 DEF After
<1>8. \A u \in Threads : me[u].kind # "push"
  BY PopsOnly
<1>9. pc[t] \in Before /\ "scan" \notin Before
  BY <1>2 DEF Before
<1>10. head # NULL => winner[head] # t
  BY <1>1, <1>8, <1>9, WinnerAnnounced
<1> HIDE DEF d, x, m
<1>11. LinkInv'
  BY <1>1, <1>3 DEF LinkInv
<1>12. WinnerInv'
  BY <1>1, <1>3, <1>4, <1>8, <1>10 DEF WinnerInv
<1>13. TakenInv'
  BY <1>1, <1>3, <1>4, <1>6, <1>8 DEF TakenInv
<1>14. LocalInv'
  <2>1. Local(t, "scan", x, head, Chain, next, winner, states')
    BY <1>4, <1>5, PlainPlaces DEF Local
  <2>2. ASSUME NEW u \in Threads \ {t}
        PROVE  Local(u, pc[u], me[u], head, Chain, next, winner, states')
    <3>1. LocalsOK(pc[u], me[u]) /\ Local(u, pc[u], me[u], head, Chain, next, winner, states)
      BY <1>1, HasLocals DEF LocalInv
    <3>2. CASE me[u].kind = "pop"
      <4>1. PopLocal(u, pc[u], me[u], head, Chain, next, winner, states)
        BY <3>1, <3>2 DEF Local
      <4>2. PopLocal(u, pc[u], me[u], head, Chain, next, winner, states')
        BY <1>1, <1>2, <1>6, <1>7, <1>10, <3>1, <4>1, KnowsAnnounced DEF d, m
      <4> QED BY <3>1, <3>2, <4>2 DEF Local
    <3> QED BY <1>8, <3>1, <3>2 DEF Local
  <2> QED BY <1>3, <2>1, <2>2 DEF LocalInv
<1> QED BY <1>2, <1>11, <1>12, <1>13, <1>14 DEF StackInv, heap, bookkeeping

\* The end of pop(): the node it has taken is out of the chain.
LEMMA PopEnds ==
  ASSUME Sound, "push" \notin Overlap, NEW t \in Threads, me[t].kind = "pop", pc[t] \in Ends
  PROVE  /\ states[t].node \notin Chain /\ ~states[t].pending /\ (head # NULL => winner[head] # t)
         /\ states[t].node # NULL =>
              /\ states[t].node \in Nodes /\ winner[states[t].node] = t
              /\ NodeOf(states[t].node) \notin DOMAIN grace
<1>1. TypeInv /\ StackInv /\ \A u \in Threads : me[u].kind # "push"
  BY PopsOnly DEF Sound
<1>2. HelpDone(pc[t], me[t]) /\ pc[t] \notin Finishing /\ pc[t] \notin Before
  BY DEF HelpDone, Ends, Finishing, FinishPush, FinishPop, Before
<1>3. states[t].node \notin Chain
  BY <1>2 DEF Sound, StackInv, LocalInv, Local, PopLocal
<1>4. ~states[t].pending
  BY <1>2 DEF Sound, HelpInv, SlotsSeen
<1>5. states[t].node # NULL =>
        /\ states[t].node \in Nodes /\ winner[states[t].node] = t
        /\ NodeOf(states[t].node) \notin DOMAIN grace
  <2>1. states[t].node \in Links
    BY <1>1 DEF TypeInv, Descriptors
  <2> QED BY <1>1, <1>2, <2>1, NodesTyped DEF StackInv, TakenInv
<1>6. head # NULL => winner[head] # t
  <2>1. head # NULL => head \in Chain
    BY <1>1, ChainTyped DEF StackInv
  <2>2. t # 0
    BY DEF Threads
  <2> QED BY <1>1, <1>3, <1>4, <2>1, <2>2 DEF StackInv, WinnerInv
<1> QED BY <1>3, <1>4, <1>5, <1>6

LEMMA EndPopStack ==
  ASSUME Sound, "push" \notin Overlap, NEW t \in Threads, me[t].kind = "pop", PopAssert(t) \/ PopReturn(t)
  PROVE  StackInv' /\ UNCHANGED <<heap, states, pushes, pops, destroyed>>
<1>1. /\ TypeInv /\ StackInv /\ \A u \in Threads : me[u].kind # "push"
      /\ Local(t, pc[t], me[t], head, Chain, next, winner, states)
  BY PopsOnly DEF Sound, StackInv, LocalInv
<1>2. pc[t] \in Ends
  BY DEF PopAssert, PopReturn, At, Ends
<1>3. /\ states[t].node \notin Chain /\ ~states[t].pending /\ (head # NULL => winner[head] # t)
      /\ states[t].node # NULL => winner[states[t].node] = t
  BY <1>2, PopEnds
<1>4. CASE PopAssert(t)
  <2>1. Read(t, "popReturn", me[t]) /\ pc[t] = "popAssert"
    BY <1>3, <1>4 DEF PopAssert, At
  <2>2. Moves(t, "popReturn", me[t]) /\ UNCHANGED <<heap, states, bookkeeping>>
    BY <1>1, <2>1 DEF Read, Goto, Keep, Moves, TypeInv
  <2>3. Local(t, "popReturn", me[t], head, Chain, next, winner, states)
    BY <1>1, <1>3, PlainPlaces DEF Local
  <2>4. pc[t] \notin Before /\ "popReturn" \notin Before
    BY <2>1 DEF Before
  <2> QED BY <1>1, <2>2, <2>3, <2>4, <1>3, QuietStack DEF bookkeeping
<1>5. CASE PopReturn(t)
  <2> DEFINE n == states[t].node
  <2>1. /\ \/ n = NULL /\ Leave(t, {})
           \/ n # NULL /\ Leave(t, {NodeOf(n), StateOf(me[t].old)})
        /\ UNCHANGED winner
    BY <1>5 DEF PopReturn
  <2>2. PICK objects :
          /\ Retire(objects, Threads \ {t}) /\ Moves(t, "idle", Idle)
          /\ UNCHANGED <<heap, states, pushes, pops, destroyed>>
          /\ \A k : NodeOf(k) \in objects => k = n /\ n # NULL
    <3>1. \A k : NodeOf(k) \in {NodeOf(n), StateOf(me[t].old)} => k = n
      BY DEF NodeOf, StateOf
    <3> QED BY <1>1, <2>1, <3>1 DEF Leave, Goto, Keep, Moves, TypeInv, heap
  <2>3. DOMAIN grace' = DOMAIN grace \cup objects
    BY <2>2, RetireKeeps
  <2>4. Idle.kind = "none" /\ Idle.node = NULL
    BY DEF Idle
  <2>5. Local(t, "idle", Idle, head, Chain, next, winner, states)
    BY <2>4 DEF Local
  <2>6. ASSUME NEW u \in Threads, me'[u].kind = "pop", pc'[u] \notin Before, states[u].node # NULL
        PROVE  NodeOf(states[u].node) \notin DOMAIN grace' \ DOMAIN grace
    <3>1. u # t /\ me[u].kind = "pop" /\ pc[u] \notin Before
      BY <2>2, <2>4, <2>6 DEF Moves, Before
    <3>2. winner[states[u].node] = u
      BY <1>1, <2>6, <3>1 DEF StackInv, TakenInv
    <3> QED BY <1>3, <2>2, <2>3, <3>1, <3>2
  <2> HIDE DEF n
  <2>7. StackInv'
    BY <1>1, <1>3, <2>2, <2>4, <2>5, <2>6, QuietStack
  <2> QED BY <2>2, <2>7
<1> QED BY <1>4, <1>5

LEMMA DestroyStack ==
  ASSUME Sound, Destroy
  PROVE  StackInv'
<1>1. /\ TypeInv /\ StackInv /\ \A t \in Threads : me[t].kind = "none"
      /\ UNCHANGED <<heap, states, pc, me, pushes>>
  BY DEF Sound, Destroy, TypeInv, LocalsOK
<1>2. Chain' = Chain /\ head' = head /\ next' = next /\ winner' = winner
  BY <1>1, ChainStays DEF heap
<1>3. LinkInv' /\ WinnerInv' /\ LocalInv'
  BY <1>1, <1>2 DEF StackInv, LinkInv, WinnerInv, LocalInv
<1>4. TakenInv'
  BY <1>1 DEF TakenInv
<1> QED BY <1>3, <1>4 DEF StackInv

-------------------------------------------------------------------------------
(* What the steps of a push do to the stack.                               *)

\* A thread that pushes is alone.
LEMMA PushAlone ==
  ASSUME Sound, "push" \notin Overlap, NEW t \in Threads, me[t].kind = "push"
  PROVE  /\ \A u \in Threads \ {t} : me[u].kind = "none" /\ pc[u] = "idle" /\ ~states[u].pending
         /\ ~destroyed /\ pc[t] # "idle"
         /\ PushLocal(t, pc[t], me[t], head, Chain, next, winner, states)
<1>1. \A u \in Threads \ {t} : me[u].kind = "none" /\ pc[u] = "idle"
  BY DEF Sound, MeetInv, ApartInv, MeetsPush, TypeInv, LocalsOK
<1>2. \A u \in Threads \ {t} : ~states[u].pending
  BY <1>1 DEF Sound, HelpInv, SlotsSeen, Before
<1>3. pc[t] # "idle"
  BY DEF Sound, TypeInv, LocalsOK
<1> QED BY <1>1, <1>2, <1>3 DEF Sound, HoldInv, RetiredInv, StackInv, LocalInv, Local

\* It keeps the stack if it knows what it has to.
LEMMA PushKeeps ==
  ASSUME Sound, NEW t \in Threads, NEW q, NEW x, Moves(t, q, x), x.kind = "push",
         \A u \in Threads \ {t} : me[u].kind = "none",
         PushLocal(t, q, x, head', Chain', next', winner', states'), LinkInv'
  PROVE  StackInv'
<1>1. /\ pc'[t] = q /\ me'[t] = x
      /\ \A u \in Threads \ {t} : pc'[u] = pc[u] /\ me'[u] = me[u] /\ me[u].kind = "none" /\ me[u].node = NULL
  BY DEF Moves, Sound, StackInv, LocalInv, Local
<1>2. WinnerInv' /\ TakenInv'
  BY <1>1 DEF WinnerInv, TakenInv
<1>3. LocalInv'
  BY <1>1 DEF LocalInv, Local
<1> QED BY <1>2, <1>3 DEF StackInv

\* What it has to know at each place.
LEMMA PushPlaces ==
  ASSUME NEW t \in Threads, NEW x, NEW hd, NEW ch, NEW nx, NEW wn, NEW st, NEW n, NEW d,
         n = x.node, d = st[t], n \notin ch => wn[n] = 0, d.push /\ d.node = n
  PROVE  LET still == d.pending /\ Fresh(n, ch, nx) /\ Clean(ch, wn)
             done == PushDone(n, d, hd, ch, wn)
             won == d.pending /\ Fresh(n, ch, nx) /\ HeadHas(t, hd, ch, wn)
             On(q) == PushLocal(t, q, x, hd, ch, nx, wn, st)
             marks == x.f.back = "pushWhile" /\ x.f.minus = -t
             mine == marks /\ x.f.tid = t
         IN
         /\ still \/ done => On("scan") /\ On("pushWhile")
         /\ still /\ x.i = t =>
              /\ On("dispatch") /\ On("pushHead")
              /\ x.h.oh = hd =>
                   /\ On("pushState") /\ On("pushWinner")
                   /\ x.h.os = d => On("pushCheck")
                   /\ x.h.os = d /\ hd = NULL => On("pushPending") /\ On("pushSame") /\ On("pushFirst")
                   /\ x.h.ow = 0 => On("pushRecheck") /\ On("pushStill") /\ On("pushWin")
         /\ x.i = t /\ d.pending /\ hd = n /\ Clean(ch, wn) =>
              /\ On("firstLoad")
              /\ x.h.os = d => On("firstDone")
         /\ x.f.back = "pushNext" /\ done =>
              /\ On("finish")
              /\ x.f.oh = hd => On("finishWinner")
         /\ x.f.back = "pushWhile" /\ won =>
              /\ On("finish")
              /\ x.f.oh = hd =>
                   /\ On("finishWinner")
                   /\ mine => On("finishState")
                   /\ mine /\ x.f.os = d =>
                        /\ On("sameHead") /\ On("sameWinner") /\ On("sameState") /\ On("pushStays")
                        /\ x.f.nx = n => On("pushMark")
         /\ marks /\ x.f.oh = hd /\ x.f.nx = n /\ Fresh(n, ch, nx) /\ HeadHas(-t, hd, ch, wn) =>
              /\ x.f.tid = t /\ x.f.os = d /\ d.pending => On("pushFinish")
              /\ ~d.pending => On("pushLink")
         /\ marks /\ x.f.oh = hd /\ x.f.nx = n /\ ~d.pending /\ n \notin ch /\ nx[n] = hd
              /\ HeadHas(-t, hd, ch, wn) => On("pushSwing")
         /\ marks /\ ~d.pending /\ hd = n /\ x.f.oh = nx[n] /\ HeadHas(-t, x.f.oh, ch, wn) => On("pushUnmark")
         /\ done =>
              /\ On("pushNext")
              /\ x.f.nx = nx[n] => On("pushClear")
<1> USE DEF PushLocal, Before, HelpPop, FinishPop, PushStarts, PushEmpty, Finishing, PushWon, FinishHolds,
        FinishPush, PushReads, Ends
<1> DEFINE still == d.pending /\ Fresh(n, ch, nx) /\ Clean(ch, wn)
           done == PushDone(n, d, hd, ch, wn)
           won == d.pending /\ Fresh(n, ch, nx) /\ HeadHas(t, hd, ch, wn)
           On(q) == PushLocal(t, q, x, hd, ch, nx, wn, st)
           marks == x.f.back = "pushWhile" /\ x.f.minus = -t
           mine == marks /\ x.f.tid = t
<1>1. still \/ done => On("scan") /\ On("pushWhile")
  OBVIOUS
<1>2. still /\ x.i = t =>
        /\ On("dispatch") /\ On("pushHead")
        /\ x.h.oh = hd =>
             /\ On("pushState") /\ On("pushWinner")
             /\ x.h.os = d => On("pushCheck")
  OBVIOUS
<1>3. still /\ x.i = t /\ x.h.oh = hd =>
        /\ x.h.os = d /\ hd = NULL => On("pushPending") /\ On("pushSame") /\ On("pushFirst")
        /\ x.h.ow = 0 => On("pushRecheck") /\ On("pushStill") /\ On("pushWin")
  OBVIOUS
<1>4. x.i = t /\ d.pending /\ hd = n /\ Clean(ch, wn) =>
        /\ On("firstLoad")
        /\ x.h.os = d => On("firstDone")
  OBVIOUS
<1>5. x.f.back = "pushNext" /\ done =>
        /\ On("finish")
        /\ x.f.oh = hd => On("finishWinner")
  OBVIOUS
<1>6. x.f.back = "pushWhile" /\ won =>
        /\ On("finish")
        /\ x.f.oh = hd =>
             /\ On("finishWinner")
             /\ mine => On("finishState")
  OBVIOUS
<1>7. x.f.back = "pushWhile" /\ won /\ x.f.oh = hd /\ mine /\ x.f.os = d =>
        /\ On("sameHead") /\ On("sameWinner") /\ On("sameState") /\ On("pushStays")
        /\ x.f.nx = n => On("pushMark")
  OBVIOUS
<1>8. marks /\ x.f.oh = hd /\ x.f.nx = n /\ Fresh(n, ch, nx) /\ HeadHas(-t, hd, ch, wn) =>
        /\ x.f.tid = t /\ x.f.os = d /\ d.pending => On("pushFinish")
        /\ ~d.pending => On("pushLink")
  OBVIOUS
<1>9. marks /\ x.f.oh = hd /\ x.f.nx = n /\ ~d.pending /\ n \notin ch /\ nx[n] = hd
        /\ HeadHas(-t, hd, ch, wn) => On("pushSwing")
  OBVIOUS
<1>10. marks /\ ~d.pending /\ hd = n /\ x.f.oh = nx[n] /\ HeadHas(-t, x.f.oh, ch, wn) => On("pushUnmark")
  OBVIOUS
<1>11. done =>
        /\ On("pushNext")
        /\ x.f.nx = nx[n] => On("pushClear")
  OBVIOUS
<1> HIDE DEF PushLocal
<1> QED BY <1>1, <1>2, <1>3, <1>4, <1>5, <1>6, <1>7, <1>8, <1>9, <1>10, <1>11

\* The steps of help() and finish() that a push can take.
PushRead(t) ==
  \/ Scan(t) \/ Dispatch(t) \/ PushHead(t) \/ PushState(t) \/ PushCheck(t) \/ PushPending(t)
  \/ PushSame(t) \/ FirstLoad(t) \/ PushWinner(t) \/ PushRecheck(t) \/ PushStill(t) \/ PushWhile(t)
  \/ FinishHead(t) \/ FinishWinner(t) \/ FinishState(t)
  \/ SameHead(t) \/ SameWinner(t) \/ SameState(t) \/ PushStays(t)

PushWrite(t) ==
  \/ PushFirst(t) \/ FirstDone(t) \/ PushWin(t)
  \/ PushMark(t) \/ PushFinish(t) \/ PushLink(t) \/ PushSwing(t) \/ PushUnmark(t)

\* Outside help_pop() and the popping half of finish() a step is one of these.
LEMMA PushHelps ==
  ASSUME NEW t \in Threads, Help(t) \/ Finish(t), pc[t] \notin HelpPop \cup FinishPop
  PROVE  PushRead(t) \/ PushWrite(t)
<1>1. ~\/ PopHead(t) \/ PopState(t) \/ PopEmpty(t) \/ PopNothing(t) \/ PopWinner(t)
       \/ PopCheck(t) \/ PopStill(t) \/ PopWin(t) \/ PopWhile(t)
  BY DEF PopHead, PopState, PopEmpty, PopNothing, PopWinner, PopCheck, PopStill, PopWin, PopWhile,
     While, IfPending, HelpPop, At
<1>2. ~\/ PopNext(t) \/ PopStays(t) \/ PopFinish(t) \/ PopSwing(t)
  BY DEF PopNext, PopStays, PopFinish, PopSwing, FinishPop, At
<1> QED BY <1>1, <1>2 DEF Help, Finish, PushRead, PushWrite

\* What the pusher t knows after a step of its own that reads.
LEMMA PushReadKnows ==
  ASSUME Sound, "push" \notin Overlap, NEW t \in Threads, me[t].kind = "push", PushRead(t)
  PROVE  /\ Moves(t, pc'[t], me'[t]) /\ me'[t].kind = "push"
         /\ UNCHANGED <<heap, states, bookkeeping>>
         /\ PushLocal(t, pc'[t], me'[t], head, Chain, next, winner, states)
<1> DEFINE m == me[t]
           n == m.node
           d == states[t]
           Ok(q, x) == PushLocal(t, q, x, head, Chain, next, winner, states)
           Goal == /\ Moves(t, pc'[t], me'[t]) /\ me'[t].kind = "push"
                   /\ UNCHANGED <<heap, states, bookkeeping>>
                   /\ Ok(pc'[t], me'[t])
           still == d.pending /\ Fresh(n, Chain, next) /\ Clean(Chain, winner)
           done == PushDone(n, d, head, Chain, winner)
           won == d.pending /\ Fresh(n, Chain, next) /\ HeadHas(t, head, Chain, winner)
           mine(x) == x.f.back = "pushWhile" /\ x.f.tid = t /\ x.f.minus = -t
<1>1. /\ TypeInv /\ LocalsOK(pc[t], m) /\ m \in Locals /\ m.h \in HelpLocals /\ m.f \in FinishLocals
      /\ m.kind = "push" /\ n \in Nodes /\ t \in Nat /\ t > 0
      /\ Ok(pc[t], m) /\ LinkInv /\ Chain \subseteq Nodes
      /\ winner \in [Nodes -> Marks] /\ states \in [Threads -> Descriptors]
      /\ head \in Links /\ next \in [Nodes -> Links]
      /\ \A u \in Threads \ {t} : ~states[u].pending
      /\ head # NULL => head \in Chain
  <2>1. \A u \in Threads \ {t} : ~states[u].pending
    BY PushAlone
  <2>2. PushLocal(t, pc[t], m, head, Chain, next, winner, states)
    BY PushAlone
  <2>3. n \in Nodes
    BY HasLocals DEF Sound, LocalsOK
  <2>4. TypeInv /\ LinkInv
    BY DEF Sound, StackInv
  <2>5. Chain \subseteq Nodes /\ (head # NULL => head \in Chain)
    BY <2>4, ChainTyped
  <2>6. t \in Nat /\ t > 0
    BY DEF Threads
  <2> QED BY <2>1, <2>2, <2>3, <2>4, <2>5, <2>6, HasLocals DEF TypeInv
<1>2. pc[t] \notin Before
  BY DEF PushRead, Scan, Dispatch, PushHead, PushState, PushCheck, PushPending, PushSame, FirstLoad,
     PushWinner, PushRecheck, PushStill, PushWhile, While, IfPending, FinishHead, FinishWinner, FinishState,
     SameHead, SameWinner, SameState, PushStays, At, Before
<1>3. (n \notin Chain => winner[n] = 0) /\ d.push /\ d.node = n
  BY <1>1, <1>2 DEF PushLocal
<1>4. ASSUME NEW q, NEW x, Read(t, q, x), Ok(q, x), x.kind = "push" PROVE Goal
  <2>1. pc'[t] = q /\ me'[t] = x /\ Moves(t, q, x)
    BY <1>1, <1>4 DEF Read, Goto, Keep, TypeInv, Moves
  <2> QED BY <1>4, <2>1 DEF Read
<1>5. ASSUME NEW x, x.node = n
      PROVE  /\ still \/ done => Ok("scan", x) /\ Ok("pushWhile", x)
             /\ still /\ x.i = t =>
                  /\ Ok("dispatch", x) /\ Ok("pushHead", x)
                  /\ x.h.oh = head =>
                       /\ Ok("pushState", x) /\ Ok("pushWinner", x)
                       /\ x.h.os = d => Ok("pushCheck", x)
                       /\ x.h.os = d /\ head = NULL => Ok("pushPending", x) /\ Ok("pushSame", x) /\ Ok("pushFirst", x)
                       /\ x.h.ow = 0 => Ok("pushRecheck", x) /\ Ok("pushStill", x) /\ Ok("pushWin", x)
             /\ x.i = t /\ d.pending /\ head = n /\ Clean(Chain, winner) =>
                  /\ Ok("firstLoad", x)
                  /\ x.h.os = d => Ok("firstDone", x)
             /\ x.f.back = "pushNext" /\ done =>
                  /\ Ok("finish", x)
                  /\ x.f.oh = head => Ok("finishWinner", x)
             /\ x.f.back = "pushWhile" /\ won =>
                  /\ Ok("finish", x)
                  /\ x.f.oh = head =>
                       /\ Ok("finishWinner", x)
                       /\ mine(x) => Ok("finishState", x)
                       /\ mine(x) /\ x.f.os = d =>
                            /\ Ok("sameHead", x) /\ Ok("sameWinner", x) /\ Ok("sameState", x) /\ Ok("pushStays", x)
                            /\ x.f.nx = n => Ok("pushMark", x)
             /\ done => Ok("pushNext", x)
  <2>1. n = x.node /\ d = states[t]
    BY <1>5
  <2> HIDE DEF n, d, m
  <2> QED BY <1>3, <2>1, PushPlaces
<1> HIDE DEF Ok, m, n, d, Goal
<1>6. still => ~done
  BY DEF PushDone
<1>7. ASSUME NEW v \in Threads, Pending(v, m.less), still \/ done PROVE v = t /\ still
  <2>1. v = t
    BY <1>1, <1>7 DEF Pending
  <2> QED BY <1>7, <2>1 DEF Pending, PushDone, d
<1>8. ASSUME Scan(t) PROVE Goal
  <2>1. pc[t] = "scan" /\ (still \/ done)
    BY <1>1, <1>8 DEF Scan, At, Ok, PushLocal, n, d
  <2>2. \/ m.i \in Threads /\ Pending(m.i, m.less) /\ Read(t, "dispatch", m)
        \/ \E a : Read(t, "scan", [m EXCEPT !.i = a])
        \/ \E a, b : Read(t, "scan", [m EXCEPT !.i = a, !.less = b])
        \/ m.i > N /\ m.less = m.phase /\ Read(t, "finish", [m EXCEPT !.i = 0, !.f.back = "pushNext"])
    BY <1>1, <1>8 DEF Scan, m
  <2>3. ASSUME m.i \in Threads, Pending(m.i, m.less), Read(t, "dispatch", m) PROVE Goal
    <3>1. m.i = t /\ still
      BY <1>7, <2>1, <2>3
    <3>2. m.node = n /\ m.kind = "push"
      BY <1>1 DEF n
    <3>3. Ok("dispatch", m)
      BY <1>5, <3>1, <3>2
    <3> QED BY <1>4, <2>3, <3>2, <3>3
  <2>4. ASSUME NEW a, Read(t, "scan", [m EXCEPT !.i = a]) PROVE Goal
    <3> DEFINE x == [m EXCEPT !.i = a]
    <3>1. x.node = n /\ x.kind = "push"
      BY <1>1 DEF Locals, n
    <3> HIDE DEF x
    <3> QED BY <1>4, <1>5, <2>1, <2>4, <3>1 DEF x
  <2>5. ASSUME NEW a, NEW b, Read(t, "scan", [m EXCEPT !.i = a, !.less = b]) PROVE Goal
    <3> DEFINE x == [m EXCEPT !.i = a, !.less = b]
    <3>1. x.node = n /\ x.kind = "push"
      BY <1>1 DEF Locals, n
    <3> HIDE DEF x
    <3> QED BY <1>4, <1>5, <2>1, <2>5, <3>1 DEF x
  <2>6. ASSUME m.i > N, m.less = m.phase, Read(t, "finish", [m EXCEPT !.i = 0, !.f.back = "pushNext"]) PROVE Goal
    <3> DEFINE x == [m EXCEPT !.i = 0, !.f.back = "pushNext"]
    <3>1. x.node = n /\ x.kind = "push" /\ x.f.back = "pushNext"
      BY <1>1 DEF Locals, FinishLocals, n
    <3>2. t < m.i
      BY <1>1, <2>6, StackAssumption DEF Locals, Threads
    <3>3. ~d.pending
      BY <2>1, <2>6, <3>2 DEF Sound, HelpInv, SlotsSeen, m, d
    <3>4. done
      BY <2>1, <3>3
    <3> HIDE DEF x
    <3> QED BY <1>4, <1>5, <2>6, <3>1, <3>4 DEF x
  <2> QED BY ONLY <2>2, <2>3, <2>4, <2>5, <2>6
<1>9. pc[t] \in PushStarts => still /\ m.i = t
  BY <1>1 DEF Ok, PushLocal, n, d
<1>10. m.node = n /\ m.kind = "push"
  BY <1>1 DEF n
<1>11. ASSUME Dispatch(t) PROVE Goal
  <2>1. pc[t] = "dispatch" /\ Read(t, IF states[m.i].push THEN "pushHead" ELSE "popHead", m)
    BY <1>11 DEF Dispatch, At, m
  <2>2. still /\ m.i = t
    BY <1>9, <2>1 DEF PushStarts
  <2>3. Read(t, "pushHead", m)
    BY <1>3, <2>1, <2>2 DEF d
  <2> QED BY <1>4, <1>5, <1>10, <2>2, <2>3
<1>12. ASSUME PushHead(t) PROVE Goal
  <2> DEFINE x == [m EXCEPT !.h.oh = head]
  <2>1. pc[t] = "pushHead" /\ Read(t, "pushState", x)
    BY <1>12 DEF PushHead, At, m
  <2>2. x.node = n /\ x.kind = "push" /\ x.h.oh = head /\ x.i = m.i
    BY <1>1 DEF Locals, HelpLocals, n
  <2>3. still /\ m.i = t
    BY <1>9, <2>1 DEF PushStarts
  <2> HIDE DEF x
  <2> QED BY <1>4, <1>5, <2>1, <2>2, <2>3
<1>13. pc[t] \in PushStarts \ {"dispatch", "pushHead"} => m.h.oh = head
  BY <1>1 DEF Ok, PushLocal
<1>14. ASSUME PushState(t) PROVE Goal
  <2> DEFINE x == [m EXCEPT !.h.os = states[m.i]]
  <2>1. pc[t] = "pushState" /\ Read(t, "pushCheck", x)
    BY <1>14 DEF PushState, At, m
  <2>2. x.node = n /\ x.kind = "push" /\ x.h.oh = m.h.oh /\ x.h.os = states[m.i] /\ x.i = m.i
    BY <1>1 DEF Locals, HelpLocals, n
  <2>3. still /\ m.i = t /\ m.h.oh = head
    BY <1>9, <1>13, <2>1 DEF PushStarts
  <2>4. x.h.os = d
    BY <2>2, <2>3 DEF d
  <2> HIDE DEF x
  <2> QED BY <1>4, <1>5, <2>1, <2>2, <2>3, <2>4
<1>15. pc[t] \in PushEmpty \cup {"pushCheck", "firstDone"} => m.h.os = d
  BY <1>1 DEF Ok, PushLocal, d
<1>16. ASSUME PushCheck(t) PROVE Goal
  <2>1. pc[t] = "pushCheck"
        /\ Read(t, IF head # m.h.oh THEN "pushWhile" ELSE IF head = NULL THEN "pushPending" ELSE "pushWinner", m)
    BY <1>16 DEF PushCheck, At, m
  <2>2. still /\ m.i = t /\ m.h.oh = head /\ m.h.os = d
    BY <1>9, <1>13, <1>15, <2>1 DEF PushStarts
  <2>3. \/ head = NULL /\ Read(t, "pushPending", m)
        \/ Read(t, "pushWinner", m)
    BY <2>1, <2>2
  <2>4. Ok("pushWinner", m) /\ (head = NULL => Ok("pushPending", m))
    BY <1>5, <1>10, <2>2
  <2> QED BY <1>4, <1>10, <2>3, <2>4
<1>17. ASSUME PushPending(t) \/ PushSame(t) PROVE Goal
  <2>1. /\ pc[t] \in {"pushPending", "pushSame"}
        /\ \E q \in {"pushSame", "pushFirst", "pushWhile"} : Read(t, q, m)
    BY <1>17 DEF PushPending, PushSame, IfPending, At, m
  <2>2. still /\ m.i = t /\ m.h.oh = head /\ m.h.os = d /\ head = NULL
    BY <1>1, <1>9, <1>13, <1>15, <2>1 DEF PushStarts, PushEmpty, Ok, PushLocal
  <2>3. Ok("pushSame", m) /\ Ok("pushFirst", m) /\ Ok("pushWhile", m)
    BY <1>5, <1>10, <2>2
  <2> QED BY <1>4, <1>10, <2>1, <2>3
<1>18. ASSUME FirstLoad(t) PROVE Goal
  <2> DEFINE x == [m EXCEPT !.h.os = states[m.i]]
  <2>1. pc[t] = "firstLoad" /\ Read(t, "firstDone", x)
    BY <1>18 DEF FirstLoad, At, m
  <2>2. x.node = n /\ x.kind = "push" /\ x.h.os = states[m.i] /\ x.i = m.i
    BY <1>1 DEF Locals, HelpLocals, n
  <2>3. m.i = t /\ d.pending /\ head = n /\ Clean(Chain, winner)
    BY <1>1, <2>1 DEF Ok, PushLocal, d, n
  <2>4. x.h.os = d
    BY <2>2, <2>3 DEF d
  <2> HIDE DEF x
  <2> QED BY <1>4, <1>5, <2>1, <2>2, <2>3, <2>4
<1>19. ASSUME PushWinner(t) PROVE Goal
  <2> DEFINE x == [m EXCEPT !.h.ow = winner[m.h.oh]]
  <2>1. pc[t] = "pushWinner" /\ Read(t, "pushRecheck", x)
    BY <1>19 DEF PushWinner, At, m
  <2>2. x.node = n /\ x.kind = "push" /\ x.h.ow = winner[m.h.oh] /\ x.h.oh = m.h.oh /\ x.i = m.i
    BY <1>1 DEF Locals, HelpLocals, n
  <2>3. still /\ m.i = t /\ m.h.oh = head
    BY <1>9, <1>13, <2>1 DEF PushStarts
  <2>4. head \in Nodes
    BY <1>1, <2>1, <2>3 DEF LocalsOK
  <2>5. winner[head] = 0
    BY <1>1, <2>3, <2>4 DEF Clean, NULL, Nodes
  <2> HIDE DEF x
  <2> QED BY <1>4, <1>5, <2>1, <2>2, <2>3, <2>5
<1>20. ASSUME PushRecheck(t) PROVE Goal
  <2>1. pc[t] = "pushRecheck"
        /\ IF head # m.h.oh THEN Read(t, "pushWhile", m)
           ELSE IF m.h.ow # 0 THEN Read(t, "finish", CallFinish(m, "pushWhile"))
           ELSE Read(t, "pushStill", m)
    BY <1>20 DEF PushRecheck, At, m
  <2>2. still /\ m.i = t /\ m.h.oh = head
    BY <1>9, <1>13, <2>1 DEF PushStarts
  <2>3. m.h.ow = 0
    BY <1>1, <2>1 DEF Ok, PushLocal
  <2> QED BY <1>4, <1>5, <1>10, <2>1, <2>2, <2>3
<1>21. ASSUME PushStill(t) PROVE Goal
  <2>1. pc[t] = "pushStill" /\ \E q \in {"pushWin", "pushWhile"} : Read(t, q, m)
    BY <1>21 DEF PushStill, IfPending, At, m
  <2>2. still /\ m.i = t /\ m.h.oh = head /\ m.h.ow = 0
    BY <1>1, <1>9, <1>13, <2>1 DEF PushStarts, Ok, PushLocal
  <2>3. Ok("pushWin", m) /\ Ok("pushWhile", m)
    BY <1>5, <1>10, <2>2
  <2> QED BY <1>4, <1>10, <2>1, <2>3
<1>22. ASSUME PushWhile(t) PROVE Goal
  <2> DEFINE x == [m EXCEPT !.h = NoHelp]
             y == [m EXCEPT !.h = NoHelp, !.i = 1]
  <2>1. pc[t] = "pushWhile"
        /\ IF Pending(m.i, m.less) THEN Read(t, "pushHead", x) ELSE Read(t, "scan", y)
    BY <1>22 DEF PushWhile, While, At, m
  <2>2. x.node = n /\ x.kind = "push" /\ x.i = m.i /\ y.node = n /\ y.kind = "push"
    BY <1>1 DEF Locals, n
  <2>3. still \/ done
    BY <1>1, <2>1 DEF Ok, PushLocal, n, d
  <2>4. m.i \in Threads
    BY <1>1, <2>1 DEF LocalsOK, HelpPush
  <2> HIDE DEF x, y
  <2>5. Pending(m.i, m.less) => m.i = t /\ still
    BY <1>7, <2>3, <2>4
  <2>6. Ok("scan", y) /\ (Pending(m.i, m.less) => Ok("pushHead", x))
    BY <1>5, <2>2, <2>3, <2>5
  <2> QED BY <1>4, <2>1, <2>2, <2>6
<1>23. pc[t] \in Finishing =>
         \/ m.f.back = "pushWhile"
         \/ m.f.back = "pushNext" /\ pc[t] \in {"finish", "finishWinner"} /\ done
  BY <1>1 DEF Ok, PushLocal, n, d
<1>24. pc[t] \in PushWon /\ m.f.back = "pushWhile" => won
  BY <1>1 DEF Ok, PushLocal, n, d
<1>25. pc[t] \in FinishHolds \ {"pushUnmark"} => m.f.oh = head
  BY <1>1 DEF Ok, PushLocal
<1>26. ASSUME Return(t), m.f.back = "pushNext", done PROVE Goal
  <2> DEFINE x == [m EXCEPT !.f = NoFinish, !.h = NoHelp]
  <2>1. Read(t, "pushNext", x)
    BY <1>26 DEF Return, m
  <2>2. x.node = n /\ x.kind = "push"
    BY <1>1 DEF Locals, n
  <2> HIDE DEF x
  <2> QED BY <1>4, <1>5, <1>26, <2>1, <2>2
<1>27. ASSUME FinishHead(t) PROVE Goal
  <2> DEFINE x == [m EXCEPT !.f.oh = head]
  <2>1. pc[t] = "finish" /\ IF head = NULL THEN Return(t) ELSE Read(t, "finishWinner", x)
    BY <1>27 DEF FinishHead, At, m
  <2>2. x.node = n /\ x.kind = "push" /\ x.f.oh = head /\ x.f.back = m.f.back
    BY <1>1 DEF Locals, FinishLocals, n
  <2>3. (m.f.back = "pushWhile" /\ won) \/ (m.f.back = "pushNext" /\ done)
    BY <1>23, <1>24, <2>1 DEF Finishing, PushWon
  <2>4. won \/ done => head # NULL
    BY <1>1 DEF HeadHas, PushDone, Nodes, NULL
  <2> HIDE DEF x
  <2>5. Ok("finishWinner", x)
    BY <1>5, <2>2, <2>3
  <2> QED BY <1>4, <2>1, <2>2, <2>3, <2>4, <2>5
<1>28. ASSUME FinishWinner(t) PROVE Goal
  <2> DEFINE tid == winner[m.f.oh]
             x == [m EXCEPT !.f.tid = tid, !.f.minus = -tid]
  <2>1. pc[t] = "finishWinner" /\ IF tid = 0 THEN Return(t) ELSE Read(t, "finishState", x)
    BY <1>28 DEF FinishWinner, At, m
  <2>2. x.node = n /\ x.kind = "push" /\ x.f.oh = m.f.oh /\ x.f.back = m.f.back /\ x.f.tid = tid /\ x.f.minus = -tid
    BY <1>1 DEF Locals, FinishLocals, n
  <2>3. (m.f.back = "pushWhile" /\ won) \/ (m.f.back = "pushNext" /\ done)
    BY <1>23, <1>24, <2>1 DEF Finishing, PushWon
  <2>4. m.f.oh = head
    BY <1>25, <2>1 DEF FinishHolds, Finishing
  <2>5. won => tid = t
    BY <2>4 DEF HeadHas
  <2>6. done => tid = 0
    BY <1>1, <2>4 DEF PushDone, Clean, Nodes, NULL
  <2> HIDE DEF x, tid
  <2>7. CASE m.f.back = "pushWhile" /\ won
    <3>1. tid = t /\ tid # 0
      BY <1>1, <2>5, <2>7
    <3>2. Ok("finishState", x)
      BY <1>5, <2>2, <2>4, <2>7, <3>1
    <3> QED BY <1>4, <2>1, <2>2, <3>1, <3>2
  <2> QED BY <1>26, <2>1, <2>3, <2>6, <2>7
<1>29. pc[t] \in {"finishState"} \cup PushReads => m.f.tid = t /\ m.f.minus = -t /\ m.f.back = "pushWhile"
  BY <1>1, <1>23 DEF Ok, PushLocal, PushReads, Finishing, FinishPush
<1>30. ASSUME FinishState(t) PROVE Goal
  <2> DEFINE x == [m EXCEPT !.f.os = states[m.f.tid]]
  <2>1. pc[t] = "finishState" /\ IF m.f.tid < 0 THEN Crash("negativeIndex") ELSE Read(t, "sameHead", x)
    BY <1>30 DEF FinishState, At, m
  <2>2. /\ x.node = n /\ x.kind = "push" /\ x.f.oh = m.f.oh /\ x.f.back = m.f.back /\ x.f.tid = m.f.tid
        /\ x.f.minus = m.f.minus /\ x.f.os = states[m.f.tid]
    BY <1>1 DEF Locals, FinishLocals, n
  <2>3. m.f.tid = t /\ m.f.minus = -t /\ m.f.back = "pushWhile" /\ m.f.oh = head /\ won
    BY <1>24, <1>25, <1>29, <2>1 DEF PushWon, FinishHolds, Finishing
  <2>4. x.f.os = d
    BY <2>2, <2>3 DEF d
  <2> HIDE DEF x
  <2>5. Ok("sameHead", x)
    BY <1>5, <2>2, <2>3, <2>4
  <2> QED BY <1>1, <1>4, <2>1, <2>2, <2>3, <2>5
<1>31. ASSUME SameHead(t) \/ SameWinner(t) \/ SameState(t) PROVE Goal
  <2>1. pc[t] \in {"sameHead", "sameWinner", "sameState"}
    BY <1>31 DEF SameHead, SameWinner, SameState, At
  <2>2. m.f.tid = t /\ m.f.minus = -t /\ m.f.back = "pushWhile" /\ m.f.oh = head /\ won
    BY <1>24, <1>25, <1>29, <2>1 DEF PushWon, PushReads, FinishHolds, Finishing
  <2>3. m.f.os = d
    BY <1>1, <2>1 DEF Ok, PushLocal, PushReads, d
  <2>4. winner[head] = t /\ states[t] = d /\ d.push
    BY <1>3, <2>2 DEF HeadHas, d
  <2>5. \E q \in {"sameWinner", "sameState", "pushStays"} : Read(t, q, m)
    BY <1>31, <2>2, <2>3, <2>4 DEF SameHead, SameWinner, SameState, m
  <2>6. Ok("sameWinner", m) /\ Ok("sameState", m) /\ Ok("pushStays", m)
    BY <1>5, <1>10, <2>2, <2>3
  <2> QED BY <1>4, <1>10, <2>5, <2>6
<1>32. ASSUME PushStays(t) PROVE Goal
  <2> DEFINE x == [m EXCEPT !.f.nx = m.f.os.node]
  <2>1. pc[t] = "pushStays"
        /\ IF head # m.f.oh THEN Return(t) ELSE Read(t, IF m.f.os.pending THEN "pushMark" ELSE "pushLink", x)
    BY <1>32 DEF PushStays, At, m
  <2>2. /\ x.node = n /\ x.kind = "push" /\ x.f.oh = m.f.oh /\ x.f.back = m.f.back /\ x.f.tid = m.f.tid
        /\ x.f.minus = m.f.minus /\ x.f.os = m.f.os /\ x.f.nx = m.f.os.node
    BY <1>1 DEF Locals, FinishLocals, n
  <2>3. m.f.tid = t /\ m.f.minus = -t /\ m.f.back = "pushWhile" /\ m.f.oh = head /\ won
    BY <1>24, <1>25, <1>29, <2>1 DEF PushWon, PushReads, FinishHolds, Finishing, FinishPush
  <2>4. m.f.os = d
    BY <1>1, <2>1 DEF Ok, PushLocal, PushReads, d
  <2>5. m.f.os.node = n /\ m.f.os.pending
    BY <1>3, <2>3, <2>4
  <2> HIDE DEF x
  <2>6. Ok("pushMark", x)
    BY <1>5, <2>2, <2>3, <2>4, <2>5
  <2> QED BY <1>4, <2>1, <2>2, <2>3, <2>5, <2>6
<1> QED BY ONLY PushRead(t), <1>8, <1>11, <1>12, <1>14, <1>16, <1>17, <1>18, <1>19, <1>20, <1>21, <1>22,
                <1>27, <1>28, <1>30, <1>31, <1>32 DEF PushRead, Goal, Ok

\* The chain grows by the node of a push, or stays.
PushEffect(n) ==
  \/ /\ head' = head /\ Chain' = Chain
     /\ \A a \in Chain : next'[a] = next[a]
  \/ /\ head' = n /\ n \in Nodes \ Chain /\ next[n] = head /\ next' = next
     /\ Chain' = Chain \cup {n}

\* The chain with one more node.
LEMMA ChainPushed ==
  ASSUME TypeInv, LinkInv, NEW n \in Nodes, n \notin Chain, next[n] = head, head' = n, next' = next
  PROVE  Chain' = Chain \cup {n}
<1>1. Reach({n}, next) = Reach({next[n]}, next) \cup {n}
  BY ReachFirst DEF LinkInv
<1>2. Chain' = Reach({n}, next) /\ Chain = Reach({next[n]}, next)
  BY ChainIs
<1> QED BY <1>1, <1>2

\* What the pusher t knows after a step of its own that writes.
LEMMA PushWriteKnows ==
  ASSUME Sound, "push" \notin Overlap, NEW t \in Threads, me[t].kind = "push", PushWrite(t)
  PROVE  /\ Moves(t, pc'[t], me'[t]) /\ me'[t].kind = "push" /\ me'[t].node = me[t].node
         /\ UNCHANGED <<crashed, pushes, pops, answer, destroyed>>
         /\ LinkInv' /\ PushEffect(me[t].node)
         /\ PushLocal(t, pc'[t], me'[t], head', Chain', next', winner', states')
<1> DEFINE m == me[t]
           n == m.node
           d == states[t]
           Ok(q, x) == PushLocal(t, q, x, head, Chain, next, winner, states)
           On(q, x) == PushLocal(t, q, x, head', Chain', next', winner', states')
           Goal == /\ Moves(t, pc'[t], me'[t]) /\ me'[t].kind = "push" /\ me'[t].node = me[t].node
                   /\ UNCHANGED <<crashed, pushes, pops, answer, destroyed>>
                   /\ LinkInv' /\ PushEffect(me[t].node)
                   /\ PushLocal(t, pc'[t], me'[t], head', Chain', next', winner', states')
           still == d.pending /\ Fresh(n, Chain, next) /\ Clean(Chain, winner)
<1>1. /\ TypeInv /\ LocalsOK(pc[t], m) /\ m \in Locals /\ m.h \in HelpLocals /\ m.f \in FinishLocals
      /\ DOMAIN pc = Threads /\ DOMAIN me = Threads
      /\ m.kind = "push" /\ n \in Nodes /\ t \in Nat /\ t > 0
      /\ Ok(pc[t], m) /\ LinkInv /\ Chain \subseteq Nodes
      /\ winner \in [Nodes -> Marks] /\ states \in [Threads -> Descriptors]
      /\ head \in Links /\ next \in [Nodes -> Links]
      /\ head # NULL => head \in Chain
      /\ NULL \notin Nodes /\ pushes = n /\ ~destroyed
  <2>1. ~destroyed
    BY PushAlone
  <2>2. PushLocal(t, pc[t], me[t], head, Chain, next, winner, states)
    BY PushAlone
  <2>3. n \in Nodes /\ pushes = n
    BY HasLocals DEF Sound, LocalsOK, NodeInv
  <2>4. TypeInv /\ LinkInv
    BY DEF Sound, StackInv
  <2>5. Chain \subseteq Nodes /\ (head # NULL => head \in Chain)
    BY <2>4, ChainTyped
  <2>6. t \in Nat /\ t > 0 /\ NULL \notin Nodes
    BY DEF Threads, NULL, Nodes
  <2> QED BY <2>1, <2>2, <2>3, <2>4, <2>5, <2>6, HasLocals DEF TypeInv
<1>2. pc[t] \notin Before
  BY DEF PushWrite, PushFirst, FirstDone, PushWin, PushMark, PushFinish, PushLink, PushSwing, PushUnmark,
     At, Before
<1>3. (n \notin Chain => winner[n] = 0) /\ d.push /\ d.node = n /\ d \in Descriptors
  BY <1>1, <1>2 DEF PushLocal
<1>4. ASSUME NEW q, NEW x, Goto(t, q), Keep(t, x)
      PROVE  Moves(t, q, x) /\ pc'[t] = q /\ me'[t] = x
  BY <1>1, <1>4 DEF Goto, Keep, Moves
<1>5. ASSUME NEW q, Goto(t, q), me' = me
      PROVE  Moves(t, q, m) /\ pc'[t] = q /\ me'[t] = m
  BY <1>1, <1>5 DEF Goto, Moves
<1>6. ASSUME UNCHANGED <<head, next>>, pushes' = pushes,
             \A a \in Nodes : a > pushes => winner'[a] = winner[a]
      PROVE  LinkInv' /\ PushEffect(n) /\ Chain' = Chain
  <2>1. Chain' = Chain
    BY <1>6, ChainStays
  <2> QED BY <1>1, <1>6, <2>1 DEF LinkInv, PushEffect
<1>7. \A a \in Chain \cup {n} : ~(a > pushes)
  <2>1. \A a \in Chain \cup {n} : a <= pushes /\ a \in Int /\ pushes \in Int
    BY <1>1, NodesTyped DEF LinkInv, Nodes
  <2> QED BY <2>1
<1>8. pc[t] \in Finishing \ {"finish", "finishWinner"} => m.f.back = "pushWhile"
  BY <1>1 DEF Ok, PushLocal
<1>9. pc[t] \in FinishHolds \ {"pushUnmark"} => m.f.oh = head
  BY <1>1 DEF Ok, PushLocal
<1> HIDE DEF m, n, d, Ok, On, Goal
<1>10. m.node = n /\ m.kind = "push" /\ states[t] = d
  BY <1>1 DEF n, d
\* The push is the first.
<1>11. ASSUME PushFirst(t) PROVE Goal
  <2>1. /\ pc[t] = "pushFirst" /\ head' = Exchange(head, NULL, m.h.os.node)
        /\ Goto(t, IF head = NULL THEN "firstLoad" ELSE "pushWhile")
        /\ UNCHANGED <<next, winner, states, me, bookkeeping>>
    BY <1>11 DEF PushFirst, At, m
  <2>2. head = NULL /\ m.h.os = d /\ d.pending /\ m.i = t
        /\ n \notin Chain /\ next[n] = NULL
    BY <1>1, <2>1 DEF Ok, PushLocal, PushEmpty, PushStarts, Fresh, n, d
  <2>3. head' = n /\ Goto(t, "firstLoad")
    BY <1>3, <2>1, <2>2 DEF Exchange
  <2>4. Chain' = Chain \cup {n}
    BY <1>1, <2>1, <2>2, <2>3, ChainPushed
  <2>5. Chain = {}
    BY <1>1, <2>2, ChainTyped
  <2>6. Clean(Chain', winner') /\ Chain' = {n}
    BY <1>3, <2>1, <2>2, <2>4, <2>5 DEF Clean
  <2>7. Moves(t, "firstLoad", m) /\ pc'[t] = "firstLoad" /\ me'[t] = m
    BY <1>5, <2>1, <2>3
  <2>8. states'[t] = d /\ next' = next /\ winner' = winner /\ pushes' = pushes
    BY <1>10, <2>1 DEF bookkeeping
  <2>9. On("firstLoad", m)
    BY <1>3, <1>10, <2>2, <2>3, <2>6, <2>8, PushPlaces DEF On
  <2>10. LinkInv'
    <3>1. n <= pushes
      BY <1>1, NodesTyped
    <3> QED BY <1>1, <2>4, <2>5, <2>8, <3>1 DEF LinkInv
  <2>11. PushEffect(n)
    BY <1>1, <2>2, <2>3, <2>4, <2>8 DEF PushEffect
  <2> QED BY <1>10, <2>1, <2>7, <2>9, <2>10, <2>11 DEF Goal, On, n, m, bookkeeping
<1>12. ASSUME FirstDone(t) PROVE Goal
  <2> DEFINE x == [m EXCEPT !.h = NoHelp, !.i = 1]
             e == Finished(d, TRUE, d.node)
  <2>1. /\ pc[t] = "firstDone"
        /\ states' = [states EXCEPT ![m.i] =
                        Exchange(states[m.i], m.h.os, Finished(m.h.os, TRUE, m.h.os.node))]
        /\ Goto(t, "scan") /\ Keep(t, x)
        /\ UNCHANGED <<heap, bookkeeping>>
    BY <1>12 DEF FirstDone, At, m
  <2>2. m.i = t /\ m.h.os = d /\ head = n /\ Clean(Chain, winner)
    BY <1>1, <2>1 DEF Ok, PushLocal, n, d
  <2>3. e.push /\ ~e.pending /\ e.node = n
    <3>1. d.node \in Links /\ TRUE \in BOOLEAN
      BY <1>3 DEF Descriptors
    <3> QED BY <1>3, <3>1 DEF Finished, Descriptors
  <2>4. x.node = n /\ x.kind = "push"
    BY <1>1 DEF Locals, n
  <2> HIDE DEF x, e
  <2>5. states'[t] = e
    BY <1>1, <1>10, <2>1, <2>2 DEF Exchange, e
  <2>6. Moves(t, "scan", x) /\ pc'[t] = "scan" /\ me'[t] = x
    BY <1>4, <2>1
  <2>7. LinkInv' /\ PushEffect(n) /\ Chain' = Chain
    BY <1>6, <2>1 DEF heap, bookkeeping
  <2>8. winner' = winner /\ head' = head /\ next' = next
    BY <2>1 DEF heap
  <2>9. On("scan", x)
    <3>1. PushDone(n, e, head', Chain', winner')
      BY <2>2, <2>3, <2>7, <2>8 DEF PushDone
    <3>2. n \notin Chain' => winner'[n] = 0
      BY <1>3, <2>7, <2>8
    <3> QED BY <2>3, <2>4, <2>5, <3>1, <3>2, PushPlaces DEF On
  <2> QED BY <2>1, <2>4, <2>6, <2>7, <2>9 DEF Goal, On, n, m, bookkeeping
\* The push wins the head.
<1>13. ASSUME PushWin(t) PROVE Goal
  <2> DEFINE x == CallFinish(m, "pushWhile")
  <2>1. /\ pc[t] = "pushWin"
        /\ winner' = [winner EXCEPT ![m.h.oh] = Exchange(winner[m.h.oh], 0, m.i)]
        /\ Goto(t, IF winner[m.h.oh] = 0 THEN "finish" ELSE "pushWhile")
        /\ Keep(t, IF winner[m.h.oh] = 0 THEN x ELSE m)
        /\ UNCHANGED <<head, next, states, bookkeeping>>
    BY <1>13 DEF PushWin, At, m
  <2>2. m.h.oh = head /\ still /\ m.i = t
    BY <1>1, <2>1 DEF Ok, PushLocal, PushStarts, n, d
  <2>3. head \in Nodes /\ head \in Chain /\ head # NULL /\ winner[head] = 0
    BY <1>1, <2>1, <2>2 DEF LocalsOK, Clean
  <2>4. x.node = n /\ x.kind = "push" /\ x.f.back = "pushWhile"
    BY <1>1 DEF CallFinish, Locals, FinishLocals, n
  <2>5. Goto(t, "finish") /\ Keep(t, x) /\ winner' = [winner EXCEPT ![head] = t]
    BY <2>1, <2>2, <2>3 DEF Exchange
  <2> HIDE DEF x
  <2>6. winner'[head] = t /\ \A a \in Nodes : a # head => winner'[a] = winner[a]
    BY <1>1, <2>3, <2>5
  <2>7. Moves(t, "finish", x) /\ pc'[t] = "finish" /\ me'[t] = x
    BY <1>4, <2>5
  <2>8. LinkInv' /\ PushEffect(n) /\ Chain' = Chain
    BY <1>6, <1>7, <2>1, <2>3, <2>6 DEF bookkeeping
  <2>9. HeadHas(t, head, Chain, winner')
    BY <1>1, <2>2, <2>3, <2>6 DEF HeadHas, Clean
  <2>10. winner'[n] = 0 /\ n \notin Chain
    BY <1>1, <1>3, <2>2, <2>3, <2>6 DEF Fresh
  <2>11. states'[t] = d /\ next' = next /\ head' = head
    BY <1>10, <2>1
  <2>12. On("finish", x)
    BY <1>3, <2>2, <2>4, <2>8, <2>9, <2>10, <2>11, PushPlaces DEF On
  <2> QED BY <2>1, <2>4, <2>7, <2>8, <2>12 DEF Goal, On, n, m, bookkeeping
<1>14. pc[t] \in PushReads => m.f.tid = t /\ m.f.os = d
  BY <1>1 DEF Ok, PushLocal, PushReads, d
<1>15. pc[t] \in PushReads \cup FinishPush => m.f.minus = -t
  BY <1>1 DEF Ok, PushLocal
<1>16. pc[t] \in {"pushMark", "pushFinish", "pushLink", "pushSwing"} => m.f.nx = n
  BY <1>1 DEF Ok, PushLocal, n
<1>17. ASSUME PushMark(t) PROVE Goal
  <2> DEFINE x == [m EXCEPT !.f.tid = winner[m.f.oh]]
  <2>1. /\ pc[t] = "pushMark"
        /\ winner' = [winner EXCEPT ![m.f.oh] = Exchange(winner[m.f.oh], m.f.tid, m.f.minus)]
        /\ Goto(t, "pushFinish") /\ Keep(t, x)
        /\ UNCHANGED <<head, next, states, bookkeeping>>
    BY <1>17 DEF PushMark, At, m
  <2>2. /\ m.f.oh = head /\ m.f.tid = t /\ m.f.os = d /\ m.f.minus = -t /\ m.f.nx = n
        /\ m.f.back = "pushWhile"
    BY <1>8, <1>9, <1>14, <1>15, <1>16, <2>1 DEF FinishHolds, Finishing, PushReads, FinishPush
  <2>3. d.pending /\ Fresh(n, Chain, next) /\ HeadHas(t, head, Chain, winner)
    BY <1>1, <2>1, <2>2 DEF Ok, PushLocal, PushWon, n, d
  <2>4. head \in Nodes /\ head \in Chain /\ head # NULL /\ winner[head] = t
    BY <1>1, <2>3 DEF HeadHas
  <2>5. /\ x.node = n /\ x.kind = "push" /\ x.f.oh = m.f.oh /\ x.f.tid = t /\ x.f.minus = m.f.minus
        /\ x.f.os = m.f.os /\ x.f.nx = m.f.nx /\ x.f.back = m.f.back
    BY <1>1, <2>2, <2>4 DEF Locals, FinishLocals, n
  <2> HIDE DEF x
  <2>6. winner'[head] = -t /\ \A a \in Nodes : a # head => winner'[a] = winner[a]
    BY <1>1, <2>1, <2>2, <2>4 DEF Exchange
  <2>7. Moves(t, "pushFinish", x) /\ pc'[t] = "pushFinish" /\ me'[t] = x
    BY <1>4, <2>1
  <2>8. LinkInv' /\ PushEffect(n) /\ Chain' = Chain
    BY <1>6, <1>7, <2>1, <2>4, <2>6 DEF bookkeeping
  <2>9. HeadHas(-t, head, Chain, winner')
    BY <1>1, <2>3, <2>4, <2>6 DEF HeadHas, Clean
  <2>10. winner'[n] = 0 /\ n \notin Chain
    BY <1>1, <1>3, <2>3, <2>4, <2>6 DEF Fresh
  <2>11. states'[t] = d /\ next' = next /\ head' = head
    BY <1>10, <2>1
  <2>12. On("pushFinish", x)
    BY <1>3, <2>2, <2>3, <2>5, <2>8, <2>9, <2>10, <2>11, PushPlaces DEF On
  <2> QED BY <2>1, <2>5, <2>7, <2>8, <2>12 DEF Goal, On, n, m, bookkeeping
<1>18. ASSUME PushFinish(t) PROVE Goal
  <2> DEFINE e == Finished(d, TRUE, n)
  <2>1. /\ pc[t] = "pushFinish"
        /\ ~(m.f.tid < 0) => Goto(t, "pushLink") /\ Replace(m.f.tid, m.f.os, Finished(m.f.os, TRUE, m.f.nx))
                           /\ UNCHANGED <<heap, me, pushes, pops, answer, destroyed>>
    BY <1>18 DEF PushFinish, At, m
  <2>2. /\ m.f.oh = head /\ m.f.tid = t /\ m.f.os = d /\ m.f.minus = -t /\ m.f.nx = n
        /\ m.f.back = "pushWhile"
    BY <1>8, <1>9, <1>14, <1>15, <1>16, <2>1 DEF FinishHolds, Finishing, PushReads, FinishPush
  <2>3. d.pending /\ Fresh(n, Chain, next) /\ HeadHas(-t, head, Chain, winner)
    BY <1>1, <2>1 DEF Ok, PushLocal, n, d
  <2>4. /\ Goto(t, "pushLink") /\ states' = [states EXCEPT ![t] = e]
        /\ Retire({StateOf(d)}, Threads)
        /\ UNCHANGED <<heap, me, pushes, pops, answer, destroyed>>
    <3>1. ~(m.f.tid < 0) /\ m.f.tid # 0
      BY <1>1, <2>2
    <3> QED BY <1>10, <2>1, <2>2, <3>1 DEF Replace
  <2>5. e.push /\ ~e.pending /\ e.node = n
    <3>1. n \in Links /\ TRUE \in BOOLEAN
      BY <1>1, NodesTyped
    <3> QED BY <1>3, <3>1 DEF Finished, Descriptors
  <2> HIDE DEF e
  <2>6. states'[t] = e /\ head' = head /\ next' = next /\ winner' = winner
    BY <1>1, <2>4 DEF heap
  <2>7. Moves(t, "pushLink", m) /\ pc'[t] = "pushLink" /\ me'[t] = m
    BY <1>5, <2>4
  <2>8. LinkInv' /\ PushEffect(n) /\ Chain' = Chain
    BY <1>6, <2>4, <2>6
  <2>9. On("pushLink", m)
    BY <1>3, <1>10, <2>2, <2>3, <2>5, <2>6, <2>8, PushPlaces DEF On
  <2>10. crashed' = crashed
    <3>1. StateOf(d) \notin DOMAIN grace
      BY <1>1, SlotsInUse DEF Sound, d
    <3> QED BY <2>4, <3>1 DEF Retire
  <2> QED BY <1>10, <2>4, <2>7, <2>8, <2>9, <2>10 DEF Goal, On, n, m
<1>19. pc[t] \in FinishPush => m.f.back = "pushWhile"
  BY <1>8 DEF Finishing, FinishPush
\* Its node is put on top of the head.
<1>20. ASSUME PushLink(t) PROVE Goal
  <2>1. /\ pc[t] = "pushLink"
        /\ m.f.nx # NULL => /\ next' = [next EXCEPT ![m.f.nx] = Exchange(next[m.f.nx], NULL, m.f.oh)]
                            /\ Goto(t, "pushSwing")
                            /\ UNCHANGED <<head, winner, states, me, bookkeeping>>
    BY <1>20 DEF PushLink, At, m
  <2>2. m.f.oh = head /\ m.f.minus = -t /\ m.f.nx = n /\ m.f.back = "pushWhile"
    BY <1>9, <1>15, <1>16, <1>19, <2>1 DEF FinishHolds, Finishing, PushReads, FinishPush
  <2>3. ~d.pending /\ n \notin Chain /\ next[n] = NULL /\ HeadHas(-t, head, Chain, winner)
    BY <1>1, <2>1 DEF Ok, PushLocal, Fresh, n, d
  <2>4. /\ next' = [next EXCEPT ![n] = head] /\ Goto(t, "pushSwing")
        /\ UNCHANGED <<head, winner, states, me, bookkeeping>>
    BY <1>1, <2>1, <2>2, <2>3 DEF Exchange
  <2>5. next'[n] = head /\ \A a \in Nodes : a # n => next'[a] = next[a]
    BY <1>1, <2>4
  <2>6. Downward(next')
    <3>1. head < n
      <4>1. head \in Chain /\ head <= n /\ head # n
        BY <1>1, <2>3 DEF HeadHas, LinkInv
      <4>2. head \in Int /\ n \in Int
        BY <1>1, <4>1, NodesTyped
      <4> QED BY <4>1, <4>2
    <3>2. next' \in [Nodes -> Links]
      BY <1>1, <2>4
    <3> QED BY <1>1, <2>5, <3>1, <3>2 DEF LinkInv, Downward
  <2>7. Chain' = Chain
    <3>1. \A a \in Reach({head}, next) : next'[a] = next[a]
      BY <1>1, <2>3, <2>5, ChainIs
    <3>2. Reach({head}, next') = Reach({head}, next)
      BY <1>1, <2>6, <3>1, ReachSame DEF LinkInv
    <3> QED BY <2>4, <3>2, ChainIs
  <2>8. LinkInv' /\ PushEffect(n)
    BY <1>1, <1>7, <2>3, <2>4, <2>5, <2>6, <2>7 DEF LinkInv, PushEffect, bookkeeping
  <2>9. Moves(t, "pushSwing", m) /\ pc'[t] = "pushSwing" /\ me'[t] = m
    BY <1>5, <2>4
  <2>10. On("pushSwing", m)
    BY <1>3, <1>10, <2>2, <2>3, <2>4, <2>5, <2>7, PushPlaces DEF On
  <2> QED BY <1>10, <2>4, <2>8, <2>9, <2>10 DEF Goal, On, n, m, bookkeeping
<1>21. ASSUME PushSwing(t) PROVE Goal
  <2> DEFINE x == [m EXCEPT !.f.oh = head]
  <2>1. /\ pc[t] = "pushSwing" /\ head' = Exchange(head, m.f.oh, m.f.nx)
        /\ Keep(t, x) /\ Goto(t, "pushUnmark")
        /\ UNCHANGED <<next, winner, states, bookkeeping>>
    BY <1>21 DEF PushSwing, At, m
  <2>2. m.f.oh = head /\ m.f.minus = -t /\ m.f.nx = n /\ m.f.back = "pushWhile"
    BY <1>9, <1>15, <1>16, <1>19, <2>1 DEF FinishHolds, Finishing, PushReads, FinishPush
  <2>3. ~d.pending /\ n \notin Chain /\ next[n] = head /\ HeadHas(-t, head, Chain, winner)
    BY <1>1, <2>1 DEF Ok, PushLocal, n, d
  <2>4. head' = n /\ next' = next /\ winner' = winner /\ states' = states /\ pushes' = pushes
    BY <2>1, <2>2 DEF Exchange, bookkeeping
  <2>5. Chain' = Chain \cup {n}
    BY <1>1, <2>3, <2>4, ChainPushed
  <2>6. /\ x.node = n /\ x.kind = "push" /\ x.f.oh = head /\ x.f.tid = m.f.tid /\ x.f.minus = m.f.minus
        /\ x.f.back = m.f.back
    BY <1>1 DEF Locals, FinishLocals, n
  <2> HIDE DEF x
  <2>7. Moves(t, "pushUnmark", x) /\ pc'[t] = "pushUnmark" /\ me'[t] = x
    BY <1>4, <2>1
  <2>8. LinkInv'
    <3>1. n <= pushes
      BY <1>1, NodesTyped
    <3> QED BY <1>1, <2>4, <2>5, <3>1 DEF LinkInv
  <2>9. PushEffect(n)
    BY <1>1, <2>3, <2>4, <2>5 DEF PushEffect
  <2>10. HeadHas(-t, x.f.oh, Chain', winner')
    BY <1>3, <2>3, <2>4, <2>5, <2>6 DEF HeadHas, Clean
  <2>11. On("pushUnmark", x)
    BY <1>3, <1>10, <2>2, <2>3, <2>4, <2>5, <2>6, <2>10, PushPlaces DEF On
  <2> QED BY <2>1, <2>6, <2>7, <2>8, <2>9, <2>11 DEF Goal, On, n, m, bookkeeping
<1>22. ASSUME PushUnmark(t) PROVE Goal
  <2> DEFINE x == [m EXCEPT !.f = NoFinish, !.h = NoHelp]
  <2>1. /\ pc[t] = "pushUnmark"
        /\ m.f.oh # NULL => /\ winner' = [winner EXCEPT ![m.f.oh] = Exchange(winner[m.f.oh], m.f.minus, 0)]
                            /\ Goto(t, m.f.back) /\ Keep(t, x)
                            /\ UNCHANGED <<head, next, states, bookkeeping>>
    BY <1>22 DEF PushUnmark, At, m
  <2>2. m.f.minus = -t /\ m.f.back = "pushWhile"
    BY <1>15, <1>19, <2>1 DEF FinishPush
  <2>3. ~d.pending /\ head = n /\ HeadHas(-t, m.f.oh, Chain, winner) /\ m.f.oh = next[n]
    BY <1>1, <2>1 DEF Ok, PushLocal, n, d
  <2>4. m.f.oh # NULL /\ winner[m.f.oh] = -t /\ m.f.oh \in Nodes /\ m.f.oh \in Chain
    <3>1. m.f.oh # NULL /\ winner[m.f.oh] = -t
      BY <2>3 DEF HeadHas
    <3>2. next[head] \in Chain \cup {NULL}
      BY <1>1, <2>3, ChainTyped
    <3> QED BY <1>1, <2>3, <3>1, <3>2
  <2>5. /\ winner' = [winner EXCEPT ![m.f.oh] = 0] /\ Goto(t, "pushWhile") /\ Keep(t, x)
        /\ UNCHANGED <<head, next, states, bookkeeping>>
    BY <2>1, <2>2, <2>4 DEF Exchange
  <2>6. winner'[m.f.oh] = 0 /\ \A a \in Nodes : a # m.f.oh => winner'[a] = winner[a]
    BY <1>1, <2>4, <2>5
  <2>7. x.node = n /\ x.kind = "push"
    BY <1>1 DEF Locals, n
  <2> HIDE DEF x
  <2>8. Moves(t, "pushWhile", x) /\ pc'[t] = "pushWhile" /\ me'[t] = x
    BY <1>4, <2>5
  <2>9. LinkInv' /\ PushEffect(n) /\ Chain' = Chain
    BY <1>6, <1>7, <2>4, <2>5, <2>6 DEF bookkeeping
  <2>10. PushDone(n, d, head', Chain', winner') /\ states'[t] = d
    BY <1>1, <1>10, <2>3, <2>5, <2>6, <2>9 DEF PushDone, HeadHas, Clean
  <2>11. n \notin Chain' => winner'[n] = 0
    BY <1>1, <1>3, <2>4, <2>6, <2>9
  <2>12. On("pushWhile", x)
    BY <1>3, <2>7, <2>10, <2>11, PushPlaces DEF On
  <2> QED BY <2>5, <2>7, <2>8, <2>9, <2>12 DEF Goal, On, n, m, bookkeeping
<1> QED BY ONLY PushWrite(t), <1>11, <1>12, <1>13, <1>17, <1>18, <1>20, <1>21, <1>22 DEF PushWrite, Goal

\* A push's help() and finish() keep the stack.
LEMMA PushStep ==
  ASSUME Sound, "push" \notin Overlap, NEW t \in Threads, me[t].kind = "push", Help(t) \/ Finish(t)
  PROVE  /\ StackInv' /\ PushEffect(me[t].node)
         /\ UNCHANGED <<crashed, pushes, pops, answer, destroyed>>
<1>1. /\ \A u \in Threads \ {t} : me[u].kind = "none"
      /\ PushLocal(t, pc[t], me[t], head, Chain, next, winner, states)
  BY PushAlone
<1>2. PushRead(t) \/ PushWrite(t)
  BY <1>1, PushHelps DEF PushLocal
<1>3. CASE PushRead(t)
  <2>1. /\ Moves(t, pc'[t], me'[t]) /\ me'[t].kind = "push"
        /\ UNCHANGED <<heap, states, bookkeeping>>
        /\ PushLocal(t, pc'[t], me'[t], head, Chain, next, winner, states)
    BY <1>3, PushReadKnows
  <2>2. head' = head /\ next' = next /\ winner' = winner /\ states' = states /\ Chain' = Chain /\ pushes' = pushes
    BY <2>1, ChainStays DEF heap, bookkeeping
  <2>3. LinkInv'
    BY <2>2 DEF Sound, StackInv, LinkInv
  <2>4. StackInv'
    BY <1>1, <2>1, <2>2, <2>3, PushKeeps
  <2> QED BY <2>1, <2>2, <2>4 DEF PushEffect, bookkeeping
<1>4. CASE PushWrite(t)
  <2>1. /\ Moves(t, pc'[t], me'[t]) /\ me'[t].kind = "push"
        /\ UNCHANGED <<crashed, pushes, pops, answer, destroyed>>
        /\ LinkInv' /\ PushEffect(me[t].node)
        /\ PushLocal(t, pc'[t], me'[t], head', Chain', next', winner', states')
    BY <1>4, PushWriteKnows
  <2>2. StackInv'
    BY <1>1, <2>1, PushKeeps
  <2> QED BY <2>1, <2>2
<1> QED BY <1>2, <1>3, <1>4

LEMMA CallPushStack ==
  ASSUME Sound, "push" \notin Overlap, NEW t \in Threads, CallPush(t)
  PROVE  /\ StackInv' /\ me'[t].node \notin Chain
         /\ \A u \in Threads : me[u].kind = "none"
<1> DEFINE x == me'[t]
           n == pushes + 1
<1>1. /\ TypeInv /\ LinkInv /\ WinnerInv /\ pushes < MaxPush
      /\ Begin(t, "push", n) /\ pushes' = n
  BY DEF Sound, CallPush, StackInv
<1>2. /\ Moves(t, "loadPhase", x) /\ x.kind = "push" /\ x.node = n
      /\ UNCHANGED <<heap, states>>
      /\ \A u \in Threads : me[u].kind = "none"
  BY <1>1, CallBegins
<1>3. /\ head' = head /\ next' = next /\ winner' = winner /\ Chain' = Chain
  BY <1>2, ChainStays DEF heap
<1>4. n \in Nodes /\ pushes \in Nat /\ n > pushes
  BY <1>1, StackAssumption DEF TypeInv, Links, Nodes
<1>5. Chain \subseteq Nodes /\ (head # NULL => head \in Chain) /\ \A a \in Nodes : a \in Nat
  BY <1>1, ChainTyped, NodesTyped
<1> HIDE DEF x
<1>6. next[n] = NULL /\ winner[n] = 0
  BY <1>1, <1>4 DEF LinkInv
<1>7. \A a \in Chain : a <= pushes /\ a # n /\ a <= n
  <2>1. \A a \in Chain : a <= pushes /\ a \in Nat
    BY <1>1, <1>5 DEF LinkInv
  <2> QED BY <1>4, <2>1
<1>8. Clean(Chain, winner)
  <2>1. Clean(Chain \ {head}, winner) /\ (head # NULL /\ winner[head] # 0 => FALSE)
    BY <1>1, <1>2 DEF WinnerInv
  <2> QED BY <1>1, <1>5, <2>1, NodesTyped DEF Clean
<1>9. \A a \in Nodes : a > n => next[a] = NULL /\ winner[a] = 0
  <2>1. \A a \in Nodes : a > n => a > pushes
    BY <1>4, <1>5
  <2> QED BY <1>1, <2>1 DEF LinkInv
<1>10. LinkInv'
  BY <1>1, <1>3, <1>7, <1>9 DEF LinkInv
<1>11. PushLocal(t, "loadPhase", x, head, Chain, next, winner, states)
  <2>1. "loadPhase" \in Before
    BY DEF Before
  <2>2. (n \notin Chain => winner[n] = 0) /\ Fresh(n, Chain, next) /\ Clean(Chain, winner)
    BY <1>6, <1>7, <1>8 DEF Fresh
  <2> QED BY <1>2, <2>1, <2>2, PushBegins
<1>12. StackInv'
  BY <1>2, <1>3, <1>10, <1>11, PushKeeps
<1> QED BY <1>2, <1>7, <1>12 DEF x

\* push() announces itself.
LEMMA AnnouncePushStack ==
  ASSUME Sound, "push" \notin Overlap, NEW t \in Threads, me[t].kind = "push", Announce(t)
  PROVE  StackInv' /\ UNCHANGED <<head, next, winner, grace, crashed, pushes, pops, answer, destroyed>>
<1> DEFINE m == me[t]
           d == Descriptor(t, m.phase, TRUE, TRUE, m.node, 0)
           x == [m EXCEPT !.ahead = {states[u] : u \in {v \in Threads : Pending(v, m.phase)}},
                          !.less = m.phase, !.i = 1]
<1>1. /\ TypeInv /\ LinkInv /\ m \in Locals /\ states \in [Threads -> Descriptors]
      /\ \A u \in Threads \ {t} : me[u].kind = "none"
      /\ PushLocal(t, pc[t], m, head, Chain, next, winner, states)
  <2>1. \A u \in Threads \ {t} : me[u].kind = "none"
    BY PushAlone
  <2>2. PushLocal(t, pc[t], m, head, Chain, next, winner, states)
    BY PushAlone
  <2> QED BY <2>1, <2>2, HasLocals DEF Sound, StackInv, TypeInv
<1>2. pc[t] = "announce" /\ states[t] = m.old
  BY DEF Announce, At, Sound, MeetInv, OldInv, MeetsPush
<1>3. /\ states' = [states EXCEPT ![t] = d] /\ Goto(t, "scan") /\ Keep(t, x)
      /\ UNCHANGED <<heap, bookkeeping>>
  BY <1>2 DEF Announce
<1>4. /\ head' = head /\ next' = next /\ winner' = winner /\ Chain' = Chain /\ pushes' = pushes
      /\ states'[t] = d /\ Moves(t, "scan", x)
  BY <1>1, <1>3, ChainStays DEF heap, bookkeeping, Goto, Keep, Moves, TypeInv
<1>5. x.kind = "push" /\ x.node = m.node
  BY <1>1 DEF Locals
<1>6. d.pending /\ d.push /\ d.node = m.node
  BY DEF Descriptor
<1>7. (m.node \notin Chain => winner[m.node] = 0) /\ Fresh(m.node, Chain, next) /\ Clean(Chain, winner)
  <2>1. pc[t] \in Before
    BY <1>2 DEF Before
  <2> QED BY <1>1, <2>1, PushBegins
<1> HIDE DEF d, x, m
<1>8. PushLocal(t, "scan", x, head', Chain', next', winner', states')
  BY <1>4, <1>5, <1>6, <1>7, PushPlaces
<1>9. LinkInv'
  BY <1>1, <1>4 DEF LinkInv
<1>10. StackInv'
  BY <1>1, <1>4, <1>5, <1>8, <1>9, PushKeeps
<1> QED BY <1>3, <1>10 DEF heap, bookkeeping

\* The end of push(): its node is the head, and nobody is the winner of a node.
LEMMA PushEnds ==
  ASSUME Sound, "push" \notin Overlap, NEW t \in Threads, me[t].kind = "push", PushNext(t) \/ PushClear(t)
  PROVE  /\ UNCHANGED <<heap, states, pushes, pops, answer, destroyed>>
         /\ head = me[t].node /\ ~states[t].pending /\ Clean(Chain, winner) /\ head # NULL
         /\ \/ /\ pc[t] = "pushNext" /\ pc'[t] = "pushClear" /\ me'[t] = [me[t] EXCEPT !.f.nx = next[head]]
               /\ Moves(t, pc'[t], me'[t]) /\ UNCHANGED bookkeeping
            \/ Moves(t, "idle", Idle) /\ Retire({StateOf(me[t].old)}, Threads \ {t})
<1> DEFINE m == me[t]
<1>1. /\ TypeInv /\ LocalsOK(pc[t], m) /\ m \in Locals /\ LinkInv /\ winner \in [Nodes -> Marks]
      /\ m.node \in Nodes
      /\ PushLocal(t, pc[t], m, head, Chain, next, winner, states)
  <2>1. PushLocal(t, pc[t], m, head, Chain, next, winner, states)
    BY PushAlone
  <2>2. m.node \in Nodes
    BY HasLocals DEF Sound, LocalsOK
  <2> QED BY <2>1, <2>2, HasLocals DEF Sound, StackInv, TypeInv
<1>2. pc[t] \in {"pushNext", "pushClear"}
  BY DEF PushNext, PushClear, At
<1>3. head = m.node /\ ~states[t].pending /\ Clean(Chain, winner) /\ head # NULL
  <2>1. PushDone(m.node, states[t], head, Chain, winner)
    BY <1>1, <1>2 DEF PushLocal, Ends
  <2> QED BY <1>1, <2>1, NodesTyped DEF PushDone
<1>4. ASSUME NEW objects, Leave(t, objects)
      PROVE  Moves(t, "idle", Idle) /\ Retire(objects, Threads \ {t})
             /\ UNCHANGED <<head, next, states, pushes, pops, destroyed>>
  BY <1>1, <1>4 DEF Leave, Goto, Keep, Moves, TypeInv
<1>5. CASE PushNext(t)
  <2>1. pc[t] = "pushNext"
    BY <1>5 DEF PushNext, At
  <2>2. CASE next[head] = NULL
    <3>1. Leave(t, {StateOf(m.old)}) /\ UNCHANGED <<winner, answer>>
      BY <1>3, <1>5, <2>2 DEF PushNext
    <3> QED BY <1>3, <1>4, <3>1 DEF heap
  <2>3. CASE next[head] # NULL
    <3>1. Read(t, "pushClear", [m EXCEPT !.f.nx = next[head]])
      BY <1>3, <1>5, <2>3 DEF PushNext
    <3>2. /\ UNCHANGED <<heap, states, bookkeeping>>
          /\ pc'[t] = "pushClear" /\ me'[t] = [m EXCEPT !.f.nx = next[head]]
          /\ Moves(t, pc'[t], me'[t])
      BY <1>1, <3>1 DEF Read, Goto, Keep, Moves, TypeInv
    <3> QED BY <1>3, <2>1, <3>2 DEF bookkeeping
  <2> QED BY <2>2, <2>3
<1>6. CASE PushClear(t)
  <2>1. /\ pc[t] = "pushClear" /\ Leave(t, {StateOf(m.old)}) /\ answer' = answer
        /\ winner' = [winner EXCEPT ![m.f.nx] = Exchange(winner[m.f.nx], t, 0)]
    BY <1>6 DEF PushClear, At
  <2>2. m.f.nx = next[m.node] /\ m.f.nx \in Nodes
    BY <1>1, <2>1 DEF PushLocal, LocalsOK
  <2>3. winner[m.f.nx] = 0
    <3>1. m.f.nx \in Chain
      BY <1>1, <1>3, <2>2, ChainTyped, NodesTyped
    <3> QED BY <1>3, <3>1 DEF Clean
  <2>4. t # 0
    BY DEF Threads
  <2>5. winner' = winner
    BY <1>1, <2>1, <2>2, <2>3, <2>4 DEF Exchange
  <2> QED BY <1>3, <1>4, <2>1, <2>5 DEF heap
<1> QED BY <1>5, <1>6

LEMMA EndPushStack ==
  ASSUME Sound, "push" \notin Overlap, NEW t \in Threads, me[t].kind = "push", PushNext(t) \/ PushClear(t)
  PROVE  StackInv'
<1>1. /\ TypeInv /\ StackInv /\ LinkInv /\ me[t] \in Locals /\ me[t].f \in FinishLocals
      /\ \A u \in Threads \ {t} : me[u].kind = "none"
  <2>1. \A u \in Threads \ {t} : me[u].kind = "none"
    BY PushAlone
  <2> QED BY <2>1, HasLocals DEF Sound, StackInv
<1>2. /\ UNCHANGED <<heap, states, pushes>>
      /\ head = me[t].node /\ ~states[t].pending /\ Clean(Chain, winner)
  BY PushEnds
<1>3. /\ head' = head /\ next' = next /\ winner' = winner /\ states' = states /\ Chain' = Chain
  BY <1>2, ChainStays DEF heap
<1>4. LinkInv'
  BY <1>1, <1>2, <1>3 DEF LinkInv
<1>5. CASE Moves(t, "idle", Idle)
  <2>1. Idle.kind = "none" /\ Idle.node = NULL
    BY DEF Idle
  <2>2. \A u \in Threads : me'[u].kind = "none" /\ me'[u].node = NULL
    BY <1>1, <1>5, <2>1 DEF Moves, StackInv, LocalInv, Local
  <2>3. WinnerInv'
    <3>1. head # NULL => head \in Chain
      BY <1>1, ChainTyped
    <3> QED BY <1>2, <1>3, <3>1 DEF WinnerInv, Clean
  <2>4. TakenInv' /\ LocalInv'
    BY <2>2 DEF TakenInv, LocalInv, Local
  <2> QED BY <1>4, <2>3, <2>4 DEF StackInv
<1>6. ASSUME pc'[t] = "pushClear", me'[t] = [me[t] EXCEPT !.f.nx = next[head]], Moves(t, pc'[t], me'[t]),
             pc[t] = "pushNext"
      PROVE  StackInv'
  <2> DEFINE x == [me[t] EXCEPT !.f.nx = next[head]]
  <2>1. x.kind = "push" /\ x.node = me[t].node /\ x.f.nx = next[head]
    BY <1>1 DEF Locals, FinishLocals
  <2> HIDE DEF x
  <2>2. PushLocal(t, pc[t], me[t], head, Chain, next, winner, states)
    BY PushAlone
  <2>3. pc[t] \notin Before
    BY <1>6 DEF Before
  <2>4. PushLocal(t, "pushClear", x, head, Chain, next, winner, states)
    <3> DEFINE n == me[t].node
               d == states[t]
    <3>1. (n \notin Chain => winner[n] = 0) /\ d.push /\ d.node = n
      BY <2>2, <2>3 DEF PushLocal
    <3>2. PushDone(n, d, head, Chain, winner)
      BY <1>2 DEF PushDone
    <3>3. x.f.nx = next[n]
      BY <1>2, <2>1
    <3> HIDE DEF n, d
    <3>4. x.node = n /\ d = states[t]
      BY <2>1 DEF n, d
    <3> QED BY <3>1, <3>2, <3>3, <3>4, PushPlaces
  <2> QED BY <1>1, <1>3, <1>4, <1>6, <2>1, <2>4, PushKeeps DEF x
<1> QED BY <1>5, <1>6, PushEnds

LEMMA StackInit == Init => StackInv
<1> SUFFICES ASSUME Init PROVE StackInv
  OBVIOUS
<1>1. head = NULL /\ Chain = {}
  BY ReachNothing, ChainIs DEF Init
<1>2. \A t \in Threads : me[t].kind = "none" /\ me[t].node = NULL
  BY DEF Init, Idle
<1>3. LinkInv
  <2>1. \A n \in Nodes : n \in Nat /\ n > 0
    BY DEF Nodes
  <2>2. next = [n \in Nodes |-> NULL] /\ winner = [n \in Nodes |-> 0]
    BY DEF Init
  <2>3. Downward(next)
    BY <2>1, <2>2, StackAssumption DEF Downward, Links, NULL
  <2> QED BY <1>1, <2>2, <2>3 DEF LinkInv
<1>4. WinnerInv /\ TakenInv /\ LocalInv
  BY <1>1, <1>2 DEF WinnerInv, TakenInv, LocalInv, Local, Clean
<1> QED BY <1>3, <1>4 DEF StackInv

\* The thread that takes a step of an operation has one.
LEMMA HasKind ==
  ASSUME TypeInv, NEW t \in Threads, pc[t] # "idle"
  PROVE  me[t].kind \in {"push", "pop"}
  BY HasLocals DEF LocalsOK, Locals

\* Every step keeps the stack.
LEMMA StackStep ==
  ASSUME Sound, "push" \notin Overlap, [Next]_vars
  PROVE  StackInv'
<1>1. TypeInv /\ StackInv
  BY DEF Sound
<1>2. CASE UNCHANGED vars
  BY <1>1, <1>2, StackUnchanged DEF vars, heap, bookkeeping
<1>3. CASE Destroy
  BY <1>3, DestroyStack
<1>4. ASSUME NEW t \in Threads, CallPush(t) \/ CallPop(t) PROVE StackInv'
  BY <1>4, CallPushStack, CallPopStack
<1>5. ASSUME NEW t \in Threads, Step(t) PROVE StackInv'
  <2>1. CASE Help(t) \/ Finish(t)
    <3>1. me[t].kind \in {"push", "pop"}
      BY <1>1, <2>1, HelpPlaces, HasKind DEF Before
    <3> QED BY <2>1, <3>1, PushStep, PopKeepsStack
  <2>2. CASE LoadPhase(t) \/ ReadPhase(t) \/ LoadOld(t)
    BY <2>2, PhaseStack
  <2>3. CASE Announce(t)
    <3>1. me[t].kind \in {"push", "pop"}
      BY <1>1, <2>3, HasKind DEF Announce, At
    <3> QED BY <2>3, <3>1, AnnouncePushStack, AnnouncePopStack
  <2>4. CASE PushNext(t) \/ PushClear(t)
    <3>1. me[t].kind = "push"
      BY <1>1, <2>4, HasLocals DEF PushNext, PushClear, At, LocalsOK
    <3> QED BY <2>4, <3>1, EndPushStack
  <2>5. CASE PopAssert(t) \/ PopReturn(t)
    <3>1. me[t].kind \in {"push", "pop"} /\ pc[t] \in {"popAssert", "popReturn"}
      BY <1>1, <2>5, HasKind DEF PopAssert, PopReturn, At
    <3>2. me[t].kind # "push"
      <4>1. me[t].kind = "push" => PushLocal(t, pc[t], me[t], head, Chain, next, winner, states)
        BY PushAlone
      <4> QED BY <3>1, <4>1 DEF PushLocal
    <3> QED BY <2>5, <3>1, <3>2, EndPopStack
  <2> QED BY ONLY Step(t), <1>5, <2>1, <2>2, <2>3, <2>4, <2>5 DEF Step
<1> QED BY ONLY [Next]_vars, <1>2, <1>3, <1>4, <1>5 DEF Next

-------------------------------------------------------------------------------
(* Nodes that a thread holds.                                              *)

\* Helpers load nodes from the head; finish() from the link behind it, or from the
\* descriptor of a push, too.
LEMMA HelpLoadsNodes ==
  ASSUME TypeInv, NEW t \in Threads, Help(t) \/ Finish(t)
  PROVE  LET m == me[t]
             x == me'[t] IN
         /\ x.h.oh \in {m.h.oh, NULL, head}
         /\ x.f.oh \in {m.f.oh, NULL, head}
         /\ pc'[t] \in FinishHolds => x.f.oh = head \/ (pc[t] \in FinishHolds /\ x.f.oh = m.f.oh)
         /\ \/ x.f.nx \in {m.f.nx, NULL}
            \/ pc[t] = "popNext" /\ x.f.nx = next[m.f.oh]
            \/ pc[t] = "pushStays" /\ x.f.nx = m.f.os.node
<1> DEFINE m == me[t]
           Plain(x) == x.h.oh \in {m.h.oh, NULL} /\ x.f.oh \in {m.f.oh, NULL} /\ x.f.nx \in {m.f.nx, NULL}
           Ok(q, x) ==
             /\ x.h.oh \in {m.h.oh, NULL, head}
             /\ x.f.oh \in {m.f.oh, NULL, head}
             /\ q \in FinishHolds => x.f.oh = head \/ (pc[t] \in FinishHolds /\ x.f.oh = m.f.oh)
             /\ \/ x.f.nx \in {m.f.nx, NULL}
                \/ pc[t] = "popNext" /\ x.f.nx = next[m.f.oh]
                \/ pc[t] = "pushStays" /\ x.f.nx = m.f.os.node
           Goal == Ok(pc'[t], me'[t])
<1>1. /\ LocalsOK(pc[t], m) /\ m \in Locals /\ m.h \in HelpLocals /\ m.f \in FinishLocals
      /\ DOMAIN pc = Threads /\ DOMAIN me = Threads
  BY HasLocals DEF TypeInv
<1>2. ASSUME NEW q, Goto(t, q), NEW x, Keep(t, x) \/ (me' = me /\ x = m), Ok(q, x) PROVE Goal
  <2>1. pc'[t] = q /\ me'[t] = x
    BY <1>1, <1>2 DEF Goto, Keep
  <2> QED BY <1>2, <2>1
<1>3. \A x, q : Plain(x) /\ q \notin FinishHolds => Ok(q, x)
  OBVIOUS
<1>4. \A x, q : Plain(x) /\ pc[t] \in FinishHolds /\ x.f.oh = m.f.oh => Ok(q, x)
  OBVIOUS
<1>5. NoHelp.oh = NULL /\ NoFinish.oh = NULL /\ NoFinish.nx = NULL
  BY DEF NoHelp, NoFinish
<1>6. /\ Plain(m) /\ Plain([m EXCEPT !.h = NoHelp]) /\ Plain([m EXCEPT !.h = NoHelp, !.i = 1])
      /\ Plain([m EXCEPT !.f = NoFinish, !.h = NoHelp])
  BY <1>1, <1>5 DEF Locals
<1>7. ASSUME NEW a, NEW b
      PROVE  /\ Plain([m EXCEPT !.i = a]) /\ Plain([m EXCEPT !.i = a, !.less = b])
             /\ Plain([m EXCEPT !.i = a, !.f.back = b])
             /\ Plain([m EXCEPT !.h.os = a]) /\ Plain([m EXCEPT !.h.ow = a]) /\ Plain(CallFinish(m, a))
  BY <1>1 DEF Locals, FinishLocals, HelpLocals, CallFinish
<1>8. ASSUME NEW a, NEW b
      PROVE  /\ LET x == [m EXCEPT !.f.tid = a, !.f.minus = b] IN Plain(x) /\ x.f.oh = m.f.oh
             /\ LET x == [m EXCEPT !.f.tid = a] IN Plain(x) /\ x.f.oh = m.f.oh
             /\ LET x == [m EXCEPT !.f.os = a] IN Plain(x) /\ x.f.oh = m.f.oh
             /\ Plain([m EXCEPT !.f = [NoFinish EXCEPT !.back = a]])
  BY <1>1 DEF Locals, FinishLocals, NoFinish
<1>9. ASSUME NEW a
      PROVE  /\ LET x == [m EXCEPT !.h.oh = a] IN x.h.oh = a /\ x.f = m.f
             /\ LET x == [m EXCEPT !.f.oh = a] IN x.h = m.h /\ x.f.oh = a /\ x.f.nx = m.f.nx
             /\ LET x == [m EXCEPT !.f.nx = a] IN x.h = m.h /\ x.f.oh = m.f.oh /\ x.f.nx = a
  BY <1>1 DEF Locals, FinishLocals, HelpLocals
<1>10. \A q \in {"scan", "dispatch", "finish"} \cup HelpPush \cup HelpPop \cup Ends : q \notin FinishHolds
  BY DEF HelpPush, HelpPop, Ends, FinishHolds, Finishing, FinishPush, FinishPop
<1>11. m.f.back \notin FinishHolds
  BY <1>1 DEF FinishLocals, FinishHolds, Finishing, FinishPush, FinishPop
<1> HIDE DEF m, Goal, Ok, Plain
<1>12. ASSUME NEW q, q \notin FinishHolds, Goto(t, q), NEW x, Keep(t, x) \/ (me' = me /\ x = m), Plain(x)
       PROVE  Goal
  BY <1>2, <1>3, <1>12
<1>13. ASSUME NEW q, q \notin FinishHolds, NEW x, Read(t, q, x), Plain(x) PROVE Goal
  BY <1>12, <1>13 DEF Read
<1>14. ASSUME NEW q, NEW x, Read(t, q, x), Plain(x), pc[t] \in FinishHolds, x.f.oh = m.f.oh PROVE Goal
  BY <1>2, <1>4, <1>14 DEF Read
<1>15. ASSUME NEW reason, Crash(reason) PROVE Goal
  <2>1. pc'[t] = pc[t] /\ me'[t] = m
    BY <1>15 DEF Crash, m
  <2> QED BY <1>3, <1>4, <1>6, <2>1 DEF Goal
<1>16. ASSUME Scan(t) PROVE Goal
  <2>1. \/ Read(t, "dispatch", m)
        \/ Read(t, "scan", [m EXCEPT !.i = m.i + 1])
        \/ Read(t, "scan", [m EXCEPT !.i = 1, !.less = m.phase])
        \/ \E b : Read(t, "finish", [m EXCEPT !.i = 0, !.f.back = b])
    BY <1>16 DEF Scan, m
  <2> QED BY <1>6, <1>7, <1>10, <1>13, <2>1
<1>17. ASSUME Dispatch(t) \/ PushCheck(t) \/ PushPending(t) \/ PushSame(t) \/ FirstLoad(t) \/ PushState(t)
       PROVE  Goal
  BY <1>6, <1>7, <1>10, <1>13, <1>17 DEF Dispatch, PushCheck, PushPending, PushSame, FirstLoad, PushState,
     IfPending, m, HelpPush, HelpPop
<1>18. ASSUME PushFirst(t) \/ FirstDone(t) \/ PushWin(t) PROVE Goal
  BY <1>6, <1>7, <1>10, <1>12, <1>18 DEF PushFirst, FirstDone, PushWin, m, HelpPush
<1>19. ASSUME PushWinner(t) \/ PushRecheck(t) \/ PushStill(t) \/ PushWhile(t) PROVE Goal
  BY <1>6, <1>7, <1>10, <1>13, <1>19 DEF PushWinner, PushRecheck, PushStill, PushWhile,
     While, IfPending, m, HelpPush
<1>20. ASSUME PushHead(t) \/ PopHead(t) PROVE Goal
  <2> DEFINE x == [m EXCEPT !.h.oh = head]
  <2>1. \E q \in HelpPush \cup HelpPop : Read(t, q, x)
    BY <1>20 DEF PushHead, PopHead, HelpPush, HelpPop, m
  <2>2. x.h.oh = head /\ x.f = m.f
    BY <1>9
  <2> HIDE DEF x
  <2>3. \A q \in HelpPush \cup HelpPop : Ok(q, x)
    BY <1>10, <2>2 DEF Ok
  <2> QED BY <1>2, <2>1, <2>3 DEF Read
<1>21. ASSUME PopState(t) \/ PopEmpty(t) \/ PopCheck(t) \/ PopStill(t) \/ PopWhile(t) PROVE Goal
  BY <1>6, <1>7, <1>10, <1>13, <1>21 DEF PopState, PopEmpty, PopCheck, PopStill, PopWhile,
     While, IfPending, m, HelpPop
<1>22. ASSUME PopWinner(t) PROVE Goal
  BY <1>6, <1>7, <1>10, <1>13, <1>15, <1>22 DEF PopWinner, m, HelpPop
<1>23. ASSUME PopNothing(t) PROVE Goal
  BY <1>6, <1>10, <1>12, <1>23 DEF PopNothing, m, HelpPop
<1>24. ASSUME PopWin(t) PROVE Goal
  BY <1>6, <1>7, <1>10, <1>12, <1>24 DEF PopWin, m, HelpPop
<1>25. ASSUME Return(t) PROVE Goal
  BY <1>6, <1>11, <1>13, <1>25 DEF Return, m
<1>26. ASSUME Again(t) PROVE Goal
  BY <1>8, <1>10, <1>13, <1>26 DEF Again, m
<1>27. ASSUME FinishHead(t) PROVE Goal
  <2> DEFINE x == [m EXCEPT !.f.oh = head]
  <2>1. Return(t) \/ Read(t, "finishWinner", x)
    BY <1>27 DEF FinishHead, m
  <2>2. x.h = m.h /\ x.f.oh = head /\ x.f.nx = m.f.nx
    BY <1>9
  <2> HIDE DEF x
  <2>3. Ok("finishWinner", x)
    BY <2>2 DEF Ok
  <2> QED BY <1>2, <1>25, <2>1, <2>3 DEF Read
<1>28. ASSUME FinishWinner(t) PROVE Goal
  <2>1. pc[t] \in FinishHolds
    BY <1>28 DEF FinishWinner, At, FinishHolds, Finishing
  <2> QED BY <1>8, <1>14, <1>25, <1>28, <2>1 DEF FinishWinner, m
<1>29. ASSUME FinishState(t) PROVE Goal
  <2>1. pc[t] \in FinishHolds
    BY <1>29 DEF FinishState, At, FinishHolds, Finishing
  <2> QED BY <1>8, <1>14, <1>15, <1>29, <2>1 DEF FinishState, m
<1>30. ASSUME SameHead(t) \/ SameWinner(t) \/ SameState(t) PROVE Goal
  <2>1. pc[t] \in FinishHolds
    BY <1>30 DEF SameHead, SameWinner, SameState, At, FinishHolds, Finishing
  <2> QED BY <1>6, <1>14, <1>26, <1>30, <2>1 DEF SameHead, SameWinner, SameState, m
<1>31. ASSUME PushStays(t) \/ PopNext(t) PROVE Goal
  <2>1. pc[t] \in FinishHolds
    BY <1>31 DEF PushStays, PopNext, At, FinishHolds, Finishing, FinishPush, FinishPop
  <2>2. \/ Return(t)
        \/ \E q : pc[t] = "pushStays" /\ Read(t, q, [m EXCEPT !.f.nx = m.f.os.node])
        \/ \E q : pc[t] = "popNext" /\ Read(t, q, [m EXCEPT !.f.nx = next[m.f.oh]])
    BY <1>31 DEF PushStays, PopNext, At, m
  <2>3. ASSUME NEW q, NEW a, (pc[t] = "pushStays" /\ a = m.f.os.node) \/ (pc[t] = "popNext" /\ a = next[m.f.oh]),
               Read(t, q, [m EXCEPT !.f.nx = a])
        PROVE  Goal
    <3> DEFINE x == [m EXCEPT !.f.nx = a]
    <3>1. x.h = m.h /\ x.f.oh = m.f.oh /\ x.f.nx = a
      BY <1>9
    <3> HIDE DEF x
    <3>2. Ok(q, x)
      BY <2>1, <2>3, <3>1 DEF Ok
    <3> QED BY <1>2, <2>3, <3>2 DEF Read, x
  <2> QED BY <1>25, <2>2, <2>3
<1>32. ASSUME PushMark(t) \/ PushFinish(t) \/ PushLink(t) PROVE Goal
  <2>1. pc[t] \in FinishHolds
    BY <1>32 DEF PushMark, PushFinish, PushLink, At, FinishHolds, Finishing, FinishPush
  <2>2. \A a : Ok("pushFinish", [m EXCEPT !.f.tid = a])
    BY <1>4, <1>8, <2>1
  <2>3. Ok("pushLink", m) /\ Ok("pushSwing", m)
    BY <1>4, <1>6, <2>1
  <2> QED BY <1>2, <1>15, <1>32, <2>2, <2>3 DEF PushMark, PushFinish, PushLink, m
<1>33. ASSUME PushSwing(t) PROVE Goal
  <2> DEFINE x == [m EXCEPT !.f.oh = head]
  <2>1. Goto(t, "pushUnmark") /\ Keep(t, x)
    BY <1>33 DEF PushSwing, m
  <2>2. x.h = m.h /\ x.f.oh = head /\ x.f.nx = m.f.nx
    BY <1>9
  <2> HIDE DEF x
  <2>3. Ok("pushUnmark", x)
    BY <2>2 DEF Ok
  <2> QED BY <1>2, <2>1, <2>3
<1>34. ASSUME PushUnmark(t) \/ PopSwing(t) PROVE Goal
  BY <1>6, <1>11, <1>12, <1>15, <1>34 DEF PushUnmark, PopSwing, m
<1>35. ASSUME PopStays(t) \/ PopFinish(t) PROVE Goal
  <2>1. pc[t] \in FinishHolds
    BY <1>35 DEF PopStays, PopFinish, At, FinishHolds, Finishing, FinishPop
  <2>2. \A q : Ok(q, m)
    BY <1>4, <1>6, <2>1
  <2> QED BY <1>2, <1>14, <1>25, <1>6, <1>35, <2>1, <2>2 DEF PopStays, PopFinish, m
<1>36. Goal
  BY ONLY Help(t) \/ Finish(t), <1>16, <1>17, <1>18, <1>19, <1>20, <1>21, <1>22, <1>23, <1>24, <1>27, <1>28,
       <1>29, <1>30, <1>31, <1>32, <1>33, <1>34, <1>35 DEF Help, Finish
<1> QED BY <1>36 DEF Goal, Ok, m

\* The thread t has been inside its guard since o was handed over: Covered(t, o) of g.
Kept(t, o, g) == o \in DOMAIN g => t \in g[o]

\* A thread before its announcement holds no nodes; another one is guarded.
LEMMA KeepsBefore ==
  ASSUME NEW t, NEW p \in Before, NEW m, NEW nx, NEW g,
         m.h.oh = NULL, m.f.oh = NULL, m.f.nx = NULL, NodeOf(NULL) \notin DOMAIN g
  PROVE  KeepsNodes(t, p, m, nx, g)
  BY DEF KeepsNodes, Before, FinishHolds, Finishing, FinishPush, FinishPop

LEMMA KeepsFrame ==
  ASSUME NEW t, NEW p, NEW m, NEW nx, NEW g, NEW nx2, NEW g2,
         KeepsNodes(t, p, m, nx, g), p \in Before \/ m.guarded, NodeOf(NULL) \notin DOMAIN g2,
         m.guarded => \A o : Kept(t, o, g) => Kept(t, o, g2), m.kind = "pop" => nx2 = nx
  PROVE  KeepsNodes(t, p, m, nx2, g2)
<1>1. CASE p \in Before
  BY <1>1, KeepsBefore DEF KeepsNodes
<1>2. CASE p \notin Before
  BY <1>2 DEF KeepsNodes, Kept
<1> QED BY <1>1, <1>2

\* What Sound says of nodes that are not retired.
LEMMA NodeFacts ==
  ASSUME Sound
  PROVE  /\ NodeOf(NULL) \notin DOMAIN grace
         /\ \A t \in Threads : pc[t] \in Before \/ me[t].guarded
         /\ \A t \in Threads : KeepsNodes(t, pc[t], me[t], next, grace)
         /\ \A n \in Chain \cup {NULL} : ~destroyed => NodeOf(n) \notin DOMAIN grace
<1>1. NULL \notin 1..pushes
  BY DEF NULL, Sound, TypeInv, Links
<1>2. \A t \in Threads : pc[t] \in Before \/ me[t].guarded
  BY DEF Sound, HoldInv, HoldsLocal, Before
<1> QED BY <1>1, <1>2 DEF Sound, NodeInv

\* What Retire keeps.
LEMMA RetireKept ==
  ASSUME NEW objects, NEW guards, Retire(objects, guards), NEW t \in Threads, t \in guards, me[t].guarded
  PROVE  \A o : Kept(t, o, grace) => Kept(t, o, grace')
  BY RetireKeeps DEF Kept

\* Help() and finish() keep the nodes that the threads hold.
LEMMA HelpKeepsNodes ==
  ASSUME Sound, TypeInv', "push" \notin Overlap, NEW t \in Threads, Help(t) \/ Finish(t)
  PROVE  NodeInv'
<1> DEFINE m == me[t]
           x == me'[t]
<1>1. /\ TypeInv /\ LinkInv /\ pc[t] \notin Before /\ m.kind \in {"push", "pop"} /\ m.guarded /\ ~destroyed
      /\ pc[t] # "idle" /\ Local(t, pc[t], m, head, Chain, next, winner, states)
  <2>1. pc[t] \notin Before /\ pc[t] # "idle"
    BY HelpPlaces DEF Before
  <2>2. ~destroyed
    BY <2>1 DEF Sound, HoldInv, RetiredInv
  <2>3. m.kind \in {"push", "pop"}
    BY <2>1, HasKind DEF Sound
  <2> QED BY <2>1, <2>2, <2>3, NodeFacts DEF Sound, StackInv, LocalInv
<1>2. /\ \A u \in Threads : me[u].guarded => \A o : Kept(u, o, grace) => Kept(u, o, grace')
      /\ \A n : NodeOf(n) \in DOMAIN grace' <=> NodeOf(n) \in DOMAIN grace
      /\ \A u \in Threads : pc[u] \notin Before => StateOf(me[u].old) \notin DOMAIN grace'
  <2>1. CASE grace' = grace
    BY <2>1 DEF Sound, NodeInv
  <2>2. ASSUME NEW v \in Threads, Retire({StateOf(states[v])}, Threads)
        PROVE  /\ \A u \in Threads : me[u].guarded => \A o : Kept(u, o, grace) => Kept(u, o, grace')
               /\ \A n : NodeOf(n) \in DOMAIN grace' <=> NodeOf(n) \in DOMAIN grace
               /\ \A u \in Threads : pc[u] \notin Before => StateOf(me[u].old) \notin DOMAIN grace'
    <3>1. DOMAIN grace' = DOMAIN grace \cup {StateOf(states[v])}
      BY <2>2, RetireKeeps
    <3>2. \A n : NodeOf(n) \in DOMAIN grace' <=> NodeOf(n) \in DOMAIN grace
      BY <3>1, StateOfIsOwn
    <3>3. ASSUME NEW u \in Threads, pc[u] \notin Before PROVE StateOf(me[u].old) \notin DOMAIN grace'
      <4>1. me[u].old.tid = u /\ After(me[u].old, states[u])
        BY <3>3 DEF Sound, HoldInv, OldLocal, Before
      <4>2. states[v] \in Descriptors /\ states[v].tid = v
        BY <1>1 DEF TypeInv
      <4>3. me[u].old # states[v]
        BY <4>1, <4>2, AfterAfter
      <4> QED BY <3>1, <3>3, <4>3, StateOfIsOwn DEF Sound, NodeInv
    <3> QED BY <2>2, <3>2, <3>3, RetireKept
  <2> QED BY <1>1, <2>1, <2>2, HelpRetires
<1>3. pushes' = pushes /\ destroyed' = destroyed
  BY HelpCallsNothing
<1>4. /\ Chain' \subseteq Chain \cup {n \in {m.node} : m.kind = "push"}
      /\ m.kind = "pop" => next' = next
  <2>1. CASE m.kind = "push"
    <3>1. PushEffect(m.node)
      BY <2>1, PushStep
    <3> QED BY <2>1, <3>1 DEF PushEffect
  <2>2. CASE m.kind = "pop"
    <3>1. PopEffect
      BY <2>2, PopStep
    <3>2. ASSUME NEW v \in Threads, HeadPopped(v) PROVE next' = next /\ Chain' \subseteq Chain
      BY <1>1, <3>2, ChainPopped DEF HeadPopped
    <3>3. ASSUME NEW v \in Threads, HeadWon(v) \/ OpFinished(v) PROVE next' = next /\ Chain' \subseteq Chain
      BY <3>3, ChainStays DEF HeadWon, OpFinished, heap
    <3> QED BY <2>2, <3>1, <3>2, <3>3, ChainStays DEF PopEffect, heap
  <2> QED BY <1>1, <2>1, <2>2
<1>5. /\ \A u \in Threads \ {t} : pc'[u] = pc[u] /\ me'[u] = me[u]
      /\ \A u \in Threads :
           /\ me'[u].kind = me[u].kind /\ me'[u].node = me[u].node /\ me'[u].old = me[u].old
           /\ pc'[u] \in Before <=> pc[u] \in Before
  BY <1>1, HelpLeaves
<1>6. \A n : NodeOf(n) \in DOMAIN grace' => n \in 1..pushes' /\ (destroyed' \/ n \notin Chain')
  <2> SUFFICES ASSUME NEW n, NodeOf(n) \in DOMAIN grace' PROVE n \in 1..pushes' /\ n \notin Chain'
    OBVIOUS
  <2>1. NodeOf(n) \in DOMAIN grace /\ n \in 1..pushes /\ n \notin Chain
    BY <1>1, <1>2 DEF Sound, NodeInv
  <2>2. ~(m.kind = "push" /\ n = m.node)
    BY <2>1 DEF Sound, NodeInv
  <2> QED BY <1>3, <1>4, <2>1, <2>2
<1>7. ASSUME NEW u \in Threads
      PROVE  /\ me'[u].kind = "push" => NodeOf(me'[u].node) \notin DOMAIN grace' /\ pushes' = me'[u].node
             /\ pc'[u] \notin Before => StateOf(me'[u].old) \notin DOMAIN grace'
  BY <1>2, <1>3, <1>5 DEF Sound, NodeInv
<1>8. NodeOf(NULL) \notin DOMAIN grace'
  BY <1>2, NodeFacts
<1>9. ASSUME NEW u \in Threads \ {t} PROVE KeepsNodes(u, pc'[u], me'[u], next', grace')
  <2>1. me[u].kind = "pop" => next' = next
    <3>1. m.kind = "push" => me[u].kind = "none"
      BY PushAlone
    <3> QED BY <1>1, <1>4, <3>1
  <2>2. KeepsNodes(u, pc[u], me[u], next', grace')
    BY <1>2, <1>8, <2>1, KeepsFrame, NodeFacts
  <2> QED BY <1>5, <2>2
<1>10. KeepsNodes(t, pc'[t], x, next', grace')
  <2> DEFINE Ok(n) == Kept(t, NodeOf(n), grace')
  <2>1. \A n : Kept(t, NodeOf(n), grace) => Ok(n)
    BY <1>1, <1>2
  <2>2. Ok(m.h.oh) /\ Ok(m.f.oh) /\ Ok(m.f.nx)
    <3>1. KeepsNodes(t, pc[t], m, next, grace)
      BY NodeFacts
    <3>2. Kept(t, NodeOf(m.h.oh), grace) /\ Kept(t, NodeOf(m.f.oh), grace) /\ Kept(t, NodeOf(m.f.nx), grace)
      BY <3>1 DEF KeepsNodes, Kept
    <3> QED BY <2>1, <3>2
  <2>3. \A n \in Chain \cup {NULL} : Ok(n)
    BY <1>1, <2>1, NodeFacts DEF Kept
  <2>4. head \in Chain \cup {NULL}
    BY <1>1, ChainTyped
  <2>5. m.kind = "pop" /\ pc[t] \in FinishHolds => Ok(next[m.f.oh])
    <3>1. KeepsNodes(t, pc[t], m, next, grace)
      BY NodeFacts
    <3> QED BY <2>1, <3>1 DEF KeepsNodes, Kept
  <2>6. pc[t] = "popNext" => Ok(next[m.f.oh])
    <3>1. pc[t] = "popNext" => m.kind = "pop" /\ pc[t] \in FinishHolds
      BY <1>1 DEF Local, PushLocal, FinishPop, FinishHolds, Finishing
    <3> QED BY <2>5, <3>1
  <2>7. pc[t] = "pushStays" => Ok(m.f.os.node)
    <3>1. pc[t] = "pushStays" => m.kind = "push"
      BY <1>1 DEF Local, PopLocal, FinishPush
    <3>2. pc[t] = "pushStays" => m.f.os = states[t] /\ states[t].node = m.node
      BY <1>1, <3>1 DEF Local, PushLocal, PushReads
    <3>3. pc[t] = "pushStays" => NodeOf(m.node) \notin DOMAIN grace
      BY <3>1 DEF Sound, NodeInv
    <3> QED BY <2>1, <3>2, <3>3 DEF Kept
  <2> HIDE DEF Ok
  <2>8. /\ x.h.oh \in {m.h.oh, NULL, head}
        /\ x.f.oh \in {m.f.oh, NULL, head}
        /\ pc'[t] \in FinishHolds => x.f.oh = head \/ (pc[t] \in FinishHolds /\ x.f.oh = m.f.oh)
        /\ \/ x.f.nx \in {m.f.nx, NULL}
           \/ pc[t] = "popNext" /\ x.f.nx = next[m.f.oh]
           \/ pc[t] = "pushStays" /\ x.f.nx = m.f.os.node
    BY <1>1, HelpLoadsNodes
  <2>9. pc'[t] \notin Before /\ x.kind = m.kind
    BY <1>1, <1>5
  <2>10. x.kind = "pop" /\ pc'[t] \in FinishHolds => Ok(next'[x.f.oh])
    <3> SUFFICES ASSUME x.kind = "pop", pc'[t] \in FinishHolds PROVE Ok(next'[x.f.oh])
      OBVIOUS
    <3>1. next' = next
      BY <1>4, <2>9
    <3>2. CASE x.f.oh = head
      <4>1. pc'[t] # "pushUnmark"
        <5>1. PopLocal(t, pc'[t], x, head', Chain', next', winner', states')
          BY <2>9, PopStep
        <5> QED BY <5>1 DEF PopLocal, FinishPush
      <4>2. x.f.oh \in Nodes
        BY <4>1 DEF TypeInv, LocalsOK, FinishHolds
      <4>3. head # NULL /\ next[head] \in Chain \cup {NULL}
        BY <1>1, <3>2, <4>2, ChainTyped, NodesTyped
      <4> QED BY <2>3, <3>1, <3>2, <4>3
    <3>3. CASE x.f.oh # head
      BY <2>5, <2>8, <2>9, <3>1, <3>3
    <3> QED BY <3>2, <3>3
  <2> HIDE DEF x, m
  <2>11. Ok(x.h.oh) /\ Ok(x.f.oh) /\ Ok(x.f.nx)
    BY <2>2, <2>3, <2>4, <2>6, <2>7, <2>8
  <2> QED BY <2>9, <2>10, <2>11 DEF KeepsNodes, Kept, Ok
<1> HIDE DEF x, m
<1>11. \A u \in Threads : KeepsNodes(u, pc'[u], me'[u], next', grace')
  BY <1>9, <1>10 DEF x
<1> QED BY <1>6, <1>7, <1>11 DEF NodeInv

\* A step of t that retires nothing.
LEMMA NodeQuiet ==
  ASSUME Sound, NEW t \in Threads, NEW q, NEW x, Moves(t, q, x),
         UNCHANGED <<head, next, grace, destroyed>>,
         \/ pushes' = pushes
         \/ pushes' = pushes + 1 /\ \A u \in Threads \ {t} : me[u].kind = "none",
         x.kind = "push" => NodeOf(x.node) \notin DOMAIN grace /\ pushes' = x.node,
         q \notin Before => StateOf(x.old) \notin DOMAIN grace,
         KeepsNodes(t, q, x, next, grace)
  PROVE  NodeInv'
<1>1. /\ NodeInv /\ Chain' = Chain /\ pushes \in Nat /\ next' = next /\ grace' = grace
      /\ destroyed' = destroyed
  BY ChainStays DEF Sound, TypeInv, Links
<1>2. \A n : NodeOf(n) \in DOMAIN grace' => n \in 1..pushes' /\ (destroyed' \/ n \notin Chain')
  <2>1. \A n \in 1..pushes : n \in 1..pushes'
    BY <1>1
  <2> QED BY <1>1, <2>1 DEF NodeInv
<1>3. ASSUME NEW u \in Threads
      PROVE  /\ me'[u].kind = "push" => NodeOf(me'[u].node) \notin DOMAIN grace' /\ pushes' = me'[u].node
             /\ pc'[u] \notin Before => StateOf(me'[u].old) \notin DOMAIN grace'
             /\ KeepsNodes(u, pc'[u], me'[u], next', grace')
  <2>1. CASE u = t
    BY <1>1, <2>1 DEF Moves
  <2>2. CASE u # t
    BY <1>1, <2>2 DEF Moves, NodeInv
  <2> QED BY <2>1, <2>2
<1> QED BY <1>2, <1>3 DEF NodeInv

\* The end of an operation, which retires what belongs to it alone.
LEMMA NodeLeave ==
  ASSUME Sound, NEW t \in Threads, pc[t] \notin Before, NEW objects,
         Retire(objects, Threads \ {t}), Moves(t, "idle", Idle),
         UNCHANGED <<heap, pushes, destroyed>>,
         \A u \in Threads \ {t} : me[u].kind # "push",
         \A n : NodeOf(n) \in objects => n \in 1..pushes /\ n \notin Chain,
         \A d : StateOf(d) \in objects => d = me[t].old
  PROVE  NodeInv'
<1>1. /\ NodeInv /\ Chain' = Chain /\ pushes' = pushes /\ next' = next /\ destroyed' = destroyed
      /\ DOMAIN grace' = DOMAIN grace \cup objects
  BY ChainStays, RetireKeeps DEF Sound, heap
<1>2. \A n : NodeOf(n) \in DOMAIN grace' => n \in 1..pushes' /\ (destroyed' \/ n \notin Chain')
  BY <1>1 DEF NodeInv
<1>3. NodeOf(NULL) \notin DOMAIN grace'
  <2>1. NULL \notin 1..pushes
    BY DEF NULL, Sound, TypeInv, Links
  <2> QED BY <1>1, <1>2, <2>1
<1>4. ASSUME NEW u \in Threads \ {t}
      PROVE  /\ me'[u].kind = "push" => NodeOf(me'[u].node) \notin DOMAIN grace' /\ pushes' = me'[u].node
             /\ pc'[u] \notin Before => StateOf(me'[u].old) \notin DOMAIN grace'
             /\ KeepsNodes(u, pc'[u], me'[u], next', grace')
  <2>1. pc'[u] = pc[u] /\ me'[u] = me[u]
    BY DEF Moves
  <2>2. pc[u] \notin Before => StateOf(me[u].old) \notin DOMAIN grace'
    <3>1. pc[u] \notin Before => me[u].old.tid = u
      BY DEF Sound, HoldInv, OldLocal, Before
    <3>2. me[t].old.tid = t
      BY DEF Sound, HoldInv, OldLocal, Before
    <3>3. me[u].old = me[t].old => pc[u] \in Before
      BY <3>1, <3>2
    <3> QED BY <1>1, <3>3 DEF NodeInv
  <2>3. me[u].guarded => \A o : Kept(u, o, grace) => Kept(u, o, grace')
    BY RetireKept
  <2>4. KeepsNodes(u, pc[u], me[u], next', grace')
    BY <1>1, <1>3, <2>3, KeepsFrame, NodeFacts
  <2> QED BY <2>1, <2>2, <2>4
<1>5. /\ Idle.kind = "none" /\ Idle.h.oh = NULL /\ Idle.f.oh = NULL /\ Idle.f.nx = NULL
  BY DEF Idle, NoHelp, NoFinish
<1>6. "idle" \in Before
  BY DEF Before
<1>7. KeepsNodes(t, "idle", Idle, next', grace')
  BY <1>3, <1>5, <1>6, KeepsBefore
<1>8. ASSUME NEW u \in Threads
      PROVE  /\ me'[u].kind = "push" => NodeOf(me'[u].node) \notin DOMAIN grace' /\ pushes' = me'[u].node
             /\ pc'[u] \notin Before => StateOf(me'[u].old) \notin DOMAIN grace'
             /\ KeepsNodes(u, pc'[u], me'[u], next', grace')
  <2>1. CASE u = t
    BY <1>5, <1>6, <1>7, <2>1 DEF Moves
  <2> QED BY <1>4, <2>1
<1> QED BY <1>2, <1>8 DEF NodeInv

LEMMA NodeCall ==
  ASSUME Sound, "push" \notin Overlap, NEW t \in Threads, CallPush(t) \/ CallPop(t)
  PROVE  NodeInv'
<1> DEFINE x == me'[t]
<1>0. NoHelp.oh = NULL /\ NoFinish.oh = NULL /\ NoFinish.nx = NULL /\ "loadPhase" \in Before
  BY NoFields DEF Before
<1>1. ASSUME NEW kind \in {"push", "pop"}, NEW node, Begin(t, kind, node),
             kind = "push" => pushes' = pushes + 1 /\ node = pushes + 1,
             kind = "pop" => pushes' = pushes
      PROVE  NodeInv'
  <2>1. /\ Moves(t, "loadPhase", x) /\ x.kind = kind /\ x.node = node
        /\ x.h = NoHelp /\ x.f = NoFinish
        /\ UNCHANGED <<head, next, grace, destroyed>>
        /\ kind = "push" => \A u \in Threads : me[u].kind = "none"
    BY <1>1, CallBegins DEF Sound, heap
  <2>2. KeepsNodes(t, "loadPhase", x, next, grace)
    BY <1>0, <2>1, KeepsBefore, NodeFacts
  <2>3. NodeOf(pushes + 1) \notin DOMAIN grace
    <3>1. pushes + 1 \notin 1..pushes
      BY DEF Sound, TypeInv, Links
    <3> QED BY <3>1 DEF Sound, NodeInv
  <2> HIDE DEF x
  <2> QED BY <1>0, <1>1, <2>1, <2>2, <2>3, NodeQuiet
<1>2. ASSUME CallPush(t) PROVE NodeInv'
  <2>1. Begin(t, "push", pushes + 1) /\ pushes' = pushes + 1
    BY <1>2 DEF CallPush
  <2> QED BY <1>1, <2>1
<1>3. ASSUME CallPop(t) PROVE NodeInv'
  <2>1. Begin(t, "pop", NULL) /\ pushes' = pushes
    BY <1>3 DEF CallPop
  <2> QED BY <1>1, <2>1
<1> QED BY <1>2, <1>3

LEMMA NodePhase ==
  ASSUME Sound, NEW t \in Threads, LoadPhase(t) \/ ReadPhase(t) \/ LoadOld(t)
  PROVE  NodeInv'
<1> DEFINE m == me[t]
           x == me'[t]
           q == pc'[t]
<1>1. /\ Moves(t, q, x) /\ pc[t] \in Before \ {"idle"} /\ q \in Before \ {"idle"}
      /\ x.kind = m.kind /\ x.node = m.node /\ x.f = m.f /\ x.h.oh \in {m.h.oh, NULL}
      /\ UNCHANGED <<heap, states, bookkeeping>>
  BY PhaseMoves DEF Sound
<1>2. KeepsNodes(t, pc[t], m, next, grace) /\ NodeOf(NULL) \notin DOMAIN grace
  BY NodeFacts
<1> HIDE DEF q, x, m
<1>3. m.h.oh = NULL /\ m.f.oh = NULL /\ m.f.nx = NULL
  BY <1>1, <1>2 DEF KeepsNodes
<1>4. KeepsNodes(t, q, x, next, grace)
  BY <1>1, <1>2, <1>3, KeepsBefore
<1>5. m.kind = "push" => NodeOf(m.node) \notin DOMAIN grace /\ pushes = m.node
  BY DEF Sound, NodeInv, m
<1> QED BY <1>1, <1>4, <1>5, NodeQuiet DEF heap, bookkeeping

LEMMA NodeAnnounce ==
  ASSUME Sound, "push" \notin Overlap, NEW t \in Threads, Announce(t)
  PROVE  NodeInv'
<1> DEFINE m == me[t]
           less == IF m.kind = "push" THEN m.phase ELSE m.phase - 1
           x == [m EXCEPT !.ahead = {states[u] : u \in {v \in Threads : Pending(v, m.phase)}},
                          !.less = less, !.i = 1]
<1>1. TypeInv /\ m \in Locals /\ pc[t] = "announce"
  BY HasLocals DEF Sound, Announce, At
<1>2. states[t] = m.old
  BY <1>1 DEF Sound, MeetInv, OldInv, MeetsPush
<1>3. Goto(t, "scan") /\ Keep(t, x) /\ UNCHANGED <<heap, bookkeeping>>
  BY <1>2 DEF Announce
<1>4. Moves(t, "scan", x)
  BY <1>1, <1>3 DEF Goto, Keep, Moves, TypeInv
<1>5. x.kind = m.kind /\ x.node = m.node /\ x.old = m.old /\ x.h = m.h /\ x.f = m.f
  BY <1>1 DEF Locals
<1>6. pc[t] \in Before /\ "scan" \notin Before /\ "scan" \notin FinishHolds
  BY <1>1 DEF Before, FinishHolds, Finishing, FinishPush, FinishPop
<1>7. StateOf(m.old) \notin DOMAIN grace
  <2>1. ~destroyed
    BY <1>1 DEF Sound, HoldInv, RetiredInv
  <2> QED BY <1>2, <2>1, SlotsInUse DEF Sound
<1> HIDE DEF x
<1>8. KeepsNodes(t, "scan", x, next, grace)
  <2>1. KeepsNodes(t, pc[t], m, next, grace) /\ NodeOf(NULL) \notin DOMAIN grace
    BY NodeFacts
  <2>2. x.h.oh = NULL /\ x.f.oh = NULL /\ x.f.nx = NULL
    BY <1>5, <1>6, <2>1 DEF KeepsNodes
  <2> QED BY <1>6, <2>1, <2>2 DEF KeepsNodes
<1>9. m.kind = "push" => NodeOf(m.node) \notin DOMAIN grace /\ pushes = m.node
  BY DEF Sound, NodeInv
<1> HIDE DEF m
<1> QED BY <1>3, <1>4, <1>5, <1>7, <1>8, <1>9, NodeQuiet DEF heap, bookkeeping

LEMMA NodeEndPop ==
  ASSUME Sound, "push" \notin Overlap, NEW t \in Threads, me[t].kind = "pop", PopAssert(t) \/ PopReturn(t)
  PROVE  NodeInv'
<1>1. /\ TypeInv /\ \A u \in Threads : me[u].kind # "push"
      /\ KeepsNodes(t, pc[t], me[t], next, grace)
  BY PopsOnly, NodeFacts DEF Sound
<1>2. pc[t] \in Ends /\ pc[t] \notin Before
  BY DEF PopAssert, PopReturn, At, Ends, Before
<1>3. /\ states[t].node \notin Chain /\ ~states[t].pending
      /\ states[t].node # NULL => states[t].node \in Nodes /\ winner[states[t].node] = t
  BY <1>2, PopEnds
<1>4. CASE PopAssert(t)
  <2>1. Read(t, "popReturn", me[t]) /\ pc[t] = "popAssert"
    BY <1>3, <1>4 DEF PopAssert, At
  <2>2. Moves(t, "popReturn", me[t]) /\ UNCHANGED <<heap, states, bookkeeping>>
    BY <1>1, <2>1 DEF Read, Goto, Keep, Moves, TypeInv
  <2>3. KeepsNodes(t, "popReturn", me[t], next, grace)
    BY <1>1, <2>1 DEF KeepsNodes, Before, FinishHolds, Finishing, FinishPush, FinishPop
  <2>4. StateOf(me[t].old) \notin DOMAIN grace
    BY <1>2 DEF Sound, NodeInv
  <2> QED BY <1>1, <2>2, <2>3, <2>4, NodeQuiet DEF heap, bookkeeping
<1>5. CASE PopReturn(t)
  <2> DEFINE n == states[t].node
  <2>1. /\ \/ n = NULL /\ Leave(t, {})
           \/ n # NULL /\ Leave(t, {NodeOf(n), StateOf(me[t].old)})
        /\ UNCHANGED winner
    BY <1>5 DEF PopReturn
  <2>2. PICK objects :
          /\ Retire(objects, Threads \ {t}) /\ Moves(t, "idle", Idle)
          /\ UNCHANGED <<heap, pushes, destroyed>>
          /\ \A k : NodeOf(k) \in objects => k = n /\ n # NULL
          /\ \A d : StateOf(d) \in objects => d = me[t].old
    <3>1. /\ \A k : NodeOf(k) \in {NodeOf(n), StateOf(me[t].old)} => k = n
          /\ \A d : StateOf(d) \in {NodeOf(n), StateOf(me[t].old)} => d = me[t].old
      BY DEF NodeOf, StateOf
    <3> QED BY <1>1, <2>1, <3>1 DEF Leave, Goto, Keep, Moves, TypeInv, heap
  <2>3. n # NULL => n \in 1..pushes
    <3>1. n # NULL => n \in Nodes /\ winner[n] # 0
      BY <1>3 DEF Threads
    <3>2. n # NULL => n <= pushes /\ n \in Nat /\ n >= 1
      BY <3>1 DEF Sound, StackInv, LinkInv, Nodes, TypeInv, Links
    <3> QED BY <3>2 DEF Sound, TypeInv, Links
  <2> HIDE DEF n
  <2>4. \A k : NodeOf(k) \in objects => k \in 1..pushes /\ k \notin Chain
    BY <1>3, <2>2, <2>3 DEF n
  <2> QED BY <1>1, <1>2, <2>2, <2>4, NodeLeave
<1> QED BY <1>4, <1>5

LEMMA NodeEndPush ==
  ASSUME Sound, "push" \notin Overlap, NEW t \in Threads, me[t].kind = "push", PushNext(t) \/ PushClear(t)
  PROVE  NodeInv'
<1> DEFINE m == me[t]
<1>1. /\ TypeInv /\ LinkInv /\ m \in Locals /\ m.h \in HelpLocals /\ m.f \in FinishLocals
      /\ \A u \in Threads \ {t} : me[u].kind = "none"
      /\ KeepsNodes(t, pc[t], m, next, grace) /\ ~destroyed
  <2>1. (\A u \in Threads \ {t} : me[u].kind = "none") /\ ~destroyed
    BY PushAlone
  <2> QED BY <2>1, HasLocals, NodeFacts DEF Sound, StackInv
<1>2. pc[t] \notin Before
  BY DEF PushNext, PushClear, At, Before
<1>3. /\ UNCHANGED <<heap, states, pushes, destroyed>> /\ head # NULL
      /\ \/ /\ pc[t] = "pushNext" /\ pc'[t] = "pushClear" /\ me'[t] = [m EXCEPT !.f.nx = next[head]]
            /\ Moves(t, pc'[t], me'[t]) /\ UNCHANGED bookkeeping
         \/ Moves(t, "idle", Idle) /\ Retire({StateOf(m.old)}, Threads \ {t})
  BY PushEnds
<1>4. CASE Moves(t, "idle", Idle) /\ Retire({StateOf(m.old)}, Threads \ {t})
  <2> DEFINE objects == {StateOf(m.old)}
  <2>1. /\ \A k : NodeOf(k) \notin objects
        /\ \A d : StateOf(d) \in objects => d = m.old
    BY StateOfIsOwn
  <2> HIDE DEF objects
  <2>2. Retire(objects, Threads \ {t})
    BY <1>4 DEF objects
  <2> QED BY <1>1, <1>2, <1>3, <1>4, <2>1, <2>2, NodeLeave
<1>5. ASSUME pc'[t] = "pushClear", me'[t] = [m EXCEPT !.f.nx = next[head]],
             Moves(t, pc'[t], me'[t]), UNCHANGED bookkeeping
      PROVE  NodeInv'
  <2> DEFINE x == [m EXCEPT !.f.nx = next[head]]
  <2>1. /\ x.kind = m.kind /\ x.node = m.node /\ x.old = m.old /\ x.h = m.h
        /\ x.f.nx = next[head] /\ x.f.oh = m.f.oh
    BY <1>1 DEF Locals, FinishLocals
  <2> HIDE DEF x
  <2>2. NodeOf(next[head]) \notin DOMAIN grace
    BY <1>1, <1>3, ChainTyped, NodeFacts
  <2>3. KeepsNodes(t, "pushClear", x, next, grace)
    BY <1>1, <2>1, <2>2 DEF KeepsNodes, Before
  <2>4. NodeOf(m.node) \notin DOMAIN grace /\ pushes = m.node /\ StateOf(m.old) \notin DOMAIN grace
    BY <1>2 DEF Sound, NodeInv
  <2>5. Moves(t, "pushClear", x)
    BY <1>5 DEF x
  <2> QED BY <1>3, <1>5, <2>1, <2>3, <2>4, <2>5, NodeQuiet DEF heap, bookkeeping
<1> QED BY <1>3, <1>4, <1>5

LEMMA NodeDestroy ==
  ASSUME Sound, Destroy
  PROVE  NodeInv'
<1>1. /\ \A t \in Threads : pc[t] = "idle" /\ me[t].kind = "none"
      /\ ~destroyed /\ destroyed' /\ UNCHANGED <<heap, pc, me, pushes>>
      /\ Retire({NodeOf(n) : n \in Chain} \cup {StateOf(states[t]) : t \in Threads}, Threads)
  BY DEF Sound, Destroy, TypeInv, LocalsOK
<1>2. DOMAIN grace' = DOMAIN grace \cup ({NodeOf(n) : n \in Chain} \cup {StateOf(states[t]) : t \in Threads})
  BY <1>1, RetireKeeps
<1>3. Chain \subseteq 1..pushes
  <2>1. TypeInv /\ LinkInv
    BY DEF Sound, StackInv
  <2>2. \A n \in Chain : n \in Nat /\ n >= 1 /\ n <= pushes
    BY <2>1, ChainTyped, NodesTyped DEF LinkInv
  <2> QED BY <2>1, <2>2 DEF TypeInv, Links
<1>4. \A n : NodeOf(n) \in DOMAIN grace' => n \in 1..pushes
  <2>1. \A n, k : NodeOf(n) = NodeOf(k) => n = k
    BY DEF NodeOf
  <2> QED BY <1>2, <1>3, <2>1, StateOfIsOwn DEF Sound, NodeInv
<1>5. NodeOf(NULL) \notin DOMAIN grace'
  <2>1. NULL \notin 1..pushes
    BY DEF NULL, Sound, TypeInv, Links
  <2> QED BY <1>4, <2>1
<1>6. ASSUME NEW t \in Threads PROVE KeepsNodes(t, pc'[t], me'[t], next', grace')
  <2>1. KeepsNodes(t, pc[t], me[t], next, grace) /\ pc[t] \in Before
    BY <1>1, NodeFacts DEF Before
  <2>2. me[t].h.oh = NULL /\ me[t].f.oh = NULL /\ me[t].f.nx = NULL
    BY <2>1 DEF KeepsNodes
  <2>3. KeepsNodes(t, pc[t], me[t], next', grace')
    BY <1>5, <2>1, <2>2, KeepsBefore
  <2> QED BY <1>1, <2>3
<1>7. \A t \in Threads : pc'[t] \in Before /\ me'[t].kind # "push"
  BY <1>1 DEF Before
<1>8. \A n : NodeOf(n) \in DOMAIN grace' => n \in 1..pushes' /\ destroyed'
  BY <1>1, <1>4
<1> QED BY <1>6, <1>7, <1>8 DEF NodeInv

LEMMA NodeInit == Init => NodeInv
<1> SUFFICES ASSUME Init PROVE NodeInv
  OBVIOUS
<1>1. DOMAIN grace = {}
  BY DEF Init
<1>2. \A t \in Threads : me[t] = Idle /\ pc[t] = "idle"
  BY DEF Init
<1>3. /\ Idle.kind = "none" /\ Idle.h.oh = NULL /\ Idle.f.oh = NULL /\ Idle.f.nx = NULL
  BY DEF Idle, NoHelp, NoFinish
<1>4. "idle" \in Before
  BY DEF Before
<1>5. \A t \in Threads : KeepsNodes(t, "idle", Idle, next, grace)
  BY <1>1, <1>3, <1>4, KeepsBefore
<1> QED BY <1>1, <1>2, <1>3, <1>4, <1>5 DEF NodeInv

\* Every step keeps what is said of the nodes a thread holds.
LEMMA NodeStep ==
  ASSUME Sound, TypeInv', "push" \notin Overlap, [Next]_vars
  PROVE  NodeInv'
<1>1. TypeInv /\ NodeInv
  BY DEF Sound
<1>2. CASE UNCHANGED vars
  <2>1. Chain' = Chain /\ next' = next /\ grace' = grace /\ pc' = pc /\ me' = me
        /\ pushes' = pushes /\ destroyed' = destroyed
    BY <1>2, ChainStays DEF vars, heap, bookkeeping
  <2> QED BY <1>1, <2>1 DEF NodeInv
<1>3. CASE Destroy
  BY <1>3, NodeDestroy
<1>4. ASSUME NEW t \in Threads, CallPush(t) \/ CallPop(t) PROVE NodeInv'
  BY <1>4, NodeCall
<1>5. ASSUME NEW t \in Threads, Step(t) PROVE NodeInv'
  <2>1. CASE Help(t) \/ Finish(t)
    BY <2>1, HelpKeepsNodes
  <2>2. CASE LoadPhase(t) \/ ReadPhase(t) \/ LoadOld(t)
    BY <2>2, NodePhase
  <2>3. CASE Announce(t)
    BY <2>3, NodeAnnounce
  <2>4. CASE PushNext(t) \/ PushClear(t)
    <3>1. me[t].kind = "push"
      BY <1>1, <2>4, HasLocals DEF PushNext, PushClear, At, LocalsOK
    <3> QED BY <2>4, <3>1, NodeEndPush
  <2>5. CASE PopAssert(t) \/ PopReturn(t)
    <3>1. me[t].kind \in {"push", "pop"} /\ pc[t] \in {"popAssert", "popReturn"}
      BY <1>1, <2>5, HasKind DEF PopAssert, PopReturn, At
    <3>2. me[t].kind # "push"
      <4>1. me[t].kind = "push" => PushLocal(t, pc[t], me[t], head, Chain, next, winner, states)
        BY PushAlone
      <4> QED BY <3>1, <4>1 DEF PushLocal
    <3> QED BY <2>5, <3>1, <3>2, NodeEndPop
  <2> QED BY ONLY Step(t), <1>5, <2>1, <2>2, <2>3, <2>4, <2>5 DEF Step
<1> QED BY ONLY [Next]_vars, <1>2, <1>3, <1>4, <1>5 DEF Next

\* The inductive invariant, if pushes meet no other operation.
LEMMA SoundHolds == "push" \notin Overlap => (Spec => []Sound)
<1> SUFFICES ASSUME "push" \notin Overlap PROVE Spec => []Sound
  OBVIOUS
<1> DEFINE Known == TypeInv /\ HelpInv /\ MeetInv /\ HoldInv
<1>1. Spec => []Known
  BY MeetInvHolds, HoldInvHolds, PTL DEF Known
<1>2. Init => StackInv /\ NodeInv
  BY StackInit, NodeInit
<1>3. Known /\ Known' /\ StackInv /\ NodeInv /\ [Next]_vars => (StackInv /\ NodeInv)'
  <2>1. Known /\ StackInv /\ NodeInv => Sound
    BY DEF Sound
  <2>2. Known' => TypeInv'
    OBVIOUS
  <2> QED BY <2>1, <2>2, StackStep, NodeStep
<1>4. Known /\ StackInv /\ NodeInv => Sound
  BY DEF Sound
<1> QED BY <1>1, <1>2, <1>3, <1>4, PTL DEF Spec

\* If pushes meet no other operation, whoever holds a node that has been handed to
\* safe_free() has been inside its ref_guard since before that: the pop that has taken
\* it hands it over, when it has left the chain, and those that have loaded it before
\* are inside their guards still.
LEMMA NodesAlwaysCovered == "push" \notin Overlap => (Spec => []HeldNodesCovered)
<1> SUFFICES ASSUME "push" \notin Overlap PROVE Spec => []HeldNodesCovered
  OBVIOUS
<1>1. Sound => HeldNodesCovered
  <2> SUFFICES ASSUME Sound, NEW t \in Threads, NEW n \in HeldNodes(t)
               PROVE  Covered(t, NodeOf(n))
    BY DEF HeldNodesCovered
  <2>1. KeepsNodes(t, pc[t], me[t], next, grace) /\ NodeOf(NULL) \notin DOMAIN grace
    BY NodeFacts
  <2>2. CASE n = me[t].node
    <3>1. CASE me[t].kind = "push"
      BY <2>2, <3>1 DEF Sound, NodeInv, Covered
    <3>2. CASE me[t].kind # "push"
      <4>1. me[t].node = NULL
        BY <3>2 DEF Sound, StackInv, LocalInv, Local
      <4> QED BY <2>1, <2>2, <4>1 DEF Covered
    <3> QED BY <3>1, <3>2
  <2>3. CASE n \in {me[t].h.oh, me[t].f.oh, me[t].f.nx}
    BY <2>1, <2>3 DEF KeepsNodes, Covered
  <2> QED BY <2>2, <2>3 DEF HeldNodes
<1> QED BY <1>1, SoundHolds, PTL

\* So a program whose pushes meet no other operation keeps what safe_free() asks of it.
THEOREM AllHeldCovered == "push" \notin Overlap => (Spec => []HeldCovered)
<1> SUFFICES ASSUME "push" \notin Overlap PROVE Spec => []HeldCovered
  OBVIOUS
<1>1. HeldStatesCovered /\ HeldNodesCovered => HeldCovered
  BY DEF HeldCovered
<1> QED BY <1>1, StatesAlwaysCovered, NodesAlwaysCovered, PTL

-------------------------------------------------------------------------------
(* Where the process stops.                                                *)

\* A process that has stopped does nothing any more.
LEMMA Stopped ==
  ASSUME [Next]_vars, crashed # "none"
  PROVE  UNCHANGED vars
<1>1. ASSUME NEW t \in Threads PROVE ~CallPush(t) /\ ~CallPop(t)
  BY DEF CallPush, CallPop, Begin, At
<1>2. ASSUME NEW t \in Threads PROVE ~Help(t)
  BY DEF Help, At, While, IfPending, Scan, Dispatch, PushHead, PushState, PushCheck, PushPending,
     PushSame, PushFirst, FirstLoad, FirstDone, PushWinner, PushRecheck, PushStill, PushWin, PushWhile,
     PopHead, PopState, PopEmpty, PopNothing, PopWinner, PopCheck, PopStill, PopWin, PopWhile
<1>3. ASSUME NEW t \in Threads PROVE ~Finish(t)
  BY DEF Finish, At, FinishHead, FinishWinner, FinishState, SameHead, SameWinner, SameState, PushStays,
     PushMark, PushFinish, PushLink, PushSwing, PushUnmark, PopNext, PopStays, PopFinish, PopSwing
<1>4. ASSUME NEW t \in Threads
      PROVE  /\ ~LoadPhase(t) /\ ~ReadPhase(t) /\ ~LoadOld(t) /\ ~Announce(t)
             /\ ~PushNext(t) /\ ~PushClear(t) /\ ~PopAssert(t) /\ ~PopReturn(t)
  BY DEF At, LoadPhase, ReadPhase, LoadOld, Announce, PushNext, PushClear, PopAssert, PopReturn
<1>5. ~Destroy
  BY DEF Destroy
<1> QED BY ONLY [Next]_vars, <1>1, <1>2, <1>3, <1>4, <1>5 DEF Next, Step

\* An exchange of the descriptor in a slot hands over nothing twice.
LEMMA ReplaceOnce ==
  ASSUME Sound, ~destroyed, NEW v \in Threads, NEW d, NEW new, Replace(v, d, new)
  PROVE  crashed' = crashed
<1>1. StateOf(states[v]) \notin DOMAIN grace
  BY SlotsInUse DEF Sound
<1>2. {StateOf(states[v])} \cap DOMAIN grace = {}
  BY <1>1
<1> QED BY <1>2 DEF Replace, Retire

\* The steps of a pop in help() and finish().
LEMMA PopStops ==
  ASSUME Sound, "push" \notin Overlap, NEW t \in Threads, me[t].kind = "pop", Help(t) \/ Finish(t)
  PROVE  \/ crashed' = crashed
         \/ /\ crashed' = "nullHead" /\ pc[t] = "popWinner" /\ me[t].h.oh = NULL
            /\ UNCHANGED <<heap, states, pc, me, grace>>
<1>1. /\ TypeInv /\ ~destroyed /\ LocalsOK(pc[t], me[t])
      /\ PopLocal(t, pc[t], me[t], head, Chain, next, winner, states)
  BY PopsOnly, HasLocals DEF Sound, StackInv, LocalInv, Local
<1>2. CASE PopRead(t)
  <2>1. CASE UNCHANGED <<pc, me>> /\ PopWinner(t) /\ me[t].h.oh = NULL /\ crashed' = "nullHead"
    <3>1. pc[t] = "popWinner"
      BY <2>1 DEF PopWinner, At
    <3> QED BY <1>2, <2>1, <3>1, PopReads
  <2>2. ~(FinishState(t) /\ me[t].f.tid < 0)
    <3>1. FinishState(t) => me[t].f.tid > 0
      BY <1>1 DEF FinishState, At, PopLocal
    <3>2. me[t].f.tid \in Int
      BY <1>1, HasLocals, NodesTyped
    <3> QED BY <3>1, <3>2
  <2> QED BY <1>2, <2>1, <2>2, PopReads
<1>3. CASE PopWrite(t)
  <2>1. CASE PopNothing(t)
    <3>1. me[t].i \in Threads
      BY <1>1, <2>1 DEF PopNothing, At, LocalsOK, HelpPop
    <3> QED BY <1>1, <2>1, <3>1, ReplaceOnce DEF PopNothing
  <2>2. CASE PopFinish(t)
    <3>1. me[t].f.tid \in Threads
      BY <1>1, <2>2 DEF PopFinish, At, LocalsOK, FinishPop
    <3> QED BY <1>1, <2>2, <3>1, ReplaceOnce DEF PopFinish
  <2>3. CASE PopWin(t) \/ PopSwing(t)
    BY <2>3 DEF PopWin, PopSwing, bookkeeping
  <2> QED BY <1>3, <2>1, <2>2, <2>3 DEF PopWrite
<1> QED BY <1>2, <1>3, PopStep

\* There is one place where the process can stop.
LEMMA StopsAtNull ==
  ASSUME Sound, "push" \notin Overlap, [Next]_vars
  PROVE  \/ crashed' = crashed
         \/ /\ crashed' = "nullHead" /\ UNCHANGED <<heap, states, pc, me, grace>>
            /\ \E t \in Threads : me[t].kind = "pop" /\ pc[t] = "popWinner" /\ me[t].h.oh = NULL
<1> DEFINE Goal ==
      \/ crashed' = crashed
      \/ /\ crashed' = "nullHead" /\ UNCHANGED <<heap, states, pc, me, grace>>
         /\ \E t \in Threads : me[t].kind = "pop" /\ pc[t] = "popWinner" /\ me[t].h.oh = NULL
<1>1. TypeInv
  BY DEF Sound
<1>2. ASSUME UNCHANGED vars PROVE Goal
  BY <1>2 DEF vars, bookkeeping
<1>3. ASSUME Destroy PROVE Goal
  <2>1. /\ ~destroyed
        /\ Retire({NodeOf(n) : n \in Chain} \cup {StateOf(states[t]) : t \in Threads}, Threads)
    BY <1>3 DEF Destroy
  <2>2. /\ \A n \in Chain : NodeOf(n) \notin DOMAIN grace
        /\ \A t \in Threads : StateOf(states[t]) \notin DOMAIN grace
    BY <2>1, NodeFacts, SlotsInUse DEF Sound
  <2>3. ({NodeOf(n) : n \in Chain} \cup {StateOf(states[t]) : t \in Threads}) \cap DOMAIN grace = {}
    BY <2>2
  <2> QED BY <2>1, <2>3 DEF Retire
<1>4. ASSUME NEW t \in Threads, CallPush(t) \/ CallPop(t) PROVE Goal
  BY <1>4 DEF CallPush, CallPop, Begin
<1>5. ASSUME NEW t \in Threads, Help(t) \/ Finish(t) PROVE Goal
  <2>1. me[t].kind \in {"push", "pop"}
    BY <1>1, <1>5, HelpPlaces, HasKind DEF Before
  <2> QED BY <1>5, <2>1, PushStep, PopStops
<1>6. ASSUME NEW t \in Threads, LoadPhase(t) \/ ReadPhase(t) \/ LoadOld(t) PROVE Goal
  BY <1>1, <1>6, PhaseMoves DEF bookkeeping
<1>7. ASSUME NEW t \in Threads, Announce(t) PROVE Goal
  <2>1. me[t].kind \in {"push", "pop"}
    BY <1>1, <1>7, HasKind DEF Announce, At
  <2> QED BY <1>7, <2>1, AnnouncePushStack, AnnouncePopStack
<1>8. ASSUME NEW t \in Threads, PushNext(t) \/ PushClear(t) PROVE Goal
  <2>1. me[t].kind = "push" /\ pc[t] \notin Before
    BY <1>1, <1>8, HasLocals DEF PushNext, PushClear, At, LocalsOK, Before
  <2>2. {StateOf(me[t].old)} \cap DOMAIN grace = {}
    BY <2>1 DEF Sound, NodeInv
  <2>3. UNCHANGED bookkeeping \/ Retire({StateOf(me[t].old)}, Threads \ {t})
    BY <1>8, <2>1, PushEnds
  <2> QED BY <2>2, <2>3 DEF Retire, bookkeeping
<1>9. ASSUME NEW t \in Threads, PopAssert(t) \/ PopReturn(t) PROVE Goal
  <2>1. pc[t] \in {"popAssert", "popReturn"} /\ pc[t] \in Ends /\ pc[t] \notin Before
    BY <1>9 DEF PopAssert, PopReturn, At, Ends, Before
  <2>2. me[t].kind = "pop"
    <3>1. me[t].kind \in {"push", "pop"}
      BY <1>1, <2>1, HasKind DEF Before
    <3>2. me[t].kind = "push" => PushLocal(t, pc[t], me[t], head, Chain, next, winner, states)
      BY PushAlone
    <3> QED BY <2>1, <3>1, <3>2 DEF PushLocal
  <2>3. ~states[t].pending /\ (states[t].node # NULL => NodeOf(states[t].node) \notin DOMAIN grace)
    BY <2>1, <2>2, PopEnds
  <2>4. StateOf(me[t].old) \notin DOMAIN grace
    BY <2>1 DEF Sound, NodeInv
  <2>5. CASE PopAssert(t)
    BY <2>3, <2>5 DEF PopAssert, Read, bookkeeping
  <2>6. CASE PopReturn(t)
    <3>1. \/ Retire({}, Threads \ {t})
          \/ states[t].node # NULL /\ Retire({NodeOf(states[t].node), StateOf(me[t].old)}, Threads \ {t})
      BY <2>6 DEF PopReturn, Leave
    <3> QED BY <2>3, <2>4, <3>1 DEF Retire
  <2> QED BY <1>9, <2>5, <2>6
<1> HIDE DEF Goal
<1>10. Goal
  BY ONLY [Next]_vars, <1>2, <1>3, <1>4, <1>5, <1>6, <1>7, <1>8, <1>9 DEF Next, Step
<1> QED BY <1>10 DEF Goal

-------------------------------------------------------------------------------
(* The elements that are left for the pops.                                *)

\* A pop in help_pop(), or about to be there.
Helping(p, m) == p = "dispatch" \/ p \in HelpPop \/ (p \in Finishing /\ m.f.back = "popWhile")

\* The places of help_pop() that a pop of an empty stack passes.
EmptyPlaces == {"dispatch", "popHead", "popState", "popEmpty", "popNothing", "popWinner"}

\* A pop comes there for the sake of a pending operation.
LEMMA PopTargets ==
  ASSUME Sound, "push" \notin Overlap, NEW t \in Threads, me[t].kind = "pop", Help(t) \/ Finish(t)
  PROVE  LET m == me[t]
             x == me'[t] IN
         /\ Helping(pc'[t], x) => (Helping(pc[t], m) /\ x.i = m.i) \/ states[x.i].pending
         /\ pc'[t] \in EmptyPlaces =>
              /\ head' = head
              /\ \/ pc[t] \in EmptyPlaces /\ x.i = m.i
                 \/ states' = states /\ states[x.i].pending
<1> DEFINE m == me[t]
           Ok(q, x) ==
             /\ Helping(q, x) => (Helping(pc[t], m) /\ x.i = m.i) \/ states[x.i].pending
             /\ q \in EmptyPlaces => (pc[t] \in EmptyPlaces /\ x.i = m.i) \/ states[x.i].pending
           Goal == Ok(pc'[t], me'[t])
<1>1. /\ TypeInv /\ LocalsOK(pc[t], m) /\ m \in Locals /\ m.h \in HelpLocals /\ m.f \in FinishLocals
      /\ DOMAIN pc = Threads /\ DOMAIN me = Threads /\ m.kind = "pop"
      /\ PopLocal(t, pc[t], m, head, Chain, next, winner, states)
  BY HasLocals DEF Sound, StackInv, LocalInv, Local, TypeInv
<1>2. ASSUME NEW q, Goto(t, q), NEW x, Keep(t, x) \/ (me' = me /\ x = m), Ok(q, x) PROVE Goal
  <2>1. pc'[t] = q /\ me'[t] = x
    BY <1>1, <1>2 DEF Goto, Keep
  <2> QED BY <1>2, <2>1
<1>3. /\ \A q \in Finishing : q \notin EmptyPlaces /\ q \notin HelpPop
      /\ EmptyPlaces \subseteq {"dispatch"} \cup HelpPop
      /\ \A q \in {"scan", "popAssert"} : q \notin HelpPop /\ q \notin Finishing /\ q \notin EmptyPlaces
      /\ \A q \in {"popWhile", "finish", "popClear", "popStill", "popWin"} : q \notin EmptyPlaces
      /\ "popWhile" \in HelpPop
  BY DEF Finishing, FinishPush, FinishPop, EmptyPlaces, HelpPop
<1>4. ASSUME NEW x
      PROVE  /\ Ok("scan", x) /\ Ok("popAssert", x)
             /\ states[x.i].pending => \A q : Ok(q, x)
             /\ pc[t] \in EmptyPlaces /\ x.i = m.i => \A q : Ok(q, x)
             /\ pc[t] \in HelpPop /\ x.i = m.i => \A q : q \notin EmptyPlaces => Ok(q, x)
             /\ pc[t] \in Finishing /\ x.i = m.i /\ x.f.back = m.f.back => \A q \in Finishing : Ok(q, x)
             /\ pc[t] \in Finishing /\ x.i = m.i => Ok(m.f.back, x)
  <2>1. pc[t] \in Finishing => m.f.back \in {"popWhile", "popAssert"}
    BY <1>1 DEF PopLocal
  <2>2. "popAssert" \notin HelpPop \cup Finishing \cup EmptyPlaces \cup {"dispatch"} /\ "popWhile" \notin EmptyPlaces
    BY <1>3
  <2>3. "dispatch" \notin Finishing
    BY <1>3 DEF EmptyPlaces
  <2>4. Ok("scan", x) /\ Ok("popAssert", x)
    BY <1>3, <2>2 DEF Helping
  <2>5. /\ states[x.i].pending => \A q : Ok(q, x)
        /\ pc[t] \in EmptyPlaces /\ x.i = m.i => \A q : Ok(q, x)
        /\ pc[t] \in HelpPop /\ x.i = m.i => \A q : q \notin EmptyPlaces => Ok(q, x)
    BY <1>3 DEF Helping
  <2>6. pc[t] \in Finishing /\ x.i = m.i /\ x.f.back = m.f.back => \A q \in Finishing : Ok(q, x)
    BY <1>3, <2>3 DEF Helping
  <2>7. pc[t] \in Finishing /\ x.i = m.i => Ok(m.f.back, x)
    <3>1. pc[t] \in Finishing /\ x.i = m.i /\ m.f.back = "popWhile" => Ok("popWhile", x)
      BY <2>2 DEF Helping
    <3> QED BY <2>1, <2>4, <3>1
  <2> QED BY <2>4, <2>5, <2>6, <2>7
<1> HIDE DEF Ok, Goal, m
<1>5. ASSUME NEW q, NEW x, Read(t, q, x), Ok(q, x) PROVE Goal
  BY <1>2, <1>5 DEF Read
<1>6. ASSUME NEW q \in Finishing, NEW x, Read(t, q, x), pc[t] \in Finishing, x.i = m.i, x.f.back = m.f.back
       PROVE  Goal
  BY <1>4, <1>5, <1>6
<1>7. ASSUME Scan(t) PROVE Goal
  <2>1. \/ Read(t, "dispatch", m) /\ states[m.i].pending
        \/ \E x : Read(t, "scan", x)
        \/ Read(t, "finish", [m EXCEPT !.i = 0, !.f.back = "popAssert"])
    BY <1>1, <1>7 DEF Scan, Pending, m
  <2>2. Ok("finish", [m EXCEPT !.i = 0, !.f.back = "popAssert"])
    <3> DEFINE x == [m EXCEPT !.i = 0, !.f.back = "popAssert"]
    <3>1. x.f.back = "popAssert"
      BY <1>1 DEF Locals, FinishLocals
    <3>2. "finish" \in Finishing
      BY DEF Finishing
    <3> HIDE DEF x
    <3>3. Ok("finish", x)
      BY <1>3, <3>1, <3>2 DEF Ok, Helping
    <3> QED BY <3>3 DEF x
  <2> QED BY <1>4, <1>5, <2>1, <2>2
<1>8. ASSUME Dispatch(t) PROVE Goal
  BY <1>4, <1>5, <1>8 DEF Dispatch, At, EmptyPlaces, m
<1>9. ASSUME PopHead(t) \/ PopState(t) PROVE Goal
  <2>1. /\ [m EXCEPT !.h.oh = head].i = m.i
        /\ \A a : [m EXCEPT !.h.os = a].i = m.i
    BY <1>1 DEF Locals
  <2> QED BY <1>4, <1>5, <1>9, <2>1 DEF PopHead, PopState, At, EmptyPlaces, m
<1>10. ASSUME PopEmpty(t) PROVE Goal
  BY <1>4, <1>5, <1>10 DEF PopEmpty, IfPending, At, EmptyPlaces, m
<1>11. ASSUME PopWinner(t) PROVE Goal
  <2>1. pc[t] = "popWinner" /\ pc[t] \in EmptyPlaces
    BY <1>11 DEF PopWinner, At, EmptyPlaces
  <2>2. \A a : [m EXCEPT !.h.ow = a].i = m.i
    BY <1>1 DEF Locals
  <2>3. \/ \E a : Read(t, "popCheck", [m EXCEPT !.h.ow = a])
        \/ UNCHANGED <<pc, me>>
    BY <1>11 DEF PopWinner, Crash, m
  <2> QED BY <1>4, <1>5, <2>1, <2>2, <2>3 DEF Goal, m
<1>12. ASSUME PopCheck(t) \/ PopStill(t) PROVE Goal
  <2>1. pc[t] \in HelpPop
    BY <1>12 DEF PopCheck, PopStill, IfPending, At, HelpPop
  <2>2. \A a : CallFinish(m, a).i = m.i
    BY <1>1 DEF Locals, CallFinish
  <2>3. \/ \E q \in {"popWhile", "popClear", "popStill", "popWin"} : Read(t, q, m)
        \/ \E a : Read(t, "finish", CallFinish(m, a))
    BY <1>12 DEF PopCheck, PopStill, IfPending, m
  <2> QED BY <1>3, <1>4, <1>5, <2>1, <2>2, <2>3
<1>13. ASSUME PopWhile(t) PROVE Goal
  <2>1. \/ Read(t, "popHead", [m EXCEPT !.h = NoHelp]) /\ states[m.i].pending
        \/ \E x : Read(t, "scan", x)
    BY <1>13 DEF PopWhile, While, Pending, m
  <2>2. [m EXCEPT !.h = NoHelp].i = m.i
    BY <1>1 DEF Locals
  <2> QED BY <1>4, <1>5, <2>1, <2>2
<1>14. ASSUME Return(t), pc[t] \in Finishing PROVE Goal
  <2> DEFINE x == [m EXCEPT !.f = NoFinish, !.h = NoHelp]
  <2>1. x.i = m.i
    BY <1>1 DEF Locals
  <2>2. Read(t, m.f.back, x)
    BY <1>14 DEF Return, m
  <2> HIDE DEF x
  <2>3. Ok(m.f.back, x)
    BY <1>4, <1>14, <2>1
  <2> QED BY <1>5, <2>2, <2>3
<1>15. ASSUME Again(t), pc[t] \in Finishing PROVE Goal
  <2> DEFINE x == [m EXCEPT !.f = [NoFinish EXCEPT !.back = m.f.back]]
  <2>1. x.i = m.i /\ x.f.back = m.f.back
    BY <1>1 DEF Locals, NoFinish
  <2>2. Read(t, "finish", x)
    BY <1>15 DEF Again, m
  <2>3. "finish" \in Finishing
    BY DEF Finishing
  <2> HIDE DEF x
  <2> QED BY <1>4, <1>5, <1>15, <2>1, <2>2, <2>3
<1>16. ASSUME FinishHead(t) \/ FinishWinner(t) \/ FinishState(t) PROVE Goal
  <2>1. pc[t] \in Finishing /\ "finishWinner" \in Finishing /\ "finishState" \in Finishing /\ "sameHead" \in Finishing
    BY <1>16 DEF FinishHead, FinishWinner, FinishState, At, Finishing
  <2>2. \/ Return(t) \/ UNCHANGED <<pc, me>>
        \/ \E a : Read(t, "finishWinner", [m EXCEPT !.f.oh = a])
        \/ \E a, b : Read(t, "finishState", [m EXCEPT !.f.tid = a, !.f.minus = b])
        \/ \E a : Read(t, "sameHead", [m EXCEPT !.f.os = a])
    BY <1>16 DEF FinishHead, FinishWinner, FinishState, Crash, m
  <2>3. ASSUME NEW a
        PROVE  /\ LET x == [m EXCEPT !.f.oh = a] IN x.i = m.i /\ x.f.back = m.f.back
               /\ LET x == [m EXCEPT !.f.os = a] IN x.i = m.i /\ x.f.back = m.f.back
    BY <1>1 DEF Locals, FinishLocals
  <2>4. ASSUME UNCHANGED <<pc, me>> PROVE Goal
    BY <1>4, <2>1, <2>4 DEF Goal, m
  <2>5. ASSUME NEW a, Read(t, "finishWinner", [m EXCEPT !.f.oh = a]) PROVE Goal
    BY <1>6, <2>1, <2>3, <2>5
  <2>6. ASSUME NEW a, NEW b, Read(t, "finishState", [m EXCEPT !.f.tid = a, !.f.minus = b]) PROVE Goal
    <3> DEFINE x == [m EXCEPT !.f.tid = a, !.f.minus = b]
    <3>1. x.i = m.i /\ x.f.back = m.f.back
      BY <1>1 DEF Locals, FinishLocals
    <3>2. Read(t, "finishState", x)
      BY <2>6
    <3> HIDE DEF x
    <3> QED BY <1>6, <2>1, <3>1, <3>2
  <2>7. ASSUME NEW a, Read(t, "sameHead", [m EXCEPT !.f.os = a]) PROVE Goal
    BY <1>6, <2>1, <2>3, <2>7
  <2> QED BY <1>14, <2>1, <2>2, <2>4, <2>5, <2>6, <2>7
<1>17. ASSUME SameHead(t) \/ SameWinner(t) \/ SameState(t) PROVE Goal
  <2>1. /\ pc[t] \in Finishing
        /\ Again(t) \/ \E q \in Finishing : Read(t, q, m)
    BY <1>17 DEF SameHead, SameWinner, SameState, At, Finishing, FinishPush, FinishPop, m
  <2> QED BY <1>4, <1>5, <1>15, <2>1
<1>18. ASSUME PopNext(t) \/ PopStays(t) PROVE Goal
  <2>1. /\ pc[t] \in Finishing /\ "popStays" \in Finishing
        /\ \/ Return(t) \/ \E q \in Finishing : Read(t, q, m)
           \/ \E a : Read(t, "popStays", [m EXCEPT !.f.nx = a])
    BY <1>18 DEF PopNext, PopStays, At, Finishing, FinishPop, m
  <2>2. \A a : LET x == [m EXCEPT !.f.nx = a] IN x.i = m.i /\ x.f.back = m.f.back
    BY <1>1 DEF Locals, FinishLocals
  <2> QED BY <1>4, <1>5, <1>14, <2>1, <2>2
<1>19. ASSUME PopRead(t) PROVE Goal /\ UNCHANGED <<heap, states>>
  <2>1. Goal
    BY ONLY PopRead(t), <1>7, <1>8, <1>9, <1>10, <1>11, <1>12, <1>13, <1>16, <1>17, <1>18 DEF PopRead
  <2> QED BY <1>19, <2>1, PopReads
<1>20. ASSUME PopWrite(t)
       PROVE  Goal /\ (pc'[t] \in EmptyPlaces => head' = head /\ pc[t] \in EmptyPlaces /\ me'[t].i = m.i)
  <2>1. CASE PopNothing(t)
    <3>1. pc[t] \in EmptyPlaces /\ Goto(t, "popWinner") /\ me' = me /\ head' = head
      BY <2>1 DEF PopNothing, At, EmptyPlaces, heap
    <3> QED BY <1>2, <1>4, <3>1 DEF m
  <2>2. CASE PopWin(t)
    <3>1. pc[t] \in HelpPop
      BY <2>2 DEF PopWin, HelpPop
    <3>2. \E q \in {"popStill", "finish"} : \E x : x.i = m.i /\ Goto(t, q) /\ Keep(t, x)
      <4>1. \A a : CallFinish(m, a).i = m.i /\ [m EXCEPT !.h.ow = a].i = m.i
        BY <1>1 DEF Locals, CallFinish
      <4>2. \/ \E a : Goto(t, "popStill") /\ Keep(t, [m EXCEPT !.h.ow = a])
            \/ \E a : Goto(t, "finish") /\ Keep(t, CallFinish(m, a))
        BY <2>2 DEF PopWin, m
      <4> QED BY <4>1, <4>2
    <3>3. pc'[t] \notin EmptyPlaces
      BY <1>1, <1>3, <3>2 DEF Goto
    <3>4. Goal
      BY <1>2, <1>3, <1>4, <3>1, <3>2
    <3> QED BY <3>3, <3>4
  <2>3. CASE PopFinish(t)
    <3>1. pc[t] \in Finishing /\ "popSwing" \in Finishing /\ Goto(t, "popSwing") /\ me' = me
      BY <2>3 DEF PopFinish, At, Finishing, FinishPop
    <3>2. Goal
      BY <1>2, <1>4, <3>1
    <3>3. pc'[t] \notin EmptyPlaces
      BY <1>1, <1>3, <3>1 DEF Goto
    <3> QED BY <3>2, <3>3
  <2>4. CASE PopSwing(t)
    <3>1. /\ pc[t] \in Finishing /\ Goto(t, m.f.back)
          /\ Keep(t, [m EXCEPT !.f = NoFinish, !.h = NoHelp])
      BY <2>4 DEF PopSwing, At, Finishing, FinishPop, m
    <3>2. [m EXCEPT !.f = NoFinish, !.h = NoHelp].i = m.i
      BY <1>1 DEF Locals
    <3>3. Goal
      BY <1>2, <1>4, <3>1, <3>2
    <3>4. m.f.back \in {"popWhile", "popAssert"}
      BY <1>1, <3>1 DEF PopLocal
    <3>5. pc'[t] \notin EmptyPlaces
      BY <1>1, <1>3, <3>1, <3>4 DEF Goto
    <3> QED BY <3>3, <3>5
  <2> QED BY <1>20, <2>1, <2>2, <2>3, <2>4 DEF PopWrite
<1>21. PopRead(t) \/ PopWrite(t)
  BY PopStep
<1> QED BY <1>19, <1>20, <1>21 DEF Goal, Ok, m, heap

Poppers == {t \in Threads : me[t].kind = "pop"}

\* A pop that helps, or has helped, another one.
ForOther(t) == Helping(pc[t], me[t]) /\ me[t].i # t

\* The pops that have taken no element yet.
Taken(t) == pc[t] \notin Before /\ states[t].node # NULL /\ states[t].node \notin Chain
Untaken == {t \in Poppers : ~Taken(t)}

\* While pops meet, or one still works for another, an element is left over.
Meeting == \E t \in Poppers : ForOther(t) \/ Poppers # {t}
SpareInv == Meeting => Cardinality(Chain) >= 1 + Cardinality(Untaken)

\* A pop that has come to the empty stack has popped nothing.
EmptyPopInv == head = NULL => \A t \in Poppers : pc[t] \in EmptyPlaces => states[t].node = NULL

\* The sets that are counted are finite.
LEMMA Counted ==
  ASSUME Sound
  PROVE  /\ IsFiniteSet(Chain) /\ Cardinality(Chain) \in Nat
         /\ IsFiniteSet(Poppers) /\ Cardinality(Poppers) \in Nat
         /\ IsFiniteSet(Untaken) /\ Cardinality(Untaken) \in Nat
         /\ Cardinality(Untaken) <= Cardinality(Poppers)
<1>1. IsFiniteSet(Nodes) /\ IsFiniteSet(Threads)
  BY FS_Interval, StackAssumption DEF Nodes, Threads
<1>2. Chain \subseteq Nodes
  BY ChainTyped DEF Sound, StackInv
<1>3. Poppers \subseteq Threads /\ Untaken \subseteq Poppers
  BY DEF Poppers, Untaken
<1>4. IsFiniteSet(Chain) /\ IsFiniteSet(Poppers)
  BY <1>1, <1>2, <1>3, FS_Subset
<1>5. IsFiniteSet(Untaken) /\ Cardinality(Untaken) <= Cardinality(Poppers)
  BY <1>3, <1>4, FS_Subset
<1> QED BY <1>4, <1>5, FS_CardinalityType

\* A step that changes neither the chain nor adds a pop keeps what is left over.
LEMMA SpareStays ==
  ASSUME Sound, SpareInv, Meeting' => Meeting, Chain' = Chain, Untaken' \subseteq Untaken
  PROVE  SpareInv'
<1>1. /\ IsFiniteSet(Untaken') /\ Cardinality(Untaken') <= Cardinality(Untaken)
      /\ Cardinality(Chain) \in Nat /\ Cardinality(Untaken) \in Nat
  BY Counted, FS_Subset
<1>2. Cardinality(Untaken') \in Nat
  BY <1>1, FS_CardinalityType
<1>3. Meeting' => Cardinality(Chain) >= 1 + Cardinality(Untaken')
  BY <1>1, <1>2 DEF SpareInv
<1> QED BY <1>3 DEF SpareInv

\* Without pops there is nothing to say.
LEMMA SpareAlone ==
  ASSUME \A t \in Threads : me'[t].kind # "pop"
  PROVE  SpareInv' /\ EmptyPopInv'
<1>1. Poppers' = {}
  BY DEF Poppers
<1> QED BY <1>1 DEF SpareInv, EmptyPopInv, Meeting

\* A pending operation is that of a pop, if one is under way.
LEMMA PendingPops ==
  ASSUME Sound, "push" \notin Overlap, NEW t \in Poppers, NEW v \in Threads, states[v].pending
  PROVE  v \in Poppers /\ pc[v] \notin Before /\ states[v].node = NULL
<1>1. pc[v] \notin Before
  BY DEF Sound, HelpInv, SlotsSeen
<1>2. me[v].kind \in {"push", "pop"}
  BY <1>1, HasKind DEF Sound, Before
<1>3. me[v].kind = "pop"
  BY <1>2, PopsOnly DEF Poppers
<1> QED BY <1>1, <1>3 DEF Poppers, Sound, StackInv, TakenInv

\* Helping keeps what is left over.
LEMMA SpareHelp ==
  ASSUME Sound, TypeInv', "push" \notin Overlap, SpareInv, NEW t \in Poppers, Help(t) \/ Finish(t)
  PROVE  SpareInv' /\ Poppers' = Poppers
<1>1. /\ TypeInv /\ LinkInv /\ WinnerInv /\ TakenInv /\ t \in Threads /\ me[t].kind = "pop"
      /\ states \in [Threads -> Descriptors] /\ head \in Links
      /\ \A u \in Threads : me[u].kind # "push"
  BY PopsOnly DEF Sound, StackInv, Poppers, TypeInv
<1>2. /\ \A u \in Threads \ {t} : pc'[u] = pc[u] /\ me'[u] = me[u]
      /\ \A u \in Threads : me'[u].kind = me[u].kind /\ (pc'[u] \in Before <=> pc[u] \in Before)
  BY <1>1, HelpLeaves
<1>3. Poppers' = Poppers
  BY <1>2 DEF Poppers
<1>4. Meeting' => Meeting
  <2> SUFFICES ASSUME NEW u \in Poppers, ForOther(u)' \/ Poppers' # {u}, Poppers = {u} PROVE ForOther(u)
    BY <1>3 DEF Meeting
  <2>1. ForOther(u)' /\ u = t
    BY <1>3
  <2> DEFINE x == me'[t]
  <2>2. Helping(pc'[t], x) /\ x.i # t
    BY <2>1 DEF ForOther
  <2>3. LocalsOK(pc'[t], x)
    BY <1>1 DEF TypeInv
  <2>4. x.i \in Threads
    BY <2>2, <2>3 DEF Helping, LocalsOK, HelpPop
  <2>5. ~states[x.i].pending
    BY <2>1, <2>2, <2>4, PendingPops
  <2>6. Helping(pc[t], me[t]) /\ x.i = me[t].i
    BY <1>1, <2>2, <2>5, PopTargets
  <2> QED BY <2>1, <2>2, <2>6 DEF ForOther
<1>5. PopEffect
  BY <1>1, PopStep
<1>6. CASE UNCHANGED <<heap, states, grace>>
  <2>1. Chain' = Chain /\ states' = states
    BY <1>6, ChainStays DEF heap
  <2>2. Untaken' \subseteq Untaken
    BY <1>2, <1>3, <2>1 DEF Untaken, Taken, Poppers
  <2> QED BY <1>3, <1>4, <2>1, <2>2, SpareStays
<1>7. ASSUME NEW v \in Threads, HeadWon(v) PROVE SpareInv'
  <2>1. Chain' = Chain /\ states' = states
    BY <1>7, ChainStays DEF HeadWon
  <2>2. Untaken' \subseteq Untaken
    BY <1>2, <1>3, <2>1 DEF Untaken, Taken, Poppers
  <2> QED BY <1>4, <2>1, <2>2, SpareStays
<1>8. ASSUME NEW v \in Threads, OpFinished(v) PROVE SpareInv'
  <2>1. Chain' = Chain /\ \A u \in Threads \ {v} : states'[u] = states[u]
    BY <1>1, <1>8, ChainStays DEF OpFinished, heap
  <2>2. states[v].node = NULL
    BY <1>8, PendingPops DEF OpFinished
  <2>3. Untaken' \subseteq Untaken
    BY <1>2, <1>3, <2>1, <2>2 DEF Untaken, Taken, Poppers
  <2> QED BY <1>4, <2>1, <2>3, SpareStays
<1>9. ASSUME NEW v \in Threads, HeadPopped(v) PROVE SpareInv'
  <2>1. /\ Chain' = Chain \ {head} /\ states' = states /\ head # NULL /\ head \in Chain
    BY <1>1, <1>9, ChainPopped, ChainTyped DEF HeadPopped
  <2>2. /\ winner[head] = v /\ ~states[v].pending /\ v # 0
    BY <1>9 DEF HeadPopped, Threads
  <2>3. states[v].node = head /\ v \in Poppers /\ pc[v] \notin Before
    BY <1>1, <2>1, <2>2 DEF WinnerInv, Poppers
  <2>4. v \in Untaken /\ v \notin Untaken'
    BY <1>2, <1>3, <2>1, <2>3 DEF Untaken, Taken, Poppers
  <2>5. Untaken' \subseteq Untaken \ {v}
    <3>1. ASSUME NEW u \in Untaken' PROVE u \in Untaken
      BY <1>2, <1>3, <2>1 DEF Untaken, Taken, Poppers
    <3> QED BY <2>4, <3>1
  <2>6. /\ IsFiniteSet(Chain) /\ Cardinality(Chain) \in Nat
        /\ IsFiniteSet(Untaken) /\ Cardinality(Untaken) \in Nat
    BY Counted
  <2>7. Cardinality(Chain') = Cardinality(Chain) - 1
    BY <2>1, <2>6, FS_RemoveElement
  <2>8. IsFiniteSet(Untaken \ {v}) /\ Cardinality(Untaken \ {v}) = Cardinality(Untaken) - 1
    BY <2>4, <2>6, FS_RemoveElement
  <2>9. IsFiniteSet(Untaken') /\ Cardinality(Untaken') <= Cardinality(Untaken \ {v})
    BY <2>5, <2>8, FS_Subset
  <2>10. Cardinality(Untaken') \in Nat
    BY <2>9, FS_CardinalityType
  <2>11. Meeting' => Cardinality(Chain') >= 1 + Cardinality(Untaken')
    BY <1>4, <2>6, <2>7, <2>8, <2>9, <2>10 DEF SpareInv
  <2> QED BY <2>11 DEF SpareInv
<1> QED BY <1>3, <1>5, <1>6, <1>7, <1>8, <1>9 DEF PopEffect

\* On an empty stack a pop is by itself.
LEMMA EmptyAlone ==
  ASSUME Sound, SpareInv, head = NULL, NEW t \in Poppers
  PROVE  Poppers = {t} /\ ~ForOther(t)
<1>1. Chain = {} /\ Cardinality(Chain) = 0
  BY ReachNothing, ChainIs, FS_EmptySet
<1>2. ~Meeting
  BY <1>1, Counted DEF SpareInv
<1> QED BY <1>2 DEF Meeting

\* No step of help() or finish() brings a pop that has an element to the empty stack.
LEMMA EmptyHelp ==
  ASSUME Sound, Sound', "push" \notin Overlap, SpareInv, EmptyPopInv, NEW t \in Poppers, Help(t) \/ Finish(t)
  PROVE  EmptyPopInv'
<1>1. /\ TypeInv /\ LinkInv /\ WinnerInv /\ TakenInv /\ t \in Threads /\ me[t].kind = "pop"
      /\ states \in [Threads -> Descriptors]
      /\ \A u \in Threads : me[u].kind # "push"
  BY PopsOnly DEF Sound, StackInv, Poppers, TypeInv
<1>2. SpareInv' /\ Poppers' = Poppers
  BY SpareHelp DEF Sound
<1> SUFFICES ASSUME head' = NULL, NEW u \in Poppers, pc'[u] \in EmptyPlaces PROVE states'[u].node = NULL
  BY <1>2 DEF EmptyPopInv
<1>3. Poppers = {u} /\ ~ForOther(u)'
  <2>1. Chain' = {} /\ Cardinality(Chain') = 0
    BY ReachNothing, ChainIs, FS_EmptySet
  <2>2. Cardinality(Untaken') \in Nat
    <3>1. Untaken' \subseteq Poppers
      BY <1>2 DEF Untaken
    <3> QED BY <3>1, Counted, FS_Subset, FS_CardinalityType
  <2>3. ~Meeting'
    BY <1>2, <2>1, <2>2 DEF SpareInv
  <2> QED BY <1>2, <2>3 DEF Meeting
<1>4. u = t /\ ~(Helping(pc'[t], me'[t]) /\ me'[t].i # t)
  BY <1>3 DEF ForOther
<1>5. Helping(pc'[t], me'[t])
  BY <1>4 DEF Helping, EmptyPlaces, HelpPop
<1>6. me'[t].i = t
  BY <1>4, <1>5
<1>7. head' = head /\ (pc[t] \in EmptyPlaces \/ (states' = states /\ states[t].pending))
  BY <1>1, <1>4, <1>6, PopTargets
<1>8. CASE states' = states /\ states[t].pending
  BY <1>1, <1>4, <1>8, PendingPops
<1>9. CASE pc[t] \in EmptyPlaces
  <2>1. head = NULL /\ states[t].node = NULL
    BY <1>4, <1>7, <1>9 DEF EmptyPopInv
  <2>2. PopEffect
    BY <1>1, PopStep
  <2>3. ASSUME NEW v \in Threads, OpFinished(v) PROVE states'[t].node = NULL
    <3>1. CASE v = t
      <4>1. states'[t] = Finished(states[t], FALSE, head) /\ states[t] \in Descriptors
        BY <1>1, <2>3, <3>1 DEF OpFinished
      <4> QED BY <2>1, <4>1 DEF Finished, Descriptors
    <3>2. CASE v # t
      BY <1>1, <2>1, <2>3, <3>2 DEF OpFinished
    <3> QED BY <3>1, <3>2
  <2>4. ASSUME NEW v \in Threads, HeadWon(v) \/ HeadPopped(v) PROVE FALSE
    BY <2>1, <2>4 DEF HeadWon, HeadPopped
  <2> QED BY <1>4, <2>1, <2>2, <2>3, <2>4 DEF PopEffect
<1> QED BY <1>7, <1>8, <1>9

\* The other steps of a pop.
LEMMA SpareQuiet ==
  ASSUME Sound, SpareInv, EmptyPopInv, NEW t \in Poppers, NEW q, NEW x, Moves(t, q, x), x.kind = "pop",
         UNCHANGED <<head, next>>, ~Helping(q, x), q \notin Before \/ states' = states,
         \A u \in Threads \ {t} : states'[u] = states[u],
         (pc[t] \notin Before /\ q \notin Before /\ states' = states)
           \/ pc[t] \in Before
  PROVE  SpareInv' /\ EmptyPopInv'
<1>1. /\ t \in Threads /\ pc'[t] = q /\ me'[t] = x /\ \A u \in Threads \ {t} : pc'[u] = pc[u] /\ me'[u] = me[u]
      /\ Chain' = Chain /\ head' = head
  BY ChainStays DEF Moves, Poppers
<1>2. Poppers' = Poppers
  BY <1>1 DEF Poppers
<1>3. Meeting' => Meeting
  BY <1>1, <1>2 DEF Meeting, ForOther, Poppers
<1>4. Untaken' \subseteq Untaken
  BY <1>1, <1>2 DEF Untaken, Taken, Poppers
<1>5. q \notin EmptyPlaces
  BY DEF EmptyPlaces, Helping, HelpPop
<1>6. EmptyPopInv'
  BY <1>1, <1>2, <1>5 DEF EmptyPopInv, Poppers
<1> QED BY <1>1, <1>3, <1>4, <1>6, SpareStays

\* A pop that returns takes nothing from the others.
LEMMA SpareLeave ==
  ASSUME Sound, SpareInv, EmptyPopInv, NEW t \in Poppers, Moves(t, "idle", Idle), UNCHANGED <<heap, states>>
  PROVE  SpareInv' /\ EmptyPopInv'
<1>1. /\ t \in Threads /\ me'[t] = Idle /\ \A u \in Threads \ {t} : pc'[u] = pc[u] /\ me'[u] = me[u]
      /\ Chain' = Chain /\ head' = head /\ states' = states /\ Idle.kind = "none"
  BY ChainStays DEF Moves, Poppers, heap, Idle
<1>2. Poppers' = Poppers \ {t}
  BY <1>1 DEF Poppers
<1>3. Meeting' => Meeting
  BY <1>2 DEF Meeting
<1>4. Untaken' \subseteq Untaken
  BY <1>1, <1>2 DEF Untaken, Taken, Poppers
<1>5. EmptyPopInv'
  BY <1>1, <1>2 DEF EmptyPopInv, Poppers
<1> QED BY <1>1, <1>3, <1>4, <1>5, SpareStays

\* A pop that meets others starts with elements enough.
LEMMA SpareCall ==
  ASSUME Sound, "push" \notin Overlap, "pop" \in Overlap => Spare >= 2, SpareInv, EmptyPopInv,
         NEW t \in Threads, CallPop(t)
  PROVE  SpareInv' /\ EmptyPopInv'
<1> DEFINE x == me'[t]
<1>1. /\ Moves(t, "loadPhase", x) /\ x.kind = "pop" /\ UNCHANGED <<heap, states>>
      /\ me[t].kind = "none" /\ \A u \in Threads : me[u].kind # "push"
  BY CallBegins DEF CallPop, Sound
<1>2. /\ pc'[t] = "loadPhase" /\ \A u \in Threads \ {t} : pc'[u] = pc[u] /\ me'[u] = me[u]
      /\ Chain' = Chain /\ head' = head /\ states' = states
  BY <1>1, ChainStays DEF Moves, heap
<1>3. Poppers' = Poppers \cup {t} /\ t \notin Poppers
  BY <1>1, <1>2 DEF Poppers
<1>4. "loadPhase" \notin EmptyPlaces /\ ~Helping("loadPhase", x)
  BY DEF EmptyPlaces, Helping, HelpPop, Finishing, FinishPush, FinishPop
<1> HIDE DEF x
<1>5. EmptyPopInv'
  BY <1>2, <1>3, <1>4 DEF EmptyPopInv, Poppers
<1>6. CASE Poppers = {}
  <2>1. Poppers' = {t} /\ ~ForOther(t)'
    BY <1>2, <1>3, <1>4, <1>6 DEF ForOther, x
  <2> QED BY <1>5, <2>1 DEF SpareInv, Meeting
<1>7. CASE Poppers # {}
  <2>1. {u \in Threads : me[u].kind # "none"} = Poppers
    <3>1. \A u \in Threads : me[u].kind \in {"none", "push", "pop"}
      BY HasLocals DEF Sound, Locals
    <3> QED BY <1>1, <3>1 DEF Poppers
  <2>2. MayPop /\ MayStart("pop")
    BY DEF CallPop, Begin
  <2>3. Cardinality(Chain) >= Spare + Cardinality(Poppers)
    BY <1>7, <2>1, <2>2 DEF MayPop
  <2>4. "pop" \in Overlap
    BY <1>7, <2>2 DEF MayStart, Poppers
  <2>5. Untaken' \subseteq Poppers \cup {t}
    BY <1>3 DEF Untaken
  <2>6. /\ IsFiniteSet(Poppers) /\ Cardinality(Poppers) \in Nat /\ Cardinality(Chain) \in Nat
        /\ Spare \in Nat
    BY Counted, StackAssumption
  <2>7. IsFiniteSet(Poppers \cup {t}) /\ Cardinality(Poppers \cup {t}) = Cardinality(Poppers) + 1
    BY <1>3, <2>6, FS_AddElement
  <2>8. IsFiniteSet(Untaken') /\ Cardinality(Untaken') <= Cardinality(Poppers) + 1
    BY <2>5, <2>7, FS_Subset
  <2>9. Cardinality(Untaken') \in Nat
    BY <2>8, FS_CardinalityType
  <2>10. Cardinality(Chain') >= 1 + Cardinality(Untaken')
    BY <1>2, <2>3, <2>4, <2>6, <2>8, <2>9
  <2> QED BY <1>5, <2>10 DEF SpareInv
<1> QED BY <1>6, <1>7

\* Every step keeps what is left over.
LEMMA SpareStep ==
  ASSUME Sound, Sound', "push" \notin Overlap, "pop" \in Overlap => Spare >= 2,
         SpareInv, EmptyPopInv, [Next]_vars
  PROVE  SpareInv' /\ EmptyPopInv'
<1> DEFINE Goal == SpareInv' /\ EmptyPopInv'
<1>1. TypeInv /\ DOMAIN pc = Threads /\ DOMAIN me = Threads
  BY DEF Sound, TypeInv
<1>2. ASSUME UNCHANGED <<heap, states, pc, me>> PROVE Goal
  <2>1. Chain' = Chain /\ head' = head /\ states' = states /\ pc' = pc /\ me' = me
    BY <1>2, ChainStays DEF heap
  <2>2. Poppers' = Poppers /\ Untaken' = Untaken /\ (Meeting' <=> Meeting)
    BY <2>1 DEF Poppers, Untaken, Taken, Meeting, ForOther
  <2> QED BY <2>1, <2>2 DEF SpareInv, EmptyPopInv
<1>3. ASSUME UNCHANGED vars \/ Destroy PROVE Goal
  BY <1>2, <1>3 DEF vars, Destroy
<1>4. ASSUME NEW t \in Threads, CallPush(t) PROVE Goal
  <2>1. Begin(t, "push", pushes + 1)
    BY <1>4 DEF CallPush
  <2>2. Moves(t, "loadPhase", me'[t]) /\ me'[t].kind = "push" /\ \A u \in Threads : me[u].kind = "none"
    BY <1>1, <2>1, CallBegins
  <2>3. \A u \in Threads : me'[u].kind # "pop"
    BY <2>2 DEF Moves
  <2> QED BY <2>3, SpareAlone
<1>5. ASSUME NEW t \in Threads, CallPop(t) PROVE Goal
  BY <1>5, SpareCall
<1>6. ASSUME NEW t \in Threads, pc[t] # "idle", me[t].kind = "push", me'[t].kind # "pop",
             \A u \in Threads \ {t} : me'[u] = me[u]
      PROVE  Goal
  <2>1. \A u \in Threads : me'[u].kind # "pop"
    BY <1>6, PushAlone
  <2> QED BY <2>1, SpareAlone
<1>7. ASSUME NEW t \in Threads, Help(t) \/ Finish(t) PROVE Goal
  <2>1. me[t].kind \in {"push", "pop"} /\ pc[t] # "idle"
    BY <1>1, <1>7, HelpPlaces, HasKind DEF Before
  <2>2. /\ \A u \in Threads \ {t} : me'[u] = me[u]
        /\ me'[t].kind = me[t].kind
    BY <1>1, <1>7, HelpLeaves
  <2>3. CASE me[t].kind = "push"
    BY <1>6, <2>1, <2>2, <2>3
  <2>4. CASE me[t].kind = "pop"
    <3>1. t \in Poppers /\ TypeInv'
      BY <2>4 DEF Poppers, Sound
    <3> QED BY <1>7, <3>1, SpareHelp, EmptyHelp
  <2> QED BY <2>1, <2>3, <2>4
<1>8. ASSUME NEW t \in Threads, LoadPhase(t) \/ ReadPhase(t) \/ LoadOld(t) PROVE Goal
  <2> DEFINE x == me'[t]
             q == pc'[t]
  <2>1. /\ Moves(t, q, x) /\ pc[t] \in Before \ {"idle"} /\ q \in Before \ {"idle"}
        /\ x.kind = me[t].kind /\ UNCHANGED <<heap, states>>
    BY <1>1, <1>8, PhaseMoves
  <2>2. me[t].kind \in {"push", "pop"}
    BY <1>1, <2>1, HasKind
  <2>3. ~Helping(q, x)
    BY <2>1 DEF Helping, Before, HelpPop, Finishing, FinishPush, FinishPop
  <2> HIDE DEF x, q
  <2>4. CASE me[t].kind = "push"
    <3>1. me'[t].kind # "pop" /\ \A u \in Threads \ {t} : me'[u] = me[u]
      BY <2>1, <2>4 DEF Moves
    <3> QED BY <1>6, <2>1, <2>4, <3>1
  <2>5. CASE me[t].kind = "pop"
    <3>1. t \in Poppers
      BY <2>5 DEF Poppers
    <3> QED BY <2>1, <2>3, <2>5, <3>1, SpareQuiet DEF heap
  <2> QED BY <2>2, <2>4, <2>5
<1>9. ASSUME NEW t \in Threads, Announce(t) PROVE Goal
  <2> DEFINE m == me[t]
             less == IF m.kind = "push" THEN m.phase ELSE m.phase - 1
             x == [m EXCEPT !.ahead = {states[u] : u \in {v \in Threads : Pending(v, m.phase)}},
                            !.less = less, !.i = 1]
  <2>1. pc[t] = "announce" /\ m \in Locals
    BY <1>1, <1>9, HasLocals DEF Announce, At
  <2>2. states[t] = m.old
    BY <2>1 DEF Sound, MeetInv, OldInv, MeetsPush
  <2>3. PICK d : states' = [states EXCEPT ![t] = d] /\ Goto(t, "scan") /\ Keep(t, x) /\ UNCHANGED heap
    BY <1>9, <2>2 DEF Announce
  <2>4. Moves(t, "scan", x) /\ \A u \in Threads \ {t} : states'[u] = states[u]
    BY <1>1, <2>3 DEF Goto, Keep, Moves, TypeInv
  <2>5. x.kind = m.kind
    BY <2>1 DEF Locals
  <2>6. me[t].kind \in {"push", "pop"} /\ pc[t] # "idle" /\ pc[t] \in Before
    BY <1>1, <2>1, HasKind DEF Before
  <2> HIDE DEF x
  <2>7. ~Helping("scan", x) /\ "scan" \notin Before
    BY DEF Helping, Before, HelpPop, Finishing, FinishPush, FinishPop
  <2>8. CASE m.kind = "push"
    <3>1. me'[t].kind # "pop" /\ \A u \in Threads \ {t} : me'[u] = me[u]
      BY <2>4, <2>5, <2>8 DEF Moves
    <3> QED BY <1>6, <2>6, <2>8, <3>1
  <2>9. CASE m.kind = "pop"
    <3>1. t \in Poppers
      BY <2>9 DEF Poppers
    <3> QED BY <2>3, <2>4, <2>5, <2>6, <2>7, <2>9, <3>1, SpareQuiet DEF heap
  <2> QED BY <2>6, <2>8, <2>9
<1>10. ASSUME NEW t \in Threads, PushNext(t) \/ PushClear(t) PROVE Goal
  <2>1. me[t].kind = "push" /\ pc[t] # "idle" /\ me[t] \in Locals
    BY <1>1, <1>10, HasLocals DEF PushNext, PushClear, At, LocalsOK
  <2>2. /\ \/ me'[t] = [me[t] EXCEPT !.f.nx = next[head]]
           \/ me'[t] = Idle
        /\ \A u \in Threads \ {t} : me'[u] = me[u]
    BY <1>10, <2>1, PushEnds DEF Moves
  <2>3. me'[t].kind # "pop"
    BY <2>1, <2>2 DEF Idle, Locals
  <2> QED BY <1>6, <2>1, <2>2, <2>3
<1>11. ASSUME NEW t \in Threads, PopAssert(t) \/ PopReturn(t) PROVE Goal
  <2>1. pc[t] \in {"popAssert", "popReturn"} /\ pc[t] \in Ends /\ pc[t] \notin Before
    BY <1>11 DEF PopAssert, PopReturn, At, Ends, Before
  <2>2. me[t].kind = "pop" /\ t \in Poppers
    <3>1. me[t].kind \in {"push", "pop"}
      BY <1>1, <2>1, HasKind DEF Before
    <3>2. me[t].kind = "push" => PushLocal(t, pc[t], me[t], head, Chain, next, winner, states)
      BY PushAlone
    <3> QED BY <2>1, <3>1, <3>2 DEF PushLocal, Poppers
  <2>3. ~states[t].pending
    BY <2>1, <2>2, PopEnds
  <2>4. CASE PopAssert(t)
    <3>1. Read(t, "popReturn", me[t])
      BY <2>3, <2>4 DEF PopAssert
    <3>2. Moves(t, "popReturn", me[t]) /\ UNCHANGED <<heap, states>>
      BY <1>1, <3>1 DEF Read, Goto, Keep, Moves
    <3>3. ~Helping("popReturn", me[t]) /\ "popReturn" \notin Before
      BY DEF Helping, Before, HelpPop, Finishing, FinishPush, FinishPop
    <3> QED BY <2>1, <2>2, <3>2, <3>3, SpareQuiet DEF heap
  <2>5. CASE PopReturn(t)
    <3>1. Moves(t, "idle", Idle) /\ UNCHANGED <<heap, states>>
      BY <1>1, <2>5 DEF PopReturn, Leave, Goto, Keep, Moves, heap
    <3> QED BY <2>2, <3>1, SpareLeave
  <2> QED BY <1>11, <2>4, <2>5
<1> HIDE DEF Goal
<1>12. Goal
  BY ONLY [Next]_vars, <1>3, <1>4, <1>5, <1>7, <1>8, <1>9, <1>10, <1>11 DEF Next, Step
<1> QED BY <1>12 DEF Goal

LEMMA SpareInit == Init => SpareInv /\ EmptyPopInv
<1> SUFFICES ASSUME Init PROVE SpareInv /\ EmptyPopInv
  OBVIOUS
<1>1. Poppers = {}
  BY DEF Init, Idle, Poppers
<1> QED BY <1>1 DEF SpareInv, EmptyPopInv, Meeting

\* The process stops at a pop that is alone with an empty stack.
LEMMA StopsAlone ==
  ASSUME Sound, "push" \notin Overlap, SpareInv, EmptyPopInv, NEW t \in Threads, me[t].kind = "pop",
         pc[t] = "popWinner", me[t].h.oh = NULL
  PROVE  head = NULL /\ states[t].node = NULL /\ \A u \in Threads \ {t} : pc[u] = "idle"
<1>1. Passed(NULL, head, Chain, winner)
  BY DEF Sound, StackInv, LocalInv, Local, PopLocal, PopHolds
<1>2. head = NULL
  BY <1>1 DEF Passed, Nodes, NULL
<1>3. t \in Poppers
  BY DEF Poppers
<1>4. Poppers = {t}
  BY <1>2, <1>3, EmptyAlone
<1>5. states[t].node = NULL
  BY <1>2, <1>3 DEF EmptyPopInv, EmptyPlaces
<1>6. ASSUME NEW u \in Threads \ {t} PROVE pc[u] = "idle"
  <2>1. me[u].kind \notin {"push", "pop"}
    BY <1>4, PopsOnly DEF Poppers
  <2> QED BY <2>1, HasKind DEF Sound
<1> QED BY <1>2, <1>5, <1>6

\* The invariants about the elements that are left.
LEMMA EmptyPopsHold ==
  "push" \notin Overlap /\ ("pop" \in Overlap => Spare >= 2) =>
    (Spec => [](Sound /\ SpareInv /\ EmptyPopInv))
<1> SUFFICES ASSUME "push" \notin Overlap, "pop" \in Overlap => Spare >= 2
             PROVE  Spec => [](Sound /\ SpareInv /\ EmptyPopInv)
  OBVIOUS
<1>1. Sound /\ Sound' /\ SpareInv /\ EmptyPopInv /\ [Next]_vars => (SpareInv /\ EmptyPopInv)'
  BY SpareStep
<1> QED BY <1>1, SpareInit, SoundHolds, PTL DEF Spec

\* Pops that meet, and pushes and pops that do not, read nothing through NULL or a
\* negative index, retire nothing twice and fail no assert(); but for one case: a pop
\* that is alone with an empty stack reads through the NULL head where it should throw.
\* A pop that meets others must find two elements more than they can take.
THEOREM OnlyEmptyPopsCrash ==
  "push" \notin Overlap /\ ("pop" \in Overlap => Spare >= 2) => (Spec => []OnlyEmptyPopCrashes)
<1> SUFFICES ASSUME "push" \notin Overlap, "pop" \in Overlap => Spare >= 2
             PROVE  Spec => []OnlyEmptyPopCrashes
  OBVIOUS
<1> DEFINE Known == Sound /\ SpareInv /\ EmptyPopInv
<1>1. Spec => []Known
  BY EmptyPopsHold DEF Known
<1>2. Init => OnlyEmptyPopCrashes
  BY DEF Init, OnlyEmptyPopCrashes
<1>3. Known /\ OnlyEmptyPopCrashes /\ [Next]_vars => OnlyEmptyPopCrashes'
  <2> SUFFICES ASSUME Known, OnlyEmptyPopCrashes, [Next]_vars PROVE OnlyEmptyPopCrashes'
    OBVIOUS
  <2>1. CASE crashed # "none"
    <3>1. UNCHANGED vars
      BY <2>1, Stopped
    <3> QED BY <3>1 DEF vars, heap, bookkeeping, OnlyEmptyPopCrashes
  <2>2. CASE crashed = "none" /\ crashed' = crashed
    BY <2>2 DEF OnlyEmptyPopCrashes
  <2>3. ASSUME crashed' = "nullHead", UNCHANGED <<heap, states, pc, me, grace>>, NEW t \in Threads,
               me[t].kind = "pop", pc[t] = "popWinner", me[t].h.oh = NULL
        PROVE  OnlyEmptyPopCrashes'
    <3>1. head = NULL /\ states[t].node = NULL /\ \A u \in Threads \ {t} : pc[u] = "idle"
      BY <2>3, StopsAlone
    <3>2. head' = NULL /\ pc' = pc /\ states' = states
      BY <2>3, <3>1 DEF heap
    <3> QED BY <2>3, <3>1, <3>2 DEF OnlyEmptyPopCrashes
  <2> QED BY <2>1, <2>2, <2>3, StopsAtNull
<1> QED BY <1>1, <1>2, <1>3, PTL DEF Spec

-------------------------------------------------------------------------------
(* The elements from the top down.                                         *)

ListIn(at, hd, nx, m) == at = [k \in 1..m |-> IF k = 1 THEN hd ELSE nx[at[k-1]]]

List(hd, nx) ==
  LET at[k \in 1..MaxPush] == IF k = 1 THEN hd ELSE nx[at[k-1]]
  IN  [k \in 1..Cardinality(Reach({hd}, nx)) |-> at[k]]

\* Items lists the chain from the head.
LEMMA ItemsAre ==
  /\ Items = List(head, next)
  /\ Items' = List(head', next')
  BY ChainIs DEF Items, List

\* The function by which Items is defined exists.
LEMMA ListDefined ==
  ASSUME NEW hd, NEW nx
  PROVE  \E at : /\ ListIn(at, hd, nx, MaxPush)
                 /\ List(hd, nx) = [k \in 1..Cardinality(Reach({hd}, nx)) |-> at[k]]
<1> DEFINE S == {m \in Nat : \E at : ListIn(at, hd, nx, m)}
<1>1. 0 \in S
  <2> DEFINE at == [k \in 1..0 |-> hd]
             h == [k \in 1..0 |-> IF k = 1 THEN hd ELSE nx[at[k-1]]]
  <2>1. at = h
    OBVIOUS
  <2> QED BY <2>1 DEF ListIn
<1>2. ASSUME NEW m \in S PROVE m + 1 \in S
  <2>1. PICK at : ListIn(at, hd, nx, m)
    OBVIOUS
  <2>2. m \in Nat
    OBVIOUS
  <2> DEFINE last == IF m = 0 THEN hd ELSE nx[at[m]]
             g == [k \in 1..m+1 |-> IF k = m + 1 THEN last ELSE at[k]]
             h == [k \in 1..m+1 |-> IF k = 1 THEN hd ELSE nx[g[k-1]]]
  <2>3. \A k \in 1..m : at[k] = IF k = 1 THEN hd ELSE nx[at[k-1]]
    BY <2>1, <2>2 DEF ListIn
  <2>4. (\A k \in 1..m : g[k] = at[k]) /\ g[m+1] = last
    BY <2>2
  <2>5. ASSUME NEW k \in 1..m+1 PROVE g[k] = h[k]
    <3>1. CASE k = 1
      <4>1. h[k] = hd
        BY <2>2, <3>1
      <4>2. CASE m = 0
        BY <2>4, <3>1, <4>1, <4>2
      <4>3. CASE m # 0
        <5>1. 1 \in 1..m
          BY <2>2, <4>3
        <5> HIDE DEF g
        <5> QED BY <2>3, <2>4, <3>1, <4>1, <5>1
      <4> QED BY <4>2, <4>3
    <3>2. CASE k # 1
      <4>1. k - 1 \in 1..m /\ m # 0 /\ g[k-1] = at[k-1]
        BY <2>2, <2>4, <3>2
      <4> HIDE DEF g
      <4>2. h[k] = nx[g[k-1]]
        BY <3>2
      <4>3. CASE k = m + 1
        <5>1. k - 1 = m
          BY <2>2, <4>3
        <5> QED BY <2>4, <4>1, <4>2, <4>3, <5>1
      <4>4. CASE k # m + 1
        <5>1. k \in 1..m
          BY <2>2, <4>4
        <5> QED BY <2>3, <2>4, <3>2, <4>1, <4>2, <5>1
      <4> QED BY <4>3, <4>4
    <3> QED BY <3>1, <3>2
  <2>6. g = h
    <3>1. g = [k \in 1..m+1 |-> g[k]] /\ h = [k \in 1..m+1 |-> h[k]]
      OBVIOUS
    <3> HIDE DEF g, h
    <3> QED BY <2>5, <3>1
  <2>7. ListIn(g, hd, nx, m + 1)
    BY <2>6 DEF ListIn
  <2> QED BY <2>2, <2>7
<1> HIDE DEF S
<1>3. MaxPush \in S
  BY <1>1, <1>2, SetInduction, StackAssumption
<1>4. PICK a : ListIn(a, hd, nx, MaxPush)
  BY <1>3 DEF S
<1> DEFINE at == CHOOSE r : ListIn(r, hd, nx, MaxPush)
<1>5. ListIn(at, hd, nx, MaxPush)
  BY <1>4
<1>6. List(hd, nx) = [k \in 1..Cardinality(Reach({hd}, nx)) |-> at[k]]
  BY DEF List, ListIn
<1> QED BY <1>5, <1>6

\* An empty stack has no items.
LEMMA ListEmpty ==
  ASSUME NEW nx
  PROVE  List(NULL, nx) = <<>>
<1>1. Cardinality(Reach({NULL}, nx)) = 0
  BY ReachNothing, FS_EmptySet
<1>2. PICK at : List(NULL, nx) = [k \in 1..0 |-> at[k]]
  BY <1>1, ListDefined
<1> QED BY <1>2

\* The list of n is n and then the list of its successor.
LEMMA ListFirst ==
  ASSUME NEW n \in Nodes, NEW nx, Downward(nx)
  PROVE  LET rest == List(nx[n], nx) IN
         /\ List(n, nx) = <<n>> \o rest
         /\ List(n, nx) # <<>> /\ Head(List(n, nx)) = n /\ Tail(List(n, nx)) = rest
<1> DEFINE A == Reach({n}, nx)
           B == Reach({nx[n]}, nx)
           c == Cardinality(B)
           rest == List(nx[n], nx)
           all == List(n, nx)
<1>1. A = B \cup {n} /\ n \notin B
  BY ReachFirst
<1>2. B \subseteq Nodes /\ A \subseteq Nodes
  <2>1. {n} \in SUBSET Links /\ {nx[n]} \in SUBSET Links
    BY StackAssumption DEF Downward, Nodes, Links
  <2> QED BY <2>1, ReachClosed
<1>3. IsFiniteSet(Nodes) /\ Cardinality(Nodes) = MaxPush
  BY FS_Interval, StackAssumption DEF Nodes
<1> HIDE DEF A, B
<1>4. c \in Nat /\ Cardinality(A) = c + 1 /\ c + 1 <= MaxPush
  BY <1>1, <1>2, <1>3, FS_Subset, FS_AddElement, FS_CardinalityType
<1>5. PICK a : ListIn(a, n, nx, MaxPush) /\ all = [k \in 1..c+1 |-> a[k]]
  <2>1. PICK a : ListIn(a, n, nx, MaxPush) /\ all = [k \in 1..Cardinality(A) |-> a[k]]
    BY ListDefined DEF A
  <2> HIDE DEF all, c
  <2> QED BY <1>4, <2>1
<1>6. PICK b : ListIn(b, nx[n], nx, MaxPush) /\ rest = [k \in 1..c |-> b[k]]
  BY ListDefined DEF B
<1> HIDE DEF c, rest, all
<1>7. MaxPush \in Nat
  BY StackAssumption
<1>8. /\ \A k \in 1..MaxPush : a[k] = IF k = 1 THEN n ELSE nx[a[k-1]]
      /\ \A k \in 1..MaxPush : b[k] = IF k = 1 THEN nx[n] ELSE nx[b[k-1]]
  BY <1>5, <1>6 DEF ListIn
<1> DEFINE T == {k \in Nat : k + 2 <= MaxPush => a[k+2] = b[k+1]}
<1>9. 0 \in T
  <2>1. 2 <= MaxPush => a[2] = nx[a[1]] /\ a[1] = n /\ b[1] = nx[n]
    BY <1>7, <1>8
  <2> QED BY <2>1
<1>10. ASSUME NEW k \in T PROVE k + 1 \in T
  <2>1. k \in Nat
    OBVIOUS
  <2>2. ASSUME k + 3 <= MaxPush PROVE a[k+3] = b[k+2]
    <3>1. a[k+2] = b[k+1]
      BY <1>7, <2>1, <2>2
    <3>2. a[k+3] = nx[a[k+2]]
      <4>1. k + 3 \in 1..MaxPush /\ k + 3 # 1 /\ (k + 3) - 1 = k + 2
        BY <1>7, <2>1, <2>2
      <4> QED BY <1>8, <4>1
    <3>3. b[k+2] = nx[b[k+1]]
      <4>1. k + 2 \in 1..MaxPush /\ k + 2 # 1 /\ (k + 2) - 1 = k + 1
        BY <1>7, <2>1, <2>2
      <4> QED BY <1>8, <4>1
    <3> QED BY <3>1, <3>2, <3>3
  <2>3. (k + 1) + 2 = k + 3 /\ (k + 1) + 1 = k + 2
    BY <2>1
  <2> QED BY <2>1, <2>2, <2>3
<1> HIDE DEF T
<1>11. Nat \subseteq T
  BY <1>9, <1>10, SetInduction
<1>12. ASSUME NEW k \in 1..c PROVE a[k+1] = b[k]
  <2>1. k - 1 \in Nat /\ k - 1 + 2 <= MaxPush /\ k - 1 + 2 = k + 1 /\ k - 1 + 1 = k
    BY <1>4, <1>7
  <2>2. k - 1 \in T
    BY <1>11, <2>1
  <2>3. a[(k - 1) + 2] = b[(k - 1) + 1]
    BY <2>1, <2>2 DEF T
  <2> QED BY <2>1, <2>3
<1>13. a[1] = n
  BY <1>4, <1>7, <1>8
<1> DEFINE Q == {rest[k] : k \in 1..c}
<1>14. rest \in Seq(Q) /\ Len(rest) = c
  <2>1. rest \in [1..c -> Q]
    BY <1>6
  <2>2. rest \in Seq(Q)
    BY <1>4, <2>1, SeqDef
  <2> QED BY <1>4, <1>6, <2>2, LenProperties
<1>15. all = <<n>> \o rest
  <2> DEFINE s == <<n>> \o rest
  <2>1. /\ s \in Seq(Q \cup {n}) /\ Len(s) = c + 1 /\ s[1] = n
        /\ \A k \in 1..c : s[k+1] = rest[k]
    <3>1. <<n>> \in Seq(Q \cup {n}) /\ rest \in Seq(Q \cup {n}) /\ Len(<<n>>) = 1
      <4>1. rest \in [1..c -> Q \cup {n}]
        BY <1>6
      <4> QED BY <1>4, <4>1, SeqDef
    <3>2. /\ s \in Seq(Q \cup {n}) /\ Len(s) = 1 + c
          /\ \A i \in 1..1+c : s[i] = IF i <= 1 THEN <<n>>[i] ELSE rest[i - 1]
      BY <1>14, <3>1, ConcatProperties
    <3> HIDE DEF s
    <3>3. s[1] = n
      BY <1>4, <3>2
    <3>4. ASSUME NEW k \in 1..c PROVE s[k+1] = rest[k]
      <4>1. k + 1 \in 1..1+c /\ ~(k + 1 <= 1) /\ (k + 1) - 1 = k
        BY <1>4
      <4> QED BY <3>2, <4>1
    <3> QED BY <1>4, <3>2, <3>3, <3>4
  <2> HIDE DEF s
  <2>2. s = [k \in 1..c+1 |-> s[k]]
    BY <2>1, LenProperties
  <2>3. ASSUME NEW k \in 1..c+1 PROVE s[k] = a[k]
    <3>1. CASE k = 1
      BY <1>13, <2>1, <3>1
    <3>2. CASE k # 1
      <4>1. k - 1 \in 1..c /\ (k - 1) + 1 = k
        BY <1>4, <3>2
      <4>2. s[k] = rest[k-1] /\ a[k] = b[k-1]
        BY <1>12, <2>1, <4>1
      <4>3. rest[k-1] = b[k-1]
        BY <1>6, <4>1
      <4> QED BY <4>2, <4>3
    <3> QED BY <3>1, <3>2
  <2> QED BY <1>5, <2>2, <2>3 DEF s
<1>16. all # <<>> /\ Head(all) = n /\ Tail(all) = rest
  <2> HIDE DEF Q
  <2> QED BY <1>14, <1>15
<1> QED BY <1>15, <1>16 DEF all, rest

\* Links of nodes that cannot be reached do not matter.
LEMMA ListSame ==
  ASSUME NEW hd \in Links, NEW nx, NEW nxt, Downward(nx), Downward(nxt),
         \A n \in Reach({hd}, nx) : nxt[n] = nx[n]
  PROVE  List(hd, nxt) = List(hd, nx)
<1> DEFINE Good(n) == (\A a \in Reach({n}, nx) : nxt[a] = nx[a]) => List(n, nxt) = List(n, nx)
           T == {k \in Nat : \A n \in Links : n <= k => Good(n)}
<1>1. 0 \in T
  <2>1. \A n \in Links : n <= 0 => n = NULL
    BY DEF Links, NULL
  <2> QED BY <2>1, ListEmpty
<1>2. ASSUME NEW k \in T PROVE k + 1 \in T
  <2>1. k \in Nat
    OBVIOUS
  <2>2. ASSUME NEW n \in Links, n <= k + 1 PROVE Good(n)
    <3>1. CASE n = NULL
      BY <3>1, ListEmpty
    <3>2. CASE n # NULL
      <4>1. n \in Nodes /\ nx[n] \in Links /\ nx[n] < n /\ n \in Nat /\ nx[n] \in Nat
        BY <3>2, StackAssumption DEF Nodes, Links, NULL, Downward
      <4>2. nx[n] <= k
        BY <2>1, <2>2, <4>1
      <4>3. Good(nx[n])
        BY <4>1, <4>2
      <4> HIDE DEF T, Good
      <4>4. Reach({n}, nx) = Reach({nx[n]}, nx) \cup {n}
        BY <4>1, ReachFirst
      <4>5. List(n, nx) = <<n>> \o List(nx[n], nx) /\ List(n, nxt) = <<n>> \o List(nxt[n], nxt)
        BY <4>1, ListFirst
      <4>6. ASSUME \A a \in Reach({n}, nx) : nxt[a] = nx[a] PROVE List(n, nxt) = List(n, nx)
        <5>1. nxt[n] = nx[n] /\ \A a \in Reach({nx[n]}, nx) : nxt[a] = nx[a]
          BY <4>4, <4>6
        <5>2. List(nx[n], nxt) = List(nx[n], nx)
          BY <4>3, <5>1 DEF Good
        <5> QED BY <4>5, <5>1, <5>2
      <4> QED BY <4>6 DEF Good
    <3> QED BY <3>1, <3>2
  <2> QED BY <2>1, <2>2
<1> HIDE DEF T
<1>3. hd \in T /\ hd \in Nat
  BY <1>1, <1>2, SetInduction, StackAssumption DEF Links
<1> QED BY <1>3 DEF T

-------------------------------------------------------------------------------
(* What Lifo sees of the stack.                                            *)

\* What an operation has done.
Done(p, m, d, ch) ==
  IF m.kind = "push" /\ m.node \in ch THEN <<m.node>>
  ELSE IF m.kind = "pop" /\ p \notin Before /\ d.node # NULL /\ d.node \notin ch THEN <<d.node>>
  ELSE <<>>

\* The effect of each thread depends on its own locals, its descriptor and the chain.
LEMMA EffectIs ==
  /\ Effect = [t \in Threads |-> Done(pc[t], me[t], states[t], Chain)]
  /\ Effect' = [t \in Threads |-> Done(pc'[t], me'[t], states'[t], Chain')]
  BY DEF Effect, Done, Announced, Before

\* A new head is a new first item ...
LEMMA ItemsPushed ==
  ASSUME Sound, NEW n \in Nodes, head' = n, next[n] = head, next' = next
  PROVE  Items' = <<n>> \o Items
<1>1. Downward(next)
  BY DEF Sound, StackInv, LinkInv
<1>2. List(n, next) = <<n>> \o List(next[n], next)
  BY <1>1, ListFirst
<1> QED BY <1>2, ItemsAre

\* ... a head that goes is the first item taken ...
LEMMA ItemsPopped ==
  ASSUME Sound, head # NULL, head' = next[head], next' = next
  PROVE  Items # <<>> /\ Head(Items) = head /\ Items' = Tail(Items)
<1>1. Downward(next) /\ head \in Nodes
  BY ChainTyped DEF Sound, StackInv, LinkInv
<1>2. /\ List(head, next) # <<>> /\ Head(List(head, next)) = head
      /\ Tail(List(head, next)) = List(next[head], next)
  BY <1>1, ListFirst
<1> QED BY <1>2, ItemsAre

\* ... and links off the chain do not count.
LEMMA ItemsStay ==
  ASSUME Sound, Sound', head' = head, \A a \in Chain : next'[a] = next[a]
  PROVE  Items' = Items
<1>1. Downward(next) /\ Downward(next') /\ head \in Links
  BY DEF Sound, StackInv, LinkInv, TypeInv
<1>2. List(head, next') = List(head, next)
  <2>1. \A a \in Reach({head}, next) : next'[a] = next[a]
    BY ChainIs
  <2> QED BY <1>1, <2>1, ListSame
<1> QED BY <1>2, ItemsAre

Mapped == [Abstract!Next]_(Abstract!lifoVars)

\* Steps that Lifo does not see.
LEMMA Unseen ==
  ASSUME Items' = Items, answer' = answer,
         \A u \in Threads :
           /\ me'[u].kind = me[u].kind /\ me'[u].node = me[u].node
           /\ Done(pc'[u], me'[u], states'[u], Chain') = Done(pc[u], me[u], states[u], Chain)
  PROVE  Mapped
<1>1. Effect' = Effect
  BY EffectIs
<1>2. AbstractCall' = AbstractCall
  BY DEF AbstractCall
<1> QED BY <1>1, <1>2 DEF Mapped, Abstract!lifoVars

\* The call, or the effect, of one thread changes.
LEMMA OneEffect ==
  ASSUME NEW t \in Threads, NEW e, Done(pc'[t], me'[t], states'[t], Chain') = e,
         \A u \in Threads \ {t} : Done(pc'[u], me'[u], states'[u], Chain') = Done(pc[u], me[u], states[u], Chain)
  PROVE  Effect' = [Effect EXCEPT ![t] = e]
  BY EffectIs

LEMMA OneCall ==
  ASSUME NEW t \in Threads, NEW kind, NEW node, me'[t].kind = kind, me'[t].node = node,
         \A u \in Threads \ {t} : me'[u].kind = me[u].kind /\ me'[u].node = me[u].node
  PROVE  AbstractCall' = [AbstractCall EXCEPT ![t] = [kind |-> kind, node |-> node]]
  BY DEF AbstractCall

-------------------------------------------------------------------------------
(* A pop that has found nothing does not return.                           *)

NothingInv ==
  \A t \in Poppers :
    pc[t] \notin Before /\ ~states[t].pending /\ states[t].node = NULL =>
      pc[t] = "popWinner" /\ me[t].h.oh = NULL

\* A pop that is told there is nothing is at the step that stops the process.
LEMMA NothingHelp ==
  ASSUME Sound, Sound', "push" \notin Overlap, SpareInv, NothingInv, NEW t \in Poppers, Help(t) \/ Finish(t)
  PROVE  NothingInv'
<1>1. /\ TypeInv /\ t \in Threads /\ me[t].kind = "pop" /\ head \in Links
      /\ states \in [Threads -> Descriptors] /\ DOMAIN pc = Threads /\ DOMAIN me = Threads
      /\ \A u \in Threads : me[u].kind # "push"
  BY PopsOnly DEF Sound, Poppers, TypeInv
<1>2. /\ \A u \in Threads \ {t} : pc'[u] = pc[u] /\ me'[u] = me[u]
      /\ \A u \in Threads : me'[u].kind = me[u].kind /\ (pc'[u] \in Before <=> pc[u] \in Before)
  BY <1>1, HelpLeaves
<1>3. Poppers' = Poppers
  BY <1>2 DEF Poppers
<1>4. PopEffect /\ (PopRead(t) \/ PopWrite(t))
  BY <1>1, PopStep
<1> SUFFICES ASSUME NEW u \in Poppers, pc'[u] \notin Before, ~states'[u].pending, states'[u].node = NULL
             PROVE  pc'[u] = "popWinner" /\ me'[u].h.oh = NULL
  BY <1>3 DEF NothingInv
<1>5. u \in Threads /\ pc[u] \notin Before
  BY <1>2 DEF Poppers
<1>6. CASE states'[u] = states[u]
  <2>1. pc[u] = "popWinner" /\ me[u].h.oh = NULL
    BY <1>5, <1>6 DEF NothingInv
  <2>2. CASE u = t
    <3>1. UNCHANGED <<pc, me>>
      <4>1. PopWinner(t)
        BY <1>4, <2>1, <2>2 DEF PopRead, PopWrite, At, Scan, Dispatch, PopHead, PopState, PopEmpty, PopNothing,
                                PopCheck, PopStill, PopWin, PopWhile, IfPending, While,
                                FinishHead, FinishWinner, FinishState, SameHead, SameWinner, SameState,
                                PopNext, PopStays, PopFinish, PopSwing
      <4> QED BY <2>1, <2>2, <4>1 DEF PopWinner, Crash
    <3> QED BY <2>1, <2>2, <3>1
  <2>3. CASE u # t
    BY <1>2, <1>5, <2>1, <2>3
  <2> QED BY <2>2, <2>3
<1>7. CASE states'[u] # states[u]
  <2>1. PICK v \in Threads : OpFinished(v)
    BY <1>4, <1>7 DEF PopEffect, HeadWon, HeadPopped
  <2>2. v = u
    BY <1>1, <1>5, <1>7, <2>1 DEF OpFinished
  <2>3. states'[u].node = head
    <3>1. states'[u] = Finished(states[u], FALSE, head) /\ states[u] \in Descriptors
      BY <1>1, <1>5, <2>1, <2>2 DEF OpFinished
    <3> QED BY <3>1 DEF Finished, Descriptors
  <2>4. u = t
    BY <2>3, EmptyAlone
  <2>5. CASE PopNothing(t)
    <3>1. pc[t] = "popNothing" /\ pc'[t] = "popWinner" /\ me' = me
      BY <1>1, <2>5 DEF PopNothing, At, Goto
    <3>2. PopLocal(t, pc[t], me[t], head, Chain, next, winner, states)
      BY <1>1 DEF Sound, StackInv, LocalInv, Local
    <3> QED BY <2>4, <3>1, <3>2 DEF PopLocal
  <2>6. CASE PopFinish(t)
    <3> DEFINE f == me[t].f
    <3>1. f.oh \in Nodes /\ f.os \in Descriptors
      BY <1>1, <2>6, HasLocals DEF PopFinish, At, LocalsOK, Finishing, FinishPush, FinishPop
    <3>2. Replace(f.tid, f.os, Finished(f.os, FALSE, f.oh))
      BY <2>6 DEF PopFinish
    <3>3. Finished(f.os, FALSE, f.oh).node = f.oh
      BY <3>1 DEF Finished, Descriptors
    <3> HIDE DEF f
    <3>4. states'[u].node = f.oh
      BY <1>1, <1>5, <1>7, <3>2, <3>3 DEF Replace
    <3> QED BY <3>1, <3>4 DEF Nodes, NULL
  <2>7. CASE PopRead(t) \/ PopWin(t) \/ PopSwing(t)
    <3>1. states' = states
      BY <2>7 DEF PopRead, PopWin, PopSwing, Scan, Dispatch, PopHead, PopState, PopEmpty, PopWinner,
                  PopCheck, PopStill, PopWhile, FinishHead, FinishWinner, FinishState, SameHead, SameWinner,
                  SameState, PopNext, PopStays, Read, Crash, IfPending, While, Return, Again
    <3> QED BY <1>7, <3>1
  <2> QED BY <1>4, <2>5, <2>6, <2>7 DEF PopWrite
<1> QED BY <1>6, <1>7

\* The other steps of an operation keep this: one that is quiet, or announces itself.
LEMMA NothingQuiet ==
  ASSUME NothingInv, NEW t \in Threads, NEW q, NEW x, Moves(t, q, x), x.kind = me[t].kind \/ x.kind # "pop",
         \A u \in Threads \ {t} : states'[u] = states[u],
         x.kind = "pop" => q \in Before \/ states'[t].pending \/ states'[t].node # NULL
  PROVE  NothingInv'
<1>1. pc'[t] = q /\ me'[t] = x /\ \A u \in Threads \ {t} : pc'[u] = pc[u] /\ me'[u] = me[u]
  BY DEF Moves
<1> QED BY <1>1 DEF NothingInv, Poppers

LEMMA NothingAlone ==
  ASSUME \A t \in Threads : me'[t].kind # "pop"
  PROVE  NothingInv'
  BY DEF NothingInv, Poppers

-------------------------------------------------------------------------------
(* Every step is one of Lifo's, or none.                                   *)

\* A step of help() or finish() in a push is the push of Lifo or none: the exchange of head_.
LEMMA PushMaps ==
  ASSUME Sound, Sound', "push" \notin Overlap, NEW t \in Threads, me[t].kind = "push", Help(t) \/ Finish(t)
  PROVE  Mapped
<1> DEFINE n == me[t].node
<1>1. PushEffect(n) /\ answer' = answer
  BY PushStep
<1>2. /\ \A u \in Threads \ {t} : pc'[u] = pc[u] /\ me'[u] = me[u] /\ me[u].kind = "none"
      /\ \A u \in Threads : me'[u].kind = me[u].kind /\ me'[u].node = me[u].node
  BY PushAlone, HelpLeaves DEF Sound
<1>3. \A u \in Threads \ {t} : Done(pc'[u], me'[u], states'[u], Chain') = <<>>
                               /\ Done(pc[u], me[u], states[u], Chain) = <<>>
  BY <1>2 DEF Done
<1>4. /\ Done(pc[t], me[t], states[t], Chain) = IF n \in Chain THEN <<n>> ELSE <<>>
      /\ Done(pc'[t], me'[t], states'[t], Chain') = IF n \in Chain' THEN <<n>> ELSE <<>>
  BY <1>2 DEF Done
<1>5. CASE head' = head /\ Chain' = Chain /\ \A a \in Chain : next'[a] = next[a]
  <2>1. Items' = Items
    BY <1>5, ItemsStay
  <2>2. \A u \in Threads : Done(pc'[u], me'[u], states'[u], Chain') = Done(pc[u], me[u], states[u], Chain)
    BY <1>3, <1>4, <1>5
  <2> QED BY <1>1, <1>2, <2>1, <2>2, Unseen
<1>6. CASE /\ head' = n /\ n \in Nodes \ Chain /\ next[n] = head /\ next' = next
           /\ Chain' = Chain \cup {n}
  <2>1. Items' = <<n>> \o Items
    BY <1>6, ItemsPushed
  <2>2. Done(pc'[t], me'[t], states'[t], Chain') = <<n>>
    BY <1>4, <1>6
  <2>3. Effect' = [Effect EXCEPT ![t] = <<n>>]
    BY <1>3, <2>2, OneEffect
  <2>4. Effect[t] = <<>>
    BY <1>4, <1>6, EffectIs
  <2>5. AbstractCall' = AbstractCall /\ AbstractCall[t].kind = "push" /\ AbstractCall[t].node = n
    BY <1>2 DEF AbstractCall
  <2>6. Abstract!Push(t)
    BY <1>1, <2>1, <2>3, <2>4, <2>5 DEF Abstract!Push
  <2> QED BY <2>6 DEF Mapped, Abstract!Next
<1> QED BY <1>1, <1>5, <1>6 DEF PushEffect

\* In a pop it is the pop of Lifo or none, the one of the thread that owns the head, whoever takes the step.
LEMMA PopMaps ==
  ASSUME Sound, Sound', "push" \notin Overlap, NEW t \in Threads, me[t].kind = "pop", Help(t) \/ Finish(t)
  PROVE  Mapped
<1>1. /\ TypeInv /\ LinkInv /\ WinnerInv /\ TakenInv
      /\ states \in [Threads -> Descriptors] /\ head \in Links
      /\ \A u \in Threads : me[u].kind # "push"
  BY PopsOnly DEF Sound, StackInv, TypeInv
<1>2. \A u \in Threads : /\ me'[u].kind = me[u].kind /\ me'[u].node = me[u].node
                         /\ pc'[u] \in Before <=> pc[u] \in Before
  BY <1>1, HelpLeaves
<1>3. PopEffect /\ answer' = answer
  BY PopStep
<1>4. ASSUME NEW u \in Threads
      PROVE  /\ Done(pc[u], me[u], states[u], Chain) = IF u \in Poppers /\ Taken(u) THEN <<states[u].node>> ELSE <<>>
             /\ Done(pc'[u], me'[u], states'[u], Chain')
                  = IF u \in Poppers /\ pc[u] \notin Before /\ states'[u].node # NULL /\ states'[u].node \notin Chain'
                    THEN <<states'[u].node>> ELSE <<>>
  BY <1>1, <1>2 DEF Done, Poppers, Taken
<1>5. ASSUME UNCHANGED heap,
             \A u \in Threads : Done(pc'[u], me'[u], states'[u], Chain') = Done(pc[u], me[u], states[u], Chain)
      PROVE  Mapped
  <2>1. Items' = Items
    BY <1>5, ItemsAre DEF heap
  <2> QED BY <1>2, <1>3, <1>5, <2>1, Unseen
<1>6. CASE UNCHANGED <<heap, states, grace>>
  <2>1. Chain' = Chain
    BY <1>6, ChainStays DEF heap
  <2>2. \A u \in Threads : Done(pc'[u], me'[u], states'[u], Chain') = Done(pc[u], me[u], states[u], Chain)
    BY <1>4, <1>6, <2>1 DEF Taken
  <2> QED BY <1>5, <1>6, <2>2
<1>7. ASSUME NEW v \in Threads, HeadWon(v) PROVE Mapped
  <2>1. Chain' = Chain /\ states' = states /\ Items' = Items
    BY <1>7, ChainStays, ItemsAre DEF HeadWon
  <2>2. \A u \in Threads : Done(pc'[u], me'[u], states'[u], Chain') = Done(pc[u], me[u], states[u], Chain)
    BY <1>4, <2>1 DEF Taken
  <2> QED BY <1>2, <1>3, <2>1, <2>2, Unseen
<1>8. ASSUME NEW v \in Threads, OpFinished(v) PROVE Mapped
  <2>1. Chain' = Chain /\ UNCHANGED heap /\ \A u \in Threads \ {v} : states'[u] = states[u]
    BY <1>1, <1>8, ChainStays DEF OpFinished, heap
  <2>2. states[v].node = NULL
    <3>1. t \in Poppers
      BY DEF Poppers
    <3> QED BY <1>8, <3>1, PendingPops DEF OpFinished
  <2>3. states'[v].node = head
    <3>1. states'[v] = Finished(states[v], FALSE, head) /\ states[v] \in Descriptors
      BY <1>1, <1>8 DEF OpFinished
    <3> QED BY <3>1 DEF Finished, Descriptors
  <2>4. head # NULL => head \in Chain
    BY <1>1, ChainTyped
  <2>5. ASSUME NEW u \in Threads
        PROVE  Done(pc'[u], me'[u], states'[u], Chain') = Done(pc[u], me[u], states[u], Chain)
    <3>1. CASE u = v
      BY <1>4, <2>1, <2>2, <2>3, <2>4, <3>1 DEF Taken
    <3>2. CASE u # v
      BY <1>4, <2>1, <3>2 DEF Taken
    <3> QED BY <3>1, <3>2
  <2> QED BY <1>5, <2>1, <2>5
<1>9. ASSUME NEW v \in Threads, HeadPopped(v) PROVE Mapped
  <2>1. /\ Chain' = Chain \ {head} /\ states' = states /\ head # NULL /\ head \in Chain
        /\ head' = next[head] /\ next' = next
    BY <1>1, <1>9, ChainPopped, ChainTyped DEF HeadPopped
  <2>2. /\ winner[head] = v /\ ~states[v].pending /\ v # 0
    BY <1>9 DEF HeadPopped, Threads
  <2>3. states[v].node = head /\ me[v].kind = "pop" /\ v \in Poppers /\ pc[v] \notin Before
    BY <1>1, <2>1, <2>2 DEF WinnerInv, Poppers
  <2>4. Items # <<>> /\ Head(Items) = head /\ Items' = Tail(Items)
    BY <2>1, ItemsPopped
  <2>5. ASSUME NEW u \in Threads \ {v}
        PROVE  Done(pc'[u], me'[u], states'[u], Chain') = Done(pc[u], me[u], states[u], Chain)
    <3>1. u \in Poppers /\ pc[u] \notin Before => states[u].node # head
      BY <1>1, <2>1, <2>2 DEF TakenInv, Poppers
    <3> QED BY <1>4, <2>1, <3>1 DEF Taken
  <2>6. Done(pc'[v], me'[v], states'[v], Chain') = <<head>>
    BY <1>4, <2>1, <2>3
  <2>7. Effect' = [Effect EXCEPT ![v] = <<head>>]
    BY <2>5, <2>6, OneEffect
  <2>8. Effect[v] = <<>>
    BY <1>4, <2>1, <2>3, EffectIs DEF Taken
  <2>9. AbstractCall' = AbstractCall /\ AbstractCall[v].kind = "pop"
    BY <1>2, <2>3 DEF AbstractCall
  <2>10. Abstract!Pop(v)
    BY <1>3, <2>4, <2>7, <2>8, <2>9 DEF Abstract!Pop
  <2> QED BY <2>10 DEF Mapped, Abstract!Next
<1> QED BY <1>3, <1>6, <1>7, <1>8, <1>9 DEF PopEffect

\* A call is a call.
LEMMA CallMaps ==
  ASSUME Sound, "push" \notin Overlap, NEW t \in Threads, NothingInv, CallPush(t) \/ CallPop(t)
  PROVE  Mapped /\ NothingInv'
<1> DEFINE x == me'[t]
<1>1. PICK kind \in {"push", "pop"} : \E node :
        /\ Begin(t, kind, node)
        /\ kind = "push" => node = pushes + 1 /\ CallPush(t)
        /\ kind = "pop" => node = NULL
  BY DEF CallPush, CallPop
<1>2. PICK node :
        /\ Begin(t, kind, node)
        /\ kind = "push" => node = pushes + 1 /\ CallPush(t)
        /\ kind = "pop" => node = NULL
  BY <1>1
<1>3. /\ Moves(t, "loadPhase", x) /\ x.kind = kind /\ x.node = node
      /\ UNCHANGED <<heap, states, answer>> /\ me[t].kind = "none" /\ pc[t] = "idle"
  BY <1>2, CallBegins DEF Sound
<1>4. Chain' = Chain /\ Items' = Items
  BY <1>3, ChainStays, ItemsAre DEF heap
<1>5. me[t].node = NULL
  BY <1>3 DEF Sound, StackInv, LocalInv, Local
<1>6. kind = "push" => node \in Nodes /\ node \notin Chain
  <2>1. kind = "push" => node \in Nodes
    <3>1. pushes \in Nat /\ MaxPush \in Nat
      BY StackAssumption DEF Sound, TypeInv, Links, Nodes, NULL
    <3>2. kind = "push" => node = pushes + 1 /\ pushes < MaxPush
      BY <1>2 DEF CallPush
    <3> QED BY <3>1, <3>2 DEF Nodes
  <2>2. kind = "push" => x.node \notin Chain
    BY <1>2, CallPushStack
  <2> QED BY <1>3, <2>1, <2>2
<1>7. \A u \in Threads \ {t} : pc'[u] = pc[u] /\ me'[u] = me[u]
  BY <1>3 DEF Moves
<1>8. pc'[t] = "loadPhase" /\ "loadPhase" \in Before
  BY <1>3 DEF Moves, Before
<1>9. NothingInv'
  BY <1>3, <1>7, <1>8 DEF NothingInv, Poppers
<1> HIDE DEF x
<1>10. \A u \in Threads : Done(pc'[u], me'[u], states'[u], Chain') = Done(pc[u], me[u], states[u], Chain)
  <2>1. Done(pc[t], me[t], states[t], Chain) = <<>>
    BY <1>3 DEF Done
  <2>2. Done(pc'[t], me'[t], states'[t], Chain') = <<>>
    BY <1>3, <1>4, <1>6, <1>8 DEF Done, x
  <2> QED BY <1>3, <1>4, <1>7, <2>1, <2>2
<1>11. Effect' = Effect
  BY <1>10, EffectIs
<1>12. AbstractCall[t] = Abstract!NoCall
  BY <1>3, <1>5 DEF AbstractCall, Abstract!NoCall
<1>13. AbstractCall' = [AbstractCall EXCEPT ![t] = [kind |-> kind, node |-> node]]
  BY <1>3, <1>7, OneCall DEF x
<1>14. Abstract!Call(t)
  BY <1>2, <1>3, <1>4, <1>6, <1>11, <1>12, <1>13 DEF Abstract!Call
<1> QED BY <1>9, <1>14 DEF Mapped, Abstract!Next

\* The return of an operation that has had its effect.
LEMMA ReturnMaps ==
  ASSUME Sound, NEW t \in Threads, Moves(t, "idle", Idle), UNCHANGED <<head, next, states>>,
         NEW n, Done(pc[t], me[t], states[t], Chain) = <<n>>,
         answer' = IF me[t].kind = "pop" THEN [answer EXCEPT ![t] = n] ELSE answer
  PROVE  Mapped
<1>1. Chain' = Chain /\ Items' = Items
  BY ChainStays, ItemsAre
<1>2. me'[t] = Idle /\ \A u \in Threads \ {t} : pc'[u] = pc[u] /\ me'[u] = me[u]
  BY DEF Moves
<1>3. Idle.kind = "none" /\ Idle.node = NULL
  BY DEF Idle
<1>4. Done(pc'[t], me'[t], states'[t], Chain') = <<>>
  BY <1>2, <1>3 DEF Done
<1>5. \A u \in Threads \ {t} : Done(pc'[u], me'[u], states'[u], Chain') = Done(pc[u], me[u], states[u], Chain)
  BY <1>1, <1>2
<1>6. Effect' = [Effect EXCEPT ![t] = <<>>]
  BY <1>4, <1>5, OneEffect
<1>7. Effect[t] = <<n>>
  BY EffectIs
<1>8. AbstractCall' = [AbstractCall EXCEPT ![t] = Abstract!NoCall]
  BY <1>2, <1>3, OneCall DEF Abstract!NoCall
<1>9. AbstractCall[t].kind = me[t].kind
  BY DEF AbstractCall
<1>10. Abstract!Return(t)
  BY <1>1, <1>6, <1>7, <1>8, <1>9 DEF Abstract!Return
<1> QED BY <1>10 DEF Mapped, Abstract!Next

\* Every step is a step of Lifo or none, and no pop without an element goes on to return.
LEMMA AtomicStep ==
  ASSUME Sound, Sound', "push" \notin Overlap, SpareInv, NothingInv, [Next]_vars
  PROVE  Mapped /\ NothingInv'
<1> DEFINE Goal == Mapped /\ NothingInv'
<1>1. TypeInv /\ DOMAIN pc = Threads /\ DOMAIN me = Threads
  BY DEF Sound, TypeInv
<1>2. ASSUME UNCHANGED <<heap, states, pc, me, answer>> PROVE Goal
  <2>1. Chain' = Chain /\ Items' = Items
    BY <1>2, ChainStays, ItemsAre DEF heap
  <2>2. Mapped
    BY <1>2, <2>1, Unseen
  <2>3. NothingInv'
    BY <1>2 DEF NothingInv, Poppers
  <2> QED BY <2>2, <2>3
<1>3. ASSUME UNCHANGED vars \/ Destroy PROVE Goal
  BY <1>2, <1>3 DEF vars, bookkeeping, Destroy
<1>4. ASSUME NEW t \in Threads, CallPush(t) \/ CallPop(t) PROVE Goal
  BY <1>4, CallMaps
<1>5. ASSUME NEW t \in Threads, pc[t] # "idle", me[t].kind = "push", me'[t].kind # "pop",
             \A u \in Threads \ {t} : me'[u] = me[u]
      PROVE  NothingInv'
  <2>1. \A u \in Threads : me'[u].kind # "pop"
    BY <1>5, PushAlone
  <2> QED BY <2>1, NothingAlone
<1>6. ASSUME NEW t \in Threads, Help(t) \/ Finish(t) PROVE Goal
  <2>1. me[t].kind \in {"push", "pop"} /\ pc[t] # "idle"
    BY <1>1, <1>6, HelpPlaces, HasKind DEF Before
  <2>2. /\ \A u \in Threads \ {t} : me'[u] = me[u]
        /\ me'[t].kind = me[t].kind
    BY <1>1, <1>6, HelpLeaves
  <2>3. CASE me[t].kind = "push"
    BY <1>5, <1>6, <2>1, <2>2, <2>3, PushMaps
  <2>4. CASE me[t].kind = "pop"
    <3>1. t \in Poppers
      BY <2>4 DEF Poppers
    <3> QED BY <1>6, <2>4, <3>1, PopMaps, NothingHelp
  <2> QED BY <2>1, <2>3, <2>4
\* A step of one thread that moves on, and changes no more than its own descriptor.
<1>7. ASSUME NEW t \in Threads, NEW q, NEW x, Moves(t, q, x),
             UNCHANGED <<heap, answer>>, x.kind = me[t].kind, x.node = me[t].node,
             \A u \in Threads \ {t} : states'[u] = states[u],
             me[t].kind = "pop" =>
               \/ pc[t] \in Before /\ q \in Before
               \/ pc[t] \in Before /\ states'[t].pending /\ states'[t].node = NULL
               \/ pc[t] \notin Before /\ q \notin Before /\ states'[t] = states[t]
                  /\ pc[t] # "popWinner" /\ ~states[t].pending
      PROVE  Goal
  <2>1. Chain' = Chain /\ Items' = Items
    BY <1>7, ChainStays, ItemsAre DEF heap
  <2>2. pc'[t] = q /\ me'[t] = x /\ \A u \in Threads \ {t} : pc'[u] = pc[u] /\ me'[u] = me[u]
    BY <1>7 DEF Moves
  <2>3. Done(pc'[t], me'[t], states'[t], Chain') = Done(pc[t], me[t], states[t], Chain)
    BY <1>7, <2>1, <2>2 DEF Done
  <2>4. \A u \in Threads :
          /\ me'[u].kind = me[u].kind /\ me'[u].node = me[u].node
          /\ Done(pc'[u], me'[u], states'[u], Chain') = Done(pc[u], me[u], states[u], Chain)
    BY <1>7, <2>1, <2>2, <2>3
  <2>5. Mapped
    BY <1>7, <2>1, <2>4, Unseen
  <2>6. x.kind = "pop" => q \in Before \/ states'[t].pending \/ states'[t].node # NULL
    BY <1>7 DEF NothingInv, Poppers
  <2>7. NothingInv'
    BY <1>7, <2>6, NothingQuiet
  <2> QED BY <2>5, <2>7
<1>8. ASSUME NEW t \in Threads, LoadPhase(t) \/ ReadPhase(t) \/ LoadOld(t) PROVE Goal
  <2> DEFINE x == me'[t]
             q == pc'[t]
  <2>1. /\ Moves(t, q, x) /\ pc[t] \in Before \ {"idle"} /\ q \in Before \ {"idle"}
        /\ x.kind = me[t].kind /\ x.node = me[t].node /\ UNCHANGED <<heap, states, answer>>
    BY <1>1, <1>8, PhaseMoves DEF bookkeeping
  <2> HIDE DEF x, q, Goal
  <2> QED BY <1>7, <2>1
<1>9. ASSUME NEW t \in Threads, Announce(t) PROVE Goal
  <2> DEFINE m == me[t]
             less == IF m.kind = "push" THEN m.phase ELSE m.phase - 1
             x == [m EXCEPT !.ahead = {states[u] : u \in {v \in Threads : Pending(v, m.phase)}},
                            !.less = less, !.i = 1]
             d == Descriptor(t, m.phase, TRUE, m.kind = "push", m.node, 0)
  <2>1. pc[t] = "announce" /\ pc[t] \in Before /\ m \in Locals
    BY <1>1, <1>9, HasLocals DEF Announce, At, Before
  <2>2. states[t] = m.old
    BY <2>1 DEF Sound, MeetInv, OldInv, MeetsPush
  <2>3. /\ states' = [states EXCEPT ![t] = d] /\ Goto(t, "scan") /\ Keep(t, x)
        /\ UNCHANGED <<heap, answer>>
    BY <1>9, <2>2 DEF Announce, bookkeeping
  <2>4. Moves(t, "scan", x) /\ \A u \in Threads \ {t} : states'[u] = states[u]
    BY <1>1, <2>3 DEF Goto, Keep, Moves, TypeInv
  <2>5. x.kind = m.kind /\ x.node = m.node
    BY <2>1 DEF Locals
  <2>6. m.kind = "pop" => m.node = NULL
    BY DEF Sound, StackInv, LocalInv, Local
  <2>7. states'[t] = d /\ d.pending /\ d.node = m.node
    BY <1>1, <2>3 DEF Descriptor, Sound, TypeInv
  <2> HIDE DEF x, Goal, d
  <2> QED BY <1>7, <2>1, <2>3, <2>4, <2>5, <2>6, <2>7
<1>10. ASSUME NEW t \in Threads, PushNext(t) \/ PushClear(t) PROVE Goal
  <2>1. me[t].kind = "push" /\ pc[t] # "idle" /\ me[t] \in Locals
    BY <1>1, <1>10, HasLocals DEF PushNext, PushClear, At, LocalsOK
  <2>2. /\ UNCHANGED <<heap, states, answer>> /\ head = me[t].node /\ head # NULL
        /\ \/ Moves(t, pc'[t], me'[t]) /\ me'[t] = [me[t] EXCEPT !.f.nx = next[head]]
           \/ Moves(t, "idle", Idle)
    BY <1>10, <2>1, PushEnds
  <2>3. CASE Moves(t, pc'[t], me'[t]) /\ me'[t] = [me[t] EXCEPT !.f.nx = next[head]]
    <3>1. me'[t].kind = me[t].kind /\ me'[t].node = me[t].node
      BY <2>1, <2>3 DEF Locals
    <3> HIDE DEF Goal
    <3> QED BY <1>7, <2>1, <2>2, <2>3, <3>1
  <2>4. CASE Moves(t, "idle", Idle)
    <3>1. head \in Chain
      BY <2>2, ChainTyped DEF Sound, StackInv
    <3>2. Done(pc[t], me[t], states[t], Chain) = <<head>>
      BY <2>1, <2>2, <3>1 DEF Done
    <3>3. answer' = IF me[t].kind = "pop" THEN [answer EXCEPT ![t] = head] ELSE answer
      BY <2>1, <2>2
    <3>4. Mapped
      BY <2>2, <2>4, <3>2, <3>3, ReturnMaps DEF heap
    <3>5. me'[t].kind # "pop" /\ \A u \in Threads \ {t} : me'[u] = me[u]
      BY <2>4 DEF Moves, Idle
    <3> QED BY <1>5, <2>1, <3>4, <3>5
  <2> QED BY <2>2, <2>3, <2>4
<1>11. ASSUME NEW t \in Threads, PopAssert(t) \/ PopReturn(t) PROVE Goal
  <2>1. pc[t] \in {"popAssert", "popReturn"} /\ pc[t] \in Ends /\ pc[t] \notin Before
    BY <1>11 DEF PopAssert, PopReturn, At, Ends, Before
  <2>2. me[t].kind = "pop" /\ t \in Poppers
    <3>1. me[t].kind \in {"push", "pop"}
      BY <1>1, <2>1, HasKind DEF Before
    <3>2. me[t].kind = "push" => PushLocal(t, pc[t], me[t], head, Chain, next, winner, states)
      BY PushAlone
    <3> QED BY <2>1, <3>1, <3>2 DEF PushLocal, Poppers
  <2>3. ~states[t].pending /\ states[t].node \notin Chain
    BY <2>1, <2>2, PopEnds
  <2>4. CASE PopAssert(t)
    <3>1. Read(t, "popReturn", me[t])
      BY <2>3, <2>4 DEF PopAssert
    <3>2. Moves(t, "popReturn", me[t]) /\ UNCHANGED <<heap, states, answer>>
      BY <1>1, <3>1 DEF Read, Goto, Keep, Moves, bookkeeping
    <3>3. "popReturn" \notin Before
      BY DEF Before
    <3> HIDE DEF Goal
    <3> QED BY <1>7, <2>1, <2>3, <3>2, <3>3
  <2>5. CASE PopReturn(t)
    <3>1. /\ Moves(t, "idle", Idle) /\ UNCHANGED <<head, next, states>>
          /\ answer' = [answer EXCEPT ![t] = states[t].node]
      BY <1>1, <2>5 DEF PopReturn, Leave, Goto, Keep, Moves
    <3>2. states[t].node # NULL
      BY <2>1, <2>2, <2>3 DEF NothingInv
    <3>3. Done(pc[t], me[t], states[t], Chain) = <<states[t].node>>
      BY <2>1, <2>2, <2>3, <3>2 DEF Done
    <3>4. Mapped
      BY <2>2, <3>1, <3>3, ReturnMaps
    <3>5. NothingInv'
      BY <3>1, NothingQuiet DEF Idle
    <3> QED BY <3>4, <3>5
  <2> QED BY <1>11, <2>4, <2>5
<1> HIDE DEF Goal
<1>12. Goal
  BY ONLY [Next]_vars, <1>3, <1>4, <1>6, <1>8, <1>9, <1>10, <1>11 DEF Next, Step
<1> QED BY <1>12 DEF Goal

\* The initial states agree.
LEMMA AtomicInit == Init => Abstract!Init /\ NothingInv
<1> SUFFICES ASSUME Init PROVE Abstract!Init /\ NothingInv
  OBVIOUS
<1>1. \A t \in Threads : me[t] = Idle
  BY DEF Init
<1>2. Idle.kind = "none" /\ Idle.node = NULL
  BY DEF Idle
<1>3. Items = <<>>
  BY ItemsAre, ListEmpty DEF Init
<1>4. Effect = [t \in Threads |-> <<>>]
  BY <1>1, <1>2, EffectIs DEF Done
<1>5. AbstractCall = [t \in Threads |-> Abstract!NoCall]
  BY <1>1, <1>2 DEF AbstractCall, Abstract!NoCall
<1>6. Abstract!Init
  BY <1>3, <1>4, <1>5 DEF Init, Abstract!Init
<1>7. NothingInv
  BY <1>1, <1>2 DEF NothingInv, Poppers
<1> QED BY <1>6, <1>7

\* Pops that meet, and pushes and pops that do not, are linearizable: every operation
\* takes effect at one moment between its call and its return, the exchange of head_,
\* whoever of the helpers makes it, and returns the element that was on top then.
THEOREM StackIsAtomic ==
  "push" \notin Overlap /\ ("pop" \in Overlap => Spare >= 2) => (Spec => AtomicLifo)
<1> SUFFICES ASSUME "push" \notin Overlap, "pop" \in Overlap => Spare >= 2
             PROVE  Spec => AtomicLifo
  OBVIOUS
<1> DEFINE Known == Sound /\ SpareInv
<1>1. Spec => []Known
  <2>1. Spec => [](Sound /\ SpareInv /\ EmptyPopInv)
    BY EmptyPopsHold
  <2> QED BY <2>1, PTL
<1>2. Known /\ Known' /\ NothingInv /\ [Next]_vars => [Abstract!Next]_(Abstract!lifoVars) /\ NothingInv'
  BY AtomicStep DEF Mapped
<1>3. Init => Abstract!Init /\ NothingInv
  BY AtomicInit
<1> HIDE DEF Known
<1> QED BY <1>1, <1>2, <1>3, PTL DEF Spec, AtomicLifo, Abstract!Spec
=================================================================================
