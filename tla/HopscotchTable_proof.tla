------------------------- MODULE HopscotchTable_proof -------------------------
(***************************************************************************)
(* Theorems about HopscotchTable, for all keys, hash functions, hop widths *)
(* and table sizes.                                                        *)
(***************************************************************************)
EXTENDS HopscotchTable, FiniteSetTheorems, TLAPS

Table(n) == [0..n-1 -> Bucket]

-------------------------------------------------------------------------------
(* Positions.                                                              *)

\* The home bucket of a key is in the table.
LEMMA LocateRange ==
  ASSUME NEW k \in Keys, NEW n \in Nat \ {0}
  PROVE  Locate(k, n) \in 0..n-1
  BY HashAssumption DEF Locate

\* A step forward stays in the table, and different steps lead to different buckets.
LEMMA ForwardRange ==
  ASSUME NEW n \in Nat, NEW b \in 0..n-1, NEW d \in 0..n-1
  PROVE  /\ Forward(b, d, n) \in 0..n-1
         /\ \A e \in 0..n-1 : Forward(b, e, n) = Forward(b, d, n) => e = d
         /\ Gap(b, Forward(b, d, n), n) = d
  BY DEF Forward, Gap

\* Gap is the number of steps forward from b to p.
LEMMA GapRange ==
  ASSUME NEW n \in Nat, NEW b \in 0..n-1, NEW p \in 0..n-1
  PROVE  Gap(b, p, n) \in 0..n-1 /\ Forward(b, Gap(b, p, n), n) = p
  BY DEF Forward, Gap

\* A step backward undoes a step forward.
LEMMA BackwardRange ==
  ASSUME NEW n \in Nat, NEW b \in 0..n-1, NEW d \in 0..n-1
  PROVE  Backward(b, d, n) \in 0..n-1 /\ Forward(Backward(b, d, n), d, n) = b
  BY DEF Forward, Backward

\* The element taken by a displacement sits i - j buckets before the free one.
LEMMA CloserForward ==
  ASSUME NEW n \in Nat, NEW h \in 0..n-1, NEW d \in 0..n-1,
         NEW i \in 0..d, NEW j \in 0..i
  PROVE  Forward(Backward(Forward(h, d, n), i, n), j, n) = Forward(h, d - (i - j), n)
  BY DEF Forward, Backward

-------------------------------------------------------------------------------
(* Displacements and insertions keep a table consistent.                   *)

\* No bucket of T holds key k.
Absent(T, n, k) == \A p \in 0..n-1 : T[p].used => T[p].kvp.first # k

\* A displacement fills f and frees g, and nothing else changes.
LEMMA MovedOK ==
  ASSUME NEW n \in Nat \ {0}, NEW T \in Table(n), TableOK(T, n), NEW f \in 0..n-1, ~T[f].used,
         NEW i \in Hops, NEW j \in Hops, Movable(T, n, f, i, j), i < n,
         NEW m, m = Backward(f, i, n), NEW g, g = Forward(m, j, n),
         NEW M, M = Moved(T, n, f, i, j)
  PROVE  /\ M \in Table(n) /\ TableOK(M, n)
         /\ g \in 0..n-1 /\ T[g].used /\ i \notin T[m].hops
         /\ \A b \in 0..n-1 :
              /\ M[b].used <=> b = f \/ (b # g /\ T[b].used)
              /\ M[b].kvp = IF b = f THEN T[g].kvp ELSE IF b = g THEN NULL ELSE T[b].kvp
<1>1. i \in 1..n-1 /\ j \in 0..i-1 /\ j \in T[m].hops /\ j < i /\ j \in 0..n-1 /\ i \in 0..n-1
  BY SizesAssumption DEF Hops, Movable
<1>2. m \in 0..n-1 /\ Forward(m, i, n) = f
  BY <1>1, BackwardRange
<1>3. g \in 0..n-1 /\ g # f
  BY <1>1, <1>2, ForwardRange
<1>4. T[g].used /\ Locate(T[g].kvp.first, n) = m
  BY <1>1, <1>2 DEF TableOK, BitsNameElements
<1>5. i \notin T[m].hops
  BY <1>2 DEF TableOK, BitsNameElements
<1>6. /\ M \in Table(n)
      /\ \A b \in 0..n-1 :
           M[b].hops = IF b = m THEN (T[b].hops \ {j}) \cup {i} ELSE T[b].hops
      /\ \A b \in 0..n-1 :
           /\ M[b].used = IF b = f THEN TRUE ELSE IF b = g THEN FALSE ELSE T[b].used
           /\ M[b].kvp = IF b = f THEN T[g].kvp ELSE IF b = g THEN NULL ELSE T[b].kvp
  <2>0. n \in Nat /\ T \in Table(n) /\ f \in 0..n-1 /\ i \in Hops /\ j \in Hops
    OBVIOUS
  <2>2. m \in 0..n-1 /\ g \in 0..n-1 /\ g # f /\ m # f
    BY <1>1, <1>2, <1>3, SizesAssumption DEF Backward
  <2>3. M = [T EXCEPT ![f].kvp = T[g].kvp, ![f].used = TRUE,
                      ![g].kvp = NULL, ![g].used = FALSE,
                      ![m].hops = (@ \ {j}) \cup {i}]
    BY DEF Moved
  <2>4. \A b \in 0..n-1 :
          /\ M[b].hops = IF b = m THEN (T[b].hops \ {j}) \cup {i} ELSE T[b].hops
          /\ M[b].used = IF b = f THEN TRUE ELSE IF b = g THEN FALSE ELSE T[b].used
          /\ M[b].kvp = IF b = f THEN T[g].kvp ELSE IF b = g THEN NULL ELSE T[b].kvp
    BY ONLY <2>0, <2>2, <2>3 DEF Table, Bucket
  <2>5. M \in Table(n)
    <3>1. T[g].kvp \in Kvp \cup {NULL}
      BY <2>2 DEF Table, Bucket
    <3>2. ASSUME NEW x \in Bucket, NEW v \in Kvp \cup {NULL}, NEW u \in BOOLEAN
          PROVE  /\ [x EXCEPT !.kvp = v] \in Bucket
                 /\ [x EXCEPT !.used = u] \in Bucket
                 /\ [x EXCEPT !.hops = (@ \ {j}) \cup {i}] \in Bucket
      BY DEF Bucket
    <3>3. ASSUME NEW b \in 0..n-1, NEW U \in Table(n), NEW x \in Bucket
          PROVE  [U EXCEPT ![b] = x] \in Table(n)
      BY DEF Table
    <3> DEFINE M1 == [T EXCEPT ![f].kvp = T[g].kvp]
               M2 == [M1 EXCEPT ![f].used = TRUE]
               M3 == [M2 EXCEPT ![g].kvp = NULL]
               M4 == [M3 EXCEPT ![g].used = FALSE]
               M5 == [M4 EXCEPT ![m].hops = (@ \ {j}) \cup {i}]
    <3>4. M1 \in Table(n)
      BY <3>1, <3>2, <3>3 DEF Table
    <3>5. M2 \in Table(n)
      BY <3>4, <3>2, <3>3 DEF Table
    <3>6. M3 \in Table(n)
      BY <2>2, <3>5, <3>2, <3>3 DEF Table
    <3>7. M4 \in Table(n)
      BY <2>2, <3>6, <3>2, <3>3 DEF Table
    <3>8. M5 \in Table(n)
      BY <2>2, <3>7, <3>2, <3>3 DEF Table
    <3>9. M = M5
      BY ONLY <2>3
    <3> QED BY <3>8, <3>9
  <2> QED BY <2>4, <2>5
<1>7. \A b \in 0..n-1 :
         M[b].hops = IF b = m THEN (T[b].hops \ {j}) \cup {i} ELSE T[b].hops
  BY <1>6
<1>8. \A b \in 0..n-1 :
         /\ M[b].used = IF b = f THEN TRUE ELSE IF b = g THEN FALSE ELSE T[b].used
         /\ M[b].kvp = IF b = f THEN T[g].kvp ELSE IF b = g THEN NULL ELSE T[b].kvp
  BY <1>6
<1>9. T[g].kvp \in Kvp /\ T[g].kvp # NULL
  BY <1>3, <1>4, NullAssumption DEF TableOK, SlotsHoldPairs, Table, Bucket
<1>10. SlotsHoldPairs(M, n)
  BY <1>3, <1>6, <1>9 DEF TableOK, SlotsHoldPairs
<1>11. KeysAreUnique(M, n)
  <2> DEFINE from(p) == IF p = f THEN g ELSE p
  <2>1. ASSUME NEW p \in 0..n-1, M[p].used
        PROVE  from(p) \in 0..n-1 /\ T[from(p)].used /\ M[p].kvp = T[from(p)].kvp
               /\ (p # f => p # g)
    BY <1>3, <1>4, <1>6, <2>1
  <2>2. ASSUME NEW p \in 0..n-1, NEW q \in 0..n-1, M[p].used, M[q].used,
               M[p].kvp.first = M[q].kvp.first
        PROVE  p = q
    <3>1. from(p) = from(q)
      BY <2>1, <2>2 DEF TableOK, KeysAreUnique
    <3> QED BY <2>1, <2>2, <3>1
  <2> QED BY <2>2 DEF KeysAreUnique
<1>12. BitsNameElements(M, n)
  <2> SUFFICES ASSUME NEW h \in 0..n-1, NEW e \in M[h].hops
               PROVE  e < n /\ M[Forward(h, e, n)].used
                      /\ Locate(M[Forward(h, e, n)].kvp.first, n) = h
    BY DEF BitsNameElements
  <2>1. CASE h = m /\ e = i
    BY <1>1, <1>2, <1>4, <1>6, <1>7, <2>1
  <2>2. CASE ~(h = m /\ e = i)
    <3> DEFINE p == Forward(h, e, n)
    <3>1. e \in T[h].hops /\ ~(h = m /\ e = j)
      BY <1>1, <1>7, <2>2
    <3>2. e \in 0..n-1 /\ T[p].used /\ Locate(T[p].kvp.first, n) = h
      BY <3>1, SizesAssumption DEF TableOK, BitsNameElements, Table, Bucket, Hops
    <3>3. p \in 0..n-1 /\ p # f
      BY <3>2, ForwardRange
    <3>4. p # g
      BY <1>1, <1>2, <1>4, <3>1, <3>2, ForwardRange
    <3>5. M[p].used /\ M[p].kvp = T[p].kvp
      BY <1>8, <3>2, <3>3, <3>4
    <3> QED BY <3>2, <3>5
  <2> QED BY <2>1, <2>2
<1>13. ElementsAreNamed(M, n)
  <2> SUFFICES ASSUME NEW p \in 0..n-1, M[p].used
               PROVE  Gap(Locate(M[p].kvp.first, n), p, n) \in M[Locate(M[p].kvp.first, n)].hops
    BY DEF ElementsAreNamed
  <2>1. CASE p = f
    <3>1. Gap(m, f, n) = i
      BY <1>1, <1>2, ForwardRange
    <3>2. Locate(M[p].kvp.first, n) = m
      BY <1>4, <1>6, <2>1
    <3> QED BY <1>2, <1>7, <2>1, <3>1, <3>2
  <2>2. CASE p # f
    <3> DEFINE h == Locate(T[p].kvp.first, n)
    <3>1. p # g /\ T[p].used /\ M[p].kvp = T[p].kvp
      BY <1>6, <2>2
    <3>2. h \in 0..n-1
      <4>1. T[p].kvp.first \in Keys
        BY <3>1 DEF TableOK, SlotsHoldPairs, Table, Bucket, Kvp
      <4> QED BY <4>1, LocateRange
    <3>3. Gap(h, p, n) \in T[h].hops
      BY <3>1 DEF TableOK, ElementsAreNamed
    <3>4. h = m => Gap(h, p, n) # j
      BY <3>1, <3>2, GapRange
    <3> QED BY <1>7, <3>1, <3>2, <3>3, <3>4
  <2> QED BY <2>1, <2>2
<1> QED BY <1>3, <1>4, <1>5, <1>6, <1>10, <1>11, <1>12, <1>13 DEF TableOK

\* A pair placed in the empty bucket at distance d < SLOTSIZE from its home.
LEMMA PlacedOK ==
  ASSUME NEW n \in Nat \ {0}, NEW T \in Table(n), TableOK(T, n), NEW pair \in Kvp,
         NEW d \in Hops, d < n, NEW h, h = Locate(pair.first, n),
         NEW f, f = Forward(h, d, n), ~T[f].used, Absent(T, n, pair.first),
         NEW M, M = Placed(T, h, f, d, pair)
  PROVE  /\ M \in Table(n) /\ TableOK(M, n)
         /\ f \in 0..n-1 /\ d \notin T[h].hops
         /\ \A b \in 0..n-1 :
              /\ M[b].used <=> b = f \/ T[b].used
              /\ M[b].kvp = IF b = f THEN pair ELSE T[b].kvp
<1>1. pair.first \in Keys /\ pair # NULL /\ d \in 0..n-1
  BY NullAssumption, SizesAssumption DEF Kvp, Hops
<1>2. h \in 0..n-1
  BY <1>1, LocateRange
<1>3. f \in 0..n-1 /\ Gap(h, f, n) = d
  BY <1>1, <1>2, ForwardRange
<1>4. d \notin T[h].hops
  BY <1>2 DEF TableOK, BitsNameElements
<1>5. M = [T EXCEPT ![f].kvp = pair, ![f].used = TRUE, ![h].hops = @ \cup {d}]
  BY DEF Placed
<1>6. n \in Nat /\ T \in Table(n) /\ pair \in Kvp /\ d \in Hops
  OBVIOUS
<1>7. \A b \in 0..n-1 :
        /\ M[b].hops = IF b = h THEN T[b].hops \cup {d} ELSE T[b].hops
        /\ M[b].used = IF b = f THEN TRUE ELSE T[b].used
        /\ M[b].kvp = IF b = f THEN pair ELSE T[b].kvp
  BY ONLY <1>2, <1>3, <1>5, <1>6 DEF Table, Bucket
<1>8. \A b \in 0..n-1 : M[b].hops = IF b = h THEN T[b].hops \cup {d} ELSE T[b].hops
  BY ONLY <1>7
<1>9. \A b \in 0..n-1 :
        /\ M[b].used = IF b = f THEN TRUE ELSE T[b].used
        /\ M[b].kvp = IF b = f THEN pair ELSE T[b].kvp
  BY ONLY <1>7
<1>10. M \in Table(n)
  <2>1. ASSUME NEW x \in Bucket, NEW v \in Kvp \cup {NULL}, NEW u \in BOOLEAN
        PROVE  /\ [x EXCEPT !.kvp = v] \in Bucket
               /\ [x EXCEPT !.used = u] \in Bucket
               /\ [x EXCEPT !.hops = @ \cup {d}] \in Bucket
    BY DEF Bucket
  <2>2. ASSUME NEW b \in 0..n-1, NEW U \in Table(n), NEW x \in Bucket
        PROVE  [U EXCEPT ![b] = x] \in Table(n)
    BY DEF Table
  <2> DEFINE M1 == [T EXCEPT ![f].kvp = pair]
             M2 == [M1 EXCEPT ![f].used = TRUE]
             M3 == [M2 EXCEPT ![h].hops = @ \cup {d}]
  <2>3. M1 \in Table(n)
    BY <1>3, <2>1, <2>2 DEF Table
  <2>4. M2 \in Table(n)
    BY <1>3, <2>3, <2>1, <2>2 DEF Table
  <2>5. M3 \in Table(n)
    BY <1>2, <2>4, <2>1, <2>2 DEF Table
  <2>6. M = M3
    BY ONLY <1>5
  <2> QED BY <2>5, <2>6
<1>11. SlotsHoldPairs(M, n)
  <2> SUFFICES ASSUME NEW p \in 0..n-1 PROVE M[p].used <=> M[p].kvp # NULL
    BY DEF SlotsHoldPairs
  <2>1. T[p].used <=> T[p].kvp # NULL
    BY DEF TableOK, SlotsHoldPairs
  <2>2. CASE p = f
    BY <1>1, <1>9, <2>2
  <2>3. CASE p # f
    BY <1>9, <2>1, <2>3
  <2> QED BY <2>2, <2>3
<1>12. KeysAreUnique(M, n)
  <2> SUFFICES ASSUME NEW p \in 0..n-1, NEW q \in 0..n-1, M[p].used, M[q].used,
                      M[p].kvp.first = M[q].kvp.first
               PROVE  p = q
    BY DEF KeysAreUnique
  <2>1. ASSUME NEW x \in 0..n-1, M[x].used, x # f
        PROVE  T[x].used /\ M[x].kvp = T[x].kvp /\ T[x].kvp.first # pair.first
    BY <1>9, <2>1 DEF Absent
  <2>2. M[f].kvp.first = pair.first
    BY <1>3, <1>9
  <2>3. CASE p # f /\ q # f
    <3>1. T[p].used /\ T[q].used /\ T[p].kvp.first = T[q].kvp.first
      BY <2>1, <2>3
    <3> QED BY <3>1 DEF TableOK, KeysAreUnique
  <2>4. CASE p = f /\ q # f
    BY <2>1, <2>2, <2>4
  <2>5. CASE p # f /\ q = f
    BY <2>1, <2>2, <2>5
  <2> QED BY <2>3, <2>4, <2>5
<1>13. BitsNameElements(M, n)
  <2> SUFFICES ASSUME NEW b \in 0..n-1, NEW e \in M[b].hops
               PROVE  e < n /\ M[Forward(b, e, n)].used
                      /\ Locate(M[Forward(b, e, n)].kvp.first, n) = b
    BY DEF BitsNameElements
  <2>1. CASE b = h /\ e = d
    BY <1>3, <1>9, <2>1
  <2>2. CASE ~(b = h /\ e = d)
    <3> DEFINE p == Forward(b, e, n)
    <3>1. e \in T[b].hops
      BY <1>8, <2>2
    <3>2. e \in 0..n-1 /\ T[p].used /\ Locate(T[p].kvp.first, n) = b
      BY <3>1, SizesAssumption DEF TableOK, BitsNameElements, Table, Bucket, Hops
    <3>3. p \in 0..n-1 /\ p # f
      BY <3>2, ForwardRange
    <3>4. M[p].used /\ M[p].kvp = T[p].kvp
      BY <1>9, <3>2, <3>3
    <3> QED BY <3>2, <3>4
  <2> QED BY <2>1, <2>2
<1>14. ElementsAreNamed(M, n)
  <2> SUFFICES ASSUME NEW p \in 0..n-1, M[p].used
               PROVE  Gap(Locate(M[p].kvp.first, n), p, n) \in M[Locate(M[p].kvp.first, n)].hops
    BY DEF ElementsAreNamed
  <2>1. CASE p = f
    <3>1. Locate(M[p].kvp.first, n) = h
      BY <1>9, <2>1
    <3>2. d \in M[h].hops
      BY <1>2, <1>8
    <3> QED BY <1>3, <2>1, <3>1, <3>2
  <2>2. CASE p # f
    <3> DEFINE b == Locate(T[p].kvp.first, n)
    <3>1. T[p].used /\ M[p].kvp = T[p].kvp
      BY <1>9, <2>2
    <3>2. b \in 0..n-1
      <4>1. T[p].kvp.first \in Keys
        BY <3>1 DEF TableOK, SlotsHoldPairs, Table, Bucket, Kvp
      <4> QED BY <4>1, LocateRange
    <3>3. Gap(b, p, n) \in T[b].hops
      BY <3>1 DEF TableOK, ElementsAreNamed
    <3>4. Gap(b, p, n) \in M[b].hops
      BY <1>8, <3>2, <3>3
    <3> QED BY <3>1, <3>4
  <2> QED BY <2>1, <2>2
<1> QED BY <1>3, <1>4, <1>9, <1>10, <1>11, <1>12, <1>13, <1>14 DEF TableOK

\* A new table is consistent.
LEMMA EmptyOK ==
  ASSUME NEW n \in Nat
  PROVE  EmptyTable(n) \in Table(n) /\ TableOK(EmptyTable(n), n)
  BY DEF EmptyTable, Table, Bucket, TableOK, SlotsHoldPairs, BitsNameElements, ElementsAreNamed,
         KeysAreUnique

-------------------------------------------------------------------------------
(* find() and erase() on a consistent table.                               *)

\* A key find() misses is in no bucket.
LEMMA NotFoundIsAbsent ==
  ASSUME NEW n \in Nat \ {0}, NEW T \in Table(n), TableOK(T, n), NEW k \in Keys, ~IsFound(T, n, k)
  PROVE  Absent(T, n, k)
<1> SUFFICES ASSUME NEW p \in 0..n-1, T[p].used, T[p].kvp.first = k PROVE FALSE
  BY DEF Absent
<1> DEFINE h == Locate(k, n)
           j == Gap(h, p, n)
<1>1. h \in 0..n-1
  BY LocateRange
<1>2. j \in 0..n-1 /\ Forward(h, j, n) = p
  BY <1>1, GapRange
<1>3. j \in T[h].hops /\ j \in Hops
  BY <1>1 DEF TableOK, ElementsAreNamed, Table, Bucket
<1> HIDE DEF h, j
<1>4. Hit(T, n, k, j)
  BY <1>2, <1>3 DEF Hit, h
<1> QED BY <1>3, <1>4 DEF IsFound

\* The only hop bit erase() can see itself through is the one of the home bucket.
LEMMA OneOwner ==
  ASSUME NEW n \in Nat \ {0}, NEW T \in Table(n), TableOK(T, n), NEW p \in 0..n-1, T[p].used,
         NEW h, h = Locate(T[p].kvp.first, n), NEW g, g = Gap(h, p, n)
  PROVE  /\ h \in 0..n-1 /\ g \in T[h].hops /\ Forward(h, g, n) = p
         /\ OwnerBits(T, n, p) = {g} /\ (p - g) % n = h
<1>1. T[p].kvp.first \in Keys
  BY DEF TableOK, SlotsHoldPairs, Table, Bucket, Kvp
<1>2. h \in 0..n-1
  BY <1>1, LocateRange
<1>3. g \in T[h].hops /\ g \in Hops
  BY <1>2 DEF TableOK, ElementsAreNamed, Table, Bucket
<1>4. g \in 0..n-1 /\ Forward(h, g, n) = p
  BY <1>2, GapRange
<1>5. ASSUME NEW i \in 0..n-1
      PROVE  (p - i) % n = Backward(p, i, n)
  BY DEF Backward
<1>6. Backward(p, g, n) = h
  BY <1>2, <1>4 DEF Backward, Forward
<1>7. ASSUME NEW i \in OwnerBits(T, n, p) PROVE i = g
  <2> DEFINE b == (p - i) % n
  <2>1. i \in Hops /\ i \in Nat /\ i \in T[b].hops
    BY SizesAssumption DEF OwnerBits, Hops
  <2>2. b \in 0..n-1
    BY <2>1
  <2>3. i < n /\ T[Forward(b, i, n)].used /\ Locate(T[Forward(b, i, n)].kvp.first, n) = b
    BY <2>1, <2>2 DEF TableOK, BitsNameElements
  <2>4. b = Backward(p, i, n)
    BY <1>5, <2>1, <2>3
  <2>5. Forward(b, i, n) = p
    BY <2>1, <2>3, <2>4, BackwardRange
  <2>6. b = h
    BY <2>3, <2>5
  <2> QED BY <1>2, <1>4, <2>1, <2>3, <2>5, <2>6, ForwardRange
<1>8. (p - g) % n = h
  BY <1>4, <1>5, <1>6
<1>9. g \in OwnerBits(T, n, p)
  BY <1>3, <1>8 DEF OwnerBits
<1> QED BY <1>2, <1>3, <1>4, <1>7, <1>8, <1>9

\* What erase() makes of a table when it finds its owner at distance g before p.
Erased(T, p, h, g) ==
  [T EXCEPT ![p].kvp = NULL, ![p].used = FALSE, ![h].hops = @ \ {g}]

\* Erasing the pair in p and its owner's bit keeps a table consistent.
LEMMA ErasedOK ==
  ASSUME NEW n \in Nat \ {0}, NEW T \in Table(n), TableOK(T, n), NEW p \in 0..n-1, T[p].used,
         NEW h, h = Locate(T[p].kvp.first, n), NEW g, g = Gap(h, p, n),
         NEW M, M = Erased(T, p, h, g)
  PROVE  /\ M \in Table(n) /\ TableOK(M, n)
         /\ \A b \in 0..n-1 :
              /\ M[b].used <=> b # p /\ T[b].used
              /\ M[b].kvp = IF b = p THEN NULL ELSE T[b].kvp
<1>1. h \in 0..n-1 /\ g \in T[h].hops /\ Forward(h, g, n) = p
  BY OneOwner
<1>2. n \in Nat /\ T \in Table(n) /\ p \in 0..n-1
      /\ M = [T EXCEPT ![p].kvp = NULL, ![p].used = FALSE, ![h].hops = @ \ {g}]
  BY DEF Erased
<1>3. \A b \in 0..n-1 :
        /\ M[b].hops = IF b = h THEN T[b].hops \ {g} ELSE T[b].hops
        /\ M[b].used = IF b = p THEN FALSE ELSE T[b].used
        /\ M[b].kvp = IF b = p THEN NULL ELSE T[b].kvp
  BY ONLY <1>1, <1>2 DEF Table, Bucket
<1>4. \A b \in 0..n-1 : M[b].hops = IF b = h THEN T[b].hops \ {g} ELSE T[b].hops
  BY ONLY <1>3
<1>5. \A b \in 0..n-1 :
        /\ M[b].used = IF b = p THEN FALSE ELSE T[b].used
        /\ M[b].kvp = IF b = p THEN NULL ELSE T[b].kvp
  BY ONLY <1>3
<1>6. M \in Table(n)
  <2>1. ASSUME NEW x \in Bucket
        PROVE  /\ [x EXCEPT !.kvp = NULL] \in Bucket
               /\ [x EXCEPT !.used = FALSE] \in Bucket
               /\ [x EXCEPT !.hops = @ \ {g}] \in Bucket
    BY DEF Bucket
  <2>2. ASSUME NEW b \in 0..n-1, NEW U \in Table(n), NEW x \in Bucket
        PROVE  [U EXCEPT ![b] = x] \in Table(n)
    BY DEF Table
  <2> DEFINE M1 == [T EXCEPT ![p].kvp = NULL]
             M2 == [M1 EXCEPT ![p].used = FALSE]
             M3 == [M2 EXCEPT ![h].hops = @ \ {g}]
  <2>3. M1 \in Table(n)
    BY <2>1, <2>2 DEF Table
  <2>4. M2 \in Table(n)
    BY <2>3, <2>1, <2>2 DEF Table
  <2>5. M3 \in Table(n)
    BY <1>1, <2>4, <2>1, <2>2 DEF Table
  <2>6. M = M3
    BY ONLY <1>2
  <2> QED BY <2>5, <2>6
<1>7. ASSUME NEW b \in 0..n-1, M[b].used
      PROVE  b # p /\ T[b].used /\ M[b].kvp = T[b].kvp
  BY <1>5, <1>7
<1>8. SlotsHoldPairs(M, n)
  <2> SUFFICES ASSUME NEW b \in 0..n-1 PROVE M[b].used <=> M[b].kvp # NULL
    BY DEF SlotsHoldPairs
  <2>1. T[b].used <=> T[b].kvp # NULL
    BY DEF TableOK, SlotsHoldPairs
  <2>2. CASE b = p
    BY <1>5, <2>2
  <2>3. CASE b # p
    BY <1>5, <2>1, <2>3
  <2> QED BY <2>2, <2>3
<1>9. KeysAreUnique(M, n)
  BY <1>7 DEF TableOK, KeysAreUnique
<1>10. BitsNameElements(M, n)
  <2> SUFFICES ASSUME NEW b \in 0..n-1, NEW e \in M[b].hops
               PROVE  e < n /\ M[Forward(b, e, n)].used
                      /\ Locate(M[Forward(b, e, n)].kvp.first, n) = b
    BY DEF BitsNameElements
  <2> DEFINE q == Forward(b, e, n)
  <2>1. e \in T[b].hops /\ ~(b = h /\ e = g)
    <3>1. CASE b = h
      <4>1. M[b].hops = T[b].hops \ {g}
        BY <1>4, <3>1
      <4> QED BY <4>1, <3>1
    <3>2. CASE b # h
      BY <1>4, <3>2
    <3> QED BY <3>1, <3>2
  <2>2. e \in 0..n-1 /\ T[q].used /\ Locate(T[q].kvp.first, n) = b
    BY <2>1, SizesAssumption DEF TableOK, BitsNameElements, Table, Bucket, Hops
  <2>3. q \in 0..n-1
    BY <2>2, ForwardRange
  <2>4. g \in 0..n-1
    BY <1>1, GapRange
  <2>5. q # p
    BY <1>1, <2>1, <2>2, <2>4, ForwardRange
  <2>6. M[q].used /\ M[q].kvp = T[q].kvp
    BY <1>5, <2>2, <2>3, <2>5
  <2> QED BY <2>2, <2>6
<1>11. ElementsAreNamed(M, n)
  <2> SUFFICES ASSUME NEW q \in 0..n-1, M[q].used
               PROVE  Gap(Locate(M[q].kvp.first, n), q, n) \in M[Locate(M[q].kvp.first, n)].hops
    BY DEF ElementsAreNamed
  <2> DEFINE b == Locate(T[q].kvp.first, n)
  <2>1. q # p /\ T[q].used /\ M[q].kvp = T[q].kvp
    BY <1>7
  <2>2. b \in 0..n-1
    <3>1. T[q].kvp.first \in Keys
      BY <2>1 DEF TableOK, SlotsHoldPairs, Table, Bucket, Kvp
    <3> QED BY <3>1, LocateRange
  <2>3. Gap(b, q, n) \in T[b].hops
    BY <2>1 DEF TableOK, ElementsAreNamed
  <2>4. b = h => Gap(b, q, n) # g
    BY <1>1, <2>1, <2>2, GapRange
  <2>5. Gap(b, q, n) \in M[b].hops
    <3> HIDE DEF b
    <3>1. CASE b = h
      <4>1. M[b].hops = T[b].hops \ {g}
        BY <1>1, <1>4, <3>1
      <4> QED BY <2>3, <2>4, <4>1, <3>1
    <3>2. CASE b # h
      BY <1>4, <2>2, <2>3, <3>2
    <3> QED BY <3>1, <3>2
  <2> QED BY <2>1, <2>5
<1> QED BY <1>5, <1>6, <1>8, <1>9, <1>10, <1>11 DEF TableOK

-------------------------------------------------------------------------------
(* The inductive invariant.                                                *)

\* A running call keeps its argument.
CallInv == pc \notin {"idle"} => kvp \in Kvp

\* free is the empty bucket at distance from the home bucket of a key that is
\* not in the table: of insert()'s argument ...
DisplaceInv ==
  pc = "displace" =>
    /\ Absent(table, size, kvp.first)
    /\ distance \in 0..size-1
    /\ free = Forward(Locate(kvp.first, size), distance, size)
    /\ ~table[free].used

\* ... or, in the new map, of the pair at cursor.
MoveInv ==
  pc = "move" =>
    /\ cursor < size
    /\ table[cursor].used
    /\ distance \in 0..newSize-1
    /\ free = Forward(Locate(table[cursor].kvp.first, newSize), distance, newSize)
    /\ ~newTable[free].used

\* The new map holds pairs the iterator has passed.
CarriedInv ==
  pc \in {"rehash", "move"} =>
    /\ newSize > 0
    /\ \A q \in 0..newSize-1 : newTable[q].used =>
         \E p \in 0..cursor-1 : p < size /\ table[p].used /\ newTable[q].kvp = table[p].kvp

Used(T, n) == {b \in 0..n-1 : T[b].used}

\* It holds as many as the iterator has passed.
CountInv ==
  pc \in {"rehash", "move"} =>
    Cardinality(Used(newTable, newSize)) = Cardinality(Used(table, cursor))

TableInv ==
  /\ TypeOK
  /\ HopInfoExact
  /\ SizeExact
  /\ CallInv
  /\ DisplaceInv
  /\ MoveInv
  /\ CarriedInv
  /\ CountInv

-------------------------------------------------------------------------------
(* Counting the used buckets.                                              *)

\* At most n buckets are used.
LEMMA UsedFinite ==
  ASSUME NEW n \in Nat, NEW T
  PROVE  IsFiniteSet(Used(T, n)) /\ Cardinality(Used(T, n)) \in 0..n
<1>1. IsFiniteSet(0..n-1) /\ Cardinality(0..n-1) = n
  BY FS_Interval
<1>2. Used(T, n) \subseteq 0..n-1
  BY DEF Used
<1> QED BY <1>1, <1>2, FS_Subset, FS_CardinalityType

\* A pair placed in the unused bucket f counts once more.
LEMMA CountAdded ==
  ASSUME NEW n \in Nat, NEW T, NEW M, NEW f \in 0..n-1, ~T[f].used,
         \A b \in 0..n-1 : M[b].used <=> b = f \/ T[b].used
  PROVE  Cardinality(Used(M, n)) = Cardinality(Used(T, n)) + 1
<1>1. Used(M, n) = Used(T, n) \cup {f} /\ f \notin Used(T, n)
  BY DEF Used
<1> QED BY <1>1, UsedFinite, FS_AddElement

\* A pair taken out of bucket g counts once less.
LEMMA CountRemoved ==
  ASSUME NEW n \in Nat, NEW T, NEW M, NEW g \in 0..n-1, T[g].used,
         \A b \in 0..n-1 : M[b].used <=> b # g /\ T[b].used
  PROVE  Cardinality(Used(M, n)) = Cardinality(Used(T, n)) - 1
<1>1. Used(M, n) = Used(T, n) \ {g} /\ g \in Used(T, n)
  BY DEF Used
<1> QED BY <1>1, UsedFinite, FS_RemoveElement

\* A displacement from g to f keeps the count.
LEMMA CountMoved ==
  ASSUME NEW n \in Nat, NEW T, NEW M, NEW f \in 0..n-1, ~T[f].used, NEW g \in 0..n-1, T[g].used,
         \A b \in 0..n-1 : M[b].used <=> b = f \/ (b # g /\ T[b].used)
  PROVE  Cardinality(Used(M, n)) = Cardinality(Used(T, n))
<1>1. /\ Used(M, n) = (Used(T, n) \ {g}) \cup {f}
      /\ g \in Used(T, n) /\ f \notin Used(T, n) \ {g}
  BY DEF Used
<1>2. /\ IsFiniteSet(Used(T, n) \ {g})
      /\ Cardinality(Used(T, n) \ {g}) = Cardinality(Used(T, n)) - 1
  BY <1>1, UsedFinite, FS_RemoveElement
<1>3. Cardinality(Used(M, n)) = Cardinality(Used(T, n) \ {g}) + 1
  BY <1>1, <1>2, FS_AddElement
<1> QED BY <1>2, <1>3, UsedFinite

-------------------------------------------------------------------------------
(* Every step keeps TableInv.                                              *)

\* The constructor's table satisfies TableInv.
LEMMA TableInit == Init => TableInv
<1> SUFFICES ASSUME Init PROVE TableInv
  OBVIOUS
<1>1. table \in Table(size) /\ TableOK(table, size) /\ size \in Nat \ {0}
  BY EmptyOK, SizesAssumption DEF Init
<1>2. newTable \in Table(newSize) /\ TableOK(newTable, newSize)
  BY EmptyOK DEF Init
<1>3. SizeExact
  <2>1. Used(table, size) = {} /\ used_size = 0
    BY DEF Init, EmptyTable, Used
  <2> QED BY <2>1, FS_EmptySet DEF SizeExact, Used
<1> QED BY <1>1, <1>2, <1>3
        DEF Init, TableInv, TypeOK, Table, HopInfoExact, CallInv, DisplaceInv, MoveInv, CarriedInv,
            CountInv

\* The pair in a used bucket has a key.
LEMMA UsedPair ==
  ASSUME NEW n \in Nat, NEW T \in Table(n), TableOK(T, n), NEW p \in 0..n-1, T[p].used
  PROVE  T[p].kvp \in Kvp /\ T[p].kvp.first \in Keys
  BY DEF TableOK, SlotsHoldPairs, Table, Bucket, Kvp

\* A displacement in the map moves the pair of a bucket g to free, which becomes g.
LEMMA SwapEffect ==
  ASSUME TableInv, InsertSwap
  PROVE  \E g \in 0..size-1 :
           /\ table' \in Table(size) /\ TableOK(table', size)
           /\ free \in 0..size-1 /\ ~table[free].used /\ table[g].used
           /\ \A b \in 0..size-1 :
                /\ table'[b].used <=> b = free \/ (b # g /\ table[b].used)
                /\ table'[b].kvp = IF b = free THEN table[g].kvp
                                   ELSE IF b = g THEN NULL ELSE table[b].kvp
           /\ free' = g /\ distance' \in 0..size-1
           /\ free' = Forward(Locate(kvp.first, size), distance', size)
<1> USE DEF TableInv
<1>1. PICK i \in Hops, j \in Hops :
        /\ FirstMovable(table, size, free, i, j)
        /\ table' = Moved(table, size, free, i, j)
        /\ free' = Forward(Backward(free, i, size), j, size)
        /\ distance' = distance - (i - j)
  BY DEF InsertSwap
<1>2. /\ pc = "displace" /\ SLOTSIZE <= distance /\ pc' = pc
      /\ UNCHANGED <<size, used_size, newTable, newSize, cursor, kvp, out>>
  BY DEF InsertSwap, rehashVars
<1>3. size \in Nat \ {0} /\ table \in Table(size) /\ TableOK(table, size) /\ kvp \in Kvp
      /\ kvp.first \in Keys
  BY <1>2 DEF TypeOK, Table, HopInfoExact, CallInv, Kvp
<1> DEFINE h == Locate(kvp.first, size)
           g == Forward(Backward(free, i, size), j, size)
<1>4. h \in 0..size-1
  BY <1>3, LocateRange
<1>5. /\ distance \in 0..size-1 /\ free = Forward(h, distance, size) /\ ~table[free].used
      /\ Absent(table, size, kvp.first)
  BY <1>2 DEF DisplaceInv
<1>6. free \in 0..size-1
  BY <1>3, <1>4, <1>5, ForwardRange
<1>7. Movable(table, size, free, i, j) /\ i \in 1..distance /\ j \in 0..i-1 /\ i < size
  BY <1>1, <1>2, <1>3, <1>5, SizesAssumption DEF FirstMovable, Movable, Hops
<1>8. /\ table' \in Table(size) /\ TableOK(table', size)
      /\ g \in 0..size-1 /\ table[g].used
      /\ \A b \in 0..size-1 :
           /\ table'[b].used <=> b = free \/ (b # g /\ table[b].used)
           /\ table'[b].kvp = IF b = free THEN table[g].kvp
                              ELSE IF b = g THEN NULL ELSE table[b].kvp
  BY <1>1, <1>3, <1>5, <1>6, <1>7, MovedOK
<1>9. free' = Forward(h, distance', size) /\ distance' \in 0..size-1
  BY <1>1, <1>3, <1>4, <1>5, <1>7, CloserForward
<1> QED BY <1>1, <1>5, <1>6, <1>8, <1>9

\* A displacement in the map.
LEMMA SwapStep == TableInv /\ InsertSwap => TableInv'
<1> SUFFICES ASSUME TableInv, InsertSwap PROVE TableInv'
  OBVIOUS
<1> USE DEF TableInv
<1>1. /\ pc = "displace" /\ pc' = pc
      /\ UNCHANGED <<size, used_size, newTable, newSize, cursor, kvp, out>>
  BY DEF InsertSwap, rehashVars
<1>2. size \in Nat \ {0} /\ Absent(table, size, kvp.first)
  BY <1>1 DEF TypeOK, DisplaceInv
<1>3. PICK g \in 0..size-1 :
        /\ table' \in Table(size) /\ TableOK(table', size)
        /\ free \in 0..size-1 /\ ~table[free].used /\ table[g].used
        /\ \A b \in 0..size-1 :
             /\ table'[b].used <=> b = free \/ (b # g /\ table[b].used)
             /\ table'[b].kvp = IF b = free THEN table[g].kvp
                                ELSE IF b = g THEN NULL ELSE table[b].kvp
        /\ free' = g /\ distance' \in 0..size-1
        /\ free' = Forward(Locate(kvp.first, size), distance', size)
  BY SwapEffect
<1>4. Absent(table', size, kvp.first)
  BY <1>2, <1>3 DEF Absent
<1>5. ~table'[free'].used
  BY <1>3
<1>6. DisplaceInv'
  BY <1>1, <1>3, <1>4, <1>5 DEF DisplaceInv
<1>7. TypeOK' /\ HopInfoExact'
  BY <1>1, <1>3 DEF TypeOK, Table, HopInfoExact
<1>8. SizeExact'
  <2>1. Cardinality(Used(table', size)) = Cardinality(Used(table, size))
    <3>1. /\ size \in Nat /\ free \in 0..size-1 /\ ~table[free].used
          /\ g \in 0..size-1 /\ table[g].used
          /\ \A b \in 0..size-1 : table'[b].used <=> b = free \/ (b # g /\ table[b].used)
      BY <1>2, <1>3
    <3> QED BY ONLY <3>1, CountMoved
  <2> QED BY <1>1, <2>1 DEF SizeExact, Used
<1> QED BY <1>1, <1>6, <1>7, <1>8 DEF CallInv, MoveInv, CarriedInv, CountInv

\* The end of an insertion puts the argument, whose key is nowhere, into free.
LEMMA PlaceEffect ==
  ASSUME TableInv, InsertPlace
  PROVE  /\ size \in Nat \ {0} /\ table \in Table(size) /\ TableOK(table, size)
         /\ kvp \in Kvp /\ Absent(table, size, kvp.first)
         /\ free \in 0..size-1 /\ ~table[free].used
         /\ table' \in Table(size) /\ TableOK(table', size)
         /\ \A b \in 0..size-1 :
              /\ table'[b].used <=> b = free \/ table[b].used
              /\ table'[b].kvp = IF b = free THEN kvp ELSE table[b].kvp
<1> USE DEF TableInv
<1>1. /\ pc = "displace" /\ distance < SLOTSIZE
      /\ table' = Placed(table, Locate(kvp.first, size), free, distance, kvp)
  BY DEF InsertPlace
<1>2. size \in Nat \ {0} /\ table \in Table(size) /\ TableOK(table, size) /\ kvp \in Kvp
  BY <1>1 DEF TypeOK, Table, HopInfoExact, CallInv
<1>3. /\ distance \in Hops /\ distance < size
      /\ free = Forward(Locate(kvp.first, size), distance, size) /\ ~table[free].used
      /\ Absent(table, size, kvp.first)
  BY <1>1, <1>2, SizesAssumption DEF DisplaceInv, Hops
<1>4. /\ table' \in Table(size) /\ TableOK(table', size) /\ free \in 0..size-1
      /\ \A b \in 0..size-1 :
           /\ table'[b].used <=> b = free \/ table[b].used
           /\ table'[b].kvp = IF b = free THEN kvp ELSE table[b].kvp
  BY <1>1, <1>2, <1>3, PlacedOK
<1> QED BY <1>2, <1>3, <1>4

\* The end of an insertion.
LEMMA PlaceStep == TableInv /\ InsertPlace => TableInv'
<1> SUFFICES ASSUME TableInv, InsertPlace PROVE TableInv'
  OBVIOUS
<1> USE DEF TableInv
<1>1. /\ pc' = "idle" /\ used_size' = used_size + 1
      /\ kvp' = NULL /\ free' = NULL /\ distance' = 0
      /\ UNCHANGED <<size, newTable, newSize, cursor>>
  BY DEF InsertPlace, Return, rehashVars
<1>2. /\ size \in Nat \ {0} /\ free \in 0..size-1 /\ ~table[free].used
      /\ table' \in Table(size) /\ TableOK(table', size)
      /\ \A b \in 0..size-1 : table'[b].used <=> b = free \/ table[b].used
  BY PlaceEffect
<1>3. TypeOK' /\ HopInfoExact'
  BY <1>1, <1>2 DEF TypeOK, Table, HopInfoExact
<1>4. SizeExact'
  <2>1. Cardinality(Used(table', size)) = Cardinality(Used(table, size)) + 1
    BY <1>2, CountAdded
  <2> QED BY <1>1, <2>1 DEF SizeExact, Used
<1> QED BY <1>1, <1>3, <1>4 DEF CallInv, DisplaceInv, MoveInv, CarriedInv, CountInv

\* So does a displacement in the map bucket_extend() fills.
LEMMA MoveSwapEffect ==
  ASSUME TableInv, MoveSwap
  PROVE  \E g \in 0..newSize-1 :
           /\ newSize \in Nat \ {0}
           /\ newTable' \in Table(newSize) /\ TableOK(newTable', newSize)
           /\ free \in 0..newSize-1 /\ ~newTable[free].used /\ newTable[g].used
           /\ \A b \in 0..newSize-1 :
                /\ newTable'[b].used <=> b = free \/ (b # g /\ newTable[b].used)
                /\ newTable'[b].kvp = IF b = free THEN newTable[g].kvp
                                      ELSE IF b = g THEN NULL ELSE newTable[b].kvp
           /\ free' = g /\ distance' \in 0..newSize-1
           /\ free' = Forward(Locate(table[cursor].kvp.first, newSize), distance', newSize)
<1> USE DEF TableInv
<1>1. PICK i \in Hops, j \in Hops :
        /\ FirstMovable(newTable, newSize, free, i, j)
        /\ newTable' = Moved(newTable, newSize, free, i, j)
        /\ free' = Forward(Backward(free, i, newSize), j, newSize)
        /\ distance' = distance - (i - j)
  BY DEF MoveSwap
<1>2. /\ pc = "move" /\ SLOTSIZE <= distance /\ pc' = pc
      /\ UNCHANGED <<table, size, used_size, newSize, cursor, kvp, out>>
  BY DEF MoveSwap
<1>3. /\ newSize \in Nat \ {0} /\ newTable \in Table(newSize) /\ TableOK(newTable, newSize)
      /\ size \in Nat /\ table \in Table(size) /\ TableOK(table, size)
      /\ cursor \in 0..size-1 /\ table[cursor].used
  BY <1>2 DEF TypeOK, Table, HopInfoExact, CarriedInv, MoveInv
<1> DEFINE h == Locate(table[cursor].kvp.first, newSize)
           g == Forward(Backward(free, i, newSize), j, newSize)
<1>4. h \in 0..newSize-1
  BY <1>3, UsedPair, LocateRange
<1>5. /\ distance \in 0..newSize-1 /\ free = Forward(h, distance, newSize)
      /\ ~newTable[free].used
  BY <1>2 DEF MoveInv
<1>6. free \in 0..newSize-1
  BY <1>3, <1>4, <1>5, ForwardRange
<1>7. /\ Movable(newTable, newSize, free, i, j)
      /\ i \in 1..distance /\ j \in 0..i-1 /\ i < newSize
  BY <1>1, <1>2, <1>3, <1>5, SizesAssumption DEF FirstMovable, Movable, Hops
<1>8. /\ newTable' \in Table(newSize) /\ TableOK(newTable', newSize)
      /\ g \in 0..newSize-1 /\ newTable[g].used
      /\ \A b \in 0..newSize-1 :
           /\ newTable'[b].used <=> b = free \/ (b # g /\ newTable[b].used)
           /\ newTable'[b].kvp = IF b = free THEN newTable[g].kvp
                                 ELSE IF b = g THEN NULL ELSE newTable[b].kvp
  BY <1>1, <1>3, <1>5, <1>6, <1>7, MovedOK
<1>9. free' = Forward(h, distance', newSize) /\ distance' \in 0..newSize-1
  BY <1>1, <1>3, <1>4, <1>5, <1>7, CloserForward
<1> QED BY <1>1, <1>3, <1>5, <1>6, <1>8, <1>9

\* A displacement in the map bucket_extend() fills.
LEMMA MoveSwapStep == TableInv /\ MoveSwap => TableInv'
<1> SUFFICES ASSUME TableInv, MoveSwap PROVE TableInv'
  OBVIOUS
<1> USE DEF TableInv
<1>1. /\ pc = "move" /\ pc' = pc
      /\ UNCHANGED <<table, size, used_size, newSize, cursor, kvp, out>>
  BY DEF MoveSwap
<1>2. cursor < size /\ table[cursor].used
  BY <1>1 DEF MoveInv
<1>3. PICK g \in 0..newSize-1 :
        /\ newSize \in Nat \ {0}
        /\ newTable' \in Table(newSize) /\ TableOK(newTable', newSize)
        /\ free \in 0..newSize-1 /\ ~newTable[free].used /\ newTable[g].used
        /\ \A b \in 0..newSize-1 :
             /\ newTable'[b].used <=> b = free \/ (b # g /\ newTable[b].used)
             /\ newTable'[b].kvp = IF b = free THEN newTable[g].kvp
                                   ELSE IF b = g THEN NULL ELSE newTable[b].kvp
        /\ free' = g /\ distance' \in 0..newSize-1
        /\ free' = Forward(Locate(table[cursor].kvp.first, newSize), distance', newSize)
  BY MoveSwapEffect
<1>4. ~newTable'[free'].used
  BY <1>3
<1>5. MoveInv'
  BY <1>1, <1>2, <1>3, <1>4 DEF MoveInv
<1>6. CarriedInv'
  <2> SUFFICES ASSUME NEW q \in 0..newSize-1, newTable'[q].used
               PROVE  \E p \in 0..cursor-1 :
                        p < size /\ table[p].used /\ newTable'[q].kvp = table[p].kvp
    BY <1>1, <1>3 DEF CarriedInv
  <2>1. PICK b \in 0..newSize-1 : newTable[b].used /\ newTable'[q].kvp = newTable[b].kvp
    BY <1>3
  <2> QED BY <1>1, <2>1 DEF CarriedInv
<1>7. TypeOK' /\ HopInfoExact'
  BY <1>1, <1>3 DEF TypeOK, Table, HopInfoExact
<1>8. CountInv'
  <2>1. Cardinality(Used(newTable', newSize)) = Cardinality(Used(newTable, newSize))
    <3>1. /\ newSize \in Nat /\ free \in 0..newSize-1 /\ ~newTable[free].used
          /\ g \in 0..newSize-1 /\ newTable[g].used
          /\ \A b \in 0..newSize-1 : newTable'[b].used <=> b = free \/ (b # g /\ newTable[b].used)
      BY <1>3
    <3> QED BY ONLY <3>1, CountMoved
  <2> QED BY <1>1, <2>1 DEF CountInv, Used
<1> QED BY <1>1, <1>5, <1>6, <1>7, <1>8 DEF CallInv, DisplaceInv, SizeExact

\* The end of insert_unsafe() puts the pair at cursor into free.
LEMMA MovePlaceEffect ==
  ASSUME TableInv, MovePlace
  PROVE  /\ newSize \in Nat \ {0} /\ size \in Nat /\ cursor \in 0..size-1 /\ table[cursor].used
         /\ newTable' \in Table(newSize) /\ TableOK(newTable', newSize)
         /\ free \in 0..newSize-1 /\ ~newTable[free].used
         /\ \A b \in 0..newSize-1 :
              /\ newTable'[b].used <=> b = free \/ newTable[b].used
              /\ newTable'[b].kvp = IF b = free THEN table[cursor].kvp ELSE newTable[b].kvp
<1> USE DEF TableInv
<1> DEFINE pair == table[cursor].kvp
           h == Locate(pair.first, newSize)
<1>1. /\ pc = "move" /\ distance < SLOTSIZE /\ pc' = "rehash"
      /\ newTable' = Placed(newTable, h, free, distance, pair)
      /\ cursor' = cursor + 1 /\ free' = NULL /\ distance' = 0
      /\ UNCHANGED <<table, size, used_size, newSize, kvp>>
  BY DEF MovePlace
<1>2. /\ newSize \in Nat \ {0} /\ newTable \in Table(newSize) /\ TableOK(newTable, newSize)
      /\ size \in Nat /\ table \in Table(size) /\ TableOK(table, size)
      /\ cursor \in 0..size-1 /\ table[cursor].used
  BY <1>1 DEF TypeOK, Table, HopInfoExact, CarriedInv, MoveInv
<1>3. pair \in Kvp
  BY <1>2, UsedPair
<1>4. /\ distance \in Hops /\ distance < newSize
      /\ free = Forward(h, distance, newSize) /\ ~newTable[free].used
  BY <1>1, <1>2, SizesAssumption DEF MoveInv, Hops
<1>5. Absent(newTable, newSize, pair.first)
  <2> SUFFICES ASSUME NEW q \in 0..newSize-1, newTable[q].used, newTable[q].kvp.first = pair.first
               PROVE  FALSE
    BY DEF Absent
  <2>1. PICK p \in 0..cursor-1 : p < size /\ table[p].used /\ newTable[q].kvp = table[p].kvp
    BY <1>1 DEF CarriedInv
  <2> QED BY <1>2, <2>1 DEF TableOK, KeysAreUnique
<1>6. /\ newTable' \in Table(newSize) /\ TableOK(newTable', newSize)
      /\ free \in 0..newSize-1
      /\ \A b \in 0..newSize-1 :
           /\ newTable'[b].used <=> b = free \/ newTable[b].used
           /\ newTable'[b].kvp = IF b = free THEN pair ELSE newTable[b].kvp
  <2> HIDE DEF pair
  <2> QED BY <1>1, <1>2, <1>3, <1>4, <1>5, PlacedOK
<1> QED BY <1>2, <1>4, <1>6

\* The end of insert_unsafe() for the pair at cursor.
LEMMA MovePlaceStep == TableInv /\ MovePlace => TableInv'
<1> SUFFICES ASSUME TableInv, MovePlace PROVE TableInv'
  OBVIOUS
<1> USE DEF TableInv
<1>1. /\ pc = "move" /\ pc' = "rehash" /\ cursor' = cursor + 1 /\ free' = NULL /\ distance' = 0
      /\ UNCHANGED <<table, size, used_size, newSize, kvp>>
  BY DEF MovePlace
<1>2. /\ newSize \in Nat \ {0} /\ size \in Nat /\ cursor \in 0..size-1 /\ table[cursor].used
      /\ newTable' \in Table(newSize) /\ TableOK(newTable', newSize)
      /\ free \in 0..newSize-1 /\ ~newTable[free].used
      /\ \A b \in 0..newSize-1 :
           /\ newTable'[b].used <=> b = free \/ newTable[b].used
           /\ newTable'[b].kvp = IF b = free THEN table[cursor].kvp ELSE newTable[b].kvp
  BY MovePlaceEffect
<1>3. CarriedInv'
  <2> SUFFICES ASSUME NEW q \in 0..newSize-1, newTable'[q].used
               PROVE  \E p \in 0..cursor :
                        p < size /\ table[p].used /\ newTable'[q].kvp = table[p].kvp
    BY <1>1, <1>2 DEF CarriedInv
  <2>1. CASE q = free
    BY <1>2, <2>1
  <2>2. CASE q # free
    <3>1. newTable[q].used /\ newTable'[q].kvp = newTable[q].kvp
      BY <1>2, <2>2
    <3>2. PICK p \in 0..cursor-1 : p < size /\ table[p].used /\ newTable[q].kvp = table[p].kvp
      BY <1>1, <3>1 DEF CarriedInv
    <3> QED BY <1>2, <3>1, <3>2
  <2> QED BY <2>1, <2>2
<1>4. TypeOK' /\ HopInfoExact'
  BY <1>1, <1>2 DEF TypeOK, Table, HopInfoExact
<1>5. CountInv'
  <2>1. Cardinality(Used(newTable', newSize)) = Cardinality(Used(newTable, newSize)) + 1
    BY <1>2, CountAdded
  <2>2. Cardinality(Used(table, cursor + 1)) = Cardinality(Used(table, cursor)) + 1
    <3>1. /\ Used(table, cursor + 1) = Used(table, cursor) \cup {cursor}
          /\ cursor \notin Used(table, cursor)
      BY <1>2 DEF Used
    <3> QED BY <1>2, <3>1, UsedFinite, FS_AddElement
  <2>3. /\ Used(table', cursor') = Used(table, cursor + 1)
        /\ Used(newTable', newSize') = Used(newTable', newSize)
    BY <1>1 DEF Used
  <2> QED BY <1>1, <2>1, <2>2, <2>3 DEF CountInv
<1> QED BY <1>1, <1>3, <1>4, <1>5 DEF CallInv, DisplaceInv, MoveInv, SizeExact

\* erase() finds its owner, so it clears the bit and counts.
LEMMA EraseEffect ==
  ASSUME TableInv, NEW p \in 0..size-1, Erase(p)
  PROVE  /\ used_size' = used_size - 1
         /\ table' \in Table(size) /\ TableOK(table', size)
         /\ \A b \in 0..size-1 :
              /\ table'[b].used <=> b # p /\ table[b].used
              /\ table'[b].kvp = IF b = p THEN NULL ELSE table[b].kvp
<1>1. /\ pc = "idle" /\ table[p].used
      /\ UNCHANGED <<size, newTable, newSize, cursor, pc, kvp, free, distance>>
  BY DEF Erase, rehashVars
<1>2. size \in Nat \ {0} /\ table \in Table(size) /\ TableOK(table, size) /\ used_size \in Nat
  BY DEF TableInv, TypeOK, Table, HopInfoExact
<1> DEFINE h == Locate(table[p].kvp.first, size)
           g == Gap(h, p, size)
<1>3. /\ g \in table[h].hops /\ h \in 0..size-1
      /\ OwnerBits(table, size, p) = {g} /\ (p - g) % size = h
  BY <1>1, <1>2, OneOwner
<1>4. (CHOOSE x \in {g} : \A y \in {g} : x <= y) = g
  <2>1. g \in Nat
    BY <1>2, <1>3, SizesAssumption DEF Table, Bucket, Hops
  <2> HIDE DEF g
  <2> QED BY <2>1
<1>5. table' = Erased(table, p, h, g) /\ used_size' = used_size - 1
  <2> HIDE DEF g, h
  <2> QED BY <1>3, <1>4 DEF Erase, Erased
<1>6. /\ table' \in Table(size) /\ TableOK(table', size)
      /\ \A b \in 0..size-1 :
           /\ table'[b].used <=> b # p /\ table[b].used
           /\ table'[b].kvp = IF b = p THEN NULL ELSE table[b].kvp
  BY <1>1, <1>2, <1>5, ErasedOK
<1> QED BY <1>5, <1>6

\* An erasure.
LEMMA EraseStep == ASSUME TableInv, NEW p \in 0..size-1, Erase(p) PROVE TableInv'
<1>1. /\ pc = "idle" /\ table[p].used
      /\ UNCHANGED <<size, newTable, newSize, cursor, pc, kvp, free, distance>>
  BY DEF Erase, rehashVars
<1>2. size \in Nat \ {0} /\ used_size \in Nat
  BY DEF TableInv, TypeOK
<1>3. /\ used_size' = used_size - 1
      /\ table' \in Table(size) /\ TableOK(table', size)
      /\ \A b \in 0..size-1 : table'[b].used <=> b # p /\ table[b].used
  BY EraseEffect
<1>4. Cardinality(Used(table', size)) = Cardinality(Used(table, size)) - 1
  BY <1>1, <1>2, <1>3, CountRemoved
<1>5. SizeExact'
  BY <1>1, <1>3, <1>4 DEF TableInv, SizeExact, Used
<1>6. used_size' \in Nat
  <2>1. Cardinality(Used(table', size)) \in Nat
    BY <1>2, UsedFinite
  <2> QED BY <1>1, <1>5, <2>1 DEF SizeExact, Used
<1>7. TypeOK' /\ HopInfoExact'
  BY <1>1, <1>3, <1>6 DEF TableInv, TypeOK, Table, HopInfoExact
<1> QED BY <1>1, <1>5, <1>7 DEF TableInv, CallInv, DisplaceInv, MoveInv, CarriedInv, CountInv

\* bucket_extend() starts, or starts over, with an empty map of n buckets.
LEMMA NewMapStep ==
  ASSUME TableInv, pc # "idle", NEW n \in Nat \ {0}, NewMap(n),
         UNCHANGED <<table, size, used_size, kvp, out>>
  PROVE  TableInv'
<1>1. /\ newSize' = n /\ newTable' = EmptyTable(n) /\ cursor' = 0
      /\ free' = NULL /\ distance' = 0 /\ pc' \in {"rehash", "crashed"}
  BY DEF NewMap
<1>2. newTable' \in Table(newSize') /\ TableOK(newTable', newSize')
  BY <1>1, EmptyOK
<1>3. \A q \in 0..newSize'-1 : ~newTable'[q].used
  BY <1>1 DEF EmptyTable
<1>4. CountInv'
  <2>1. Used(newTable', newSize') = {} /\ Used(table', cursor') = {}
    BY <1>1, <1>3 DEF Used
  <2> QED BY <2>1 DEF CountInv
<1>5. CarriedInv'
  BY <1>1, <1>3 DEF CarriedInv
<1>6. TypeOK' /\ HopInfoExact' /\ SizeExact'
  BY <1>1, <1>2 DEF TableInv, TypeOK, Table, HopInfoExact, SizeExact
<1> QED BY <1>1, <1>4, <1>5, <1>6 DEF TableInv, CallInv, DisplaceInv, MoveInv

\* bucket_extend() starts with a map twice the size.
LEMMA ExtendBeginStep == TableInv /\ ExtendBegin => TableInv'
<1> SUFFICES ASSUME TableInv, ExtendBegin PROVE TableInv'
  OBVIOUS
<1>1. 2 * size \in Nat \ {0}
  BY DEF TableInv, TypeOK
<1> QED BY <1>1, NewMapStep DEF ExtendBegin

\* insert_unsafe() failed: a larger map.
LEMMA ExtendRetryStep == TableInv /\ ExtendRetry => TableInv'
<1> SUFFICES ASSUME TableInv, ExtendRetry PROVE TableInv'
  OBVIOUS
<1>1. pc \in {"rehash", "move"}
  BY DEF ExtendRetry, InsertUnsafeFails
<1>2. 2 * newSize \in Nat \ {0}
  BY <1>1 DEF TableInv, TypeOK, CarriedInv
<1> QED BY <1>1, <1>2, NewMapStep DEF ExtendRetry

\* The new map, which holds every pair, becomes the map.
LEMMA ExtendEndStep == TableInv /\ ExtendEnd => TableInv'
<1> SUFFICES ASSUME TableInv, ExtendEnd PROVE TableInv'
  OBVIOUS
<1>1. /\ pc = "rehash" /\ (\A p \in cursor..size-1 : ~table[p].used)
      /\ table' = newTable /\ size' = newSize
      /\ newTable' = EmptyTable(0) /\ newSize' = 0 /\ cursor' = 0 /\ pc' = "insert"
      /\ UNCHANGED <<used_size, kvp, free, distance, out>>
  BY DEF ExtendEnd
<1>2. newTable' \in Table(newSize') /\ TableOK(newTable', newSize')
  BY <1>1, EmptyOK
<1>3. newSize \in Nat \ {0}
  BY <1>1 DEF TableInv, TypeOK, CarriedInv
<1>4. TypeOK' /\ HopInfoExact'
  BY <1>1, <1>2, <1>3 DEF TableInv, TypeOK, Table, HopInfoExact
<1>5. SizeExact'
  <2>1. Used(table, cursor) = Used(table, size)
    BY <1>1 DEF Used, TableInv, TypeOK
  <2>2. used_size = Cardinality(Used(newTable, newSize))
    BY <1>1, <2>1 DEF TableInv, SizeExact, CountInv, Used
  <2> QED BY <1>1, <2>2 DEF SizeExact, Used
<1> QED BY <1>1, <1>4, <1>5 DEF TableInv, CallInv, DisplaceInv, MoveInv, CarriedInv, CountInv

\* An empty bucket of the new map for the next pair.
LEMMA RehashProbeStep == TableInv /\ RehashProbe => TableInv'
<1> SUFFICES ASSUME TableInv, RehashProbe PROVE TableInv'
  OBVIOUS
<1>1. PICK p \in 0..size-1, d \in 0..MaxDistance(newSize)-1 :
        /\ NextUsed(p)
        /\ EmptyAt(newTable, newSize, Locate(table[p].kvp.first, newSize), d)
        /\ cursor' = p
        /\ free' = Forward(Locate(table[p].kvp.first, newSize), d, newSize)
        /\ distance' = d
  BY DEF RehashProbe
<1>2. /\ pc = "rehash" /\ pc' = "move"
      /\ UNCHANGED <<table, size, used_size, newTable, newSize, kvp, out>>
  BY DEF RehashProbe
<1>3. /\ newSize \in Nat \ {0} /\ size \in Nat \ {0} /\ table \in Table(size)
      /\ TableOK(table, size) /\ cursor \in 0..size
  BY <1>2 DEF TableInv, TypeOK, Table, HopInfoExact, CarriedInv
<1>4. d \in 0..newSize-1
  BY <1>3, SizesAssumption DEF MaxDistance
<1>5. table[p].used /\ p >= cursor
  BY <1>1 DEF NextUsed
<1>6. Locate(table[p].kvp.first, newSize) \in 0..newSize-1
  BY <1>3, <1>5, UsedPair, LocateRange
<1>7. free' \in Nat /\ ~newTable[free'].used
  BY <1>1, <1>3, <1>4, <1>6, ForwardRange DEF EmptyAt
<1>8. TypeOK' /\ HopInfoExact' /\ SizeExact'
  BY <1>1, <1>2, <1>3, <1>4, <1>7 DEF TableInv, TypeOK, HopInfoExact, SizeExact
<1>9. MoveInv'
  BY <1>1, <1>2, <1>3, <1>4, <1>5, <1>7 DEF MoveInv
<1>10. CarriedInv'
  BY <1>1, <1>2, <1>3, <1>5 DEF TableInv, CarriedInv
<1>11. CountInv'
  <2>1. Used(table, p) = Used(table, cursor)
    BY <1>1, <1>3, <1>5 DEF Used, NextUsed
  <2> QED BY <1>1, <1>2, <2>1 DEF TableInv, CountInv, Used
<1> QED BY <1>2, <1>8, <1>9, <1>10, <1>11 DEF TableInv, CallInv, DisplaceInv

\* An empty bucket for the argument of insert().
LEMMA InsertProbeStep == TableInv /\ InsertProbe => TableInv'
<1> SUFFICES ASSUME TableInv, InsertProbe PROVE TableInv'
  OBVIOUS
<1> DEFINE h == Locate(kvp.first, size)
<1>1. /\ pc = "insert" /\ ~IsFound(table, size, kvp.first) /\ pc' = "displace"
      /\ UNCHANGED <<table, size, used_size, newTable, newSize, cursor, kvp, out>>
  BY DEF InsertProbe, rehashVars
<1>2. PICK d \in 0..MaxDistance(size)-1 :
        EmptyAt(table, size, h, d) /\ free' = Forward(h, d, size) /\ distance' = d
  BY DEF InsertProbe
<1>3. /\ size \in Nat \ {0} /\ table \in Table(size) /\ TableOK(table, size) /\ kvp \in Kvp
      /\ kvp.first \in Keys
  BY <1>1 DEF TableInv, TypeOK, Table, HopInfoExact, CallInv, Kvp
<1>4. d \in 0..size-1
  BY <1>3, SizesAssumption DEF MaxDistance
<1>5. h \in 0..size-1
  BY <1>3, LocateRange
<1>6. free' \in 0..size-1 /\ ~table[free'].used
  BY <1>2, <1>3, <1>4, <1>5, ForwardRange DEF EmptyAt
<1>7. Absent(table, size, kvp.first)
  BY <1>1, <1>3, NotFoundIsAbsent
<1>8. TypeOK' /\ HopInfoExact' /\ SizeExact'
  BY <1>1, <1>2, <1>4, <1>6 DEF TableInv, TypeOK, HopInfoExact, SizeExact
<1>9. DisplaceInv'
  BY <1>1, <1>2, <1>4, <1>6, <1>7 DEF DisplaceInv, Absent
<1> QED BY <1>1, <1>8, <1>9 DEF TableInv, CallInv, MoveInv, CarriedInv, CountInv

\* The steps that leave both tables alone.
LEMMA QuietStep ==
  ASSUME TableInv,
         UNCHANGED <<table, size, used_size, newTable, newSize, cursor>>,
         kvp' \in Kvp \cup {NULL}, free' \in Nat \cup {NULL}, distance' \in Nat,
         pc' \in {"idle", "insert", "extend"}, pc' # "idle" => kvp' \in Kvp
  PROVE  TableInv'
  BY DEF TableInv, TypeOK, HopInfoExact, SizeExact, CallInv, DisplaceInv, MoveInv, CarriedInv,
         CountInv

\* A copy throws in bucket_extend().
LEMMA MoveThrowStep == TableInv /\ MoveThrow => TableInv'
<1> SUFFICES ASSUME TableInv, MoveThrow PROVE TableInv'
  OBVIOUS
<1>1. /\ newTable' = EmptyTable(0) /\ newSize' = 0 /\ cursor' = 0
      /\ pc' = "idle" /\ kvp' = NULL /\ free' = NULL /\ distance' = 0
      /\ UNCHANGED <<table, size, used_size>>
  BY DEF MoveThrow, Return
<1>2. newTable' \in Table(newSize') /\ TableOK(newTable', newSize')
  BY <1>1, EmptyOK
<1>3. TypeOK' /\ HopInfoExact' /\ SizeExact'
  BY <1>1, <1>2 DEF TableInv, TypeOK, Table, HopInfoExact, SizeExact
<1> QED BY <1>1, <1>3 DEF TableInv, CallInv, DisplaceInv, MoveInv, CarriedInv, CountInv

\* Every step of the specification keeps TableInv.
LEMMA TableStep == TableInv /\ [Next]_vars => TableInv'
<1> SUFFICES ASSUME TableInv, [Next]_vars PROVE TableInv'
  OBVIOUS
<1> USE DEF rehashVars, Return
<1>1. ASSUME NEW pair \in Kvp, InsertCall(pair) PROVE TableInv'
  BY <1>1, QuietStep DEF InsertCall, TableInv, TypeOK
<1>2. ASSUME NEW k \in Keys, FindKey(k) PROVE TableInv'
  <2>1. UNCHANGED <<table, size, used_size, newTable, newSize, cursor, pc, kvp, free, distance>>
    BY <1>2 DEF FindKey
  <2> QED BY <1>2, <2>1, QuietStep DEF FindKey, TableInv, TypeOK
<1>3. ASSUME NEW p \in 0..size-1, Erase(p) PROVE TableInv'
  BY <1>3, EraseStep
<1>4. CASE InsertPresent
  BY <1>4, QuietStep DEF InsertPresent
<1>5. CASE InsertNoEmpty
  BY <1>5, QuietStep DEF InsertNoEmpty, TableInv, TypeOK, CallInv
<1>6. CASE InsertGiveUp
  BY <1>6, QuietStep DEF InsertGiveUp, TableInv, CallInv
<1>7. CASE InsertThrow
  BY <1>7, QuietStep DEF InsertThrow
<1>8. CASE UNCHANGED vars
  BY <1>8 DEF vars, TableInv, TypeOK, HopInfoExact, SizeExact, CallInv, DisplaceInv, MoveInv,
              CarriedInv, CountInv
<1> QED
  BY <1>1, <1>2, <1>3, <1>4, <1>5, <1>6, <1>7, <1>8, InsertProbeStep, SwapStep, PlaceStep,
     ExtendBeginStep, RehashProbeStep, ExtendRetryStep, MoveSwapStep, MovePlaceStep, MoveThrowStep,
     ExtendEndStep
  DEF Next, Call, Step

\* The asserts of a displacement.
LEMMA MoveAssertsHold ==
  ASSUME NEW n \in Nat \ {0}, NEW T \in Table(n), TableOK(T, n),
         free \in 0..n-1, ~T[free].used, SLOTSIZE < n
  PROVE  MoveAsserts(T, n)
<1> SUFFICES ASSUME NEW i \in Hops, NEW j \in Hops, FirstMovable(T, n, free, i, j)
             PROVE  /\ T[Forward(Backward(free, i, n), j, n)].used
                    /\ i \notin T[Backward(free, i, n)].hops
  BY DEF MoveAsserts
<1>1. Movable(T, n, free, i, j) /\ i < n
  BY SizesAssumption DEF FirstMovable, Hops
<1>2. Moved(T, n, free, i, j) = Moved(T, n, free, i, j)
  OBVIOUS
<1> QED BY <1>1, <1>2, MovedOK

\* The asserts around the placement of a pair with key k.
LEMMA PlaceAssertsHold ==
  ASSUME NEW n \in Nat \ {0}, NEW T \in Table(n), TableOK(T, n), NEW k \in Keys,
         distance \in 0..n-1, free = Forward(Locate(k, n), distance, n), ~T[free].used
  PROVE  PlaceAsserts(T, n, k) /\ free \in 0..n-1
<1>1. Locate(k, n) \in 0..n-1
  BY LocateRange
<1>2. distance \notin T[Locate(k, n)].hops
  BY <1>1 DEF TableOK, BitsNameElements
<1> QED BY <1>1, <1>2, ForwardRange DEF PlaceAsserts

\* TableInv implies the asserts.
LEMMA InvAsserts == TableInv => AssertsHold
<1> SUFFICES ASSUME TableInv PROVE AssertsHold
  OBVIOUS
<1>1. /\ size \in Nat \ {0} /\ table \in Table(size) /\ TableOK(table, size)
      /\ newTable \in Table(newSize) /\ TableOK(newTable, newSize) /\ newSize \in Nat
      /\ used_size \in Nat
  BY DEF TableInv, TypeOK, Table, HopInfoExact
<1>2. ASSUME pc = "displace"
      PROVE  /\ PlaceAsserts(table, size, kvp.first) /\ used_size + 1 <= size
             /\ SLOTSIZE <= distance => MoveAsserts(table, size)
  <2>1. kvp.first \in Keys
    BY <1>2 DEF TableInv, CallInv, Kvp
  <2>2. /\ distance \in 0..size-1 /\ free = Forward(Locate(kvp.first, size), distance, size)
        /\ ~table[free].used
    BY <1>2 DEF TableInv, DisplaceInv
  <2>3. PlaceAsserts(table, size, kvp.first) /\ free \in 0..size-1
    BY <1>1, <2>1, <2>2, PlaceAssertsHold
  <2>4. SLOTSIZE <= distance => MoveAsserts(table, size)
    BY <1>1, <2>2, <2>3, SizesAssumption, MoveAssertsHold
  <2>5. used_size + 1 <= size
    <3>1. Used(table, size) \subseteq (0..size-1) \ {free}
      BY <2>2 DEF Used
    <3>2. IsFiniteSet(0..size-1) /\ Cardinality(0..size-1) = size
      BY <1>1, FS_Interval
    <3>3. IsFiniteSet((0..size-1) \ {free}) /\ Cardinality((0..size-1) \ {free}) = size - 1
      BY <2>3, <3>2, FS_RemoveElement
    <3>4. Cardinality(Used(table, size)) <= size - 1
      BY <3>1, <3>3, FS_Subset
    <3>5. used_size = Cardinality(Used(table, size))
      BY DEF TableInv, SizeExact, Used
    <3> QED BY <1>1, <3>4, <3>5
  <2> QED BY <2>3, <2>4, <2>5
<1>3. ASSUME pc = "move"
      PROVE  /\ PlaceAsserts(newTable, newSize, table[cursor].kvp.first)
             /\ SLOTSIZE <= distance => MoveAsserts(newTable, newSize)
  <2>1. /\ newSize \in Nat \ {0} /\ distance \in 0..newSize-1 /\ ~newTable[free].used
        /\ free = Forward(Locate(table[cursor].kvp.first, newSize), distance, newSize)
    BY <1>1, <1>3 DEF TableInv, CarriedInv, MoveInv
  <2>2. cursor \in 0..size-1 /\ table[cursor].used
    BY <1>1, <1>3 DEF TableInv, TypeOK, MoveInv
  <2>3. table[cursor].kvp.first \in Keys
    BY <1>1, <2>2, UsedPair
  <2>4. PlaceAsserts(newTable, newSize, table[cursor].kvp.first) /\ free \in 0..newSize-1
    BY <1>1, <2>1, <2>3, PlaceAssertsHold
  <2> QED BY <1>1, <2>1, <2>4, SizesAssumption, MoveAssertsHold
<1> QED BY <1>2, <1>3 DEF AssertsHold

-------------------------------------------------------------------------------
\* TableInv is inductive.
THEOREM Invariance == Spec => []TableInv
  BY TableInit, TableStep, PTL DEF Spec

\* Every variable keeps its type (locals, sizes and both bucket arrays), whatever
\* the keys, the hash function, SLOTSIZE, HOP_RANGE and the initial size.
THEOREM Typing == Spec => []TypeOK
<1>1. TableInv => TypeOK
  BY DEF TableInv
<1> QED BY <1>1, Invariance, PTL

\* Hop bits and elements agree in every state of insert(), erase() and
\* bucket_extend(), so a key find() misses is in no bucket (NotFoundIsAbsent).
THEOREM HopInfo == Spec => []HopInfoExact
<1>1. TableInv => HopInfoExact
  BY DEF TableInv
<1> QED BY <1>1, Invariance, PTL

\* size() is the number of elements, for tables of any size.
THEOREM SizeIsExact == Spec => []SizeExact
<1>1. TableInv => SizeExact
  BY DEF TableInv
<1> QED BY <1>1, Invariance, PTL

\* No assert of the insertion code (map.hpp:163, 173, 177, 496, 508, 764) fails.
THEOREM Asserts == Spec => []AssertsHold
  BY InvAsserts, Invariance, PTL
-------------------------------------------------------------------------------
(* The dictionary a table represents.                                      *)

ContentsOf(T, n) ==
  [k \in Keys |->
    IF \E p \in 0..n-1 : T[p].used /\ T[p].kvp.first = k
    THEN T[CHOOSE p \in 0..n-1 : T[p].used /\ T[p].kvp.first = k].kvp.second
    ELSE NULL]

\* A pair of the table is an entry of the dictionary, a key in no bucket is absent.
LEMMA ContentsAre ==
  ASSUME NEW n \in Nat \ {0}, NEW T \in Table(n), TableOK(T, n), NEW C, C = ContentsOf(T, n)
  PROVE  /\ C = [k \in Keys |-> C[k]]
         /\ \A p \in 0..n-1 : T[p].used => C[T[p].kvp.first] = T[p].kvp.second
         /\ \A p \in 0..n-1 : T[p].used => T[p].kvp.second \in Values /\ T[p].kvp.first \in Keys
         /\ \A k \in Keys : C[k] = NULL <=> Absent(T, n, k)
<1>1. C = [k \in Keys |-> C[k]]
  BY DEF ContentsOf
<1>2. ASSUME NEW p \in 0..n-1, T[p].used
      PROVE  T[p].kvp.first \in Keys /\ T[p].kvp.second \in Values
  BY <1>2, UsedPair DEF Kvp
<1>3. ASSUME NEW p \in 0..n-1, T[p].used PROVE C[T[p].kvp.first] = T[p].kvp.second
  <2> DEFINE k == T[p].kvp.first
             c == CHOOSE q \in 0..n-1 : T[q].used /\ T[q].kvp.first = k
  <2>1. c \in 0..n-1 /\ T[c].used /\ T[c].kvp.first = k
    BY <1>3
  <2>2. c = p
    <3> HIDE DEF c
    <3> QED BY <1>3, <2>1 DEF TableOK, KeysAreUnique
  <2>3. C[k] = T[c].kvp.second
    <3>1. k \in Keys
      BY <1>2, <1>3
    <3>2. \E q \in 0..n-1 : T[q].used /\ T[q].kvp.first = k
      BY <1>3
    <3> HIDE DEF k
    <3> QED BY <3>1, <3>2 DEF ContentsOf
  <2> HIDE DEF c
  <2> QED BY <2>2, <2>3
<1>4. ASSUME NEW k \in Keys, Absent(T, n, k) PROVE C[k] = NULL
  BY <1>4 DEF ContentsOf, Absent
<1>5. ASSUME NEW k \in Keys, ~Absent(T, n, k) PROVE C[k] # NULL
  <2>1. PICK p \in 0..n-1 : T[p].used /\ T[p].kvp.first = k
    BY <1>5 DEF Absent
  <2>2. C[k] = T[p].kvp.second /\ T[p].kvp.second \in Values
    BY <1>2, <1>3, <2>1
  <2> QED BY <2>2, NullAssumption
<1> QED BY <1>1, <1>2, <1>3, <1>4, <1>5

\* Two tables, of whatever sizes, with the same pairs represent the same dictionary.
LEMMA SamePairs ==
  ASSUME NEW n \in Nat \ {0}, NEW T \in Table(n), TableOK(T, n),
         NEW m \in Nat \ {0}, NEW M \in Table(m), TableOK(M, m),
         \A p \in 0..n-1 : T[p].used => \E q \in 0..m-1 : M[q].used /\ M[q].kvp = T[p].kvp,
         \A q \in 0..m-1 : M[q].used => \E p \in 0..n-1 : T[p].used /\ M[q].kvp = T[p].kvp
  PROVE  ContentsOf(M, m) = ContentsOf(T, n)
<1> DEFINE C == ContentsOf(T, n)
           B == ContentsOf(M, m)
<1>1. /\ C = [k \in Keys |-> C[k]]
      /\ \A p \in 0..n-1 : T[p].used => C[T[p].kvp.first] = T[p].kvp.second
      /\ \A k \in Keys : C[k] = NULL <=> Absent(T, n, k)
  BY ContentsAre
<1>2. /\ B = [k \in Keys |-> B[k]]
      /\ \A q \in 0..m-1 : M[q].used => B[M[q].kvp.first] = M[q].kvp.second
      /\ \A k \in Keys : B[k] = NULL <=> Absent(M, m, k)
  BY ContentsAre
<1> HIDE DEF C, B
<1>3. ASSUME NEW k \in Keys PROVE B[k] = C[k]
  <2>1. CASE Absent(T, n, k)
    <3>1. Absent(M, m, k)
      BY <2>1 DEF Absent
    <3> QED BY <1>1, <1>2, <2>1, <3>1
  <2>2. CASE ~Absent(T, n, k)
    <3>1. PICK p \in 0..n-1 : T[p].used /\ T[p].kvp.first = k
      BY <2>2 DEF Absent
    <3>2. PICK q \in 0..m-1 : M[q].used /\ M[q].kvp = T[p].kvp
      BY <3>1
    <3>3. C[k] = T[p].kvp.second
      BY <1>1, <3>1
    <3>4. B[k] = M[q].kvp.second
      BY <1>2, <3>1, <3>2
    <3> QED BY <3>2, <3>3, <3>4
  <2> QED BY <2>1, <2>2
<1> QED BY <1>1, <1>2, <1>3 DEF B, C

\* A displacement keeps the dictionary.
LEMMA ContentsMoved ==
  ASSUME NEW n \in Nat \ {0}, NEW T \in Table(n), TableOK(T, n),
         NEW M \in Table(n), TableOK(M, n),
         NEW f \in 0..n-1, ~T[f].used, NEW g \in 0..n-1, T[g].used,
         \A b \in 0..n-1 :
           /\ M[b].used <=> b = f \/ (b # g /\ T[b].used)
           /\ M[b].kvp = IF b = f THEN T[g].kvp ELSE IF b = g THEN NULL ELSE T[b].kvp
  PROVE  ContentsOf(M, n) = ContentsOf(T, n)
<1>1. ASSUME NEW p \in 0..n-1, T[p].used PROVE \E q \in 0..n-1 : M[q].used /\ M[q].kvp = T[p].kvp
  <2>1. CASE p = g
    <3>1. M[f].used /\ M[f].kvp = T[p].kvp
      BY <2>1
    <3> QED BY <3>1
  <2>2. CASE p # g
    <3>1. M[p].used /\ M[p].kvp = T[p].kvp
      BY <1>1, <2>2
    <3> QED BY <3>1
  <2> QED BY <2>1, <2>2
<1>2. ASSUME NEW q \in 0..n-1, M[q].used PROVE \E p \in 0..n-1 : T[p].used /\ M[q].kvp = T[p].kvp
  <2>1. CASE q = f
    <3>1. T[g].used /\ M[q].kvp = T[g].kvp
      BY <2>1
    <3> QED BY <3>1
  <2>2. CASE q # f
    <3>1. T[q].used /\ M[q].kvp = T[q].kvp
      BY <1>2, <2>2
    <3> QED BY <3>1
  <2> QED BY <2>1, <2>2
<1> QED BY <1>1, <1>2, SamePairs

\* A placed pair becomes an entry.
LEMMA ContentsPlaced ==
  ASSUME NEW n \in Nat \ {0}, NEW T \in Table(n), TableOK(T, n),
         NEW M \in Table(n), TableOK(M, n),
         NEW pair \in Kvp, Absent(T, n, pair.first), NEW f \in 0..n-1, ~T[f].used,
         \A b \in 0..n-1 :
           /\ M[b].used <=> b = f \/ T[b].used
           /\ M[b].kvp = IF b = f THEN pair ELSE T[b].kvp
  PROVE  ContentsOf(M, n) = [ContentsOf(T, n) EXCEPT ![pair.first] = pair.second]
<1> DEFINE C == ContentsOf(T, n)
           B == ContentsOf(M, n)
<1>1. /\ C = [k \in Keys |-> C[k]]
      /\ \A p \in 0..n-1 : T[p].used => C[T[p].kvp.first] = T[p].kvp.second
      /\ \A k \in Keys : C[k] = NULL <=> Absent(T, n, k)
  BY ContentsAre
<1>2. /\ B = [k \in Keys |-> B[k]]
      /\ \A q \in 0..n-1 : M[q].used => B[M[q].kvp.first] = M[q].kvp.second
      /\ \A k \in Keys : B[k] = NULL <=> Absent(M, n, k)
  BY ContentsAre
<1> HIDE DEF C, B
<1>3. B[pair.first] = pair.second
  BY <1>2
<1>4. ASSUME NEW k \in Keys, k # pair.first PROVE B[k] = C[k]
  <2>1. CASE Absent(T, n, k)
    <3>1. Absent(M, n, k)
      BY <1>4, <2>1 DEF Absent
    <3> QED BY <1>1, <1>2, <2>1, <3>1
  <2>2. CASE ~Absent(T, n, k)
    <3>1. PICK p \in 0..n-1 : T[p].used /\ T[p].kvp.first = k
      BY <2>2 DEF Absent
    <3>2. M[p].used /\ M[p].kvp = T[p].kvp
      BY <3>1
    <3> QED BY <1>1, <1>2, <3>1, <3>2
  <2> QED BY <2>1, <2>2
<1>5. B = [C EXCEPT ![pair.first] = pair.second]
  BY <1>1, <1>2, <1>3, <1>4
<1> QED BY <1>5 DEF B, C

\* An erased pair is no entry any more.
LEMMA ContentsErased ==
  ASSUME NEW n \in Nat \ {0}, NEW T \in Table(n), TableOK(T, n),
         NEW M \in Table(n), TableOK(M, n), NEW e \in 0..n-1, T[e].used,
         \A b \in 0..n-1 :
           /\ M[b].used <=> b # e /\ T[b].used
           /\ M[b].kvp = IF b = e THEN NULL ELSE T[b].kvp
  PROVE  ContentsOf(M, n) = [ContentsOf(T, n) EXCEPT ![T[e].kvp.first] = NULL]
<1> DEFINE C == ContentsOf(T, n)
           B == ContentsOf(M, n)
           key == T[e].kvp.first
<1>1. /\ C = [k \in Keys |-> C[k]]
      /\ \A p \in 0..n-1 : T[p].used => C[T[p].kvp.first] = T[p].kvp.second
      /\ \A k \in Keys : C[k] = NULL <=> Absent(T, n, k)
      /\ key \in Keys
  BY ContentsAre
<1>2. /\ B = [k \in Keys |-> B[k]]
      /\ \A q \in 0..n-1 : M[q].used => B[M[q].kvp.first] = M[q].kvp.second
      /\ \A k \in Keys : B[k] = NULL <=> Absent(M, n, k)
  BY ContentsAre
<1> HIDE DEF C, B
<1>3. B[key] = NULL
  <2>1. Absent(M, n, key)
    BY DEF Absent, TableOK, KeysAreUnique
  <2> QED BY <1>1, <1>2, <2>1
<1>4. ASSUME NEW k \in Keys, k # key PROVE B[k] = C[k]
  <2>1. CASE Absent(T, n, k)
    <3>1. Absent(M, n, k)
      BY <2>1 DEF Absent
    <3> QED BY <1>1, <1>2, <2>1, <3>1
  <2>2. CASE ~Absent(T, n, k)
    <3>1. PICK p \in 0..n-1 : T[p].used /\ T[p].kvp.first = k
      BY <2>2 DEF Absent
    <3>2. M[p].used /\ M[p].kvp = T[p].kvp
      BY <1>4, <3>1
    <3> QED BY <1>1, <1>2, <3>1, <3>2
  <2> QED BY <2>1, <2>2
<1> HIDE DEF key
<1>5. B = [C EXCEPT ![key] = NULL]
  BY <1>1, <1>2, <1>3, <1>4
<1> QED BY <1>5 DEF B, C, key

\* What find() returns is the entry of the dictionary.
LEMMA ContentsFound ==
  ASSUME NEW n \in Nat \ {0}, NEW T \in Table(n), TableOK(T, n), NEW k \in Keys
  PROVE  /\ \A p \in 0..n-1 : FoundAt(T, n, k, p) => ContentsOf(T, n)[k] = T[p].kvp.second
         /\ IsFound(T, n, k) <=> ContentsOf(T, n)[k] # NULL
<1> DEFINE h == Locate(k, n)
           C == ContentsOf(T, n)
<1>1. h \in 0..n-1
  BY LocateRange
<1>2. ASSUME NEW j \in Hops, Hit(T, n, k, j)
      PROVE  /\ Forward(h, j, n) \in 0..n-1
             /\ T[Forward(h, j, n)].used /\ T[Forward(h, j, n)].kvp.first = k
  <2>1. j \in 0..n-1
    BY <1>1, <1>2, SizesAssumption DEF Hit, TableOK, BitsNameElements, Hops
  <2> QED BY <1>1, <1>2, <2>1, ForwardRange DEF Hit
<1>3. /\ \A p \in 0..n-1 : T[p].used => C[T[p].kvp.first] = T[p].kvp.second
      /\ C[k] = NULL <=> Absent(T, n, k)
  BY ContentsAre
<1> HIDE DEF h, C
<1>4. ASSUME NEW p \in 0..n-1, FoundAt(T, n, k, p) PROVE C[k] = T[p].kvp.second
  <2>1. PICK j \in Hops : Hit(T, n, k, j) /\ p = Forward(h, j, n)
    BY <1>4 DEF FoundAt, h
  <2> QED BY <1>2, <1>3, <2>1
<1>5. IsFound(T, n, k) => C[k] # NULL
  BY <1>2, <1>3 DEF IsFound, Absent
<1>6. ~IsFound(T, n, k) => C[k] = NULL
  BY <1>3, NotFoundIsAbsent
<1> QED BY <1>4, <1>5, <1>6 DEF C

-------------------------------------------------------------------------------
(* Every step is a step of the dictionary, or none that its caller can see. *)

\* The key being inserted is in no bucket from the probe to the end of the call ...
AbsentInv ==
  pc \in {"extend", "rehash", "move"} => Absent(table, size, kvp.first)

\* ... and the new map holds every pair the iterator of bucket_extend() has passed.
AllCarriedInv ==
  pc \in {"rehash", "move"} =>
    \A p \in 0..size-1 : p < cursor /\ table[p].used =>
      \E q \in 0..newSize-1 : newTable[q].used /\ newTable[q].kvp = table[p].kvp

RefInv == AbsentInv /\ AllCarriedInv

\* The table is that of a dictionary, in every state.
LEMMA TableFacts ==
  ASSUME TableInv
  PROVE  /\ size \in Nat \ {0} /\ table \in Table(size) /\ TableOK(table, size)
         /\ Contents = ContentsOf(table, size)
         /\ pc # "idle" => kvp \in Kvp /\ kvp.first \in Keys /\ kvp.second \in Values
  BY DEF TableInv, TypeOK, Table, HopInfoExact, Contents, ContentsOf, CallInv, Kvp

\* The steps that touch neither table, and tell the caller nothing.
LEMMA SilentStep ==
  ASSUME UNCHANGED <<table, size, out>>
  PROVE  UNCHANGED D!dictVars
  BY DEF D!dictVars, Contents

\* A displacement in the map moves a pair and is silent.
LEMMA SwapRef ==
  ASSUME TableInv, InsertSwap
  PROVE  UNCHANGED D!dictVars /\ RefInv'
<1>1. /\ pc = "displace" /\ pc' = pc /\ UNCHANGED <<size, out>>
  BY DEF InsertSwap
<1>2. /\ size \in Nat \ {0} /\ table \in Table(size) /\ TableOK(table, size)
      /\ Contents = ContentsOf(table, size)
  BY TableFacts
<1>3. ContentsOf(table', size) = ContentsOf(table, size)
  BY <1>2, SwapEffect, ContentsMoved
<1>4. Contents' = ContentsOf(table', size)
  BY <1>1 DEF Contents, ContentsOf
<1>5. RefInv'
  BY <1>1 DEF RefInv, AbsentInv, AllCarriedInv
<1> QED BY <1>1, <1>2, <1>3, <1>4, <1>5 DEF D!dictVars

\* The placement of the argument is the insertion.
LEMMA PlaceRef ==
  ASSUME TableInv, InsertPlace
  PROVE  D!Next /\ RefInv'
<1>1. /\ pc = "displace" /\ pc' = "idle" /\ size' = size
      /\ out' = Response("insert", kvp.first, "inserted")
  BY DEF InsertPlace, Return
<1>2. /\ size \in Nat \ {0} /\ table \in Table(size) /\ TableOK(table, size)
      /\ Contents = ContentsOf(table, size)
      /\ kvp \in Kvp /\ kvp.first \in Keys /\ kvp.second \in Values
  BY <1>1, TableFacts
<1>3. ContentsOf(table', size) = [ContentsOf(table, size) EXCEPT ![kvp.first] = kvp.second]
  BY PlaceEffect, ContentsPlaced
<1>4. Contents' = ContentsOf(table', size)
  BY <1>1 DEF Contents, ContentsOf
<1>5. Contents[kvp.first] = NULL
  BY <1>2, PlaceEffect, ContentsAre
<1>6. D!Insert(kvp.first, kvp.second)
  BY <1>1, <1>2, <1>3, <1>4, <1>5 DEF D!Insert, D!Response, Response
<1>7. RefInv'
  BY <1>1 DEF RefInv, AbsentInv, AllCarriedInv
<1> QED BY <1>2, <1>6, <1>7 DEF D!Next

\* A pair the new map holds stays there when bucket_extend() displaces it.
LEMMA MoveSwapRef ==
  ASSUME TableInv, RefInv, MoveSwap
  PROVE  UNCHANGED D!dictVars /\ RefInv'
<1>1. /\ pc = "move" /\ pc' = pc
      /\ UNCHANGED <<table, size, newSize, cursor, kvp, out>>
  BY DEF MoveSwap
<1>2. UNCHANGED D!dictVars
  BY <1>1, SilentStep
<1>3. PICK g \in 0..newSize-1 :
        /\ free \in 0..newSize-1 /\ ~newTable[free].used /\ newTable[g].used
        /\ \A b \in 0..newSize-1 :
             /\ newTable'[b].used <=> b = free \/ (b # g /\ newTable[b].used)
             /\ newTable'[b].kvp = IF b = free THEN newTable[g].kvp
                                   ELSE IF b = g THEN NULL ELSE newTable[b].kvp
  BY MoveSwapEffect
<1>4. ASSUME NEW p \in 0..size-1, p < cursor, table[p].used
      PROVE  \E q \in 0..newSize-1 : newTable'[q].used /\ newTable'[q].kvp = table[p].kvp
  <2>1. PICK q \in 0..newSize-1 : newTable[q].used /\ newTable[q].kvp = table[p].kvp
    BY <1>1, <1>4 DEF RefInv, AllCarriedInv
  <2>2. CASE q = g
    <3>1. newTable'[free].used /\ newTable'[free].kvp = table[p].kvp
      BY <1>3, <2>1, <2>2
    <3> QED BY <1>3, <3>1
  <2>3. CASE q # g
    <3>1. newTable'[q].used /\ newTable'[q].kvp = table[p].kvp
      BY <1>3, <2>1, <2>3
    <3> QED BY <3>1
  <2> QED BY <2>2, <2>3
<1>5. AbsentInv' /\ AllCarriedInv'
  BY <1>1, <1>4 DEF RefInv, AbsentInv, AllCarriedInv, Absent
<1> QED BY <1>2, <1>5 DEF RefInv

\* The pair at cursor joins them.
LEMMA MovePlaceRef ==
  ASSUME TableInv, RefInv, MovePlace
  PROVE  UNCHANGED D!dictVars /\ RefInv'
<1>1. /\ pc = "move" /\ cursor' = cursor + 1
      /\ UNCHANGED <<table, size, newSize, kvp, out>>
  BY DEF MovePlace
<1>2. UNCHANGED D!dictVars
  BY <1>1, SilentStep
<1>3. /\ cursor \in 0..size-1 /\ free \in 0..newSize-1 /\ ~newTable[free].used
      /\ \A b \in 0..newSize-1 :
           /\ newTable'[b].used <=> b = free \/ newTable[b].used
           /\ newTable'[b].kvp = IF b = free THEN table[cursor].kvp ELSE newTable[b].kvp
  BY MovePlaceEffect
<1>4. ASSUME NEW p \in 0..size-1, p < cursor + 1, table[p].used
      PROVE  \E q \in 0..newSize-1 : newTable'[q].used /\ newTable'[q].kvp = table[p].kvp
  <2>1. CASE p = cursor
    <3>1. newTable'[free].used /\ newTable'[free].kvp = table[p].kvp
      BY <1>3, <2>1
    <3> QED BY <1>3, <3>1
  <2>2. CASE p # cursor
    <3>1. PICK q \in 0..newSize-1 : newTable[q].used /\ newTable[q].kvp = table[p].kvp
      BY <1>1, <1>3, <1>4, <2>2 DEF RefInv, AllCarriedInv
    <3>2. newTable'[q].used /\ newTable'[q].kvp = table[p].kvp
      BY <1>3, <3>1
    <3> QED BY <3>2
  <2> QED BY <2>1, <2>2
<1>5. AbsentInv' /\ AllCarriedInv'
  BY <1>1, <1>4 DEF RefInv, AbsentInv, AllCarriedInv, Absent, MovePlace
<1> QED BY <1>2, <1>5 DEF RefInv

\* The new map replaces the old one when it holds all its pairs: nobody can tell.
LEMMA ExtendEndRef ==
  ASSUME TableInv, RefInv, ExtendEnd
  PROVE  UNCHANGED D!dictVars /\ RefInv'
<1>1. /\ pc = "rehash" /\ (\A p \in cursor..size-1 : ~table[p].used)
      /\ table' = newTable /\ size' = newSize /\ pc' = "insert" /\ out' = out
  BY DEF ExtendEnd
<1>2. /\ size \in Nat \ {0} /\ table \in Table(size) /\ TableOK(table, size)
      /\ Contents = ContentsOf(table, size)
  BY TableFacts
<1>3. newSize \in Nat \ {0} /\ newTable \in Table(newSize) /\ TableOK(newTable, newSize)
  BY <1>1 DEF TableInv, TypeOK, Table, HopInfoExact, CarriedInv
<1>4. cursor \in 0..size
  BY DEF TableInv, TypeOK
<1>5. ASSUME NEW p \in 0..size-1, table[p].used
      PROVE  \E q \in 0..newSize-1 : newTable[q].used /\ newTable[q].kvp = table[p].kvp
  <2>1. p < cursor
    BY <1>1, <1>2, <1>4, <1>5
  <2> QED BY <1>1, <1>5, <2>1 DEF RefInv, AllCarriedInv
<1>6. ASSUME NEW q \in 0..newSize-1, newTable[q].used
      PROVE  \E p \in 0..size-1 : table[p].used /\ newTable[q].kvp = table[p].kvp
  <2>1. PICK p \in 0..cursor-1 : p < size /\ table[p].used /\ newTable[q].kvp = table[p].kvp
    BY <1>1, <1>6 DEF TableInv, CarriedInv
  <2>2. p \in 0..size-1
    BY <1>2, <1>4, <2>1
  <2> QED BY <2>1, <2>2
<1>7. ContentsOf(newTable, newSize) = ContentsOf(table, size)
  BY <1>2, <1>3, <1>5, <1>6, SamePairs
<1>8. Contents' = ContentsOf(newTable, newSize)
  BY <1>1 DEF Contents, ContentsOf
<1>9. RefInv'
  BY <1>1 DEF RefInv, AbsentInv, AllCarriedInv
<1> QED BY <1>1, <1>2, <1>7, <1>8, <1>9 DEF D!dictVars

\* bucket_extend() starts, or starts over, with an empty map.
LEMMA NewMapRef ==
  ASSUME RefInv, pc \in {"extend", "rehash", "move"}, NEW n, NewMap(n),
         UNCHANGED <<table, size, kvp, out>>
  PROVE  UNCHANGED D!dictVars /\ RefInv'
<1>1. cursor' = 0
  BY DEF NewMap
<1>2. AbsentInv' /\ AllCarriedInv'
  BY <1>1 DEF RefInv, AbsentInv, AllCarriedInv, Absent
<1> QED BY <1>2, SilentStep DEF RefInv

\* The iterator skips unused buckets only.
LEMMA RehashProbeRef ==
  ASSUME TableInv, RefInv, RehashProbe
  PROVE  UNCHANGED D!dictVars /\ RefInv'
<1>1. PICK p \in 0..size-1 : NextUsed(p) /\ cursor' = p
  BY DEF RehashProbe
<1>2. pc = "rehash" /\ pc' = "move" /\ UNCHANGED <<table, size, newTable, newSize, kvp, out>>
  BY DEF RehashProbe
<1>3. ASSUME NEW b \in 0..size-1, b < p, table[b].used PROVE b < cursor
  BY <1>1, <1>3 DEF NextUsed, TableInv, TypeOK
<1>4. AbsentInv' /\ AllCarriedInv'
  BY <1>1, <1>2, <1>3 DEF RefInv, AbsentInv, AllCarriedInv, Absent
<1> QED BY <1>2, <1>4, SilentStep DEF RefInv

\* insert() finds no room: its key is in no bucket.
LEMMA ToExtendRef ==
  ASSUME TableInv, InsertNoEmpty \/ InsertGiveUp
  PROVE  UNCHANGED D!dictVars /\ RefInv'
<1>1. pc \in {"insert", "displace"} /\ pc' = "extend" /\ UNCHANGED <<table, size, kvp, out>>
  BY DEF InsertNoEmpty, InsertGiveUp
<1>2. Absent(table, size, kvp.first)
  <2>1. CASE InsertNoEmpty
    BY <1>1, <2>1, TableFacts, NotFoundIsAbsent DEF InsertNoEmpty
  <2>2. CASE InsertGiveUp
    BY <2>2 DEF InsertGiveUp, TableInv, DisplaceInv
  <2> QED BY <2>1, <2>2
<1>3. AbsentInv' /\ AllCarriedInv'
  BY <1>1, <1>2 DEF AbsentInv, AllCarriedInv, Absent
<1> QED BY <1>1, <1>3, SilentStep DEF RefInv

\* An exception leaves insert() with the contents as they were.
LEMMA ThrowRef ==
  ASSUME TableInv, RefInv, InsertThrow \/ MoveThrow
  PROVE  D!Next /\ RefInv'
<1>1. /\ pc \in {"displace", "move"} /\ pc' = "idle"
      /\ UNCHANGED <<table, size>> /\ out' = Response("insert", kvp.first, "thrown")
  BY DEF InsertThrow, MoveThrow, Return
<1>2. Absent(table, size, kvp.first)
  BY <1>1 DEF RefInv, AbsentInv, TableInv, DisplaceInv
<1>3. kvp.first \in Keys /\ Contents[kvp.first] = NULL
  BY <1>1, <1>2, TableFacts, ContentsAre
<1>4. Contents' = Contents
  BY <1>1 DEF Contents
<1>5. D!InsertThrows(kvp.first)
  BY <1>1, <1>3, <1>4 DEF D!InsertThrows, D!Response, Response
<1>6. RefInv'
  BY <1>1 DEF RefInv, AbsentInv, AllCarriedInv
<1> QED BY <1>3, <1>5, <1>6 DEF D!Next

\* insert() of a key the map has.
LEMMA PresentRef ==
  ASSUME TableInv, InsertPresent
  PROVE  D!Next /\ RefInv'
<1>1. /\ pc = "insert" /\ IsFound(table, size, kvp.first) /\ pc' = "idle"
      /\ UNCHANGED <<table, size>> /\ out' = Response("insert", kvp.first, "present")
  BY DEF InsertPresent, Return
<1>2. kvp.first \in Keys /\ kvp.second \in Values /\ Contents[kvp.first] # NULL
  BY <1>1, TableFacts, ContentsFound
<1>3. Contents' = Contents
  BY <1>1 DEF Contents
<1>4. D!Insert(kvp.first, kvp.second)
  BY <1>1, <1>2, <1>3 DEF D!Insert, D!Response, Response
<1>5. RefInv'
  BY <1>1 DEF RefInv, AbsentInv, AllCarriedInv
<1> QED BY <1>2, <1>4, <1>5 DEF D!Next

\* find() returns the entry.
LEMMA FindRef ==
  ASSUME TableInv, NEW k \in Keys, FindKey(k)
  PROVE  D!Next /\ RefInv'
<1>1. pc = "idle" /\ pc' = "idle" /\ UNCHANGED <<table, size>>
  BY DEF FindKey
<1>2. out' = Response("find", k, Contents[k])
  <2>1. CASE \E p \in 0..size-1 :
               FoundAt(table, size, k, p) /\ out' = Response("find", k, table[p].kvp.second)
    BY <2>1, TableFacts, ContentsFound
  <2>2. CASE ~IsFound(table, size, k) /\ out' = Response("find", k, NULL)
    BY <2>2, TableFacts, ContentsFound
  <2> QED BY <2>1, <2>2 DEF FindKey
<1>3. Contents' = Contents
  BY <1>1 DEF Contents
<1>4. D!Find(k)
  BY <1>2, <1>3 DEF D!Find, D!Response, Response
<1>5. RefInv'
  BY <1>1 DEF RefInv, AbsentInv, AllCarriedInv
<1> QED BY <1>4, <1>5 DEF D!Next

\* erase() removes the entry.
LEMMA EraseRef ==
  ASSUME TableInv, NEW p \in 0..size-1, Erase(p)
  PROVE  D!Next /\ RefInv'
<1> DEFINE k == table[p].kvp.first
<1>1. /\ pc = "idle" /\ pc' = "idle" /\ size' = size /\ table[p].used
      /\ out' = Response("erase", k, "erased")
  BY DEF Erase
<1>2. /\ size \in Nat \ {0} /\ table \in Table(size) /\ TableOK(table, size)
      /\ Contents = ContentsOf(table, size)
  BY TableFacts
<1>3. ContentsOf(table', size) = [ContentsOf(table, size) EXCEPT ![k] = NULL]
  BY <1>1, <1>2, EraseEffect, ContentsErased
<1>4. Contents' = ContentsOf(table', size)
  BY <1>1 DEF Contents, ContentsOf
<1>5. k \in Keys /\ Contents[k] # NULL
  BY <1>1, <1>2, ContentsAre DEF Absent
<1> HIDE DEF k
<1>6. D!Erase(k)
  BY <1>1, <1>2, <1>3, <1>4, <1>5 DEF D!Erase, D!Response, Response
<1>7. RefInv'
  BY <1>1 DEF RefInv, AbsentInv, AllCarriedInv
<1> QED BY <1>5, <1>6, <1>7 DEF D!Next

\* Every step of the table is one of the dictionary, or silent.
LEMMA RefStep ==
  ASSUME TableInv, RefInv, [Next]_vars
  PROVE  [D!Next]_(D!dictVars) /\ RefInv'
<1> DEFINE Goal == [D!Next]_(D!dictVars) /\ RefInv'
<1> HIDE DEF Goal
<1>1. ASSUME NEW pair \in Kvp, InsertCall(pair) PROVE Goal
  <2>1. UNCHANGED <<table, size, out>> /\ pc' = "insert"
    BY <1>1 DEF InsertCall
  <2> QED BY <2>1, SilentStep DEF Goal, RefInv, AbsentInv, AllCarriedInv
<1>2. ASSUME NEW k \in Keys, FindKey(k) PROVE Goal
  BY <1>2, FindRef DEF Goal
<1>3. ASSUME NEW p \in 0..size-1, Erase(p) PROVE Goal
  BY <1>3, EraseRef DEF Goal
<1>4. ASSUME InsertPresent PROVE Goal
  BY <1>4, PresentRef DEF Goal
<1>5. ASSUME InsertProbe PROVE Goal
  <2>1. UNCHANGED <<table, size, out>> /\ pc' = "displace"
    BY <1>5 DEF InsertProbe
  <2> QED BY <2>1, SilentStep DEF Goal, RefInv, AbsentInv, AllCarriedInv
<1>6. ASSUME InsertNoEmpty \/ InsertGiveUp PROVE Goal
  BY <1>6, ToExtendRef DEF Goal
<1>7. ASSUME InsertSwap PROVE Goal
  BY <1>7, SwapRef DEF Goal
<1>8. ASSUME InsertPlace PROVE Goal
  BY <1>8, PlaceRef DEF Goal
<1>9. ASSUME InsertThrow \/ MoveThrow PROVE Goal
  BY <1>9, ThrowRef DEF Goal
<1>10. ASSUME ExtendBegin \/ ExtendRetry PROVE Goal
  BY <1>10, NewMapRef DEF Goal, ExtendBegin, ExtendRetry, InsertUnsafeFails
<1>11. ASSUME RehashProbe PROVE Goal
  BY <1>11, RehashProbeRef DEF Goal
<1>12. ASSUME MoveSwap PROVE Goal
  BY <1>12, MoveSwapRef DEF Goal
<1>13. ASSUME MovePlace PROVE Goal
  BY <1>13, MovePlaceRef DEF Goal
<1>14. ASSUME ExtendEnd PROVE Goal
  BY <1>14, ExtendEndRef DEF Goal
<1>15. ASSUME UNCHANGED vars PROVE Goal
  <2>1. UNCHANGED <<table, size, newTable, newSize, cursor, pc, kvp, out>>
    BY <1>15 DEF vars
  <2> QED BY <2>1, SilentStep DEF Goal, RefInv, AbsentInv, AllCarriedInv, Absent
<1>16. Goal
  BY ONLY [Next]_vars, <1>1, <1>2, <1>3, <1>4, <1>5, <1>6, <1>7, <1>8, <1>9, <1>10, <1>11, <1>12,
     <1>13, <1>14, <1>15
  DEF Next, Call, Step
<1> QED BY <1>16 DEF Goal

\* insert(), find() and erase() are the operations of a dictionary, each taking effect
\* in the one step that returns, through displacements, extensions and throwing copies.
THEOREM TableIsDictionary == Spec => ImplementsDictionary
<1>1. Init => RefInv /\ D!Init
  <2> SUFFICES ASSUME Init PROVE RefInv /\ D!Init
    OBVIOUS
  <2>1. RefInv
    BY DEF Init, RefInv, AbsentInv, AllCarriedInv
  <2>2. Contents = [k \in Keys |-> NULL]
    BY DEF Init, Contents, EmptyTable
  <2>3. D!Init
    BY <2>2 DEF Init, D!Init, D!Response, Response
  <2> QED BY <2>1, <2>3
<1>2. TableInv /\ RefInv /\ [Next]_vars => [D!Next]_(D!dictVars) /\ RefInv'
  BY RefStep
<1> QED BY <1>1, <1>2, Invariance, PTL DEF Spec, ImplementsDictionary, D!Spec
===============================================================================
