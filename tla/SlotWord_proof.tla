----------------------------- MODULE SlotWord_proof -----------------------------
(***************************************************************************)
(* Theorems about SlotWord for words of any width: the arithmetic on a     *)
(* word is that of the set of its bits, and find() walks along this set.   *)
(* BitsOK says that a word names pairs inside the table only, WalkOK how   *)
(* far the walk has come.                                                  *)
(***************************************************************************)
EXTENDS SlotWord, WellFoundedInduction, FiniteSetTheorems, SequenceTheorems, TLAPS

-------------------------------------------------------------------------------
(* Powers and shifts.                                                      *)

\* Induction up to W, for a set in place of a predicate.
LEMMA UpToW ==
  ASSUME NEW S, 0 \in S, \A n \in 0 .. W - 1 : n \in S => n + 1 \in S
  PROVE  0 .. W \subseteq S
<1> SUFFICES ASSUME NEW z \in 0 .. W, z \notin S PROVE FALSE
  OBVIOUS
<1> DEFINE T == (0 .. W) \ S
           R == OpToRel(<, Nat)
<1>1. W \in Nat /\ T \subseteq Nat /\ T # {}
  BY WordAssumption
<1>2. \A a, b \in Nat : a < b => <<a, b>> \in R
  BY DEF OpToRel
<1>3. IsWellFoundedOn(R, Nat)
  BY NatLessThanWellFounded
<1> HIDE DEF T, R
<1>4. PICK x \in T : \A y \in T : <<y, x>> \notin R
  BY <1>1, <1>3, WFMin
<1>5. x \in 0 .. W /\ x # 0 /\ x \notin S
  BY <1>4 DEF T
<1>6. x - 1 \in 0 .. W - 1 /\ x - 1 \in Nat /\ x \in Nat /\ x - 1 < x /\ (x - 1) + 1 = x
  BY <1>1, <1>5
<1>7. x - 1 \notin S
  BY <1>5, <1>6
<1>8. x - 1 \in T
  BY <1>1, <1>6, <1>7 DEF T
<1> QED BY <1>2, <1>4, <1>6, <1>8

\* f holds the first m results of a function on the naturals, applied again and again.
Iteration(f, b, step, m) ==
  /\ f = [k \in 0 .. m |-> f[k]]
  /\ f[0] = b
  /\ \A k \in 1 .. m : f[k] = step[f[k-1]]
  /\ \A k \in 0 .. m : f[k] \in Nat

\* There is such a function.
LEMMA Iterates ==
  \A b \in Nat : \A step \in [Nat -> Nat] : \E f : Iteration(f, b, step, W)
<1> SUFFICES ASSUME NEW b \in Nat, NEW step \in [Nat -> Nat] PROVE \E f : Iteration(f, b, step, W)
  OBVIOUS
<1> DEFINE S == {m \in 0 .. W : \E f : Iteration(f, b, step, m)}
<1>1. W \in Nat
  BY WordAssumption
<1>2. 0 \in S
  <2> DEFINE f == [k \in 0 .. 0 |-> b]
  <2>1. Iteration(f, b, step, 0)
    BY DEF Iteration
  <2> QED BY <1>1, <2>1
<1>3. ASSUME NEW m \in 0 .. W - 1, m \in S PROVE m + 1 \in S
  <2>1. PICK f : Iteration(f, b, step, m)
    BY <1>3
  <2> DEFINE g == [k \in 0 .. m + 1 |-> IF k = m + 1 THEN step[f[m]] ELSE f[k]]
  <2>2. m \in Nat /\ m + 1 \in 0 .. W
    BY <1>1
  <2>3. \A k \in 0 .. m : g[k] = f[k]
    BY <2>2
  <2>4. g[m+1] = step[f[m]] /\ g = [k \in 0 .. m + 1 |-> g[k]]
    BY <2>2
  <2> HIDE DEF g
  <2>5. f[m] \in Nat /\ step[f[m]] \in Nat
    <3>1. m \in 0 .. m
      BY <2>2
    <3> QED BY <2>1, <3>1 DEF Iteration
  <2>6. ASSUME NEW k \in 1 .. m + 1 PROVE g[k] = step[g[k-1]]
    <3>1. k - 1 \in 0 .. m
      BY <2>2
    <3>2. CASE k = m + 1
      <4>1. k - 1 = m /\ m \in 0 .. m
        BY <2>2, <3>2
      <4>2. g[k-1] = f[m]
        BY <2>3, <4>1
      <4> QED BY <2>4, <3>2, <4>2
    <3>3. CASE k # m + 1
      <4>1. k \in 1 .. m /\ k \in 0 .. m
        BY <2>2, <3>3
      <4> QED BY <2>1, <2>3, <3>1, <4>1 DEF Iteration
    <3> QED BY <3>2, <3>3
  <2>7. ASSUME NEW k \in 0 .. m + 1 PROVE g[k] \in Nat
    <3>1. k = m + 1 \/ k \in 0 .. m
      BY <2>2
    <3> QED BY <2>1, <2>3, <2>4, <2>5, <3>1 DEF Iteration
  <2>8. g[0] = b
    <3>1. 0 \in 0 .. m
      BY <2>2
    <3> QED BY <2>1, <2>3, <3>1 DEF Iteration
  <2>9. Iteration(g, b, step, m + 1)
    BY <2>4, <2>6, <2>7, <2>8 DEF Iteration
  <2> QED BY <2>2, <2>9
<1> HIDE DEF S
<1>4. W \in S
  BY <1>1, <1>2, <1>3, UpToW
<1> QED BY <1>4 DEF S

\* The powers of two.
LEMMA Powers ==
  /\ \A i \in 0 .. W : Power[i] \in Nat
  /\ Power[0] = 1
  /\ \A i \in 1 .. W : Power[i] = 2 * Power[i-1]
<1> DEFINE step == [n \in Nat |-> 2 * n]
           Is(f) == f = [i \in 0 .. W |-> IF i = 0 THEN 1 ELSE 2 * f[i-1]]
<1>1. W \in Nat
  BY WordAssumption
<1>2. PICK f : Iteration(f, 1, step, W)
  <2>1. step \in [Nat -> Nat]
    OBVIOUS
  <2> HIDE DEF step
  <2> QED BY <2>1, Iterates
<1>3. Is(f)
  <2>1. \A k \in 1 .. W : k - 1 \in 0 .. W
    BY <1>1
  <2>2. \A k \in 1 .. W : f[k] = 2 * f[k-1]
    BY <1>2, <2>1 DEF Iteration
  <2>3. f = [k \in 0 .. W |-> f[k]] /\ f[0] = 1
    BY <1>2 DEF Iteration
  <2> DEFINE g == [k \in 0 .. W |-> IF k = 0 THEN 1 ELSE 2 * f[k-1]]
  <2>4. ASSUME NEW k \in 0 .. W PROVE f[k] = g[k]
    <3>1. CASE k = 0
      BY <2>3, <3>1
    <3>2. CASE k # 0
      <4>1. k \in 1 .. W
        BY <1>1, <3>2
      <4> QED BY <2>2, <3>2, <4>1
    <3> QED BY <3>1, <3>2
  <2>5. g = [k \in 0 .. W |-> g[k]]
    OBVIOUS
  <2> HIDE DEF g
  <2>6. f = g
    BY <2>3, <2>4, <2>5
  <2> QED BY <2>6 DEF g
<1>4. Power = CHOOSE p : Is(p)
  BY DEF Power
<1>5. Is(Power)
  BY <1>3, <1>4
<1> DEFINE N == {i \in 0 .. W : Power[i] \in Nat}
<1>6. Power[0] = 1 /\ \A i \in 1 .. W : Power[i] = 2 * Power[i-1]
  BY <1>1, <1>5
<1>7. 0 \in N
  BY <1>1, <1>6
<1>8. ASSUME NEW n \in 0 .. W - 1, n \in N PROVE n + 1 \in N
  <2>1. n + 1 \in 1 .. W /\ (n + 1) - 1 = n
    BY <1>1
  <2>2. Power[n+1] = 2 * Power[n]
    BY <1>6, <2>1
  <2> QED BY <1>1, <1>8, <2>1, <2>2
<1> HIDE DEF N
<1>9. 0 .. W \subseteq N
  BY <1>7, <1>8, UpToW
<1> QED BY <1>6, <1>9 DEF N

\* A shift to the right is so many halvings.
LEMMA Halvings ==
  ASSUME NEW w \in Nat
  PROVE  /\ \A k \in 0 .. W : ShiftRight(w, k) \in Nat
         /\ ShiftRight(w, 0) = w
         /\ \A k \in 1 .. W : ShiftRight(w, k) = ShiftRight(w, k - 1) \div 2
<1> DEFINE step == [n \in Nat |-> n \div 2]
           Is(f) == f = [k \in 0 .. W |-> IF k = 0 THEN w ELSE f[k-1] \div 2]
           half == CHOOSE h : Is(h)
<1>1. W \in Nat
  BY WordAssumption
<1>2. PICK f : Iteration(f, w, step, W)
  <2>1. step \in [Nat -> Nat]
    OBVIOUS
  <2> HIDE DEF step
  <2> QED BY <2>1, Iterates
<1>3. Is(f)
  <2>1. \A k \in 1 .. W : k - 1 \in 0 .. W
    BY <1>1
  <2>2. \A k \in 1 .. W : f[k] = f[k-1] \div 2
    BY <1>2, <2>1 DEF Iteration
  <2>3. f = [k \in 0 .. W |-> f[k]] /\ f[0] = w
    BY <1>2 DEF Iteration
  <2> DEFINE g == [k \in 0 .. W |-> IF k = 0 THEN w ELSE f[k-1] \div 2]
  <2>4. ASSUME NEW k \in 0 .. W PROVE f[k] = g[k]
    <3>1. CASE k = 0
      BY <2>3, <3>1
    <3>2. CASE k # 0
      <4>1. k \in 1 .. W
        BY <1>1, <3>2
      <4> QED BY <2>2, <3>2, <4>1
    <3> QED BY <3>1, <3>2
  <2>5. g = [k \in 0 .. W |-> g[k]]
    OBVIOUS
  <2> HIDE DEF g
  <2>6. f = g
    BY <2>3, <2>4, <2>5
  <2> QED BY <2>6 DEF g
<1>4. Is(half)
  BY <1>3
<1>5. \A k : ShiftRight(w, k) = half[k]
  BY DEF ShiftRight
<1> DEFINE N == {i \in 0 .. W : half[i] \in Nat}
<1> HIDE DEF half
<1>6. half[0] = w /\ \A i \in 1 .. W : half[i] = half[i-1] \div 2
  BY <1>1, <1>4
<1>7. 0 \in N
  BY <1>1, <1>6
<1>8. ASSUME NEW n \in 0 .. W - 1, n \in N PROVE n + 1 \in N
  <2>1. n + 1 \in 1 .. W /\ (n + 1) - 1 = n
    BY <1>1
  <2>2. half[n+1] = half[n] \div 2
    BY <1>6, <2>1
  <2> QED BY <1>1, <1>8, <2>1, <2>2
<1> HIDE DEF N
<1>9. 0 .. W \subseteq N
  BY <1>7, <1>8, UpToW
<1> QED BY <1>5, <1>6, <1>9 DEF N

-------------------------------------------------------------------------------
(* Words and the sets of their bits.                                       *)

IsWord(w) == w \in Nat /\ ShiftRight(w, W) = 0

\* Two shifts are one.
LEMMA TwoShifts ==
  ASSUME NEW w \in Nat, NEW a \in 0 .. W, NEW b \in 0 .. W, a + b <= W
  PROVE  ShiftRight(ShiftRight(w, a), b) = ShiftRight(w, a + b)
<1> DEFINE v == ShiftRight(w, a)
           S == {k \in 0 .. W : a + k <= W => ShiftRight(v, k) = ShiftRight(w, a + k)}
<1>1. W \in Nat /\ v \in Nat
  BY WordAssumption, Halvings
<1> HIDE DEF v
<1>2. 0 \in S
  BY <1>1, Halvings DEF v
<1>3. ASSUME NEW n \in 0 .. W - 1, n \in S PROVE n + 1 \in S
  <2> SUFFICES ASSUME a + (n + 1) <= W PROVE ShiftRight(v, n + 1) = ShiftRight(w, a + (n + 1))
    BY <1>1
  <2>1. /\ n + 1 \in 1 .. W /\ (n + 1) - 1 = n
        /\ a + (n + 1) \in 1 .. W /\ (a + (n + 1)) - 1 = a + n
    BY <1>1
  <2>2. ShiftRight(v, n + 1) = ShiftRight(v, n) \div 2
    BY <1>1, <2>1, Halvings
  <2>3. ShiftRight(w, a + (n + 1)) = ShiftRight(w, a + n) \div 2
    BY <2>1, Halvings
  <2>4. ShiftRight(v, n) = ShiftRight(w, a + n)
    BY <1>1, <1>3, <2>1
  <2> QED BY <2>2, <2>3, <2>4
<1> HIDE DEF S
<1>4. b \in S
  BY <1>2, <1>3, UpToW
<1> QED BY <1>4 DEF S, v

\* Nothing is left of zero, nor of what has been shifted out.
LEMMA ShiftZero ==
  ASSUME NEW k \in 0 .. W
  PROVE  ShiftRight(0, k) = 0
<1> DEFINE S == {n \in 0 .. W : ShiftRight(0, n) = 0}
<1>1. W \in Nat /\ 0 \in S
  BY WordAssumption, Halvings
<1>2. ASSUME NEW n \in 0 .. W - 1, n \in S PROVE n + 1 \in S
  <2>1. n + 1 \in 1 .. W /\ (n + 1) - 1 = n
    BY <1>1
  <2>2. ShiftRight(0, n + 1) = ShiftRight(0, n) \div 2
    BY <2>1, Halvings
  <2> QED BY <1>2, <2>1, <2>2
<1> HIDE DEF S
<1>3. k \in S
  BY <1>1, <1>2, UpToW
<1> QED BY <1>3 DEF S

\* A word that has been shifted out stays zero.
LEMMA ShiftedOut ==
  ASSUME NEW w \in Nat, NEW k \in 0 .. W, NEW m \in k .. W, ShiftRight(w, k) = 0
  PROVE  ShiftRight(w, m) = 0
<1>1. m - k \in 0 .. W /\ k + (m - k) = m
  BY WordAssumption
<1>2. ShiftRight(ShiftRight(w, k), m - k) = ShiftRight(w, m)
  BY <1>1, TwoShifts
<1> QED BY <1>1, <1>2, ShiftZero

\* A shift moves all bits, and drops the lowest.
LEMMA BitsShifted ==
  ASSUME NEW w, IsWord(w), NEW g \in 0 .. W
  PROVE  /\ IsWord(ShiftRight(w, g))
         /\ Bits(ShiftRight(w, g)) = {i - g : i \in {j \in Bits(w) : j >= g}}
<1> DEFINE v == ShiftRight(w, g)
<1>1. W \in Nat /\ w \in Nat /\ v \in Nat
  BY WordAssumption, Halvings DEF IsWord
<1>2. ASSUME NEW i \in 0 .. W PROVE ShiftRight(v, i) = IF g + i <= W THEN ShiftRight(w, g + i) ELSE 0
  <2>1. CASE g + i <= W
    BY <1>1, <2>1, TwoShifts
  <2>2. CASE g + i > W
    <3>1. W - g \in 0 .. W /\ g + (W - g) = W /\ i \in (W - g) .. W
      BY <1>1, <2>2
    <3>2. ShiftRight(v, W - g) = 0
      BY <1>1, <3>1, TwoShifts DEF IsWord
    <3>3. ShiftRight(v, i) = 0
      BY <1>1, <3>1, <3>2, ShiftedOut
    <3> QED BY <1>1, <2>2, <3>3
  <2> QED BY <1>1, <2>1, <2>2
<1> HIDE DEF v
<1>3. IsWord(v)
  <2>1. W \in 0 .. W
    BY <1>1
  <2>2. g = 0 => g + W = W
    BY <1>1
  <2>3. g # 0 => ~(g + W <= W)
    BY <1>1
  <2> QED BY <1>1, <1>2, <2>1, <2>2, <2>3 DEF IsWord
<1>4. ASSUME NEW i \in Bits(v) PROVE i \in {j - g : j \in {k \in Bits(w) : k >= g}}
  <2>1. i \in 0 .. W - 1 /\ ShiftRight(v, i) % 2 = 1
    BY DEF Bits
  <2>2. i \in 0 .. W
    BY <1>1, <2>1
  <2>3. g + i <= W /\ ShiftRight(w, g + i) % 2 = 1
    BY <1>2, <2>1, <2>2
  <2>4. g + i # W
    BY <2>3 DEF IsWord
  <2>5. g + i \in 0 .. W - 1 /\ g + i >= g /\ (g + i) - g = i
    BY <1>1, <2>1, <2>3, <2>4
  <2>6. g + i \in Bits(w)
    BY <2>3, <2>5 DEF Bits
  <2> QED BY <2>5, <2>6
<1>5. ASSUME NEW j \in Bits(w), j >= g PROVE j - g \in Bits(v)
  <2>1. j \in 0 .. W - 1 /\ ShiftRight(w, j) % 2 = 1
    BY DEF Bits
  <2>2. j - g \in 0 .. W - 1 /\ j - g \in 0 .. W /\ g + (j - g) = j /\ g + (j - g) <= W
    BY <1>1, <1>5, <2>1
  <2>3. ShiftRight(v, j - g) = ShiftRight(w, j)
    BY <1>2, <2>2
  <2> QED BY <2>1, <2>2, <2>3 DEF Bits
<1>6. Bits(v) = {i - g : i \in {j \in Bits(w) : j >= g}}
  BY <1>4, <1>5
<1> QED BY <1>3, <1>6 DEF v

\* A word without a one is zero.
LEMMA NoBits ==
  ASSUME NEW w, IsWord(w)
  PROVE  Bits(w) = {} <=> w = 0
<1>1. W \in Nat /\ w \in Nat /\ ShiftRight(w, W) = 0 /\ ShiftRight(w, 0) = w
  BY WordAssumption, Halvings DEF IsWord
<1>2. ASSUME w = 0 PROVE Bits(w) = {}
  BY <1>1, <1>2, ShiftZero DEF Bits
<1>3. ASSUME Bits(w) = {} PROVE w = 0
  <2> DEFINE S == {k \in 0 .. W : ShiftRight(w, W - k) = 0}
  <2>1. 0 \in S
    BY <1>1
  <2>2. ASSUME NEW n \in 0 .. W - 1, n \in S PROVE n + 1 \in S
    <3>1. /\ W - n \in 1 .. W /\ (W - n) - 1 = W - (n + 1)
          /\ W - (n + 1) \in 0 .. W - 1 /\ W - (n + 1) \in 0 .. W /\ n + 1 \in 0 .. W
      BY <1>1
    <3> DEFINE x == ShiftRight(w, W - (n + 1))
    <3>2. x \in Nat /\ ShiftRight(w, W - n) = x \div 2
      BY <1>1, <3>1, Halvings
    <3>3. x % 2 # 1
      BY <1>3, <3>1 DEF Bits
    <3>4. x \div 2 = 0
      BY <2>2, <3>2
    <3> HIDE DEF x
    <3>5. x = 0
      BY <3>2, <3>3, <3>4
    <3> QED BY <3>1, <3>5 DEF x
  <2> HIDE DEF S
  <2>3. W \in S
    BY <1>1, <2>1, <2>2, UpToW
  <2>4. W - W = 0
    BY <1>1
  <2> QED BY <1>1, <2>3, <2>4 DEF S
<1> QED BY <1>2, <1>3

\* Adding a power of two to a word that has a zero there sets this bit only.
LEMMA AddsBit ==
  ASSUME NEW v \in Nat, NEW i \in 0 .. W - 1
  PROVE  /\ v + Power[i] \in Nat
         /\ ShiftRight(v + Power[i], i) = ShiftRight(v, i) + 1
         /\ i \notin Bits(v) =>
              /\ Bits(v + Power[i]) = Bits(v) \cup {i}
              /\ ShiftRight(v + Power[i], W) = ShiftRight(v, W)
<1> DEFINE w == v + Power[i]
           Low == {j \in 0 .. W : j <= i => ShiftRight(w, j) = ShiftRight(v, j) + Power[i - j]}
<1>1. W \in Nat /\ i \in 0 .. W /\ Power[i] \in Nat /\ w \in Nat
  BY WordAssumption, Powers
<1>2. 0 \in Low
  <2>1. i - 0 = i /\ 0 \in 0 .. W
    BY <1>1
  <2> QED BY <1>1, <2>1, Halvings
<1> HIDE DEF w
<1>3. ASSUME NEW j \in 0 .. W - 1, j < i, ShiftRight(w, j) = ShiftRight(v, j) + Power[i - j]
      PROVE  /\ ShiftRight(w, j) % 2 = ShiftRight(v, j) % 2
             /\ ShiftRight(w, j + 1) = ShiftRight(v, j + 1) + Power[i - (j + 1)]
  <2>1. /\ j \in 0 .. W /\ j + 1 \in 1 .. W /\ (j + 1) - 1 = j
        /\ i - j \in 1 .. W /\ (i - j) - 1 = i - (j + 1) /\ i - (j + 1) \in 0 .. W
    BY <1>1, <1>3
  <2> DEFINE a == ShiftRight(v, j)
             p == Power[i - (j + 1)]
  <2>2. a \in Nat /\ p \in Nat /\ Power[i - j] = 2 * p
    BY <2>1, Halvings, Powers
  <2>3. ShiftRight(w, j + 1) = ShiftRight(w, j) \div 2 /\ ShiftRight(v, j + 1) = a \div 2
    BY <1>1, <2>1, Halvings
  <2>4. ShiftRight(w, j) = a + 2 * p
    BY <1>3, <2>2
  <2> HIDE DEF a, p
  <2>5. (a + 2 * p) % 2 = a % 2 /\ (a + 2 * p) \div 2 = (a \div 2) + p
    BY <2>2
  <2> QED BY <2>3, <2>4, <2>5 DEF a, p
<1>4. ASSUME NEW n \in 0 .. W - 1, n \in Low PROVE n + 1 \in Low
  <2>1. n + 1 \in 0 .. W /\ n \in Nat
    BY <1>1
  <2>2. ASSUME n + 1 <= i PROVE ShiftRight(w, n + 1) = ShiftRight(v, n + 1) + Power[i - (n + 1)]
    <3>1. n < i /\ n <= i
      BY <1>1, <2>1, <2>2
    <3> QED BY <1>3, <1>4, <3>1
  <2> QED BY <2>1, <2>2
<1> HIDE DEF Low
<1>5. 0 .. W \subseteq Low
  BY <1>2, <1>4, UpToW
<1>6. \A j \in 0 .. W : j <= i => ShiftRight(w, j) = ShiftRight(v, j) + Power[i - j]
  BY <1>5 DEF Low
<1>7. ShiftRight(w, i) = ShiftRight(v, i) + 1
  <2>1. i <= i /\ i - i = 0
    BY <1>1
  <2> QED BY <1>1, <1>6, <2>1, Powers
<1>8. ASSUME i \notin Bits(v)
      PROVE  Bits(w) = Bits(v) \cup {i} /\ ShiftRight(w, W) = ShiftRight(v, W)
  <2>1. ShiftRight(v, i) \in Nat /\ ShiftRight(v, i) % 2 = 0
    <3>1. ShiftRight(v, i) \in Nat /\ ShiftRight(v, i) % 2 # 1
      BY <1>1, <1>8, Halvings DEF Bits
    <3> QED BY <3>1
  <2>2. ShiftRight(w, i) % 2 = 1 /\ ShiftRight(w, i) \div 2 = ShiftRight(v, i) \div 2
    BY <1>7, <2>1
  <2> DEFINE High == {j \in 0 .. W : j > i => ShiftRight(w, j) = ShiftRight(v, j)}
  <2>3. 0 \in High
    BY <1>1
  <2>4. ASSUME NEW n \in 0 .. W - 1, n \in High PROVE n + 1 \in High
    <3>1. n + 1 \in 1 .. W /\ (n + 1) - 1 = n /\ n + 1 \in 0 .. W
      BY <1>1
    <3>2. ShiftRight(w, n + 1) = ShiftRight(w, n) \div 2 /\ ShiftRight(v, n + 1) = ShiftRight(v, n) \div 2
      BY <1>1, <3>1, Halvings
    <3>3. n = i \/ n > i \/ n + 1 <= i
      BY <1>1
    <3> QED BY <1>1, <2>2, <2>4, <3>1, <3>2, <3>3
  <2> HIDE DEF High
  <2>5. 0 .. W \subseteq High
    BY <2>3, <2>4, UpToW
  <2>6. \A j \in 0 .. W : j > i => ShiftRight(w, j) = ShiftRight(v, j)
    BY <2>5 DEF High
  <2>7. ASSUME NEW j \in 0 .. W - 1, j # i PROVE ShiftRight(w, j) % 2 = ShiftRight(v, j) % 2
    <3>1. j \in 0 .. W /\ (j < i \/ j > i)
      BY <1>1, <2>7
    <3>2. CASE j < i
      BY <1>1, <1>3, <1>6, <3>1, <3>2
    <3>3. CASE j > i
      BY <2>6, <3>1, <3>3
    <3> QED BY <3>1, <3>2, <3>3
  <2>8. ASSUME NEW j \in 0 .. W - 1 PROVE j \in Bits(w) <=> j \in Bits(v) \cup {i}
    BY <2>2, <2>7 DEF Bits
  <2>9. Bits(w) \subseteq 0 .. W - 1 /\ Bits(v) \cup {i} \subseteq 0 .. W - 1
    BY DEF Bits
  <2>10. W \in 0 .. W /\ W > i
    BY <1>1
  <2> QED BY <2>6, <2>8, <2>9, <2>10
<1> QED BY <1>1, <1>7, <1>8 DEF w

\* Or with one << i is the union with {i}.
LEMMA SetsBit ==
  ASSUME NEW w, IsWord(w), NEW i \in 0 .. W - 1
  PROVE  IsWord(SetBit(w, i)) /\ Bits(SetBit(w, i)) = Bits(w) \cup {i}
  BY AddsBit DEF SetBit, IsWord

\* Subtracting it from a word that has a one there clears this bit only.
LEMMA ClearsBit ==
  ASSUME NEW w, IsWord(w), NEW i \in 0 .. W - 1
  PROVE  IsWord(ClearBit(w, i)) /\ Bits(ClearBit(w, i)) = Bits(w) \ {i}
<1>1. CASE i \notin Bits(w)
  BY <1>1 DEF ClearBit
<1>2. CASE i \in Bits(w)
  <2>1. W \in Nat /\ w \in Nat /\ i \in 0 .. W /\ Power[i] \in Nat
    BY WordAssumption, Powers DEF IsWord
  <2> DEFINE S == {k \in 0 .. W : k <= i => ShiftRight(w, i - k) >= Power[k]}
  <2>2. 0 \in S
    <3>1. ShiftRight(w, i) \in Nat /\ ShiftRight(w, i) % 2 = 1
      BY <1>2, <2>1, Halvings DEF Bits
    <3>2. i - 0 = i /\ Power[0] = 1 /\ 0 \in 0 .. W
      BY <2>1, Powers
    <3> QED BY <3>1, <3>2
  <2>3. ASSUME NEW n \in 0 .. W - 1, n \in S PROVE n + 1 \in S
    <3> SUFFICES ASSUME n + 1 <= i PROVE ShiftRight(w, i - (n + 1)) >= Power[n + 1]
      BY <2>1
    <3>1. /\ n + 1 \in 1 .. W /\ (n + 1) - 1 = n /\ n <= i /\ n \in 0 .. W
          /\ i - n \in 1 .. W /\ (i - n) - 1 = i - (n + 1) /\ i - (n + 1) \in 0 .. W
      BY <2>1
    <3> DEFINE x == ShiftRight(w, i - (n + 1))
    <3>2. x \in Nat /\ ShiftRight(w, i - n) = x \div 2
      BY <2>1, <3>1, Halvings
    <3>3. Power[n + 1] = 2 * Power[n] /\ Power[n] \in Nat
      BY <3>1, Powers
    <3>4. x \div 2 >= Power[n]
      BY <2>3, <3>1, <3>2
    <3> HIDE DEF x
    <3>5. x >= 2 * Power[n]
      BY <3>2, <3>3, <3>4
    <3> QED BY <3>3, <3>5 DEF x
  <2> HIDE DEF S
  <2>4. i \in S
    BY <2>1, <2>2, <2>3, UpToW
  <2>5. ShiftRight(w, 0) >= Power[i]
    <3>1. i - i = 0 /\ i <= i
      BY <2>1
    <3> QED BY <2>4, <3>1 DEF S
  <2> DEFINE v == w - Power[i]
  <2>6. v \in Nat /\ v + Power[i] = w
    BY <2>1, <2>5, Halvings
  <2> HIDE DEF v
  <2>7. ShiftRight(w, i) = ShiftRight(v, i) + 1
    BY <2>6, AddsBit
  <2>8. i \notin Bits(v)
    <3>1. ShiftRight(v, i) \in Nat /\ ShiftRight(w, i) % 2 = 1
      BY <1>2, <2>1, <2>6, Halvings DEF Bits
    <3>2. ShiftRight(v, i) % 2 # 1
      BY <2>7, <3>1
    <3> QED BY <3>2 DEF Bits
  <2>9. Bits(w) = Bits(v) \cup {i} /\ ShiftRight(w, W) = ShiftRight(v, W)
    BY <2>6, <2>8, AddsBit
  <2>10. ClearBit(w, i) = v
    BY <1>2 DEF ClearBit, v
  <2> QED BY <2>6, <2>8, <2>9, <2>10 DEF IsWord
<1> QED BY <1>1, <1>2

-------------------------------------------------------------------------------
(* The word of a bucket.                                                   *)

\* The word has bits for the used flag and the distances in the table only.
BitsOK ==
  /\ size \in Nat \ {0} /\ home \in 0 .. size - 1
  /\ IsWord(slot_)
  /\ HopsOf(slot_) \subseteq Distances

\* The bit of a distance is in the word, its bucket in the table.
LEMMA DistancesFit ==
  ASSUME size \in Nat
  PROVE  /\ Distances \subseteq 0 .. W - 2
         /\ Distances \subseteq 0 .. size - 1
         /\ \A pos \in Distances : pos + 1 \in 1 .. W - 1
  BY WordAssumption DEF Distances

\* use_slot() and its like are what HopscotchTable takes them for.
LEMMA WordChanges ==
  ASSUME BitsOK
  PROVE  /\ UseSlot => IsWord(slot_') /\ IsUsed(slot_') /\ HopsOf(slot_') = HopsOf(slot_)
         /\ UnuseSlot => IsWord(slot_') /\ ~IsUsed(slot_') /\ HopsOf(slot_') = HopsOf(slot_)
         /\ \A pos \in Distances :
              /\ SetSlotBit(pos) =>
                   /\ IsWord(slot_') /\ IsUsed(slot_') = IsUsed(slot_)
                   /\ HopsOf(slot_') = HopsOf(slot_) \cup {pos}
              /\ DropSlotBit(pos) =>
                   /\ IsWord(slot_') /\ IsUsed(slot_') = IsUsed(slot_)
                   /\ HopsOf(slot_') = HopsOf(slot_) \ {pos}
<1>1. W \in Nat /\ 0 \in 0 .. W - 1 /\ IsWord(slot_) /\ size \in Nat
  BY WordAssumption DEF BitsOK
<1>2. ASSUME UseSlot PROVE IsWord(slot_') /\ IsUsed(slot_') /\ HopsOf(slot_') = HopsOf(slot_)
  <2>1. IsWord(slot_') /\ Bits(slot_') = Bits(slot_) \cup {0}
    BY <1>1, <1>2, SetsBit DEF UseSlot, Update
  <2> QED BY <2>1 DEF IsUsed, HopsOf
<1>3. ASSUME UnuseSlot PROVE IsWord(slot_') /\ ~IsUsed(slot_') /\ HopsOf(slot_') = HopsOf(slot_)
  <2>1. IsWord(slot_') /\ Bits(slot_') = Bits(slot_) \ {0}
    BY <1>1, <1>3, ClearsBit DEF UnuseSlot, Update
  <2> QED BY <2>1 DEF IsUsed, HopsOf
<1>4. ASSUME NEW pos \in Distances, SetSlotBit(pos)
      PROVE  /\ IsWord(slot_') /\ IsUsed(slot_') = IsUsed(slot_)
             /\ HopsOf(slot_') = HopsOf(slot_) \cup {pos}
  <2>1. pos + 1 \in 0 .. W - 1 /\ pos + 1 # 0 /\ (pos + 1) - 1 = pos
    BY <1>1, DistancesFit
  <2>2. IsWord(slot_') /\ Bits(slot_') = Bits(slot_) \cup {pos + 1}
    BY <1>1, <1>4, <2>1, SetsBit DEF SetSlotBit, Update, Bit
  <2>3. Bits(slot_') \ {0} = (Bits(slot_) \ {0}) \cup {pos + 1}
    BY <2>1, <2>2
  <2>4. HopsOf(slot_') = HopsOf(slot_) \cup {pos}
    BY <2>1, <2>3 DEF HopsOf
  <2> QED BY <2>1, <2>2, <2>4 DEF IsUsed
<1>5. ASSUME NEW pos \in Distances, DropSlotBit(pos)
      PROVE  /\ IsWord(slot_') /\ IsUsed(slot_') = IsUsed(slot_)
             /\ HopsOf(slot_') = HopsOf(slot_) \ {pos}
  <2>1. pos + 1 \in 0 .. W - 1 /\ pos + 1 # 0 /\ (pos + 1) - 1 = pos
    BY <1>1, DistancesFit
  <2>2. IsWord(slot_') /\ Bits(slot_') = Bits(slot_) \ {pos + 1}
    BY <1>1, <1>5, <2>1, ClearsBit DEF DropSlotBit, Update, Bit
  <2>3. \A i \in Bits(slot_) : i \in Int /\ (i - 1 = pos <=> i = pos + 1)
    BY <2>1 DEF Bits
  <2>4. HopsOf(slot_') = HopsOf(slot_) \ {pos}
    BY <2>1, <2>2, <2>3 DEF HopsOf
  <2> QED BY <2>1, <2>2, <2>4 DEF IsUsed
<1> QED BY <1>2, <1>3, <1>4, <1>5

\* get_slot() is the set of distances.
LEMMA SlotIsHops ==
  ASSUME BitsOK
  PROVE  IsWord(Slot(slot_)) /\ Bits(Slot(slot_)) = HopsOf(slot_)
<1>1. W \in Nat /\ 1 \in 0 .. W /\ IsWord(slot_)
  BY WordAssumption DEF BitsOK
<1>2. IsWord(Slot(slot_)) /\ Bits(Slot(slot_)) = {i - 1 : i \in {j \in Bits(slot_) : j >= 1}}
  BY <1>1, BitsShifted DEF Slot
<1>3. {j \in Bits(slot_) : j >= 1} = Bits(slot_) \ {0}
  BY DEF Bits
<1> QED BY <1>2, <1>3 DEF HopsOf

\* clear_slot() leaves no bits.
LEMMA BitsInit == Init => BitsOK
<1> SUFFICES ASSUME Init PROVE BitsOK
  OBVIOUS
<1>1. W \in 0 .. W /\ size \in Nat \ {0} /\ home \in 0 .. size - 1 /\ slot_ = 0
  BY WordAssumption DEF Init
<1>2. IsWord(slot_)
  BY <1>1, ShiftZero DEF IsWord
<1>3. Bits(slot_) = {}
  BY <1>1, <1>2, NoBits
<1>4. HopsOf(slot_) = {}
  BY <1>3 DEF HopsOf
<1> QED BY <1>1, <1>2, <1>4 DEF BitsOK

\* Only set_slot_bit() adds a distance, and it is one of the table.
LEMMA BitsStep ==
  ASSUME BitsOK, [Next]_vars
  PROVE  BitsOK'
<1>1. Distances' = Distances /\ size' = size /\ home' = home
  BY DEF Distances, Next, vars, UseSlot, UnuseSlot, SetSlotBit, DropSlotBit, Update, Find, FindStep,
         FindNothing, Return
<1>2. \/ slot_' = slot_
      \/ IsWord(slot_') /\ \E pos \in Distances : HopsOf(slot_') \subseteq HopsOf(slot_) \cup {pos}
      \/ IsWord(slot_') /\ HopsOf(slot_') = HopsOf(slot_)
  <2>1. CASE Find \/ FindStep \/ FindNothing \/ Return \/ UNCHANGED vars
    BY <2>1 DEF Find, FindStep, FindNothing, Return, vars
  <2>2. CASE UseSlot \/ UnuseSlot \/ \E pos \in Distances : SetSlotBit(pos) \/ DropSlotBit(pos)
    BY <2>2, WordChanges
  <2> QED BY <2>1, <2>2 DEF Next
<1> QED BY <1>1, <1>2 DEF BitsOK

-------------------------------------------------------------------------------
(* The walk of find().                                                     *)

\* The remainder of what is less than one table away from the table.
LEMMA Wraps ==
  ASSUME NEW n \in Nat \ {0}, NEW x \in -n .. 2 * n - 1
  PROVE  x % n = IF x < 0 THEN x + n ELSE IF x < n THEN x ELSE x - n
<1>1. CASE x < 0
  <2>1. x + n \in 0 .. n - 1 /\ x = (-1) * n + (x + n)
    BY <1>1
  <2> QED BY <1>1, <2>1
<1>2. CASE 0 <= x /\ x < n
  BY <1>2
<1>3. CASE n <= x
  <2>1. x - n \in 0 .. n - 1 /\ x = 1 * n + (x - n)
    BY <1>3
  <2> QED BY <1>3, <2>1
<1> QED BY <1>1, <1>2, <1>3

\* The bucket at distance d, and the distance of a bucket.
Place(d) == (home + d) % size
Dist(b) == (b - home) % size

\* The buckets of different distances differ.
LEMMA Places ==
  ASSUME size \in Nat \ {0}, home \in 0 .. size - 1, NEW d \in 0 .. size - 1
  PROVE  /\ Place(d) \in 0 .. size - 1
         /\ Dist(Place(d)) = d
         /\ \A e \in 0 .. size - 1 :
              d <= e => /\ Forward(Place(d), e - d) = Place(e)
                        /\ (Place(d) + (e - d)) % size = Place(e)
<1>1. \A e \in 0 .. size - 1 : Place(e) = IF home + e < size THEN home + e ELSE home + e - size
  <2> TAKE e \in 0 .. size - 1
  <2> DEFINE x == home + e
  <2>1. x \in -size .. 2 * size - 1 /\ ~(x < 0)
    OBVIOUS
  <2> HIDE DEF x
  <2>2. x % size = IF x < size THEN x ELSE x - size
    BY <2>1, Wraps
  <2> QED BY <2>2 DEF Place, x
<1>2. Place(d) \in 0 .. size - 1
  BY <1>1
<1>3. Dist(Place(d)) = d
  <2> DEFINE x == Place(d) - home
  <2>1. x \in -size .. 2 * size - 1
    BY <1>2
  <2>2. Dist(Place(d)) = x % size
    BY DEF Dist
  <2> HIDE DEF x
  <2>3. x % size = IF x < 0 THEN x + size ELSE IF x < size THEN x ELSE x - size
    BY <2>1, Wraps
  <2> QED BY <1>1, <2>2, <2>3 DEF x
<1>4. ASSUME NEW e \in 0 .. size - 1, d <= e
      PROVE  Forward(Place(d), e - d) = Place(e) /\ (Place(d) + (e - d)) % size = Place(e)
  <2>1. Forward(Place(d), e - d) = Place(e)
    BY <1>1, <1>4 DEF Forward
  <2> DEFINE x == Place(d) + (e - d)
  <2>2. x \in -size .. 2 * size - 1 /\ ~(x < 0)
    BY <1>2, <1>4
  <2>3. Place(e) = IF x < size THEN x ELSE x - size
    BY <1>1, <1>4
  <2> HIDE DEF x
  <2>4. x % size = IF x < size THEN x ELSE x - size
    BY <2>2, Wraps
  <2> QED BY <2>1, <2>3, <2>4 DEF x
<1> QED BY <1>2, <1>3, <1>4

\* The distances the word has below and from g on.
Below(g) == {j \in HopsOf(slot_) : j < g}
From(g) == {j \in HopsOf(slot_) : j >= g}

\* find() has come to distance g: it has compared the pairs before, in order, and
\* what is left of the word are the distances from there on.
WalkAt(g) ==
  /\ g \in 0 .. W
  /\ \A i \in 1 .. Len(visited) : Dist(visited[i]) \in Below(g)
  /\ \A j \in Below(g) : \E i \in 1 .. Len(visited) : visited[i] = Place(j)
  /\ Len(visited) = Cardinality(Below(g))
  /\ Bits(slot_info) = {j - g : j \in From(g)}
  /\ slot_info # 0 => g < size /\ target = Place(g)

\* Nearer pairs come first.
Ordered == \A i, j \in 1 .. Len(visited) : i < j => Dist(visited[i]) < Dist(visited[j])

WalkOK ==
  /\ pc \in {"idle", "loop", "hit", "end"}
  /\ IsWord(slot_info) /\ target \in Nat /\ visited \in Seq(0 .. size - 1)
  /\ pc = "loop" => \E g : WalkAt(g)
  /\ pc = "end" => Behind = {}
  /\ Ordered

\* What has not been compared lies ahead.
LEMMA WalkBehind ==
  ASSUME BitsOK, NEW g, WalkAt(g)
  PROVE  Behind = From(g)
<1>1. size \in Nat \ {0} /\ home \in 0 .. size - 1 /\ HopsOf(slot_) \subseteq 0 .. size - 1 /\ g \in Int
  BY DistancesFit DEF BitsOK, WalkAt
<1>2. ASSUME NEW j \in From(g), NEW i \in 1 .. Len(visited) PROVE visited[i] # Place(j)
  <2>1. j \in 0 .. size - 1 /\ j >= g
    BY <1>1 DEF From
  <2>2. Dist(Place(j)) = j
    BY <1>1, <2>1, Places
  <2>3. Dist(visited[i]) < g
    BY DEF WalkAt, Below
  <2> QED BY <1>1, <2>1, <2>2, <2>3
<1>3. ASSUME NEW j \in HopsOf(slot_), ~(j >= g) PROVE \E i \in 1 .. Len(visited) : visited[i] = Place(j)
  <2>1. j \in Below(g)
    BY <1>1, <1>3 DEF Below
  <2> QED BY <2>1 DEF WalkAt
<1> QED BY <1>2, <1>3 DEF Behind, From, Place

\* find() starts at distance 0.
LEMMA WalkStarts ==
  ASSUME BitsOK, Find
  PROVE  WalkOK'
<1>1. /\ size \in Nat \ {0} /\ home \in 0 .. size - 1 /\ HopsOf(slot_) \subseteq 0 .. size - 1
      /\ W \in Nat /\ IsWord(Slot(slot_)) /\ Bits(Slot(slot_)) = HopsOf(slot_)
  BY DistancesFit, SlotIsHops, WordAssumption DEF BitsOK
<1>2. /\ slot_' = slot_ /\ size' = size /\ home' = home /\ pc' = "loop"
      /\ slot_info' = Slot(slot_) /\ target' = home /\ visited' = <<>>
  BY DEF Find
<1>3. Place(0) = home
  <2>1. home + 0 \in -size .. 2 * size - 1 /\ home + 0 = home
    BY <1>1
  <2> QED BY <1>1, <2>1, Wraps DEF Place
<1>4. WalkAt(0)'
  <2>1. Below(0) = {} /\ Below(0)' = {} /\ From(0)' = HopsOf(slot_)
    BY <1>1, <1>2 DEF Below, From
  <2>2. {j - 0 : j \in From(0)'} = HopsOf(slot_)
    <3>1. \A j \in HopsOf(slot_) : j - 0 = j
      BY <1>1
    <3> QED BY <2>1, <3>1
  <2>3. Len(visited') = 0 /\ Cardinality({}) = 0
    BY <1>2, FS_EmptySet
  <2>4. Place(0)' = home
    BY <1>2, <1>3 DEF Place
  <2>5. 1 .. 0 = {} /\ 0 < size /\ 0 \in 0 .. W
    BY <1>1
  <2> QED BY <1>1, <1>2, <2>1, <2>2, <2>3, <2>4, <2>5 DEF WalkAt
<1>5. Len(visited') = 0 /\ 1 .. 0 = {} /\ visited' \in Seq(0 .. size - 1)
  BY <1>2
<1> QED BY <1>1, <1>2, <1>4, <1>5 DEF WalkOK, Ordered

\* ntz() names the lowest one.
LEMMA NtzIs ==
  ASSUME NEW w, IsWord(w), w # 0
  PROVE  Ntz(w) \in Bits(w) /\ \A j \in Bits(w) : Ntz(w) <= j
<1> DEFINE R == OpToRel(<, Nat)
<1>1. Bits(w) \subseteq Nat /\ Bits(w) # {}
  BY WordAssumption, NoBits DEF Bits
<1>2. \A a, b \in Nat : a < b => <<a, b>> \in R
  BY DEF OpToRel
<1>3. IsWellFoundedOn(R, Nat)
  BY NatLessThanWellFounded
<1> HIDE DEF R
<1>4. PICK x \in Bits(w) : \A y \in Bits(w) : <<y, x>> \notin R
  BY <1>1, <1>3, WFMin
<1>5. \A y \in Bits(w) : x <= y
  <2> TAKE y \in Bits(w)
  <2>1. x \in Nat /\ y \in Nat /\ ~(y < x)
    BY <1>1, <1>2, <1>4
  <2> QED BY <2>1
<1>6. Ntz(w) = CHOOSE i \in Bits(w) : \A j \in Bits(w) : i <= j
  BY DEF Ntz
<1> QED BY <1>5, <1>6

\* A round compares the pair at distance g, if there is one.
LEMMA WalkCompares ==
  ASSUME BitsOK, WalkOK, slot_info # 0, NEW g, WalkAt(g), NEW hit, Compare(hit)
  PROVE  /\ visited' \in Seq(0 .. size - 1)
         /\ \A i \in 1 .. Len(visited') : Dist(visited'[i]) \in Below(g + 1)
         /\ \A j \in Below(g + 1) : \E i \in 1 .. Len(visited') : visited'[i] = Place(j)
         /\ Len(visited') = Cardinality(Below(g + 1))
         /\ \A i, j \in 1 .. Len(visited') : i < j => Dist(visited'[i]) < Dist(visited'[j])
<1>1. /\ size \in Nat \ {0} /\ home \in 0 .. size - 1 /\ HopsOf(slot_) \subseteq 0 .. size - 1
      /\ g \in 0 .. size - 1 /\ target = Place(g) /\ visited \in Seq(0 .. size - 1)
  BY DistancesFit DEF BitsOK, WalkAt, WalkOK
<1>2. target \in 0 .. size - 1 /\ Dist(target) = g
  BY <1>1, Places
<1>3. /\ \A i \in 1 .. Len(visited) : Dist(visited[i]) \in Below(g)
      /\ \A j \in Below(g) : \E i \in 1 .. Len(visited) : visited[i] = Place(j)
      /\ Len(visited) = Cardinality(Below(g)) /\ Len(visited) \in Nat
      /\ \A i, j \in 1 .. Len(visited) : i < j => Dist(visited[i]) < Dist(visited[j])
  BY <1>1 DEF WalkAt, WalkOK, Ordered
<1>4. 0 \in Bits(slot_info) <=> g \in HopsOf(slot_)
  <2>1. Bits(slot_info) = {j - g : j \in From(g)}
    BY DEF WalkAt
  <2>2. \A j \in From(g) : j - g = 0 <=> j = g
    BY <1>1 DEF From
  <2>3. g \in From(g) <=> g \in HopsOf(slot_)
    BY <1>1 DEF From
  <2> QED BY <2>1, <2>2, <2>3
<1>5. CASE 0 \in Bits(slot_info)
  <2>1. visited' = Append(visited, target)
    BY <1>5 DEF Compare
  <2>2. /\ visited' \in Seq(0 .. size - 1) /\ Len(visited') = Len(visited) + 1
        /\ \A i \in 1 .. Len(visited) : visited'[i] = visited[i]
        /\ visited'[Len(visited) + 1] = target
    BY <1>1, <1>2, <2>1
  <2>3. Below(g + 1) = Below(g) \cup {g} /\ g \notin Below(g)
    BY <1>1, <1>4, <1>5 DEF Below
  <2>4. IsFiniteSet(Below(g))
    <3>1. Below(g) \subseteq 0 .. size - 1 /\ IsFiniteSet(0 .. size - 1)
      BY <1>1, FS_Interval DEF Below
    <3> QED BY <3>1, FS_Subset
  <2>5. Cardinality(Below(g + 1)) = Cardinality(Below(g)) + 1
    BY <2>3, <2>4, FS_AddElement
  <2>6. \A i \in 1 .. Len(visited') : i \in 1 .. Len(visited) \/ i = Len(visited) + 1
    BY <1>3, <2>2
  <2>7. \A i \in 1 .. Len(visited) : i \in 1 .. Len(visited')
    BY <1>3, <2>2
  <2>8. ASSUME NEW i \in 1 .. Len(visited') PROVE Dist(visited'[i]) \in Below(g + 1)
    BY <1>2, <1>3, <2>2, <2>3, <2>6
  <2>9. ASSUME NEW j \in Below(g + 1) PROVE \E i \in 1 .. Len(visited') : visited'[i] = Place(j)
    <3>1. CASE j = g
      <4>1. Len(visited) + 1 \in 1 .. Len(visited')
        BY <1>3, <2>2
      <4> QED BY <1>1, <2>2, <3>1, <4>1
    <3>2. CASE j \in Below(g)
      BY <1>3, <2>2, <2>7, <3>2
    <3> QED BY <2>3, <3>1, <3>2
  <2>10. ASSUME NEW i \in 1 .. Len(visited'), NEW j \in 1 .. Len(visited'), i < j
         PROVE  Dist(visited'[i]) < Dist(visited'[j])
    <3>1. i \in 1 .. Len(visited)
      BY <1>3, <2>2, <2>10
    <3>2. CASE j \in 1 .. Len(visited)
      BY <1>3, <2>2, <2>10, <3>1, <3>2
    <3>3. CASE j = Len(visited) + 1
      <4>1. Dist(visited'[i]) < g
        BY <1>3, <2>2, <3>1 DEF Below
      <4> QED BY <1>2, <2>2, <3>3, <4>1
    <3> QED BY <2>6, <3>2, <3>3
  <2> QED BY <1>3, <2>2, <2>5, <2>8, <2>9, <2>10
<1>6. CASE 0 \notin Bits(slot_info)
  <2>1. visited' = visited
    BY <1>6 DEF Compare
  <2>2. Below(g + 1) = Below(g)
    <3>1. ASSUME NEW j \in HopsOf(slot_) PROVE j < g + 1 <=> j < g
      <4>1. j \in Int /\ g \in Int /\ j # g
        BY <1>1, <1>4, <1>6
      <4> QED BY <4>1
    <3> QED BY <3>1 DEF Below
  <2> QED BY <1>1, <1>3, <2>1, <2>2
<1> QED BY <1>5, <1>6

\* Then it moves on to the next distance there is.
LEMMA WalkAdvances ==
  ASSUME BitsOK, WalkOK, slot_info # 0, NEW g, WalkAt(g), Advance(ClearBit(slot_info, 0)),
         UNCHANGED <<size, home, slot_>>
  PROVE  /\ IsWord(slot_info') /\ target' \in Nat
         /\ \E k \in 0 .. W : /\ Below(k) = Below(g + 1)
                              /\ Bits(slot_info') = {j - k : j \in From(k)}
                              /\ slot_info' # 0 => k < size /\ target' = Place(k)
<1> DEFINE w == ClearBit(slot_info, 0)
           gap == Ntz(w)
<1>1. /\ size \in Nat \ {0} /\ home \in 0 .. size - 1 /\ HopsOf(slot_) \subseteq 0 .. size - 1
      /\ g \in 0 .. size - 1 /\ target = Place(g) /\ target \in 0 .. size - 1
      /\ Bits(slot_info) = {j - g : j \in From(g)} /\ W \in Nat \ {0}
  <2>1. /\ size \in Nat \ {0} /\ home \in 0 .. size - 1 /\ HopsOf(slot_) \subseteq 0 .. size - 1
        /\ g \in 0 .. size - 1 /\ target = Place(g)
        /\ Bits(slot_info) = {j - g : j \in From(g)} /\ W \in Nat \ {0}
    BY DistancesFit, WordAssumption DEF BitsOK, WalkAt
  <2> QED BY <2>1, Places
<1>2. slot_info' = ShiftRight(w, gap) /\ target' = Forward(target, gap)
  BY DEF Advance
<1>3. IsWord(w) /\ Bits(w) = Bits(slot_info) \ {0}
  <2>1. 0 \in 0 .. W - 1
    BY <1>1
  <2> QED BY <2>1, ClearsBit DEF WalkOK
<1>4. \A j \in HopsOf(slot_) : j > g <=> j - g \in Bits(w)
  <2> TAKE j \in HopsOf(slot_)
  <2>1. j \in Int /\ g \in Int
    BY <1>1
  <2>2. j > g => j \in From(g) /\ j - g # 0
    BY <2>1 DEF From
  <2>3. ASSUME j - g \in Bits(w) PROVE j > g
    <3>1. PICK k \in From(g) : j - g = k - g
      BY <1>1, <1>3, <2>3
    <3>2. k \in Int /\ k >= g /\ j - g # 0
      BY <1>1, <1>3, <2>3 DEF From
    <3> QED BY <2>1, <3>1, <3>2
  <2> QED BY <1>1, <1>3, <2>2, <2>3
<1>5. \A i \in Bits(w) : g + i \in HopsOf(slot_) /\ i >= 1 /\ i \in Nat
  <2> TAKE i \in Bits(w)
  <2>1. PICK j \in From(g) : i = j - g
    BY <1>1, <1>3
  <2>2. j \in HopsOf(slot_) /\ j \in Int /\ j >= g /\ i # 0 /\ g \in Int
    BY <1>1, <1>3 DEF From
  <2>3. g + i = j
    BY <2>1, <2>2
  <2> QED BY <2>1, <2>2, <2>3
<1> HIDE DEF w
<1>6. CASE w = 0
  <2>1. gap = W /\ W \in 0 .. W /\ Bits(w) = {}
    BY <1>1, <1>3, <1>6, NoBits DEF Ntz
  <2> HIDE DEF gap
  <2>2. slot_info' = 0 /\ IsWord(slot_info') /\ Bits(slot_info') = {}
    <3>1. slot_info' = 0
      BY <1>2, <1>6, <2>1, ShiftZero
    <3> QED BY <1>3, <1>6, <2>1, <3>1
  <2>3. target' \in Nat
    BY <1>1, <1>2, <2>1 DEF Forward
  <2>4. \A j \in HopsOf(slot_) : ~(j > g) /\ j \in Int
    BY <1>1, <1>4, <2>1
  <2>5. HopsOf(slot_) \subseteq 0 .. W - 2
    BY DistancesFit DEF BitsOK
  <2>6. Below(W) = Below(g + 1) /\ From(W) = {}
    <3>1. \A j \in HopsOf(slot_) : j < W /\ j < g + 1 /\ ~(j >= W)
      BY <1>1, <2>4, <2>5
    <3> QED BY <3>1 DEF Below, From
  <2>7. Bits(slot_info') = {j - W : j \in From(W)}
    BY <2>2, <2>6
  <2> QED BY <2>1, <2>2, <2>3, <2>6, <2>7
<1>7. CASE w # 0
  <2>1. gap \in Bits(w) /\ \A i \in Bits(w) : gap <= i
    BY <1>3, <1>7, NtzIs
  <2> HIDE DEF gap
  <2> DEFINE k == g + gap
  <2>2. gap \in Nat /\ gap >= 1 /\ k \in HopsOf(slot_) /\ k \in 0 .. size - 1 /\ gap \in 0 .. W /\ k \in 0 .. W
    <3>1. gap \in Nat /\ gap >= 1 /\ k \in HopsOf(slot_)
      BY <1>5, <2>1
    <3>2. HopsOf(slot_) \subseteq 0 .. W - 2 /\ gap \in 0 .. W - 1
      BY <2>1, DistancesFit DEF BitsOK, Bits
    <3>3. k \in 0 .. W - 2 /\ k \in 0 .. size - 1
      BY <1>1, <3>1, <3>2
    <3> QED BY <1>1, <3>1, <3>2, <3>3
  <2>3. IsWord(slot_info') /\ Bits(slot_info') = {i - gap : i \in {j \in Bits(w) : j >= gap}}
    BY <1>2, <1>3, <2>2, BitsShifted
  <2>4. {j \in Bits(w) : j >= gap} = Bits(w)
    BY <1>5, <2>1, <2>2
  <2>5. ASSUME NEW j \in HopsOf(slot_)
        PROVE  (j < k <=> j < g + 1) /\ (j >= k <=> j - g \in Bits(w)) /\ (j - g) - gap = j - k
    <3>1. j \in Int /\ g \in Int /\ (j > g <=> j - g \in Bits(w))
      BY <1>1, <1>4
    <3>2. j > g => gap <= j - g
      BY <2>1, <3>1
    <3> QED BY <2>2, <3>1, <3>2
  <2>6. Below(k) = Below(g + 1)
    BY <2>5 DEF Below
  <2>7. Bits(slot_info') = {j - k : j \in From(k)}
    <3>1. ASSUME NEW i \in Bits(w) PROVE i - gap \in {j - k : j \in From(k)}
      <4>1. g + i \in HopsOf(slot_) /\ (g + i) - g = i
        BY <1>1, <1>5
      <4>2. g + i \in From(k) /\ i - gap = (g + i) - k
        BY <2>5, <4>1 DEF From
      <4> QED BY <4>2
    <3>2. ASSUME NEW j \in From(k) PROVE j - k \in {i - gap : i \in Bits(w)}
      <4>1. j - g \in Bits(w) /\ (j - g) - gap = j - k
        BY <2>5 DEF From
      <4> QED BY <4>1
    <3> QED BY <2>3, <2>4, <3>1, <3>2
  <2>8. target' = Place(k)
    <3>1. k - g = gap /\ g <= k
      BY <1>1, <2>2
    <3> QED BY <1>1, <1>2, <2>2, <3>1, Places
  <2>9. target' \in Nat
    BY <1>1, <2>2, <2>8, Places
  <2> HIDE DEF k
  <2>10. k < size
    BY <1>1, <2>2
  <2> QED BY <2>2, <2>3, <2>6, <2>7, <2>8, <2>9, <2>10
<1> QED BY <1>6, <1>7

\* The walk keeps to its word; the word does not change under it.
LEMMA WalkStep ==
  ASSUME BitsOK, WalkOK, [Next]_vars
  PROVE  WalkOK'
<1>1. CASE UNCHANGED vars
  BY <1>1 DEF WalkOK, Ordered, WalkAt, Below, From, Place, Dist, Behind, vars
<1>2. CASE UseSlot \/ UnuseSlot \/ \E pos \in Distances : SetSlotBit(pos) \/ DropSlotBit(pos)
  <2>1. UNCHANGED <<size, home, pc, slot_info, target, visited>> /\ pc = "idle"
    BY <1>2 DEF UseSlot, UnuseSlot, SetSlotBit, DropSlotBit, Update
  <2> QED BY <2>1 DEF WalkOK, Ordered, Dist
<1>3. CASE Find
  BY <1>3, WalkStarts
<1>4. CASE FindStep
  <2>1. PICK hit \in BOOLEAN : Compare(hit) /\ (~hit => Advance(ClearBit(slot_info, 0)))
    BY <1>4 DEF FindStep
  <2>2. pc = "loop" /\ slot_info # 0 /\ UNCHANGED <<size, home, slot_>>
    BY <1>4 DEF FindStep
  <2>3. PICK g : WalkAt(g)
    BY <2>2 DEF WalkOK
  <2>4. /\ visited' \in Seq(0 .. size - 1)
        /\ \A i \in 1 .. Len(visited') : Dist(visited'[i]) \in Below(g + 1)
        /\ \A j \in Below(g + 1) : \E i \in 1 .. Len(visited') : visited'[i] = Place(j)
        /\ Len(visited') = Cardinality(Below(g + 1))
        /\ \A i, j \in 1 .. Len(visited') : i < j => Dist(visited'[i]) < Dist(visited'[j])
    BY <2>1, <2>2, <2>3, WalkCompares
  <2>5. visited' \in Seq(0 .. size' - 1) /\ Ordered'
    BY <2>2, <2>4 DEF Dist, Ordered
  <2>6. CASE hit
    <3>1. pc' = "hit" /\ UNCHANGED <<slot_info, target>>
      BY <2>1, <2>6 DEF Compare
    <3> QED BY <2>2, <2>5, <3>1 DEF WalkOK
  <2>7. CASE ~hit
    <3>1. /\ IsWord(slot_info') /\ target' \in Nat
          /\ \E k \in 0 .. W : /\ Below(k) = Below(g + 1)
                               /\ Bits(slot_info') = {j - k : j \in From(k)}
                               /\ slot_info' # 0 => k < size /\ target' = Place(k)
      BY <2>1, <2>2, <2>3, <2>7, WalkAdvances
    <3>2. PICK k \in 0 .. W : /\ Below(k) = Below(g + 1)
                              /\ Bits(slot_info') = {j - k : j \in From(k)}
                              /\ slot_info' # 0 => k < size /\ target' = Place(k)
      BY <3>1
    <3>3. WalkAt(k)'
      BY <2>2, <2>4, <3>2 DEF WalkAt, Below, From, Place, Dist
    <3>4. pc' = "loop"
      BY <2>1, <2>7 DEF Advance
    <3> QED BY <2>5, <3>1, <3>3, <3>4 DEF WalkOK
  <2> QED BY <2>6, <2>7
<1>5. CASE FindNothing
  <2>1. /\ pc = "loop" /\ slot_info = 0 /\ pc' = "end"
        /\ UNCHANGED <<size, home, slot_, slot_info, target, visited>>
    BY <1>5 DEF FindNothing
  <2>2. PICK g : WalkAt(g)
    BY <2>1 DEF WalkOK
  <2>3. Bits(slot_info) = {}
    BY <2>1, NoBits DEF WalkOK
  <2>4. Behind = {}
    <3>1. From(g) = {}
      BY <2>2, <2>3 DEF WalkAt
    <3> QED BY <2>2, <3>1, WalkBehind
  <2>5. Behind' = Behind
    BY <2>1 DEF Behind
  <2> QED BY <2>1, <2>4, <2>5 DEF WalkOK, Ordered, Dist
<1>6. CASE Return
  <2>1. /\ pc' = "idle" /\ slot_info' = 0 /\ target' = home /\ visited' = <<>>
        /\ UNCHANGED <<size, home, slot_>>
    BY <1>6 DEF Return
  <2>2. W \in 0 .. W /\ home \in Nat
    BY WordAssumption DEF BitsOK
  <2>3. IsWord(slot_info')
    BY <2>1, <2>2, ShiftZero DEF IsWord
  <2>4. visited' \in Seq(0 .. size - 1) /\ Len(visited') = 0 /\ 1 .. 0 = {}
    BY <2>1
  <2> QED BY <2>1, <2>2, <2>3, <2>4 DEF WalkOK, Ordered
<1> QED BY <1>1, <1>2, <1>3, <1>4, <1>5, <1>6 DEF Next

\* No walk has begun.
LEMMA WalkInit == Init => WalkOK
<1> SUFFICES ASSUME Init PROVE WalkOK
  OBVIOUS
<1>1. BitsOK /\ pc = "idle" /\ slot_info = 0 /\ slot_ = 0 /\ target = home /\ visited = <<>>
  BY BitsInit DEF Init
<1>2. Len(visited) = 0 /\ 1 .. 0 = {} /\ visited \in Seq(0 .. size - 1) /\ home \in Nat
  BY <1>1 DEF BitsOK
<1> QED BY <1>1, <1>2 DEF WalkOK, Ordered, BitsOK

\* Both are invariants.
LEMMA WalkHolds == Spec => [](BitsOK /\ WalkOK)
<1>1. Init => BitsOK /\ WalkOK
  BY BitsInit, WalkInit
<1>2. BitsOK /\ WalkOK /\ [Next]_vars => BitsOK' /\ WalkOK'
  BY BitsStep, WalkStep
<1> QED BY <1>1, <1>2, PTL DEF Spec

\* For words of 64 bits as of 8: find() neither skips nor repeats a pair of the bucket,
\* and its pointer is inside the array as long as it is used.
THEOREM WalksInStep == Spec => []WalkInStep
<1>1. BitsOK /\ WalkOK => WalkInStep
  <2> SUFFICES ASSUME BitsOK, WalkOK, pc = "loop"
               PROVE  /\ slot_info # 0 => target \in 0 .. size - 1
                      /\ {(target + j) % size : j \in Bits(slot_info)} = {(home + j) % size : j \in Behind}
                      /\ Cardinality(Behind) + Len(visited) = Cardinality(HopsOf(slot_))
    BY DEF WalkInStep
  <2>1. PICK g : WalkAt(g)
    BY DEF WalkOK
  <2>2. Behind = From(g)
    BY <2>1, WalkBehind
  <2>3. /\ size \in Nat \ {0} /\ home \in 0 .. size - 1 /\ HopsOf(slot_) \subseteq 0 .. size - 1
        /\ g \in Nat /\ Bits(slot_info) = {j - g : j \in From(g)}
        /\ slot_info # 0 => g \in 0 .. size - 1 /\ target = Place(g)
        /\ Len(visited) = Cardinality(Below(g))
    BY <2>1, DistancesFit, WordAssumption DEF BitsOK, WalkAt
  <2>4. slot_info # 0 => target \in 0 .. size - 1
    BY <2>3, Places
  <2>5. {(target + j) % size : j \in Bits(slot_info)} = {Place(j) : j \in From(g)}
    <3>1. CASE slot_info = 0
      <4>1. From(g) = {} /\ Bits(slot_info) = {}
        BY <2>3, <3>1, NoBits DEF WalkOK
      <4> QED BY <4>1
    <3>2. CASE slot_info # 0
      <4>1. ASSUME NEW j \in From(g) PROVE (target + (j - g)) % size = Place(j)
        <5>1. j \in 0 .. size - 1 /\ g <= j /\ g \in 0 .. size - 1 /\ target = Place(g)
          BY <2>3, <3>2 DEF From
        <5> QED BY <2>3, <5>1, Places
      <4> QED BY <2>3, <4>1
    <3> QED BY <3>1, <3>2
  <2>6. Cardinality(From(g)) + Cardinality(Below(g)) = Cardinality(HopsOf(slot_))
    <3>1. IsFiniteSet(HopsOf(slot_)) /\ From(g) \subseteq HopsOf(slot_) /\ Below(g) \subseteq HopsOf(slot_)
      <4>1. IsFiniteSet(0 .. size - 1)
        BY <2>3, FS_Interval
      <4> QED BY <2>3, <4>1, FS_Subset DEF From, Below
    <3>2. IsFiniteSet(From(g)) /\ IsFiniteSet(Below(g))
      BY <3>1, FS_Subset
    <3>3. From(g) \cup Below(g) = HopsOf(slot_) /\ From(g) \cap Below(g) = {}
      BY <2>3 DEF From, Below
    <3>4. /\ Cardinality(From(g) \cup Below(g)) =
               Cardinality(From(g)) + Cardinality(Below(g)) - Cardinality(From(g) \cap Below(g))
          /\ Cardinality(From(g)) \in Nat /\ Cardinality(Below(g)) \in Nat
      BY <3>2, FS_Union, FS_CardinalityType
    <3>5. Cardinality(From(g) \cap Below(g)) = 0
      BY <3>3, FS_EmptySet
    <3>6. Cardinality(From(g) \cup Below(g)) = Cardinality(HopsOf(slot_))
      BY <3>3
    <3> QED BY <3>4, <3>5, <3>6
  <2>7. {(home + j) % size : j \in Behind} = {Place(j) : j \in From(g)}
    BY <2>2 DEF Place
  <2> QED BY <2>2, <2>3, <2>4, <2>5, <2>6, <2>7
<1> QED BY <1>1, WalkHolds, PTL

\* A miss has compared every pair of the bucket, and nearer ones first.
THEOREM MissesAreComplete == Spec => []MissIsComplete
<1>1. BitsOK /\ WalkOK => MissIsComplete
  BY DEF WalkOK, Ordered, MissIsComplete, Dist
<1> QED BY <1>1, WalkHolds, PTL

\* What use_slot(), unuse_slot(), set_slot_bit() and drop_slot_bit() do to the word is
\* what HopscotchTable takes them to do to a set.
THEOREM WordsAreAlwaysSets == Spec => WordsAreSets
<1>1. BitsOK /\ [Next]_vars =>
        [/\ UseSlot => IsUsed(slot_') /\ HopsOf(slot_') = HopsOf(slot_)
         /\ UnuseSlot => ~IsUsed(slot_') /\ HopsOf(slot_') = HopsOf(slot_)
         /\ \A pos \in Distances :
              /\ SetSlotBit(pos) => HopsOf(slot_') = HopsOf(slot_) \cup {pos} /\ IsUsed(slot_') = IsUsed(slot_)
              /\ DropSlotBit(pos) => HopsOf(slot_') = HopsOf(slot_) \ {pos} /\ IsUsed(slot_') = IsUsed(slot_)
        ]_vars
  BY WordChanges
<1>2. Spec => []BitsOK
  BY WalkHolds, PTL
<1> QED BY <1>1, <1>2, PTL DEF Spec, WordsAreSets

===============================================================================
