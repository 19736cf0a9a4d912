-------------------------------- MODULE SlotWord --------------------------------
(***************************************************************************)
(* The words that nanahan::Map (map/map.hpp) keeps of its buckets, with    *)
(* the arithmetic the code does on them: bit 0 of slot_ says that the      *)
(* bucket is used, bit j + 1 that a pair of this bucket lies j buckets     *)
(* further.  HopscotchTable takes such a word for a Boolean and a set of   *)
(* distances, and find() for a search in that set; this module checks both *)
(* over every word of one bucket.  The constants scale the word down: W is *)
(* 64, SLOTSIZE 15 and ntz() an instruction in the code.                   *)
(***************************************************************************)
EXTENDS Integers, FiniteSets, SequencesExt

CONSTANTS
  W,          \* the bits of slot_size
  SLOTSIZE,   \* the distances a word has bits for
  SIZES       \* the sizes of the tables

ASSUME WordAssumption ==
  /\ W \in Nat \ {0}
  /\ SLOTSIZE \in Nat /\ 1 <= SLOTSIZE /\ SLOTSIZE < W
  /\ SIZES \subseteq Nat \ {0}

VARIABLES
  size, home,   \* bucket_size_, and the index of the bucket the word belongs to
  slot_,        \* the word
  pc,           \* "idle", "loop" in find(), or what it returned: "hit", "end"
  slot_info, target,   \* the locals of find()
  visited       \* the buckets whose pair find() has compared

vars == <<size, home, slot_, pc, slot_info, target, visited>>

-------------------------------------------------------------------------------
(* Arithmetic on words: a shift by n places is n doublings or halvings.    *)

\* one << i
Power[i \in 0 .. W] == IF i = 0 THEN 1 ELSE 2 * Power[i-1]

Words == 0 .. Power[W] - 1

ShiftRight(w, n) ==
  LET half[k \in 0 .. W] == IF k = 0 THEN w ELSE half[k-1] \div 2
  IN  half[n]

Bits(w) == {i \in 0 .. W - 1 : ShiftRight(w, i) % 2 = 1}

\* w | (one << i), and w & ~(one << i)
SetBit(w, i) == IF i \in Bits(w) THEN w ELSE w + Power[i]
ClearBit(w, i) == IF i \in Bits(w) THEN w - Power[i] ELSE w

\* What a word means to HopscotchTable.
IsUsed(w) == 0 \in Bits(w)
HopsOf(w) == {i - 1 : i \in Bits(w) \ {0}}

\* v & w, of any two words
And(v, w) == FoldSet(LAMBDA i, sum : Power[i] + sum, 0, Bits(v) \cap Bits(w))

\* The masks of bitcount(): groups of s ones and s zeros in turn, as 0x33... is.
Mask(s) == (Power[W] - 1) \div (Power[s] + 1)

\* Mutant: the second mask is forgotten.
PairSums_Unmasked(w, s) == And(w, Mask(s)) + ShiftRight(w, s)

\* A line of bitcount(): neighbouring groups of s bits are added.
PairSums(w, s) == And(w, Mask(s)) + And(ShiftRight(w, s), Mask(s))

\* bitcount(): groups of 1, 2, 4 ... bits, up to half the word, whose width is a
\* power of two.
Rounds == Cardinality({i \in 1 .. W : W % 2^i = 0})
Bitcount(w) == FoldLeft(PairSums, w, [i \in 1 .. Rounds |-> 2^(i - 1)])

\* ntz(): the trailing zeros, the width of the word if there is no one in it.
Ntz(w) == IF w = 0 THEN W ELSE CHOOSE i \in Bits(w) : \A j \in Bits(w) : i <= j

\* Mutant: the used bit is taken for distance 0.
Slot_Whole(w) == w

\* get_slot()
Slot(w) == ShiftRight(w, 1)

\* Mutant: the bit of distance 0 is the one that says "used".
Bit_Unshifted(pos) == pos

\* The bit of distance pos: one << (pos + 1)
Bit(pos) == pos + 1

\* forward(): a pointer that is past the array comes round once.
Forward(b, stride) == IF b + stride < size THEN b + stride ELSE b + stride - size

-------------------------------------------------------------------------------
(* Actions.                                                                *)

Init ==
  /\ size \in SIZES
  /\ home \in 0 .. size - 1
  /\ slot_ = 0
  /\ pc = "idle"
  /\ slot_info = 0 /\ target = home
  /\ visited = <<>>

Update(w) ==
  /\ pc = "idle"
  /\ slot_' = w
  /\ UNCHANGED <<size, home, pc, slot_info, target, visited>>

\* use_slot() and unuse_slot() assert what they change.
UseSlot == ~IsUsed(slot_) /\ Update(SetBit(slot_, 0))
UnuseSlot == IsUsed(slot_) /\ Update(ClearBit(slot_, 0))

\* set_slot_bit() asserts that the bit is clear; a pair lies in the table.
Distances == {pos \in 0 .. SLOTSIZE - 1 : pos < size}
SetSlotBit(pos) == Bit(pos) \notin Bits(slot_) /\ Update(SetBit(slot_, Bit(pos)))
DropSlotBit(pos) == Update(ClearBit(slot_, Bit(pos)))

\* Mutant: the search starts behind the home bucket.
Find_Next ==
  /\ pc = "idle"
  /\ slot_info' = Slot(slot_)
  /\ target' = Forward(home, 1)
  /\ visited' = <<>>
  /\ pc' = "loop"
  /\ UNCHANGED <<size, home, slot_>>

\* find() takes the word of the home bucket.
Find ==
  /\ pc = "idle"
  /\ slot_info' = Slot(slot_)
  /\ target' = home
  /\ visited' = <<>>
  /\ pc' = "loop"
  /\ UNCHANGED <<size, home, slot_>>

\* The pair is compared if the lowest bit is set, and may be the one.
Compare(hit) ==
  /\ IF 0 \in Bits(slot_info)
     THEN visited' = Append(visited, target)
     ELSE visited' = visited /\ ~hit
  /\ hit => pc' = "hit" /\ UNCHANGED <<slot_info, target>>

\* Otherwise the word and the bucket move on to the next bit.  The shift by the
\* whole width, when no bit is left, is undefined in C++, but any shift of zero
\* is zero on the machine; the pointer may then lie anywhere, and is not used.
Advance(w) ==
  LET gap == Ntz(w) IN
  /\ slot_info' = ShiftRight(w, gap)
  /\ target' = Forward(target, gap)
  /\ pc' = "loop"

FindStep ==
  /\ pc = "loop" /\ slot_info # 0
  /\ \E hit \in BOOLEAN :
       /\ Compare(hit)
       /\ ~hit => Advance(ClearBit(slot_info, 0))
  /\ UNCHANGED <<size, home, slot_>>

FindNothing ==
  /\ pc = "loop" /\ slot_info = 0
  /\ pc' = "end"
  /\ UNCHANGED <<size, home, slot_, slot_info, target, visited>>

\* The caller has the result, and goes on.
Return ==
  /\ pc \in {"hit", "end"}
  /\ pc' = "idle"
  /\ slot_info' = 0 /\ target' = home /\ visited' = <<>>
  /\ UNCHANGED <<size, home, slot_>>

Next ==
  \/ UseSlot
  \/ UnuseSlot
  \/ \E pos \in Distances : SetSlotBit(pos) \/ DropSlotBit(pos)
  \/ Find
  \/ FindStep
  \/ FindNothing
  \/ Return

Spec == Init /\ [][Next]_vars

-------------------------------------------------------------------------------
(* Properties.                                                             *)

\* The distances of the bits that find() has not looked at yet.
Behind == {j \in HopsOf(slot_) : \A i \in 1 .. Len(visited) : visited[i] # (home + j) % size}

\* The word and the pointer stay in step: what is left of the word names, from
\* the bucket that find() is at, the pairs that it has not compared, so that it
\* misses none and compares none twice; and the pointer is inside the array while
\* there is something left, although the last round may move it out (603-632).
WalkInStep ==
  pc = "loop" =>
    /\ slot_info # 0 => target \in 0 .. size - 1
    /\ {(target + j) % size : j \in Bits(slot_info)} = {(home + j) % size : j \in Behind}
    /\ Cardinality(Behind) + Len(visited) = Cardinality(HopsOf(slot_))

\* A miss has compared every pair of the bucket, and nearer ones first.
MissIsComplete ==
  /\ pc = "end" => Behind = {}
  /\ \A i, j \in 1 .. Len(visited) :
       i < j => (visited[i] - home) % size < (visited[j] - home) % size

\* The operations on the word are those on the set of distances and the used bit
\* that HopscotchTable has: each changes one bit and never the other part
\* (map.hpp:133-189).
WordsAreSets ==
  [][/\ UseSlot => IsUsed(slot_') /\ HopsOf(slot_') = HopsOf(slot_)
     /\ UnuseSlot => ~IsUsed(slot_') /\ HopsOf(slot_') = HopsOf(slot_)
     /\ \A pos \in Distances :
          /\ SetSlotBit(pos) => HopsOf(slot_') = HopsOf(slot_) \cup {pos} /\ IsUsed(slot_') = IsUsed(slot_)
          /\ DropSlotBit(pos) => HopsOf(slot_') = HopsOf(slot_) \ {pos} /\ IsUsed(slot_') = IsUsed(slot_)
    ]_vars

\* bitcount() counts the ones of every word (map.hpp:27-50, test_map.cc:258-277).
BitcountCounts == slot_ = 0 => \A w \in Words : Bitcount(w) = Cardinality(Bits(w))

===============================================================================
