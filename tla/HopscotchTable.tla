---------------------------- MODULE HopscotchTable ----------------------------
(***************************************************************************)
(* The hopscotch hash table of nanahan::Map (map/map.hpp): insert, find,   *)
(* erase and bucket_extend, one step per iteration of their loops.         *)
(*                                                                         *)
(* A table of n buckets is a function on 0..n-1.  A bucket's slot_ word is *)
(* split into used (bit 0) and hops (bit j+1 of the word is j \in hops:    *)
(* the element at distance j belongs to this bucket).  kvp is the pair     *)
(* constructed in the bucket's storage_, NULL when none is.                *)
(*                                                                         *)
(* pc is the operation's place in the code:                                *)
(*   idle      no call is running                                          *)
(*   insert    entry of insert(): find, then probe for an empty bucket     *)
(*   displace  the while loop of insert(): free and distance are its locals*)
(*   extend    bucket_extend() has been called                             *)
(*   rehash    its for loop; cursor is the iterator                        *)
(*   move      the while loop of insert_unsafe() for the element at cursor *)
(*   crashed   an allocation failed and its NULL result was written through*)
(***************************************************************************)
EXTENDS Integers, FiniteSets

CONSTANTS
  Keys, Values,
  Hash,          \* Hash[k]: the value of the Hash functor
  SLOTSIZE,      \* hop bits searched per bucket (15 in the code)
  HOP_RANGE,     \* how far insert() probes (8 * SLOTSIZE in the code)
  INITIAL_SIZE,  \* the constructor's initial_size (8 by default)
  MemoryLimit,   \* largest table malloc() can return
  NULL

ASSUME SizesAssumption ==
  /\ SLOTSIZE \in Nat \ {0}
  /\ HOP_RANGE \in Nat \ {0}
  /\ INITIAL_SIZE \in Nat \ {0}
  /\ MemoryLimit \in Nat

\* locate() masks with bucket_size_ - 1: it is the remainder for powers of two only.
ASSUME PowerOfTwoAssumption == \E e \in 0..63 : INITIAL_SIZE = 2^e

ASSUME HashAssumption == Hash \in [Keys -> Nat]

Kvp == [first : Keys, second : Values]

ASSUME NullAssumption == NULL \notin Keys \cup Values \cup Kvp \cup Nat

VARIABLES
  table,      \* buckets_
  size,       \* bucket_size_
  used_size,  \* used_size_
  newTable,   \* new_map.buckets_ of bucket_extend(), empty outside it
  newSize,    \* new_size of bucket_extend(), 0 outside it
  cursor,     \* position of the iterator it of bucket_extend()
  pc,
  kvp,        \* the argument of insert()
  free,       \* empty_bucket (an index), NULL when dead
  distance,   \* distance of free from the home bucket of the pair
  out         \* last response given to the caller

vars == <<table, size, used_size, newTable, newSize, cursor, pc, kvp, free,
          distance, out>>

-------------------------------------------------------------------------------
(* Operators over a table T of n buckets.                                  *)

Hops == 0..SLOTSIZE-1

EmptyTable(n) == [b \in 0..n-1 |-> [used |-> FALSE, hops |-> {}, kvp |-> NULL]]

Locate(k, n) == Hash[k] % n

\* forward(), bucket_index() and the index stepping of the probes.
Forward(b, d, n) == IF b + d < n THEN b + d ELSE b + d - n

Backward(b, d, n) == IF b >= d THEN b - d ELSE b - d + n

\* find() tests the buckets named by the home bucket's hop bits.
Hit(T, n, k, j) ==
  LET h == Locate(k, n)
      p == Forward(h, j, n)
  IN  j \in T[h].hops /\ T[p].used /\ T[p].kvp.first = k

\* find() visits the bits in ascending order: the bucket it returns.
FoundAt(T, n, k, p) ==
  \E j \in Hops :
    /\ Hit(T, n, k, j)
    /\ \A i \in 0..j-1 : ~Hit(T, n, k, i)
    /\ p = Forward(Locate(k, n), j, n)

IsFound(T, n, k) == \E j \in Hops : Hit(T, n, k, j)

\* Mutant: the probe is bounded by the hop range of an element.
MaxDistance_Slot(n) == IF SLOTSIZE < n THEN SLOTSIZE ELSE n

MaxDistance(n) == IF HOP_RANGE < n THEN HOP_RANGE ELSE n

\* The probe from home bucket h stops at distance d ...
EmptyAt(T, n, h, d) ==
  /\ d \in 0..MaxDistance(n)-1
  /\ ~T[Forward(h, d, n)].used
  /\ \A e \in 0..d-1 : T[Forward(h, e, n)].used

\* ... or runs into max_distance.
NoEmpty(T, n, h) == \A d \in 0..MaxDistance(n)-1 : T[Forward(h, d, n)].used

\* swap_to_closer_bucket(): the bucket i before f owns an element at distance j < i.
Movable(T, n, f, i, j) ==
  /\ i \in 1..SLOTSIZE-1
  /\ j \in 0..i-1
  /\ j \in T[Backward(f, i, n)].hops

CanMove(T, n, f) == \E i, j \in Hops : Movable(T, n, f, i, j)

\* Its loops look at the farthest bucket first, then at the nearest element.
FirstMovable(T, n, f, i, j) ==
  /\ Movable(T, n, f, i, j)
  /\ \A i2, j2 \in Hops :
       Movable(T, n, f, i2, j2) => i2 < i \/ (i2 = i /\ j <= j2)

\* Mutant: drop_slot_bit(j) is forgotten.
Moved_KeepsBit(T, n, f, i, j) ==
  LET m == Backward(f, i, n)
      g == Forward(m, j, n)
  IN  [T EXCEPT ![f].kvp = T[g].kvp, ![f].used = TRUE,
                ![g].kvp = NULL, ![g].used = FALSE,
                ![m].hops = @ \cup {i}]

\* The element's pair goes to f (memcpy), its old storage is zeroed (memset).
Moved(T, n, f, i, j) ==
  LET m == Backward(f, i, n)
      g == Forward(m, j, n)
  IN  [T EXCEPT ![f].kvp = T[g].kvp, ![f].used = TRUE,
                ![g].kvp = NULL, ![g].used = FALSE,
                ![m].hops = (@ \ {j}) \cup {i}]

\* Mutant: use_slot() is forgotten.
Placed_Unused(T, h, f, d, pair) ==
  [T EXCEPT ![f].kvp = pair, ![h].hops = @ \cup {d}]

\* set_kvp(), use_slot() and set_slot_bit() at the end of an insertion.
Placed(T, h, f, d, pair) ==
  [T EXCEPT ![f].kvp = pair, ![f].used = TRUE, ![h].hops = @ \cup {d}]

\* Mutant: the search starts one bucket before p.
OwnerBits_SkipsOwn(T, n, p) == {i \in Hops \ {0} : i \in T[(p - i) % n].hops}

\* The hop bits through which erase() sees itself as the owner's element.
OwnerBits(T, n, p) == {i \in Hops : i \in T[(p - i) % n].hops}

\* The while loop gives up: *free_bucket = NULL.
Stuck(T, n) == SLOTSIZE <= distance /\ ~CanMove(T, n, free)

Response(op, k, res) == [op |-> op, key |-> k, res |-> res]

-------------------------------------------------------------------------------
Init ==
  /\ table = EmptyTable(INITIAL_SIZE)
  /\ size = INITIAL_SIZE
  /\ used_size = 0
  /\ newTable = EmptyTable(0)
  /\ newSize = 0
  /\ cursor = 0
  /\ pc = "idle"
  /\ kvp = NULL
  /\ free = NULL
  /\ distance = 0
  /\ out = Response("none", NULL, NULL)

rehashVars == <<newTable, newSize, cursor>>

\* The call returns to its caller, its locals die.
Return(op, k, res) ==
  /\ pc' = "idle"
  /\ kvp' = NULL
  /\ free' = NULL
  /\ distance' = 0
  /\ out' = Response(op, k, res)

\* A caller calls insert(pair).
InsertCall(pair) ==
  /\ pc = "idle"
  /\ pc' = "insert"
  /\ kvp' = pair
  /\ UNCHANGED <<table, size, used_size, rehashVars, free, distance, out>>

InsertPresent ==
  /\ pc = "insert"
  /\ IsFound(table, size, kvp.first)
  /\ Return("insert", kvp.first, "present")
  /\ UNCHANGED <<table, size, used_size, rehashVars>>

InsertProbe ==
  LET h == Locate(kvp.first, size) IN
  /\ pc = "insert"
  /\ ~IsFound(table, size, kvp.first)
  /\ \E d \in 0..MaxDistance(size)-1 :
       /\ EmptyAt(table, size, h, d)
       /\ free' = Forward(h, d, size)
       /\ distance' = d
  /\ pc' = "displace"
  /\ UNCHANGED <<table, size, used_size, rehashVars, kvp, out>>

InsertNoEmpty ==
  /\ pc = "insert"
  /\ ~IsFound(table, size, kvp.first)
  /\ NoEmpty(table, size, Locate(kvp.first, size))
  /\ pc' = "extend"
  /\ UNCHANGED <<table, size, used_size, rehashVars, kvp, free, distance, out>>

\* One iteration of the while loop that brings the empty bucket closer.
InsertSwap ==
  /\ pc = "displace"
  /\ SLOTSIZE <= distance
  /\ \E i, j \in Hops :
       /\ FirstMovable(table, size, free, i, j)
       /\ table' = Moved(table, size, free, i, j)
       /\ free' = Forward(Backward(free, i, size), j, size)
       /\ distance' = distance - (i - j)
  /\ UNCHANGED <<size, used_size, rehashVars, pc, kvp, out>>

\* empty_bucket is NULL, or not empty after all: extend and start over.
InsertGiveUp ==
  /\ pc = "displace"
  /\ Stuck(table, size) \/ (distance < SLOTSIZE /\ table[free].used)
  /\ pc' = "extend"
  /\ free' = NULL
  /\ distance' = 0
  /\ UNCHANGED <<table, size, used_size, rehashVars, kvp, out>>

InsertPlace ==
  /\ pc = "displace"
  /\ distance < SLOTSIZE
  /\ ~table[free].used
  /\ table' = Placed(table, Locate(kvp.first, size), free, distance, kvp)
  /\ used_size' = used_size + 1
  /\ Return("insert", kvp.first, "inserted")
  /\ UNCHANGED <<size, rehashVars>>

\* After the loop sanity_check() copies pairs of the table, then set_kvp() the new
\* one; when a copy throws, the slot is not yet in use.
InsertThrow ==
  /\ pc = "displace"
  /\ distance < SLOTSIZE \/ Stuck(table, size)
  /\ Return("insert", kvp.first, "thrown")
  /\ UNCHANGED <<table, size, used_size, rehashVars>>

\* Map new_map(n): its constructor clears the slots of what malloc() returned.
NewMap(n) ==
  /\ newSize' = n
  /\ newTable' = EmptyTable(n)
  /\ cursor' = 0
  /\ free' = NULL
  /\ distance' = 0
  /\ pc' = IF n <= MemoryLimit THEN "rehash" ELSE "crashed"

\* Mutant: the new map has the size of the old one.
ExtendBegin_SameSize ==
  /\ pc = "extend"
  /\ NewMap(size)
  /\ UNCHANGED <<table, size, used_size, kvp, out>>

ExtendBegin ==
  /\ pc = "extend"
  /\ NewMap(2 * size)
  /\ UNCHANGED <<table, size, used_size, kvp, out>>

\* Mutant: the loop starts after the first element.
NextUsed_SkipsFirst(p) ==
  /\ p > cursor
  /\ table[p].used
  /\ \A q \in cursor+1..p-1 : ~table[q].used

\* operator++ of the iterator stops at the next used bucket p.
NextUsed(p) ==
  /\ p >= cursor
  /\ table[p].used
  /\ \A q \in cursor..p-1 : ~table[q].used

\* insert_unsafe(&*it) finds an empty bucket for the pair at p.
RehashProbe ==
  /\ pc = "rehash"
  /\ \E p \in 0..size-1, d \in 0..MaxDistance(newSize)-1 :
       LET h == Locate(table[p].kvp.first, newSize) IN
       /\ NextUsed(p)
       /\ EmptyAt(newTable, newSize, h, d)
       /\ cursor' = p
       /\ free' = Forward(h, d, newSize)
       /\ distance' = d
  /\ pc' = "move"
  /\ UNCHANGED <<table, size, used_size, newTable, newSize, kvp, out>>

MoveSwap ==
  /\ pc = "move"
  /\ SLOTSIZE <= distance
  /\ \E i, j \in Hops :
       /\ FirstMovable(newTable, newSize, free, i, j)
       /\ newTable' = Moved(newTable, newSize, free, i, j)
       /\ free' = Forward(Backward(free, i, newSize), j, newSize)
       /\ distance' = distance - (i - j)
  /\ UNCHANGED <<table, size, used_size, newSize, cursor, pc, kvp, out>>

\* insert_unsafe() returns false: no empty bucket in reach, or none close enough.
InsertUnsafeFails ==
  \/ /\ pc = "rehash"
     /\ \E p \in 0..size-1 :
          /\ NextUsed(p)
          /\ NoEmpty(newTable, newSize, Locate(table[p].kvp.first, newSize))
  \/ pc = "move" /\ Stuck(newTable, newSize)

\* Then bucket_extend() drops new_map, doubles new_size and starts over.
ExtendRetry ==
  /\ InsertUnsafeFails
  /\ NewMap(2 * newSize)
  /\ UNCHANGED <<table, size, used_size, kvp, out>>

MovePlace ==
  LET pair == table[cursor].kvp IN
  /\ pc = "move"
  /\ distance < SLOTSIZE
  /\ newTable' = Placed(newTable, Locate(pair.first, newSize), free, distance, pair)
  /\ cursor' = cursor + 1
  /\ pc' = "rehash"
  /\ free' = NULL
  /\ distance' = 0
  /\ UNCHANGED <<table, size, used_size, newSize, kvp, out>>

\* The copy of an element throws: new_map is destroyed, the exception leaves insert().
MoveThrow ==
  /\ pc = "move"
  /\ distance < SLOTSIZE
  /\ newTable' = EmptyTable(0)
  /\ newSize' = 0
  /\ cursor' = 0
  /\ Return("insert", kvp.first, "thrown")
  /\ UNCHANGED <<table, size, used_size>>

\* Mutant: bucket_size_ is not updated.
ExtendEnd_OldSize ==
  /\ pc = "rehash"
  /\ \A p \in cursor..size-1 : ~table[p].used
  /\ table' = newTable
  /\ newTable' = EmptyTable(0)
  /\ newSize' = 0
  /\ cursor' = 0
  /\ pc' = "insert"
  /\ UNCHANGED <<size, used_size, kvp, free, distance, out>>

\* end_it is reached: swap the bucket arrays, then "return insert(kvp)".
ExtendEnd ==
  /\ pc = "rehash"
  /\ \A p \in cursor..size-1 : ~table[p].used
  /\ table' = newTable
  /\ size' = newSize
  /\ newTable' = EmptyTable(0)
  /\ newSize' = 0
  /\ cursor' = 0
  /\ pc' = "insert"
  /\ UNCHANGED <<used_size, kvp, free, distance, out>>

FindKey(k) ==
  /\ pc = "idle"
  /\ \/ \E p \in 0..size-1 :
          /\ FoundAt(table, size, k, p)
          /\ out' = Response("find", k, table[p].kvp.second)
     \/ /\ ~IsFound(table, size, k)
        /\ out' = Response("find", k, NULL)
  /\ UNCHANGED <<table, size, used_size, rehashVars, pc, kvp, free, distance>>

\* erase(where) of an iterator to bucket p, which holds a pair: the hop bit is
\* looked for in p, then in the buckets before it; when none has one, the code
\* prints "failed to erase" and leaves used_size_ alone.  (When find() does not
\* find the key the call returns without a change, like that of end().)
Erase(p) ==
  LET owners == OwnerBits(table, size, p)
      i == CHOOSE x \in owners : \A y \in owners : x <= y
      emptied == [table EXCEPT ![p].kvp = NULL, ![p].used = FALSE]
      k == table[p].kvp.first
  IN
  /\ pc = "idle"
  /\ table[p].used
  /\ IsFound(table, size, k)
  /\ table' = IF owners = {} THEN emptied
              ELSE [emptied EXCEPT ![(p - i) % size].hops = @ \ {i}]
  /\ used_size' = IF owners = {} THEN used_size ELSE used_size - 1
  /\ out' = Response("erase", k, "erased")
  /\ UNCHANGED <<size, rehashVars, pc, kvp, free, distance>>

-------------------------------------------------------------------------------
Call ==
  \/ \E pair \in Kvp : InsertCall(pair)
  \/ \E k \in Keys : FindKey(k)
  \/ \E p \in 0..size-1 : Erase(p)

\* The steps a running insert() takes by itself.
Step ==
  \/ InsertPresent \/ InsertProbe \/ InsertNoEmpty
  \/ InsertSwap \/ InsertGiveUp \/ InsertPlace \/ InsertThrow
  \/ ExtendBegin \/ RehashProbe \/ ExtendRetry
  \/ MoveSwap \/ MovePlace \/ MoveThrow \/ ExtendEnd

Next == Call \/ Step

Spec == Init /\ [][Next]_vars

\* A single thread runs the code: a call that can take a step takes one.
FairSpec == Spec /\ WF_vars(Step)

-------------------------------------------------------------------------------
(* Properties.                                                             *)

Bucket == [used : BOOLEAN, hops : SUBSET Hops, kvp : Kvp \cup {NULL}]

\* Every variable has its type; free points into the table being filled.
TypeOK ==
  /\ size \in Nat \ {0}
  /\ table \in [0..size-1 -> Bucket]
  /\ newSize \in Nat
  /\ newTable \in [0..newSize-1 -> Bucket]
  /\ used_size \in Nat
  /\ cursor \in 0..size
  /\ pc \in {"idle", "insert", "displace", "extend", "rehash", "move", "crashed"}
  /\ kvp \in Kvp \cup {NULL}
  /\ free \in Nat \cup {NULL}
  /\ distance \in Nat

\* Distance from bucket h forward to bucket p.
Gap(h, p, n) == IF p >= h THEN p - h ELSE p - h + n

\* A hop bit names a used bucket whose key belongs to the bit's bucket ...
BitsNameElements(T, n) ==
  \A h \in 0..n-1 : \A j \in T[h].hops :
    LET p == Forward(h, j, n) IN
    j < n /\ T[p].used /\ Locate(T[p].kvp.first, n) = h

\* ... every element is named by its home bucket, within SLOTSIZE ...
ElementsAreNamed(T, n) ==
  \A p \in 0..n-1 : T[p].used =>
    LET h == Locate(T[p].kvp.first, n) IN Gap(h, p, n) \in T[h].hops

\* ... a slot is in use exactly when a pair is constructed in it ...
SlotsHoldPairs(T, n) == \A p \in 0..n-1 : T[p].used <=> T[p].kvp # NULL

\* ... and no key is stored twice.
KeysAreUnique(T, n) ==
  \A p, q \in 0..n-1 :
    T[p].used /\ T[q].used /\ T[p].kvp.first = T[q].kvp.first => p = q

TableOK(T, n) ==
  /\ SlotsHoldPairs(T, n)
  /\ BitsNameElements(T, n)
  /\ ElementsAreNamed(T, n)
  /\ KeysAreUnique(T, n)

\* What sanity_check() (map.hpp:340-378) looks for, and more: in the map and in
\* the map bucket_extend() fills, hop bits and elements agree in every state of
\* an insertion, in particular between two displacements.
HopInfoExact == TableOK(table, size) /\ TableOK(newTable, newSize)

\* size() counts the elements, whatever displacements, extensions, exceptions
\* and erasures came before.
SizeExact == used_size = Cardinality({p \in 0..size-1 : table[p].used})

\* The asserts of use_slot(), unuse_slot() and set_slot_bit() in a displacement.
MoveAsserts(T, n) ==
  \A i, j \in Hops : FirstMovable(T, n, free, i, j) =>
    LET m == Backward(free, i, n) IN
    ~T[free].used /\ T[Forward(m, j, n)].used /\ i \notin T[m].hops

\* The asserts before and after a pair is placed (map.hpp:163, 173, 496, 764).
PlaceAsserts(T, n, key) ==
  ~T[free].used /\ distance \notin T[Locate(key, n)].hops

\* No assert of the insertion code (map.hpp:163, 173, 177, 496, 508, 764) fails
\* in a state that evaluates it.
AssertsHold ==
  /\ pc = "displace" /\ SLOTSIZE <= distance => MoveAsserts(table, size)
  /\ pc = "displace" /\ distance < SLOTSIZE =>
       PlaceAsserts(table, size, kvp.first) /\ used_size + 1 <= size
  /\ pc = "move" /\ SLOTSIZE <= distance => MoveAsserts(newTable, newSize)
  /\ pc = "move" /\ distance < SLOTSIZE =>
       PlaceAsserts(newTable, newSize, table[cursor].kvp.first)

KeysOf(T, n) == {T[p].kvp.first : p \in {q \in 0..n-1 : T[q].used}}

\* More keys have their homes in the m buckets from h than there are buckets within
\* SLOTSIZE of one of these homes: no arrangement of a table of n can hold them.
Crowded(keys, n) ==
  \E h \in 0..n-1, m \in 1..n :
    LET reach == m + SLOTSIZE - 1 IN
    Cardinality({k \in keys : Gap(h, Locate(k, n), n) < m}) > IF reach < n THEN reach ELSE n

\* The d buckets before b, which is not in use, are.
UsedBefore(T, n, b, d) == d < n /\ \A e \in 1..d : T[Backward(b, e, n)].used

\* An erasure, or an exception after a displacement, has left a gap: an element among
\* the used buckets before b has its home beyond them.
HasGap(T, n, b) ==
  \E i \in 1..n-1 :
    LET p == Backward(b, i, n) IN
    UsedBefore(T, n, b, i) /\ ~UsedBefore(T, n, b, i + Gap(Locate(T[p].kvp.first, n), p, n))

\* While the probe reaches the whole table (HOP_RANGE), an insertion gives a table up
\* only where no arrangement of its pairs and the new one exists, or where gaps hide
\* one: displacing the first pair that can go, and that one not back again, is as good
\* as a search of all arrangements.  And the table twice the size takes in all the
\* pairs in whatever order they come: "failed to insert_unsafe()" (529-537) does not
\* happen.  Pairs that are crowded at every size, such as more than SLOTSIZE keys of
\* one hash value, are thus all that drives a map without gaps out of memory.
ExtendsOnlyIfCrowded ==
  /\ pc = "displace" /\ size <= HOP_RANGE /\ Stuck(table, size) =>
       \/ Crowded(KeysOf(table, size) \cup {kvp.first}, size)
       \/ HasGap(table, size, free)
  /\ newSize > 2 * size => HOP_RANGE < newSize \div 2

\* The dictionary the table represents.
Contents ==
  [k \in Keys |->
    IF \E p \in 0..size-1 : table[p].used /\ table[p].kvp.first = k
    THEN table[CHOOSE p \in 0..size-1 :
                 table[p].used /\ table[p].kvp.first = k].kvp.second
    ELSE NULL]

D == INSTANCE Dictionary WITH dict <- Contents

\* Each call takes effect on the dictionary in one step, the one that returns:
\* probing, displacing and rehashing change nothing a caller can find, and a
\* throwing copy leaves the contents as they were.
ImplementsDictionary == D!Spec

\* Every insert() returns: the displacement loop, the rehash loop with its
\* restarts and the recursion after bucket_extend() end, with a result or for want
\* of memory (ExtendsOnlyIfCrowded).
InsertReturns == (pc # "idle") ~> (pc \in {"idle", "crashed"})
===============================================================================
