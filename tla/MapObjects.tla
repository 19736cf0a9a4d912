------------------------------- MODULE MapObjects -------------------------------
(***************************************************************************)
(* The whole-object operations of nanahan::Map (map/map.hpp): constructor, *)
(* copy, assignment, swap, clear, comparison and destructor, and who owns  *)
(* the bucket arrays and the pairs in them.  An array is the block that    *)
(* malloc() returns; where in it a pair lies is the matter of              *)
(* HopscotchTable; whether it fits the array, or the larger ones that     *)
(* bucket_extend() tries, is left open here unless the array is full.      *)
(* Single-threaded: a call is a step, but an insertion is one step per     *)
(* round, and a copy one insertion per pair, each of which may throw.      *)
(***************************************************************************)
EXTENDS Integers, FiniteSets

CONSTANTS
  Maps,          \* the map objects of the client
  TEMP,          \* the local cp of operator=
  Arrays,        \* the blocks malloc() may return, each used once
  Keys, Values,
  INITIAL_SIZE,
  MaxSize,       \* bound: the largest array
  NULL

ASSUME ObjectsAssumption ==
  /\ TEMP \notin Maps
  /\ NULL \notin Values \cup Arrays \cup Maps
  /\ IsFiniteSet(Keys)
  /\ INITIAL_SIZE \in Nat \ {0} /\ MaxSize \in Nat

Objects == Maps \cup {TEMP}

VARIABLES
  object,    \* of each object: its fields, and whether it is live, being built or broken
  array,     \* of each block: its status, length, slots and the pairs alive in it
  doing,     \* the copy that is under way: for whom (self), into which object
  inserting, \* the insertion that is under way, and the size bucket_extend() tries next
  fault      \* how the program ran into undefined behaviour, "none" if it did not

vars == <<object, array, doing, inserting, fault>>

Nothing == [k \in Keys |-> NULL]
Count(d) == Cardinality({k \in Keys : d[k] # NULL})

NoObject == [state |-> "none", buckets |-> NULL, size |-> 0, used |-> 0]
NoArray == [status |-> "none", size |-> 0, clear |-> FALSE, kvps |-> Nothing]
NoCopy == [self |-> NULL, into |-> TEMP, from |-> TEMP, todo |-> {}, thrown |-> FALSE]
NoInsert == [map |-> NULL, key |-> NULL, value |-> NULL, new_size |-> 0]

Init ==
  /\ object = [x \in Objects |-> NoObject]
  /\ array = [a \in Arrays |-> NoArray]
  /\ doing = NoCopy
  /\ inserting = NoInsert
  /\ fault = "none"

-------------------------------------------------------------------------------
(* Helpers.                                                                *)

\* The client may make a call: none is running.
Idle == doing = NoCopy /\ inserting = NoInsert /\ fault = "none"

\* The object exists; it is "broken" when a call has left it with a freed array.
Exists(x) == object[x].state \in {"live", "broken"}

Unused == {a \in Arrays : array[a].status = "none"}
Fresh == CHOOSE a \in Unused : TRUE     \* the block malloc() returns next

Block(n, clear, kvps) == [status |-> "allocated", size |-> n, clear |-> clear, kvps |-> kvps]

\* The owner has forgotten the array: nothing will free it.
Leak(block) == [block EXCEPT !.status = "leaked", !.kvps = Nothing]

\* What free() leaves of a block: the pairs in it that nobody destroyed, if any.
Freed(kvps) == [NoArray EXCEPT !.status = "freed", !.kvps = kvps]
FreedBlock == Freed(Nothing)

Contents(x) == array[object[x].buckets].kvps

\* What reading the buckets of an object runs into.
Hazard(x) ==
  IF array[object[x].buckets].status = "freed" THEN "useAfterFree"
  ELSE IF ~array[object[x].buckets].clear THEN "garbageSlots"
  ELSE "none"

Fail(f) == fault' = f /\ UNCHANGED <<object, array, doing, inserting>>

\* begin() of a map without pairs reads the slot behind the array before it looks
\* whether it is there.  Undefined; the program may as well go on.
ReadBehind(x) == Contents(x) = Nothing /\ Fail("readsBehindArray")

-------------------------------------------------------------------------------
(* The operations.                                                         *)

\* Mutant: the slots of the new array are not cleared.
Construct_Unwritten(x) ==
  /\ Idle /\ object[x].state = "none" /\ Unused # {}
  /\ array' = [array EXCEPT ![Fresh] = Block(INITIAL_SIZE, FALSE, Nothing)]
  /\ object' = [object EXCEPT ![x] =
                  [state |-> "live", buckets |-> Fresh, size |-> INITIAL_SIZE, used |-> 0]]
  /\ UNCHANGED <<doing, inserting, fault>>

\* Map(initial_size): the slots of the new array are cleared.
Construct(x) ==
  /\ Idle /\ object[x].state = "none" /\ Unused # {}
  /\ array' = [array EXCEPT ![Fresh] = Block(INITIAL_SIZE, TRUE, Nothing)]
  /\ object' = [object EXCEPT ![x] =
                  [state |-> "live", buckets |-> Fresh, size |-> INITIAL_SIZE, used |-> 0]]
  /\ UNCHANGED <<doing, inserting, fault>>

\* insert() of a key that find() does not find.
Insert(x, k, v) ==
  /\ Idle /\ Exists(x)
  /\ IF Hazard(x) = "none"
     THEN /\ Contents(x)[k] = NULL
          /\ inserting' = [map |-> x, key |-> k, value |-> v, new_size |-> 0]
          /\ UNCHANGED <<object, array, doing, fault>>
     ELSE Fail(Hazard(x))

Inserting == inserting # NoInsert /\ fault = "none"

\* There is room: the pair is put, the insertion is done.
Place ==
  LET x == inserting.map IN
  /\ Inserting /\ inserting.new_size = 0
  /\ Count(Contents(x)) < object[x].size
  /\ array' = [array EXCEPT ![object[x].buckets].kvps[inserting.key] = inserting.value]
  /\ object' = [object EXCEPT ![x].used = @ + 1]
  /\ inserting' = NoInsert
  /\ doing' = [doing EXCEPT !.todo = @ \ {inserting.key}]
  /\ UNCHANGED fault

\* bucket_extend() makes a new_map twice the size, or twice the one that was tried
\* last.  It is called when the insertion finds no room, never in an empty map.
NewSize ==
  IF inserting.new_size = 0 THEN 2 * object[inserting.map].size ELSE inserting.new_size

Extending ==
  /\ Inserting /\ Contents(inserting.map) # Nothing
  /\ Unused # {} /\ NewSize <= MaxSize

\* What insert_unsafe() may have copied before it fails or throws.
Part(d, K) == [k \in Keys |-> IF k \in K THEN d[k] ELSE NULL]
Parts(d) == {Part(d, K) : K \in SUBSET Keys} \ {d}

\* Mutant: the new array is installed though pairs may be missing in it.
Extended_Unchecked(d) == ({d} \cup Parts(d)) \ {Nothing}

\* What the array that bucket_extend() installs may hold.
Extended(d) == {d}

\* Mutant: the old array is not freed.
Outgrown_Keeps(block) == block

\* The old array is freed by ~new_map(), the pairs in it are not destroyed
\* (dont_destroy_elements_).
Outgrown(block) == Freed(block.kvps)

\* All pairs fit: the new array is installed, and insert() begins again.
Extend ==
  LET x == inserting.map
      old == object[x].buckets
  IN
  /\ Extending
  /\ \E d \in Extended(Contents(x)) :
       array' = [array EXCEPT ![old] = Outgrown(@), ![Fresh] = Block(NewSize, TRUE, d)]
  /\ object' = [object EXCEPT ![x].buckets = Fresh, ![x].size = NewSize]
  /\ inserting' = [inserting EXCEPT !.new_size = 0]
  /\ UNCHANGED <<doing, fault>>

\* A pair does not fit (the first one always does): new_map is dropped with the
\* copies made so far, the next one is twice as large.
ExtendFails ==
  /\ Extending
  /\ \E d \in Parts(Contents(inserting.map)) \ {Nothing} :
       array' = [array EXCEPT ![Fresh] = Freed(d)]
  /\ inserting' = [inserting EXCEPT !.new_size = 2 * NewSize]
  /\ UNCHANGED <<object, doing, fault>>

\* A copy of a pair throws, in insert() itself (sanity_check(), set_kvp()) or while
\* new_map is filled.  The map keeps what it has, in the array it has by then.
InsertThrows ==
  /\ Inserting
  /\ \/ inserting.new_size = 0 /\ UNCHANGED array
     \/ /\ Extending
        /\ \E d \in Parts(Contents(inserting.map)) : array' = [array EXCEPT ![Fresh] = Freed(d)]
  /\ inserting' = NoInsert
  /\ doing' = [doing EXCEPT !.thrown = (doing # NoCopy)]
  /\ UNCHANGED <<object, fault>>

Erase(x, k) ==
  /\ Idle /\ Exists(x)
  /\ \/ /\ Hazard(x) = "none" /\ Contents(x)[k] # NULL
        /\ array' = [array EXCEPT ![object[x].buckets].kvps = [@ EXCEPT ![k] = NULL]]
        /\ object' = [object EXCEPT ![x].used = @ - 1]
        /\ UNCHANGED <<doing, inserting, fault>>
     \/ Hazard(x) # "none" /\ Fail(Hazard(x))

\* Mutant: the copy takes over the array of the original.
CopyStart_Shallow(self, x, y) ==
  /\ object' = [object EXCEPT ![x] = [object[y] EXCEPT !.state = "building"]]
  /\ doing' = [self |-> self, into |-> x, from |-> y, todo |-> {}, thrown |-> FALSE]
  /\ UNCHANGED <<array, inserting, fault>>

\* The copy gets an array as long as the original's, whose slots nobody clears:
\* what malloc() returns may read as zero or not.
CopyStart(self, x, y) ==
  LET n == object[y].size IN
  /\ Unused # {}
  /\ \E zero \in BOOLEAN : array' = [array EXCEPT ![Fresh] = Block(n, zero, Nothing)]
  /\ object' = [object EXCEPT ![x] =
                  [state |-> "building", buckets |-> Fresh, size |-> n, used |-> 0]]
  /\ doing' = [self |-> self, into |-> x, from |-> y, thrown |-> FALSE,
               todo |-> {k \in Keys : Contents(y)[k] # NULL}]
  /\ UNCHANGED <<inserting, fault>>

\* Map(orig) of a new object, or of the local cp of operator=.
Copy(x, y) ==
  /\ Idle /\ object[x].state = "none" /\ Exists(y)
  /\ IF Hazard(y) = "none"
     THEN CopyStart(x, x, y) \/ ReadBehind(y)
     ELSE Fail(Hazard(y))

Assign(x, y) ==
  /\ Idle /\ Exists(x) /\ Exists(y)
  /\ IF Hazard(y) = "none"
     THEN CopyStart(x, TEMP, y) \/ ReadBehind(y)
     ELSE Fail(Hazard(y))

Copying ==
  /\ doing # NoCopy /\ inserting = NoInsert /\ fault = "none"
  /\ object[doing.into].state = "building"

\* insert(*it)
CopyOne(k) ==
  LET x == doing.into IN
  /\ Copying /\ ~ doing.thrown /\ k \in doing.todo
  /\ IF Hazard(x) = "none"
     THEN /\ inserting' = [map |-> x, key |-> k, value |-> Contents(doing.from)[k], new_size |-> 0]
          /\ UNCHANGED <<object, array, doing, fault>>
     ELSE Fail(Hazard(x))

\* Mutant: the pairs copied so far are not destroyed.
Abandoned_Forgets == Contents(doing.into)

\* The pairs that destroy_elements() leaves in the array when the copy fails.
Abandoned == Nothing

\* The object is complete; cp goes on to be swapped, a copy is done.
Complete(state) ==
  /\ object' = [object EXCEPT ![doing.into].state = state]
  /\ doing' = IF doing.into = TEMP THEN doing ELSE NoCopy

\* An insertion, or the closing sanity_check(), has thrown: the array is freed and
\* the exception swallowed, so that the constructor returns an object.
CopyThrow ==
  /\ Copying /\ doing.thrown
  /\ array' = [array EXCEPT ![object[doing.into].buckets] = Freed(Abandoned)]
  /\ Complete("broken")
  /\ UNCHANGED <<inserting, fault>>

\* sanity_check() looks through the slots, and copies the pairs it finds.
CopyEnd ==
  LET x == doing.into IN
  /\ Copying /\ ~ doing.thrown /\ doing.todo = {}
  /\ IF Hazard(x) # "none" THEN Fail(Hazard(x))
     ELSE \/ Complete("live") /\ UNCHANGED <<array, inserting, fault>>
          \/ /\ Contents(x) # Nothing
             /\ doing' = [doing EXCEPT !.thrown = TRUE]
             /\ UNCHANGED <<object, array, inserting, fault>>

\* Mutant: bucket_size_ is not swapped.
Swapped_KeepsSize(x, y) ==
  [object EXCEPT ![x] = [object[y] EXCEPT !.size = object[x].size],
                 ![y] = [object[x] EXCEPT !.size = object[y].size]]

\* swap(): all fields.
Swapped(x, y) == [object EXCEPT ![x] = object[y], ![y] = object[x]]

\* The rest of operator=: *this and cp are swapped, ~cp() frees what *this had.
AssignEnd ==
  LET this == doing.self IN
  /\ doing # NoCopy /\ fault = "none" /\ doing.into = TEMP /\ Exists(TEMP)
  /\ IF Hazard(this) = "none"
     THEN /\ object' = [Swapped(this, TEMP) EXCEPT ![TEMP] = NoObject]
          /\ array' = [array EXCEPT ![object[this].buckets] = FreedBlock]
          /\ doing' = NoCopy
          /\ UNCHANGED <<inserting, fault>>
     ELSE Fail(Hazard(this))

SwapWith(x, y) ==
  /\ Idle /\ Exists(x) /\ Exists(y)
  /\ object' = Swapped(x, y)
  /\ UNCHANGED <<array, doing, inserting, fault>>

\* operator==: begin() of x, and of y only if x has no pairs that differ.  A key of
\* x that y lacks or maps elsewhere makes it false.  A key
\* that only y has is looked up in x, and the end() found is compared with y's
\* end(): it is taken for an element and read, behind the last bucket.
Equal(x, y) ==
  /\ Idle /\ Exists(x) /\ Exists(y)
  /\ LET reads == {Hazard(x), Hazard(y)} \ {"none"}
         differ == \E k \in Keys : Contents(x)[k] # NULL /\ Contents(y)[k] # Contents(x)[k]
     IN  IF reads # {} THEN \E f \in reads : Fail(f)
         ELSE \/ ReadBehind(x)
              \/ IF differ \/ Contents(x) = Contents(y) THEN UNCHANGED vars
                 ELSE Fail("readsBehindEnd")

\* clear(): the pairs are destroyed, the new array is installed and freed at once,
\* the old one is forgotten.
Clear(x) ==
  LET old == object[x].buckets IN
  /\ Idle /\ Exists(x) /\ Unused # {}
  /\ IF Hazard(x) = "none"
     THEN /\ array' = [array EXCEPT ![old] = Leak(@), ![Fresh] = FreedBlock]
          /\ object' = [object EXCEPT ![x] =
                          [state |-> "broken", buckets |-> Fresh, size |-> INITIAL_SIZE, used |-> 0]]
          /\ UNCHANGED <<doing, inserting, fault>>
     ELSE Fail(Hazard(x))

\* ~Map(): destroy_elements(), free().
Destroy(x) ==
  /\ Idle /\ Exists(x)
  /\ IF Hazard(x) = "none"
     THEN /\ array' = [array EXCEPT ![object[x].buckets] = FreedBlock]
          /\ object' = [object EXCEPT ![x] = NoObject]
          /\ UNCHANGED <<doing, inserting, fault>>
     ELSE Fail(Hazard(x))

Next ==
  \/ \E x \in Maps :
       \/ Construct(x) \/ Clear(x) \/ Destroy(x)
       \/ \E k \in Keys : Erase(x, k) \/ \E v \in Values : Insert(x, k, v)
       \/ \E y \in Maps : Copy(x, y) \/ Assign(x, y) \/ SwapWith(x, y) \/ Equal(x, y)
  \/ \E k \in Keys : CopyOne(k)
  \/ Place \/ Extend \/ ExtendFails \/ InsertThrows
  \/ CopyThrow \/ CopyEnd \/ AssignEnd

Spec == Init /\ [][Next]_vars

-------------------------------------------------------------------------------
(* Properties.                                                             *)

\* Every object that no clear() and no failed copy has broken owns an allocated
\* array with the length and the number of pairs that its fields say, and shares
\* it with no other object, which might free it.
OwnsArray ==
  \A x \in Objects : object[x].state \in {"building", "live"} =>
    LET b == array[object[x].buckets] IN
    /\ b.status = "allocated"
    /\ b.size = object[x].size
    /\ Count(b.kvps) = object[x].used
    /\ \A y \in Objects \ {x} : object[y].buckets # object[x].buckets

\* No array is leaked but by clear(): an allocated one belongs to an object.
ArraysReclaimed ==
  \A a \in Arrays : array[a].status = "allocated" =>
    \E x \in Objects : object[x].state # "none" /\ object[x].buckets = a

\* A block is given up with pairs in it that nobody has destroyed only by an
\* insertion that extends its map, and each of those pairs is still in the map: what
\* leaks is a duplicate, also when new maps fail or throw one after the other.  A
\* copy that fails, an assignment, clear() and the destructors leave no pair behind.
UndestroyedAreCopies ==
  [][\A a \in Arrays :
       array'[a] # array[a] /\ array'[a].status # "allocated" /\ array'[a].kvps # Nothing =>
         /\ inserting # NoInsert
         /\ \A k \in Keys :
              array'[a].kvps[k] \in {NULL, array'[object'[inserting.map].buckets].kvps[k]}]_vars

\* What the client sees of a map.
View(x) ==
  IF object[x].state = "live" THEN [live |-> TRUE, dict |-> Contents(x)]
  ELSE [live |-> FALSE, dict |-> Nothing]

AbstractValue == [x \in Maps |-> View(x)]

Abstract == INSTANCE MapValues WITH value <- AbstractValue

\* Maps are values: copies have the contents of their original and are
\* independent of it afterwards (map/test_map.cc:308-362).
ImplementsValues == Abstract!Spec

\* The calls run into undefined behaviour for four reasons only: a map that clear()
\* or a failed copy has left with a freed array is used; a copy meets slots that
\* nobody cleared; begin() is called on a map without pairs, by a copy or a
\* comparison; a map is compared with one that has all its pairs and more.  No
\* assignment, swap, extension or exception carries the damage elsewhere.  What
\* goes on inside a call on a sound array is not counted here: the shift in find()
\* by the full width (map.hpp:625-626) is the matter of SlotWord.
OnlyKnownFaults ==
  /\ fault = "useAfterFree" => \E x \in Objects : object[x].state = "broken"
  /\ fault = "garbageSlots" => \E x \in Objects : object[x].state = "building"
  /\ fault = "readsBehindArray" =>
       \E x \in Maps : object[x].state = "live" /\ Contents(x) = Nothing
  /\ fault = "readsBehindEnd" =>
       \E x, y \in Maps :
         /\ object[x].state = "live" /\ object[y].state = "live"
         /\ Contents(x) # Contents(y)
         /\ \A k \in Keys : Contents(x)[k] \in {NULL, Contents(y)[k]}
=================================================================================
