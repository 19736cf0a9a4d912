--------------------------- MODULE MapObjects_proof ---------------------------
(***************************************************************************)
(* Who owns the bucket arrays, for any number of maps, arrays, keys and    *)
(* values: two maps never share one, sound maps own one that matches their *)
(* fields, and undefined behaviour has the known causes only.              *)
(***************************************************************************)
EXTENDS MapObjects, FiniteSetTheorems, TLAPS

Dicts == [Keys -> Values \cup {NULL}]
ObjectFields ==
  [state : {"none", "building", "live", "broken"}, buckets : Arrays \cup {NULL},
   size : Nat, used : Nat]
Blocks ==
  [status : {"none", "allocated", "leaked", "freed"}, size : Nat, clear : BOOLEAN, kvps : Dicts]

TypeInv ==
  /\ object \in [Objects -> ObjectFields]
  /\ array \in [Arrays -> Blocks]

\* What the fields o of an object say of the arrays A.
Matches(o, A) ==
  /\ o.state = "none" <=> o.buckets = NULL
  /\ o.state # "none" => A[o.buckets].status # "none"
  /\ o.state = "broken" => A[o.buckets].status = "freed"
  /\ o.state = "live" => A[o.buckets].clear
  /\ o.state \in {"building", "live"} =>
       /\ A[o.buckets].status = "allocated"
       /\ A[o.buckets].size = o.size
       /\ Count(A[o.buckets].kvps) = o.used

Apart ==
  \A x, y \in Objects : x # y /\ object[x].buckets # NULL => object[x].buckets # object[y].buckets

HeapInv == TypeInv /\ (\A x \in Objects : Matches(object[x], array)) /\ Apart /\ ArraysReclaimed

CopyTypeInv ==
  doing \in [self : Maps \cup {NULL}, into : Objects, from : Objects, todo : SUBSET Keys,
            thrown : BOOLEAN]

\* The copy under way: what is still to be copied is in the original, not in the copy.
CopyInv ==
  /\ doing = NoCopy => object[TEMP].state = "none" /\ \A x \in Objects : object[x].state # "building"
  /\ doing # NoCopy =>
       /\ doing.into \in Objects /\ doing.from \in Objects /\ doing.into # doing.from
       /\ object[doing.from].state = "live"
       /\ \A x \in Objects : object[x].state = "building" => x = doing.into
       /\ IF doing.into = TEMP
          THEN doing.self \in Maps /\ object[doing.self].state \in {"live", "broken"} /\ object[TEMP].state # "none"
          ELSE object[doing.into].state = "building" /\ object[TEMP].state = "none"
       /\ object[doing.into].state = "building" =>
            \A k \in doing.todo :
              /\ k \in Keys
              /\ array[object[doing.into].buckets].kvps[k] = NULL
              /\ array[object[doing.from].buckets].kvps[k] # NULL

\* The insertion under way: the map is sound and lacks the key; a copy inserts a pair
\* of the original that is still to be copied.
InsertInv ==
  inserting # NoInsert =>
    /\ inserting \in [map : Objects, key : Keys, value : Values, new_size : Nat]
    /\ array[object[inserting.map].buckets].clear
    /\ array[object[inserting.map].buckets].kvps[inserting.key] = NULL
    /\ doing = NoCopy => object[inserting.map].state = "live"
    /\ doing # NoCopy =>
         /\ inserting.map = doing.into /\ object[doing.into].state = "building"
         /\ ~ doing.thrown /\ inserting.key \in doing.todo
         /\ inserting.value = array[object[doing.from].buckets].kvps[inserting.key]

\* The inductive invariant.
IInv == HeapInv /\ CopyTypeInv /\ CopyInv /\ InsertInv /\ OnlyKnownFaults

-------------------------------------------------------------------------------
(* Counting pairs.                                                         *)

LEMMA CountType ==
  ASSUME NEW d \in Dicts
  PROVE  Count(d) \in Nat
<1>1. IsFiniteSet({k \in Keys : d[k] # NULL})
  BY ObjectsAssumption, FS_Subset
<1>. QED BY <1>1, FS_CardinalityType DEF Count

LEMMA CountNothing == Nothing \in Dicts /\ Count(Nothing) = 0
<1>1. {k \in Keys : Nothing[k] # NULL} = {}
  BY DEF Nothing
<1>. QED BY <1>1, FS_EmptySet DEF Count, Nothing, Dicts

LEMMA CountPut ==
  ASSUME NEW d \in Dicts, NEW k \in Keys, NEW v \in Values, d[k] = NULL
  PROVE  /\ [d EXCEPT ![k] = v] \in Dicts
         /\ Count([d EXCEPT ![k] = v]) = Count(d) + 1
<1> DEFINE e == [d EXCEPT ![k] = v]
           D == {j \in Keys : d[j] # NULL}
           E == {j \in Keys : e[j] # NULL}
<1>1. v # NULL
  BY ObjectsAssumption
<1>2. E = D \cup {k} /\ k \notin D
  BY <1>1 DEF Dicts
<1>3. IsFiniteSet(D)
  BY ObjectsAssumption, FS_Subset
<1>4. Cardinality(E) = Cardinality(D) + 1
  BY <1>2, <1>3, FS_AddElement
<1>. QED BY <1>4 DEF Count, Dicts

LEMMA CountErase ==
  ASSUME NEW d \in Dicts, NEW k \in Keys, d[k] # NULL
  PROVE  /\ [d EXCEPT ![k] = NULL] \in Dicts
         /\ Count([d EXCEPT ![k] = NULL]) = Count(d) - 1
         /\ Count(d) - 1 \in Nat
<1> DEFINE e == [d EXCEPT ![k] = NULL]
           D == {j \in Keys : d[j] # NULL}
           E == {j \in Keys : e[j] # NULL}
<1>1. D = E \cup {k} /\ k \notin E
  BY DEF Dicts
<1>2. IsFiniteSet(E)
  BY ObjectsAssumption, FS_Subset
<1>3. Cardinality(D) = Cardinality(E) + 1 /\ Cardinality(E) \in Nat
  BY <1>1, <1>2, FS_AddElement, FS_CardinalityType
<1>. QED BY <1>3 DEF Count, Dicts

LEMMA PartType ==
  ASSUME NEW d \in Dicts, NEW e \in Parts(d)
  PROVE  e \in Dicts /\ \A k \in Keys : e[k] \in {NULL, d[k]}
<1>1. PICK K \in SUBSET Keys : e = Part(d, K)
  BY DEF Parts
<1>. QED BY <1>1 DEF Part, Dicts

LEMMA FreedType ==
  ASSUME NEW d \in Dicts
  PROVE  /\ Freed(d) \in Blocks /\ Freed(d).status = "freed" /\ Freed(d).kvps = d
         /\ FreedBlock \in Blocks /\ FreedBlock.status = "freed" /\ FreedBlock.kvps = Nothing
<1>1. \A e \in Dicts : Freed(e) \in Blocks /\ Freed(e).status = "freed" /\ Freed(e).kvps = e
  BY CountNothing DEF Freed, NoArray, Blocks
<1>. QED BY <1>1, CountNothing DEF FreedBlock

-------------------------------------------------------------------------------
(* Changes of the heap.                                                    *)

\* What malloc() returns belongs to nobody.
LEMMA FreshIsUnused ==
  ASSUME HeapInv, Unused # {}
  PROVE  /\ Fresh \in Arrays /\ Fresh # NULL /\ array[Fresh].status = "none"
         /\ \A x \in Objects : object[x].buckets # Fresh
<1>1. Fresh \in Unused
  BY DEF Fresh
<1>. QED BY <1>1, ObjectsAssumption DEF Unused, HeapInv, TypeInv, Matches, ObjectFields

\* One object gets other fields, or another array; all arrays that change are its
\* own or fresh.
LEMMA OneObject ==
  ASSUME HeapInv, NEW x \in Objects, NEW o \in ObjectFields,
         object' = [object EXCEPT ![x] = o],
         array' \in [Arrays -> Blocks],
         Matches(o, array'),
         o.buckets \in {NULL, object[x].buckets} \/ array[o.buckets].status = "none",
         \A a \in Arrays : array'[a] # array[a] =>
           /\ a = object[x].buckets \/ array[a].status = "none"
           /\ array'[a].status = "allocated" => a = o.buckets,
         object[x].buckets \notin {NULL, o.buckets} =>
           array'[object[x].buckets].status # "allocated"
  PROVE  HeapInv'
<1> USE DEF HeapInv
<1>1. TypeInv'
  BY DEF TypeInv
<1>2. \A y \in Objects : object'[y] = IF y = x THEN o ELSE object[y]
  BY DEF TypeInv
<1>3. \A y \in Objects \ {x} :
        object[y].buckets # NULL => array'[object[y].buckets] = array[object[y].buckets]
  <2> SUFFICES ASSUME NEW y \in Objects \ {x}, object[y].buckets # NULL,
                      array'[object[y].buckets] # array[object[y].buckets]
               PROVE  FALSE
    OBVIOUS
  <2>1. object[y].buckets \in Arrays /\ object[y].state # "none"
    BY DEF TypeInv, ObjectFields, Matches
  <2>2. object[y].buckets # object[x].buckets /\ array[object[y].buckets].status # "none"
    BY <2>1 DEF Apart, Matches
  <2>. QED BY <2>1, <2>2
<1>4. \A y \in Objects : Matches(object'[y], array')
  <2>1. \A y \in Objects \ {x} : Matches(object[y], array')
    BY <1>3 DEF Matches
  <2>. QED BY <1>2, <2>1
<1>5. Apart'
  <2>1. \A y \in Objects \ {x} : o.buckets # NULL => object[y].buckets # o.buckets
    BY DEF Apart, Matches
  <2>. QED BY <1>2, <2>1 DEF Apart
<1>6. ArraysReclaimed'
  <2> SUFFICES ASSUME NEW a \in Arrays, array'[a].status = "allocated"
               PROVE  \E y \in Objects : object'[y].state # "none" /\ object'[y].buckets = a
    BY DEF ArraysReclaimed
  <2>1. CASE a = o.buckets
    BY <1>2, <2>1, ObjectsAssumption DEF Matches
  <2>2. CASE a # o.buckets
    <3>1. array[a].status = "allocated"
      BY <2>2
    <3>2. PICK y \in Objects : object[y].state # "none" /\ object[y].buckets = a
      BY <3>1 DEF ArraysReclaimed
    <3>3. y # x
      BY <2>2, <3>2, ObjectsAssumption
    <3>. QED BY <1>2, <3>2, <3>3
  <2>. QED BY <2>1, <2>2
<1>. QED BY <1>1, <1>4, <1>5, <1>6

\* What an insertion under way is about.
LEMMA WhileInserting ==
  ASSUME IInv, Inserting
  PROVE  /\ inserting.map \in Objects /\ inserting.key \in Keys /\ inserting.value \in Values
         /\ inserting.new_size \in Nat /\ inserting # NoInsert
         /\ inserting = [map |-> inserting.map, key |-> inserting.key,
                         value |-> inserting.value, new_size |-> inserting.new_size]
         /\ object[inserting.map] \in ObjectFields /\ Matches(object[inserting.map], array)
         /\ object[inserting.map].state \in {"building", "live"}
         /\ object[inserting.map].buckets \in Arrays /\ object[inserting.map].buckets # NULL
         /\ array[object[inserting.map].buckets] \in Blocks
         /\ Contents(inserting.map) \in Dicts /\ Contents(inserting.map)[inserting.key] = NULL
         /\ Contents(inserting.map) = array[object[inserting.map].buckets].kvps
<1>1. /\ inserting \in [map : Objects, key : Keys, value : Values, new_size : Nat]
      /\ inserting # NoInsert
      /\ object[inserting.map].state \in {"building", "live"}
      /\ array[object[inserting.map].buckets].kvps[inserting.key] = NULL
  BY DEF IInv, InsertInv, Inserting
<1>2. object[inserting.map] \in ObjectFields /\ Matches(object[inserting.map], array)
  BY <1>1 DEF IInv, HeapInv, TypeInv
<1>3. object[inserting.map].buckets \in Arrays /\ object[inserting.map].buckets # NULL
  BY <1>1, <1>2, ObjectsAssumption DEF Matches, ObjectFields
<1>4. array[object[inserting.map].buckets] \in Blocks
  BY <1>3 DEF IInv, HeapInv, TypeInv
<1>. QED BY <1>1, <1>2, <1>3, <1>4 DEF Contents, Blocks

LEMMA NewSizeType ==
  ASSUME IInv, Inserting
  PROVE  NewSize \in Nat
<1>1. object[inserting.map] \in ObjectFields /\ inserting.new_size \in Nat
  BY WhileInserting
<1>2. object[inserting.map].size \in Nat
  BY <1>1 DEF ObjectFields
<1>. QED BY <1>1, <1>2 DEF NewSize

\* Placing adds the pair to one map and leaves the others alone.
LEMMA PlaceAdds ==
  ASSUME IInv, Place
  PROVE  /\ HeapInv'
         /\ object'[inserting.map].state = object[inserting.map].state
         /\ array'[object'[inserting.map].buckets].kvps =
              [Contents(inserting.map) EXCEPT ![inserting.key] = inserting.value]
         /\ \A y \in Objects \ {inserting.map} :
              /\ object'[y] = object[y]
              /\ object[y].buckets # NULL => array'[object[y].buckets] = array[object[y].buckets]
<1> DEFINE x == inserting.map
           k == inserting.key
           v == inserting.value
           b == object[x].buckets
           o == [object[x] EXCEPT !.used = @ + 1]
           r == [array[b] EXCEPT !.kvps = [@ EXCEPT ![k] = v]]
<1>1. /\ x \in Objects /\ k \in Keys /\ v \in Values
      /\ object[x] \in ObjectFields /\ b \in Arrays /\ b # NULL
      /\ array[b] \in Blocks /\ array[b].kvps \in Dicts /\ Contents(x) = array[b].kvps
      /\ Matches(object[x], array) /\ Contents(x)[k] = NULL
      /\ object[x].state \in {"building", "live"}
  BY WhileInserting DEF Place
<1>2. object' = [object EXCEPT ![x] = o] /\ array' = [array EXCEPT ![b] = r]
  BY DEF Place
<1> HIDE DEF x, k, v
<1>3. /\ [Contents(x) EXCEPT ![k] = v] \in Dicts
      /\ Count([Contents(x) EXCEPT ![k] = v]) = object[x].used + 1
  BY <1>1, CountPut DEF Matches
<1>4. /\ o \in ObjectFields /\ o.buckets = b /\ o.used = object[x].used + 1
      /\ o.state = object[x].state /\ o.size = object[x].size
  BY <1>1 DEF ObjectFields
<1>5. /\ r \in Blocks /\ r.kvps = [Contents(x) EXCEPT ![k] = v]
      /\ r.status = array[b].status /\ r.size = array[b].size /\ r.clear = array[b].clear
  BY <1>1, <1>3 DEF Blocks
<1> HIDE DEF o, r
<1>6. array' \in [Arrays -> Blocks] /\ \A a \in Arrays : array'[a] = IF a = b THEN r ELSE array[a]
  BY <1>1, <1>2, <1>5 DEF IInv, HeapInv, TypeInv
<1>7. Matches(o, array')
  BY <1>1, <1>3, <1>4, <1>5, <1>6 DEF Matches
<1>8. HeapInv'
  <2>1. \A a \in Arrays : array'[a] # array[a] =>
          /\ a = object[x].buckets \/ array[a].status = "none"
          /\ array'[a].status = "allocated" => a = o.buckets
    BY <1>4, <1>6
  <2>. QED BY <1>1, <1>2, <1>4, <1>6, <1>7, <2>1, OneObject DEF IInv
<1>9. \A y \in Objects \ {x} : object[y].buckets # NULL => object[y].buckets # b
  BY <1>1 DEF IInv, HeapInv, Apart
<1>10. /\ object'[x].state = object[x].state
       /\ array'[object'[x].buckets].kvps = [Contents(x) EXCEPT ![k] = v]
       /\ \A y \in Objects \ {x} :
            /\ object'[y] = object[y]
            /\ object[y].buckets # NULL => array'[object[y].buckets] = array[object[y].buckets]
  BY <1>1, <1>2, <1>4, <1>5, <1>6, <1>9 DEF IInv, HeapInv, TypeInv, ObjectFields
<1>. QED BY <1>8, <1>10 DEF x, k, v

\* An extension moves a map to another array and leaves the others alone.
LEMMA ExtendMoves ==
  ASSUME IInv, Extend
  PROVE  /\ HeapInv'
         /\ \A a \in Arrays : array'[a] # array[a] =>
              \/ a = Fresh
              \/ a = object[inserting.map].buckets /\ array'[a] = Freed(Contents(inserting.map))
         /\ object'[inserting.map].buckets = Fresh
         /\ array'[Fresh] = Block(NewSize, TRUE, Contents(inserting.map))
         /\ \A y \in Objects :
              /\ object'[y].state = object[y].state
              /\ object[y].buckets # NULL =>
                   /\ array'[object'[y].buckets].kvps = array[object[y].buckets].kvps
                   /\ array'[object'[y].buckets].clear = array[object[y].buckets].clear
<1> DEFINE x == inserting.map
           b == object[x].buckets
           d == Contents(x)
           f == Fresh
           n == NewSize
           o == [object[x] EXCEPT !.buckets = f, !.size = n]
           r == Block(n, TRUE, d)
           q == Outgrown(array[b])
<1>1. /\ x \in Objects /\ object[x] \in ObjectFields /\ b \in Arrays /\ b # NULL
      /\ array[b] \in Blocks /\ d \in Dicts /\ d = array[b].kvps
      /\ Matches(object[x], array) /\ object[x].state \in {"building", "live"}
      /\ array[b].clear
  BY WhileInserting DEF Extend, Extending, IInv, InsertInv, Inserting
<1>2. n \in Nat
  BY NewSizeType DEF Extend, Extending
<1>3. /\ object' = [object EXCEPT ![x] = o] /\ array' = [array EXCEPT ![b] = q, ![f] = r]
      /\ Unused # {}
  <2>1. Extended(d) = {d}
    BY DEF Extended
  <2>2. array' = [array EXCEPT ![b] = q, ![f] = r]
    BY <2>1 DEF Extend
  <2>. QED BY <2>2 DEF Extend, Extending
<1>4. f \in Arrays /\ f # NULL /\ array[f].status = "none" /\ \A y \in Objects : object[y].buckets # f
  BY <1>3, FreshIsUnused DEF IInv
<1>5. q \in Blocks /\ q.status = "freed" /\ q = Freed(d)
  BY <1>1, FreedType DEF Outgrown
<1> HIDE DEF x, f, n, d
<1>6. /\ o \in ObjectFields /\ o.buckets = f /\ o.used = object[x].used
      /\ o.state = object[x].state /\ o.size = n
  BY <1>1, <1>2, <1>4 DEF ObjectFields
<1>7. /\ r \in Blocks /\ r.kvps = d /\ r.status = "allocated" /\ r.size = n /\ r.clear
  BY <1>1, <1>2 DEF Blocks, Block
<1> HIDE DEF o, r, q
<1>8. /\ array' \in [Arrays -> Blocks] /\ f # b
      /\ \A a \in Arrays : array'[a] = IF a = f THEN r ELSE IF a = b THEN q ELSE array[a]
  BY <1>1, <1>3, <1>4, <1>5, <1>7 DEF IInv, HeapInv, TypeInv
<1>9. Matches(o, array')
  BY <1>1, <1>4, <1>6, <1>7, <1>8 DEF Matches
<1>10. HeapInv'
  <2>1. \A a \in Arrays : array'[a] # array[a] =>
          /\ a = object[x].buckets \/ array[a].status = "none"
          /\ array'[a].status = "allocated" => a = o.buckets
    BY <1>4, <1>5, <1>6, <1>8
  <2>2. array'[b].status # "allocated"
    BY <1>1, <1>5, <1>8
  <2>. QED BY <1>1, <1>3, <1>4, <1>6, <1>8, <1>9, <2>1, <2>2, OneObject DEF IInv
<1>11. \A y \in Objects \ {x} :
         object[y].buckets # NULL => object[y].buckets \in Arrays \ {b, f}
  BY <1>1, <1>4 DEF IInv, HeapInv, TypeInv, Apart, ObjectFields
<1>12. \A y \in Objects :
         /\ object'[y].state = object[y].state
         /\ object[y].buckets # NULL =>
              /\ array'[object'[y].buckets].kvps = array[object[y].buckets].kvps
              /\ array'[object'[y].buckets].clear = array[object[y].buckets].clear
  <2> TAKE y \in Objects
  <2>1. CASE y = x
    BY <1>1, <1>3, <1>4, <1>6, <1>7, <1>8, <2>1 DEF IInv, HeapInv, TypeInv
  <2>2. CASE y # x
    BY <1>1, <1>3, <1>8, <1>11, <2>2 DEF IInv, HeapInv, TypeInv
  <2>. QED BY <2>1, <2>2
<1>13. /\ \A a \in Arrays : array'[a] # array[a] => a = f \/ (a = b /\ array'[a] = Freed(d))
       /\ object'[x].buckets = f /\ array'[f] = r
  BY <1>1, <1>3, <1>4, <1>5, <1>6, <1>8 DEF IInv, HeapInv, TypeInv
<1>. QED BY <1>10, <1>12, <1>13 DEF x, f, n, d, r

\* A new_map that is dropped takes its block with it.
LEMMA FillDropped ==
  ASSUME IInv, Extending, NEW d \in Parts(Contents(inserting.map)),
         array' = [array EXCEPT ![Fresh] = Freed(d)], UNCHANGED object
  PROVE  /\ HeapInv'
         /\ \A a \in Arrays : array'[a] # array[a] => a = Fresh /\ array'[a].kvps = d
         /\ \A y \in Objects :
              object[y].buckets # NULL => array'[object[y].buckets] = array[object[y].buckets]
         /\ \A k \in Keys : d[k] \in {NULL, Contents(inserting.map)[k]}
<1> DEFINE f == Fresh
           x == inserting.map
           o == object[x]
<1>1. /\ d \in Dicts /\ \A k \in Keys : d[k] \in {NULL, Contents(x)[k]}
      /\ x \in Objects /\ o \in ObjectFields /\ Matches(o, array) /\ o.buckets \in Arrays
  BY WhileInserting, PartType DEF Extending
<1>2. f \in Arrays /\ f # NULL /\ array[f].status = "none" /\ \A y \in Objects : object[y].buckets # f
  BY FreshIsUnused DEF IInv, Extending
<1>3. Freed(d) \in Blocks /\ Freed(d).status = "freed" /\ Freed(d).kvps = d
  BY <1>1, FreedType
<1> HIDE DEF f, o
<1>4. /\ array' \in [Arrays -> Blocks]
      /\ \A a \in Arrays : array'[a] = IF a = f THEN Freed(d) ELSE array[a]
  BY <1>2, <1>3 DEF f, IInv, HeapInv, TypeInv
<1>5. \A y \in Objects :
        object[y].buckets # NULL => array'[object[y].buckets] = array[object[y].buckets]
  BY <1>2, <1>4 DEF IInv, HeapInv, TypeInv, ObjectFields
<1>6. object' = [object EXCEPT ![x] = o]
  BY <1>1 DEF o, IInv, HeapInv, TypeInv
<1>7. Matches(o, array')
  <2>1. o.buckets # f
    BY <1>1, <1>2 DEF o
  <2>. QED BY <1>1, <1>4, <2>1 DEF Matches
<1>8. \A a \in Arrays : array'[a] # array[a] =>
        /\ a = object[x].buckets \/ array[a].status = "none"
        /\ array'[a].status = "allocated" => a = o.buckets
  BY <1>2, <1>3, <1>4
<1>9. HeapInv'
  BY <1>1, <1>4, <1>6, <1>7, <1>8, OneObject DEF o, IInv
<1>. QED BY <1>1, <1>3, <1>4, <1>5, <1>9 DEF f

\* An object that a call may be made on, and that shows no hazard, is sound.
LEMMA NoHazard ==
  ASSUME HeapInv, NEW x \in Objects, object[x].state # "none", Hazard(x) = "none"
  PROVE  object[x].state \in {"building", "live"} /\ array[object[x].buckets].clear
BY DEF HeapInv, TypeInv, ObjectFields, Matches, Hazard

\* What a hazard tells of the object.
LEMMA HazardKnown ==
  ASSUME HeapInv, NEW x \in Objects, object[x].state # "none", Hazard(x) # "none"
  PROVE  \/ Hazard(x) = "useAfterFree" /\ object[x].state = "broken"
         \/ Hazard(x) = "garbageSlots" /\ object[x].state = "building"
BY DEF HeapInv, TypeInv, ObjectFields, Matches, Hazard

LEMMA SameHeap ==
  ASSUME IInv, UNCHANGED <<object, array, doing, inserting>>
  PROVE  HeapInv' /\ CopyTypeInv' /\ CopyInv' /\ InsertInv'
<1>1. TypeInv' /\ Apart' /\ ArraysReclaimed'
  BY DEF IInv, HeapInv, TypeInv, Apart, ArraysReclaimed
<1>2. \A x \in Objects : Matches(object'[x], array')
  BY DEF IInv, HeapInv
<1>3. CopyTypeInv'
  BY DEF IInv, CopyTypeInv
<1>4. CopyInv'
  BY DEF IInv, CopyInv
<1>5. InsertInv'
  BY DEF IInv, InsertInv
<1>. QED BY <1>1, <1>2, <1>3, <1>4, <1>5 DEF HeapInv

LEMMA Stutters ==
  ASSUME IInv, UNCHANGED vars
  PROVE  IInv'
<1>1. OnlyKnownFaults'
  BY DEF vars, IInv, OnlyKnownFaults, Contents
<1>. QED BY <1>1, SameHeap DEF vars, IInv

LEMMA FailKeeps ==
  ASSUME IInv, NEW x \in Objects, object[x].state # "none", Hazard(x) # "none", Fail(Hazard(x))
  PROVE  IInv'
<1>1. UNCHANGED <<object, array, doing, inserting>> /\ fault' = Hazard(x)
  BY DEF Fail
<1>2. HeapInv' /\ CopyInv' /\ CopyTypeInv' /\ InsertInv'
  BY <1>1, SameHeap
<1>3. OnlyKnownFaults'
  BY <1>1, HazardKnown DEF IInv, OnlyKnownFaults
<1>. QED BY <1>2, <1>3 DEF IInv

-------------------------------------------------------------------------------
(* The calls.                                                              *)

\* A new array for an object that had none, or none that anyone frees.
LEMMA TakesFresh ==
  ASSUME HeapInv, NEW x \in Objects, object[x].state = "none", Unused # {},
         NEW s \in {"live", "building"}, NEW n \in Nat, NEW clear \in BOOLEAN, s = "live" => clear,
         array' = [array EXCEPT ![Fresh] = Block(n, clear, Nothing)],
         object' = [object EXCEPT ![x] = [state |-> s, buckets |-> Fresh, size |-> n, used |-> 0]]
  PROVE  HeapInv'
<1> DEFINE f == Fresh
           r == Block(n, clear, Nothing)
           o == [state |-> s, buckets |-> f, size |-> n, used |-> 0]
<1>1. f \in Arrays /\ f # NULL /\ array[f].status = "none" /\ \A y \in Objects : object[y].buckets # f
  BY FreshIsUnused
<1>2. array' = [array EXCEPT ![f] = r] /\ object' = [object EXCEPT ![x] = o]
  OBVIOUS
<1> HIDE DEF f
<1>3. /\ r \in Blocks /\ r.kvps = Nothing /\ r.status = "allocated" /\ r.size = n
      /\ r.clear = clear
  BY CountNothing DEF Blocks, Block
<1>4. /\ o \in ObjectFields /\ o.buckets = f /\ o.used = 0 /\ o.state = s /\ o.size = n
  BY <1>1 DEF ObjectFields
<1> HIDE DEF o, r
<1>5. /\ array' \in [Arrays -> Blocks]
      /\ \A a \in Arrays : array'[a] = IF a = f THEN r ELSE array[a]
  BY <1>1, <1>2, <1>3 DEF HeapInv, TypeInv
<1>6. Matches(o, array')
  BY <1>1, <1>3, <1>4, <1>5, CountNothing DEF Matches
<1>7. object[x].buckets = NULL
  BY DEF HeapInv, TypeInv, Matches
<1>8. \A a \in Arrays : array'[a] # array[a] =>
        /\ a = object[x].buckets \/ array[a].status = "none"
        /\ array'[a].status = "allocated" => a = o.buckets
  BY <1>1, <1>4, <1>5
<1>. QED BY <1>1, <1>2, <1>4, <1>5, <1>6, <1>7, <1>8, OneObject

\* The array of an object is freed; the object is gone, or left broken.
LEMMA FreesItsOwn ==
  ASSUME HeapInv, NEW x \in Objects, object[x].state # "none",
         NEW o \in ObjectFields,
         \/ o.state = "none" /\ o.buckets = NULL
         \/ o.state = "broken" /\ o.buckets = object[x].buckets,
         array' = [array EXCEPT ![object[x].buckets] = FreedBlock],
         object' = [object EXCEPT ![x] = o]
  PROVE  HeapInv'
<1> DEFINE b == object[x].buckets
<1>1. b \in Arrays /\ b # NULL
  BY ObjectsAssumption DEF HeapInv, TypeInv, Matches, ObjectFields
<1>2. FreedBlock \in Blocks /\ FreedBlock.status = "freed"
  BY CountNothing, FreedType
<1>3. /\ array' \in [Arrays -> Blocks]
      /\ \A a \in Arrays : array'[a] = IF a = b THEN FreedBlock ELSE array[a]
  BY <1>1, <1>2 DEF HeapInv, TypeInv
<1>4. Matches(o, array')
  BY <1>1, <1>2, <1>3 DEF Matches
<1>5. \A a \in Arrays : array'[a] # array[a] =>
        /\ a = object[x].buckets \/ array[a].status = "none"
        /\ array'[a].status = "allocated" => a = o.buckets
  BY <1>2, <1>3
<1>6. array'[b].status # "allocated"
  BY <1>1, <1>2, <1>3
<1>. QED BY <1>1, <1>3, <1>4, <1>5, <1>6, OneObject

LEMMA InitIInv == Init => IInv
<1> SUFFICES ASSUME Init PROVE IInv
  OBVIOUS
<1>1. TypeInv
  BY CountNothing DEF Init, TypeInv, NoObject, NoArray, ObjectFields, Blocks
<1>2. HeapInv
  BY <1>1 DEF Init, HeapInv, Matches, Apart, ArraysReclaimed, NoObject, NoArray
<1>3. CopyInv /\ OnlyKnownFaults
  BY DEF Init, CopyInv, OnlyKnownFaults, NoObject, Objects
<1>4. CopyTypeInv /\ InsertInv
  BY DEF Init, CopyTypeInv, InsertInv, NoCopy, Objects
<1>. QED BY <1>2, <1>3, <1>4 DEF IInv

\* Between calls nothing is being copied, and no undefined behaviour has been met.
LEMMA AtRest ==
  ASSUME HeapInv', Idle, doing' = doing, inserting' = inserting, fault' = fault,
         object'[TEMP].state = "none", \A x \in Objects : object'[x].state # "building"
  PROVE  IInv'
<1>1. CopyTypeInv'
  BY DEF Idle, CopyTypeInv, NoCopy, Objects
<1>. QED BY <1>1 DEF Idle, IInv, CopyInv, InsertInv, OnlyKnownFaults

LEMMA ConstructIInv ==
  ASSUME IInv, NEW x \in Maps, Construct(x)
  PROVE  IInv'
<1>1. x \in Objects /\ x # TEMP
  BY ObjectsAssumption DEF Objects
<1>2. HeapInv'
  BY <1>1, TakesFresh, ObjectsAssumption DEF Construct, IInv
<1>3. \A y \in Objects : object'[y].state \in {object[y].state, "live"} /\ (y # x => object'[y] = object[y])
  BY <1>1 DEF Construct, IInv, HeapInv, TypeInv
<1>. QED BY <1>1, <1>2, <1>3, AtRest DEF Construct, IInv, CopyInv, Idle, Objects

\* An insertion has begun: nothing has changed yet.
LEMMA BeginsIInv ==
  ASSUME IInv, UNCHANGED <<object, array, doing, fault>>, InsertInv'
  PROVE  IInv'
<1>1. TypeInv' /\ Apart' /\ ArraysReclaimed'
  BY DEF IInv, HeapInv, TypeInv, Apart, ArraysReclaimed
<1>2. \A x \in Objects : Matches(object'[x], array')
  BY DEF IInv, HeapInv
<1>3. CopyTypeInv' /\ CopyInv'
  BY DEF IInv, CopyTypeInv, CopyInv
<1>4. OnlyKnownFaults'
  BY DEF IInv, OnlyKnownFaults, Contents
<1>. QED BY <1>1, <1>2, <1>3, <1>4 DEF IInv, HeapInv

LEMMA InsertIInv ==
  ASSUME IInv, NEW x \in Maps, NEW k \in Keys, NEW v \in Values, Insert(x, k, v)
  PROVE  IInv'
<1>1. x \in Objects /\ object[x].state \in {"live", "broken"} /\ doing = NoCopy
  BY DEF Objects, Insert, Exists, Idle
<1>2. CASE Hazard(x) = "none"
  <2>1. /\ inserting' = [map |-> x, key |-> k, value |-> v, new_size |-> 0]
        /\ UNCHANGED <<object, array, doing, fault>> /\ Contents(x)[k] = NULL
    BY <1>2 DEF Insert
  <2>2. object[x].state = "live" /\ array[object[x].buckets].clear
    BY <1>1, <1>2, NoHazard DEF IInv
  <2>3. inserting' \in [map : Objects, key : Keys, value : Values, new_size : Nat]
    BY <1>1, <2>1
  <2>4. InsertInv'
    BY <1>1, <2>1, <2>2, <2>3 DEF InsertInv, Contents
  <2>. QED BY <2>1, <2>4, BeginsIInv
<1>3. CASE Hazard(x) # "none"
  BY <1>1, <1>3, FailKeeps DEF Insert
<1>. QED BY <1>2, <1>3

LEMMA EraseIInv ==
  ASSUME IInv, NEW x \in Maps, NEW k \in Keys, Erase(x, k)
  PROVE  IInv'
<1>1. x \in Objects /\ x # TEMP /\ TEMP \in Objects /\ object[x].state # "none"
  BY ObjectsAssumption DEF Objects, Erase, Exists
<1>2. CASE Hazard(x) # "none"
  BY <1>1, <1>2, FailKeeps DEF Erase
<1>3. CASE Hazard(x) = "none"
  <2> DEFINE b == object[x].buckets
             o == [object[x] EXCEPT !.used = @ - 1]
             r == [array[b] EXCEPT !.kvps = [@ EXCEPT ![k] = NULL]]
  <2>1. /\ Contents(x)[k] # NULL /\ Idle /\ UNCHANGED <<doing, inserting, fault>>
        /\ object' = [object EXCEPT ![x] = o] /\ array' = [array EXCEPT ![b] = r]
        /\ object[x].state \in {"building", "live"}
    BY <1>1, <1>3, NoHazard DEF Erase, IInv
  <2>2. /\ object[x] \in ObjectFields /\ b \in Arrays /\ b # NULL
        /\ array[b] \in Blocks /\ array[b].kvps \in Dicts /\ Contents(x) = array[b].kvps
        /\ Matches(object[x], array)
    BY <1>1, ObjectsAssumption DEF IInv, HeapInv, TypeInv, Matches, ObjectFields, Blocks, Contents
  <2>3. /\ [Contents(x) EXCEPT ![k] = NULL] \in Dicts
        /\ Count([Contents(x) EXCEPT ![k] = NULL]) = object[x].used - 1
        /\ object[x].used - 1 \in Nat
    BY <2>1, <2>2, CountErase DEF Matches
  <2>4. /\ o \in ObjectFields /\ o.buckets = b /\ o.used = object[x].used - 1
        /\ o.state = object[x].state /\ o.size = object[x].size
    BY <2>2, <2>3 DEF ObjectFields
  <2>5. /\ r \in Blocks /\ r.kvps = [Contents(x) EXCEPT ![k] = NULL]
        /\ r.status = array[b].status /\ r.size = array[b].size /\ r.clear = array[b].clear
    BY <2>2, <2>3 DEF Blocks
  <2> HIDE DEF o, r
  <2>6. array' \in [Arrays -> Blocks] /\ \A a \in Arrays : array'[a] = IF a = b THEN r ELSE array[a]
    BY <2>1, <2>2, <2>5 DEF IInv, HeapInv, TypeInv
  <2>7. Matches(o, array')
    BY <2>2, <2>3, <2>4, <2>5, <2>6 DEF Matches
  <2>8. \A a \in Arrays : array'[a] # array[a] =>
          /\ a = object[x].buckets \/ array[a].status = "none"
          /\ array'[a].status = "allocated" => a = o.buckets
    BY <2>4, <2>6
  <2>10. HeapInv'
    BY <1>1, <2>1, <2>4, <2>6, <2>7, <2>8, OneObject DEF IInv
  <2>11. \A y \in Objects : object'[y].state = object[y].state
    BY <2>1, <2>4 DEF IInv, HeapInv, TypeInv
  <2>. QED BY <1>1, <2>1, <2>10, <2>11, AtRest DEF IInv, CopyInv, Idle
<1>. QED BY <1>2, <1>3

LEMMA CopyStartIInv ==
  ASSUME IInv, Idle, NEW self \in Maps, NEW x \in Objects, NEW y \in Objects,
         object[x].state = "none", object[y].state = "live", x = TEMP => Exists(self),
         CopyStart(self, x, y)
  PROVE  IInv'
<1>1. PICK zero \in BOOLEAN : array' = [array EXCEPT ![Fresh] = Block(object[y].size, zero, Nothing)]
  BY DEF CopyStart
<1>2. /\ Unused # {} /\ inserting = NoInsert /\ inserting' = inserting
      /\ fault' = fault /\ fault = "none" /\ doing = NoCopy
      /\ object' = [object EXCEPT ![x] =
           [state |-> "building", buckets |-> Fresh, size |-> object[y].size, used |-> 0]]
      /\ doing' = [self |-> self, into |-> x, from |-> y, thrown |-> FALSE,
                   todo |-> {k \in Keys : Contents(y)[k] # NULL}]
  BY DEF CopyStart, Idle
<1>3. object[y].size \in Nat
  BY DEF IInv, HeapInv, TypeInv, ObjectFields
<1>4. HeapInv'
  BY <1>1, <1>2, <1>3, TakesFresh DEF IInv
<1>5. /\ object'[x].state = "building" /\ object'[x].buckets = Fresh
      /\ \A z \in Objects \ {x} : object'[z] = object[z]
  BY <1>2 DEF IInv, HeapInv, TypeInv
<1>6. x # y
  OBVIOUS
<1>7. /\ array'[object'[y].buckets].kvps = Contents(y)
      /\ array'[object'[x].buckets].kvps = Nothing
  <2>1. Fresh \in Arrays /\ object[y].buckets # Fresh
    BY <1>2, FreshIsUnused DEF IInv
  <2>2. object[y].buckets \in Arrays
    BY ObjectsAssumption DEF IInv, HeapInv, TypeInv, Matches, ObjectFields
  <2>. QED BY <1>1, <1>5, <1>6, <2>1, <2>2 DEF IInv, HeapInv, TypeInv, Contents, Block
<1>8. /\ doing'.self = self /\ doing'.into = x /\ doing'.from = y
      /\ doing'.todo = {k \in Keys : Contents(y)[k] # NULL}
  BY <1>2
<1>9. doing' # NoCopy
  BY <1>8, ObjectsAssumption DEF NoCopy
<1>10. \A k \in doing'.todo : k \in Keys /\ Contents(y)[k] # NULL /\ Nothing[k] = NULL
  BY <1>8 DEF Nothing
<1>11. object[TEMP].state = "none" /\ \A z \in Objects : object[z].state # "building"
  BY <1>2 DEF IInv, CopyInv
<1>12. CopyInv'
  <2>1. TEMP \in Objects
    BY DEF Objects
  <2>2. /\ doing'.into # TEMP => object'[TEMP].state = "none"
        /\ doing'.into = TEMP => object'[doing'.self].state \in {"live", "broken"} /\ object'[TEMP].state # "none"
    <3>1. self \in Objects /\ self # TEMP
      BY ObjectsAssumption DEF Objects
    <3>. QED BY <1>5, <1>8, <1>11, <2>1, <3>1 DEF Exists
  <2>3. \A z \in Objects : object'[z].state = "building" => z = x
    BY <1>5, <1>11
  <2>4. object'[y].state = "live"
    BY <1>5, <1>6
  <2>. QED BY <1>5, <1>6, <1>7, <1>8, <1>9, <1>10, <2>2, <2>3, <2>4 DEF CopyInv
<1>13. OnlyKnownFaults'
  BY <1>2 DEF OnlyKnownFaults
<1>14. CopyTypeInv' /\ InsertInv'
  BY <1>2 DEF CopyTypeInv, InsertInv
<1>. QED BY <1>4, <1>12, <1>13, <1>14 DEF IInv

\* begin() of a map without pairs.
LEMMA ReadBehindIInv ==
  ASSUME IInv, NEW y \in Maps, object[y].state = "live", ReadBehind(y)
  PROVE  IInv'
<1>1. /\ UNCHANGED <<object, array, doing, inserting>> /\ fault' = "readsBehindArray"
      /\ Contents(y) = Nothing
  BY DEF ReadBehind, Fail
<1>2. HeapInv' /\ CopyTypeInv' /\ CopyInv' /\ InsertInv'
  BY <1>1, SameHeap
<1>3. OnlyKnownFaults'
  BY <1>1 DEF OnlyKnownFaults, Contents
<1>. QED BY <1>2, <1>3 DEF IInv

LEMMA CopyIInv ==
  ASSUME IInv, NEW x \in Maps, NEW y \in Maps, Copy(x, y) \/ Assign(x, y)
  PROVE  IInv'
<1>1. /\ x \in Objects /\ y \in Objects /\ TEMP \in Objects /\ Idle
      /\ object[y].state \in {"live", "broken"}
  BY DEF Objects, Copy, Assign, Exists
<1>2. CASE Hazard(y) = "none"
  <2>1. object[y].state = "live"
    BY <1>1, <1>2, NoHazard DEF IInv
  <2>2. CASE ReadBehind(y)
    BY <2>1, <2>2, ReadBehindIInv
  <2>3. CASE CopyStart(x, x, y) /\ object[x].state = "none"
    <3>1. x # TEMP
      BY ObjectsAssumption
    <3>. QED BY <1>1, <2>1, <2>3, <3>1, CopyStartIInv
  <2>4. CASE CopyStart(x, TEMP, y) /\ Exists(x)
    <3>1. object[TEMP].state = "none"
      BY <1>1 DEF IInv, CopyInv, Idle
    <3>. QED BY <1>1, <2>1, <2>4, <3>1, CopyStartIInv
  <2>. QED BY <1>2, <2>2, <2>3, <2>4 DEF Copy, Assign
<1>3. CASE Hazard(y) # "none"
  BY <1>1, <1>3, FailKeeps DEF Copy, Assign
<1>. QED BY <1>2, <1>3

\* What a step of the copying starts from.
LEMMA WhileCopying ==
  ASSUME IInv, Copying
  PROVE  /\ doing # NoCopy /\ inserting = NoInsert /\ fault = "none"
         /\ doing.into \in Objects /\ doing.from \in Objects /\ doing.into # doing.from
         /\ object[doing.into].state = "building" /\ object[doing.from].state = "live"
         /\ \A x \in Objects : object[x].state = "building" => x = doing.into
         /\ doing.into = TEMP => doing.self \in Maps /\ object[doing.self].state \in {"live", "broken"}
         /\ doing.into # TEMP => object[TEMP].state = "none"
         /\ \A k \in doing.todo :
              /\ k \in Keys
              /\ array[object[doing.into].buckets].kvps[k] = NULL
              /\ array[object[doing.from].buckets].kvps[k] # NULL
BY DEF IInv, CopyInv, Copying

LEMMA CopyOneIInv ==
  ASSUME IInv, NEW k \in Keys, CopyOne(k)
  PROVE  IInv'
<1> DEFINE x == doing.into
           y == doing.from
           v == Contents(y)[k]
<1>1. Copying /\ ~ doing.thrown /\ k \in doing.todo
  BY DEF CopyOne
<1>2. /\ doing # NoCopy /\ x \in Objects /\ y \in Objects
      /\ object[x].state = "building" /\ object[y].state = "live"
      /\ Contents(x)[k] = NULL /\ Contents(y)[k] # NULL
  BY <1>1, WhileCopying DEF Contents
<1>3. CASE Hazard(x) # "none"
  BY <1>2, <1>3, FailKeeps DEF CopyOne
<1>4. CASE Hazard(x) = "none"
  <2>1. /\ inserting' = [map |-> x, key |-> k, value |-> v, new_size |-> 0]
        /\ UNCHANGED <<object, array, doing, fault>>
    BY <1>4 DEF CopyOne
  <2>2. v \in Values
    <3>1. object[y].buckets \in Arrays
      BY <1>2, ObjectsAssumption DEF IInv, HeapInv, TypeInv, Matches, ObjectFields
    <3>2. Contents(y) \in Dicts
      BY <3>1 DEF IInv, HeapInv, TypeInv, Blocks, Contents
    <3>. QED BY <1>2, <3>2 DEF Dicts
  <2>3. array[object[x].buckets].clear
    BY <1>2, <1>4, NoHazard DEF IInv
  <2>4. inserting' \in [map : Objects, key : Keys, value : Values, new_size : Nat]
    BY <1>2, <2>1, <2>2
  <2>5. InsertInv'
    BY <1>1, <1>2, <2>1, <2>3, <2>4 DEF InsertInv, Contents
  <2>. QED BY <2>1, <2>5, BeginsIInv
<1>. QED BY <1>3, <1>4

LEMMA IsNoCopy ==
  ASSUME NEW d \in [self : Maps \cup {NULL}, into : Objects, from : Objects, todo : SUBSET Keys,
                    thrown : BOOLEAN],
         d.self = NULL, d.into = TEMP, d.from = TEMP, d.todo = {}, d.thrown = FALSE
  PROVE  d = NoCopy
BY DEF NoCopy

\* What a copy that is inserting a pair may rely on.
LEMMA InsertingCopy ==
  ASSUME IInv, Inserting
  PROVE  /\ doing = NoCopy => object[inserting.map].state = "live"
         /\ doing # NoCopy =>
              /\ inserting.map = doing.into /\ inserting.key \in doing.todo
              /\ object[doing.into].state = "building" /\ object[doing.from].state = "live"
              /\ doing.into # doing.from /\ doing.from \in Objects
              /\ inserting.value = array[object[doing.from].buckets].kvps[inserting.key]
         /\ doing \in [self : Maps \cup {NULL}, into : Objects, from : Objects, todo : SUBSET Keys,
                       thrown : BOOLEAN]
BY DEF IInv, Inserting, InsertInv, CopyInv, CopyTypeInv

\* The copy goes on after a round of an insertion: no object has another state, and
\* only the pair just copied has come to the copy.
LEMMA RoundCopyInv ==
  ASSUME IInv, Inserting, HeapInv',
         doing'.self = doing.self, doing'.into = doing.into, doing'.from = doing.from,
         doing'.todo \subseteq doing.todo, (doing' = NoCopy) <=> (doing = NoCopy),
         \A y \in Objects : object'[y].state = object[y].state,
         doing # NoCopy =>
           /\ array'[object'[doing.from].buckets].kvps = array[object[doing.from].buckets].kvps
           /\ \A k \in doing'.todo :
                array'[object'[doing.into].buckets].kvps[k] = array[object[doing.into].buckets].kvps[k]
  PROVE  CopyInv'
<1>1. CASE doing = NoCopy
  BY <1>1 DEF IInv, CopyInv, Objects
<1>2. CASE doing # NoCopy
  <2>1. /\ doing.into \in Objects /\ doing.from \in Objects /\ doing.into # doing.from
        /\ object[doing.from].state = "live"
        /\ \A x \in Objects : object[x].state = "building" => x = doing.into
        /\ IF doing.into = TEMP
           THEN doing.self \in Maps /\ object[doing.self].state \in {"live", "broken"} /\ object[TEMP].state # "none"
           ELSE object[doing.into].state = "building" /\ object[TEMP].state = "none"
        /\ \A k \in doing.todo :
             /\ k \in Keys
             /\ array[object[doing.into].buckets].kvps[k] = NULL
             /\ array[object[doing.from].buckets].kvps[k] # NULL
    BY <1>2, InsertingCopy DEF IInv, CopyInv
  <2>2. TEMP \in Objects /\ Maps \subseteq Objects
    BY DEF Objects
  <2>. QED BY <1>2, <2>1, <2>2 DEF CopyInv
<1>. QED BY <1>1, <1>2

LEMMA PlaceIInv ==
  ASSUME IInv, Place
  PROVE  IInv'
<1> DEFINE x == inserting.map
           k == inserting.key
<1>1. /\ Inserting /\ fault = "none" /\ fault' = fault /\ inserting' = NoInsert
      /\ doing' = [doing EXCEPT !.todo = @ \ {k}]
  BY DEF Place, Inserting
<1>2. /\ x \in Objects /\ k \in Keys /\ Contents(x) \in Dicts
      /\ Contents(x) = array[object[x].buckets].kvps
  BY <1>1, WhileInserting
<1>3. /\ HeapInv' /\ object'[x].state = object[x].state
      /\ array'[object'[x].buckets].kvps = [Contents(x) EXCEPT ![k] = inserting.value]
      /\ \A y \in Objects \ {x} :
           /\ object'[y] = object[y]
           /\ object[y].buckets # NULL => array'[object[y].buckets] = array[object[y].buckets]
  BY PlaceAdds
<1>4. /\ doing'.self = doing.self /\ doing'.into = doing.into /\ doing'.from = doing.from
      /\ doing'.todo = doing.todo \ {k} /\ doing'.thrown = doing.thrown
      /\ doing' \in [self : Maps \cup {NULL}, into : Objects, from : Objects, todo : SUBSET Keys,
                     thrown : BOOLEAN]
  BY <1>1, InsertingCopy
<1>5. (doing' = NoCopy) <=> (doing = NoCopy)
  <2>1. doing # NoCopy => doing.self # NULL \/ doing.into # doing.from
    BY <1>1, InsertingCopy
  <2>2. doing # NoCopy => doing' # NoCopy
    BY <1>4, <2>1 DEF NoCopy
  <2>3. doing = NoCopy => doing' = NoCopy
    <3>1. NoCopy.self = NULL /\ NoCopy.into = TEMP /\ NoCopy.from = TEMP /\ NoCopy.todo = {} /\ NoCopy.thrown = FALSE
      BY DEF NoCopy
    <3>. QED BY <1>4, <3>1, IsNoCopy
  <2>. QED BY <2>2, <2>3
<1>6. CopyInv'
  <2>1. doing # NoCopy =>
          /\ array'[object'[doing.from].buckets].kvps = array[object[doing.from].buckets].kvps
          /\ \A j \in doing'.todo :
               array'[object'[doing.into].buckets].kvps[j] = array[object[doing.into].buckets].kvps[j]
    <3> SUFFICES ASSUME doing # NoCopy
                 PROVE  /\ array'[object'[doing.from].buckets].kvps = array[object[doing.from].buckets].kvps
                        /\ \A j \in doing'.todo :
                             array'[object'[doing.into].buckets].kvps[j] = array[object[doing.into].buckets].kvps[j]
      OBVIOUS
    <3>1. /\ x = doing.into /\ doing.from \in Objects \ {x} /\ object[doing.from].state = "live"
          /\ doing.todo \subseteq Keys
      BY <1>1, InsertingCopy
    <3>2. object[doing.from].buckets # NULL
      BY <3>1 DEF IInv, HeapInv, Matches
    <3>. QED BY <1>2, <1>3, <1>4, <3>1, <3>2 DEF Dicts
  <2>2. \A y \in Objects : object'[y].state = object[y].state
    BY <1>3
  <2>. QED BY <1>1, <1>3, <1>4, <1>5, <2>1, <2>2, RoundCopyInv
<1>7. CopyTypeInv' /\ InsertInv' /\ OnlyKnownFaults'
  BY <1>1, <1>4 DEF CopyTypeInv, InsertInv, OnlyKnownFaults
<1>. QED BY <1>3, <1>6, <1>7 DEF IInv

LEMMA ExtendIInv ==
  ASSUME IInv, Extend
  PROVE  IInv'
<1> DEFINE x == inserting.map
<1>1. /\ Inserting /\ fault = "none" /\ fault' = fault /\ doing' = doing
      /\ inserting' = [inserting EXCEPT !.new_size = 0]
  BY DEF Extend, Extending, Inserting
<1>2. /\ HeapInv'
      /\ \A y \in Objects :
           /\ object'[y].state = object[y].state
           /\ object[y].buckets # NULL =>
                /\ array'[object'[y].buckets].kvps = array[object[y].buckets].kvps
                /\ array'[object'[y].buckets].clear = array[object[y].buckets].clear
  BY ExtendMoves
<1>3. doing # NoCopy =>
        /\ doing.from \in Objects /\ object[doing.from].buckets # NULL
        /\ doing.into \in Objects /\ object[doing.into].buckets # NULL
  BY <1>1, InsertingCopy DEF IInv, HeapInv, Matches
<1>4. CopyInv'
  BY <1>1, <1>2, <1>3, RoundCopyInv
<1>5. InsertInv'
  <2>1. /\ x \in Objects /\ object[x].buckets # NULL
        /\ inserting \in [map : Objects, key : Keys, value : Values, new_size : Nat]
    BY <1>1, WhileInserting
  <2>2. /\ inserting'.map = x /\ inserting'.key = inserting.key /\ inserting'.value = inserting.value
        /\ inserting' \in [map : Objects, key : Keys, value : Values, new_size : Nat]
    BY <1>1, <2>1
  <2>. QED BY <1>1, <1>2, <1>3, <2>1, <2>2 DEF IInv, InsertInv, Inserting
<1>6. CopyTypeInv' /\ OnlyKnownFaults'
  BY <1>1 DEF IInv, CopyTypeInv, OnlyKnownFaults
<1>. QED BY <1>2, <1>4, <1>5, <1>6 DEF IInv

LEMMA ExtendFailsIInv ==
  ASSUME IInv, ExtendFails
  PROVE  IInv'
<1>1. /\ Inserting /\ fault = "none" /\ fault' = fault /\ doing' = doing /\ object' = object
      /\ inserting' = [inserting EXCEPT !.new_size = 2 * NewSize]
  BY DEF ExtendFails, Extending, Inserting
<1>2. PICK d \in Parts(Contents(inserting.map)) : array' = [array EXCEPT ![Fresh] = Freed(d)]
  BY DEF ExtendFails
<1>3. /\ HeapInv'
      /\ \A y \in Objects :
           object[y].buckets # NULL => array'[object[y].buckets] = array[object[y].buckets]
  BY <1>1, <1>2, FillDropped DEF ExtendFails
<1>4. doing # NoCopy =>
        /\ doing.from \in Objects /\ object[doing.from].buckets # NULL
        /\ doing.into \in Objects /\ object[doing.into].buckets # NULL
  BY <1>1, InsertingCopy DEF IInv, HeapInv, Matches
<1>5. CopyInv'
  BY <1>1, <1>3, <1>4, RoundCopyInv
<1>6. InsertInv'
  <2>1. /\ inserting.map \in Objects /\ object[inserting.map].buckets # NULL
        /\ inserting \in [map : Objects, key : Keys, value : Values, new_size : Nat]
    BY <1>1, WhileInserting
  <2>2. 2 * NewSize \in Nat
    BY <1>1, NewSizeType
  <2>3. /\ inserting'.map = inserting.map /\ inserting'.key = inserting.key
        /\ inserting'.value = inserting.value
        /\ inserting' \in [map : Objects, key : Keys, value : Values, new_size : Nat]
    BY <1>1, <2>1, <2>2
  <2>. QED BY <1>1, <1>3, <1>4, <2>1, <2>3 DEF IInv, InsertInv, Inserting
<1>7. CopyTypeInv' /\ OnlyKnownFaults'
  BY <1>1 DEF IInv, CopyTypeInv, OnlyKnownFaults
<1>. QED BY <1>3, <1>5, <1>6, <1>7 DEF IInv

LEMMA InsertThrowsIInv ==
  ASSUME IInv, InsertThrows
  PROVE  IInv'
<1>1. /\ Inserting /\ fault = "none" /\ fault' = fault /\ object' = object
      /\ inserting' = NoInsert /\ doing' = [doing EXCEPT !.thrown = (doing # NoCopy)]
  BY DEF InsertThrows, Inserting
<1>2. /\ HeapInv'
      /\ \A y \in Objects :
           object[y].buckets # NULL => array'[object[y].buckets] = array[object[y].buckets]
  <2>1. CASE array' = array
    <3>1. TypeInv' /\ Apart' /\ ArraysReclaimed'
      BY <1>1, <2>1 DEF IInv, HeapInv, TypeInv, Apart, ArraysReclaimed
    <3>2. \A x \in Objects : Matches(object'[x], array')
      BY <1>1, <2>1 DEF IInv, HeapInv
    <3>. QED BY <2>1, <3>1, <3>2 DEF HeapInv
  <2>2. CASE Extending /\ \E d \in Parts(Contents(inserting.map)) :
                            array' = [array EXCEPT ![Fresh] = Freed(d)]
    BY <1>1, <2>2, FillDropped
  <2>. QED BY <2>1, <2>2 DEF InsertThrows
<1>3. doing # NoCopy =>
        /\ doing.from \in Objects /\ object[doing.from].buckets # NULL
        /\ doing.into \in Objects /\ object[doing.into].buckets # NULL
  BY <1>1, InsertingCopy DEF IInv, HeapInv, Matches
<1>4. /\ doing'.self = doing.self /\ doing'.into = doing.into /\ doing'.from = doing.from
      /\ doing'.todo = doing.todo /\ doing'.thrown = (doing # NoCopy)
      /\ doing' \in [self : Maps \cup {NULL}, into : Objects, from : Objects, todo : SUBSET Keys,
                     thrown : BOOLEAN]
  BY <1>1, InsertingCopy
<1>5. (doing' = NoCopy) <=> (doing = NoCopy)
  <2>1. doing # NoCopy => doing' # NoCopy
    BY <1>4 DEF NoCopy
  <2>2. doing = NoCopy => doing' = NoCopy
    <3>1. NoCopy.self = NULL /\ NoCopy.into = TEMP /\ NoCopy.from = TEMP /\ NoCopy.todo = {}
      BY DEF NoCopy
    <3>. QED BY <1>4, <3>1, IsNoCopy
  <2>. QED BY <2>1, <2>2
<1>6. CopyInv'
  BY <1>1, <1>2, <1>3, <1>4, <1>5, RoundCopyInv
<1>7. CopyTypeInv' /\ InsertInv' /\ OnlyKnownFaults'
  BY <1>1, <1>4 DEF CopyTypeInv, InsertInv, OnlyKnownFaults
<1>. QED BY <1>2, <1>6, <1>7 DEF IInv

\* The copy is complete, or has failed: a copy constructor is done, operator= goes on.
LEMMA CompleteIInv ==
  ASSUME IInv, Copying, HeapInv', fault' = fault, inserting' = inserting,
         NEW s \in {"live", "broken"}, Complete(s)
  PROVE  IInv'
<1> DEFINE x == doing.into
<1>1. /\ doing # NoCopy /\ inserting = NoInsert /\ fault = "none"
      /\ x \in Objects /\ doing.from \in Objects /\ x # doing.from
      /\ object[doing.from].state = "live"
      /\ \A z \in Objects : object[z].state = "building" => z = x
      /\ doing.into = TEMP => doing.self \in Maps /\ object[doing.self].state \in {"live", "broken"}
      /\ doing.into # TEMP => object[TEMP].state = "none"
  BY WhileCopying
<1>2. object' = [object EXCEPT ![x].state = s] /\ doing' = IF x = TEMP THEN doing ELSE NoCopy
  BY DEF Complete
<1>3. \A z \in Objects : object'[z].state = IF z = x THEN s ELSE object[z].state
  BY <1>1, <1>2 DEF IInv, HeapInv, TypeInv, ObjectFields
<1>4. \A z \in Objects : object'[z].state # "building"
  BY <1>1, <1>3
<1>5. TEMP \in Objects
  BY DEF Objects
<1>6. CASE x = TEMP
  <2>1. doing' = doing /\ object'[TEMP].state = s /\ object'[doing.from].state = "live"
    BY <1>1, <1>2, <1>3, <1>6
  <2>2. object'[doing.self].state \in {"live", "broken"}
    <3>1. doing.self \in Objects /\ doing.self # TEMP
      BY <1>1, <1>6, ObjectsAssumption DEF Objects
    <3>. QED BY <1>1, <1>3, <1>6, <3>1
  <2>. QED BY <1>1, <1>4, <1>6, <2>1, <2>2 DEF IInv, CopyInv, CopyTypeInv, InsertInv, OnlyKnownFaults
<1>7. CASE x # TEMP
  <2>1. doing' = NoCopy /\ object'[TEMP].state = "none"
    BY <1>1, <1>2, <1>3, <1>5, <1>7
  <2>2. CopyTypeInv'
    BY <2>1 DEF CopyTypeInv, NoCopy, Objects
  <2>. QED BY <1>1, <1>4, <2>1, <2>2 DEF IInv, CopyInv, InsertInv, OnlyKnownFaults
<1>. QED BY <1>6, <1>7

LEMMA CopyThrowIInv ==
  ASSUME IInv, CopyThrow
  PROVE  IInv'
<1> DEFINE x == doing.into
           o == [object[x] EXCEPT !.state = "broken"]
<1>1. /\ Copying /\ Complete("broken") /\ fault' = fault /\ inserting' = inserting
      /\ array' = [array EXCEPT ![object[x].buckets] = FreedBlock]
  BY DEF CopyThrow, Abandoned, FreedBlock
<1>2. x \in Objects /\ object[x].state = "building"
  BY <1>1, WhileCopying
<1>4. object' = [object EXCEPT ![x] = o]
  BY <1>1 DEF Complete
<1>5. o \in ObjectFields /\ o.state = "broken" /\ o.buckets = object[x].buckets
  BY <1>2 DEF IInv, HeapInv, TypeInv, ObjectFields
<1> HIDE DEF o
<1>6. HeapInv'
  BY <1>1, <1>2, <1>4, <1>5, FreesItsOwn DEF IInv
<1>. QED BY <1>1, <1>6, CompleteIInv

LEMMA CopyEndIInv ==
  ASSUME IInv, CopyEnd
  PROVE  IInv'
<1> DEFINE x == doing.into
           o == [object[x] EXCEPT !.state = "live"]
<1>1. Copying /\ x \in Objects /\ object[x].state = "building"
  BY WhileCopying DEF CopyEnd
<1>2. CASE Hazard(x) # "none"
  BY <1>1, <1>2, FailKeeps DEF CopyEnd
<1>3. CASE Complete("live") /\ UNCHANGED <<array, inserting, fault>> /\ Hazard(x) = "none"
  <2>1. Complete("live") /\ UNCHANGED <<array, inserting, fault>>
    BY <1>3
  <2>2. object' = [object EXCEPT ![x] = o]
    BY <2>1 DEF Complete
  <2>3. /\ o \in ObjectFields /\ o.state = "live" /\ o.buckets = object[x].buckets
        /\ o.size = object[x].size /\ o.used = object[x].used
    BY <1>1 DEF IInv, HeapInv, TypeInv, ObjectFields
  <2> HIDE DEF o
  <2>4. Matches(o, array')
    BY <1>1, <1>3, <2>1, <2>3, NoHazard DEF IInv, HeapInv, Matches
  <2>5. array' \in [Arrays -> Blocks]
    BY <2>1 DEF IInv, HeapInv, TypeInv
  <2>6. HeapInv'
    BY <1>1, <2>1, <2>2, <2>3, <2>4, <2>5, OneObject DEF IInv
  <2>. QED BY <1>1, <2>1, <2>6, CompleteIInv
<1>4. CASE doing' = [doing EXCEPT !.thrown = TRUE] /\ UNCHANGED <<object, array, inserting, fault>>
  <2>1. inserting = NoInsert /\ fault = "none" /\ doing # NoCopy
    BY <1>1, WhileCopying
  <2>2. /\ doing'.self = doing.self /\ doing'.into = doing.into /\ doing'.from = doing.from
        /\ doing'.todo = doing.todo /\ doing' # NoCopy /\ CopyTypeInv'
    <3>1. doing \in [self : Maps \cup {NULL}, into : Objects, from : Objects, todo : SUBSET Keys,
                     thrown : BOOLEAN]
      BY DEF IInv, CopyTypeInv
    <3>2. doing'.thrown = TRUE
      BY <1>4, <3>1
    <3>. QED BY <1>4, <3>1, <3>2 DEF NoCopy, CopyTypeInv
  <2>3. TypeInv' /\ Apart' /\ ArraysReclaimed'
    BY <1>4 DEF IInv, HeapInv, TypeInv, Apart, ArraysReclaimed
  <2>4. \A z \in Objects : Matches(object'[z], array')
    BY <1>4 DEF IInv, HeapInv
  <2>5. CopyInv'
    BY <1>4, <2>1, <2>2 DEF IInv, CopyInv
  <2>6. InsertInv' /\ OnlyKnownFaults'
    BY <1>4, <2>1 DEF InsertInv, OnlyKnownFaults
  <2>. QED BY <2>2, <2>3, <2>4, <2>5, <2>6 DEF IInv, HeapInv
<1>. QED BY <1>2, <1>3, <1>4 DEF CopyEnd

\* swap() gives each of two objects what the other had.
LEMMA SwapKeeps ==
  ASSUME HeapInv, NEW x \in Objects, NEW y \in Objects, object' = Swapped(x, y),
         UNCHANGED array
  PROVE  HeapInv'
<1> DEFINE other == [z \in Objects |-> IF z = x THEN y ELSE IF z = y THEN x ELSE z]
<1>1. /\ \A z \in Objects : other[z] \in Objects /\ other[other[z]] = z
      /\ \A z \in Objects : object'[z] = object[other[z]]
  BY DEF HeapInv, TypeInv, Swapped
<1>2. TypeInv'
  BY DEF HeapInv, TypeInv, Swapped
<1> HIDE DEF other
<1>3. \A z \in Objects : Matches(object'[z], array')
  BY <1>1 DEF HeapInv, Matches
<1>4. Apart'
  BY <1>1 DEF HeapInv, Apart
<1>5. ArraysReclaimed'
  BY <1>1 DEF HeapInv, ArraysReclaimed
<1>. QED BY <1>2, <1>3, <1>4, <1>5 DEF HeapInv

LEMMA SwapWithIInv ==
  ASSUME IInv, NEW x \in Maps, NEW y \in Maps, SwapWith(x, y)
  PROVE  IInv'
<1>1. /\ x \in Objects /\ y \in Objects /\ x # TEMP /\ y # TEMP /\ TEMP \in Objects /\ Idle
      /\ object' = Swapped(x, y) /\ UNCHANGED <<array, doing, inserting, fault>>
  BY ObjectsAssumption DEF Objects, SwapWith
<1>2. HeapInv'
  BY <1>1, SwapKeeps DEF IInv
<1>3. object'[TEMP] = object[TEMP] /\ \A z \in Objects : \E w \in Objects : object'[z] = object[w]
  BY <1>1 DEF IInv, HeapInv, TypeInv, Swapped
<1>. QED BY <1>1, <1>2, <1>3, AtRest DEF IInv, CopyInv, Idle

\* The rest of operator=: *this takes over the array of cp, its own is freed.
LEMMA AssignEndIInv ==
  ASSUME IInv, AssignEnd
  PROVE  IInv'
<1> DEFINE x == doing.self
           b == object[x].buckets
<1>1. /\ doing # NoCopy /\ doing.into = TEMP /\ fault = "none" /\ Exists(TEMP) /\ Exists(x)
      /\ x \in Maps /\ x \in Objects /\ TEMP \in Objects /\ x # TEMP
  <2>1. doing # NoCopy /\ doing.into = TEMP /\ fault = "none" /\ Exists(TEMP)
    BY DEF AssignEnd
  <2>2. x \in Maps /\ Exists(x)
    BY <2>1 DEF IInv, CopyInv, Exists
  <2>. QED BY <2>1, <2>2, ObjectsAssumption DEF Objects
<1>2. CASE Hazard(x) # "none"
  BY <1>1, <1>2, FailKeeps DEF AssignEnd, Exists
<1>3. CASE Hazard(x) = "none"
  <2>1. /\ object' = [Swapped(x, TEMP) EXCEPT ![TEMP] = NoObject]
        /\ array' = [array EXCEPT ![b] = FreedBlock]
        /\ doing' = NoCopy /\ inserting' = inserting /\ fault' = fault
    BY <1>3 DEF AssignEnd
  <2>2. /\ \A z \in Objects : object[z] \in ObjectFields /\ Matches(object[z], array)
        /\ b \in Arrays /\ b # NULL /\ b # object[TEMP].buckets
        /\ array[b].status = "allocated" /\ object[x].state \in {"building", "live"}
    BY <1>1, <1>3, NoHazard, ObjectsAssumption
    DEF IInv, HeapInv, TypeInv, Apart, Matches, ObjectFields, Exists
  <2>3. \A z \in Objects : object'[z] = IF z = TEMP THEN NoObject
                                        ELSE IF z = x THEN object[TEMP] ELSE object[z]
    BY <1>1, <2>1 DEF IInv, HeapInv, TypeInv, Swapped
  <2>4. /\ NoObject \in ObjectFields /\ NoObject.state = "none" /\ NoObject.buckets = NULL
        /\ FreedBlock \in Blocks /\ FreedBlock.status = "freed"
    BY CountNothing, FreedType DEF NoObject, ObjectFields
  <2>5. /\ array' \in [Arrays -> Blocks]
        /\ \A a \in Arrays : array'[a] = IF a = b THEN FreedBlock ELSE array[a]
    BY <2>1, <2>2, <2>4 DEF IInv, HeapInv, TypeInv
  <2>6. object' \in [Objects -> ObjectFields]
    <3>1. object' = [z \in Objects |-> object'[z]]
      BY <2>1 DEF IInv, HeapInv, TypeInv, Swapped
    <3>. QED BY <1>1, <2>2, <2>3, <2>4, <3>1
  <2>7. \A z \in Objects : Matches(object'[z], array')
    <3>1. Matches(NoObject, array')
      BY <2>4 DEF Matches
    <3>2. \A z \in Objects \ {x} : object[z].buckets # NULL => array'[object[z].buckets] = array[object[z].buckets]
      <4>1. \A z \in Objects \ {x} : object[z].buckets # b
        BY <1>1, <2>2 DEF IInv, HeapInv, Apart
      <4>. QED BY <2>2, <2>5, <4>1 DEF ObjectFields
    <3>3. \A z \in Objects \ {x} : Matches(object[z], array')
      BY <2>2, <3>2 DEF Matches
    <3>. QED BY <1>1, <2>3, <3>1, <3>3
  <2>8. Apart'
    BY <1>1, <2>3, <2>4 DEF IInv, HeapInv, Apart
  <2>9. ArraysReclaimed'
    <3> SUFFICES ASSUME NEW a \in Arrays, array'[a].status = "allocated"
                 PROVE  \E z \in Objects : object'[z].state # "none" /\ object'[z].buckets = a
      BY DEF ArraysReclaimed
    <3>1. a # b /\ array[a].status = "allocated"
      BY <2>4, <2>5
    <3>2. PICK z \in Objects : object[z].state # "none" /\ object[z].buckets = a
      BY <3>1 DEF IInv, HeapInv, ArraysReclaimed
    <3>3. CASE z = TEMP
      BY <1>1, <2>3, <3>2, <3>3
    <3>4. CASE z # TEMP
      BY <1>1, <2>3, <3>1, <3>2, <3>4
    <3>. QED BY <3>3, <3>4
  <2>10. HeapInv'
    BY <2>1, <2>5, <2>6, <2>7, <2>8, <2>9 DEF IInv, HeapInv, TypeInv
  <2>11. object'[TEMP].state = "none" /\ \A z \in Objects : object'[z].state # "building"
    <3>1. \A z \in Objects \ {TEMP} : object[z].state # "building"
      BY <1>1 DEF IInv, CopyInv
    <3>. QED BY <1>1, <2>3, <2>4, <3>1 DEF Exists
  <2>12. CopyInv' /\ CopyTypeInv' /\ InsertInv'
    <3>1. inserting = NoInsert
      BY <1>1 DEF IInv, InsertInv, Exists
    <3>. QED BY <2>1, <2>11, <3>1 DEF CopyInv, CopyTypeInv, InsertInv, NoCopy, Objects
  <2>13. OnlyKnownFaults'
    BY <1>1, <2>1 DEF OnlyKnownFaults
  <2>. QED BY <2>10, <2>12, <2>13 DEF IInv
<1>. QED BY <1>2, <1>3

LEMMA EqualIInv ==
  ASSUME IInv, NEW x \in Maps, NEW y \in Maps, Equal(x, y)
  PROVE  IInv'
<1>1. x \in Objects /\ y \in Objects /\ object[x].state \in {"live", "broken"}
      /\ object[y].state \in {"live", "broken"}
  BY DEF Objects, Equal, Exists
<1>2. CASE Hazard(x) # "none" \/ Hazard(y) # "none"
  <2>1. \/ Hazard(x) # "none" /\ Fail(Hazard(x))
        \/ Hazard(y) # "none" /\ Fail(Hazard(y))
    <3> DEFINE reads == {Hazard(x), Hazard(y)} \ {"none"}
               differ == \E k \in Keys : Contents(x)[k] # NULL /\ Contents(y)[k] # Contents(x)[k]
    <3>1. IF reads # {} THEN \E f \in reads : Fail(f)
          ELSE \/ ReadBehind(x)
               \/ IF differ \/ Contents(x) = Contents(y) THEN UNCHANGED vars
                  ELSE Fail("readsBehindEnd")
      BY Zenon DEF Equal
    <3> HIDE DEF differ
    <3>. QED BY <1>2, <3>1
  <2>. QED BY <1>1, <2>1, FailKeeps
<1>3. CASE UNCHANGED vars
  BY <1>3, Stutters
<1>4. CASE /\ Hazard(x) = "none" /\ Hazard(y) = "none"
           /\ ~\E k \in Keys : Contents(x)[k] # NULL /\ Contents(y)[k] # Contents(x)[k]
           /\ Contents(x) # Contents(y) /\ Fail("readsBehindEnd")
  <2>1. object[x].state = "live" /\ object[y].state = "live"
    BY <1>1, <1>4, NoHazard DEF IInv
  <2>2. UNCHANGED <<object, array, doing, inserting>> /\ fault' = "readsBehindEnd"
    BY <1>4 DEF Fail
  <2>3. OnlyKnownFaults'
    BY <1>4, <2>1, <2>2 DEF OnlyKnownFaults, Contents
  <2>4. HeapInv' /\ CopyInv' /\ CopyTypeInv' /\ InsertInv'
    BY <2>2, SameHeap
  <2>. QED BY <2>3, <2>4 DEF IInv
<1>5. CASE Hazard(x) = "none" /\ Hazard(y) = "none" /\ ReadBehind(x)
  <2>1. object[x].state = "live"
    BY <1>1, <1>5, NoHazard DEF IInv
  <2>. QED BY <1>5, <2>1, ReadBehindIInv
<1>. QED BY <1>2, <1>3, <1>4, <1>5 DEF Equal

\* clear() forgets the old array and keeps the new one, which it has freed.
LEMMA ClearIInv ==
  ASSUME IInv, NEW x \in Maps, Clear(x)
  PROVE  IInv'
<1> DEFINE b == object[x].buckets
           f == Fresh
           o == [state |-> "broken", buckets |-> f, size |-> INITIAL_SIZE, used |-> 0]
           r == Leak(array[b])
<1>1. x \in Objects /\ x # TEMP /\ TEMP \in Objects /\ object[x].state # "none" /\ Idle /\ Unused # {}
  BY ObjectsAssumption DEF Objects, Clear, Exists
<1>2. CASE Hazard(x) # "none"
  BY <1>1, <1>2, FailKeeps DEF Clear
<1>3. CASE Hazard(x) = "none"
  <2>1. /\ array' = [array EXCEPT ![b] = r, ![f] = FreedBlock]
        /\ object' = [object EXCEPT ![x] = o]
        /\ doing' = doing /\ inserting' = inserting /\ fault' = fault
    BY <1>3 DEF Clear
  <2>2. f \in Arrays /\ f # NULL /\ array[f].status = "none" /\ \A y \in Objects : object[y].buckets # f
    BY <1>1, FreshIsUnused DEF IInv
  <2> HIDE DEF f
  <2>3. b \in Arrays /\ b # NULL /\ b # f /\ array[b] \in Blocks
    BY <1>1, <2>2, ObjectsAssumption DEF IInv, HeapInv, TypeInv, Matches, ObjectFields
  <2>4. o \in ObjectFields /\ o.state = "broken" /\ o.buckets = f
    BY <2>2, ObjectsAssumption DEF ObjectFields
  <2>5. r \in Blocks /\ r.status = "leaked"
    BY <2>3, CountNothing DEF Leak, Blocks
  <2>6. FreedBlock \in Blocks /\ FreedBlock.status = "freed"
    BY CountNothing, FreedType
  <2> HIDE DEF o, r
  <2>7. /\ array' \in [Arrays -> Blocks]
        /\ \A a \in Arrays : array'[a] = IF a = f THEN FreedBlock ELSE IF a = b THEN r ELSE array[a]
    BY <2>1, <2>2, <2>3, <2>5, <2>6 DEF IInv, HeapInv, TypeInv
  <2>8. Matches(o, array')
    BY <2>2, <2>4, <2>6, <2>7 DEF Matches
  <2>9. \A a \in Arrays : array'[a] # array[a] =>
          /\ a = object[x].buckets \/ array[a].status = "none"
          /\ array'[a].status = "allocated" => a = o.buckets
    BY <2>2, <2>5, <2>6, <2>7
  <2>10. array'[b].status # "allocated"
    BY <2>3, <2>5, <2>7
  <2>11. HeapInv'
    BY <1>1, <2>1, <2>2, <2>4, <2>7, <2>8, <2>9, <2>10, OneObject DEF IInv
  <2>12. \A y \in Objects : object'[y].state = IF y = x THEN "broken" ELSE object[y].state
    BY <1>1, <2>1, <2>4 DEF IInv, HeapInv, TypeInv
  <2>. QED BY <1>1, <2>1, <2>11, <2>12, AtRest DEF IInv, CopyInv, Idle
<1>. QED BY <1>2, <1>3

LEMMA DestroyIInv ==
  ASSUME IInv, NEW x \in Maps, Destroy(x)
  PROVE  IInv'
<1>1. x \in Objects /\ x # TEMP /\ TEMP \in Objects /\ object[x].state # "none" /\ Idle
  BY ObjectsAssumption DEF Objects, Destroy, Exists
<1>2. CASE Hazard(x) # "none"
  BY <1>1, <1>2, FailKeeps DEF Destroy
<1>3. CASE Hazard(x) = "none"
  <2>1. /\ array' = [array EXCEPT ![object[x].buckets] = FreedBlock]
        /\ object' = [object EXCEPT ![x] = NoObject]
        /\ doing' = doing /\ inserting' = inserting /\ fault' = fault
    BY <1>3 DEF Destroy
  <2>2. NoObject \in ObjectFields /\ NoObject.state = "none" /\ NoObject.buckets = NULL
    BY DEF NoObject, ObjectFields
  <2>3. HeapInv'
    BY <1>1, <2>1, <2>2, FreesItsOwn DEF IInv
  <2>4. \A y \in Objects : object'[y].state = IF y = x THEN "none" ELSE object[y].state
    BY <1>1, <2>1, <2>2 DEF IInv, HeapInv, TypeInv
  <2>. QED BY <1>1, <2>1, <2>3, <2>4, AtRest DEF IInv, CopyInv, Idle
<1>. QED BY <1>2, <1>3

LEMMA StepIInv == IInv /\ [Next]_vars => IInv'
<1> SUFFICES ASSUME IInv, [Next]_vars PROVE IInv'
  OBVIOUS
<1>1. CASE UNCHANGED vars
  BY <1>1, Stutters
<1>2. ASSUME NEW x \in Maps, Construct(x) \/ Clear(x) \/ Destroy(x)
      PROVE  IInv'
  BY <1>2, ConstructIInv, ClearIInv, DestroyIInv
<1>3. ASSUME NEW x \in Maps, NEW k \in Keys, Erase(x, k) \/ \E v \in Values : Insert(x, k, v)
      PROVE  IInv'
  BY <1>3, EraseIInv, InsertIInv
<1>4. ASSUME NEW x \in Maps, NEW y \in Maps,
             Copy(x, y) \/ Assign(x, y) \/ SwapWith(x, y) \/ Equal(x, y)
      PROVE  IInv'
  BY <1>4, CopyIInv, SwapWithIInv, EqualIInv
<1>5. CASE (\E k \in Keys : CopyOne(k)) \/ CopyThrow \/ CopyEnd \/ AssignEnd
  BY <1>5, CopyOneIInv, CopyThrowIInv, CopyEndIInv, AssignEndIInv
<1>6. CASE Place \/ Extend \/ ExtendFails \/ InsertThrows
  BY <1>6, PlaceIInv, ExtendIInv, ExtendFailsIInv, InsertThrowsIInv
<1>. QED BY <1>1, <1>2, <1>3, <1>4, <1>5, <1>6 DEF Next

-------------------------------------------------------------------------------
(* The theorems.                                                           *)

LEMMA AlwaysIInv == Spec => []IInv
<1>. QED BY InitIInv, StepIInv, PTL DEF Spec

\* Whatever calls are made on the maps, a map that neither clear() nor a failed
\* copy has broken owns an allocated array of the length and with the number of
\* pairs its fields say, and no other object points to it.
THEOREM ArrayOwned == Spec => []OwnsArray
<1>1. IInv => OwnsArray
  <2> SUFFICES ASSUME IInv, NEW x \in Objects, object[x].state \in {"building", "live"}
               PROVE  /\ Matches(object[x], array)
                      /\ \A y \in Objects \ {x} : object[y].buckets # object[x].buckets
    BY DEF OwnsArray, Matches
  <2>1. object[x].buckets # NULL
    BY DEF IInv, HeapInv, Matches
  <2>. QED BY <2>1 DEF IInv, HeapInv, Apart
<1>. QED BY <1>1, AlwaysIInv, PTL

\* An allocated array always belongs to an object: only clear() leaks.
THEOREM NothingLeaked == Spec => []ArraysReclaimed
<1>1. IInv => ArraysReclaimed
  BY DEF IInv, HeapInv
<1>. QED BY <1>1, AlwaysIInv, PTL

\* The calls run into undefined behaviour through a map left with a freed array, a
\* copy over uncleared slots, begin() of a map without pairs, or the comparison of a
\* map with a larger one, and through nothing else that OnlyKnownFaults counts.
THEOREM FaultsKnown == Spec => []OnlyKnownFaults
<1>1. IInv => OnlyKnownFaults
  BY DEF IInv
<1>. QED BY <1>1, AlwaysIInv, PTL

\* A block is given up with pairs in it undestroyed only where an insertion extends
\* its map, and what is left in the block is in the map as well.
THEOREM OnlyCopiesLeak == Spec => UndestroyedAreCopies
<1> DEFINE GivenUp(a) ==
             array'[a] # array[a] /\ array'[a].status # "allocated" /\ array'[a].kvps # Nothing
           Kept(a) ==
             /\ inserting # NoInsert
             /\ \A k \in Keys :
                  array'[a].kvps[k] \in {NULL, array'[object'[inserting.map].buckets].kvps[k]}
           A == \A a \in Arrays : GivenUp(a) => Kept(a)
<1>1. ASSUME IInv, NEW b \in Arrays, array' = [array EXCEPT ![b] = FreedBlock]
      PROVE  A
  BY <1>1, FreedType, CountNothing DEF IInv, HeapInv, TypeInv
<1>2. ASSUME IInv, NEW x \in Objects, object[x].state # "none"
      PROVE  object[x].buckets \in Arrays
  BY <1>2, ObjectsAssumption DEF IInv, HeapInv, TypeInv, Matches, ObjectFields
<1>3. ASSUME IInv, Unused # {}, NEW n, NEW clear, NEW d, array' = [array EXCEPT ![Fresh] = Block(n, clear, d)]
      PROVE  A
  BY <1>3, FreshIsUnused DEF IInv, HeapInv, TypeInv, Block
<1>4. ASSUME array' = array
      PROVE  A
  BY <1>4
<1>5. ASSUME IInv, Next
      PROVE  A
  <2>1. ASSUME NEW x \in Maps, Construct(x)
        PROVE  A
    BY <1>3, <1>5, <2>1 DEF Construct
  <2>2. ASSUME NEW x \in Maps, Destroy(x)
        PROVE  A
    BY <1>1, <1>2, <1>4, <1>5, <2>2 DEF Destroy, Exists, Objects, Fail
  <2>3. ASSUME NEW x \in Maps, Clear(x)
        PROVE  A
    <3>1. CASE array' = array
      BY <1>4, <3>1
    <3>2. CASE /\ array' = [array EXCEPT ![object[x].buckets] = Leak(@), ![Fresh] = FreedBlock]
               /\ Unused # {}
      <4>1. Leak(array[object[x].buckets]).kvps = Nothing
        <5>1. object[x].buckets \in Arrays
          BY <1>2, <1>5, <2>3 DEF Clear, Exists, Objects
        <5>. QED BY <1>5, <5>1 DEF Leak, IInv, HeapInv, TypeInv, Blocks
      <4>. QED BY <1>5, <3>2, <4>1, FreedType, CountNothing DEF IInv, HeapInv, TypeInv
    <3>. QED BY <2>3, <3>1, <3>2 DEF Clear, Fail
  <2>4. ASSUME NEW x \in Maps, NEW k \in Keys, Erase(x, k)
        PROVE  A
    <3>1. CASE array' = array
      BY <1>4, <3>1
    <3>2. CASE array' = [array EXCEPT ![object[x].buckets].kvps = [@ EXCEPT ![k] = NULL]]
               /\ Hazard(x) = "none"
      <4>1. object[x].buckets \in Arrays /\ array[object[x].buckets].status = "allocated"
        BY <1>2, <1>5, <2>4, <3>2, NoHazard DEF Erase, Exists, Objects, IInv, HeapInv, Matches
      <4>. QED BY <1>5, <3>2, <4>1 DEF IInv, HeapInv, TypeInv, Blocks
    <3>. QED BY <2>4, <3>1, <3>2 DEF Erase, Fail
  <2>5. ASSUME NEW x \in Maps, NEW y \in Maps,
               Copy(x, y) \/ Assign(x, y) \/ SwapWith(x, y) \/ Equal(x, y)
        PROVE  A
    <3>1. CASE array' = array
      BY <1>4, <3>1
    <3>2. CASE \E z \in Objects : CopyStart(x, z, y)
      <4>1. PICK zero \in BOOLEAN : array' = [array EXCEPT ![Fresh] = Block(object[y].size, zero, Nothing)]
        BY <3>2 DEF CopyStart
      <4>2. Unused # {}
        BY <3>2 DEF CopyStart
      <4> HIDE DEF A
      <4>. QED BY <1>3, <1>5, <4>1, <4>2
    <3>. QED BY <2>5, <3>1, <3>2 DEF Copy, Assign, SwapWith, Equal, Fail, ReadBehind, vars, Objects
  <2>6. CASE (\E x \in Maps, k \in Keys, v \in Values : Insert(x, k, v)) \/ \E k \in Keys : CopyOne(k)
    BY <1>4, <2>6 DEF Insert, CopyOne, Fail
  <2>7. CASE Place
    <3>1. /\ object[inserting.map].buckets \in Arrays
          /\ array[object[inserting.map].buckets].status = "allocated"
          /\ array' = [array EXCEPT ![object[inserting.map].buckets].kvps[inserting.key] = inserting.value]
      BY <1>5, <2>7, WhileInserting DEF Place, Matches
    <3>. QED BY <1>5, <3>1 DEF IInv, HeapInv, TypeInv, Blocks
  <2>8. CASE Extend
    <3> DEFINE d == Contents(inserting.map)
    <3>1. /\ inserting # NoInsert /\ d \in Dicts
      BY <1>5, <2>8, WhileInserting DEF Extend, Extending
    <3>2. /\ \A a \in Arrays : array'[a] # array[a] => a = Fresh \/ array'[a] = Freed(d)
          /\ object'[inserting.map].buckets = Fresh
          /\ array'[Fresh] = Block(NewSize, TRUE, d)
      BY <1>5, <2>8, ExtendMoves
    <3>3. array'[Fresh].status = "allocated" /\ array'[Fresh].kvps = d
      BY <3>2 DEF Block
    <3>4. Freed(d).kvps = d
      BY <3>1, FreedType
    <3>. QED BY <3>1, <3>2, <3>3, <3>4
  <2>9. ASSUME Inserting, Extending, NEW d \in Parts(Contents(inserting.map)),
               array' = [array EXCEPT ![Fresh] = Freed(d)], object' = object
        PROVE  A
    <3>1. /\ inserting # NoInsert /\ object[inserting.map].buckets # NULL
          /\ Contents(inserting.map) = array[object[inserting.map].buckets].kvps
      BY <1>5, <2>9, WhileInserting
    <3>2. /\ \A a \in Arrays : array'[a] # array[a] => a = Fresh /\ array'[a].kvps = d
          /\ array'[object[inserting.map].buckets] = array[object[inserting.map].buckets]
          /\ \A k \in Keys : d[k] \in {NULL, Contents(inserting.map)[k]}
      BY <1>5, <2>9, <3>1, WhileInserting, FillDropped
    <3>. QED BY <2>9, <3>1, <3>2
  <2>10. CASE ExtendFails \/ InsertThrows
    BY <1>4, <2>9, <2>10 DEF ExtendFails, InsertThrows, Extending
  <2>11. CASE CopyThrow
    <3>1. array' = [array EXCEPT ![object[doing.into].buckets] = FreedBlock]
      BY <2>11 DEF CopyThrow, Abandoned, FreedBlock
    <3>2. object[doing.into].buckets \in Arrays
      BY <1>2, <1>5, <2>11, WhileCopying DEF CopyThrow
    <3>. QED BY <1>1, <1>5, <3>1, <3>2
  <2>12. CASE CopyEnd
    BY <1>4, <2>12 DEF CopyEnd, Fail
  <2>13. CASE AssignEnd
    <3>1. CASE array' = array
      BY <1>4, <3>1
    <3>2. CASE array' = [array EXCEPT ![object[doing.self].buckets] = FreedBlock]
      <4>1. doing.self \in Objects /\ object[doing.self].state # "none"
        BY <1>5, <2>13 DEF AssignEnd, IInv, CopyInv, Objects
      <4>. QED BY <1>1, <1>2, <1>5, <3>2, <4>1
    <3>. QED BY <2>13, <3>1, <3>2 DEF AssignEnd, Fail
  <2> HIDE DEF A
  <2>. QED BY <1>5, <2>1, <2>2, <2>3, <2>4, <2>5, <2>6, <2>7, <2>8, <2>10, <2>11, <2>12, <2>13 DEF Next
<1>6. IInv /\ [Next]_vars => [A]_vars
  BY <1>5 DEF vars
<1>. QED BY <1>6, AlwaysIInv, PTL DEF Spec, UndestroyedAreCopies

-------------------------------------------------------------------------------
(* Maps are values: MapObjects implements MapValues.                       *)

KvpsOf(x) == array[object[x].buckets].kvps

\* What was copied so far is what the original has; a complete cp has all of it.
CopiedInv ==
  doing # NoCopy =>
    /\ object[doing.into].state = "building" =>
         \A k \in Keys \ doing.todo : KvpsOf(doing.into)[k] = KvpsOf(doing.from)[k]
    /\ object[doing.into].state = "live" => KvpsOf(doing.into) = KvpsOf(doing.from)

RefInv == IInv /\ CopiedInv

LEMMA ValueOf ==
  ASSUME NEW x \in Maps
  PROVE  AbstractValue[x] = View(x) /\ AbstractValue'[x] = View(x)'
BY DEF AbstractValue

LEMMA KvpsType ==
  ASSUME HeapInv, NEW x \in Objects, object[x].state # "none"
  PROVE  /\ object[x].buckets \in Arrays /\ object[x].buckets # NULL
         /\ KvpsOf(x) \in Dicts /\ KvpsOf(x) = Contents(x)
<1>1. object[x].buckets \in Arrays /\ object[x].buckets # NULL
  BY ObjectsAssumption DEF HeapInv, TypeInv, Matches, ObjectFields
<1>2. array[object[x].buckets] \in Blocks
  BY <1>1 DEF HeapInv, TypeInv
<1>. QED BY <1>1, <1>2 DEF Blocks, KvpsOf, Contents

\* An object that keeps its state, and its array if it has one, shows the same map.
LEMMA SameView ==
  ASSUME HeapInv, NEW x \in Objects, object'[x] = object[x],
         object[x].buckets # NULL => array'[object[x].buckets] = array[object[x].buckets]
  PROVE  View(x)' = View(x) /\ (object[x].buckets # NULL => KvpsOf(x)' = KvpsOf(x))
<1>1. object[x].state = "live" => object[x].buckets # NULL
  BY DEF HeapInv, Matches
<1>. QED BY <1>1 DEF View, Contents, KvpsOf

\* Objects that are not live show nothing, whatever is done to them.
LEMMA NoView ==
  ASSUME NEW x \in Objects, object[x].state # "live", object'[x].state # "live"
  PROVE  View(x)' = View(x)
BY DEF View

\* A call that changes one object does not show in another.
LEMMA OthersSame ==
  ASSUME HeapInv, NEW x \in Objects, NEW o, object' = [object EXCEPT ![x] = o],
         \A a \in Arrays : array'[a] # array[a] => a = object[x].buckets \/ array[a].status = "none"
  PROVE  \A y \in Objects \ {x} :
           /\ object'[y] = object[y]
           /\ object[y].buckets # NULL => array'[object[y].buckets] = array[object[y].buckets]
           /\ View(y)' = View(y)
<1> TAKE y \in Objects \ {x}
<1>1. object'[y] = object[y]
  BY DEF HeapInv, TypeInv
<1>2. ASSUME object[y].buckets # NULL
      PROVE  array'[object[y].buckets] = array[object[y].buckets]
  <2>1. object[y].buckets \in Arrays /\ object[y].state # "none"
    BY <1>2 DEF HeapInv, TypeInv, ObjectFields, Matches
  <2>2. object[y].buckets # object[x].buckets
    BY <1>2 DEF HeapInv, Apart
  <2>3. array[object[y].buckets].status # "none"
    BY <2>1 DEF HeapInv, Matches
  <2>. QED BY <2>1, <2>2, <2>3
<1>. QED BY <1>1, <1>2, SameView

\* If no map looks different the step stutters.
LEMMA StutterStep ==
  ASSUME \A x \in Maps : View(x)' = View(x)
  PROVE  [Abstract!Next]_AbstractValue
<1>1. AbstractValue' = AbstractValue
  BY DEF AbstractValue
<1>. QED BY <1>1

LEMMA FailStep ==
  ASSUME UNCHANGED <<object, array>>
  PROVE  [Abstract!Next]_AbstractValue
<1>1. \A x \in Maps : View(x)' = View(x)
  BY DEF View, Contents
<1>. QED BY <1>1, StutterStep

\* One map looks different, in the way of an abstract operation.
LEMMA OneStep ==
  ASSUME NEW x \in Maps, \A y \in Maps \ {x} : View(y)' = View(y),
         \/ ~ View(x).live /\ View(x)' = Abstract!Object(Abstract!Empty)
         \/ View(x).live /\ View(x)' = Abstract!NoObject
         \/ \E k \in Keys, v \in Values \cup {NULL} :
              View(x).live /\ View(x)' = [View(x) EXCEPT !.dict = [@ EXCEPT ![k] = v]]
         \/ \E y \in Maps : View(y).live /\ View(x)' = View(y)
  PROVE  Abstract!Next
<1>1. AbstractValue = [y \in Maps |-> AbstractValue[y]] /\ AbstractValue' = [y \in Maps |-> AbstractValue'[y]]
  BY DEF AbstractValue
<1>2. \A y \in Maps : AbstractValue[y] = View(y) /\ AbstractValue'[y] = View(y)'
  BY ValueOf
<1>3. \A y \in Maps \ {x} : AbstractValue'[y] = AbstractValue[y]
  BY <1>2
<1>4. \A w : AbstractValue'[x] = w => AbstractValue' = [AbstractValue EXCEPT ![x] = w]
  BY <1>1, <1>3
<1>5. CASE ~ View(x).live /\ View(x)' = Abstract!Object(Abstract!Empty)
  <2>1. Abstract!Construct(x)
    BY <1>2, <1>4, <1>5 DEF Abstract!Construct
  <2>. QED BY <2>1 DEF Abstract!Next
<1>6. CASE View(x).live /\ View(x)' = Abstract!NoObject
  <2>1. Abstract!Destroy(x)
    BY <1>2, <1>4, <1>6 DEF Abstract!Destroy
  <2>. QED BY <2>1 DEF Abstract!Next
<1>7. ASSUME NEW k \in Keys, NEW v \in Values \cup {NULL},
             View(x).live, View(x)' = [View(x) EXCEPT !.dict = [@ EXCEPT ![k] = v]]
      PROVE  Abstract!Next
  <2>1. Abstract!Put(x, k, v)
    BY <1>2, <1>4, <1>7 DEF Abstract!Put
  <2>. QED BY <2>1 DEF Abstract!Next
<1>8. ASSUME NEW y \in Maps, View(y).live, View(x)' = View(y)
      PROVE  Abstract!Next
  <2>1. Abstract!Copy(x, y)
    BY <1>2, <1>4, <1>8 DEF Abstract!Copy
  <2>. QED BY <2>1 DEF Abstract!Next
<1>. QED BY <1>5, <1>6, <1>7, <1>8

\* A pair more, or one less.
LEMMA ViewPut ==
  ASSUME NEW k, NEW v, NEW d, NEW r, r = [live |-> TRUE, dict |-> d]
  PROVE  [r EXCEPT !.dict = [@ EXCEPT ![k] = v]] = [live |-> TRUE, dict |-> [d EXCEPT ![k] = v]]
<1> DEFINE e == [d EXCEPT ![k] = v]
           f == [r EXCEPT !.dict = e]
           g == [live |-> TRUE, dict |-> e]
<1>1. [r.dict EXCEPT ![k] = v] = e
  <2>1. r.dict = d
    OBVIOUS
  <2>. QED BY <2>1, Zenon
<1>2. f = g
  <2> HIDE DEF e
  <2>1. f = [i \in {"live", "dict"} |-> f[i]] /\ g = [i \in {"live", "dict"} |-> g[i]]
    OBVIOUS
  <2>2. f["live"] = g["live"] /\ f["dict"] = g["dict"]
    OBVIOUS
  <2> HIDE DEF f, g
  <2>3. \A i \in {"live", "dict"} : f[i] = g[i]
    BY <2>2
  <2>. QED BY <2>1, <2>3, Zenon
<1>. QED BY <1>1, <1>2, Zenon

LEMMA ConstructStep ==
  ASSUME IInv, NEW x \in Maps, Construct(x)
  PROVE  Abstract!Next
<1>1. x \in Objects /\ Maps \subseteq Objects
  BY DEF Objects
<1>2. /\ object[x].state = "none" /\ Unused # {}
      /\ array' = [array EXCEPT ![Fresh] = Block(INITIAL_SIZE, TRUE, Nothing)]
      /\ object' = [object EXCEPT ![x] =
                      [state |-> "live", buckets |-> Fresh, size |-> INITIAL_SIZE, used |-> 0]]
  BY DEF Construct
<1>3. Fresh \in Arrays /\ array[Fresh].status = "none"
  BY <1>2, FreshIsUnused DEF IInv
<1>4. object'[x].state = "live" /\ Contents(x)' = Nothing
  BY <1>1, <1>2, <1>3 DEF IInv, HeapInv, TypeInv, Contents, Block
<1>5. View(x)' = Abstract!Object(Abstract!Empty) /\ ~ View(x).live
  BY <1>2, <1>4 DEF View, Nothing, Abstract!Object, Abstract!Empty
<1>6. \A a \in Arrays : array'[a] # array[a] => a = object[x].buckets \/ array[a].status = "none"
  BY <1>2, <1>3 DEF IInv, HeapInv, TypeInv
<1>7. \A y \in Maps \ {x} : View(y)' = View(y)
  BY <1>1, <1>2, <1>6, OthersSame DEF IInv
<1>. QED BY <1>5, <1>7, OneStep

\* What the client sees of a sound map.
LEMMA LiveView ==
  ASSUME HeapInv, NEW x \in Objects, Exists(x), Hazard(x) = "none"
  PROVE  object[x].state = "live" /\ View(x) = [live |-> TRUE, dict |-> Contents(x)]
<1>1. object[x].state = "live"
  BY NoHazard DEF Exists
<1>. QED BY <1>1 DEF View

\* clear() and the destructor take a map away.
LEMMA GoneStep ==
  ASSUME IInv, NEW x \in Maps, Clear(x) \/ Destroy(x)
  PROVE  [Abstract!Next]_AbstractValue
<1>1. x \in Objects /\ Maps \subseteq Objects
  BY DEF Objects
<1>2. CASE Hazard(x) # "none"
  BY <1>2, FailStep DEF Clear, Destroy, Fail
<1>3. CASE Hazard(x) = "none"
  <2> DEFINE o == [state |-> "broken", buckets |-> Fresh, size |-> INITIAL_SIZE, used |-> 0]
  <2>1. View(x).live
    BY <1>1, <1>3, LiveView DEF IInv, Clear, Destroy
  <2>2. \E w \in {o, NoObject} : object' = [object EXCEPT ![x] = w]
    BY <1>3 DEF Clear, Destroy
  <2>3. object'[x].state # "live"
    BY <1>1, <2>2 DEF IInv, HeapInv, TypeInv, NoObject
  <2>4. \A a \in Arrays : array'[a] # array[a] => a = object[x].buckets \/ array[a].status = "none"
    <3>1. CASE Destroy(x)
      BY <1>3, <3>1 DEF IInv, HeapInv, TypeInv, Destroy
    <3>2. CASE Clear(x)
      <4>1. /\ array' = [array EXCEPT ![object[x].buckets] = Leak(@), ![Fresh] = FreedBlock]
            /\ Unused # {}
        BY <1>3, <3>2 DEF Clear
      <4>2. array[Fresh].status = "none"
        BY <4>1, FreshIsUnused DEF IInv
      <4>. QED BY <4>1, <4>2 DEF IInv, HeapInv, TypeInv
    <3>. QED BY <3>1, <3>2
  <2>5. \A y \in Maps \ {x} : View(y)' = View(y)
    BY <1>1, <2>2, <2>4, OthersSame DEF IInv
  <2>6. View(x)' = Abstract!NoObject
    BY <2>3 DEF View, Nothing, Abstract!NoObject, Abstract!Empty
  <2>. QED BY <2>1, <2>5, <2>6, OneStep
<1>. QED BY <1>2, <1>3

\* The round of an insertion that places the pair shows in the map it is made in,
\* unless that is a copy under construction.
LEMMA PlaceStep ==
  ASSUME RefInv, Place
  PROVE  [Abstract!Next]_AbstractValue /\ CopiedInv'
<1>0. Inserting /\ Maps \subseteq Objects
  BY DEF Place, Objects
<1>1. PICK x \in Objects, k \in Keys, v \in Values :
        x = inserting.map /\ k = inserting.key /\ v = inserting.value
  BY <1>0, WhileInserting DEF RefInv
<1>2. /\ object[x].state \in {"building", "live"} /\ Contents(x) \in Dicts /\ Contents(x) = KvpsOf(x)
      /\ object[x].buckets # NULL
  BY <1>0, <1>1, WhileInserting DEF RefInv, KvpsOf
<1>3. /\ object'[x].state = object[x].state
      /\ KvpsOf(x)' = [Contents(x) EXCEPT ![k] = v]
      /\ \A y \in Objects \ {x} :
           /\ object'[y] = object[y]
           /\ object[y].buckets # NULL => array'[object[y].buckets] = array[object[y].buckets]
  BY <1>1, PlaceAdds DEF RefInv, KvpsOf
<1>4. \A y \in Objects \ {x} :
        View(y)' = View(y) /\ (object[y].buckets # NULL => KvpsOf(y)' = KvpsOf(y))
  BY <1>3, SameView DEF RefInv, IInv
<1>5. doing' = [doing EXCEPT !.todo = @ \ {k}]
  BY <1>1 DEF Place
<1>6. CASE doing = NoCopy
  <2>1. object[x].state = "live" /\ object[TEMP].state = "none"
    BY <1>0, <1>1, <1>6, InsertingCopy DEF RefInv, IInv, CopyInv
  <2>2. x \in Maps
    BY <2>1 DEF Objects
  <2>3. View(x) = [live |-> TRUE, dict |-> Contents(x)]
    BY <2>1 DEF View
  <2>4. View(x)' = [live |-> TRUE, dict |-> [Contents(x) EXCEPT ![k] = v]]
    BY <1>3, <2>1 DEF View, Contents, KvpsOf
  <2>5. View(x).live /\ View(x)' = [View(x) EXCEPT !.dict = [@ EXCEPT ![k] = v]]
    BY <2>3, <2>4, ViewPut
  <2>6. Abstract!Next
    BY <1>0, <1>4, <2>2, <2>5, OneStep
  <2>7. doing' = NoCopy
    BY <1>5, <1>6 DEF NoCopy
  <2>. QED BY <2>6, <2>7 DEF CopiedInv
<1>7. CASE doing # NoCopy
  <2>1. PICK y \in Objects \ {x} : y = doing.from /\ object[y].state = "live"
    BY <1>0, <1>1, <1>7, InsertingCopy DEF RefInv
  <2>2. /\ x = doing.into /\ object[x].state = "building" /\ v = KvpsOf(y)[k]
        /\ doing \in [self : Maps \cup {NULL}, into : Objects, from : Objects, todo : SUBSET Keys,
                      thrown : BOOLEAN]
    BY <1>0, <1>1, <1>7, <2>1, InsertingCopy DEF RefInv, KvpsOf
  <2>3. View(x)' = View(x)
    BY <1>3, <2>2, NoView
  <2>4. [Abstract!Next]_AbstractValue
    BY <1>0, <1>4, <2>3, StutterStep
  <2>5. doing'.into = x /\ doing'.from = y /\ doing'.todo = doing.todo \ {k}
    BY <1>5, <2>1, <2>2
  <2>6. KvpsOf(y)' = KvpsOf(y)
    <3>1. object[y].buckets # NULL
      BY <2>1 DEF RefInv, IInv, HeapInv, Matches
    <3>. QED BY <1>4, <2>1, <3>1
  <2>7. \A j \in Keys \ doing.todo : KvpsOf(x)[j] = KvpsOf(y)[j]
    BY <1>7, <2>1, <2>2 DEF RefInv, CopiedInv
  <2>8. \A j \in Keys \ doing'.todo : KvpsOf(x)'[j] = KvpsOf(y)'[j]
    BY <1>2, <1>3, <2>2, <2>5, <2>6, <2>7 DEF Dicts
  <2>9. CopiedInv'
    <3>1. object'[doing'.into].state = "building"
      BY <1>3, <2>2, <2>5
    <3>2. \A j \in Keys \ doing'.todo : (KvpsOf(doing.into)')[j] = (KvpsOf(doing.from)')[j]
      BY <2>5, <2>8 DEF KvpsOf
    <3>. QED BY <3>1, <3>2 DEF CopiedInv
  <2>. QED BY <2>4, <2>9
<1>. QED BY <1>6, <1>7

\* The other rounds show nowhere.
LEMMA RoundStep ==
  ASSUME RefInv, Extend \/ ExtendFails \/ InsertThrows
  PROVE  [Abstract!Next]_AbstractValue /\ CopiedInv'
<1>0. Inserting /\ Maps \subseteq Objects
  BY DEF Extend, ExtendFails, InsertThrows, Extending, Objects
<1>1. \A y \in Objects :
        /\ object'[y].state = object[y].state
        /\ object[y].buckets # NULL => KvpsOf(y)' = KvpsOf(y)
  <2>1. CASE Extend
    BY <2>1, ExtendMoves DEF RefInv, KvpsOf
  <2>2. CASE ExtendFails \/ InsertThrows
    <3>1. object' = object
      BY <2>2 DEF ExtendFails, InsertThrows
    <3>2. CASE array' = array
      BY <3>1, <3>2 DEF KvpsOf
    <3>3. CASE Extending /\ \E d \in Parts(Contents(inserting.map)) :
                              array' = [array EXCEPT ![Fresh] = Freed(d)]
      BY <3>1, <3>3, FillDropped DEF RefInv, KvpsOf
    <3>. QED BY <2>2, <3>2, <3>3 DEF ExtendFails, InsertThrows
  <2>. QED BY <2>1, <2>2
<1>2. \A y \in Objects : object[y].state = "live" => object[y].buckets # NULL
  BY DEF RefInv, IInv, HeapInv, Matches
<1>3. \A y \in Maps : View(y)' = View(y)
  BY <1>0, <1>1, <1>2 DEF View, Contents, KvpsOf
<1>4. /\ doing'.into = doing.into /\ doing'.from = doing.from /\ doing'.todo = doing.todo
      /\ doing = NoCopy => doing' = NoCopy
  <2>1. CASE doing' = doing
    BY <2>1
  <2>2. CASE doing' = [doing EXCEPT !.thrown = (doing # NoCopy)]
    <3>1. doing \in [self : Maps \cup {NULL}, into : Objects, from : Objects, todo : SUBSET Keys,
                     thrown : BOOLEAN]
      BY DEF RefInv, IInv, CopyTypeInv
    <3>2. /\ doing'.self = doing.self /\ doing'.into = doing.into /\ doing'.from = doing.from
          /\ doing'.todo = doing.todo /\ doing'.thrown = (doing # NoCopy)
          /\ doing' \in [self : Maps \cup {NULL}, into : Objects, from : Objects, todo : SUBSET Keys,
                         thrown : BOOLEAN]
      BY <2>2, <3>1
    <3>3. NoCopy.self = NULL /\ NoCopy.into = TEMP /\ NoCopy.from = TEMP /\ NoCopy.todo = {}
      BY DEF NoCopy
    <3>. QED BY <3>2, <3>3, IsNoCopy
  <2>. QED BY <2>1, <2>2 DEF Extend, ExtendFails, InsertThrows
<1>5. CopiedInv'
  <2>1. CASE doing = NoCopy
    BY <1>4, <2>1 DEF CopiedInv
  <2>2. CASE doing # NoCopy
    <3>1. PICK x \in Objects, y \in Objects :
            /\ x = doing.into /\ y = doing.from
            /\ object[x].state = "building" /\ object[y].state = "live"
      BY <1>0, <2>2, WhileInserting, InsertingCopy DEF RefInv
    <3>2. KvpsOf(x)' = KvpsOf(x) /\ KvpsOf(y)' = KvpsOf(y)
      <4>1. object[x].buckets # NULL /\ object[y].buckets # NULL
        BY <3>1 DEF RefInv, IInv, HeapInv, Matches
      <4>. QED BY <1>1, <4>1
    <3>3. \A j \in Keys \ doing.todo : KvpsOf(x)[j] = KvpsOf(y)[j]
      BY <2>2, <3>1 DEF RefInv, CopiedInv
    <3>4. doing'.into = x /\ doing'.from = y /\ object'[x].state = "building"
      BY <1>1, <1>4, <3>1
    <3>5. \A j \in Keys \ doing'.todo : (KvpsOf(doing.into)')[j] = (KvpsOf(doing.from)')[j]
      BY <1>4, <3>2, <3>3, <3>4 DEF KvpsOf
    <3>. QED BY <3>4, <3>5 DEF CopiedInv
  <2>. QED BY <2>1, <2>2
<1>. QED BY <1>0, <1>3, <1>5, StutterStep

LEMMA EraseStep ==
  ASSUME IInv, NEW x \in Maps, NEW k \in Keys, Erase(x, k)
  PROVE  [Abstract!Next]_AbstractValue
<1>1. x \in Objects /\ Maps \subseteq Objects
  BY DEF Objects
<1>2. CASE Hazard(x) # "none"
  BY <1>2, FailStep DEF Erase, Fail
<1>3. CASE Hazard(x) = "none"
  <2> DEFINE o == [object[x] EXCEPT !.used = @ - 1]
  <2>1. object[x].state = "live" /\ View(x) = [live |-> TRUE, dict |-> Contents(x)]
    BY <1>1, <1>3, LiveView DEF IInv, Erase
  <2>2. /\ array' = [array EXCEPT ![object[x].buckets].kvps = [@ EXCEPT ![k] = NULL]]
        /\ object' = [object EXCEPT ![x] = o]
    BY <1>3 DEF Erase
  <2>3. /\ object'[x].state = "live" /\ object'[x].buckets = object[x].buckets
        /\ object[x].buckets \in Arrays
    BY <1>1, <2>1, <2>2, KvpsType DEF IInv, HeapInv, TypeInv, ObjectFields
  <2>4. Contents(x)' = [Contents(x) EXCEPT ![k] = NULL]
    BY <2>2, <2>3 DEF IInv, HeapInv, TypeInv, Blocks, Contents
  <2>5. View(x)' = [live |-> TRUE, dict |-> [Contents(x) EXCEPT ![k] = NULL]]
    BY <2>3, <2>4 DEF View
  <2>6. \A a \in Arrays : array'[a] # array[a] => a = object[x].buckets \/ array[a].status = "none"
    BY <2>2 DEF IInv, HeapInv, TypeInv
  <2>7. \A y \in Maps \ {x} : View(y)' = View(y)
    BY <1>1, <2>2, <2>6, OthersSame DEF IInv
  <2>8. View(x).live /\ View(x)' = [View(x) EXCEPT !.dict = [@ EXCEPT ![k] = NULL]]
    BY <2>1, <2>5, ViewPut
  <2>. QED BY <2>7, <2>8, OneStep
<1>. QED BY <1>2, <1>3

\* Copying shows when it is complete.
LEMMA CopyStartStep ==
  ASSUME IInv, NEW x \in Maps, NEW y \in Maps, Copy(x, y) \/ Assign(x, y)
  PROVE  [Abstract!Next]_AbstractValue /\ CopiedInv'
<1>1. x \in Objects /\ y \in Objects /\ TEMP \in Objects /\ Maps \subseteq Objects /\ Idle
  BY DEF Objects, Copy, Assign
<1>2. CASE Hazard(y) # "none"
  <2>1. UNCHANGED <<object, array, doing>>
    BY <1>2 DEF Copy, Assign, Fail
  <2>. QED BY <1>1, <2>1, FailStep DEF CopiedInv, Idle
<1>3. CASE Hazard(y) = "none"
  <2>0. CASE ReadBehind(y)
    <3>1. UNCHANGED <<object, array, doing>>
      BY <2>0 DEF ReadBehind, Fail
    <3>. QED BY <1>1, <3>1, FailStep DEF CopiedInv, Idle
  <2> SUFFICES ASSUME ~ ReadBehind(y) PROVE [Abstract!Next]_AbstractValue /\ CopiedInv'
    BY <2>0
  <2>1. PICK z \in {x, TEMP} : CopyStart(x, z, y) /\ object[z].state = "none"
    <3>1. object[TEMP].state = "none"
      BY <1>1 DEF IInv, CopyInv, Idle
    <3>. QED BY <1>3, <3>1 DEF Copy, Assign
  <2>2. PICK zero \in BOOLEAN : array' = [array EXCEPT ![Fresh] = Block(object[y].size, zero, Nothing)]
    BY <2>1 DEF CopyStart
  <2> DEFINE o == [state |-> "building", buckets |-> Fresh, size |-> object[y].size, used |-> 0]
  <2>3. /\ Unused # {} /\ object' = [object EXCEPT ![z] = o]
        /\ doing' = [self |-> x, into |-> z, from |-> y, thrown |-> FALSE,
                     todo |-> {k \in Keys : Contents(y)[k] # NULL}]
    BY <2>1 DEF CopyStart
  <2>4. Fresh \in Arrays /\ array[Fresh].status = "none" /\ object[y].buckets # Fresh
    BY <1>1, <2>3, FreshIsUnused DEF IInv
  <2>5. object[y].state = "live"
    BY <1>1, <1>3, LiveView DEF IInv, Copy, Assign
  <2>6. \A a \in Arrays : array'[a] # array[a] => a = object[z].buckets \/ array[a].status = "none"
    BY <2>2, <2>4 DEF IInv, HeapInv, TypeInv
  <2>7. \A w \in Objects \ {z} :
          /\ View(w)' = View(w) /\ object'[w] = object[w]
          /\ object[w].buckets # NULL => array'[object[w].buckets] = array[object[w].buckets]
    BY <1>1, <2>1, <2>3, <2>6, OthersSame DEF IInv
  <2>8. object'[z].state = "building" /\ object'[z].buckets = Fresh /\ y # z
    BY <1>1, <2>1, <2>3, <2>5 DEF IInv, HeapInv, TypeInv
  <2>9. View(z)' = View(z)
    BY <1>1, <2>1, <2>8, NoView
  <2>10. [Abstract!Next]_AbstractValue
    BY <1>1, <2>7, <2>9, StutterStep
  <2>11. KvpsOf(z)' = Nothing
    BY <2>2, <2>4, <2>8 DEF IInv, HeapInv, TypeInv, KvpsOf, Block
  <2>12. KvpsOf(y)' = Contents(y)
    <3>1. object[y].buckets # NULL
      BY <1>1, <2>5, KvpsType DEF IInv
    <3>. QED BY <1>1, <2>7, <2>8, <3>1 DEF KvpsOf, Contents
  <2>13. \A k \in Keys \ doing'.todo : KvpsOf(z)'[k] = KvpsOf(y)'[k]
    BY <2>3, <2>11, <2>12 DEF Nothing
  <2>14. doing'.into = z /\ doing'.from = y
    BY <2>3
  <2>15. CopiedInv'
    <3>1. object'[doing'.into].state = "building"
      BY <2>8, <2>14
    <3>2. \A k \in Keys \ doing'.todo : (KvpsOf(doing.into)')[k] = (KvpsOf(doing.from)')[k]
      BY <2>13, <2>14 DEF KvpsOf
    <3>. QED BY <3>1, <3>2 DEF CopiedInv
  <2>. QED BY <2>10, <2>15
<1>. QED BY <1>2, <1>3

\* The exception is swallowed; the object it leaves is no map any more.
LEMMA CopyThrowStep ==
  ASSUME RefInv, CopyThrow
  PROVE  [Abstract!Next]_AbstractValue /\ CopiedInv'
<1>1. PICK x \in Objects : x = doing.into /\ object[x].state = "building" /\ Copying
  BY WhileCopying DEF RefInv, CopyThrow
<1> DEFINE o == [object[x] EXCEPT !.state = "broken"]
<1>2. /\ array' = [array EXCEPT ![object[x].buckets] = Freed(Abandoned)]
      /\ object' = [object EXCEPT ![x] = o]
      /\ doing' \in {doing, NoCopy}
  BY <1>1 DEF CopyThrow, Complete
<1>3. object'[x].state = "broken"
  BY <1>2 DEF RefInv, IInv, HeapInv, TypeInv, ObjectFields
<1>4. \A a \in Arrays : array'[a] # array[a] => a = object[x].buckets \/ array[a].status = "none"
  BY <1>2 DEF RefInv, IInv, HeapInv, TypeInv
<1>5. \A y \in Objects \ {x} : View(y)' = View(y)
  BY <1>2, <1>4, OthersSame DEF RefInv, IInv
<1>6. View(x)' = View(x)
  BY <1>1, <1>3, NoView
<1>7. [Abstract!Next]_AbstractValue
  <2>1. Maps \subseteq Objects
    BY DEF Objects
  <2>. QED BY <1>5, <1>6, <2>1, StutterStep
<1>8. CopiedInv'
  <2>1. CASE doing' = doing
    BY <1>1, <1>3, <2>1 DEF CopiedInv
  <2>2. CASE doing' = NoCopy
    BY <2>2 DEF CopiedInv
  <2>. QED BY <1>2, <2>1, <2>2
<1>. QED BY <1>7, <1>8

\* The copy constructor returns: the new map has the contents of the original.
LEMMA CopyEndStep ==
  ASSUME RefInv, CopyEnd
  PROVE  [Abstract!Next]_AbstractValue /\ CopiedInv'
<1>1. PICK x \in Objects, y \in Objects :
        /\ x = doing.into /\ y = doing.from /\ x # y
        /\ object[x].state = "building" /\ object[y].state = "live"
        /\ x # TEMP => object[TEMP].state = "none"
  BY WhileCopying DEF RefInv, CopyEnd
<1>2. CASE Hazard(x) # "none"
  <2>1. UNCHANGED <<object, array, doing>>
    BY <1>1, <1>2 DEF CopyEnd, Fail
  <2>. QED BY <2>1, FailStep DEF RefInv, CopiedInv, KvpsOf
<1>4. CASE doing' = [doing EXCEPT !.thrown = TRUE] /\ UNCHANGED <<object, array>>
  <2>1. doing'.into = doing.into /\ doing'.from = doing.from /\ doing'.todo = doing.todo
    <3>1. doing \in [self : Maps \cup {NULL}, into : Objects, from : Objects, todo : SUBSET Keys,
                     thrown : BOOLEAN]
      BY DEF RefInv, IInv, CopyTypeInv
    <3>. QED BY <1>4, <3>1
  <2>2. doing # NoCopy
    BY DEF CopyEnd, Copying
  <2>. QED BY <1>4, <2>1, <2>2, FailStep DEF RefInv, CopiedInv, KvpsOf
<1>3. CASE Complete("live") /\ UNCHANGED <<array, inserting, fault>>
  <2> DEFINE o == [object[x] EXCEPT !.state = "live"]
  <2>1. /\ array' = array /\ object' = [object EXCEPT ![x] = o]
        /\ doing' = IF x = TEMP THEN doing ELSE NoCopy
        /\ doing # NoCopy /\ doing.todo = {}
    BY <1>1, <1>3 DEF CopyEnd, Complete, Copying
  <2>2. /\ object'[x].state = "live" /\ object'[x].buckets = object[x].buckets
        /\ \A z \in Objects \ {x} : object'[z] = object[z]
    BY <2>1 DEF RefInv, IInv, HeapInv, TypeInv, ObjectFields
  <2>3. KvpsOf(x) = KvpsOf(y)
    <3>1. \A k \in Keys : KvpsOf(x)[k] = KvpsOf(y)[k]
      BY <1>1, <2>1 DEF RefInv, CopiedInv
    <3>2. KvpsOf(x) \in Dicts /\ KvpsOf(y) \in Dicts
      BY <1>1, KvpsType DEF RefInv, IInv
    <3>. QED BY <3>1, <3>2 DEF Dicts
  <2>4. KvpsOf(x)' = KvpsOf(x) /\ KvpsOf(y)' = KvpsOf(y)
    BY <1>1, <2>1, <2>2 DEF KvpsOf
  <2>5. \A z \in Objects \ {x} : View(z)' = View(z)
    BY <2>1, <2>2, SameView DEF RefInv, IInv
  <2>6. CASE x = TEMP
    <3>1. [Abstract!Next]_AbstractValue
      <4>1. Maps \subseteq Objects \ {x}
        BY <2>6, ObjectsAssumption DEF Objects
      <4>. QED BY <2>5, <4>1, StutterStep
    <3>2. CopiedInv'
      <4>1. doing'.into = x /\ doing'.from = y
        BY <1>1, <2>1, <2>6
      <4>2. KvpsOf(doing.into)' = KvpsOf(doing.from)'
        BY <2>3, <2>4, <4>1 DEF KvpsOf
      <4>. QED BY <2>2, <4>1, <4>2 DEF CopiedInv
    <3>. QED BY <3>1, <3>2
  <2>7. CASE x # TEMP
    <3>1. x \in Maps /\ y \in Maps /\ Maps \subseteq Objects
      BY <1>1, <2>7 DEF Objects
    <3>2. View(y).live /\ View(x)' = View(y)
      <4>1. Contents(x)' = KvpsOf(x)' /\ Contents(y) = KvpsOf(y)
        BY DEF Contents, KvpsOf
      <4>. QED BY <1>1, <2>2, <2>3, <2>4, <4>1 DEF View
    <3>3. Abstract!Next
      BY <2>5, <3>1, <3>2, OneStep
    <3>. QED BY <2>1, <2>7, <3>3 DEF CopiedInv
  <2>. QED BY <2>6, <2>7
<1>. QED BY <1>1, <1>2, <1>3, <1>4 DEF CopyEnd

\* operator= returns: *this shows what the original shows, or nothing if the copy failed.
LEMMA AssignEndStep ==
  ASSUME RefInv, AssignEnd
  PROVE  [Abstract!Next]_AbstractValue /\ CopiedInv'
<1>0. TEMP \in Objects /\ TEMP \notin Maps /\ Maps \subseteq Objects
  BY ObjectsAssumption DEF Objects
<1>1. PICK x \in Maps, y \in Objects :
        /\ x = doing.self /\ y = doing.from /\ y # TEMP /\ object[y].state = "live"
        /\ doing # NoCopy /\ doing.into = TEMP /\ Exists(TEMP) /\ Exists(x)
  <2>1. doing # NoCopy /\ doing.into = TEMP /\ Exists(TEMP)
    BY DEF AssignEnd
  <2>. QED BY <2>1 DEF RefInv, IInv, CopyInv, Exists
<1>2. CASE Hazard(x) # "none"
  <2>1. UNCHANGED <<object, array, doing>>
    BY <1>1, <1>2 DEF AssignEnd, Fail
  <2>. QED BY <2>1, FailStep DEF RefInv, CopiedInv, KvpsOf
<1>3. CASE Hazard(x) = "none"
  <2> DEFINE b == object[x].buckets
  <2>1. /\ object' = [Swapped(x, TEMP) EXCEPT ![TEMP] = NoObject]
        /\ array' = [array EXCEPT ![b] = FreedBlock]
        /\ doing' = NoCopy
    BY <1>1, <1>3 DEF AssignEnd
  <2>2. View(x).live
    BY <1>0, <1>1, <1>3, LiveView DEF RefInv, IInv
  <2>3. object'[x] = object[TEMP] /\ \A z \in Maps \ {x} : object'[z] = object[z]
    BY <1>0, <2>1 DEF RefInv, IInv, HeapInv, TypeInv, Swapped
  <2>4. \A z \in Objects \ {x} : object[z].buckets # NULL => array'[object[z].buckets] = array[object[z].buckets]
    <3>1. \A z \in Objects \ {x} : object[z].buckets # NULL =>
            object[z].buckets \in Arrays /\ object[z].buckets # b
      BY <1>0, <1>1, ObjectsAssumption DEF RefInv, IInv, HeapInv, TypeInv, Apart, ObjectFields
    <3>. QED BY <2>1, <3>1 DEF RefInv, IInv, HeapInv, TypeInv
  <2>5. \A z \in Maps \ {x} : View(z)' = View(z)
    BY <1>0, <2>3, <2>4, SameView DEF RefInv, IInv
  <2>6. CASE object[TEMP].state = "live"
    <3>1. y \in Maps /\ View(y) = [live |-> TRUE, dict |-> KvpsOf(y)]
      BY <1>1 DEF Objects, View, KvpsOf, Contents
    <3>2. KvpsOf(TEMP) = KvpsOf(y)
      BY <1>1, <2>6 DEF RefInv, CopiedInv
    <3>3. object[TEMP].buckets # NULL
      BY <1>0, <2>6, KvpsType DEF RefInv, IInv
    <3>4. Contents(x)' = KvpsOf(TEMP)
      BY <1>0, <1>1, <2>3, <2>4, <3>3 DEF Contents, KvpsOf
    <3>5. View(x)' = [live |-> TRUE, dict |-> KvpsOf(TEMP)]
      BY <2>3, <2>6, <3>4 DEF View
    <3>6. View(y).live /\ View(x)' = View(y)
      BY <3>1, <3>2, <3>5
    <3>. QED BY <2>1, <2>5, <3>1, <3>6, OneStep DEF CopiedInv
  <2>7. CASE object[TEMP].state # "live"
    <3>1. View(x)' = Abstract!NoObject
      BY <2>3, <2>7 DEF View, Nothing, Abstract!NoObject, Abstract!Empty
    <3>. QED BY <2>1, <2>2, <2>5, <3>1, OneStep DEF CopiedInv
  <2>. QED BY <2>6, <2>7
<1>. QED BY <1>2, <1>3

LEMMA SwapStep ==
  ASSUME IInv, NEW x \in Maps, NEW y \in Maps, SwapWith(x, y)
  PROVE  Abstract!Next
<1>1. object' = [object EXCEPT ![x] = object[y], ![y] = object[x]] /\ array' = array
  BY DEF SwapWith, Swapped
<1>2. /\ Maps \subseteq Objects /\ object'[y] = object[x]
      /\ object'[x] = object[y]
      /\ \A z \in Maps \ {x, y} : object'[z] = object[z]
  BY <1>1 DEF IInv, HeapInv, TypeInv, Objects
<1>3. View(x)' = View(y) /\ View(y)' = View(x) /\ \A z \in Maps \ {x, y} : View(z)' = View(z)
  BY <1>1, <1>2 DEF View, Contents
<1>4. AbstractValue' = [AbstractValue EXCEPT ![x] = AbstractValue[y], ![y] = AbstractValue[x]]
  <2>1. \A z \in Maps : AbstractValue[z] = View(z) /\ AbstractValue'[z] = View(z)'
    BY ValueOf
  <2>2. AbstractValue = [z \in Maps |-> AbstractValue[z]] /\ AbstractValue' = [z \in Maps |-> AbstractValue'[z]]
    BY DEF AbstractValue
  <2>. QED BY <1>3, <2>1, <2>2
<1>. QED BY <1>4 DEF Abstract!Next, Abstract!Swap

LEMMA EqualStep ==
  ASSUME NEW x \in Maps, NEW y \in Maps, Equal(x, y)
  PROVE  UNCHANGED <<object, array, doing>>
BY DEF Equal, ReadBehind, Fail, vars

LEMMA RefStep ==
  ASSUME RefInv, [Next]_vars
  PROVE  [Abstract!Next]_AbstractValue /\ CopiedInv'
<1>1. CASE UNCHANGED <<object, array, doing>>
  BY <1>1, FailStep DEF RefInv, CopiedInv, KvpsOf
<1>2. ASSUME NEW x \in Maps, Construct(x) \/ Clear(x) \/ Destroy(x)
      PROVE  [Abstract!Next]_AbstractValue /\ CopiedInv'
  <2>1. Idle /\ doing' = doing
    BY <1>2 DEF Construct, Clear, Destroy, Fail
  <2>. QED BY <1>2, <2>1, ConstructStep, GoneStep DEF RefInv, CopiedInv, Idle
<1>3. ASSUME NEW x \in Maps, NEW k \in Keys, Erase(x, k)
      PROVE  [Abstract!Next]_AbstractValue /\ CopiedInv'
  <2>1. Idle /\ doing' = doing
    BY <1>3 DEF Erase, Fail
  <2>. QED BY <1>3, <2>1, EraseStep DEF RefInv, CopiedInv, Idle
<1>4. ASSUME NEW x \in Maps, NEW y \in Maps, Copy(x, y) \/ Assign(x, y)
      PROVE  [Abstract!Next]_AbstractValue /\ CopiedInv'
  BY <1>4, CopyStartStep DEF RefInv
<1>5. ASSUME NEW x \in Maps, NEW y \in Maps, SwapWith(x, y)
      PROVE  [Abstract!Next]_AbstractValue /\ CopiedInv'
  <2>1. Idle /\ doing' = doing
    BY <1>5 DEF SwapWith
  <2>. QED BY <1>5, <2>1, SwapStep DEF RefInv, CopiedInv, Idle
<1>6. ASSUME NEW x \in Maps, NEW y \in Maps, Equal(x, y)
      PROVE  [Abstract!Next]_AbstractValue /\ CopiedInv'
  BY <1>1, <1>6, EqualStep
<1>7. CASE Place \/ Extend \/ ExtendFails \/ InsertThrows \/ CopyThrow \/ CopyEnd \/ AssignEnd
  BY <1>7, PlaceStep, RoundStep, CopyThrowStep, CopyEndStep, AssignEndStep
<1>9. CASE (\E x \in Maps, k \in Keys, v \in Values : Insert(x, k, v)) \/ \E k \in Keys : CopyOne(k)
  BY <1>1, <1>9 DEF Insert, CopyOne, Fail
<1>8. CASE UNCHANGED vars
  BY <1>1, <1>8 DEF vars
<1>. QED BY <1>2, <1>3, <1>4, <1>5, <1>6, <1>7, <1>8, <1>9 DEF Next

\* Maps are values: whatever is constructed, copied, assigned, swapped, cleared or
\* destroyed, each map shows what an independent value under the same calls would;
\* a copy that threw, and a map after clear(), have lost theirs.
THEOREM MapsAreValues == Spec => ImplementsValues
<1>1. Init => CopiedInv /\ Abstract!Init
  <2> SUFFICES ASSUME Init PROVE CopiedInv /\ Abstract!Init
    OBVIOUS
  <2>1. CopiedInv
    BY DEF Init, CopiedInv
  <2>2. \A x \in Maps : View(x) = Abstract!NoObject
    BY DEF Init, NoObject, Objects, View, Nothing, Abstract!NoObject, Abstract!Empty
  <2>3. Abstract!Init
    BY <2>2 DEF Abstract!Init, AbstractValue
  <2>. QED BY <2>1, <2>3
<1>2. IInv /\ CopiedInv /\ [Next]_vars => [Abstract!Next]_AbstractValue /\ CopiedInv'
  BY RefStep DEF RefInv
<1>. QED BY <1>1, <1>2, AlwaysIInv, PTL DEF Spec, ImplementsValues, Abstract!Spec
===============================================================================
