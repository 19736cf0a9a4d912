# Models of nanahan

TLA+ models, TLC runs and TLAPS proofs for the header-only C++ library *nanahan*:
a hopscotch hash map, two schemes for deferred memory reclamation (qsbr) and a
concurrent stack. All definitions are translated from the source; paths below are
relative to the repository, line numbers are in `PROJECT.json` under `map`.

## 1. Inventory

### Map (`map/map.hpp`)

A single-threaded hopscotch hash map.

* **State.** `buckets_`, an array of `bucket_size_` buckets, and `used_size_`. A bucket
  is a slot word (bit 0: used; bit j+1: the element at distance j is one of mine) and raw
  storage for a pair. A pair lies at most `SLOTSIZE-1` (14) buckets after its home bucket,
  with wrap-around.
* **Operations.** `insert` (find, probe for an empty bucket, displace elements until the
  empty bucket is close enough, place), `bucket_extend` (rehash into a map twice as large,
  or larger, swap, insert again), `find`, `erase(iterator)`; on whole objects copy,
  assignment, `swap`, `clear`, `operator==`, destruction; iterators in both directions;
  the word arithmetic `bitcount`, `ntz`, `forward` and the bucket's bit operations.
* **Interaction.** The map calls the hash functor, the pair's copy constructor (which may
  throw) and `malloc`. `bucket_extend` is a client of the map's own iterator and of a
  second map object; so are the copy constructor and `operator=`.
* **Hard.** The displacement chain, wrap-around arithmetic, exceptions halfway through a
  rehash or a copy, a rehash that fails and is retried, recursion of `insert`, exhaustion,
  who owns an array after a call that did half its work, shifts by the whole word.
* **Correct when** hop bits and elements agree in every intermediate state, each call
  behaves like a dictionary's, `size()` is exact, asserts hold, insertion ends; every array
  has one owner and is freed once; a walk passes over no pair; `find` looks at exactly the
  pairs its word names.

### qsbr (`memory/qsbr_persist.hpp`)

Quiescent-state-based reclamation: readers enter and leave a `ref_guard`; what they
unlink is handed to `safe_free` and freed when no reader can still hold it.

* **State.** A list of `clock_chain` nodes (one per thread, the clock it announced),
  `center_clock_`, a list of `delete_pending_chain` nodes behind `pending_head_`,
  `chain_length_`, `deleting_lock_`, and thread-specific storage.
* **Operations.** `ref_guard()` / `set_active` / `new_chain`, `~ref_guard` /
  `set_quiescence` / `attemt_delete` / `scan_least_clock`, `safe_free`, `~qsbr`.
* **Interaction.** Threads share everything above by atomics; only pruning takes a lock.
  The clients are data structures like the stack, which must unlink before `safe_free`.
* **Hard.** Every interleaving of loads, stores and compare-and-exchange; pruning
  while others push; a length that is counted late and subtracted late; unchecked pointers.
* **Correct when** nothing a guarded thread can reach is freed, the list neither loses
  nor repeats nodes, pruning never follows a missing node, the length settles, operations
  end, and destruction frees the rest.

### qsbr, in-place variant (`memory/qsbr.hpp`)

The same scheme, but `safe_free` destroys the object at once and makes its memory
the chain node; `attemt_delete` first moves the nodes it may delete to a chain of its own
and deletes them in a second loop. **Hard:** `next_` serves both chains, and others push
meanwhile. **Correct when** a node is on one chain at a time and every destructed object is
freed once.

### qsbr test (`memory/qsbr_test.cpp`)

The client of the qsbr in the repository: workers look at each other's objects in a
shared vector, take their own out and hand it over; `main` joins them and destroys the qsbr.

### Stack (`stack/stack.hpp`)

A stack announced as concurrent and wait-free: each thread publishes its operation in
`states_`, threads help the older ones, nodes are reclaimed through qsbr.

* **State.** `head_`, an array `states_` of descriptors (thread, phase, pending, push or pop,
  node), per node `next_` and a `winner_` mark (the index of the thread whose operation owns
  the node, negated when a push is nearly done).
* **Operations.** `push`, `pop`, `max_phase`, `help`, `scan`, `help_push`, `help_pop`, `finish`,
  `~Stack`.
* **Interaction.** Through `states_` and `head_`; `ref_guard` around each operation and
  `safe_free` of descriptors and nodes.
* **Hard.** Late helpers, three locations that change one after the other for one
  operation, which of the helpers retires what, the empty stack, negative marks used as an
  index.
* **Correct when** every operation takes effect at one moment, whoever does it; a
  descriptor and a node are retired once and never used afterwards; `pop` has seen the
  operations before it done; an operation ends wherever the other threads stop.

### Stack: thread indices and test program (`get_index`, `stack/stack.cpp`)

A thread gets its slot of `states_` on its first call; a static map shared by all stacks
binds the index to the thread. `main` makes one stack after the other, each with threads of its
own.

### The rest

`memory/crisp.h` and `memory/rental.h` are unfinished fragments nobody includes. The map's tests
(`map/test_map.cc`, `map/endless_test.cc`) and the benchmark show how the map is used; they
are the source of its clients' behaviour.

## 2. Plan

| Step | Modules | Purpose |
|------|---------|---------|
| done | `Dictionary`, `HopscotchTable`, `HopscotchTable_proof` | the map's operations implement a dictionary |
| done | `Qsbr`, `Qsbr_proof` | reclamation, one step per shared access |
| done | `Lifo`, `Stack`, `Stack_proof`, `StackLifo_proof` | the stack at the same grain over a linearizable LIFO; helping, reclamation of what it retires, progress |
| done | `StackThreads`, `StackThreads_proof` | where the stack's thread indices come from |
| done | `StackWork` | the stack's test program, over `Stack` |
| done | `MapValues`, `MapObjects`, `MapObjects_proof` | ownership of arrays and pairs over maps that are values |
| done | `MapIterator`, `MapIterator_proof` | walks in both directions, with erasures |
| done | `SlotWord`, `SlotWord_proof` | slot words, `bitcount`, `ntz` and `find`'s walk, over every word |
| done | `QsbrInPlace`, `QsbrTest` (proofs in `Qsbr_proof`) | the variant, and the test program, over `Qsbr` |

## 3. Modules

Interplay: `QsbrInPlace` and `QsbrTest` extend `Qsbr`, `StackWork` extends `Stack`, and run its actions as they are.
`HopscotchTable` refines `Dictionary`, `MapObjects` refines `MapValues`, `Stack` refines `Lifo`.
`MapObjects` and `MapIterator` take from `HopscotchTable` that a table holds the pairs it should;
`HopscotchTable` takes from `SlotWord` that a slot word is a set of distances; `Stack` takes from
`StackThreads` that threads have slots of their own. When `safe_free` frees is the matter of `Qsbr`;
`Stack` takes no promise from it, and records which threads are inside their guards since an object was handed over.

### `Dictionary`

What a caller of the map relies on: a partial function, with `Insert`, `InsertThrows`
(nothing changes), `Find`, `Erase`, each one step with a response. It is the abstract
specification of `HopscotchTable`.

### `HopscotchTable`

A table of n buckets is a function on `0..n-1`; a bucket is a record of `used`, `hops` (the
hop bits as a set of distances) and `kvp`. `pc` says where a running `insert` is.

| Code | Actions and operators |
|------|------------------------|
| `insert` 445-511 | `InsertCall`, `InsertPresent`, `InsertProbe`, `InsertNoEmpty`, `InsertSwap`, `InsertGiveUp`, `InsertPlace`, `InsertThrow` |
| `swap_to_closer_bucket` 634-666 | `Movable`, `FirstMovable`, `Moved`: farthest bucket first, nearest element first |
| `bucket_extend` 512-563 | `ExtendBegin`, `RehashProbe`, `ExtendRetry`, `ExtendEnd` |
| `insert_unsafe` 732-770 | `RehashProbe`, `MoveSwap`, `MovePlace`, `MoveThrow`, `InsertUnsafeFails` |
| `find`, `erase` | `FindKey`, `Erase` |
| iterator `operator++` | `NextUsed` |

One step is one iteration of a loop; the map is single-threaded, so the grain matters
only for what holds *between* the iterations (asserts, the strong guarantee, a throw or
an exhaustion between two displacements). `NewMap` crashes when `malloc` returns
NULL, because the constructor writes through it (331-337).

Preconditions, stated as assumptions: the initial size is a power of two (`locate` masks
with `bucket_size_ - 1`; nothing in the code tests this, every caller respects it), and
`SLOTSIZE`, `HOP_RANGE` are positive. An exception is thrown by the copy of a pair: at the
end of the displacement loop, where the code copies pairs (499 and `sanity_check`), and
in `insert_unsafe`. `erase` is called with an iterator to an element.

### `MapValues`, `MapObjects`

`object[x]` has the fields of a map object, `array[a]` what `malloc` returned: its length,
whether its slots were cleared, and the pairs alive in it. Where in an array a pair lies is
`HopscotchTable`'s matter; whether an insertion must extend, and whether a new map takes all pairs, is left
open here, but for a full array, which must be extended, an empty map, which need not, and a first pair, which always fits.
An `insert` is under way (`inserting`) until its pair is put or something throws; a copy is
under way (`doing`) until the object is complete, and its insertions run as those of a caller do.

| Code | Actions |
|------|---------|
| `Map(size)` 328-338 | `Construct` |
| copy constructor 380-398 | `Copy`, `CopyStart`, `CopyOne` (begins the insertion of a pair), `CopyThrow`, `CopyEnd` (with the closing `sanity_check`, which copies pairs too and may throw) |
| `operator=` 399-403 | `Assign` (a copy into the local `TEMP`), `AssignEnd` |
| `swap`, `operator==` | `SwapWith`, `Equal` |
| `insert` 445-511 | `Insert`, `Place`, `InsertThrows` |
| `bucket_extend` 512-563 | `Extend` (after which `insert` begins again, 472), `ExtendFails` (the retry 535-537 with a map twice as large), `InsertThrows` |
| `erase` | `Erase` |
| `begin()` of an empty map 680-684 | `ReadBehind` |
| `clear`, `~Map` | `Clear`, `Destroy` |

A call whose defect is in the code is modelled with it: `CopyThrow` frees the array and returns
an object, `Clear` installs the freed array, `CopyStart` takes what `malloc` returns for zeroes
or not, `Equal` reads behind the end, and `Copy`, `Assign` and `Equal` of a map without pairs begin with a read of
the slot behind its array (`ReadBehind`; it may be noticed or go unnoticed). `fault` stops the program where it would read freed or
unwritten memory. The states `"broken"` and `"leaked"` are annotations of the model, to say which
object a fault is about, and `kvps` of a freed block holds the pairs nobody has destroyed. `malloc` is taken to
succeed as long as the bounds `Arrays` and `MaxSize` allow.

### `MapIterator`

A cursor is a bucket index, `SIZE` is `end()`. `Begin`/`Dereference`/`Increment` are a forward
loop, `AtEnd`/`Decrement` a backward one; `Erase` takes pairs out under or around the
cursor. Nothing is inserted during a walk: that displaces pairs and makes cursors stale. `cbegin`
reads the word behind the array of an empty map (682-684): `First` takes any bit for it.

### `SlotWord`

Words are integers of `W` bits; a shift is a number of doublings or halvings, written as a recursive
function so that theorems can be stated about it, and `SetBit` and `ClearBit` add or subtract the power of two.
`Bits` is the set of the positions that a shift brings to the lowest bit as a one. `FindStep` is one round of `find`'s loop with its shift and its
pointer. A shift by the whole width, undefined in C++, gives zero here: the word is zero then,
and any shift of it is. `to_bitarray` only formats and is left out.

### `Qsbr`

`pc[t]` is the place of thread t; between two places lies exactly one access to shared
memory. The thread's locals are `old` (the value its compare-and-exchange expects),
`mine`, `least`, `ptr`, `prev`, `deleted`. An object and the pending node made for it
are identified, so are a thread and its clock node.

| Code | Actions |
|------|---------|
| `set_active`, `new_chain` | `Enter`, `Register`, `LinkClock`, `LoadClock`, `StoreClock` |
| `safe_free` | `Stamp`, `LoadHead`, `Push`, `Count` |
| `~ref_guard`, `attemt_delete` | `Leave`, `CheckLength`, `TryLock`, `RecheckLength`, `ScanHead`, `ScanClock`, `LoadPending`, `Prune`, `EndPrune`, `Subtract`, `Unlock` |
| `~qsbr` | `Destroy` |
| clients (`qsbr_test.cpp`, `stack.hpp`) | `Acquire`, `Unlink` |

The scan runs before the head of the pending list is loaded, as in the code (101-103), and
compares with `least < got`, as in the code (203). Memory order is sequentially consistent:
the code uses the default order of its atomics. The reuse of a freed node's address by a later
allocation is left out: a push that compares equal to a reused head links to the node that is
the head now, which is what it means to do. Guards are not nested (no client nests them; the
inner destructor would announce quiescence for the outer guard as well).

### `QsbrInPlace`, `QsbrTest`

`QsbrInPlace` replaces `Unlink` by `UnlinkAndDestruct`, `Prune` by `Move` (first loop) and
`FreeDecided` (second loop), and takes all other actions from `Qsbr` (`Shared`). That a guarded
reader sees a destructed object is this variant's design, so `GuardedRefsLive` is no property
of it. `QsbrTest` drives `Qsbr` by `test_func` and `main`: `Start`, `Look`, `Load`, `Read`,
`TakeOut`, `End`, `Join`; the barrier and the random number of turns order nothing and are left
out. `Load` reads the vector anew after `Look` has tested it (41-43), and the program stops if
the place was cleared in between.

### `Lifo`, `Stack`, `StackThreads`, `StackWork`

`Lifo` says that an operation takes effect in one step between call and return. In `Stack` each
atomic access is a step; `me[t]` holds the locals of the thread's calls, `me[t].f.back` the
place `finish` returns to.

| Code | Actions |
|------|---------|
| `push`, `pop` 149-302 | `CallPush`, `CallPop`, `LoadPhase`, `ReadPhase`, `LoadOld`, `Announce`, `PushNext`, `PushClear`, `PopAssert`, `PopReturn` |
| `help`, `scan` 391-400, 546-558 | `Scan`, `Dispatch` |
| `help_push` 222-267 | `PushHead` ... `PushWin`, `FirstLoad`, `FirstDone`, `PushWhile` |
| `help_pop` 335-374 | `PopHead` ... `PopWin`, `PopWhile` |
| `finish` 402-470 | `FinishHead` ... `SameState`; for a push `PushStays` ... `PushUnmark`, for a pop `PopNext` ... `PopSwing` |
| `~Stack` 504-519 | `Destroy` |

The file as committed does not compile: `minus_tid` is used (429) before it is declared (441);
the model reads it as declared before. `is_still_pending` and `load_phase` read a slot twice
until the reads agree; the first is one read here, the second two. `safe_free` (`Retire`, `memory/qsbr_persist.hpp`
133-153) puts an object on the pending list; the model remembers which threads have been inside their guards from then
on (`grace`), and relies on nothing more. An instance for TLC hands over at most 32 objects, the number up to which
`attemt_delete` (95) frees none, so that no address is used again within it, whatever the scan of finding 1 returns. In longer
histories the models go on as if an address that is held were not given out again, which is what a working `safe_free` would
see to of threads that are `Covered`; the theorems on the stack's contents speak of those histories. `Descriptor.copy` tells a
descriptor from the one it was made from, as addresses do.

Which calls meet is given by the bounds `Pushers`, `Overlap` and `Spare` (`MayStart`, `MayPop`). They are assumptions about the
program that uses the stack, and milder than `stack/stack.cpp` is: there every thread pushes and then pops without waiting for the
others, and together they drain the stack. `StackWork` is that program (`work` 49-78, `main` 89-103): one `Begin` of `push` for each of the `Tries` turns, then
of `pop`, in each thread at its own pace, with everything overlapping; `Join` ends it with the destructor.

`StackThreads` models `get_index`, one step per call (it holds a lock), under the stacks and
threads of `main`; `pthread_t` values are used again.

The modules `*_proof` hold the theorems of section 6 and the lemmas they rest on, the modules
`MC*` the constants, symmetries and constraints of the runs.

## 4. Runs

| Run | Instance | Shows |
|-----|----------|-------|
| `table_core` | keys 7, 8, 14, 23, 24, 39 hashed to themselves, `SLOTSIZE` 3, `HOP_RANGE` 24, sizes 2 to 16 | the type invariant, `HopInfoExact`, `SizeExact`, `AssertsHold`, `ExtendsOnlyIfCrowded`, refinement of `Dictionary`, `InsertReturns` |
| `table_tight` | four keys, two values, `SLOTSIZE` = `HOP_RANGE` = 2 | the refinement where a doubled table is not large enough and `bucket_extend` starts over |
| `objects_core` | two maps and `TEMP`, four arrays, three keys, two values, arrays of 1 to 8 | `OwnsArray`, `ArraysReclaimed`, `OnlyKnownFaults`, `UndestroyedAreCopies`, refinement of `MapValues` |
| `map_walks` | all tables of six buckets | `DereferencesLive`, `WalksComplete` |
| `slot_words` | words of 8 bits with 5 distances, tables of 2, 4, 8, every home bucket | `WalkInStep`, `MissIsComplete`, `BitcountCounts`, `WordsAreSets` |
| `qsbr_core` | two threads, four objects, threshold 2, words of 16 values, fair | the type invariant, `ChainIntact`, `NeverCrashes`, `PruneCursorsLive`, `LengthAccounts`, `StampsProtect`, `AllReclaimed`, `OperationsFinish` |
| `qsbr_guard` | two threads, three objects | `GuardedRefsLive` is violated (finding 1) |
| `qsbr_inplace` | two threads, four objects | `ListsPartition`, `InPlaceLength`, `DestructedThenFreed` |
| `test_ends` | three workers with an object each | `VectorPointsToLive`, `NothingLeftOver` |
| `stack_pops` | two threads, four pushes, three pops, fair to one thread | `OnlyEmptyPopCrashes`, `HeldCovered`, `EarlierOpsDone`, `DescriptorsKept`, refinement of `Lifo`, `WaitFree` |
| `stack_loop` | `StackWork`: two threads, one push and one pop each | `NoLoop` is violated (finding 2) |
| `threads_slots` | three stacks in turn, three threads each out of four `pthread_t` | `SlotsAreOwned`, `FirstStackNeverAborts` |

**Bounds of the table runs.** `SLOTSIZE` 3 is the least with a displacement that has a choice
(two buckets to look at, two bits in the farther one); the code's ratio `HOP_RANGE = 8 *
SLOTSIZE` is kept in `table_core`. In the table of 8 the keys 7, 23 and 39 share the home bucket 7, the keys 8 and 24
have its neighbour 0, and 14 the one before, so that the windows overlap and wrap around the end. In the table of 16 the
homes are 7 three times, 8 twice, and 14: the five keys of the homes 7 and 8 have four buckets between them, though no home has more keys than
`SLOTSIZE`. Probes, displacements, displacement chains, failed displacements, three extensions, exhaustion and
erasures in between all occur. `MemoryLimit` 16 stands for the `malloc` that returns NULL; those five keys reach it.
With the code's ratio no first doubling fails on instances of this size, so `table_tight` shortens the probe to reach
`ExtendRetry`; the second half of `ExtendsOnlyIfCrowded` (a new map larger than twice the old one only if the probe is
shorter than the table) says when that can happen. One value is enough in `table_core`: the code never looks at values;
`table_tight` has two, to tell an overwritten value from a kept one.

**Bounds of the object runs.** Two maps are what a binary operation takes. Every construction,
copy, extension, failed extension and `clear` uses up an array (one that was freed is never given out again, so
that a stale pointer is seen as such). Four allow two extensions and a copy, two maps and an assignment,
a `clear` in between, or the extensions of an insertion of three keys into an array of 1, the second of which fails when its new map is
half filled and starts over with an array of 8. Maps, keys and values are permuted (`Symmetry`): no action chooses or compares
them, and the properties are safety properties.

**Bounds of `slot_words` and `map_walks`.** The runs are exhaustive over words and tables; 8 bits of
64 keep a word that is a power of two wide, with bits that no distance uses; the tables are
smaller than, as large as, and larger than the reach of the word. `MapIterator_proof` covers
tables of any size, `SlotWord_proof` words of any width, the 64 bits and 15 distances of the code among them.

**Bounds of the qsbr runs.** The threshold is 2 instead of 32: the code keeps the first
two nodes, so a chain of three is the shortest that is pruned, and 2 is the threshold that lets
it be pruned. With four objects a second one is pruned, with pushes in between. `test_ends`
has two threads in the compare-and-exchange loops while a third prunes.
Words have 16 or 8 values instead of 2^64, enough that clocks do not wrap (one tick per
object, `QsbrAssumption`). `chain_length_` could wrap below zero only with more uncounted
pushes than the three nodes of the shortest pruned chain allow two or three threads: the
wrapped values are covered by the theorem `PruningNeverCrashes`, for any number of threads, and
not by a run. Where only invariants are checked threads and objects are permuted (`Symmetric`).
`qsbr_core` has a liveness property, for which symmetry sets are unsound, and numbers its objects instead:
its CONSTRAINT `InOrder` lets them be handed over in the order of their numbers only. Objects are
interchangeable and never return to `"linked"`, so every behaviour is one of these with the
objects renamed; the constraint cuts none short, it only picks which object an `Unlink` takes.

**Bounds of the stack runs.** `stack_pops` has two threads, four pushes and three pops: a thread helps the
other's operation and then does its own, two pops race for one node with a third still to
come, and nodes pushed before, between and behind are popped. It is restricted, and the code does what it should within the
restriction only: `Pushers = {1}` and `Overlap` let pushes run one at a time and not together with a pop; `MayPop` lets pops meet only when
all pushes are done and, by `Spare` 2, on a stack of two elements more than those pops can take; a pop by itself may also come to a
stack of one element or none between the pushes. So a pop never meets the mark of an unfinished push (363-365, the first exchange of `PopWin`), and
no push holds a descriptor from before its guard that another thread retires. None of this is what `stack.cpp` does: with its client
(`stack_loop`) pushes meet, which is finding 2, and pops meet on the last element and read NULL (section 5). Three pops at a time
are out of TLC's reach.

**Deadlock.** `table_core` does not check it, because a process that is out of memory stops;
`table_tight`, `map_walks` and `slot_words` do. In the others nothing is left to do after the
destructor, after a crash, or when the bounds are used up.

**Fairness.** The map has one thread: `WF_vars(Step)` says that a running call goes on.
In `Qsbr`, `WF_vars(Step(t))` for each thread says that the scheduler runs each thread again and
again; nothing is assumed of when clients enter, leave or unlink, so a thread may sit in
its guard for ever. The compare-and-exchange loops are lock-free, not wait-free: a thread's
attempt fails only when another one succeeded. In the model each object is handed over
once, so attempts by others run out; `OperationsFinish` says the loops end then. In `Stack` only
`WF_vars(Step(Survivor))` is assumed: the other thread may stop anywhere inside its operation,
which is what "wait-free" (`stack/stack.hpp:53`) is about. That the other's operations are bounded in
number is the bound of the run, so what is shown is that a stopped thread blocks nobody, not
that a running one cannot be overtaken for ever.

## 5. Findings

1. **`qsbr_guard`** (`memory/qsbr_persist.hpp:203`). `scan_least_clock` starts at `~0` and replaces it
   by a clock when `least_clock < got_clock`, which never holds. The minimum is always `~0`,
   and every pending node behind the first two is freed whoever is inside a guard. TLC's
   trace: one thread takes a reference and stays in its guard, the other hands over three
   objects, leaves, and frees the one the first still holds. `memory/qsbr_test.cpp:43` reads
   through such a reference. The same function has a second hazard that this one
   hides: the clocks are scanned before `pending_head_` is loaded (101-103), so a thread that enters and an object
   that is handed over in between are not covered by the scanned minimum.
2. **`stack_loop`** (`stack/stack.hpp:242`). A push on an empty stack exchanges `head_` (237) before its
   descriptor is finished (242). A helper, or the pushing thread of another push, that finds
   `head_` set and the operation still pending pushes the node again: it becomes its own
   successor. The run shows it of the test program, all of whose threads push at once (`stack/stack.cpp` 59-63). `operator<<` looks for this state and prints "buffer looping!" (495).

What is right in the scheme is checked separately: `StampsProtect` says that the stamps are
such that a true minimum would keep every object a guarded thread can reach.

Further defects are part of the models, and the passing runs say how far they reach:

* **Crowded keys exhaust the memory** (`map.hpp:536`). With `SLOTSIZE` + 1 keys of equal hash no size is
  enough, and as little with 9 and 9 keys of two neighbouring hashes, whose windows have 16 buckets together: `bucket_extend`
  doubles until `malloc` returns NULL, which the constructor writes through. `ExtendsOnlyIfCrowded`: an insertion gives up a table
  the probe reaches all of only if its keys crowd some run of windows (`Crowded`: more keys than buckets within reach, so that no arrangement
  exists) or an erasure, or an exception after a displacement, has left a gap (`HasGap`) that hides one from `swap_to_closer_bucket`.
* **A copy that throws returns an object** (392-396). The buckets are freed, the exception is swallowed
  (the comment says "must throw"), assignment swaps the broken object in. **Copies start from
  uncleared slots** (382). **`clear` keeps the array it frees** and forgets the other one (708-716).
  **`operator==` reads behind the end** when the right side has all pairs of the left and more (411-438).
  **Copying, assigning from or comparing an empty map** reads the slot behind its array in `begin()` before the bound is tested (680-684).
  `OnlyKnownFaults`: the calls run into undefined behaviour for these four reasons only (a freed array, uncleared slots, an empty
  map's `begin()`, the end of a larger right side), and no call carries the damage
  to another map. What goes on inside a call on a sound array is not counted by it: the shift by the full width in `find` (625-626) is `SlotWord`'s.
* **Extension never destroys pairs** (549): neither those of the old array nor the copies in new maps that failed (535-537) or threw.
  `UndestroyedAreCopies`: each of them is a copy of a pair the map still has, also if extensions fail one after the other, and nothing but an extension
  leaves any behind.
* **`pop` of an empty stack** reads through NULL (354) instead of throwing `length_error` (295-298).
  `OnlyEmptyPopCrashes`: without overlapping pushes, and with elements to spare, nothing else crashes. With the client of `stack.cpp`
  it takes no pop too many: a helper that comes to a pop which others have finished, of the last element, reads through NULL. TLC finds it with the constants of
  `stack_loop` and `NoNullHead` (`StackWork`) as the invariant.
* **Two pushes that meet** may also index `states_` with a negative mark (411-414), and fail the assertion
  "something wrong" (172): the helper that has exchanged `head_` loads the descriptor again (239) and exchanges
  whatever it finds by then (242). If it stops after 237 while the operation is finished by its own thread and
  returns, it may replace the descriptor that thread has just loaded for its next push (168).
  TLC finds this with `MCStack`, two threads that both push, `MaxPush` 3, `MaxPop` 0, `Overlap <- Pushes`, `Spare` 0, and `SlotUndisturbed` as the
  invariant of `Spec`. Of the properties
  here `EarlierOpsDone` and, while no pop runs, `DescriptorsKept` hold of them (`Stack_proof`).
* **`push` enters its guard late** (166): it loads descriptors in `max_phase` (153) before. `HeldCovered` (whoever holds what was handed over has been in its
  guard since before that) holds of pops that meet and of pushes that meet nothing, and fails for a push that meets another operation.
* **The binding of `get_index` is static** (134) and its indices belong to one stack: the assertion (141)
  fails on a second stack whose threads come in another order. `FirstStackNeverAborts`: not on the first; it does not exclude the abort of a later one.
* **`qsbr_test.cpp:42-43`** tests a shared pointer and loads it again to read through it: it may be NULL then.

## 6. Proofs

All theorems hold for every value of the constants that satisfies the named assumptions.

### `HopscotchTable_proof`

From `SizesAssumption`, `HashAssumption` and `NullAssumption` (powers of two are not needed: the
model's `Locate` is the remainder).

* `Typing`: `Spec => []TypeOK`
* `HopInfo`: `Spec => []HopInfoExact`
* `SizeIsExact`: `Spec => []SizeExact`
* `Asserts`: `Spec => []AssertsHold`

They follow from one inductive invariant, `TableInv` (`Invariance`). `HopInfoExact` alone is not
inductive: a placement keeps it only if the free bucket is really empty, lies at
`distance` from the home bucket, and the key is not in the table (`DisplaceInv` for
`insert`, `MoveInv` for `insert_unsafe`). For a rehash the last of these follows from
`CarriedInv`: the new map holds only pairs the iterator has passed, and the old map has no key
twice. `CountInv` says it holds as many as were passed, which carries `SizeExact` across
the swap of the bucket arrays. `TypeOK` needs `SizeExact` in turn, because `erase` decrements
`used_size_`.

The argument about tables is in the lemmas: `MovedOK`, `PlacedOK` and `ErasedOK` say what a
displacement, a placement and an erasure do to a consistent table; `OneOwner` that `erase`
finds exactly one hop bit, the one of the home bucket, so that its fallback ("failed to
erase") is never taken; `NotFoundIsAbsent` that a key `find` misses is in no bucket. They
rest on `ForwardRange`, `GapRange`, `BackwardRange` and `CloserForward` about
wrap-around positions. `TableStep` has one case per action.

* `TableIsDictionary`: `Spec => ImplementsDictionary`, the refinement of `Dictionary`.

`Contents` maps a key to the value of the bucket that holds it; `ContentsMoved`, `ContentsPlaced`,
`ContentsErased` and `ContentsFound` say what the three changes of a table do to it, and that a look-up reads it. So a
displacement is a stutter and the placement of the argument the insertion. Two facts more are needed for a
rehash (`RefInv`): the key being inserted is in no bucket (`AbsentInv`), else the
insertion that `bucket_extend` repeats would find it, and the new map holds *every* pair the iterator has passed
(`AllCarriedInv`), else the exchange of the bucket arrays would lose one. `CarriedInv` is the converse
of the latter and says that nothing is added.

### `Qsbr_proof`

From `QsbrAssumption`, for any number of threads, any finite set of objects and any positive
threshold.

* `Typing`: `Spec => []TypeOK`, from `TypeInv`, which adds what the type of a local is at
  each place.
* `StampsAreSound`: `Spec => []StampsProtect`, from `StampInv`: an announced clock is a past
  value of `center_clock_`, references exist only inside a guard and are taken to linked
  objects, which are not stamped yet; a stamp is ahead of the clock when it is given.
* `PruningNeverCrashes`: `Spec => []NeverCrashes`, from `SpineInv`: as long as the chain has fewer than two
  nodes `chain_length_` is at most 1, so nobody gets past the test of the length; once it
  has two, neither pushes nor pruning take it below two (the head is never the target of a
  cursor or of another node). The length may be wrong in between, and wrap, without
  mattering.
* `ChainAlwaysIntact`: `Spec => []ChainIntact`, and `CursorsAlwaysLive`: `Spec => []PruneCursorsLive`.
  `NodeInv` says whose a node is until it is pushed and who holds the lock; `ListInv`
  that the chain consists of live nodes, has no node with two predecessors, and that the cursors of the
  thread that prunes are on it, one behind the other. A push may come between any two
  steps of a pruning: it changes the head and leaves every link the pruning thread relies on
  (`ChainPushed`), and the head is never pruned.
* `EverythingReclaimed`: `Spec => []AllReclaimed`: a live object is on the chain (`Live \subseteq Chain`), so the
  destructor, which walks the chain, frees them all.
* `LengthAlwaysAccounts`: `Spec => []LengthAccounts`, from `LengthInv`, which adds that a thread has
  no deletions to subtract once it is out of the pruning. The counter is unsigned: `WordAdd` and `WordUnique` say that additions and subtractions
  modulo the word commute with those of the true number.

`Chain` is the least set that holds the head and is closed under `next`. `ReachPush`, `ReachPop` and `ReachSkip`
say how it changes when a node is put in front, taken from the front, or unlinked further
down; `LinkedPush` and `LinkedPop` that nodes keep a single predecessor. None of them needs induction over the chain's length.

The next part is about `QsbrInPlace`. Every step but those of the two loops is a step of `Qsbr` (`InPlaceSteps`), so
the lemmas about `Qsbr` are used as they are.

* `ListsAlwaysPartition`: `InPlaceSpec => []ListsPartition`, from `PartInv`: only the thread that
  holds the lock has a chain of its own, its nodes are live and not on the pending chain, and every live object is on
  one of the two. `next_` serves both; that no node has two predecessors is stated for the union.
* `BothAlwaysCounted`: `InPlaceSpec => []InPlaceLength`, from `BothCounted`.
* `DestructedAlwaysFreed`: `InPlaceSpec => []DestructedThenFreed`, from `DestructInv`: the objects destructed are
  those handed over.

The last part is about `QsbrTest`, and takes `OwnObjectAssumption` as well. A step of the program is a step of
`Qsbr` or drops a reference (`TestSteps`).

* `VectorAlwaysLive`: `TestSpec => []VectorPointsToLive`, from `VectorInv`: a place of the vector is empty or
  points to the object of its own worker, still linked; only that worker takes it out, before it hands it over.
* `NothingLeft`: `TestSpec => []NothingLeftOver`: `main` joins all workers first, and a worker that is
  gone has handed its object over, so `AllReclaimed` covers it.

### `MapIterator_proof`

From `SizeAssumption`, for a table of any size.

* `Typing`: `Spec => []TypeOK`
* `WalksAreLive`: `Spec => []DereferencesLive`
* `WalksAreComplete`: `Spec => []WalksComplete`

The inductive invariant `IInv` is their conjunction with `Accounted`: the pairs that are there are
those of the start that were not erased, and a backward walk erases none. Without it "seen or
erased" says nothing of the pairs ahead of the cursor. The lemmas `IncrementStops`,
`DecrementStops` and `FirstStops` say where the loops of `++`, `--` and `cbegin` stop.
`StepIInv` has a case per action; the one that takes thought is `Decrement`: `--` may stop on bucket 0
without looking at it, but then `it` was `begin()` already and the walk over.

### `SlotWord_proof`

From `WordAssumption`, for words of any width (a power of two or not), any number of distances below it, and
tables of any size, also those smaller than the reach of the word.

* `WalksInStep`: `Spec => []WalkInStep`
* `MissesAreComplete`: `Spec => []MissIsComplete`
* `WordsAreAlwaysSets`: `Spec => WordsAreSets`

Two facts about words carry them: `AddsBit` and `ClearsBit`, that adding or subtracting the power of an absent or
present bit changes the set of bits by this one, and `BitsShifted`, that a shift by n moves the set down by n. Both
come from how the n-th halving of a word relates to that of another (`Halvings`, `TwoShifts`). A recursive function is
unfolded by `Iterates`; `UpToW` is induction up to the width, for a set in place of a predicate.

`WalkInStep` is not inductive. `BitsOK` adds that a word names only distances inside the table, without which
two distances could mean one bucket (`Places`). `WalkOK` says which distance g the walk has come to (`WalkAt`): what is
left of the word is the word of the bucket, less what is nearer than g, moved down by g; the pointer is the
bucket at distance g, taken round the end; and the buckets compared are those of the nearer distances, in order.
`WalkCompares` and `WalkAdvances` are the two halves of a round. In the round that finds no bit left the shift is by
the whole width and the pointer may leave the array: nothing is claimed of it then, and it is not used again.

### `MapObjects_proof`

From `ObjectsAssumption`, for any number of maps, arrays, keys and values.

* `ArrayOwned`: `Spec => []OwnsArray`
* `NothingLeaked`: `Spec => []ArraysReclaimed`
* `FaultsKnown`: `Spec => []OnlyKnownFaults`
* `OnlyCopiesLeak`: `Spec => UndestroyedAreCopies`

The inductive invariant `IInv` adds to them what a broken object has (a freed array, still its
own: `Matches`, `Apart`), `CopyInv`: the only object being built is the one the copy is made
into, the original is another, sound one, a key still to be copied is in the original and not yet
in the copy, and the map that is assigned to exists until it is swapped; and `InsertInv`: the insertion under way is into a
sound array that lacks the key, and, while a copy is made, into the copy, of the original's pair. Without the last
two `insert` could be handed a key the map has, and the pair count would drift. The lemma
`OneObject` says when a call that touches one object and its arrays keeps the heap in order;
`PlaceAdds`, `ExtendMoves`, `TakesFresh` and `FreesItsOwn` are its uses, `FillDropped` is about a new map that fails, `SwapKeeps` treats `swap`.
`OnlyCopiesLeak` takes from `InsertInv` that the map being extended keeps its pairs while new maps come and go.

* `MapsAreValues`: `Spec => ImplementsValues`, the refinement of `MapValues`.

A map's value is what its array holds, an object that is being built or is broken has none
(`View`). `CopiedInv` is what is needed beyond `IInv`: the copy holds the original's pair for every key that is
not still to be copied, so that at the end it equals it.

### `StackThreads_proof`

From `ThreadsAssumption`, for any number of stacks, threads and `pthread_t` values.

* `SlotsOwned`: `Spec => []SlotsAreOwned`, from `CountInv`: `participated_` is one more than the
  number of threads that have an index, and no index has reached it. The bound of `states_` then
  follows from there being no more threads than slots, which the code does not test.
* `FirstStackKeepsAssertion`: `Spec => []FirstStackNeverAborts`, from `BindInv`: while there has been one stack, the
  binding holds the indices of its own threads only, so a thread without an index never finds its slot taken by another.

### `Stack_proof`

From `StackAssumption`, for any number of threads, pushes and pops, and for every `Overlap` unless
a theorem says otherwise.

* `EarlierAlwaysDone`: `Spec => []EarlierOpsDone`.
* `PopAssertHolds`: `Spec => [](crashed # "stillPending")`, the assertion at the end of `pop` (293).
* `DescriptorsAlwaysKept`: `Spec => DescriptorsKept` if not both kinds of operation are in `Overlap`.
* `GuardedStatesCovered`: a thread inside its `ref_guard` holds no descriptor that was handed over before it entered, whatever overlaps.
* `StatesAlwaysCovered` (a lemma): `Spec => []HeldStatesCovered`, the same of every thread, guard or not, if pushes are not in `Overlap`.

The first two rest on `TypeInv`, which says what a thread's locals are at each place of the code, and
`HelpInv`. The argument of `HelpInv` is that a slot only changes in two ways: an announcement puts a
descriptor with a later phase there, a helper one with the same phase that is not pending (`Follows`); so a
descriptor once replaced never comes back (`After`), and a pending one once gone stays gone. `SlotsSeen` says of a
thread in `scan` that every slot it has passed holds nothing it has to wait for: its own
operation is done, and the descriptors that were pending when it announced itself have been replaced. The
phase a thread announces is later than that of its own slot, which is what it has read in
`max_phase`. Nothing here depends on the heads and marks a helper reads, so the defects of
overlapping pushes do not touch it.

`DescriptorsAlwaysKept` needs `MeetInv`. A helper in the empty-stack branch of `help_push` (`FirstDone`) exchanges a
descriptor it has not tested, all others exchange a pending one (`EmptyInv` for `help_pop`).
`KindInv` says that a pop which meets no push is never in `help_push`, `OldInv` that then nobody
changes a slot between the load of the old descriptor and the announcement. The
hypothesis cannot be left out: with pushes and pops at once `DescriptorsKept` is violated (a
pop stores over a descriptor that a late helper has put there).

`HoldInv` is about descriptors that have left their slots. A retired descriptor is behind its slot (`After`), so what
a slot holds is not retired yet; a thread that loads it inside its guard is inside when it is handed over later. `push` reads descriptors in `max_phase` before its guard (153): such a load is of the slot's present descriptor
as long as nobody else runs.

### `StackLifo_proof`

What happens to the stack itself, from `StackAssumption` and `"push" \notin Overlap`: pops may meet each
other, a push meets nothing. This is the part of the algorithm that works; finding 2 and the rest of section 5 say what becomes of
the rest, the repository's own test program included.

* `NodesAlwaysCovered` (a lemma): `Spec => []HeldNodesCovered`; with `StatesAlwaysCovered` it makes up
* `AllHeldCovered`: `Spec => []HeldCovered`.
* `OnlyEmptyPopsCrash`: `Spec => []OnlyEmptyPopCrashes`, if a pop that meets others finds two elements
  more than those can take (`"pop" \in Overlap => Spare >= 2`, as in `stack_pops`).
* `StackIsAtomic`: `Spec => AtomicLifo`, the refinement of `Lifo`, under the same hypotheses.

They rest on one inductive invariant, `Sound`: `TypeInv`, `HelpInv`, `MeetInv` and `HoldInv` of
`Stack_proof`, and

* `LinkInv`: links lead from a node to one pushed before it;
* `WinnerInv`: while no push runs, only the head has a mark, that of a pop which is pending or has been given that very node;
* `TakenInv`: the node in the descriptor of a pop bears its mark and has not been retired;
* `LocalInv`: what a thread has read of the head, its mark, its link and a descriptor stays true in the form in which
  the next exchange needs it. A pop that has read a head stands before the present head or
  before a node that has left the stack and keeps its winner for good (`Passed`), so that a late exchange on it fails or changes
  nothing (`PopLocal`). A push is alone, so its locals are the state (`PushLocal`);
* `NodeInv`: a node is retired after it has left the chain, and all who hold it have been in their guards since before.

Whoever carries it out, a write of a pop does one of three things (`PopEffect`): a pending pop wins the head (`HeadWon`),
it is given the head it has won (`OpFinished`), or the head is popped (`HeadPopped`); `PushEffect` says the same of a push.
The invariant is carried across these effects, and a thread's own step and those of the others are treated
apart.

`OnlyEmptyPopsCrash` counts: `SpareInv` says that while pops meet, or one still works for another, the chain has an element more than
there are pops that have taken none. So the head a pop meets there is never NULL; a pop that comes to an empty stack is alone
(`EmptyPopInv`), and stops the process. `NothingInv` says that it does: no pop
returns with nothing, which is why `Lifo` needs no such answer.
The hypothesis about `Spare` cannot be weakened: with `Spare` 1 and two elements for two pops TLC finds a thread
that has its element, still helps the other one, and reads the empty head.

`StackIsAtomic` maps each step to one of `Lifo` or a stutter. The abstract sequence is the list along the links from the head (`List`): `ItemsPushed`,
`ItemsPopped` and `ItemsStay` say what the exchanges do to it. A push takes effect when `head_` is exchanged for its
node, a pop when `head_` is exchanged for the link behind it, whichever helper does so; `PushMaps`, `PopMaps`, `CallMaps` and
`ReturnMaps` are the cases.

Here there is no way around induction: that the chain, `MaxPush` steps along the links, is closed
(`ReachClosed`), and what the list's elements are. `SetInduction` is induction for a set in place of a predicate, from the
least element of its complement.

### Only model-checked

* `ExtendsOnlyIfCrowded`: it is a matching argument (a set of keys whose windows have room for them has an arrangement, and a
  greedy displacement without gaps finds one), checked of the hash and the sizes of the instance, not for all constants.
* `BitcountCounts`: what a fold over the lines of `bitcount` computes of every word is an induction over data, which
  the prover does not do; it needs a width that is a power of two besides.
* `InsertReturns`, `OperationsFinish` and `WaitFree`: liveness under fairness, which the prover does not treat.

## 7. Not modelled

* Overlapping pushes beyond finding 2, section 5 and what `Stack_proof` says of them, and three operations of the stack at a time. The stack runs over
  `Qsbr` itself are not composed: the product is out of TLC's reach, and the defect of finding 1
  would be all they show. `states_[0]` is never used.
* More threads than `max_threads_` on one stack: `get_index` does not test it, no caller does it.
* Output (`operator<<`, `dump`, `to_bitarray`), timing, the benchmark, `crisp.h`, `rental.h`.
* Address arithmetic other than the wrap-around, allocation failure other than that of the bucket array.
* Insertion during a walk over the map: it invalidates iterators.
* Wrap-around of the 64-bit clock: excluded by `QsbrAssumption`.
* Threads that come and go: the set is fixed, as clock nodes are never reused.
