# Verification of the garbage-collect repository

The repository is a collection of garbage collectors in C: eleven small ones,
most of which share one allocator (`gc.c`, `gc.h`), and two larger ones modelled
on CPython (`gc-python`) and on the Go runtime (`gc-golang`). This directory
holds TLA+ modules translated from that source, the TLC configurations that check
them on small instances, and proofs that TLAPS checks.

## 1. Inventory

### Shared allocator: `gc.c`, `gc.h`
State: `free_list`, `gc_heaps[]`, `gc_heaps_used`, `roots[]`, `root_used`,
`auto_gc`, `auto_grow`, and the 48-byte header in front of every block.
Operations: `gc_malloc` (first fit, cut, collect, grow, try again), `gc_free`
(address-ordered insertion with merges), `gc_grow`/`add_heap`, `add_roots`,
`is_pointer_to_heap`, `get_header`. A collector supplies `gc()`, which
`gc_malloc` calls in the middle of an allocation, and frees through `gc_free`
while it walks the heap.
Hard: pointer surgery on a list that is a chain, not a ring, with `free_list`
moving at every allocation; headers that stay in memory with old links; heaps
that are not adjacent; a collection inside an allocation.
Correct if: blocks tile the heaps, the free list is exactly the free blocks, two
live blocks never overlap, neighbours are merged, NULL only when memory is short.

### `mark-sweep`
`gc_mark` (recursive, conservative: any byte of a body may be a pointer, any
address in a body leads to its block), `gc_sweep`, `gc`. Correct if a collection
frees exactly what no root reaches and the heap survives being merged while it
is walked.

### `tri-color-marking`
State: `gc_phase`, the grey queue `stack` (first in, first out), `sweeping`, the
budgets `max_mark`, `max_sweep`. `gc()` runs one increment; between increments
the program allocates, stores through `write_barrier`, registers roots. Hard:
every interleaving of increments with stores, state that outlives its phase.
Correct if no black object points to a white one while marking, nothing
reachable is freed, every cycle ends and frees the garbage it found.

### `generational`
State: a nursery, two survivor spaces, the old space (a mark-sweep heap), the
ages, the flag `FL_REMEMBERED` and the remembered set `rs`. Operations:
`minor_malloc`, `write_barrier`, `minor_gc` (`gc_copy`, `promote`,
`update_reference`), `major_malloc`, `major_gc`. Hard: shared and cyclic
structures that are copied while they are traversed; promotion in the middle of
a minor collection, which may start a collection of the old space; a remembered
set that is compacted while it is walked. Correct if every object and link the
roots reach survives, each object exists once, and every old object that points
to a young one is remembered.

### `compact-lisp2`
Mark, then three passes over the heap: forwarding addresses, adjustment of
references, moves. State: the heap with marks and forwarding addresses that stay
in the headers from one collection to the next. Correct if the reachable objects
keep contents, links and order, and the free space is one block behind them.

### `refcount`
`gc_inc`, `gc_dec` (frees at zero and releases the fields), `gc_update`, called
by several threads in the test, without locks. Correct if the count of a block
is the number of references to it, and a block is freed when the last one goes.

### Not modelled of the small collectors
`copying`, `copying-or-mark` (two spaces, forwarding, a flip), `compact-two-finger`
(two fingers that fill holes from the end), `mark-sweep-multi-free-list`
(segregated free lists) and `mark-sweep-bitmap` (marks beside the heap), the last
two with their own copies of the allocator. See section 6.

### `gc-python`
A conservative mark-sweep collector (`sweep.c`: registers, then the stack, in
steps of four bytes) on CPython's allocator of arenas, pools and blocks
(`gc.c`); what does not fit a pool comes from the C library and is kept in the
list `Hugmem`. `gc-python/malloc/obmalloc.c` is the allocator before it was
changed, with a test of its own. `Malloc` collects when it hands out the last block of a pool, and
`Free` runs inside that collection. State: `usedpools`, `arenas`,
`usable_arenas`, each pool's count, free list and virgin offset. Hard: a pool
that is full stays in `usedpools` until the next request; the collector knows the
first arena only; arenas are kept in order of their free pools. Correct if
a block is live or free and never both, a pool is in `usedpools` if it has a free
block, arenas are ordered, returned when empty (in `obmalloc.c`) and not asked for
while a pool is free, and nothing reachable is freed.

### `gc-golang`
Several threads with a cache each (`cache.c`) over central lists per span class
(`central.c`) over a page heap with a treap (`heap*.c`, `treap.c`). A cycle
(`mgc/gc.c`): signal the threads that are not allocating, mark from the stack
through lock-free work buffers (`gc_work.c`), sweep every span (`sweep.c`), flush
the caches, let the threads go. Whose a span is, and whether it is swept, is its
`sweepgen` relative to the heap's: two behind is unswept, one behind is being
swept, equal is swept, one ahead is cached and unswept, three ahead is cached.
Hard: allocating threads run beside the collector; a span changes hands between
caches, two lists, two sweep buffers and the page heap, each step under another
lock or none. Correct if a span has one owner, each span in use is swept once a
cycle, no reached object is given out again, one thread collects at a time.

### Others
`gc-try` is an earlier mark-sweep that scans the C stack. `gc-golang/sys` wraps
the operating system. The tests are drivers whose assertions several properties
quote.

## 2. Modules

| Module | Models |
|---|---|
| `GcHeap` | the allocator's operations as operators on a heap record |
| `Allocator` | what a client relies on: who holds which unit of memory |
| `HeapClient`, `MCHeapClient` | `gc.c` under a client that allocates and frees by hand; implements `Allocator` |
| `MarkSweep` | `mark-sweep` on `GcHeap`, with a client that links and roots objects |
| `TriColor`, `MCTriColor` | the incremental collector and its program |
| `PoolArenas` | arenas, pools and blocks: what `obmalloc.c` and `gc-python/gc.c` share |
| `Obmalloc` | `PyObject_Malloc`, `PyObject_Free`, `PyObject_Realloc` of `obmalloc.c` |
| `GcPython` | `Malloc`, `Free`, `gc_malloc`, `gc_realloc`, `Hugmem` and the collector of `gc-python` |
| `MCPools` | the two allocators side by side for TLC |
| `Generational` | `generational` with its program |
| `Lisp2` | `compact-lisp2` with its program |
| `Refcount` | `refcount` called by threads |
| `MCCollectors` | the last three side by side for TLC |
| `GoSpans`, `MCGoSpans` | caches, central lists, sweep buffers and the collection of `gc-golang`, run by several threads |
| `GoMark`, `MCGoMark` | the mark phase of `gc-golang` with its mark bits and work buffers |
| `BasicLemmas` | facts about numbers, functions and sequences that the proofs below share |
| `GcHeapProofs` | what `gc_malloc`, `gc_free` and `add_heap` do to blocks and free list, proved of any heap record |
| `AllocatorProofs` | `gc.c` keeps its heaps tiled and its free list exact, and implements `Allocator`; `obmalloc.c` keeps its rings, arenas and blocks exact and retains nothing; proved |
| `MarkSweepProofs` | a collection keeps exactly what the roots reach and leaves the heap intact, proved |
| `GoMarkProofs` | no work is lost, and the drain marks what is reached and nothing else, proved |
| `GoSpansProofs` | only one thread collects; nothing throws, no span or reached object is lost, every cycle sweeps everything, when the world is stopped at safe points, proved |
| `CollectorsProofs` | `compact-lisp2`: compactions keep objects, links and order; `refcount`: counts are the references, and nothing that is referred to is freed; `generational`: nothing reachable is lost, old-to-young pointers are remembered, objects are copied once; proved |
| `TriColorProofs` | the inductive invariant of any program, and the safety of one that keeps to the barrier's conditions, proved |

**GcHeap.** A heap is a record: head of the free list, the heaps, and `hdr`, a
function from every address to what its bytes read as a header. Keeping `hdr` for
all addresses, and not for blocks only, is what makes stale headers visible: a
block that is handed out keeps its `next_free`, as in the code, and `gc_free`
into an empty list uses it. One unit of memory is `HEADER_SIZE`; requests and
heaps are whole units. `gc_malloc`, `gc_free`, `gc_grow` and `gc_init` are
operators from heap to heap, with one operator for each place where the code can
go wrong (`CutAt`, `StopsAt`, `MergeRight`, `MergeLeft`, `OnlyNode`).
`ref`, `age` and `forwarding` are not used by these collectors and left out.

**HeapClient.** `own[v]` is the block a variable of the client holds. `Malloc`
and `Free` are one call each. `Reserve` is how much the client leaves free.
`Uniform(r)` collects the conditions under which the properties hold: requests
are all of size `r`, the heaps are multiples of `r` and larger than one request,
and the client leaves something free; `MCHeapClient` assumes it of every
instance, so that TLC and the proofs speak of the same clients. What is in use
and what there is are counted as units of memory, held or in the heaps.

**MarkSweep.** `word[a]` is the pointer at address `a`; a body word is a unit.
`gc_mark` is the recursion of the code with its stack made explicit: a step
visits the pointer on top, and after `Visits` steps the stack is empty, since
every block is scanned once. `gc_sweep` walks every heap by its headers and frees
through `gc_free`, a header a step. `SlackClient` names the client for which the
properties hold. `Malloc` contains the collection and the growth. `local` is the one variable of the client
that is not registered as a root: what the code frees under its feet, it loses.

**TriColor.** Objects are blocks; the free list's order is abstracted to "any
free block". That is what `gc.c` returns as long as one block stays free
(`FreeListIsExact`), and the guard of `Malloc` keeps the program to it, as
`Reserve` does in `HeapClient` and `MarkSweep`. The increment that `gc_malloc` runs
when the last block is taken is therefore left out: its sweep would free into an
empty list, whose new head leads to blocks in use (`gc.c:185`), and what the
allocator returns after that is no property of the collector. The program gets
its increments by calling `gc()` (`Collect`), as the tests do, and by asking for more
than a heap holds (`MallocTooLarge`, `MallocAgain`), for which `gc_malloc` runs one
and fails.
Every iteration of the loops of `root_scan_phase`, `mark_phase`, and every heap
of `sweep_phase`, is a step, with the program waiting at `pc`; the loop variables
are variables. The program allocates, stores through `write_barrier`, clears
fields, registers roots. `gc_mark` is the least set its recursion marks.

**PoolArenas, Obmalloc, GcPython.** The allocator is one record `mem`: arenas
with their links, pool headers, and `nextpool`/`prevpool` for pools and for the
list headers of `usedpools`, which the code makes look like pools (`PTA`). A
pool's free blocks are the sequence that starts at `freeblock`. A call of the
client is one step (the code is not locked and the tests have one thread); inside
it the whole call is translated, with the collection that `Malloc` runs before
it has returned its block, and with the sweep's walk over the pools, each block
freed by `Free`. Four things are recorded or ruled out:

- `broken`: a full pool stays linked in `usedpools` until the next request
  (`gc.c:138`), and `Free` links it again because its free list is empty
  (`gc.c:327`); alone in the list it becomes its own successor, and the next
  `Malloc` may also cut off the pools behind it (`gc.c:228`). From then on the
  list is no list. The model records it and ends the behaviour;
- `MayStore`: the collector does not know what is referred to only from a second
  arena or from a `Hugmem` object off the stack. The client keeps to stores the
  collector can see; without this rule it loses objects;
- the pointers of the client are in words of its stack. `scan_register` reads the
  word a register points to, if that is on the stack (`sweep.c:89-95`), never the
  register: a pointer kept in a register alone is no root;
- the client of `GcPython` does not free by hand what it can still reach
  (`MayFree`); objects have size class 2 or more, since in class 1 the link of the
  free list lies behind the block.

**Generational.** Every call of `gc_copy` and every entry of `update_reference`
is a step; `todo` is the recursion's stack. `stored` is what the program stored, by
the objects' values, so that the properties compare what it sees with what it
made, through any number of copies. The code gives up reachable objects in two
ways, and `lost` records the first: `"major"`, the collection of the old space
takes the remembered set for its roots (`mark_sweep.c:96`; the test takes this
for granted, `generational/test.c:173`); `"skipped"`, an entry of `rs` is
overlooked (see the findings). In the middle of a minor collection what the roots reach
includes the copies of the objects that were copied: an object promoted for the
sake of a dead old one is swept by the collection that a later promotion starts, and a root
met after that is redirected to the empty place. Locations are counted up to
the number of addresses, since such copies are reached beside their originals. Spaces have a rest behind the last object:
when an object fills a space exactly, the code writes a header behind it
(`generational.c:266`). The old space takes one or two objects (`GenerationalAssumption`):
its free list is then the rest and the free slots, in an order that depends on the
order of the frees, and `promote` takes any free slot. With three, freeing the first two
before a live third leaves the rest at the head and behind it a block of two
slots; the next promotion skips the head and cuts that block, and `gc.c:135` puts what
is left of it behind the end of the rest, outside the space.

**Lisp2.** The passes are functions, composed by `gc` and by the `gc_malloc` that
finds no room (`compact_malloc`). An address is an object's number from the start of the heap.
`rest` says that the header of the free block has `FL_MARK`: `move_obj` clears
what lies behind that header only, so that it keeps the flags of the object that
was there. The next collection takes such a block for a live object and moves it.
`MayCollect` is the condition that the program does not collect in that state.

**Refcount.** `left[t]` is what is left of a thread's call with its recursion.
The load and the store of `hdr->ref` are two steps, and `gc_dec` reads the count
a third time to compare it. `raced` records that two threads were in the middle
of counting one object, which `refcount/test.c:24` lets them be: an update is
then lost. A pointer is passed on by an owner that keeps it while it is counted,
and one thread at a time assigns a field, as in the tests. `gc_malloc` and
`gc_free` are one step each: the heap has no lock either.

**GoMark.** Memory is words; an object is named by its base. `word` and `stack`
are the program's, `marks` the bits, `w` the lists and the two buffers of
`gcWork`. A word of a scan (`greyobject`) and a turn of `gcDrain` are steps. One
thread marks: `gcStart` keeps its `gcWork` in a local variable and the others
wait, so that the lock-free lists meet no rival. Two conditions under which the
mark phase is exact come from `scanstack.c:31`, which by operator precedence
tests bit 0 of the object's mark byte whichever bit is its own: `Sparse`, of the
objects of a byte the program reaches the first or others but not both;
`FirstsOnly`, it reaches firsts only, and then each object is queued once.
`NoInterior` is the condition that no pointer leads inside an object: a scan from
such a pointer runs past the object's end. Spans are single objects or of sizes
that are powers of two (`SizesAssumption`); for other sizes the index is computed
with the shifts bound the wrong way round (`scanstack.c:87`). Pointers lead to
words: a pointer to an odd address would make `greyobject` throw
(`scanstack.c:21`). Only the stack of the collecting
thread is scanned (`drain.c:24`), so there is one.

**GoSpans.** `span[s]` is the `mspan`; `nonempty` and `empty` are the central's
lists, `sweepSpans` the two sweep buffers, `cached[t]` the one entry of a
thread's cache (`NULL` for `emptyspan`), `locks`, `worldsema` and `mtx` the
mutexes with who holds them, `th[t]` a thread's place in the code and its locals.
The actions follow the calls:

| Code | Actions |
|---|---|
| `mallocgc`, `nextFreeFast`, `cache_nextFree` | `mallocgc`, `cache_nextFree`, `CacheFull` |
| `cache_refill` | `cache_refill`, `Cache` |
| `central_cacheSpan` | `central_cacheSpan` (takes the lock), `FromNonempty`, `SkipSpan`, `NoneInNonempty`, `FromEmpty`, `Recheck`, `NoneInEmpty`, `central_grow`, `Insert` |
| `largeAlloc` | `largeAlloc`, `OutOfMemory` |
| `sweepone`, `gcsweepbuf_pop` | `sweepone`, `gcsweepbuf_pop`, `SweepDone` |
| `span_sweep`, `central_freeSpan`, `heap_freeSpan` | `span_sweep`, `gcsweepbuf_push`, `heap_freeSpan` |
| `gcStart`, `sighandler(0)` | `gcStart`, `Help`, `TryStart`, `Await`, `Begin`, `startTheWorld` |
| `stopTheWorld`, `gcDrain`, `gcSweep` | actions of the same names |
| `cache_releaseAll`, `central_uncacheSpan` | actions of the same names |

A step ends where another thread can change what comes next. Each `throw` of
these functions is part of `AssertsHold`: where it would fail, the thread's only
step is `Throw`. What the model takes for granted:

- the marker marks exactly what the program reaches (`gcDrain` picks what that
  is); `GoMark` says under which conditions it does;
- a signalled thread stops at once, between two steps. `SafePoints` says in
  addition that no other thread is in `mallocgc` or `sweepone` when the world is
  stopped, which the code does not ensure: it is the condition the sweeper's
  comments state;
- `heap_alloc` and `hb_initSpan` are one step, a push and a pop are one step each,
  and `span_sweep` runs under the central's lock as a whole;
- the 64-bit window of the allocation bits is the bits themselves; the tiny
  allocator, which shares a block between objects, is left out;
- nothing in the repository calls `gcStart` (the call in `mallocgc` is commented
  out): the program does, on any thread outside `mallocgc`. `work.userForced` is
  always set, so the sweep is eager; `bgsweep` is never started.

## 3. Runs

| Run | Shows |
|---|---|
| `HeapSlack` | types and tiling, exactness of the free list, NULL only when memory is short, and the contract of `Allocator`, when one block always stays free: for a heap that grows at the first request, and for two heaps that may not grow |
| `MarkSweepSlack` | collections free exactly the garbage and keep the heap intact |
| `Pools` | `obmalloc.c`: `usedpools`, arenas and blocks exact after every call, empty arenas returned, none asked for while a pool is free; `gc-python`: no live block is free, no pool with a block to give is missing, collections free exactly what the client cannot reach |
| `Collectors` | `generational`: objects and links survive, one copy each, old-to-young pointers remembered; `compact-lisp2`: any number of compactions keeps objects, links and order; `refcount`: counts are the references |
| `TriColorCareful` | a careful program that leaves a block free: tri-colour invariant, no dangling pointer, nothing reachable is freed |
| `TriColorCycle` | any program that leaves a block free: no freed object in the queue, no stale mark at the start of a cycle; every cycle ends, all garbage goes |
| `GoSpansStopped` | the world stopped at safe points: no assertion fails, every span is in one place and swept once a cycle, no reached object is given out again |
| `GoSpansRunning` | threads allocate during the sweep: one collector at a time, the central's lists stay lists; the program may end in a `throw` |
| `GoMark` | no work is lost between the buffers, marking is exact under the conditions above, and the drain ends |
| `GenerationalSkipped` | violated: `update_reference` overlooks the entry it swaps in |
| `GoSpansStolen` | violated: a thread that was not stopped caches a span the collector is sweeping |
| `GoMarkByte` | violated: a reached object is not marked because the first of its byte is |

The last three are the findings. Each type invariant is a conjunct of one of the
properties of its module (`HeapTiled`, `HeapIntact`, `BlocksExact`,
`PyBlocksExact`, `ReachedIsAllocated`) or a property of its own (`TriColor`).

**Conditions on programs.** The passing runs say what holds for programs that
keep to some rule; where the code does not enforce the rule, breaking it makes
the property fail:

| Rule | What goes wrong otherwise | Where |
|---|---|---|
| `Reserve`, `Malloc` of `TriColor`: a block always stays free | a block freed into an empty list brings its old link: two live pointers share memory | `gc.c:185` |
| `ReqSize`: requests of one size | a node that is not the first is cut: the chain of blocks breaks | `gc.c:135` |
| `Interior`: roots lead to starts of objects | the words before an inner pointer are not scanned | `mark-sweep/mark_sweep.c:36` |
| `MayRoot`: roots before the marking | a root registered in the mark phase is missed | `tri-color.c:153` |
| `MayStore` (`TriColor`) | a store during the sweep into an unmarked object is not protected | `tri-color.c:90` |
| `MayStore` (`GcPython`) | what only a second arena or `Hugmem` refers to is freed | `gc-python/sweep.c:17` |
| `broken` (`GcPython`) | a pool is linked twice | `gc-python/gc.c:327` |
| `OldRoom` at most 2 (`Generational`) | a node that is not the first is cut, outside the old space | `gc.c:135` |
| `lost` (`Generational`) | see above | `generational.c:191`, `mark_sweep.c:96` |
| `MayCollect` (`Lisp2`) | the free block is taken for an object | `compact-lisp2/compact.c:166` |
| `raced` (`Refcount`) | a count is lost | `refcount/refcount.c:53` |
| `SafePoints` (`GoSpans`) | see the finding | `gc-golang/proc/proc.c:55` |
| `Sparse`, `FirstsOnly`, `NoInterior` (`GoMark`) | see the finding | `gc-golang/mgc/scanstack.c:31` |

**Bounds.** `MaxAddr` bounds the memory; five blocks of equal size (or two heaps
of three) are enough for a free list with a first, a middle and a last node, with
merges left, right and on both sides, and with wraps of the address order, which
are all the cases `gc_free` distinguishes.

`Pools` has two arenas of three pools (and two when the system's memory is not
aligned), two classes and two blocks a pool: a list of a class with none, one and
several pools, an arena that fills up, revives, empties and changes its place
among two, a pool that changes its class. `MaxOwned` 4 blocks are held at most, which
fills more than one pool of a class; `MaxObjects` 3 objects, one of them in
`Hugmem`; `MaxExcess` bounds how far `ref.count` runs ahead.

`Collectors`: spaces of two objects, three objects and two roots, age 2 instead
of 3, one field an object: a shared object, a cycle, a promotion with and without
a young child, an old space that is full, a remembered set of three with a middle
entry. For `compact-lisp2` a heap of three objects and four made, so that it is
full, compacted and filled again. For `refcount` three objects, two threads and
six calls of the program, each with its recursion.

`GoMark`: a large object of two words, two objects that share a byte, a small one
and one without pointers; buffers of one entry, so that every second put flushes,
and two to a span; five operations of the program, in which it may collect any
number of times; `MaxSpans` spans for buffers, at the end of which the code throws.

The tri-colour runs have two heaps and one block more than the program has in
use. `TriColorCareful` has four blocks: a black, a grey and a white object at a
time, one ahead of and one behind the sweep cursor, and two roots, so that the
queue outlasts an increment. `TriColorCycle` checks liveness, which takes no
symmetry; it has three blocks and two roots: an object in the queue while another
is swept, in either order of the heaps. With
`max_mark` and `max_sweep` 1 every iteration may be its own increment.
Two threads and two spans of two objects give `GoSpansStopped` a span in each
cache, one in each list, a full, a partly full and an empty one, and a large
object beside a small span. `GenMod` keeps `sweepgen` modulo 8, which tells all
five values of a span's state apart and lets the counter wrap, so the run covers
any number of cycles. `GoSpansRunning` has one span, which is enough for the
collector and an allocating thread to meet on it, and `LastGen` stops it after
three cycles.

Deadlock is not checked where a bound, an `abort` of the code or a `throw` stops
the program.

**Fairness.** `TriColorCycle` assumes weak fairness of the collector's steps (an
increment is a loop that the program waits for), of the retry of `gc_malloc`, and
of the program's requests for increments, by `gc()` or by a `gc_malloc` that fails.
The last is an assumption on the program, without which nothing is ever
collected: the code runs no increment of its own accord. The program is free in
how it asks, and allocations, stores and roots need no fairness.
`GoMark` assumes weak fairness of `greyobject` and `gcDrain`: one thread runs the
loop to its end, since all others wait for it. The other runs check safety only.

## 4. Proofs

`TriColorProofs` proves, for any number of objects,
fields and heaps, any assignment of objects to heaps and any positive budgets:

| Theorem | States |
|---|---|
| `TypeCorrect` | `Spec => []TypeOK` |
| `NoFreedGrey` | `Spec => []GreyAllocated` |
| `CycleStartsClean` | `Spec => []NoStaleBlack` |
| `CarefulInvariants` | `CarefulSpec => [](AnyInv /\ CarefulInv)` |
| `BarrierInvariant` | `CarefulSpec => []NoBlackToWhite` |
| `NoDangling` | `CarefulSpec => []NoDanglingPointer` |
| `ReachableStays` | `CarefulSpec => NeverFreesReachable` |

They use `TriColorAssumption` only, and speak of programs that leave one block
free, which is the guard of `Malloc` (`SomeFree` is an invariant). The argument has
two parts.

*Any program.* `AnyInv` adds to the types where the loops may stand
(`ControlOK`) and what the queue may hold (`QueueOK`): outside the mark phase a
queued object will survive the cycle, and an object the sweep has passed is
marked only if the barrier queued it since. The second conjunct is what makes
the first inductive at the end of the sweep, and it is `NoStaleBlack` between
cycles.

*A careful program.* `Kept` is what will survive the cycle: the marked objects
and those the sweep has passed. `CarefulInv` says that outside the mark phase
what is kept points only at what is kept and holds the roots, and that in the
mark phase no black object points to a white one. At the end of marking the queue is empty,
so all marked objects are black and the second fact becomes the first; at the end
of the sweep everything allocated is kept. The conditions on the program are
`MayStore` and `MayRoot`; without them TLC finds the properties violated, and the
proof of the store fails.

The gap between the two parts is the point of the project: the code does not
enforce `MayStore` and `MayRoot`, its users must.

`AllocatorProofs` proves of `gc.c`, for any memory, any variables, any number and size of
heaps the client sets up, whether they grow or not, under `ClientAssumption` and
`UniformClient`:

| Theorem | States |
|---|---|
| `HeapsAreTiled` | `Spec => []HeapTiled` |
| `FreeListIsExact` | `Spec => []FreeListExact` |
| `DenialsAreJustified` | `Spec => []NoSpuriousDenial` |
| `AllocatorImplemented` | `Spec => ImplementsAllocator` |

The invariant `IInv(r)` says that there are a set `B` of blocks and a set `N` of
nodes of the free list which fit the memory (`Well`): every block's size is a
multiple of `r`, the blocks tile the heaps, and the links lead from the head
through every node of `N` once and end; and that what is in `B` but not in `N` is
what the client holds, each of exactly size `r`. The order of the list is no part
of it: `gc_free` merges with a neighbour only where the sizes say that the blocks
touch, and what it does otherwise keeps the list whole in any order. The
properties follow the links with recursive functions (`NodesOf`, `BlocksOf`,
`WalkEnds`); that these end where `Well` says is proved by induction over the
length of the walk. Multiples of `r` make the head of the list always large
enough and a cut leave a block that can be handed out, so that the search never
leaves the head. `UniformClient` is what the code needs for this. With two sizes
the search passes the head and cuts a node behind it: `gc.c:133` then writes the
rest behind the node before it and not behind the one it cuts. With everything
handed out the list is empty, and `gc.c:185` links the next freed block with the
link it had when it was last free.

It proves of `obmalloc.c`, for any number of arena objects, of pools an arena from
three on, of classes and of blocks a pool from two on, any requests and any order of
calls, under `PoolArenasAssumption` and `ObmallocAssumption`:

| Theorem | States |
|---|---|
| `UsedPoolsAreExact` | `ObSpec => []UsedPoolsExact` |
| `BlocksAreExact` | `ObSpec => []BlocksExact` |
| `ArenasAreExact` | `ObSpec => []ArenasExact` |
| `NothingIsRetained` | `ObSpec => []NothingRetained` |
| `ArenasAreNeeded` | `ObSpec => ArenaWhenNeeded` |

They have one invariant, `ObInv`: each call changes pools, rings and arenas together,
and none of the properties is inductive without the others. It says that there are a
set `I` of pools in use and a set `G` of pools that were used before and are free,
such that

- every pool below an arena's `pool_address` is in one of them, and `nfreepools` is what
  the pools in use leave of `ntotalpools` (`Counts`);
- an arena's `freepools` is the list of its pools in `G` (`Frees`), and the ring of a
  class has those of its pools in `I` that have a block to give (`Rings`);
- what a pool's header says fits the blocks the client holds (`PoolBlocks`,
  `GoodPool`). A free pool's header is right too, since `init_pool` goes on with its list
  when the pool gets the class it had before;
- `usable_arenas` is in order and linked both ways, and the other objects are in
  `unused_arena_objects` (`Lists`);
- no arena is free as a whole (`Busy`): the last pool that comes back returns it.

Lists and rings are sets of nodes with a condition on their links (`Chained`,
`Doubly`, `Ringed`), of which the strongest is that a set which holds the head and is
closed under the links is the whole list. So a push, an insertion or a removal changes the set by
one element, and the order matters only where the code compares numbers. The
properties follow the links step by step (`Follow`); that this finds the same sets is
a count of the places reached (`FollowList`, `FollowRing`).

An allocation takes a pool that for a moment is neither in use nor free (`Ready`), from
an arena that is free as a whole if it is new (`BusyBut`). A block that comes back
changes the header first (`Pushed`). If the pool is empty then, it moves from `I` to `G` (`Emptied`),
and what `PyObject_Free` does next sees arenas of which one has one free pool more (`Raised`);
the four cases of `ArrangeArena` put it back in its place. For the third the search
is followed over the arenas it has passed, all of which have fewer free pools;
it ends behind the last of these. In a reallocation the new
block is had while the old one is still held, and the invariant is that of the
larger set in between.

The proof found a condition that the instance for TLC had hidden. With two pools an
arena, one that the system did not align has a single pool: it leaves
`usable_arenas` with it, and when the pool comes back case 1
(`obmalloc.c:384`) unlinks an arena that is in no list. TLC finds `ArenasExact`
violated then. The code has 64 pools; `PoolArenasAssumption` asks for three.

`MarkSweepProofs` proves for any memory, objects of any size and any number of
heaps and roots, under `MarkSweepAssumption`, `HeapAssumption` and `SlackClient`:

| Theorem | States |
|---|---|
| `HeapStaysIntact` | `Spec => []HeapIntact` |
| `NothingDangles` | `Spec => []NoDanglingPointer` |
| `CollectionIsExact` | `Spec => []GcExact` |

The invariant `IInv` has three parts, for the set `A` of the objects: the heap is
as `AllocatorProofs` has it, with `A` for what the client holds, flagged
(`Objects`); every word of an object holds no pointer or one to the start of an
object of `A` (`Pointing`); so do the roots and the local (`Held`). None of the
three properties is inductive alone: what a collection keeps is right only if no
pointer dangles, and it leaves a heap that can be swept again only if the blocks
are tiled. The steps of the argument:

- *Marking.* The stack of `gc_mark` holds words of marked objects and roots. What
  is marked is reached, and every pointer of a marked object is marked or on the
  stack. What is left to do (`Left`), the stack and the words of the objects not yet
  marked, becomes one less with each visit, since different objects have different
  words. So the stack is empty in the end, and what is marked is the least set that holds the
  roots' objects and is closed under pointers (`MarkLeast`). `Reach` is the same
  set, found by widening (`ReachLeast`).
- *Sweeping.* `gc_free` merges the block in hand with what lies behind it, whose
  header the walk has not read yet, and with what lies in front of it, so that
  the header in hand is no block any more. After the call
  the header still ends where a block ends (`EndsWith`), so that `NEXT_HEADER`
  leads to a block or to the heap's end and skips no object (`Advance`). That is the
  loop's invariant (`Sweeping`): the walk stands on a block or the end, what it
  passed of the unmarked is free, all else is untouched (`Kept`).
- *The client.* `Malloc`, `Gc`, `AddRoot` and `Store` hand on pointers to
  objects that the collection kept, or none.

`SlackClient` is what the code needs. With pointers into objects `gc_mark` misses the
words in front of them; with nothing free, or objects of other sizes, `gc.c` goes
wrong as above.

`GcHeapProofs` holds what the two have in common: lemmas about `gc_malloc`,
`gc_free` and `add_heap` on any heap record that is `Well`, whoever calls them.

`GoMarkProofs` proves for any memory, objects, types and buffer sizes:

| Theorem | States |
|---|---|
| `BuffersAreExact` | `Spec => []BuffersExact` |
| `MarkedAreScanned` | `Spec => []MarkedScanned` |
| `DrainIsExact` | `Spec => []DrainExact` |

The invariant follows the phases. Between cycles all buffers are empty and no
object is marked (`BetweenCycles`). In a drain every buffer is in one place
(`Ready`), and every marked object that has pointers is scanned or queued in a
buffer, while what a scanned object or the stack leads to is marked, passes for
marked by the test of `scanstack.c:31`, or is still to be looked at (`Tracked`);
without inner pointers only reached objects are come across (`Confined`). Work
is lost with any buffer that is lost, so that the second fact needs the first at
every flush and swap. The drain is exact at its end, where no buffer holds work
and what is marked is therefore closed under the pointers.

`GoSpansProofs` proves for any threads, spans, object count and `GenMod`, whether
or not the other threads are at safe points:

| Theorem | States |
|---|---|
| `OneCollectorAlways` | `Spec => []OneCollector` |

The invariant `CollectorInv` says of every thread that it is in a cycle exactly
if it holds `worldsema`, and that the phase is not off only between `Begin` and
`gcSweep`. `OneCollector` is not inductive by itself: a sweep started by
`gcStart` and one started by the cycle run the same code, and only the caller
each returns to (`Called`) tells whether a thread is still in the cycle. Every
action but `Begin`, `gcSweep` and `startTheWorld` is shown to leave both facts
alone (`Local`). The second test in `gcStart`, of the phase under `worldsema`, can
therefore never fail.

With the condition `SafePoints` it proves as well, for any number of cycles:

| Theorem | States |
|---|---|
| `NothingThrown` | `Spec => []NoThrow` |
| `ReachedStaysAllocated` | `Spec => []ReachedIsAllocated` |
| `EverySpanInOnePlace` | `Spec => []OnePlace` |
| `SweepBuffersAreExact` | `Spec => []SweepBufferExact` |
| `CyclesAreComplete` | `Spec => []CycleSweepsAll` |
| `ListsStayIntact` | `Spec => []ListsIntact` |
| `SweepsAreExclusive` | `Spec => []ExclusiveSweep` |

The five properties of `GoSpansStopped` have one inductive invariant, `IInv`,
since each needs the others: an assertion holds because the span in hand has room,
it has room because only its owner takes from it, it has one owner because the
lists are exact, and they are because nothing threw. `IInv` has two forms. From the end of a
cycle to `gcSweep` it is `Open`: for every thread what it may have in hand at
each place of the code (`ThreadOpen`), and for every span that its counts are
right (`Sound`), that it is in a list, in a buffer or somebody's exactly as these
say, and that its `sweepgen` is three ahead exactly if a thread uses it
(`SpanOpen`). From `gcSweep` to
`startTheWorld` it is `Sweep(c)` for the one thread `c` that runs: every span is
still in the old buffer, in the hand of `c`, in a cache that is still to be
flushed, or swept and in the new buffer, and its `sweepgen` is two behind, one
behind, one ahead or equal accordingly (`SpanSwept`). `gcSweep` turns the first
into the second by adding two to the generation: what was cached becomes one ahead,
everything else two behind, and the buffers change roles. That the loop over the
buffer sweeps the spans that are two behind and the flush those that are one ahead is
why a cycle misses none and sweeps none twice. The other threads stand at safe
points all the while, which is where `SafePoints` is used, and only there
(`StopsTheWorld`). Without it `GoSpansStolen` refutes `ExclusiveSweep`; so what the
theorems say of the code is that the unstopped threads are all that is wrong:
were `stopTheWorld` to wait for them, everything above would hold.
`GenMod` enters through one lemma: the differences -2 to 3 are told apart modulo
any multiple of four from eight on, and adding two changes the buffer.

`CollectorsProofs` proves of `compact-lisp2`, for a heap of any size and any number of
words, roots and objects made, under `Lisp2Assumption`:

| Theorem | States |
|---|---|
| `CompactionExact` | `LispSpec => []CompactExact` |

The invariant `LispInv` speaks of all objects in the heap, not only of those the
roots reach: their pointers lead into the heap or nowhere (`Shaped`), they have
different values (`Known`), and each pointer leads to the object of the value that
was stored there last (`Shows`). It is stated of all of them so that it does not
depend on what is reached, which a store or a root that goes out of scope changes; a collection
keeps it (`CollectedGood`). What is marked is closed
under pointers (`MarkClosed`: the widening stops after as many steps as the heap has
objects), so that each pointer of a marked object leads to a marked one, which moves
to its rank among the marked (`Forwarded`, `CollectedIs`). Rank is one to one and
keeps the order (`RankOnto`, `RankOrder`), so that two objects never move to one place
and none passes another. That the values kept are
those of `ReachableValues` is an induction over the addresses
(`ReachableValuesAre`). `MayCollect` is part of the property: TLC finds objects that
overlap when a program collects with the header of the free block marked.

It proves of `refcount`, for any finite sets of threads, objects and fields, and any
number of calls:

| Theorem | States |
|---|---|
| `CountsAreExact` | `RefSpec => []CountsExact` |

`CountsExact` compares counts with references only when no call is under way. In
between, a count stands for four things (`Count`): threads that own the object and
have counted that, `gc_dec`s that have read a pointer and not yet taken it off,
`gc_update`s that have counted the new target and not yet stored it, and fields
that no call has released (`Links`; a field that `gc_update` is about to assign and
one of an object that is being freed stop counting when they are read). `Exact`
says that this sum is `hdr->ref` of an allocated object and 0 of any other, and each
step of a call only moves a reference from one kind to another. The rest of the
invariant makes that true. `Lending`: an object that a thread is about to count is
kept by somebody until then. `Assignments`: one thread at a time sees to a field,
and it owns the object. `Dying`: one thread frees an object, its count stays 0, and no
other looks at it. `Apart`: nobody counts between a load and its store and test;
this is what a race breaks, and the invariant is therefore `raced \/ Inv`. With a
race the theorem says nothing, and TLC finds counts that are wrong.

It proves of `generational`, for a nursery and survivor spaces of any size, an old
space of one or two objects, any ages, any finite set of fields and any
number of objects, roots and entries, under `GenerationalAssumption`:

| Theorem | States |
|---|---|
| `GenerationalReachableKept` | `Spec => []ReachableKept` |
| `OldPointersRemembered` | `Spec => []OldToYoungRemembered` |
| `CopiedOnce` | `Spec => []OneCopy` |

The properties speak of the program's states; a minor collection takes many steps
between two of them. The three have one invariant, `GenInv`, which holds in the
middle of a collection too, as long as nothing was lost (`Survives`). Its parameter `D` is the set of locations
that `gc_copy` is still to be called on: the rest of the roots, the fields of the
copies on the recursion's stack, those of the entry that `update_reference` is at (`Phases`).

- *Where pointers lead* (`Pointers`). A location of `D` leads into the from-space or to an old
  object, as before the collection; any other root or field of a copy
  leads to the to-space or to an old object. When `D` is empty at the end, nothing in
  use leads into the space that is cleared.
- *Old objects* (`OldPointers`). An old object that points into the from-space has an entry
  that is still to be looked at (`Unseen`), and one that points to a copy has an entry that
  was looked at and is kept (`Seen`). `promote` appends its entry, behind the index, so it
  is looked at later. The entry that a removal swaps in front of the index breaks
  this, which is the finding; `lost` records it.
- *Copies* (`Copies`). An object was copied exactly if it has a forwarding address, and of
  those that were not copied no two have one value. So the second visit of a shared
  object or a cycle finds the copy and makes none, and the copy's value is not to be found
  elsewhere once the from-space is cleared.
- *What the program sees* (`LiveSet`). There is a set of objects that holds what the roots lead to,
  is closed under fields and forwarding addresses, and shows the program what it stored. A
  copy joins the set with its original. That set may be any; `Reachable` is the least
  (`ReachableIs`), which relates it to the `lost` of the sweeps (`SweptWhole`): what a sweep frees
  is not reachable, so that `Reachable` can be the set from then on.

The proof found an error in the model. `Reachable` did not follow forwarding
addresses, so that the loss described in section 2 went unrecorded and the induction failed at
the sweep that a promotion starts.

`BasicLemmas` holds what these proofs share. The library's theorems on induction
and on recursive functions take an operator as a parameter, which the provers
here cannot instantiate, so `NatSetInduction` states induction for a set of
numbers and `RecursionExists` and `IterationExists` that the functions which
walk a list exist.

Only model-checked: `ListsIntact` where threads go on allocating in the sweep
(`GoSpansRunning`); liveness, which is out
of the prover's reach with `ENABLED`; `GcPython`, whose invariant would be that of
`obmalloc.c` with rings that keep full pools and counts that run ahead. No module holds a `RECURSIVE` declaration, so that they can be proved about.

## 5. Plan

Next, in this order:

1. Theorems about `GcPython`, on the lemmas that `AllocatorProofs` has for the pools
   and arenas both allocators share.
2. `copying-or-mark` and `copying` in the manner of `Lisp2`, as far as section 6 allows.
3. The page heap of `gc-golang`: runs of pages, coalescing, the treap.

## 6. Not modelled

- `copying`, `copying-or-mark`: `gc_copy` resets the flags of an object when it
  copies it (`copying/copying.c:73`), so that an object two fields share is
  copied twice and a cycle has no end; `copy_reference` redirects one field of
  each root object and no other (`copying.c:99-124`). The model would be a list of
  exclusions: roots with one child that has none.
- `compact-two-finger`: the copy in a hole is not marked, so that the left finger
  stays on it and the next object is copied over it, and the size of the free
  block is written into it (`compact-two-finger/compact.c:76-97`); references to
  objects the fingers did not move become an address near NULL (`:144`). What
  the right finger reads between headers is data taken for flags (`:82`).
- `mark-sweep-multi-free-list`: `gc_free` of a small block returns before the flags
  are reset (`mark-sweep-multi-free-list/gc.c:181-188`), so that each later sweep
  finds `FL_ALLOC` without a mark and lists the block again; `gc_malloc` makes the
  predecessor of the block it found the head of the list (`:143`) and so drops
  what is before it. What is left to state holds up to the first sweep only.
- `mark-sweep-bitmap`: `gc_mark` never asks whether the object is marked
  (`mark-sweep-bitmap/mark_sweep.c:9-33`), so that a cycle has no end, and
  `gc_sweep` frees every block without a mark, those on the free list included
  (`:52-54`).
- `gc-golang`: the page heap with its treap, the bit arenas and `fixalloc`, the
  tiny allocator, `span_scavenge`; the heap bitmap is bit arithmetic; rivals on the
  lock-free lists, which one collecting thread does not have; the lock a stopped
  thread may hold in a sweep (`central.c:195`).
- `gc-golang/sys`, `gc-python/Array.c`: wrappers of the operating system and a
  growing array.
- `tri-color-marking`: the increment `gc_malloc` runs when no block is free, and what
  the allocator does afterwards (section 2).
- `generational`: an old space of three or more objects (section 2).
- `mark-sweep`: the collection inside `gc_malloc` is in `Malloc`, but under
  `SlackClient` a block is always found first; the same collection is `Gc`.
- `gc-try`: an earlier `mark-sweep` whose stack scan is assembly.
