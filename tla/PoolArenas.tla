----------------------------- MODULE PoolArenas -----------------------------
(***************************************************************************)
(* Arenas, pools and blocks: the data structure that gc-python/malloc/     *)
(* obmalloc.c (CPython's allocator) and gc-python/gc.c (the same with a    *)
(* collector) share, and the part of an allocation that is the same in     *)
(* both: finding a free pool.  An arena is cut into pools of 4 KiB, a pool *)
(* into blocks of one size class.                                          *)
(*                                                                         *)
(* Pools are numbered through all arenas.  The header of size class c's    *)
(* list in usedpools is a node of its own, as PTA() makes it: it has a     *)
(* nextpool and a prevpool but no blocks.  A pool's free blocks are the    *)
(* sequence that starts at freeblock.                                      *)
(***************************************************************************)
EXTENDS Integers, Sequences, FiniteSets

CONSTANTS
    InitialArenaObjects,    \* INITIAL_ARENA_OBJECTS, 16 in the code
    MaxArenaObjects,        \* bound: a larger arenas[] cannot be had
    PoolsPerArena,          \* ARENA_SIZE / POOL_SIZE, 64 in the code; an arena that
                            \* loses one to the alignment has several left
    NClasses,               \* size classes 1 .. NClasses, 32 in the code
    NUMBLOCKS               \* NUMBLOCKS[c]: the blocks of a pool of class c, 15 or more

ASSUME PoolArenasAssumption ==
    /\ InitialArenaObjects \in Nat \ {0}
    /\ MaxArenaObjects \in Nat \ {0}
    /\ PoolsPerArena \in Nat \ {0, 1, 2}
    /\ NClasses \in Nat \ {0}
    /\ NUMBLOCKS \in [1 .. NClasses -> Nat \ {0, 1}]

VARIABLES
    mem,        \* the allocator's globals, arenas and pools
    owned,      \* the blocks the client holds, <<pool, block>>
    program     \* which of the two allocators runs

Nil       == 0
Arena     == 1 .. MaxArenaObjects
Pool      == 1 .. MaxArenaObjects * PoolsPerArena
SizeClass == 1 .. NClasses
Block     == 1 .. (CHOOSE n \in {NUMBLOCKS[c] : c \in SizeClass} :
                     \A c \in SizeClass : NUMBLOCKS[c] <= n)

(* arenas[pool->arenaindex], and the pools of an arena from first_address. *)
ArenaOf(p)   == (p - 1) \div PoolsPerArena + 1
FirstPool(a) == (a - 1) * PoolsPerArena + 1

(* &usedpools[2c] taken for a pool: PTA(c).                                *)
PTA(c) == MaxArenaObjects * PoolsPerArena + c
Node   == Pool \union {PTA(c) : c \in SizeClass}

DUMMY_SIZE_IDX == NClasses + 1

-----------------------------------------------------------------------------
(* struct arena_object and struct pool_header.  pool_address is the next   *)
(* pool never used; used says that address is not 0.                       *)
arena_object == [used : BOOLEAN, pool_address : 1 .. MaxArenaObjects * PoolsPerArena + 1,
                 nfreepools : 0 .. PoolsPerArena, ntotalpools : 0 .. PoolsPerArena,
                 freepools : Pool \union {Nil},
                 nextarena : Arena \union {Nil}, prevarena : Arena \union {Nil}]

pool_header == [count : Int, freeblock : Seq(Block), szidx : 1 .. DUMMY_SIZE_IDX,
                nextoffset : 1 .. (Cardinality(Block) + 2)]

(* An arena object without memory, a pool nobody has used.                 *)
NoArena == [used |-> FALSE, pool_address |-> 1, nfreepools |-> 0, ntotalpools |-> 0,
            freepools |-> Nil, nextarena |-> Nil, prevarena |-> Nil]
RawPool == [count |-> 0, freeblock |-> <<>>, szidx |-> DUMMY_SIZE_IDX, nextoffset |-> 1]

NOBLOCK == <<Nil, Nil>>

(* The globals: no arena yet, and every list of usedpools its header only. *)
NoMemory ==
    [maxarenas |-> 0, unused |-> Nil, usable |-> Nil,
     arenas |-> [a \in Arena |-> NoArena],
     pool |-> [p \in Pool |-> RawPool],
     nextpool |-> [n \in Node |-> IF n \in Pool THEN Nil ELSE n],
     prevpool |-> [n \in Node |-> IF n \in Pool THEN Nil ELSE n]]

usedpools(m, c) == m.nextpool[PTA(c)]

(* What the system's allocator answers: nothing, 256 KiB at a 4 KiB        *)
(* boundary, or 256 KiB elsewhere, of which one pool is lost.              *)
System == {"fails", "aligned", "unaligned"}

(* It is asked for an arena only when none is usable.                      *)
Answers(m) == IF m.usable = Nil THEN System ELSE {"fails"}

-----------------------------------------------------------------------------
(* new_arena up to the list of unused objects: when there is none, arenas  *)
(* doubles.  The objects keep their index where the code keeps a pointer.  *)
MoreObjects(m) ==
    LET n == IF m.maxarenas = 0 THEN InitialArenaObjects ELSE 2 * m.maxarenas
    IN IF m.unused # Nil \/ n > MaxArenaObjects THEN m
       ELSE [m EXCEPT !.arenas = [a \in Arena |->
                        IF a \in (m.maxarenas + 1) .. n
                        THEN [@[a] EXCEPT !.nextarena = IF a < n THEN a + 1 ELSE Nil]
                        ELSE @[a]],
                      !.unused = m.maxarenas + 1,
                      !.maxarenas = n]

(* An arena object gets 256 KiB with pools free pools, of total in all.    *)
WithArena(m, a, pools, total) ==
    [m EXCEPT !.unused = m.arenas[a].nextarena,
              !.usable = a,
              !.arenas[a] = [used |-> TRUE, pool_address |-> FirstPool(a),
                             nfreepools |-> pools, ntotalpools |-> total,
                             freepools |-> Nil, nextarena |-> Nil, prevarena |-> Nil]]

AlignedPools(sys) == PoolsPerArena - (IF sys = "unaligned" THEN 1 ELSE 0)

(* Mutant of new_arena: total has the pool that the alignment loses.       *)
UncountedExcess(m, sys) ==
    LET m1 == MoreObjects(m)
    IN IF m1.unused = Nil \/ sys = "fails" THEN m1
       ELSE WithArena(m1, m1.unused, AlignedPools(sys), PoolsPerArena)

(* new_arena and the assignment of its result to usable_arenas.            *)
new_arena(m, sys) ==
    LET m1 == MoreObjects(m)
    IN IF m1.unused = Nil \/ sys = "fails" THEN m1
       ELSE WithArena(m1, m1.unused, AlignedPools(sys), AlignedPools(sys))

(* A pool is alone in the list of class c and gives its first block; its   *)
(* second is the list of free ones, and nextoffset the next never used.    *)
FreshPool(c, nextoffset) ==
    [count |-> 1, freeblock |-> <<2>>, szidx |-> c, nextoffset |-> nextoffset]

InitPool(m, p, c, fresh) ==
    LET next == usedpools(m, c)
        pool == m.pool[p]
        same == pool.szidx = c
    IN [m |-> [m EXCEPT !.nextpool = [@ EXCEPT ![p] = next, ![next] = p],
                        !.prevpool = [@ EXCEPT ![p] = next, ![next] = p],
                        !.pool[p] = IF same
                                    THEN [pool EXCEPT !.count = 1, !.freeblock = Tail(@)]
                                    ELSE fresh],
        bp |-> <<p, IF same THEN Head(pool.freeblock) ELSE 1>>]

(* Mutant of init_pool: the block in the list is also the next never used. *)
SecondBlockTwice(m, p, c) == InitPool(m, p, c, FreshPool(c, 2))

(* init_pool: pool p becomes the whole list of class c and gives a block.  *)
(* A pool that last had the same class keeps its blocks' list.             *)
init_pool(m, p, c) == InitPool(m, p, c, FreshPool(c, 3))

(* pool->nextoffset <= pool->maxnextoffset.                                *)
RoomLeft(pool, c) == pool.nextoffset <= NUMBLOCKS[c]

(* An allocation from the first pool of the list: the block in front is    *)
(* handed out; if it was the last, the next one never used becomes the     *)
(* list, and if there is none either the pool is full.                     *)
AllocFromPool(m, c) ==
    LET p    == usedpools(m, c)
        pool == m.pool[p]
        rest == Tail(pool.freeblock)
    IN [m |-> IF rest # <<>>
              THEN [m EXCEPT !.pool[p] = [pool EXCEPT !.count = @ + 1, !.freeblock = rest]]
              ELSE IF RoomLeft(pool, c)
              THEN [m EXCEPT !.pool[p] = [pool EXCEPT !.count = @ + 1,
                                                   !.freeblock = <<pool.nextoffset>>,
                                                   !.nextoffset = @ + 1]]
              ELSE [m EXCEPT !.pool[p] = [pool EXCEPT !.count = @ + 1, !.freeblock = <<>>]],
        bp |-> <<p, Head(pool.freeblock)>>]

(* The next pool of the first usable arena: one given back before, else    *)
(* one never used.                                                         *)
NextFreePool(m) ==
    LET ao == m.arenas[m.usable]
    IN IF ao.freepools # Nil THEN ao.freepools ELSE ao.pool_address

(* That pool is taken from its arena; an arena with no other leaves the    *)
(* list of usable ones.                                                    *)
TakePool(m) ==
    LET a    == m.usable
        p    == NextFreePool(m)
        m1   == IF m.arenas[a].freepools # Nil
                THEN [m EXCEPT !.arenas[a].freepools = m.nextpool[p],
                               !.arenas[a].nfreepools = @ - 1]
                ELSE [m EXCEPT !.arenas[a].pool_address = @ + 1,
                               !.arenas[a].nfreepools = @ - 1,
                               !.pool[p].szidx = DUMMY_SIZE_IDX]
        next == m.arenas[a].nextarena
    IN IF m1.arenas[a].nfreepools > 0 THEN m1
       ELSE IF next = Nil THEN [m1 EXCEPT !.usable = Nil]
       ELSE [m1 EXCEPT !.usable = next, !.arenas[next].prevarena = Nil]

(* The code from "no pool of this class" on: bp is no block when there is  *)
(* no arena to be had and the request is redirected to malloc.             *)
AllocFromArena(m, c, sys) ==
    LET m1 == IF m.usable = Nil THEN new_arena(m, sys) ELSE m
    IN IF m1.usable = Nil THEN [m |-> m1, bp |-> NOBLOCK]
       ELSE init_pool(TakePool(m1), NextFreePool(m1), c)

-----------------------------------------------------------------------------
(* PyObject_Free and Free: block b goes to the front of its pool's list.   *)
PushBlock(m, p, b) == [m EXCEPT !.pool[p].freeblock = <<b>> \o @]

(* Pool p leaves usedpools, its neighbours close the gap.  Its own two     *)
(* pointers are dead from here on, and Nil where the code leaves them.     *)
Unlink(m, p) ==
    [m EXCEPT !.nextpool = [@ EXCEPT ![m.prevpool[p]] = m.nextpool[p], ![p] = Nil],
              !.prevpool = [@ EXCEPT ![m.nextpool[p]] = m.prevpool[p], ![p] = Nil]]

(* Pool p, thought to be in no list, becomes the first of its class: three *)
(* reads, then four stores in this order, which matters if it IS there.    *)
LinkFirst(m, p) ==
    LET next == usedpools(m, m.pool[p].szidx)
        prev == m.prevpool[next]
    IN [m EXCEPT !.nextpool = [@ EXCEPT ![p] = next, ![prev] = p],
                 !.prevpool = [@ EXCEPT ![p] = prev, ![next] = p]]

(* An empty pool goes to the front of its arena's free pools.              *)
ToArena(m, p) ==
    LET a == ArenaOf(p)
    IN [m EXCEPT !.nextpool[p] = m.arenas[a].freepools,
                 !.arenas[a].freepools = p,
                 !.arenas[a].nfreepools = @ + 1]

(* Case 3: the arena has more free pools than its successor: it moves back *)
(* behind the last arena that has fewer.                                   *)
SlideArena(m, a) ==
    LET nf   == m.arenas[a].nfreepools
        prev == m.arenas[a].prevarena
        next == m.arenas[a].nextarena
        m1   == IF prev = Nil THEN [m EXCEPT !.usable = next, !.arenas[next].prevarena = Nil]
                ELSE [m EXCEPT !.arenas[prev].nextarena = next, !.arenas[next].prevarena = prev]
        at[i \in 0 .. MaxArenaObjects] ==
            IF i = 0 THEN [prev |-> prev, next |-> next]
            ELSE LET w == at[i - 1]
                 IN IF w.next = Nil \/ nf <= m.arenas[w.next].nfreepools THEN w
                    ELSE [prev |-> w.next, next |-> m1.arenas[w.next].nextarena]
        w == at[MaxArenaObjects]
        m2 == [m1 EXCEPT !.arenas[a] = [@ EXCEPT !.prevarena = w.prev, !.nextarena = w.next],
                         !.arenas[w.prev].nextarena = a]
    IN IF w.next = Nil THEN m2 ELSE [m2 EXCEPT !.arenas[w.next].prevarena = a]

-----------------------------------------------------------------------------
(* Reading the lists, for the properties.  The nodes a pointer leads to;   *)
(* Nil is among them when the list ends.                                   *)
Follow(next, start, n) ==
    LET at[i \in 0 .. n] == IF i = 0 THEN start
                            ELSE IF at[i - 1] = Nil THEN Nil ELSE next[at[i - 1]]
    IN {at[i] : i \in 0 .. n}

(* usedpools' list of class c is a ring of exactly these pools.            *)
IsRing(m, c, pools) ==
    /\ Follow(m.nextpool, PTA(c), Cardinality(Pool) + 1) = pools \union {PTA(c)}
    /\ \A n \in pools \union {PTA(c)} : m.prevpool[m.nextpool[n]] = n

Carved(m, a) == FirstPool(a) .. (m.arenas[a].pool_address - 1)

FreePools(m, a) ==
    IF ~m.arenas[a].used THEN {}
    ELSE Follow(m.nextpool, m.arenas[a].freepools, PoolsPerArena + 1)

(* The pools that hold or may hold blocks of a client.                     *)
PoolsInUse(m) == {p \in Pool : /\ m.arenas[ArenaOf(p)].used
                               /\ p \in Carved(m, ArenaOf(p)) \ FreePools(m, ArenaOf(p))}

(* Blocks of pool p that were handed out at least once.                    *)
CutBlocks(m, p) == 1 .. (m.pool[p].nextoffset - 1)

(* What the properties of both allocators say of the arenas: an arena's    *)
(* count of free pools is right, and its list of them ends.                *)
PoolsCounted(m) ==
    \A a \in Arena : m.arenas[a].used =>
        /\ Nil \in FreePools(m, a)
        /\ FreePools(m, a) \ {Nil} \subseteq Carved(m, a)
        /\ m.arenas[a].nfreepools = Cardinality(FreePools(m, a) \ {Nil})
                                  + m.arenas[a].ntotalpools - Cardinality(Carved(m, a))

MemType(m) ==
    /\ m.maxarenas \in 0 .. MaxArenaObjects
    /\ m.unused \in Arena \union {Nil}
    /\ m.usable \in Arena \union {Nil}
    /\ \A a \in Arena : m.arenas[a] \in arena_object
    /\ \A p \in Pool : m.pool[p] \in pool_header
    /\ m.nextpool \in [Node -> Node \union {Nil}]
    /\ m.prevpool \in [Node -> Node \union {Nil}]

HeldIn(p) == {bp[2] : bp \in {x \in owned : x[1] = p}}
FreeIn(p) == {mem.pool[p].freeblock[i] : i \in 1 .. Len(mem.pool[p].freeblock)}

Usable(m) == Follow([a \in Arena |-> m.arenas[a].nextarena], m.usable, MaxArenaObjects + 1)
Unused(m) == Follow([a \in Arena |-> m.arenas[a].nextarena], m.unused, MaxArenaObjects + 1)
=============================================================================
