------------------------------ MODULE GcPython ------------------------------
(***************************************************************************)
(* gc-python: the allocator of obmalloc.c changed into one that collects.  *)
(* Against its model (module Obmalloc) gc.c keeps a pool that has given    *)
(* its last block in usedpools, runs gc() at that moment inside Malloc,    *)
(* unlinks the pool when the next request finds it empty, never returns an *)
(* arena and never makes a full arena usable again.  sweep.c marks from    *)
(* the stack and sweeps the first arena.                                   *)
(*                                                                         *)
(* An object is a block <<pool, number>>, or <<Nil, k>> when the system's  *)
(* malloc gave it and Hugmem lists it.  Each has one word for a pointer.   *)
(* FL_ALLOC is set in exactly the objects of owned.                        *)
(***************************************************************************)
EXTENDS PoolArenas, SequencesExt

CONSTANTS
    ObjSize,        \* the size classes of objects, header included, 2 or more:
                    \* in class 1 the list's link lies behind the block
    MaxObjects,     \* bound: objects at a time
    MaxHuge,        \* bound: entries of Hugmem
    MaxExcess       \* bound: how far ref.count runs ahead of a pool's blocks

ASSUME GcPythonAssumption ==
    /\ ObjSize \subseteq SizeClass \ {1}
    /\ MaxObjects \in Nat
    /\ MaxHuge \in Nat
    /\ MaxExcess \in Nat

VARIABLES
    refs,       \* refs[o]: the pointer stored in object o
    roots,      \* the objects the words of the stack point to
    broken      \* a pool was linked that was linked already, or over others:
                \* a record of the past the code does not keep

pyvars == <<mem, owned, program, refs, roots, broken>>

Hugmem == {Nil} \X (1 .. MaxHuge)
Object == (Pool \X Block) \union Hugmem

PyInit == /\ mem = NoMemory /\ owned = {} /\ program = "gc-python"
          /\ refs = [o \in Object |-> NOBLOCK] /\ roots = {} /\ broken = FALSE

(* What Malloc and Free change: the allocator, the live objects, and their *)
(* contents, which Free overwrites with zeros.                             *)
Heap == [mem |-> mem, owned |-> owned, refs |-> refs, broken |-> broken]

Ring(m, c) == Follow(m.nextpool, PTA(c), Cardinality(Pool) + 1)

-----------------------------------------------------------------------------
(* A block is freed: the pool of p becomes m, its contents zeros.          *)
Freed(h, m, p, b) ==
    [mem |-> m, owned |-> h.owned \ {<<p, b>>}, refs |-> [h.refs EXCEPT ![<<p, b>>] = NOBLOCK],
     broken |-> \/ h.broken
                \/ h.mem.pool[p].freeblock = <<>> /\ p \in Ring(h.mem, h.mem.pool[p].szidx)]

(* Mutant of Free: a pool that was full is not linked.                     *)
LeftUnlinked(h, p, b) ==
    LET pool == h.mem.pool[p]
        m    == PushBlock([h.mem EXCEPT !.pool[p].count = @ - 1], p, b)
    IN Freed(h, IF pool.freeblock = <<>> \/ pool.count > 1 THEN m
                ELSE ToArena(Unlink(m, p), p), p, b)

(* Free of a block of a pool.  That the pool was full is read off its list *)
(* of free blocks; it is then linked, be it linked already or not.  The    *)
(* arenas are only kept in order, not revived and not returned.            *)
Free(h, p, b) ==
    LET pool == h.mem.pool[p]
        a    == ArenaOf(p)
        m1   == PushBlock([h.mem EXCEPT !.pool[p].count = @ - 1], p, b)
        m2   == ToArena(Unlink(m1, p), p)
        next == m2.arenas[a].nextarena
    IN IF pool.count = 0 THEN h
       ELSE Freed(h, IF pool.freeblock = <<>> THEN LinkFirst(m1, p)
                     ELSE IF pool.count > 1 THEN m1
                     ELSE IF next = Nil \/ m2.arenas[a].nfreepools <= m2.arenas[next].nfreepools
                     THEN m2 ELSE SlideArena(m2, a), p, b)

(* gc_free: what is not in a pool leaves Hugmem and goes to the system.    *)
gc_free(h, o) ==
    IF o \in Hugmem THEN [h EXCEPT !.owned = @ \ {o}, !.refs[o] = NOBLOCK]
    ELSE Free(h, o[1], o[2])

-----------------------------------------------------------------------------
(* gc_mark knows the objects of the first arena only.                      *)
Markable(h) == {o \in h.owned : o \notin Hugmem /\ ArenaOf(o[1]) = 1}

(* Mutant of gc_mark: the object's words are not followed.                 *)
NoChildren(h, start) == start \intersect Markable(h)

(* gc_mark: the object, and through its words what it refers to.           *)
gc_mark(h, start) ==
    LET step(S) == S \union ({h.refs[o] : o \in S} \intersect Markable(h))
        at[i \in 0 .. MaxObjects] == IF i = 0 THEN start \intersect Markable(h)
                                     ELSE step(at[i - 1])
    IN at[MaxObjects]

(* mark of Hugmem.c: the children of an entry of the list; the entry's own *)
(* mark is never looked at.                                                *)
mark(h, v) == IF v \in h.owned \intersect Hugmem THEN {h.refs[v]} ELSE {}

(* scan_stack: every word of the stack goes to gc_mark, and to mark if it  *)
(* does not lie in the first arena.  scan_register adds nothing: what a    *)
(* register holds is read only as the address of such a word, and a        *)
(* pointer kept in a register alone is no root.                            *)
scan_stack(h, stack) ==
    gc_mark(h, (stack \intersect Markable(h)) \union UNION {mark(h, v) : v \in stack})

Before(x, y) == x[1] < y[1] \/ (x[1] = y[1] /\ x[2] < y[2])

(* Mutant of gc_sweep: the walk over a pool starts at its second block.    *)
SkipsFirst(h, marked) ==
    FoldLeft(LAMBDA g, o : Free(g, o[1], o[2]), h,
             SetToSortSeq({o \in Markable(h) \ marked : o[2] > 1}, Before))

(* gc_sweep: in the order of addresses, every unmarked object of the first *)
(* arena is freed.                                                         *)
gc_sweep(h, marked) ==
    FoldLeft(LAMBDA g, o : Free(g, o[1], o[2]), h,
             SetToSortSeq(Markable(h) \ marked, Before))

gc(h, stack) == gc_sweep(h, scan_stack(h, stack))

-----------------------------------------------------------------------------
(* From the label expend_pool on gc.c has the text of obmalloc.c.          *)
expend_pool(m, c, sys) == AllocFromArena(m, c, sys)

(* Malloc from the pool in front of usedpools.  The count is raised before *)
(* the list is looked at: a pool found empty is unlinked with one too many *)
(* and a new one is taken, whatever else is in the list.  The block that   *)
(* empties the list is returned after a collection.                        *)
Malloc(h, c, sys, stack) ==
    LET m    == h.mem
        p    == usedpools(m, c)
        pool == m.pool[p]
        m1   == IF p # m.nextpool[p] /\ pool.freeblock = <<>>
                THEN Unlink([m EXCEPT !.pool[p].count = @ + 1], p) ELSE m
        take == p = m.nextpool[p] \/ pool.freeblock = <<>>
        r    == IF take THEN expend_pool(m1, c, sys)
                ELSE AllocFromPool(m, c)
        h1   == [h EXCEPT !.mem = r.m,
                          !.broken = @ \/ (/\ take /\ r.bp # NOBLOCK
                                          /\ usedpools(m1, c) # PTA(c))]
        last == p # m.nextpool[p] /\ Len(pool.freeblock) = 1 /\ ~RoomLeft(pool, c)
    IN [h |-> IF last THEN gc(h1, stack) ELSE h1, bp |-> r.bp]

(* gc_malloc: a class the arenas cannot serve gets a block of the system's *)
(* malloc and an entry in Hugmem.                                          *)
GcMalloc(h, c, sys, stack) ==
    LET r    == Malloc(h, c, sys, stack)
        huge == Hugmem \ r.h.owned
        o    == IF r.bp # NOBLOCK THEN r.bp
                ELSE IF huge = {} THEN NOBLOCK
                ELSE CHOOSE x \in huge : \A y \in huge : x[2] <= y[2]
    IN [h |-> [r.h EXCEPT !.owned = @ \union {o}], new |-> o]

-----------------------------------------------------------------------------
(* The client's rules: pointers into the first arena are only kept in      *)
(* objects of it, and an object is freed when no other one refers to it.   *)
MayStore(o, x) == o \in Markable(Heap) \/ x \notin Markable(Heap)
MayFree(o)     == o \in roots /\ \A x \in owned : refs[x] # o

(* ref.count grows by one whenever a full pool is unlinked; the bound.     *)
Bounded(h) == \A p \in Pool : \A c \in SizeClass :
    h.mem.pool[p].szidx = c => h.mem.pool[p].count <= NUMBLOCKS[c] + MaxExcess

Become(h) == Bounded(h) /\ mem' = h.mem /\ owned' = h.owned /\ refs' = h.refs /\ broken' = h.broken

ClientMalloc ==
    /\ Cardinality(owned) < MaxObjects
    /\ \E c \in ObjSize, sys \in Answers(mem) : \E r \in {GcMalloc(Heap, c, sys, roots)} :
         r.new # NOBLOCK /\ Become(r.h) /\ roots' = roots \union {r.new}

ClientFree ==
    \E o \in roots : MayFree(o) /\ Become(gc_free(Heap, o)) /\ roots' = roots \ {o}

(* gc_realloc: a new object, the old one's contents, and the old one goes. *)
gc_realloc ==
    \E o \in roots, c \in ObjSize, sys \in Answers(mem) :
    \E r \in {GcMalloc(Heap, c, sys, roots)} :
       /\ MayFree(o) /\ r.new # NOBLOCK
       /\ r.new \notin Markable(r.h) => refs[o] \notin Markable(Heap)
       /\ Become(gc_free([r.h EXCEPT !.refs[r.new] = refs[o]], o))
       /\ roots' = (roots \ {o}) \union {r.new}

ClientGc == mem.maxarenas > 0 /\ Become(gc(Heap, roots)) /\ UNCHANGED roots

(* The client's own steps: it forgets an object, follows or stores one.    *)
Forget == \E o \in roots : roots' = roots \ {o} /\ UNCHANGED <<mem, owned, refs, broken>>
Load   == \E o \in roots : /\ refs[o] # NOBLOCK
                          /\ roots' = roots \union {refs[o]} /\ UNCHANGED <<mem, owned, refs, broken>>
Store  == \E o \in roots, x \in roots \union {NOBLOCK} :
             /\ MayStore(o, x)
             /\ refs' = [refs EXCEPT ![o] = x] /\ UNCHANGED <<mem, owned, roots, broken>>

(* What the code does with a broken ring is not modelled: it stops there.  *)
PyNext ==
    /\ program = "gc-python" /\ UNCHANGED program /\ ~broken
    /\ ClientMalloc \/ ClientFree \/ gc_realloc \/ ClientGc \/ Forget \/ Load \/ Store

PySpec == PyInit /\ [][PyNext]_pyvars

-----------------------------------------------------------------------------
PyTypeOK ==
    /\ MemType(mem)
    /\ owned \subseteq Object /\ roots \subseteq Object
    /\ refs \in [Object -> Object \union {NOBLOCK}]

Reachable ==
    LET at[i \in 0 .. MaxObjects] ==
            IF i = 0 THEN roots
            ELSE at[i - 1] \union ({refs[o] : o \in at[i - 1]} \ {NOBLOCK})
    IN at[MaxObjects]

(* No collection, in whatever call it happens, frees an object the client  *)
(* can reach.                                                              *)
ReachableKept == Reachable \subseteq owned

(* A block ever cut is live or once in its pool's list, and no live object *)
(* lies in a pool its arena may give away: ref.count is never too small.   *)
PyBlocksExact ==
    /\ PyTypeOK
    /\ program = "gc-python" /\ ~broken =>
      /\ \A o \in owned \ Hugmem : o[1] \in PoolsInUse(mem)
      /\ \A p \in PoolsInUse(mem) :
           /\ Cardinality(HeldIn(p)) <= mem.pool[p].count /\ mem.pool[p].count > 0
           /\ HeldIn(p) \intersect FreeIn(p) = {}
           /\ HeldIn(p) \union FreeIn(p) = CutBlocks(mem, p)
           /\ Cardinality(FreeIn(p)) = Len(mem.pool[p].freeblock)

(* Until a pool is linked a second time, the list of a class is a ring     *)
(* that has every pool with a block to give, and no pool of an arena.      *)
NoPoolMissing ==
    program = "gc-python" /\ ~broken =>
    /\ PoolsCounted(mem)
    /\ \A c \in SizeClass :
         LET ring == Ring(mem, c) \ {PTA(c)}
             used == {p \in PoolsInUse(mem) : mem.pool[p].szidx = c}
         IN /\ IsRing(mem, c, ring) /\ ring \subseteq used
            /\ \A p \in used : mem.pool[p].freeblock # <<>> => p \in ring

(* A collection frees every object of the first arena that the client      *)
(* cannot reach; of the others it frees none.                              *)
CollectExact ==
    [][program = "gc-python" /\ ClientGc => owned' = owned \ (Markable(Heap) \ Reachable)]_pyvars
=============================================================================
