------------------------------ MODULE Obmalloc ------------------------------
(***************************************************************************)
(* gc-python/malloc/obmalloc.c under a client that allocates, frees and    *)
(* reallocates.  A pool is unlinked from usedpools with its last block,    *)
(* linked again with the first block that comes back, and an arena with no *)
(* block in use is returned to the system.  The code is not locked (the    *)
(* comments name the places): one thread, one call at a time.              *)
(***************************************************************************)
EXTENDS PoolArenas

CONSTANTS
    Request,    \* sizes in bytes the client asks for
    MaxOwned    \* bound: blocks the client holds at a time

ASSUME ObmallocAssumption ==
    /\ Request \subseteq Nat \ {0}
    /\ MaxOwned \in Nat

obvars == <<mem, owned, program>>

ObInit == mem = NoMemory /\ owned = {} /\ program = "obmalloc"

INDEX2SIZE(c) == 8 * c
ClassOf(nbytes) == (nbytes - 1) \div 8 + 1

-----------------------------------------------------------------------------
(* A pool that gave its last block leaves usedpools.                       *)
UnlinkFull(r, p) ==
    IF r.m.pool[p].freeblock = <<>> THEN [r EXCEPT !.m = Unlink(@, p)] ELSE r

(* Mutant of MallocBlock: a pool that gave its last block stays linked.    *)
StaysLinked(m, c, sys) ==
    IF usedpools(m, c) # PTA(c) THEN AllocFromPool(m, c)
    ELSE AllocFromArena(m, c, sys)

(* PyObject_Malloc for a request of class c.                               *)
MallocBlock(m, c, sys) ==
    IF usedpools(m, c) # PTA(c) THEN UnlinkFull(AllocFromPool(m, c), usedpools(m, c))
    ELSE AllocFromArena(m, c, sys)

-----------------------------------------------------------------------------
(* Case 1: the arena is empty, leaves usable_arenas and goes back to the   *)
(* system, contents and all; its object is the first unused one.           *)
ReturnArena(m, a) ==
    LET prev == m.arenas[a].prevarena
        next == m.arenas[a].nextarena
        m1   == IF prev = Nil THEN [m EXCEPT !.usable = next]
                ELSE [m EXCEPT !.arenas[prev].nextarena = next]
        m2   == IF next = Nil THEN m1 ELSE [m1 EXCEPT !.arenas[next].prevarena = prev]
    IN [m2 EXCEPT !.arenas[a] = [NoArena EXCEPT !.nextarena = m.unused],
                  !.unused = a,
                  !.pool = [p \in Pool |-> IF ArenaOf(p) = a THEN RawPool ELSE @[p]],
                  !.nextpool = [n \in Node |-> IF n \in Pool /\ ArenaOf(n) = a THEN Nil ELSE @[n]],
                  !.prevpool = [n \in Node |-> IF n \in Pool /\ ArenaOf(n) = a THEN Nil ELSE @[n]]]

(* Case 2: the arena has its only free pool: it becomes usable again.      *)
ReviveArena(m, a) ==
    LET m1 == [m EXCEPT !.arenas[a] = [@ EXCEPT !.nextarena = m.usable, !.prevarena = Nil],
                        !.usable = a]
    IN IF m.usable = Nil THEN m1 ELSE [m1 EXCEPT !.arenas[m.usable].prevarena = a]

(* Mutant of ArrangeArena: case 3 is taken for case 4.                     *)
Unsorted(m, a) ==
    LET ao == m.arenas[a]
    IN IF ao.nfreepools = ao.ntotalpools THEN ReturnArena(m, a)
       ELSE IF ao.nfreepools = 1 THEN ReviveArena(m, a)
       ELSE m

(* Mutant of ArrangeArena: case 2 is forgotten.                            *)
NotRevived(m, a) ==
    LET ao == m.arenas[a]
    IN IF ao.nfreepools = ao.ntotalpools THEN ReturnArena(m, a) ELSE m

(* The arena management of PyObject_Free, when arena a has got a pool.     *)
ArrangeArena(m, a) ==
    LET ao == m.arenas[a]
    IN IF ao.nfreepools = ao.ntotalpools THEN ReturnArena(m, a)
       ELSE IF ao.nfreepools = 1 THEN ReviveArena(m, a)
       ELSE IF ao.nextarena = Nil \/ ao.nfreepools <= m.arenas[ao.nextarena].nfreepools THEN m
       ELSE SlideArena(m, a)

(* PyObject_Free of a block of a pool: a pool that was full is linked      *)
(* again, a pool that becomes empty goes to its arena.                     *)
FreeBlock(m, p, b) ==
    LET m1 == PushBlock([m EXCEPT !.pool[p].count = @ - 1], p, b)
    IN IF m.pool[p].freeblock = <<>> THEN LinkFirst(m1, p)
       ELSE IF m1.pool[p].count # 0 THEN m1
       ELSE ArrangeArena(ToArena(Unlink(m1, p), p), ArenaOf(p))

-----------------------------------------------------------------------------
(* The block a request of nbytes gets, no block if it is redirected to the *)
(* system's malloc: too large for a class, or no arena to be had.          *)
Allocate(m, nbytes, sys) ==
    IF ClassOf(nbytes) \in SizeClass THEN MallocBlock(m, ClassOf(nbytes), sys)
    ELSE [m |-> m, bp |-> NOBLOCK]

(* PyObject_Malloc; what the system's malloc hands out is not followed.    *)
PyObject_Malloc(nbytes) ==
    \E sys \in Answers(mem) :
      LET r == Allocate(mem, nbytes, sys)
      IN /\ mem' = r.m
         /\ owned' = owned \union ({r.bp} \ {NOBLOCK})
         /\ Cardinality(owned') <= MaxOwned

PyObject_Free(bp) == mem' = FreeBlock(mem, bp[1], bp[2]) /\ owned' = owned \ {bp}

(* A block keeps its place if the request fits and fills three quarters.   *)
StaysPut(p, nbytes) ==
    LET size == INDEX2SIZE(mem.pool[p].szidx)
    IN nbytes <= size /\ 4 * nbytes > 3 * size

(* PyObject_Realloc of a block of a pool: a new block, the old one freed;  *)
(* if the system refuses a redirected request, the old one is kept.        *)
PyObject_Realloc(bp, nbytes) ==
    /\ ~StaysPut(bp[1], nbytes)
    /\ \E sys \in Answers(mem) :
         LET r == Allocate(mem, nbytes, sys)
         IN \/ /\ mem' = FreeBlock(r.m, bp[1], bp[2])
               /\ owned' = (owned \union ({r.bp} \ {NOBLOCK})) \ {bp}
            \/ r.bp = NOBLOCK /\ mem' = r.m /\ UNCHANGED owned

ObNext ==
    /\ program = "obmalloc" /\ UNCHANGED program
    /\ \/ \E nbytes \in Request : PyObject_Malloc(nbytes)
       \/ \E bp \in owned : PyObject_Free(bp)
       \/ \E bp \in owned, nbytes \in Request : PyObject_Realloc(bp, nbytes)

-----------------------------------------------------------------------------
(* The globals, the headers of arenas and pools and the client's blocks    *)
(* have the types the code gives them.                                     *)
ObTypeOK ==
    /\ MemType(mem)
    /\ program = "obmalloc" => owned \subseteq Pool \X Block

(* usedpools' ring of a class holds exactly the pools of that class that   *)
(* have a block to give, each once and linked both ways: the comment in    *)
(* PyObject_Free "was full and is in no list".                             *)
UsedPoolsExact ==
    program = "obmalloc" => \A c \in SizeClass :
        IsRing(mem, c, {p \in PoolsInUse(mem) : mem.pool[p].szidx = c /\ mem.pool[p].freeblock # <<>>})

(* Every block ever cut from a pool is either the client's or once in the  *)
(* pool's list; ref.count is what the client holds; no block the client    *)
(* holds lies in a pool that its arena may give to another class.          *)
BlocksExact ==
    /\ ObTypeOK
    /\ program = "obmalloc" =>
      /\ \A bp \in owned : bp[1] \in PoolsInUse(mem)
      /\ \A p \in PoolsInUse(mem) :
           /\ HeldIn(p) # {} /\ mem.pool[p].count = Cardinality(HeldIn(p))
           /\ HeldIn(p) \intersect FreeIn(p) = {}
           /\ HeldIn(p) \union FreeIn(p) = CutBlocks(mem, p)
           /\ Cardinality(FreeIn(p)) = Len(mem.pool[p].freeblock)

(* usable_arenas is the list of exactly the arenas with a free pool, in    *)
(* order of their number, linked both ways; the rest of the objects is in  *)
(* unused_arena_objects; the numbers are right.                            *)
ArenasExact ==
    program = "obmalloc" =>
    /\ PoolsCounted(mem)
    /\ Usable(mem) = {a \in Arena : mem.arenas[a].used /\ mem.arenas[a].nfreepools > 0} \union {Nil}
    /\ Unused(mem) = {a \in 1 .. mem.maxarenas : ~mem.arenas[a].used} \union {Nil}
    /\ \A a \in Usable(mem) \ {Nil} :
         LET next == mem.arenas[a].nextarena
         IN /\ a = mem.usable => mem.arenas[a].prevarena = Nil
            /\ next # Nil => /\ mem.arenas[next].prevarena = a
                             /\ mem.arenas[a].nfreepools <= mem.arenas[next].nfreepools

(* A client that has freed everything leaves no arena behind, whatever the *)
(* order of its calls.                                                     *)
NothingRetained ==
    program = "obmalloc" /\ owned = {} => \A a \in Arena : ~mem.arenas[a].used

(* A new arena is asked for only when no arena has a free pool.            *)
ArenaWhenNeeded ==
    [][\A a, b \in Arena : /\ program = "obmalloc"
                           /\ ~mem.arenas[a].used /\ mem'.arenas[a].used
                           /\ mem.arenas[b].used
                           => mem.arenas[b].nfreepools = 0]_obvars

ObSpec == ObInit /\ [][ObNext]_obvars
=============================================================================
