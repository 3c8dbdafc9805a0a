------------------------------- MODULE GcHeap -------------------------------
(***************************************************************************)
(* The allocator every collector of the repository but three shares:       *)
(* gc.c and gc.h.  Its operations are operators on a heap record           *)
(*                                                                         *)
(*    free_list  first node of the singly linked list of free blocks       *)
(*    heaps      gc_heaps[0 .. gc_heaps_used-1] as a sequence              *)
(*    hdr        what the 48 bytes at an address read as when taken for a  *)
(*               Header: a header stays in memory after its block was      *)
(*               merged or handed out, so hdr is a function of addresses   *)
(*               and not of blocks                                         *)
(*                                                                         *)
(* One unit of memory is one HEADER_SIZE; every request is rounded to it.  *)
(* Addresses are 1 .. MaxAddr and NULL is 0.                               *)
(***************************************************************************)
EXTENDS Integers, Sequences, FiniteSetsExt, SequencesExt

CONSTANTS
    TINY_HEAP_SIZE,     \* least size of a heap, in units
    MaxAddr             \* bound of the model: the last address sbrk reaches

ASSUME HeapAssumption ==
    /\ TINY_HEAP_SIZE \in Nat \ {0}
    /\ MaxAddr \in Nat \ {0}

HEADER_SIZE == 1
NULL == 0
Addr == 1 .. MaxAddr

Blank == [size |-> 0, next_free |-> NULL, flags |-> {}]

EmptyHeap == [free_list |-> NULL, heaps |-> <<>>, hdr |-> [a \in Addr |-> Blank]]

NEXT_HEADER(h, p) == p + h.hdr[p].size

-----------------------------------------------------------------------------
(* The free list, from its head; the last entry is NULL unless the list    *)
(* runs into a cycle.                                                      *)
FreeList(h) ==
    LET walk[k \in 0 .. MaxAddr] ==
          IF k = 0 THEN <<h.free_list>>
          ELSE LET w == walk[k - 1]
               IN IF Last(w) = NULL THEN w ELSE Append(w, h.hdr[Last(w)].next_free)
    IN walk[MaxAddr]

Endless(h) == Last(FreeList(h)) # NULL

Nodes(h) == ToSet(FreeList(h)) \ {NULL}

(* Positions of the free list whose block is large enough.                 *)
Fits(h, req) ==
    LET w == FreeList(h)
    IN {k \in DOMAIN w : w[k] # NULL /\ h.hdr[w[k]].size >= req}

(* Mutant of CutAt: the header's own unit is not counted.                  *)
CutInside(prevp, p, req) == prevp + req - HEADER_SIZE

(* Where a block that is too big is cut: the code steps from prevp, the    *)
(* node before the block, not from the block itself.                       *)
CutAt(prevp, p, req) == prevp + req

(* gc_malloc from the label alloc to the return: first fit, the block      *)
(* leaves the list or is cut in two, and the list restarts at what         *)
(* precedes it or is left of it.  The block keeps its next_free.           *)
TakeFirstFit(h, req) ==
    LET w     == FreeList(h)
        k     == Min(Fits(h, req))
        p     == w[k]
        prevp == IF k = 1 THEN p ELSE w[k - 1]
        rest  == CutAt(prevp, p, req)
        exact == h.hdr[p].size = req
        taken(hdr) == [hdr EXCEPT ![p].size = req, ![p].flags = {"ALLOC"}]
    IN [ptr  |-> p,
        heap |->
          IF exact /\ p = prevp THEN
            [h EXCEPT !.free_list = h.hdr[p].next_free, !.hdr = taken(h.hdr)]
          ELSE IF exact THEN
            [h EXCEPT !.free_list = prevp,
                      !.hdr = taken([h.hdr EXCEPT ![prevp].next_free = h.hdr[p].next_free])]
          ELSE
            [h EXCEPT !.free_list = rest,
                      !.hdr = taken([h.hdr EXCEPT ![rest] = [h.hdr[p] EXCEPT !.size = @ - req]])]]

-----------------------------------------------------------------------------
(* gc_free's memset and flags: the block's body is cleared, headers of     *)
(* former blocks in it included.                                           *)
Cleared(h, t) ==
    [a \in Addr |->
       IF a \in t + HEADER_SIZE .. NEXT_HEADER(h, t) - 1 THEN Blank
       ELSE IF a = t THEN [h.hdr[t] EXCEPT !.flags = {}] ELSE h.hdr[a]]

(* The search stops at a node the target lies behind, at the place where   *)
(* the list wraps to a lower address, or at the last node.                 *)
StopsAt(hdr, hit, t) ==
    LET nxt == hdr[hit].next_free
    IN \/ nxt = NULL
       \/ t >= hit /\ t <= nxt
       \/ hit >= nxt /\ (t > hit \/ t < nxt)

(* Mutant of MergeRight: the merged neighbour stays in the list.           *)
MergeRightListed(hdr, hit, t) ==
    LET nxt == hdr[hit].next_free
    IN [hdr EXCEPT ![t].size = IF t + @ = nxt THEN @ + hdr[nxt].size ELSE @,
                   ![t].next_free = nxt]

(* The right neighbour of the target is the next free block: merge it.     *)
MergeRight(hdr, hit, t) ==
    LET nxt == hdr[hit].next_free
    IN IF t + hdr[t].size = nxt
       THEN [hdr EXCEPT ![t].size = @ + hdr[nxt].size, ![t].next_free = hdr[nxt].next_free]
       ELSE [hdr EXCEPT ![t].next_free = nxt]

(* Mutant of MergeLeft: a target that cannot be merged is not linked.      *)
MergeLeftUnlinked(hdr, hit, t) ==
    IF hit + hdr[hit].size = t
    THEN [hdr EXCEPT ![hit].size = @ + hdr[t].size, ![hit].next_free = hdr[t].next_free]
    ELSE hdr

(* The left neighbour of the target is the hit: merge the target into it.  *)
MergeLeft(hdr, hit, t) ==
    IF hit + hdr[hit].size = t
    THEN [hdr EXCEPT ![hit].size = @ + hdr[t].size, ![hit].next_free = hdr[t].next_free]
    ELSE [hdr EXCEPT ![hit].next_free = t]

(* Freeing into an empty list: the target becomes the list, with whatever  *)
(* next_free it had.                                                       *)
OnlyNode(h, hdr, t) == [h EXCEPT !.free_list = t, !.hdr = hdr]

gc_free(h, t) ==
    LET hdr  == Cleared(h, t)
        fl   == h.free_list
        w    == FreeList([h EXCEPT !.hdr = hdr])
        hit  == w[Min({k \in DOMAIN w : w[k] # NULL /\ StopsAt(hdr, w[k], t)})]
    IN IF fl = NULL THEN OnlyNode(h, hdr, t)
       ELSE IF t + hdr[t].size = fl THEN
         [h EXCEPT !.free_list = t,
                   !.hdr = [hdr EXCEPT ![t].size = @ + hdr[fl].size,
                                       ![t].next_free = hdr[fl].next_free]]
       ELSE [h EXCEPT !.hdr = MergeLeft(MergeRight(hdr, hit, t), hit, t)]

-----------------------------------------------------------------------------
(* add_heap: sbrk returns fresh memory behind the last heap, separated     *)
(* from it by the PTRSIZE bytes asked for on top (one unit here): blocks   *)
(* of two heaps are never adjacent.                                        *)
Brk(h) == IF h.heaps = <<>> THEN 1 ELSE Last(h.heaps).slot + Last(h.heaps).size + 1

HeapSize(req) == IF req < TINY_HEAP_SIZE THEN TINY_HEAP_SIZE ELSE req

(* The units of the heaps.                                                 *)
Units(h) == UNION {s.slot .. (s.slot + s.size - 1) : s \in ToSet(h.heaps)}

HasRoom(h, req) == Brk(h) + HeapSize(req) - 1 <= MaxAddr

NewHeap(h, size) ==
    [h EXCEPT !.heaps = Append(@, [slot |-> Brk(h), size |-> size]),
              !.hdr[Brk(h)] = [size |-> size, next_free |-> NULL, flags |-> {}]]

(* The one block of a new heap enters the free list.                       *)
AddFree(h, t) == IF h.free_list = NULL THEN [h EXCEPT !.free_list = t] ELSE gc_free(h, t)

gc_grow(h, req) == AddFree(NewHeap(h, HeapSize(req)), Brk(h))

(* gc_init of the collectors that start with n heaps of a given size.      *)
gc_init(n, size) ==
    LET init[k \in 0 .. n] ==
          IF k = 0 THEN EmptyHeap ELSE AddFree(NewHeap(init[k - 1], size), Brk(init[k - 1]))
    IN init[n]

(* gc_malloc.  collected is the heap that gc() makes of h; it is used when *)
(* the first walk of the list finds nothing.  The result's ptr is NULL     *)
(* when the memory is out and growing is off.                              *)
gc_malloc(h, collected, grow, req) ==
    LET h1 == IF Fits(h, req) # {} THEN h ELSE collected
        h2 == IF Fits(h1, req) # {} \/ ~grow THEN h1 ELSE gc_grow(h1, req)
    IN IF Fits(h2, req) # {} THEN TakeFirstFit(h2, req) ELSE [ptr |-> NULL, heap |-> h2]

-----------------------------------------------------------------------------
(* The blocks of heap i as NEXT_HEADER enumerates them: what get_header    *)
(* and every sweep walk.                                                   *)
Chain(h, i) ==
    LET end == h.heaps[i].slot + h.heaps[i].size
        walk[k \in 0 .. MaxAddr] ==
          IF k = 0 THEN <<h.heaps[i].slot>>
          ELSE LET w == walk[k - 1]
               IN IF Last(w) >= end THEN w ELSE Append(w, NEXT_HEADER(h, Last(w)))
    IN walk[MaxAddr]

ChainEnds(h, i) == Last(Chain(h, i)) = h.heaps[i].slot + h.heaps[i].size

Blocks(h) == UNION {LET c == Chain(h, i) IN ToSet(Front(c)) : i \in DOMAIN h.heaps}

Allocated(h) == {b \in Blocks(h) : "ALLOC" \in h.hdr[b].flags}

Body(h, b) == b + HEADER_SIZE .. NEXT_HEADER(h, b) - 1

(* is_pointer_to_heap, get_header and the test of FL_ALLOC, as gc_mark     *)
(* chains them: the allocated block whose body holds an address.           *)
Target(h) ==
    LET B == Allocated(h)
    IN [a \in NULL .. MaxAddr |->
          LET C == {b \in B : a \in Body(h, b)} IN IF C = {} THEN NULL ELSE CHOOSE b \in C : TRUE]
=============================================================================
