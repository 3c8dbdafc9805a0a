----------------------------- MODULE HeapClient -----------------------------
(***************************************************************************)
(* gc.c under a client that allocates and frees by hand, in the build      *)
(* whose gc() does nothing (refcount/refcount.c).  The client has a few    *)
(* pointer variables; it calls gc_malloc for an unused one and gc_free     *)
(* for a used one, in any order.                                           *)
(***************************************************************************)
EXTENDS GcHeap

CONSTANTS
    Var,            \* the client's pointer variables
    ReqSize,        \* sizes it asks for, header included
    Setup,          \* how it may set the allocator up: the heaps gc_init
                    \* makes, 0 if they come by growing, their size, auto_grow
    Reserve         \* units the client leaves free

ASSUME ClientAssumption ==
    /\ ReqSize \subseteq Nat \ {0}
    /\ Setup \subseteq [heaps : Nat, size : Nat, auto_grow : BOOLEAN]
    /\ \A s \in Setup : s.heaps > 0 => s.size > 0 /\ s.heaps * (s.size + 1) <= MaxAddr + 1
    /\ Reserve \in Nat

(* A client whose requests are all of one size r, less than a heap, which  *)
(* divides the heaps, and which always leaves something free: under these  *)
(* conditions the properties below hold.                                   *)
Uniform(r) ==
    /\ ReqSize = {r}
    /\ Reserve > 0
    /\ TINY_HEAP_SIZE > r /\ TINY_HEAP_SIZE % r = 0
    /\ \A s \in Setup : s.size % r = 0
UniformClient == \E r \in ReqSize : Uniform(r)

VARIABLES
    heap,           \* the allocator's globals and the memory
    auto_grow,
    own,            \* own[v]: the block v points to and the size asked for
    denied          \* the size the last call asked for, if it returned NULL

vars == <<heap, auto_grow, own, denied>>

None == [ptr |-> NULL, req |-> 0]

Held == {v \in Var : own[v] # None}
Extent(v) == own[v].ptr .. (own[v].ptr + own[v].req - 1)

(* The units of the heaps, and those the client has.                       *)
Total == Cardinality(Units(heap))
InUse == Cardinality(UNION {Extent(v) : v \in Held})

Init ==
    /\ \E s \in Setup : heap = gc_init(s.heaps, s.size) /\ auto_grow = s.auto_grow
    /\ own = [v \in Var |-> None]
    /\ denied = 0

(* The call would walk a cyclic list for ever.                             *)
Hangs(req) == Fits(heap, req) = {} /\ Endless(heap)

Malloc(v, req) ==
    /\ own[v] = None
    /\ heap.heaps = <<>> \/ Reserve = 0 \/ InUse + req + Reserve <= Total
    /\ Fits(heap, req) = {} /\ auto_grow => HasRoom(heap, req)
    /\ ~Hangs(req)
    /\ LET res == gc_malloc(heap, heap, auto_grow, req)
       IN /\ heap' = res.heap
          /\ IF res.ptr = NULL THEN denied' = req /\ UNCHANGED own
             ELSE denied' = 0 /\ own' = [own EXCEPT ![v] = [ptr |-> res.ptr, req |-> req]]
    /\ UNCHANGED auto_grow

Free(v) ==
    /\ own[v] # None
    /\ heap' = gc_free(heap, own[v].ptr)
    /\ own' = [own EXCEPT ![v] = None]
    /\ UNCHANGED <<auto_grow, denied>>

Next == \E v \in Var : Free(v) \/ \E req \in ReqSize : Malloc(v, req)

Spec == Init /\ [][Next]_vars

-----------------------------------------------------------------------------
(* The allocator's globals stay inside the memory it got from sbrk: no     *)
(* list head, link or size ever points or counts beyond it (gc.h:17-50).   *)
TypeOK ==
    /\ heap.free_list \in Addr \union {NULL}
    /\ heap.heaps \in Seq([slot : Addr, size : 1 .. MaxAddr])
    /\ heap.hdr \in [Addr -> [size : 0 .. MaxAddr, next_free : Addr \union {NULL},
                              flags : SUBSET {"ALLOC"}]]
    /\ own \in [Var -> {None} \union [ptr : Addr, req : ReqSize]]
    /\ denied \in {0} \union ReqSize
    /\ auto_grow \in BOOLEAN

(* NEXT_HEADER leads from the first header of every heap exactly to its    *)
(* end, as gc.h:52 draws it; get_header and every sweep rely on it.        *)
HeapTiled == TypeOK /\ \A i \in DOMAIN heap.heaps : ChainEnds(heap, i)

(* A block is in the free list or in the client's hands, never in both and *)
(* never in neither, and the list ends: gc_malloc's pointer surgery at the *)
(* head, in the middle and at a cut (gc.c:113-140) and gc_free's search    *)
(* and merges (gc.c:185-225) neither lose a block nor let one in twice.    *)
FreeListExact ==
    /\ ~Endless(heap)
    /\ Nodes(heap) = Blocks(heap) \ {own[v].ptr : v \in Held}

(* gc_malloc returns NULL only when what is free could not hold the        *)
(* request even if it were one block.                                      *)
NoSpuriousDenial == denied = 0 \/ Total - InUse < denied

(* The client sees the contract of module Allocator.                       *)
Contract == INSTANCE Allocator
    WITH Unit <- Addr, Size <- ReqSize,
         owns <- [v \in Var |-> IF v \in Held THEN Extent(v) ELSE {}]

ImplementsAllocator == Contract!Spec
=============================================================================
