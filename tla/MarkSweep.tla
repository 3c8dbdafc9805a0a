------------------------------ MODULE MarkSweep ------------------------------
(***************************************************************************)
(* The stop-the-world collector mark-sweep/mark_sweep.c on the heap of     *)
(* gc.c, under a client that allocates objects, links them, registers      *)
(* roots and calls gc().  A pointer is the address of a word of an         *)
(* object's body; gc_mark accepts any word (get_header searches the        *)
(* block), add_roots copies the pointer once.                              *)
(***************************************************************************)
EXTENDS GcHeap

CONSTANTS
    ObjSize,        \* units of an object, header included; every word of the
                    \* body may hold a pointer
    MaxRoots,       \* bound of the model: registered roots
    Interior,       \* the client also keeps pointers into the middle of objects
    Reserve         \* units the client leaves free when it allocates

ASSUME MarkSweepAssumption ==
    /\ ObjSize \in Nat \ {0, 1}
    /\ MaxRoots \in Nat
    /\ Interior \in BOOLEAN
    /\ Reserve \in Nat

(* A client that keeps pointers to the start of objects only, whose objects *)
(* divide a heap and are smaller than it, and which always leaves something *)
(* free: under these conditions the properties below hold.                  *)
SlackClient ==
    /\ ~Interior
    /\ Reserve > 0
    /\ TINY_HEAP_SIZE > ObjSize /\ TINY_HEAP_SIZE % ObjSize = 0

VARIABLES
    heap,           \* the allocator's globals and the headers
    word,           \* word[a]: the pointer stored at address a of a body
    roots,          \* roots[0 .. root_used-1].ptr
    local           \* a variable of the client no root refers to

vars == <<heap, word, roots, local>>

Init ==
    /\ heap = EmptyHeap
    /\ word = [a \in Addr |-> NULL]
    /\ roots = <<>>
    /\ local = NULL

-----------------------------------------------------------------------------
(* Mutant of Scanned: the loop stops one word before the next header.      *)
ScannedButLast(h, b, ptr) == [i \in 1 .. NEXT_HEADER(h, b) - ptr - 1 |-> word[ptr + i - 1]]

(* The body words gc_mark reads once it has marked block b through pointer *)
(* ptr: from ptr, not from the start of the body.                          *)
Scanned(h, b, ptr) == [i \in 1 .. NEXT_HEADER(h, b) - ptr |-> word[ptr + i - 1]]

(* gc_mark, depth first: at finds an address's block, todo is the stack of *)
(* pointers still to visit.                                                *)
MarkStep(h, at, s) ==
    LET ptr == Head(s.todo)
        b   == at[ptr]
    IN IF s.todo = <<>> THEN s
       ELSE IF b # NULL /\ b \notin s.marked
            THEN [marked |-> s.marked \union {b}, todo |-> Scanned(h, b, ptr) \o Tail(s.todo)]
            ELSE [marked |-> s.marked, todo |-> Tail(s.todo)]

(* Every block is scanned once, so a word of a body is visited once.       *)
Visits(ptrs) == MaxAddr + Len(ptrs)

gc_mark(h, at, ptrs) ==
    LET mark[k \in 0 .. Visits(ptrs)] ==
          IF k = 0 THEN [marked |-> {}, todo |-> ptrs] ELSE MarkStep(h, at, mark[k - 1])
    IN mark[Visits(ptrs)].marked

(* gc_sweep of one heap, from its first header to its end: a block that is *)
(* allocated and not marked is freed, and the walk goes on from the header *)
(* as gc_free left it.                                                     *)
SweepStep(s, marked, end) ==
    LET g == IF s.heap.hdr[s.p].flags = {"ALLOC"} /\ s.p \notin marked
             THEN gc_free(s.heap, s.p) ELSE s.heap
    IN IF s.p >= end THEN s ELSE [heap |-> g, p |-> NEXT_HEADER(g, s.p)]

SweepHeap(h, marked, slot, end) ==
    LET walk[k \in 0 .. MaxAddr] ==
          IF k = 0 THEN [heap |-> h, p |-> slot] ELSE SweepStep(walk[k - 1], marked, end)
    IN walk[MaxAddr].heap

(* The first n heaps.                                                      *)
SweepHeaps(h, marked, n) ==
    LET swept[i \in 0 .. n] ==
          IF i = 0 THEN h
          ELSE SweepHeap(swept[i - 1], marked, h.heaps[i].slot,
                         h.heaps[i].slot + h.heaps[i].size)
    IN swept[n]

(* Mutant of gc_sweep: the loop over the heaps misses the last one.        *)
SweepButLast(h, marked) == SweepHeaps(h, marked, Len(Front(h.heaps)))

gc_sweep(h, marked) == SweepHeaps(h, marked, Len(h.heaps))

gc(h) == gc_sweep(h, gc_mark(h, Target(h), roots))

(* gc_free clears the bodies of the blocks a collection frees.             *)
Wiped(h) == LET at == Target(h) IN [a \in Addr |-> IF at[a] # NULL THEN word[a] ELSE NULL]

-----------------------------------------------------------------------------
(* The objects a program can get at from the blocks B, through any word of *)
(* an object.                                                              *)
Pointees(at, B) == {at[word[a]] : a \in UNION {Body(heap, b) : b \in B}} \ {NULL}

Reach(S) ==
    LET at == Target(heap)
        reach[k \in 0 .. MaxAddr] ==
          IF k = 0 THEN {at[p] : p \in S} \ {NULL}
          ELSE LET B == reach[k - 1] IN B \union Pointees(at, B)
    IN reach[MaxAddr]

Rooted == Reach(ToSet(roots))
Usable == Reach(ToSet(roots) \union {local})

(* The pointers to block b a client may hold.                              *)
Pointers(b) == IF Interior THEN Body(heap, b) ELSE {b + HEADER_SIZE}

(* The units that no object has.                                           *)
Taken == UNION {b .. NEXT_HEADER(heap, b) - 1 : b \in Allocated(heap)}
Room == Cardinality(Units(heap)) - Cardinality(Taken)

-----------------------------------------------------------------------------
(* gc_malloc: a collection if the walk of the free list finds nothing,     *)
(* then a new heap.                                                        *)
Malloc ==
    /\ heap.heaps = <<>> \/ Reserve = 0 \/ Room >= ObjSize + Reserve
    /\ LET full == Fits(heap, ObjSize) = {}
           h1   == IF full THEN gc(heap) ELSE heap
           res  == gc_malloc(heap, h1, TRUE, ObjSize)
       IN /\ ~(full /\ Endless(heap))
          /\ Fits(h1, ObjSize) = {} => HasRoom(h1, ObjSize)
          /\ heap' = res.heap
          /\ word' = IF full THEN Wiped(h1) ELSE word
          /\ local' = res.ptr + HEADER_SIZE
    /\ UNCHANGED roots

Gc ==
    /\ heap.heaps # <<>>
    /\ heap' = gc(heap)
    /\ word' = Wiped(heap')
    /\ local' = IF Target(heap')[local] # NULL THEN local ELSE NULL
    /\ UNCHANGED roots

(* add_roots(&p) with p the local.                                         *)
AddRoot ==
    /\ local # NULL
    /\ Len(roots) < MaxRoots
    /\ \E ptr \in Pointers(Target(heap)[local]) : roots' = Append(roots, ptr)
    /\ UNCHANGED <<heap, word, local>>

(* The client assigns a field of an object it can reach.                   *)
Store ==
    /\ LET objs == Usable
       IN \E a \in UNION {Body(heap, b) : b \in objs} :
          \E ptr \in {NULL} \union UNION {Pointers(b) : b \in objs} :
             word' = [word EXCEPT ![a] = ptr]
    /\ UNCHANGED <<heap, roots, local>>

Next == Malloc \/ Gc \/ AddRoot \/ Store

Spec == Init /\ [][Next]_vars

-----------------------------------------------------------------------------
(* Heap, body words and roots hold addresses the model knows; a size never *)
(* exceeds the memory (gc.h:17-50).                                        *)
TypeOK ==
    /\ heap.free_list \in Addr \union {NULL}
    /\ heap.heaps \in Seq([slot : Addr, size : 1 .. MaxAddr])
    /\ heap.hdr \in [Addr -> [size : 0 .. MaxAddr, next_free : Addr \union {NULL},
                              flags : SUBSET {"ALLOC"}]]
    /\ word \in [Addr -> Addr \union {NULL}]
    /\ roots \in Seq(Addr) /\ Len(roots) <= MaxRoots
    /\ local \in Addr \union {NULL}

(* No root and no word of a rooted object ever points at freed memory: a   *)
(* collection between any two of the client's assignments keeps all that   *)
(* can be reached from the roots (mark_sweep.c:9-40, test.c:104-109).      *)
NoDanglingPointer ==
    LET at == Target(heap)
    IN /\ \A i \in DOMAIN roots : at[roots[i]] # NULL
       /\ \A b \in Rooted : \A a \in Body(heap, b) : word[a] # NULL => at[word[a]] # NULL

(* In every state a collection would free exactly what the roots do not    *)
(* reach and leave every word of the rest as it was (mark_sweep.c:76-83,   *)
(* test.c:111-121).                                                        *)
GcExact ==
    LET h == gc(heap)
        w == Wiped(h)
    IN /\ Allocated(h) = Rooted
       /\ \A b \in Rooted : \A a \in Body(heap, b) : w[a] = word[a]

(* Whatever order gc_sweep frees the blocks in, merging those it has       *)
(* passed and those ahead of it, the heap stays a chain of blocks of which *)
(* the free ones are the free list (mark_sweep.c:44-72 with gc.c:174-226). *)
HeapIntact ==
    /\ TypeOK
    /\ \A i \in DOMAIN heap.heaps : ChainEnds(heap, i)
    /\ ~Endless(heap)
    /\ Nodes(heap) = Blocks(heap) \ Allocated(heap)
=============================================================================
