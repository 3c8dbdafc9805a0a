--------------------------- MODULE AllocatorProofs ---------------------------
(***************************************************************************)
(* Proofs about the two allocators.                                        *)
(*                                                                         *)
(* gc.c, under a client whose requests are all of one size and who always  *)
(* leaves something free (UniformClient): for heaps of any size and any    *)
(* number of variables the blocks tile the heaps, the free list holds      *)
(* exactly the free blocks, no request is denied, and the client gets the  *)
(* contract of module Allocator.                                           *)
(*                                                                         *)
(* gc-python/malloc/obmalloc.c, for any number of arenas, pools, classes   *)
(* and blocks and any client: the rings of usedpools, the blocks of every  *)
(* pool, usable_arenas and unused_arena_objects are exact, nothing is kept *)
(* from a client that has freed everything, and a new arena is used only   *)
(* when no other has a free pool.                                          *)
(***************************************************************************)
EXTENDS HeapClient, Obmalloc, GcHeapProofs

(***************************************************************************)
(* gc.c.                                                                   *)
(***************************************************************************)

(* What the client holds when own is o.                                    *)
HeldBy(o) == {v \in Var : o[v] # None}
Pointers(o) == {o[v].ptr : v \in HeldBy(o)}
Extents(o) == UNION {o[v].ptr .. (o[v].ptr + o[v].req - 1) : v \in HeldBy(o)}

Owned(o, h, r) ==
    /\ o \in [Var -> {None} \cup [ptr : Addr, req : {r}]]
    /\ \A v \in HeldBy(o) : h.hdr[o[v].ptr].size = r
    /\ \A v, w \in HeldBy(o) : o[v].ptr = o[w].ptr => v = w

Consistent(h, o, r) ==
    /\ Owned(o, h, r)
    /\ \E N, B \in SUBSET Addr :
          /\ Well(h, N, B, r)
          /\ B \ N = Pointers(o)
          /\ h.heaps # <<>> => N # {}

(* The inductive invariant.                                                *)
IInv(r) ==
    /\ Consistent(heap, own, r)
    /\ auto_grow \in BOOLEAN
    /\ denied \in {0, r} /\ (denied # 0 => heap.heaps = <<>>)

(***************************************************************************)
(* The client.                                                             *)
(***************************************************************************)
LEMMA OwnedTyped ==
  ASSUME NEW o, NEW h, NEW r \in Nat \ {0}, Owned(o, h, r), NEW v \in HeldBy(o)
  PROVE  v \in Var /\ o[v].ptr \in Addr /\ o[v].ptr \in Nat /\ o[v].req = r
         /\ o[v].ptr \in Pointers(o)
<1>1. v \in Var /\ o[v] \in [ptr : Addr, req : {r}]
  BY DEF HeldBy, Owned
<1>2. o[v].ptr \in Pointers(o)
  BY DEF Pointers
<1>. QED  BY <1>1, <1>2, Constants

(* When nothing is free, the client has every unit.                        *)
LEMMA NothingFree ==
  ASSUME NEW h, NEW o, NEW r \in Nat \ {0}, Owned(o, h, r),
         NEW B, Well(h, {}, B, r), B = Pointers(o)
  PROVE  Units(h) \subseteq Extents(o)
<1>1. HeapsOK(h.heaps) /\ Tiles(B, Sizes(h.hdr), h.heaps, r) /\ B \in SUBSET Addr
  BY DEF Well, Good, Tiles
<1>2. SUFFICES ASSUME NEW u \in Units(h)  PROVE u \in Extents(o)
  OBVIOUS
<1>3. PICK b \in B : b <= u /\ u < b + Sizes(h.hdr)[b]
  BY UnitInBlock
<1>4. u \in Nat
  <2>1. u \in Addr
    BY <1>1, UnitsTyped
  <2>. QED  BY <2>1, Constants
<1>6. PICK v \in HeldBy(o) : b = o[v].ptr
  BY DEF Pointers
<1>7. b \in Nat /\ o[v].req = r /\ Sizes(h.hdr)[b] = r
  <2>1. o[v].ptr \in Addr /\ o[v].ptr \in Nat /\ o[v].req = r
    BY OwnedTyped
  <2>2. h.hdr[o[v].ptr].size = r
    BY DEF Owned
  <2>. QED  BY <1>6, <2>1, <2>2 DEF Sizes
<1>8. u \in o[v].ptr .. (o[v].ptr + o[v].req - 1)
  BY <1>3, <1>4, <1>6, <1>7
<1>. QED  BY <1>8 DEF Extents

(* What the client has lies in the memory and is his alone.                *)
LEMMA ExtentsApart ==
  ASSUME NEW h, NEW o, NEW r \in Nat \ {0}, Consistent(h, o, r)
  PROVE  /\ Extents(o) \in SUBSET Addr
         /\ \A v \in HeldBy(o) : o[v].ptr .. (o[v].ptr + r - 1) \subseteq Addr
         /\ \A v, w \in HeldBy(o) : v # w =>
               (o[v].ptr .. (o[v].ptr + r - 1)) \cap (o[w].ptr .. (o[w].ptr + r - 1)) = {}
<1>1. PICK N, B \in SUBSET Addr : Well(h, N, B, r) /\ B \ N = Pointers(o)
  BY DEF Consistent
<1>2. HeapsOK(h.heaps) /\ Tiles(B, Sizes(h.hdr), h.heaps, r) /\ Owned(o, h, r)
  BY <1>1 DEF Well, Good, Consistent
<1>3. \A v \in HeldBy(o) : /\ o[v].ptr \in B /\ o[v].ptr \in Nat /\ o[v].req = r
                           /\ Sizes(h.hdr)[o[v].ptr] = r
  <2>. TAKE v \in HeldBy(o)
  <2>1. /\ o[v].ptr \in Addr /\ o[v].ptr \in Nat /\ o[v].req = r
        /\ o[v].ptr \in Pointers(o)
    BY <1>2, OwnedTyped
  <2>2. h.hdr[o[v].ptr].size = r
    BY <1>2 DEF Owned
  <2>. QED  BY <1>1, <2>1, <2>2 DEF Sizes
<1>4. \A v \in HeldBy(o) : o[v].ptr .. (o[v].ptr + r - 1) \subseteq Addr
  <2>. TAKE v \in HeldBy(o)
  <2>1. o[v].ptr + r <= MaxAddr + 1 /\ o[v].ptr \in 1 .. MaxAddr
    <3>1. o[v].ptr \in B /\ Sizes(h.hdr)[o[v].ptr] = r
      BY <1>3
    <3>. QED  BY <1>2, <3>1, TileEnds, TileTyped
  <2>. QED  BY <2>1, Constants DEF Addr
<1>5. Extents(o) \in SUBSET Addr
  BY <1>3, <1>4 DEF Extents
<1>6. ASSUME NEW v \in HeldBy(o), NEW w \in HeldBy(o), v # w
      PROVE  (o[v].ptr .. (o[v].ptr + r - 1)) \cap (o[w].ptr .. (o[w].ptr + r - 1)) = {}
  <2>1. o[v].ptr # o[w].ptr
    BY <1>2, <1>6 DEF Owned
  <2>2. \A b, c \in B : b < c => b + Sizes(h.hdr)[b] <= c
    BY <1>2 DEF Tiles
  <2>. QED  BY <1>3, <2>1, <2>2
<1>. QED  BY <1>4, <1>5, <1>6

(* The client takes the head of the list, and something stays free.        *)
LEMMA TakenConsistent ==
  ASSUME NEW h, NEW o, NEW N \in SUBSET Addr, NEW B \in SUBSET Addr, NEW r \in Nat \ {0},
         Owned(o, h, r), Well(h, N, B, r), N # {}, B \ N = Pointers(o),
         NEW v \in Var, o[v] = None,
         \/ h.hdr[h.free_list].size > r
         \/ Cardinality(Extents(o)) + r < Cardinality(Units(h)),
         NEW res, res = TakeFirstFit(h, r),
         NEW o2, o2 = [o EXCEPT ![v] = [ptr |-> res.ptr, req |-> r]]
  PROVE  res.ptr \in Addr /\ Consistent(res.heap, o2, r)
<1>. DEFINE p == res.ptr
            k == res.heap
            b2 == [ptr |-> p, req |-> r]
<1>1. Handed(h, res, N, B, r)
  BY TakeKeeps
<1>2. /\ k.heaps = h.heaps /\ p \in N /\ p = h.free_list /\ k.hdr[p].size = r
      /\ \E N2, B2 \in SUBSET Addr :
            /\ Well(k, N2, B2, r)
            /\ B2 \ N2 = (B \ N) \cup {p}
            /\ h.hdr[p].size > r => N2 # {}
            /\ \A b \in B \ N : k.hdr[b].size = h.hdr[b].size
  BY <1>1 DEF Handed
<1>3. PICK N2, B2 \in SUBSET Addr :
            /\ Well(k, N2, B2, r)
            /\ B2 \ N2 = (B \ N) \cup {p}
            /\ h.hdr[p].size > r => N2 # {}
            /\ \A b \in B \ N : k.hdr[b].size = h.hdr[b].size
  BY <1>2
<1>4. p \in Addr /\ p \in Nat /\ p # NULL /\ p \notin Pointers(o)
  BY <1>2, Constants
<1>5. b2.ptr = p /\ b2.req = r /\ b2 # None /\ b2 \in [ptr : Addr, req : {r}]
  BY <1>4 DEF None, NULL
<1>6. o2 = [o EXCEPT ![v] = b2] /\ o \in [Var -> {None} \cup [ptr : Addr, req : {r}]]
  BY DEF Owned
<1>. HIDE DEF p, k, b2
<1>7. /\ o2 \in [Var -> {None} \cup [ptr : Addr, req : {r}]]
      /\ o2[v] = b2 /\ \A w \in Var : w # v => o2[w] = o[w]
  BY <1>5, <1>6
<1>8. HeldBy(o2) = HeldBy(o) \cup {v} /\ v \notin HeldBy(o)
  BY <1>5, <1>7 DEF HeldBy
<1>9. \A w \in HeldBy(o) : o2[w] = o[w] /\ o[w].ptr \in Pointers(o)
  BY <1>7, <1>8 DEF HeldBy, Pointers
<1>10. Pointers(o2) = Pointers(o) \cup {p}
  <2>1. \A w \in HeldBy(o2) : o2[w].ptr \in Pointers(o) \cup {p}
    BY <1>5, <1>7, <1>8, <1>9
  <2>2. p \in Pointers(o2)
    BY <1>5, <1>7, <1>8 DEF Pointers
  <2>3. \A w \in HeldBy(o) : o[w].ptr \in Pointers(o2)
    BY <1>8, <1>9 DEF Pointers
  <2>4. Pointers(o2) \subseteq Pointers(o) \cup {p}
    BY <2>1 DEF Pointers
  <2>5. Pointers(o) \subseteq Pointers(o2)
    BY <2>3 DEF Pointers
  <2>. QED  BY <2>2, <2>4, <2>5
<1>11. Owned(o2, k, r)
  <2>1. \A w \in HeldBy(o) : k.hdr[o[w].ptr].size = r /\ o[w].ptr # p
    BY <1>3, <1>4, <1>9 DEF Owned
  <2>2. \A w \in HeldBy(o2) : k.hdr[o2[w].ptr].size = r
    BY <1>2, <1>5, <1>7, <1>8, <1>9, <2>1
  <2>3. \A x, w \in HeldBy(o2) : o2[x].ptr = o2[w].ptr => x = w
    BY <1>5, <1>7, <1>8, <1>9, <2>1 DEF Owned
  <2>. QED  BY <1>7, <2>2, <2>3 DEF Owned
<1>12. N2 # {}
  <2>1. CASE h.hdr[h.free_list].size > r
    BY <1>2, <1>3, <2>1
  <2>2. CASE Cardinality(Extents(o)) + r < Cardinality(Units(h))
    <3>. SUFFICES ASSUME N2 = {}  PROVE FALSE
      OBVIOUS
    <3>1. B2 = Pointers(o2) /\ Well(k, {}, B2, r)
      BY <1>3, <1>10
    <3>2. Units(k) \subseteq Extents(o2)
      BY <1>11, <3>1, NothingFree
    <3>3. Units(k) = Units(h)
      BY <1>2 DEF Units
    <3>4. Extents(o2) \subseteq Extents(o) \cup (p .. (p + r - 1))
      <4>1. \A w \in HeldBy(o2) : o2[w].ptr .. (o2[w].ptr + o2[w].req - 1)
                                   \subseteq Extents(o) \cup (p .. (p + r - 1))
        <5>. TAKE w \in HeldBy(o2)
        <5>1. CASE w = v
          BY <5>1, <1>5, <1>7
        <5>2. CASE w # v
          <6>1. w \in HeldBy(o) /\ o2[w] = o[w]
            BY <5>2, <1>8, <1>9
          <6>. QED  BY <6>1 DEF Extents
        <5>. QED  BY <5>1, <5>2
      <4>2. \A e \in Extents(o2) : \E w \in HeldBy(o2) :
               e \in o2[w].ptr .. (o2[w].ptr + o2[w].req - 1)
        BY DEF Extents
      <4>. QED  BY <4>1, <4>2
    <3>5. Consistent(h, o, r)
      BY DEF Consistent
    <3>6. Extents(o) \in SUBSET Addr
      BY <3>5, ExtentsApart
    <3>7. Units(h) \subseteq Extents(o) \cup (p .. (p + r - 1))
      BY <3>2, <3>3, <3>4
    <3>8. /\ Cardinality(Units(h)) <= Cardinality(Extents(o)) + r
          /\ Cardinality(Extents(o)) \in Nat /\ Cardinality(Units(h)) \in Nat
      BY <1>4, <3>6, <3>7, UnionBound
    <3>. QED  BY <2>2, <3>8
  <2>. QED  BY <2>1, <2>2
<1>13. Consistent(k, o2, r)
  BY <1>3, <1>10, <1>11, <1>12 DEF Consistent
<1>. QED  BY <1>4, <1>13 DEF p, k

(* The client gives a block back.                                          *)
Freed(h, h2, o2, r) == Consistent(h2, o2, r) /\ h2.heaps = h.heaps

(* gc_free of a block of the client keeps the heap and the client's blocks *)
(* consistent.                                                             *)
LEMMA FreedConsistent ==
  ASSUME NEW h, NEW o, NEW r \in Nat \ {0}, Consistent(h, o, r),
         NEW v \in Var, o[v] # None, NEW h2, h2 = gc_free(h, o[v].ptr),
         NEW o2, o2 = [o EXCEPT ![v] = None]
  PROVE  Freed(h, h2, o2, r)
<1>. DEFINE t == o[v].ptr
<1>1. PICK N, B \in SUBSET Addr :
          Well(h, N, B, r) /\ B \ N = Pointers(o) /\ (h.heaps # <<>> => N # {})
  BY DEF Consistent
<1>2. Owned(o, h, r) /\ v \in HeldBy(o)
  BY DEF Consistent, HeldBy
<1>3. t \in B \ N
  BY <1>1, <1>2 DEF Pointers
<1>4. N # {}
  <2>1. Tiles(B, Sizes(h.hdr), h.heaps, r)
    BY <1>1 DEF Well, Good
  <2>2. PICK i \in 1 .. Len(h.heaps) : TRUE
    BY <1>3, <2>1 DEF Tiles
  <2>. QED  BY <1>1, <2>2
<1>5. h2 = gc_free(h, t)
  OBVIOUS
<1>. HIDE DEF t
<1>6. h2.heaps = h.heaps /\ HasFree(h, h2, (B \ N) \ {t}, r)
  BY <1>1, <1>3, <1>4, <1>5, FreeKeeps
<1>7. PICK N2, B2 \in SUBSET Addr :
          /\ Well(h2, N2, B2, r)
          /\ N2 # {} /\ B2 \ N2 = (B \ N) \ {t}
          /\ \A b \in (B \ N) \ {t} : h2.hdr[b].size = h.hdr[b].size
  BY <1>6 DEF HasFree
<1>8. /\ o2 \in [Var -> {None} \cup [ptr : Addr, req : {r}]]
      /\ o2[v] = None /\ \A w \in Var : w # v => o2[w] = o[w]
  BY <1>2 DEF Owned
<1>9. HeldBy(o2) = HeldBy(o) \ {v} /\ \A w \in HeldBy(o2) : o2[w] = o[w]
  BY <1>8 DEF HeldBy
<1>10. \A w \in HeldBy(o2) : o[w].ptr \in Pointers(o) \ {t}
  BY <1>2, <1>9 DEF Owned, Pointers, t
<1>11. Pointers(o2) = Pointers(o) \ {t}
  <2>1. \A w \in HeldBy(o2) : o2[w].ptr \in Pointers(o) \ {t}
    BY <1>9, <1>10
  <2>2. \A w \in HeldBy(o) : o[w].ptr = t \/ o[w].ptr \in Pointers(o2)
    <3>. TAKE w \in HeldBy(o)
    <3>1. CASE w = v
      BY <3>1 DEF t
    <3>2. CASE w # v
      <4>1. w \in HeldBy(o2) /\ o2[w] = o[w]
        BY <3>2, <1>9
      <4>. QED  BY <4>1 DEF Pointers
    <3>. QED  BY <3>1, <3>2
  <2>3. Pointers(o2) \subseteq Pointers(o) \ {t}
    BY <2>1 DEF Pointers
  <2>4. Pointers(o) \ {t} \subseteq Pointers(o2)
    BY <2>2 DEF Pointers
  <2>. QED  BY <2>3, <2>4
<1>12. Owned(o2, h2, r)
  <2>1. \A w \in HeldBy(o2) : h2.hdr[o2[w].ptr].size = r
    <3>. TAKE w \in HeldBy(o2)
    <3>1. o2[w] = o[w] /\ w \in HeldBy(o) /\ o[w].ptr \in (B \ N) \ {t}
      BY <1>1, <1>9, <1>10
    <3>2. h.hdr[o[w].ptr].size = r
      BY <1>2, <3>1 DEF Owned
    <3>. QED  BY <1>7, <3>1, <3>2
  <2>2. \A x, w \in HeldBy(o2) : o2[x].ptr = o2[w].ptr => x = w
    BY <1>2, <1>9 DEF Owned
  <2>. QED  BY <1>8, <2>1, <2>2 DEF Owned
<1>13. Consistent(h2, o2, r)
  BY <1>1, <1>7, <1>11, <1>12 DEF Consistent
<1>. QED  BY <1>6, <1>13 DEF Freed

(* What gc_malloc of a request of size r may do: hand out a block, or      *)
(* refuse because there is no heap at all.                                 *)
Served(h, o, v, res, r) ==
    /\ res.ptr \in Addr
    /\ Consistent(res.heap, [o EXCEPT ![v] = [ptr |-> res.ptr, req |-> r]], r)
Refused(h, res) == res.ptr = NULL /\ res.heap = h /\ h.heaps = <<>>

(* What mini_gc_malloc returns is the client's from then on.               *)
LEMMA MallocConsistent ==
  ASSUME NEW h, NEW o, NEW r \in Nat \ {0}, Consistent(h, o, r),
         TINY_HEAP_SIZE > r, Multiple(TINY_HEAP_SIZE, r),
         NEW v \in Var, o[v] = None, NEW g \in BOOLEAN,
         \/ h.heaps = <<>>
         \/ Cardinality(Extents(o)) + r < Cardinality(Units(h)),
         Fits(h, r) = {} /\ g => HasRoom(h, r),
         NEW res, res = gc_malloc(h, h, g, r)
  PROVE  Served(h, o, v, res, r) \/ Refused(h, res)
<1>1. PICK N, B \in SUBSET Addr :
          Well(h, N, B, r) /\ B \ N = Pointers(o) /\ (h.heaps # <<>> => N # {})
  BY DEF Consistent
<1>2. Owned(o, h, r)
  BY DEF Consistent
<1>3. CASE h.heaps # <<>>
  <2>1. N # {} /\ Fits(h, r) # {}
    BY <1>1, <1>3, FitsFirst
  <2>2. res = TakeFirstFit(h, r)
    BY <2>1 DEF gc_malloc
  <2>. DEFINE o2 == [o EXCEPT ![v] = [ptr |-> res.ptr, req |-> r]]
  <2>3. o2 = [o EXCEPT ![v] = [ptr |-> res.ptr, req |-> r]]
    OBVIOUS
  <2>. HIDE DEF o2
  <2>4. res.ptr \in Addr /\ Consistent(res.heap, o2, r)
    BY <1>1, <1>2, <1>3, <2>1, <2>2, <2>3, TakenConsistent
  <2>. QED  BY <2>4 DEF Served, o2
<1>4. CASE h.heaps = <<>> /\ g
  <2>1. N = {} /\ B = {} /\ Fits(h, r) = {}
    BY <1>1, <1>4, NoHeaps, FitsFirst
  <2>. DEFINE n == TINY_HEAP_SIZE
              h1 == AddFree(NewHeap(h, n), Brk(h))
  <2>2. HeapSize(r) = n /\ n \in Nat \ {0} /\ n > r
    BY Constants DEF HeapSize
  <2>3. Brk(h) = 1 /\ Brk(h) + n <= MaxAddr + 1
    <3>1. Brk(h) = 1
      BY <1>4 DEF Brk
    <3>2. Brk(h) + n - 1 <= MaxAddr
      BY <1>4, <2>1, <2>2 DEF HasRoom
    <3>. QED  BY <2>2, <3>1, <3>2, Constants
  <2>4. gc_grow(h, r) = h1
    BY <2>2 DEF gc_grow
  <2>. HIDE DEF h1, n
  <2>5. Added(h, h1, n, N, B, r)
    <3>1. Multiple(n, r) /\ h1 = AddFree(NewHeap(h, n), Brk(h))
      BY DEF n, h1
    <3>. QED  BY <1>1, <2>2, <2>3, <3>1, HeapAdded
  <2>6. HasFree(h, h1, {}, r) /\ h1.hdr[h1.free_list].size > r
    <3>1. HasFree(h, h1, B \ N, r) /\ h1.hdr[h1.free_list].size = n
      BY <2>1, <2>5 DEF Added
    <3>2. B \ N = {}
      BY <2>1
    <3>. QED  BY <2>2, <3>1, <3>2
  <2>7. PICK N1, B1 \in SUBSET Addr : Well(h1, N1, B1, r) /\ N1 # {} /\ B1 \ N1 = {}
    BY <2>6 DEF HasFree
  <2>8. res = TakeFirstFit(h1, r)
    <3>1. Fits(h1, r) # {}
      BY <2>7, FitsFirst
    <3>. QED  BY <1>4, <2>1, <2>4, <3>1 DEF gc_malloc
  <2>9. Pointers(o) = {} /\ HeldBy(o) = {}
    BY <1>1, <2>1 DEF Pointers
  <2>10. Owned(o, h1, r)
    BY <1>2, <2>9 DEF Owned
  <2>. DEFINE o2 == [o EXCEPT ![v] = [ptr |-> res.ptr, req |-> r]]
  <2>11. o2 = [o EXCEPT ![v] = [ptr |-> res.ptr, req |-> r]]
    OBVIOUS
  <2>. HIDE DEF o2
  <2>12. res.ptr \in Addr /\ Consistent(res.heap, o2, r)
    BY <2>6, <2>7, <2>8, <2>9, <2>10, <2>11, TakenConsistent
  <2>. QED  BY <2>12 DEF Served, o2
<1>5. CASE h.heaps = <<>> /\ ~g
  <2>1. N = {} /\ Fits(h, r) = {}
    BY <1>1, <1>5, NoHeaps, FitsFirst
  <2>2. res = [ptr |-> NULL, heap |-> h]
    BY <1>5, <2>1 DEF gc_malloc
  <2>. QED  BY <1>5, <2>2 DEF Refused
<1>. QED  BY <1>3, <1>4, <1>5

(***************************************************************************)
(* The invariant.                                                          *)
(***************************************************************************)
LEMMA UniformFacts ==
  ASSUME NEW r \in ReqSize, Uniform(r)
  PROVE  /\ r \in Nat \ {0} /\ ReqSize = {r} /\ Reserve > 0
         /\ TINY_HEAP_SIZE > r /\ Multiple(TINY_HEAP_SIZE, r)
         /\ \A s \in Setup : s.size \in Nat /\ s.heaps \in Nat /\ s.auto_grow \in BOOLEAN
                             /\ Multiple(s.size, r)
<1>1. r \in Nat \ {0} /\ ReqSize = {r} /\ Reserve > 0 /\ TINY_HEAP_SIZE > r
      /\ TINY_HEAP_SIZE % r = 0 /\ \A s \in Setup : s.size % r = 0
  BY ClientAssumption DEF Uniform
<1>2. Multiple(TINY_HEAP_SIZE, r)
  BY <1>1, Constants, MultipleMod
<1>3. ASSUME NEW s \in Setup
      PROVE  s.size \in Nat /\ s.heaps \in Nat /\ s.auto_grow \in BOOLEAN /\ Multiple(s.size, r)
  <2>1. s \in [heaps : Nat, size : Nat, auto_grow : BOOLEAN]
    BY ClientAssumption
  <2>2. s.size \in Nat /\ s.heaps \in Nat /\ s.auto_grow \in BOOLEAN
    BY <2>1
  <2>. QED  BY <1>1, <2>2, MultipleMod
<1>. QED  BY <1>1, <1>2, <1>3

(* The client's blocks are those of its variables.                         *)
LEMMA HeldIs == Held = HeldBy(own) /\ InUse = Cardinality(Extents(own))
BY DEF Held, HeldBy, InUse, Extents, Extent

(* The first heap.                                                         *)
LEMMA InitInvariant ==
  ASSUME NEW r \in ReqSize, Uniform(r), Init
  PROVE  IInv(r)
<1>1. /\ r \in Nat \ {0}
      /\ \A s \in Setup : s.size \in Nat /\ s.heaps \in Nat /\ s.auto_grow \in BOOLEAN
                          /\ Multiple(s.size, r)
  BY UniformFacts
<1>2. PICK s \in Setup : heap = gc_init(s.heaps, s.size) /\ auto_grow = s.auto_grow
  BY DEF Init
<1>3. s.heaps > 0 => s.size > 0 /\ s.heaps * (s.size + 1) <= MaxAddr + 1
  BY ClientAssumption
<1>. DEFINE n == s.heaps
            size == s.size
<1>4. n \in Nat /\ size \in Nat
      /\ (n > 0 => size > 0 /\ Multiple(size, r) /\ n * (size + 1) <= MaxAddr + 1)
  BY <1>1, <1>3
<1>5. heap = gc_init(n, size)
  BY <1>2
<1>. HIDE DEF n, size
<1>6. heap \in Fresh(r) /\ (n = 0 => heap = EmptyHeap) /\ (n > 0 => heap.free_list # NULL)
  BY <1>1, <1>4, <1>5, InitFresh
<1>7. PICK N \in SUBSET Addr : Well(heap, N, N, r)
  BY <1>6 DEF Fresh
<1>8. heap.heaps # <<>> => N # {}
  <2>1. n = 0 => heap.heaps = <<>>
    BY <1>1, <1>6, FreshEmpty
  <2>2. n > 0 => N # {}
    BY <1>6, <1>7 DEF Well, Good, ListOf
  <2>. QED  BY <1>4, <2>1, <2>2
<1>9. own = [v \in Var |-> None] /\ denied = 0
  BY DEF Init
<1>10. HeldBy(own) = {} /\ Pointers(own) = {}
  BY <1>9 DEF HeldBy, Pointers
<1>11. Owned(own, heap, r)
  BY <1>9, <1>10 DEF Owned
<1>12. Consistent(heap, own, r)
  <2>1. N \ N = Pointers(own)
    BY <1>10
  <2>. QED  BY <1>7, <1>8, <1>11, <2>1 DEF Consistent
<1>13. auto_grow \in BOOLEAN
  BY <1>1, <1>2
<1>. QED  BY <1>9, <1>12, <1>13 DEF IInv

(* What a call of Malloc does to a state of the invariant.                 *)
LEMMA MallocStep ==
  ASSUME NEW r \in ReqSize, Uniform(r), IInv(r), NEW v \in Var, Malloc(v, r)
  PROVE  /\ own[v] = None /\ UNCHANGED auto_grow
         /\ \/ /\ denied' = 0
               /\ \E p \in Addr : own' = [own EXCEPT ![v] = [ptr |-> p, req |-> r]]
               /\ Consistent(heap', own', r)
            \/ denied' = r /\ UNCHANGED <<heap, own>> /\ heap.heaps = <<>>
<1>. DEFINE res == gc_malloc(heap, heap, auto_grow, r)
<1>1. r \in Nat \ {0} /\ Reserve > 0 /\ TINY_HEAP_SIZE > r /\ Multiple(TINY_HEAP_SIZE, r)
  BY UniformFacts
<1>2. /\ own[v] = None /\ auto_grow' = auto_grow
      /\ heap.heaps = <<>> \/ InUse + r + Reserve <= Total
      /\ Fits(heap, r) = {} /\ auto_grow => HasRoom(heap, r)
      /\ heap' = res.heap
      /\ IF res.ptr = NULL THEN denied' = r /\ own' = own
         ELSE denied' = 0 /\ own' = [own EXCEPT ![v] = [ptr |-> res.ptr, req |-> r]]
  BY <1>1, Constants DEF Malloc
<1>3. Consistent(heap, own, r) /\ auto_grow \in BOOLEAN
  BY DEF IInv
<1>4. heap.heaps = <<>> \/ Cardinality(Extents(own)) + r < Cardinality(Units(heap))
  <2>1. IsFiniteSet(Extents(own))
    BY <1>1, <1>3, ExtentsApart, AddrFinite
  <2>2. Cardinality(Extents(own)) \in Nat
    BY <2>1, FS_CardinalityType
  <2>3. IsFiniteSet(Units(heap))
    <3>1. PICK N, B : Well(heap, N, B, r)
      BY <1>3 DEF Consistent
    <3>2. HeapsOK(heap.heaps)
      BY <3>1 DEF Well, Good
    <3>3. Units(heap) \in SUBSET Addr
      BY <3>2, UnitsTyped
    <3>. QED  BY <3>3, AddrFinite
  <2>4. Cardinality(Units(heap)) \in Nat
    BY <2>3, FS_CardinalityType
  <2>5. Reserve \in Nat
    BY ClientAssumption
  <2>. QED  BY <1>1, <1>2, <2>2, <2>4, <2>5, HeldIs DEF Total
<1>5. res = gc_malloc(heap, heap, auto_grow, r)
  OBVIOUS
<1>. HIDE DEF res
<1>6. Served(heap, own, v, res, r) \/ Refused(heap, res)
  BY <1>1, <1>2, <1>3, <1>4, <1>5, MallocConsistent
<1>7. CASE Served(heap, own, v, res, r)
  <2>1. /\ res.ptr \in Addr /\ res.ptr # NULL
        /\ Consistent(res.heap, [own EXCEPT ![v] = [ptr |-> res.ptr, req |-> r]], r)
    BY <1>7, Constants DEF Served
  <2>. QED  BY <1>2, <2>1
<1>8. CASE Refused(heap, res)
  BY <1>2, <1>8 DEF Refused
<1>. QED  BY <1>2, <1>6, <1>7, <1>8

(* A step of Free.                                                         *)
LEMMA FreeStep ==
  ASSUME NEW r \in ReqSize, Uniform(r), IInv(r), NEW v \in Var, Free(v)
  PROVE  /\ own[v] # None /\ own' = [own EXCEPT ![v] = None]
         /\ UNCHANGED <<auto_grow, denied>>
         /\ Consistent(heap', own', r) /\ heap'.heaps = heap.heaps
<1>1. r \in Nat \ {0} /\ Consistent(heap, own, r)
  BY UniformFacts DEF IInv
<1>2. /\ own[v] # None /\ heap' = gc_free(heap, own[v].ptr)
      /\ own' = [own EXCEPT ![v] = None] /\ UNCHANGED <<auto_grow, denied>>
  BY DEF Free
<1>3. Freed(heap, heap', own', r)
  BY <1>1, <1>2, FreedConsistent
<1>. QED  BY <1>2, <1>3 DEF Freed

(* Every step keeps the inductive invariant.                               *)
LEMMA NextInvariant ==
  ASSUME NEW r \in ReqSize, Uniform(r), IInv(r), [Next]_vars
  PROVE  IInv(r)'
<1>0. ReqSize = {r}
  BY UniformFacts
<1>1. CASE UNCHANGED vars
  BY <1>1 DEF vars, IInv, Consistent, Owned, HeldBy, Pointers
<1>2. ASSUME NEW v \in Var, Free(v)  PROVE IInv(r)'
  BY <1>2, FreeStep DEF IInv
<1>3. ASSUME NEW v \in Var, Malloc(v, r)  PROVE IInv(r)'
  <2>1. auto_grow' = auto_grow
    BY <1>3, MallocStep
  <2>2. \/ denied' = 0 /\ Consistent(heap', own', r)
        \/ denied' = r /\ UNCHANGED <<heap, own>> /\ heap.heaps = <<>>
    BY <1>3, MallocStep
  <2>3. Consistent(heap', own', r)
    BY <2>2 DEF IInv
  <2>. QED  BY <2>1, <2>2, <2>3 DEF IInv
<1>. QED  BY <1>0, <1>1, <1>2, <1>3 DEF Next

(* What the invariant says of the heaps and of the free list.              *)
LEMMA ConsistentFacts ==
  ASSUME NEW r \in ReqSize, Uniform(r), IInv(r)
  PROVE  HeapTiled /\ FreeListExact
<1>0. ReqSize = {r} /\ r \in Nat \ {0}
  BY UniformFacts
<1>1. Consistent(heap, own, r) /\ auto_grow \in BOOLEAN /\ denied \in {0, r}
  BY DEF IInv
<1>2. Owned(own, heap, r)
  BY <1>1 DEF Consistent
<1>3. PICK N, B \in SUBSET Addr : Well(heap, N, B, r) /\ B \ N = Pointers(own)
  BY <1>1 DEF Consistent
<1>4. /\ heap.hdr \in [Addr -> Header] /\ HeapsOK(heap.heaps)
      /\ Tiles(B, Sizes(heap.hdr), heap.heaps, r)
      /\ ListOf(heap.free_list, Links(heap.hdr), N) /\ N \subseteq B
  BY <1>3 DEF Well, Good
<1>5. heap.free_list \in Addr \cup {NULL}
  BY <1>4 DEF ListOf
<1>6. TypeOK
  BY <1>0, <1>1, <1>2, <1>4, <1>5 DEF TypeOK, HeapsOK, Header, Owned
<1>7. Blocks(heap) = B /\ \A i \in DOMAIN heap.heaps : ChainEnds(heap, i)
  BY <1>4, BlocksOf
<1>8. Nodes(heap) = N /\ ~Endless(heap)
  BY <1>4, NodesOf
<1>9. {own[v].ptr : v \in Held} = Pointers(own)
  BY HeldIs DEF Pointers
<1>10. N = B \ Pointers(own)
  BY <1>3, <1>4
<1>. QED  BY <1>6, <1>7, <1>8, <1>9, <1>10 DEF HeapTiled, FreeListExact

(* What the invariant says of a request that was denied.                   *)
LEMMA DenialFacts ==
  ASSUME NEW r \in ReqSize, Uniform(r), IInv(r)
  PROVE  NoSpuriousDenial
<1>0. r \in Nat \ {0}
  BY UniformFacts
<1>. SUFFICES ASSUME denied # 0  PROVE Total - InUse < denied
  BY DEF NoSpuriousDenial
<1>1. denied = r /\ heap.heaps = <<>> /\ Consistent(heap, own, r)
  BY DEF IInv
<1>2. PICK N, B \in SUBSET Addr : Well(heap, N, B, r) /\ B \ N = Pointers(own)
  BY <1>1 DEF Consistent
<1>3. Pointers(own) = {}
  BY <1>1, <1>2, NoHeaps
<1>4. HeldBy(own) = {}
  BY <1>3 DEF Pointers
<1>5. Extents(own) = {}
  BY <1>4 DEF Extents
<1>6. Units(heap) = {}
  BY <1>1, ToSetEmpty DEF Units
<1>7. Total = 0 /\ InUse = 0
  BY <1>5, <1>6, HeldIs, FS_EmptySet DEF Total
<1>. QED  BY <1>0, <1>1, <1>7

(* The inductive invariant.                                                *)
LEMMA Invariant ==
  ASSUME NEW r \in ReqSize, Uniform(r)
  PROVE  Spec => []IInv(r)
<1>1. Init => IInv(r)
  BY InitInvariant
<1>2. IInv(r) /\ [Next]_vars => IInv(r)'
  BY NextInvariant
<1>. QED  BY <1>1, <1>2, PTL DEF Spec

(* NEXT_HEADER leads through every heap exactly to its end, whatever was   *)
(* cut and merged in it before (gc.c:113-140, gc.c:185-225).               *)
THEOREM HeapsAreTiled ==
  ASSUME UniformClient
  PROVE  Spec => []HeapTiled
<1>1. PICK r \in ReqSize : Uniform(r)
  BY DEF UniformClient
<1>2. Spec => []IInv(r)
  BY <1>1, Invariant
<1>3. IInv(r) => HeapTiled
  BY <1>1, ConsistentFacts
<1>. QED  BY <1>2, <1>3, PTL

(* A block is in the free list or with the client, and the list ends: the  *)
(* searches of gc_malloc and gc_free terminate.                            *)
THEOREM FreeListIsExact ==
  ASSUME UniformClient
  PROVE  Spec => []FreeListExact
<1>1. PICK r \in ReqSize : Uniform(r)
  BY DEF UniformClient
<1>2. Spec => []IInv(r)
  BY <1>1, Invariant
<1>3. IInv(r) => FreeListExact
  BY <1>1, ConsistentFacts
<1>. QED  BY <1>2, <1>3, PTL

(* gc_malloc returns NULL only when there is no memory for the request.    *)
THEOREM DenialsAreJustified ==
  ASSUME UniformClient
  PROVE  Spec => []NoSpuriousDenial
<1>1. PICK r \in ReqSize : Uniform(r)
  BY DEF UniformClient
<1>2. Spec => []IInv(r)
  BY <1>1, Invariant
<1>3. IInv(r) => NoSpuriousDenial
  BY <1>1, DenialFacts
<1>. QED  BY <1>2, <1>3, PTL

(***************************************************************************)
(* The contract of module Allocator.                                       *)
(***************************************************************************)
OwnsBy(o) == [v \in Var |-> IF o[v] # None THEN o[v].ptr .. (o[v].ptr + o[v].req - 1) ELSE {}]
owns == [v \in Var |-> IF v \in Held THEN Extent(v) ELSE {}]

(* The abstract state: the memory of the block a variable has.             *)
LEMMA OwnsIs == owns = OwnsBy(own) /\ owns' = OwnsBy(own')
BY DEF owns, OwnsBy, Held, Extent

(* The same after one variable changed.                                    *)
LEMMA OwnsOf ==
  ASSUME NEW o, NEW h, NEW r \in Nat \ {0}, Owned(o, h, r)
  PROVE  \A v \in Var : /\ o[v] = None => OwnsBy(o)[v] = {}
                        /\ o[v] # None => /\ v \in HeldBy(o)
                                          /\ OwnsBy(o)[v] = o[v].ptr .. (o[v].ptr + r - 1)
                                          /\ OwnsBy(o)[v] # {}
<1>. SUFFICES ASSUME NEW v \in Var, o[v] # None
              PROVE  /\ v \in HeldBy(o)
                     /\ OwnsBy(o)[v] = o[v].ptr .. (o[v].ptr + r - 1)
                     /\ OwnsBy(o)[v] # {}
  BY DEF OwnsBy
<1>1. v \in HeldBy(o)
  BY DEF HeldBy
<1>2. o[v].req = r /\ o[v].ptr \in Nat
  BY <1>1, OwnedTyped
<1>3. OwnsBy(o)[v] = o[v].ptr .. (o[v].ptr + r - 1)
  BY <1>2 DEF OwnsBy
<1>4. o[v].ptr \in o[v].ptr .. (o[v].ptr + r - 1)
  BY <1>2
<1>. QED  BY <1>1, <1>3, <1>4

(* An initial heap is an initial state of the contract.                    *)
LEMMA RefinesInit == Init => Contract!Init
BY DEF Init, Contract!Init, Held

(* A step is a step of the contract or leaves its state alone.             *)
LEMMA RefinesNext ==
  ASSUME NEW r \in ReqSize, Uniform(r), IInv(r), [Next]_vars
  PROVE  [Contract!Next]_owns
<1>0. ReqSize = {r} /\ r \in Nat \ {0}
  BY UniformFacts
<1>1. Consistent(heap, own, r) /\ Owned(own, heap, r) /\ DOMAIN own = Var
  BY DEF IInv, Consistent, Owned
<1>2. \A v \in Var : /\ own[v] = None => owns[v] = {}
                     /\ own[v] # None => /\ v \in HeldBy(own)
                                         /\ owns[v] = own[v].ptr .. (own[v].ptr + r - 1)
                                         /\ owns[v] # {}
  BY <1>0, <1>1, OwnsOf, OwnsIs
<1>3. owns = [v \in Var |-> owns[v]] /\ owns' = [v \in Var |-> owns'[v]]
  BY DEF owns
<1>4. ASSUME UNCHANGED own  PROVE UNCHANGED owns
  BY <1>4, OwnsIs
<1>5. CASE UNCHANGED vars
  BY <1>4, <1>5 DEF vars
<1>6. ASSUME NEW v \in Var, Free(v)  PROVE Contract!Next
  <2>1. own[v] # None /\ own' = [own EXCEPT ![v] = None]
    BY <1>6, FreeStep
  <2>2. own'[v] = None /\ \A w \in Var : w # v => own'[w] = own[w]
    BY <1>1, <2>1
  <2>3. owns' = [owns EXCEPT ![v] = {}]
    <3>1. owns'[v] = {} /\ \A w \in Var : w # v => owns'[w] = owns[w]
      BY <2>2, OwnsIs DEF OwnsBy
    <3>. QED  BY <1>3, <3>1
  <2>4. owns[v] # {}
    BY <1>2, <2>1
  <2>5. Contract!Free(v)
    BY <2>3, <2>4 DEF Contract!Free, owns
  <2>. QED  BY <2>5 DEF Contract!Next
<1>7. ASSUME NEW v \in Var, Malloc(v, r)  PROVE Contract!Next \/ UNCHANGED own
  <2>1. own[v] = None /\ \/ /\ \E p \in Addr : own' = [own EXCEPT ![v] = [ptr |-> p, req |-> r]]
                            /\ Consistent(heap', own', r)
                         \/ UNCHANGED own
    BY <1>7, MallocStep
  <2>2. SUFFICES ASSUME NEW p \in Addr, own' = [own EXCEPT ![v] = [ptr |-> p, req |-> r]],
                        Consistent(heap', own', r)
                 PROVE  Contract!Next
    BY <2>1
  <2>. DEFINE b == [ptr |-> p, req |-> r]
  <2>3. own' = [own EXCEPT ![v] = b] /\ b.ptr = p /\ b # None
    BY <2>2, Constants DEF None, NULL
  <2>. HIDE DEF b
  <2>4. own'[v].ptr = p /\ own'[v] # None /\ \A w \in Var : w # v => own'[w] = own[w]
    BY <1>1, <2>3
  <2>5. Owned(own', heap', r)
    BY <2>2 DEF Consistent
  <2>6. \A w \in Var : own'[w] # None => w \in HeldBy(own')
    BY DEF HeldBy
  <2>. DEFINE I == p .. (p + r - 1)
  <2>7. owns' = [owns EXCEPT ![v] = I]
    <3>1. owns'[v] = I
      BY <1>0, <2>4, <2>5, OwnsOf, OwnsIs
    <3>2. \A w \in Var : w # v => owns'[w] = owns[w]
      BY <2>4, OwnsIs DEF OwnsBy
    <3>. QED  BY <1>3, <3>1, <3>2
  <2>8. I \subseteq Addr /\ \A w \in Var : I \cap owns[w] = {}
    <3>1. I \subseteq Addr
      BY <1>0, <2>2, <2>4, <2>6, ExtentsApart
    <3>2. ASSUME NEW w \in Var  PROVE I \cap owns[w] = {}
      <4>1. CASE own[w] = None
        BY <4>1, <1>2
      <4>2. CASE own[w] # None
        <5>1. w # v /\ own'[w] = own[w]
          BY <4>2, <2>1, <2>4
        <5>2. I \cap (own[w].ptr .. (own[w].ptr + r - 1)) = {}
          BY <1>0, <2>2, <2>4, <2>6, <4>2, <5>1, ExtentsApart
        <5>. QED  BY <4>2, <5>2, <1>2
      <4>. QED  BY <4>1, <4>2
    <3>. QED  BY <3>1, <3>2
  <2>9. owns[v] = {}
    BY <1>2, <2>1
  <2>10. I \subseteq Addr \ UNION {owns[w] : w \in Var}
    BY <2>8
  <2>11. Contract!Malloc(v, r)
    BY <2>7, <2>9, <2>10 DEF Contract!Malloc, Contract!Taken, owns
  <2>. QED  BY <1>0, <2>11 DEF Contract!Next
<1>. QED  BY <1>0, <1>4, <1>5, <1>6, <1>7 DEF Next

(* The client sees the contract of Allocator: what gc_malloc returns is    *)
(* memory that nobody has, and stays his until he frees it.                *)
THEOREM AllocatorImplemented ==
  ASSUME UniformClient
  PROVE  Spec => ImplementsAllocator
<1>1. PICK r \in ReqSize : Uniform(r)
  BY DEF UniformClient
<1>2. Spec => []IInv(r)
  BY <1>1, Invariant
<1>3. IInv(r) /\ [Next]_vars => [Contract!Next]_owns
  BY <1>1, RefinesNext
<1>4. Init => Contract!Init
  BY RefinesInit
<1>. QED  BY <1>2, <1>3, <1>4, PTL DEF Spec, ImplementsAllocator, Contract!Spec, owns

(***************************************************************************)
(* obmalloc.c.                                                             *)
(***************************************************************************)
(***************************************************************************)
(* Lists and rings through pointers, without their order: N are the nodes, *)
(* nx[n] the link of node n, h the head.                                   *)
(***************************************************************************)
Leads(S, nx) == \A n \in S : nx[n] \in S \cup {Nil}

Chained(h, nx, N) ==
    /\ Nil \notin N
    /\ h \in N \cup {Nil} /\ (h = Nil => N = {})
    /\ \A n \in N : nx[n] \in N \cup {Nil} /\ nx[n] # h
    /\ \A m, n \in N : nx[m] = nx[n] => m = n \/ nx[m] = Nil
    /\ \A S \in SUBSET N : h \in S /\ Leads(S, nx) => S = N

(* The list is linked backwards too.                                       *)
Doubly(h, nx, pv, N) ==
    /\ Chained(h, nx, N)
    /\ h # Nil => pv[h] = Nil
    /\ \A n \in N : nx[n] # Nil => pv[nx[n]] = n
    /\ \A n \in N : n # h => pv[n] \in N /\ nx[pv[n]] = n

Ringed(h, nx, pv, N) ==
    /\ h \notin N
    /\ \A n \in N \cup {h} : nx[n] \in N \cup {h} /\ pv[nx[n]] = n
    /\ \A n \in N \cup {h} : pv[n] \in N \cup {h} /\ nx[pv[n]] = n
    /\ \A S \in SUBSET (N \cup {h}) :
         h \in S /\ (\A n \in S : nx[n] \in S) => S = N \cup {h}

(* The empty list.                                                         *)
LEMMA EmptyChained == ASSUME NEW nx PROVE Chained(Nil, nx, {})
BY DEF Chained

(* A list depends on the links of its nodes only.                          *)
LEMMA ChainedFrame ==
  ASSUME NEW h, NEW nx, NEW N, Chained(h, nx, N), NEW nx2, \A n \in N : nx2[n] = nx[n]
  PROVE  Chained(h, nx2, N)
<1>1. \A S \in SUBSET N : Leads(S, nx2) <=> Leads(S, nx)
  BY DEF Leads
<1>. QED  BY <1>1 DEF Chained

(* A node in front of a list.                                              *)
LEMMA ChainedPush ==
  ASSUME NEW h, NEW nx, NEW N, Chained(h, nx, N), NEW t, t \notin N, t # Nil,
         NEW nx2, nx2[t] = h, \A n \in N : nx2[n] = nx[n]
  PROVE  Chained(t, nx2, N \cup {t})
<1>1. \A n \in N \cup {t} : nx2[n] \in N \cup {t, Nil} /\ nx2[n] # t
  BY DEF Chained
<1>2. \A m, n \in N \cup {t} : nx2[m] = nx2[n] => m = n \/ nx2[m] = Nil
  BY DEF Chained
<1>3. ASSUME NEW S \in SUBSET (N \cup {t}), t \in S, Leads(S, nx2)
      PROVE  S = N \cup {t}
  <2>1. CASE h = Nil
    BY <2>1, <1>3 DEF Chained
  <2>2. CASE h # Nil
    <3>1. S \ {t} \in SUBSET N /\ h \in S \ {t}
      BY <2>2, <1>3 DEF Chained, Leads
    <3>2. Leads(S \ {t}, nx)
      BY <1>3 DEF Chained, Leads
    <3>3. S \ {t} = N
      BY <3>1, <3>2 DEF Chained
    <3>. QED  BY <3>3, <1>3
  <2>. QED  BY <2>1, <2>2
<1>. QED  BY <1>1, <1>2, <1>3 DEF Chained

(* No node of a list is its own successor.                                 *)
LEMMA ChainedLoop ==
  ASSUME NEW h, NEW nx, NEW N, Chained(h, nx, N), NEW n \in N
  PROVE  nx[n] # n
<1>. SUFFICES ASSUME nx[n] = n  PROVE FALSE
  OBVIOUS
<1>1. n # h /\ h \in N
  BY DEF Chained
<1>2. Leads(N \ {n}, nx)
  BY DEF Chained, Leads
<1>. QED  BY <1>1, <1>2 DEF Chained

(* A list without its head.                                                *)
LEMMA ChainedDropHead ==
  ASSUME NEW h, NEW nx, NEW N, Chained(h, nx, N), h # Nil,
         NEW nx2, \A n \in N : n # h => nx2[n] = nx[n]
  PROVE  Chained(nx[h], nx2, N \ {h})
<1>. DEFINE M == N \ {h}
            y == nx[h]
<1>1. h \in N /\ y \in M \cup {Nil} /\ Nil \notin M
  BY DEF Chained
<1>5. y = Nil => M = {}
  <2>. SUFFICES ASSUME y = Nil  PROVE N = {h}
    OBVIOUS
  <2>1. {h} \in SUBSET N /\ Leads({h}, nx)
    BY <1>1 DEF Leads
  <2>. QED  BY <2>1 DEF Chained
<1>2. \A n \in M : nx2[n] \in M \cup {Nil} /\ nx2[n] # y
  BY <1>1, <1>5 DEF Chained
<1>3. \A m, n \in M : nx2[m] = nx2[n] => m = n \/ nx2[m] = Nil
  BY <1>1 DEF Chained
<1>4. ASSUME NEW S \in SUBSET M, y \in S \/ y = Nil, Leads(S, nx2)
      PROVE  S = M
  <2>1. Leads(S \cup {h}, nx)
    BY <1>1, <1>4 DEF Leads, Chained
  <2>2. S \cup {h} = N
    BY <1>1, <1>4, <2>1 DEF Chained
  <2>. QED  BY <1>1, <1>4, <2>2
<1>. QED  BY <1>1, <1>2, <1>3, <1>4, <1>5 DEF Chained

(* The node behind hit leaves the list.                                    *)
LEMMA ChainedDropBehind ==
  ASSUME NEW h, NEW nx, NEW N, Chained(h, nx, N), NEW hit \in N, NEW x, x = nx[hit], x # Nil,
         NEW nx2, nx2[hit] = nx[x],
         \A n \in N : n # hit /\ n # x => nx2[n] = nx[n]
  PROVE  Chained(h, nx2, N \ {x})
<1>. DEFINE M == N \ {x}
<1>a. h \in N /\ x \in N /\ x # h /\ Nil \notin N
  BY DEF Chained
<1>b. x # hit /\ nx[x] # x
  BY <1>a, ChainedLoop
<1>1. h \in N /\ x \in N /\ x # h /\ x # hit /\ nx[x] # x
  BY <1>a, <1>b
<1>2. \A n \in N : nx[n] = x => n = hit
  BY <1>1 DEF Chained
<1>3. \A n \in M : nx2[n] \in M \cup {Nil} /\ nx2[n] # h
  BY <1>1, <1>2 DEF Chained
<1>4. \A m, n \in M : nx2[m] = nx2[n] => m = n \/ nx2[m] = Nil
  BY <1>1, <1>2 DEF Chained
<1>5. ASSUME NEW S \in SUBSET M, h \in S, Leads(S, nx2)
      PROVE  S = M
  <2>. DEFINE T == IF hit \in S THEN S \cup {x} ELSE S
  <2>1. T \in SUBSET N /\ h \in T
    BY <1>1, <1>5
  <2>2. Leads(T, nx)
    <3>. SUFFICES ASSUME NEW n \in T  PROVE nx[n] \in T \cup {Nil}
      BY DEF Leads
    <3>1. CASE n = x
      BY <3>1, <1>1, <1>5 DEF Leads
    <3>2. CASE n = hit
      BY <3>2, <1>1, <1>5 DEF Leads
    <3>3. CASE n # x /\ n # hit
      BY <3>3, <1>1, <1>5 DEF Leads
    <3>. QED  BY <3>1, <3>2, <3>3
  <2>3. T = N
    BY <2>1, <2>2 DEF Chained
  <2>. QED  BY <1>1, <1>5, <2>3
<1>. QED  BY <1>a, <1>1, <1>3, <1>4, <1>5 DEF Chained

(* A new node t behind hit.                                                *)
LEMMA ChainedInsert ==
  ASSUME NEW h, NEW nx, NEW N, Chained(h, nx, N), NEW hit \in N,
         NEW t, t # Nil, t \notin N, NEW nx2,
         nx2[hit] = t, nx2[t] = nx[hit], \A n \in N : n # hit => nx2[n] = nx[n]
  PROVE  Chained(h, nx2, N \cup {t})
<1>1. h \in N /\ h # t /\ Nil \notin N
  BY DEF Chained
<1>2. \A n \in N \cup {t} : nx2[n] \in N \cup {t, Nil} /\ nx2[n] # h
  BY <1>1 DEF Chained
<1>3. \A m, n \in N \cup {t} : nx2[m] = nx2[n] => m = n \/ nx2[m] = Nil
  BY <1>1 DEF Chained
<1>4. ASSUME NEW S \in SUBSET (N \cup {t}), h \in S, Leads(S, nx2)
      PROVE  S = N \cup {t}
  <2>1. Leads(S \ {t}, nx)
    BY <1>1, <1>4 DEF Leads, Chained
  <2>2. S \ {t} = N
    BY <1>1, <1>4, <2>1 DEF Chained
  <2>. QED  BY <1>1, <1>4, <2>2 DEF Leads
<1>. QED  BY <1>1, <1>2, <1>3, <1>4 DEF Chained

-----------------------------------------------------------------------------
(* A list of one node.                                                     *)
LEMMA DoublyOne ==
  ASSUME NEW t, t # Nil, NEW nx, NEW pv, nx[t] = Nil, pv[t] = Nil
  PROVE  Doubly(t, nx, pv, {t})
<1>1. Chained(t, nx, {} \cup {t})
  BY EmptyChained, ChainedPush
<1>2. {} \cup {t} = {t}
  OBVIOUS
<1>. QED  BY <1>1, <1>2 DEF Doubly

(* A node in front of a list linked both ways.                             *)
LEMMA DoublyPush ==
  ASSUME NEW h, NEW nx, NEW pv, NEW N, Doubly(h, nx, pv, N), NEW t, t \notin N, t # Nil,
         NEW nx2, NEW pv2, nx2[t] = h, pv2[t] = Nil,
         \A n \in N : nx2[n] = nx[n] /\ pv2[n] = (IF n = h THEN t ELSE pv[n])
  PROVE  Doubly(t, nx2, pv2, N \cup {t})
<1>1. Chained(t, nx2, N \cup {t})
  BY ChainedPush DEF Doubly
<1>2. \A n \in N \cup {t} : nx2[n] # Nil => pv2[nx2[n]] = n
  BY DEF Doubly, Chained
<1>3. \A n \in N \cup {t} : n # t => pv2[n] \in N \cup {t} /\ nx2[pv2[n]] = n
  BY DEF Doubly, Chained
<1>. QED  BY <1>1, <1>2, <1>3 DEF Doubly

(* The neighbours of node a are linked with each other.                    *)
Past(h, nx, pv, a) == IF pv[a] = Nil THEN nx[a] ELSE h
Bypasses(N, nx, pv, a, nx2, pv2) ==
    \A n \in N : n # a => /\ nx2[n] = (IF n = pv[a] THEN nx[a] ELSE nx[n])
                          /\ pv2[n] = (IF n = nx[a] THEN pv[a] ELSE pv[n])

(* Node a leaves the list: the head if it has no predecessor.              *)
LEMMA DoublyDrop ==
  ASSUME NEW h, NEW nx, NEW pv, NEW N, Doubly(h, nx, pv, N), NEW a \in N,
         NEW nx2, NEW pv2, NEW h2,
         h2 = Past(h, nx, pv, a), Bypasses(N, nx, pv, a, nx2, pv2)
  PROVE  Doubly(h2, nx2, pv2, N \ {a})
<1>. USE DEF Past, Bypasses
<1>1. Nil \notin N /\ h \in N /\ nx[a] \in N \cup {Nil} /\ nx[a] # a
  BY ChainedLoop DEF Doubly, Chained
<1>2. CASE pv[a] = Nil
  <2>1. a = h
    BY <1>1, <1>2 DEF Doubly
  <2>2. h2 = nx[h]
    BY <1>2, <2>1
  <2>3. \A n \in N : n # h => nx2[n] = nx[n] /\ pv2[n] = (IF n = nx[h] THEN Nil ELSE pv[n])
    BY <1>1, <1>2, <2>1
  <2>4. Chained(h2, nx2, N \ {a})
    <3>1. h # Nil /\ (\A n \in N : n # h => nx2[n] = nx[n]) /\ Chained(h, nx, N)
      BY <1>1, <2>3 DEF Doubly
    <3>2. Chained(nx[h], nx2, N \ {h})
      BY ONLY <3>1, ChainedDropHead
    <3>. QED  BY <2>1, <2>2, <3>2
  <2>5. h2 # Nil => pv2[h2] = Nil
    BY <1>1, <2>1, <2>2, <2>3
  <2>6. \A n \in N \ {a} : nx2[n] # Nil => pv2[nx2[n]] = n
    BY <1>1, <2>1, <2>2, <2>3 DEF Doubly, Chained
  <2>7. \A n \in N \ {a} : n # h2 => pv2[n] \in N \ {a} /\ nx2[pv2[n]] = n
    BY <1>1, <2>1, <2>2, <2>3 DEF Doubly, Chained
  <2>. QED  BY <2>4, <2>5, <2>6, <2>7 DEF Doubly
<1>3. CASE pv[a] # Nil
  <2>. DEFINE b == pv[a]
  <2>1. a # h /\ b \in N /\ nx[b] = a /\ b # a /\ h2 = h
    BY <1>1, <1>3 DEF Doubly
  <2>2. \A n \in N : n # a /\ n # b => nx2[n] = nx[n]
    OBVIOUS
  <2>3. nx2[b] = nx[a]
    BY <2>1
  <2>4. Chained(h, nx2, N \ {a})
    BY <1>1, <2>1, <2>2, <2>3, ChainedDropBehind DEF Doubly
  <2>5. nx[a] # h /\ \A n \in N : nx[n] = nx[a] => n = a \/ nx[a] = Nil
    BY DEF Doubly, Chained
  <2>6. pv2[h] = Nil
    BY <1>1, <2>1, <2>5 DEF Doubly
  <2>7. \A n \in N \ {a} : nx2[n] # Nil => pv2[nx2[n]] = n
    BY <1>1, <2>1, <2>2, <2>3, <2>5 DEF Doubly, Chained
  <2>8. \A n \in N \ {a} : n # h => pv2[n] \in N \ {a} /\ nx2[pv2[n]] = n
    BY <1>1, <2>1, <2>2, <2>3, <2>5 DEF Doubly, Chained
  <2>. QED  BY <2>1, <2>4, <2>6, <2>7, <2>8 DEF Doubly
<1>. QED  BY <1>2, <1>3

(* A node behind another.                                                  *)
LEMMA DoublyInsert ==
  ASSUME NEW h, NEW nx, NEW pv, NEW N, Doubly(h, nx, pv, N), NEW hit \in N,
         NEW t, t # Nil, t \notin N, NEW nx2, NEW pv2,
         nx2[t] = nx[hit], pv2[t] = hit,
         \A n \in N : /\ nx2[n] = (IF n = hit THEN t ELSE nx[n])
                      /\ pv2[n] = (IF n = nx[hit] THEN t ELSE pv[n])
  PROVE  Doubly(h, nx2, pv2, N \cup {t})
<1>1. Chained(h, nx2, N \cup {t})
  BY ChainedInsert DEF Doubly
<1>2. Nil \notin N /\ h \in N /\ nx[hit] \in N \cup {Nil} /\ nx[hit] # h
  BY DEF Doubly, Chained
<1>3. \A n \in N : nx[n] = nx[hit] => n = hit \/ nx[hit] = Nil
  BY DEF Doubly, Chained
<1>4. pv2[h] = Nil
  BY <1>2 DEF Doubly
<1>5. \A n \in N \cup {t} : nx2[n] # Nil => pv2[nx2[n]] = n
  BY <1>2, <1>3 DEF Doubly, Chained
<1>6. \A n \in N \cup {t} : n # h => pv2[n] \in N \cup {t} /\ nx2[pv2[n]] = n
  BY <1>2, <1>3 DEF Doubly, Chained
<1>. QED  BY <1>1, <1>4, <1>5, <1>6 DEF Doubly

-----------------------------------------------------------------------------
(* Rings.                                                                  *)
LEMMA RingFrame ==
  ASSUME NEW h, NEW nx, NEW pv, NEW N, Ringed(h, nx, pv, N), NEW nx2, NEW pv2,
         \A n \in N \cup {h} : nx2[n] = nx[n] /\ pv2[n] = pv[n]
  PROVE  Ringed(h, nx2, pv2, N)
BY DEF Ringed

(* t becomes the first of the ring.                                        *)
LEMMA RingFirst ==
  ASSUME NEW h, NEW nx, NEW pv, NEW N, Ringed(h, nx, pv, N), NEW t, t \notin N, t # h,
         NEW nx2, NEW pv2, nx2[t] = nx[h], pv2[t] = h,
         \A n \in N \cup {h} : /\ nx2[n] = (IF n = h THEN t ELSE nx[n])
                               /\ pv2[n] = (IF n = nx[h] THEN t ELSE pv[n])
  PROVE  Ringed(h, nx2, pv2, N \cup {t})
<1>1. \A n \in N \cup {t} \cup {h} : nx2[n] \in N \cup {t} \cup {h} /\ pv2[nx2[n]] = n
  BY DEF Ringed
<1>2. \A n \in N \cup {t} \cup {h} : pv2[n] \in N \cup {t} \cup {h} /\ nx2[pv2[n]] = n
  BY DEF Ringed
<1>3. ASSUME NEW S \in SUBSET (N \cup {t} \cup {h}), h \in S, \A n \in S : nx2[n] \in S
      PROVE  S = N \cup {t} \cup {h}
  <2>1. t \in S
    BY <1>3
  <2>2. S \ {t} \in SUBSET (N \cup {h}) /\ h \in S \ {t}
    BY <1>3
  <2>3. \A n \in S \ {t} : nx[n] \in S \ {t}
    BY <1>3, <2>1 DEF Ringed
  <2>4. S \ {t} = N \cup {h}
    BY <2>2, <2>3 DEF Ringed
  <2>. QED  BY <2>1, <2>4, <1>3
<1>. QED  BY <1>1, <1>2, <1>3 DEF Ringed

(* A node leaves a ring.                                                   *)
LEMMA RingDrop ==
  ASSUME NEW h, NEW nx, NEW pv, NEW N, Ringed(h, nx, pv, N), NEW t \in N,
         NEW nx2, NEW pv2,
         \A n \in N \cup {h} : n # t => /\ nx2[n] = (IF n = pv[t] THEN nx[t] ELSE nx[n])
                                        /\ pv2[n] = (IF n = nx[t] THEN pv[t] ELSE pv[n])
  PROVE  Ringed(h, nx2, pv2, N \ {t})
<1>. DEFINE M == (N \ {t}) \cup {h}
            b == pv[t]
            x == nx[t]
<1>0. t # h /\ b \in N \cup {h} /\ x \in N \cup {h} /\ nx[b] = t /\ pv[x] = t
  BY DEF Ringed
<1>a. x # t
  <2>. SUFFICES ASSUME x = t  PROVE FALSE
    OBVIOUS
  <2>1. \A n \in M : nx[n] \in M
    BY <1>0 DEF Ringed
  <2>. QED  BY <1>0, <2>1 DEF Ringed
<1>b. b # t
  BY <1>0, <1>a
<1>c. \A n \in M : (nx[n] = t <=> n = b) /\ (pv[n] = t <=> n = x)
  BY <1>0, <1>a, <1>b DEF Ringed
<1>1. \A n \in M : nx2[n] \in M /\ pv2[nx2[n]] = n
  BY <1>0, <1>a, <1>b, <1>c DEF Ringed
<1>2. \A n \in M : pv2[n] \in M /\ nx2[pv2[n]] = n
  BY <1>0, <1>a, <1>b, <1>c DEF Ringed
<1>3. ASSUME NEW S \in SUBSET M, h \in S, \A n \in S : nx2[n] \in S
      PROVE  S = M
  <2>. DEFINE T == IF b \in S THEN S \cup {t} ELSE S
  <2>1. T \in SUBSET (N \cup {h}) /\ h \in T
    BY <1>3
  <2>2. ASSUME NEW n \in T  PROVE nx[n] \in T
    <3>1. CASE n = t
      BY <3>1, <1>0, <1>a, <1>b, <1>3, <2>2
    <3>2. CASE n = b
      BY <3>2, <1>0, <2>2, <1>b
    <3>3. CASE n # t /\ n # b
      BY <3>3, <1>0, <1>3, <2>2
    <3>. QED  BY <3>1, <3>2, <3>3
  <2>3. T = N \cup {h}
    BY <2>1, <2>2 DEF Ringed
  <2>. QED  BY <1>0, <1>3, <2>3
<1>. HIDE DEF M
<1>4. M = (N \ {t}) \cup {h} /\ h \notin N
  BY DEF M, Ringed
<1>. QED  BY <1>1, <1>2, <1>3, <1>4 DEF Ringed

(***************************************************************************)
(* Follow visits what can be reached, when it has as many steps.           *)
(***************************************************************************)
Steps(at, next, start, K) ==
    at = [i \in 0 .. K |-> IF i = 0 THEN start
                           ELSE IF at[i - 1] = Nil THEN Nil ELSE next[at[i - 1]]]

(* S is what start leads to.                                               *)
Spans(next, start, S) ==
    /\ start \in S
    /\ \A n \in S : n # Nil => next[n] \in S
    /\ \A T \in SUBSET S : start \in T /\ (\A n \in T : n # Nil => next[n] \in T) => T = S

(* A set with one element more.                                            *)
LEMMA AddOne ==
  ASSUME NEW N, IsFiniteSet(N), NEW x
  PROVE  /\ IsFiniteSet(N \cup {x}) /\ Cardinality(N) \in Nat /\ Cardinality(N \cup {x}) \in Nat
         /\ Cardinality(N) <= Cardinality(N \cup {x})
         /\ Cardinality(N \cup {x}) <= Cardinality(N) + 1
<1>1. /\ IsFiniteSet(N \cup {x})
      /\ Cardinality(N \cup {x}) = (IF x \in N THEN Cardinality(N) ELSE Cardinality(N) + 1)
  BY FS_AddElement
<1>2. Cardinality(N) \in Nat
  BY FS_CardinalityType
<1>. QED  BY <1>1, <1>2

(* The places reached in 0, 1, ... K steps along the links, as PoolArenas' *)
(* Follow counts them.                                                     *)
LEMMA StepsExist ==
  ASSUME NEW next, NEW start, NEW S, Spans(next, start, S), Nil \in S \/ Nil \notin S,
         NEW K \in Nat
  PROVE  \E at \in [0 .. K -> S] : Steps(at, next, start, K)
<1>. DEFINE F == [x \in S |-> IF x = Nil THEN Nil ELSE next[x]]
<1>1. F \in [S -> S] /\ start \in S
  BY DEF Spans
<1>2. PICK g \in [0 .. K -> S] : Iterates(g, start, F, K)
  BY <1>1, IterationExists
<1>3. \A i \in 0 .. K : g[i] = IF i = 0 THEN start ELSE F[g[i - 1]]
  BY <1>2 DEF Iterates
<1>4. \A i \in 1 .. K : g[i - 1] \in S
  BY <1>2
<1>5. \A i \in 0 .. K : g[i] = IF i = 0 THEN start
                               ELSE IF g[i - 1] = Nil THEN Nil ELSE next[g[i - 1]]
  <2>. SUFFICES ASSUME NEW i \in 0 .. K
                PROVE  g[i] = IF i = 0 THEN start
                              ELSE IF g[i - 1] = Nil THEN Nil ELSE next[g[i - 1]]
    OBVIOUS
  <2>1. i # 0 => i \in 1 .. K
    OBVIOUS
  <2>2. i # 0 => F[g[i - 1]] = IF g[i - 1] = Nil THEN Nil ELSE next[g[i - 1]]
    BY <2>1, <1>4
  <2>3. g[i] = IF i = 0 THEN start ELSE F[g[i - 1]]
    BY <1>3
  <2>. HIDE DEF F
  <2>. QED  BY <2>2, <2>3
<1>. QED  BY <1>2, <1>5 DEF Steps

Reaches(at, next, start, S, K) ==
    /\ at \in [0 .. K -> S]
    /\ \A i \in 1 .. K : at[i] = IF at[i - 1] = Nil THEN Nil ELSE next[at[i - 1]]
    /\ at[0] = start
    /\ {at[i] : i \in 0 .. K} = S

(* In as many steps as there are places every place is reached.            *)
LEMMA StepsReach ==
  ASSUME NEW next, NEW start, NEW S, Spans(next, start, S), IsFiniteSet(S),
         NEW K \in Nat, Cardinality(S) <= K, NEW at, Steps(at, next, start, K)
  PROVE  Reaches(at, next, start, S, K)
<1>. DEFINE F == [Y \in SUBSET S |-> Y \cup {next[y] : y \in Y \ {Nil}}]
            X == {i \in Nat : i <= K => at[i] \in S}
<1>1. /\ at[0] = start /\ at = [i \in 0 .. K |-> at[i]]
      /\ \A i \in 1 .. K : at[i] = IF at[i - 1] = Nil THEN Nil ELSE next[at[i - 1]]
  BY DEF Steps
<1>2. 0 \in X
  BY <1>1 DEF Spans
<1>3. \A i \in Nat : i \in X => i + 1 \in X
  <2>. SUFFICES ASSUME NEW i \in Nat, i + 1 <= K, at[i] \in S  PROVE at[i + 1] \in S
    OBVIOUS
  <2>0. i + 1 \in 1 .. K /\ (i + 1) - 1 = i
    OBVIOUS
  <2>1. at[i + 1] = IF at[i] = Nil THEN Nil ELSE next[at[i]]
    BY <1>1, <2>0
  <2>. QED  BY <2>1 DEF Spans
<1>. HIDE DEF X
<1>4. Nat \subseteq X
  BY <1>2, <1>3, NatSetInduction
<1>5. \A i \in 0 .. K : at[i] \in S
  BY <1>4 DEF X
<1>6. F \in [SUBSET S -> SUBSET S] /\ {start} \in SUBSET S
  BY DEF Spans
<1>7. PICK G \in [0 .. K -> SUBSET S] : Iterates(G, {start}, F, K)
  BY <1>6, IterationExists
<1>8. Inflates(F, S)
  BY <1>6 DEF Inflates
<1>9. G[K] \in SUBSET S /\ {start} \subseteq G[K] /\ F[G[K]] = G[K]
  <2>. HIDE DEF F
  <2>. QED  BY <1>6, <1>7, <1>8, IterationRests
<1>10. G[K] = S
  BY <1>9 DEF Spans
<1>. DEFINE Z == {i \in Nat : i <= K => G[i] \subseteq {at[j] : j \in 0 .. i}}
<1>11. 0 \in Z
  <2>1. G[0] = {start}
    BY <1>7 DEF Iterates
  <2>. QED  BY <1>1, <2>1
<1>12. \A i \in Nat : i \in Z => i + 1 \in Z
  <2>. SUFFICES ASSUME NEW i \in Nat, i + 1 <= K, G[i] \subseteq {at[j] : j \in 0 .. i},
                       NEW e \in G[i + 1]
                PROVE  e \in {at[j] : j \in 0 .. i + 1}
    OBVIOUS
  <2>1. G[i + 1] = F[G[i]] /\ G[i] \in SUBSET S
    <3>1. i + 1 \in 0 .. K /\ i \in 0 .. K /\ (i + 1) - 1 = i /\ i + 1 # 0
      OBVIOUS
    <3>2. G[i + 1] = F[G[i]]
      <4>. HIDE DEF F
      <4>. QED  BY <1>7, <3>1 DEF Iterates
    <3>. QED  BY <3>1, <3>2, <1>7
  <2>2. CASE e \in G[i]
    BY <2>2
  <2>3. CASE e \notin G[i]
    <3>1. PICK y \in G[i] \ {Nil} : e = next[y]
      BY <2>1, <2>3
    <3>2. PICK j \in 0 .. i : y = at[j]
      BY <3>1
    <3>a. j + 1 \in 1 .. K /\ (j + 1) - 1 = j /\ j + 1 \in 0 .. i + 1
      OBVIOUS
    <3>3. at[j + 1] = next[y]
      BY <1>1, <3>a, <3>1, <3>2
    <3>. QED  BY <3>a, <3>1, <3>3
  <2>. QED  BY <2>2, <2>3
<1>. HIDE DEF Z
<1>13. Nat \subseteq Z
  BY <1>11, <1>12, NatSetInduction
<1>14. G[K] \subseteq {at[j] : j \in 0 .. K}
  BY <1>13 DEF Z
<1>15. {at[j] : j \in 0 .. K} = S
  BY <1>5, <1>10, <1>14
<1>16. at \in [0 .. K -> S]
  BY <1>1, <1>5
<1>. QED  BY <1>1, <1>15, <1>16 DEF Reaches

(* Follow returns the places that the links lead to.                       *)
LEMMA FollowIs ==
  ASSUME NEW next, NEW start, NEW S, Spans(next, start, S), IsFiniteSet(S),
         NEW K \in Nat, Cardinality(S) <= K
  PROVE  Follow(next, start, K) = S
<1>. DEFINE c == CHOOSE at : Steps(at, next, start, K)
<1>1. Steps(c, next, start, K)
  BY StepsExist
<1>2. {c[i] : i \in 0 .. K} = S
  <2>. HIDE DEF c
  <2>1. Reaches(c, next, start, S, K)
    BY <1>1, StepsReach
  <2>. QED  BY <2>1 DEF Reaches
<1>3. Follow(next, start, K) = {c[i] : i \in 0 .. K}
  BY DEF Follow, Steps
<1>. QED  BY <1>2, <1>3

(* A list that is not empty ends.                                          *)
LEMMA ChainedEnds ==
  ASSUME NEW h, NEW nx, NEW N, Chained(h, nx, N), IsFiniteSet(N), h # Nil
  PROVE  \E n \in N : nx[n] = Nil
<1>. SUFFICES ASSUME \A n \in N : nx[n] # Nil  PROVE FALSE
  OBVIOUS
<1>1. h \in N /\ \A n \in N : nx[n] \in N \ {h}
  BY DEF Chained
<1>2. [n \in N |-> nx[n]] \in Injection(N, N \ {h})
  BY <1>1 DEF Injection, IsInjective, Chained
<1>3. IsFiniteSet(N \ {h}) /\ Cardinality(N \ {h}) = Cardinality(N) - 1
  BY <1>1, FS_RemoveElement
<1>4. Cardinality(N) <= Cardinality(N \ {h})
  BY <1>2, <1>3, FS_Injection
<1>5. Cardinality(N) \in Nat
  BY FS_CardinalityType
<1>. QED  BY <1>3, <1>4, <1>5

(* The links of a list lead to its nodes and to its end.                   *)
LEMMA ChainedSpans ==
  ASSUME NEW h, NEW nx, NEW N, Chained(h, nx, N), IsFiniteSet(N)
  PROVE  Spans(nx, h, N \cup {Nil})
<1>1. h \in N \cup {Nil} /\ \A n \in N : nx[n] \in N \cup {Nil}
  BY DEF Chained
<1>2. ASSUME NEW T \in SUBSET (N \cup {Nil}), h \in T, \A n \in T : n # Nil => nx[n] \in T
      PROVE  T = N \cup {Nil}
  <2>1. CASE h = Nil
    BY <2>1, <1>2 DEF Chained
  <2>2. CASE h # Nil
    <3>1. T \ {Nil} \in SUBSET N /\ h \in T \ {Nil} /\ Leads(T \ {Nil}, nx)
      BY <1>2, <2>2 DEF Leads
    <3>2. T \ {Nil} = N
      BY <3>1 DEF Chained
    <3>3. Nil \in T
      BY <3>2, <1>2, <2>2, ChainedEnds DEF Chained
    <3>. QED  BY <3>2, <3>3
  <2>. QED  BY <2>1, <2>2
<1>. QED  BY <1>1, <1>2 DEF Spans

(* Follow of a list: its nodes and Nil.                                    *)
LEMMA FollowList ==
  ASSUME NEW h, NEW nx, NEW N, Chained(h, nx, N), IsFiniteSet(N),
         NEW K \in Nat, Cardinality(N) < K
  PROVE  Follow(nx, h, K) = N \cup {Nil}
<1>1. IsFiniteSet(N \cup {Nil}) /\ Cardinality(N \cup {Nil}) <= K
  <2>1. /\ IsFiniteSet(N \cup {Nil}) /\ Cardinality(N) \in Nat /\ Cardinality(N \cup {Nil}) \in Nat
        /\ Cardinality(N \cup {Nil}) <= Cardinality(N) + 1
    BY AddOne
  <2>. QED  BY <2>1
<1>. QED  BY <1>1, ChainedSpans, FollowIs

(* Follow of a ring: its nodes and its header.                             *)
LEMMA FollowRing ==
  ASSUME NEW h, NEW nx, NEW pv, NEW N, Ringed(h, nx, pv, N), IsFiniteSet(N), h # Nil, Nil \notin N,
         NEW K \in Nat, Cardinality(N) < K
  PROVE  Follow(nx, h, K) = N \cup {h}
<1>1. IsFiniteSet(N \cup {h}) /\ Cardinality(N \cup {h}) <= K
  <2>1. /\ IsFiniteSet(N \cup {h}) /\ Cardinality(N) \in Nat /\ Cardinality(N \cup {h}) \in Nat
        /\ Cardinality(N \cup {h}) <= Cardinality(N) + 1
    BY AddOne
  <2>. QED  BY <2>1
<1>2. Spans(nx, h, N \cup {h})
  BY DEF Spans, Ringed
<1>. QED  BY <1>1, <1>2, FollowIs

(* Every node of a list has a place in it.                                 *)
LEMMA ChainedPlaces ==
  ASSUME NEW h, NEW nx, NEW N, Chained(h, nx, N), IsFiniteSet(N),
         NEW K \in Nat, Cardinality(N) < K
  PROVE  \E r \in [N -> 0 .. K - 1] :
           \A n \in N : nx[n] # Nil => r[nx[n]] = r[n] + 1
<1>1. IsFiniteSet(N \cup {Nil}) /\ Cardinality(N \cup {Nil}) <= K
  <2>1. /\ IsFiniteSet(N \cup {Nil}) /\ Cardinality(N) \in Nat /\ Cardinality(N \cup {Nil}) \in Nat
        /\ Cardinality(N \cup {Nil}) <= Cardinality(N) + 1
    BY AddOne
  <2>. QED  BY <2>1
<1>2. Spans(nx, h, N \cup {Nil})
  BY ChainedSpans
<1>3. PICK at \in [0 .. K -> N \cup {Nil}] : Steps(at, nx, h, K)
  BY <1>2, StepsExist
<1>4. /\ \A i \in 1 .. K : at[i] = IF at[i - 1] = Nil THEN Nil ELSE nx[at[i - 1]]
      /\ at[0] = h
      /\ {at[i] : i \in 0 .. K} = N \cup {Nil}
  <2>. DEFINE S == N \cup {Nil}
  <2>1. Spans(nx, h, S) /\ IsFiniteSet(S) /\ Cardinality(S) <= K /\ Steps(at, nx, h, K)
    BY <1>1, <1>2, <1>3
  <2>2. Reaches(at, nx, h, S, K)
    <3>. HIDE DEF S
    <3>. QED  BY <2>1, StepsReach
  <2>. QED  BY <2>2 DEF Reaches
<1>0. /\ Nil \notin N /\ h \in N \cup {Nil} /\ (h = Nil => N = {})
      /\ \A n \in N : nx[n] \in N \cup {Nil} /\ nx[n] # h
      /\ \A m, n \in N : nx[m] = nx[n] => m = n \/ nx[m] = Nil
  BY DEF Chained
<1>5. ASSUME NEW n \in N  PROVE \E j \in 0 .. K : at[j] = n /\ \A i \in 0 .. K : at[i] = n => j <= i
  <2>. DEFINE J == {i \in 0 .. K : at[i] = n}
  <2>1. J \in SUBSET Nat /\ J # {}
    BY <1>4, <1>5
  <2>2. Min(J) \in J /\ \A i \in J : Min(J) <= i
    <3>. HIDE DEF J
    <3>. QED  BY <2>1, NatMin
  <2>. QED  BY <2>2
<1>. DEFINE First(n) == CHOOSE j \in 0 .. K : at[j] = n /\ \A i \in 0 .. K : at[i] = n => j <= i
            r == [n \in N |-> First(n)]
<1>6. \A n \in N : First(n) \in 0 .. K /\ at[First(n)] = n /\ \A i \in 0 .. K : at[i] = n => First(n) <= i
  BY <1>5
<1>. HIDE DEF First
<1>7. PICK e \in 0 .. K : at[e] = Nil
  BY <1>4
<1>8. \A i \in Nat : e <= i /\ i <= K => at[i] = Nil
  <2>. DEFINE X == {i \in Nat : e <= i /\ i <= K => at[i] = Nil}
  <2>1. 0 \in X
    BY <1>7
  <2>2. \A i \in Nat : i \in X => i + 1 \in X
    <3>. SUFFICES ASSUME NEW i \in Nat, i \in X, e <= i + 1, i + 1 <= K  PROVE at[i + 1] = Nil
      OBVIOUS
    <3>1. CASE e = i + 1
      BY <3>1, <1>7
    <3>2. CASE e # i + 1
      <4>1. e <= i /\ i <= K /\ i + 1 \in 1 .. K /\ (i + 1) - 1 = i
        BY <3>2
      <4>2. at[i] = Nil
        BY <4>1
      <4>. QED  BY <1>4, <4>1, <4>2
    <3>. QED  BY <3>1, <3>2
  <2>. HIDE DEF X
  <2>3. Nat \subseteq X
    BY <2>1, <2>2, NatSetInduction
  <2>. QED  BY <2>3 DEF X
<1>9. \A n \in N : First(n) \in 0 .. K - 1
  BY <1>6, <1>7, <1>8, <1>0
<1>10. ASSUME NEW n \in N, nx[n] # Nil  PROVE First(nx[n]) = First(n) + 1
  <2>1. nx[n] \in N /\ First(n) + 1 \in 1 .. K /\ at[First(n)] = n
    BY <1>0, <1>6, <1>9, <1>10
  <2>2. at[First(n) + 1] = nx[n]
    <3>1. PICK k \in 0 .. K : k = First(n)
      BY <1>6
    <3>2. n # Nil /\ at[k] = n /\ k + 1 \in 1 .. K /\ (k + 1) - 1 = k
      BY <1>0, <2>1, <3>1
    <3>3. at[k + 1] = nx[n]
      BY <1>4, <3>2
    <3>. QED  BY <3>1, <3>3
  <2>3. First(nx[n]) <= First(n) + 1
    BY <1>6, <2>1, <2>2
  <2>. DEFINE j == First(nx[n])
  <2>4. j \in 0 .. K /\ at[j] = nx[n]
    BY <1>6, <2>1
  <2>5. j # 0
    BY <1>0, <1>4, <2>4
  <2>6. j - 1 \in 0 .. K /\ at[j - 1] # Nil /\ at[j] = nx[at[j - 1]]
    BY <1>0, <1>4, <2>1, <2>4, <2>5
  <2>7. at[j - 1] = n
    BY <1>0, <1>3, <1>10, <2>4, <2>6
  <2>8. First(n) <= j - 1
    BY <1>6, <2>6, <2>7
  <2>. QED  BY <1>6, <2>1, <2>3, <2>4, <2>8
<1>11. r \in [N -> 0 .. K - 1] /\ \A n \in N : nx[n] # Nil => r[nx[n]] = r[n] + 1
  BY <1>0, <1>9, <1>10
<1>. QED  BY <1>11

(***************************************************************************)
(* The numbers of arenas and pools.                                        *)
(***************************************************************************)
LEMMA DivIs ==
  ASSUME NEW n \in Nat, NEW k \in Nat \ {0}
  PROVE  /\ n \div k \in Nat
         /\ k * (n \div k) <= n /\ n < k * (n \div k) + k
  OBVIOUS

(* The quotient is the only number of this kind.                           *)
LEMMA DivOf ==
  ASSUME NEW n \in Nat, NEW k \in Nat \ {0}, NEW q \in Nat, k * q <= n, n < k * q + k
  PROVE  n \div k = q
<1>. DEFINE d == n \div k
<1>1. d \in Nat /\ k * d <= n /\ n < k * d + k
  BY DivIs
<1>. HIDE DEF d
<1>2. ~ (d < q)
  <2>. SUFFICES ASSUME d + 1 <= q  PROVE FALSE
    BY <1>1
  <2>1. PICK e \in Nat : q = (d + 1) + e
    <3>1. q - (d + 1) \in Nat /\ q = (d + 1) + (q - (d + 1))
      BY <1>1
    <3>. QED  BY <3>1
  <2>2. k * q = (k * d + k) + k * e /\ k * e \in Nat /\ k * d \in Nat
    BY <1>1, <2>1
  <2>. QED  BY <1>1, <2>2
<1>3. ~ (q < d)
  <2>. SUFFICES ASSUME q + 1 <= d  PROVE FALSE
    BY <1>1
  <2>1. PICK e \in Nat : d = (q + 1) + e
    <3>1. d - (q + 1) \in Nat /\ d = (q + 1) + (d - (q + 1))
      BY <1>1
    <3>. QED  BY <3>1
  <2>2. k * d = (k * q + k) + k * e /\ k * e \in Nat /\ k * q \in Nat
    BY <1>1, <2>1
  <2>. QED  BY <1>1, <2>2
<1>. QED  BY <1>1, <1>2, <1>3 DEF d

PoolsOf(a) == FirstPool(a) .. (FirstPool(a) + PoolsPerArena - 1)

(* Numbers of arenas and of pools.                                         *)
LEMMA PoolNumbers ==
  /\ PoolsPerArena \in Nat /\ PoolsPerArena >= 3 /\ MaxArenaObjects \in Nat /\ MaxArenaObjects >= 1
  /\ MaxArenaObjects * PoolsPerArena \in Nat
  /\ \A a \in Arena : /\ a \in Nat /\ a >= 1 /\ FirstPool(a) \in Nat /\ FirstPool(a) >= 1
                      /\ FirstPool(a) + PoolsPerArena <= MaxArenaObjects * PoolsPerArena + 1
  /\ \A a \in Arena, p \in Int : FirstPool(a) <= p /\ p < FirstPool(a) + PoolsPerArena
                                 => p \in Pool /\ ArenaOf(p) = a
  /\ \A p \in Pool : /\ p \in Nat /\ p # Nil /\ ArenaOf(p) \in Arena
                     /\ FirstPool(ArenaOf(p)) <= p /\ p < FirstPool(ArenaOf(p)) + PoolsPerArena
<1>. DEFINE P == PoolsPerArena
            M == MaxArenaObjects
<1>1. P \in Nat \ {0} /\ P >= 3 /\ M \in Nat \ {0}
  BY PoolArenasAssumption
<1>. HIDE DEF P, M
<1>2. M * P \in Nat
  BY <1>1
<1>3. ASSUME NEW a \in 1 .. M
      PROVE  /\ a \in Nat /\ a >= 1 /\ (a - 1) * P + 1 \in Nat /\ (a - 1) * P + 1 >= 1
             /\ (a - 1) * P + 1 + P <= M * P + 1
             /\ \A p \in Int : (a - 1) * P + 1 <= p /\ p < (a - 1) * P + 1 + P
                               => p \in 1 .. M * P /\ (p - 1) \div P + 1 = a
  <2>1. a - 1 \in Nat /\ M - a \in Nat
    BY <1>1
  <2>2. (a - 1) * P \in Nat /\ (M - a) * P \in Nat
    BY <1>1, <2>1
  <2>3. M * P = (a - 1) * P + P + (M - a) * P
    <3>1. PICK i \in Nat, j \in Nat : i = a - 1 /\ j = M - a
      BY <2>1
    <3>2. M = i + 1 + j
      BY <1>1, <3>1
    <3>3. (i + 1 + j) * P = i * P + P + j * P
      BY <1>1
    <3>. QED  BY <3>1, <3>2, <3>3
  <2>4. (a - 1) * P + 1 + P <= M * P + 1
    BY <1>1, <1>2, <2>2, <2>3
  <2>5. ASSUME NEW p \in Int, (a - 1) * P + 1 <= p, p < (a - 1) * P + 1 + P
        PROVE  p \in 1 .. M * P /\ (p - 1) \div P + 1 = a
    <3>1. p - 1 \in Nat /\ P * (a - 1) <= p - 1 /\ p - 1 < P * (a - 1) + P
      <4>1. P * (a - 1) = (a - 1) * P
        BY <1>1
      <4>. QED  BY <1>1, <2>2, <2>5, <4>1
    <3>2. (p - 1) \div P = a - 1
      BY <1>1, <2>1, <3>1, DivOf
    <3>. QED  BY <1>1, <1>2, <2>1, <2>2, <2>4, <2>5, <3>2
  <2>. QED  BY <1>1, <2>1, <2>2, <2>4, <2>5
<1>4. ASSUME NEW p \in 1 .. M * P
      PROVE  /\ p \in Nat /\ p # 0 /\ (p - 1) \div P + 1 \in 1 .. M
             /\ ((p - 1) \div P + 1 - 1) * P + 1 <= p
             /\ p < ((p - 1) \div P + 1 - 1) * P + 1 + P
  <2>1. p - 1 \in Nat
    BY <1>2
  <2>2. PICK q \in Nat : q = (p - 1) \div P /\ P * q <= p - 1 /\ p - 1 < P * q + P
    BY <1>1, <2>1, DivIs
  <2>3. q + 1 - 1 = q /\ q * P = P * q /\ q * P \in Nat
    BY <1>1
  <2>4. ~ (M <= q)
    <3>. SUFFICES ASSUME M <= q  PROVE FALSE
      OBVIOUS
    <3>1. q - M \in Nat
      BY <1>1
    <3>2. PICK e \in Nat : q = M + e
      <4>1. q = M + (q - M)
        BY <1>1
      <4>. QED  BY <3>1, <4>1
    <3>3. q * P = M * P + e * P /\ e * P \in Nat
      BY <1>1, <3>2
    <3>. QED  BY <1>2, <2>1, <2>2, <2>3, <3>3
  <2>5. q + 1 \in 1 .. M
    BY <1>1, <2>4
  <2>6. q * P + 1 <= p /\ p < q * P + 1 + P
    BY <1>1, <1>2, <2>1, <2>2, <2>3
  <2>. QED  BY <1>2, <2>2, <2>3, <2>5, <2>6
<1>. QED  BY <1>1, <1>2, <1>3, <1>4 DEF P, M, Arena, Pool, FirstPool, ArenaOf, Nil

(* The pools of an arena.                                                  *)
LEMMA PoolsOfIs ==
  ASSUME NEW a \in Arena
  PROVE  /\ PoolsOf(a) \subseteq Pool /\ IsFiniteSet(PoolsOf(a)) /\ Cardinality(PoolsOf(a)) = PoolsPerArena
         /\ \A p \in Pool : p \in PoolsOf(a) <=> ArenaOf(p) = a
<1>1. PoolsOf(a) \subseteq Pool
  BY PoolNumbers DEF PoolsOf
<1>2. IsFiniteSet(PoolsOf(a)) /\ Cardinality(PoolsOf(a)) = PoolsPerArena
  <2>1. PICK f \in Nat : f = FirstPool(a)
    BY PoolNumbers
  <2>2. PICK e \in Nat : e = f + PoolsPerArena - 1
    BY PoolNumbers, <2>1
  <2>3. e >= f /\ e - f + 1 = PoolsPerArena
    BY PoolNumbers, <2>2
  <2>4. IsFiniteSet(f .. e) /\ Cardinality(f .. e) = e - f + 1
    BY <2>3, FS_Interval
  <2>. QED  BY <2>1, <2>2, <2>3, <2>4 DEF PoolsOf
<1>3. \A p \in Pool : p \in PoolsOf(a) <=> ArenaOf(p) = a
  BY PoolNumbers DEF PoolsOf
<1>. QED  BY <1>1, <1>2, <1>3

(* Pools, headers of usedpools and arenas are distinct, and finitely many. *)
LEMMA NodesAre ==
  /\ Node = Pool \cup {PTA(c) : c \in SizeClass} /\ Pool \subseteq Node /\ Nil \notin Node
  /\ \A c \in SizeClass : PTA(c) \in Node /\ PTA(c) \notin Pool /\ PTA(c) # Nil
  /\ \A c, d \in SizeClass : PTA(c) = PTA(d) => c = d
  /\ IsFiniteSet(Pool) /\ Cardinality(Pool) \in Nat
  /\ Nil \notin Arena /\ IsFiniteSet(Arena) /\ Cardinality(Arena) = MaxArenaObjects
  /\ DUMMY_SIZE_IDX \notin SizeClass
  /\ \A S \in SUBSET Pool : IsFiniteSet(S) /\ Cardinality(S) <= Cardinality(Pool)
<1>. DEFINE X == MaxArenaObjects * PoolsPerArena
<1>1. X \in Nat /\ MaxArenaObjects \in Nat
  BY PoolNumbers
<1>2. NClasses \in Nat \ {0}
  BY PoolArenasAssumption
<1>3. Pool = 1 .. X /\ Arena = 1 .. MaxArenaObjects /\ SizeClass = 1 .. NClasses
  BY DEF Pool, Arena, SizeClass
<1>4. \A c \in SizeClass : PTA(c) = X + c
  BY DEF PTA
<1>5. Node = Pool \cup {PTA(c) : c \in SizeClass} /\ Pool \subseteq Node
  BY DEF Node
<1>6. IsFiniteSet(Pool) /\ Cardinality(Pool) = X /\ IsFiniteSet(Arena) /\ Cardinality(Arena) = MaxArenaObjects
  <2>. HIDE DEF X
  <2>. QED  BY <1>1, <1>3, FS_Interval
<1>. HIDE DEF X
<1>7. \A c \in SizeClass : PTA(c) \in Node /\ PTA(c) \notin Pool /\ PTA(c) # Nil
  BY <1>1, <1>2, <1>3, <1>4, <1>5 DEF Nil
<1>8. \A c, d \in SizeClass : PTA(c) = PTA(d) => c = d
  BY <1>1, <1>2, <1>3, <1>4
<1>9. Nil \notin Pool /\ Nil \notin Arena
  BY <1>1, <1>3 DEF Nil
<1>10. DUMMY_SIZE_IDX \notin SizeClass
  BY <1>2, <1>3 DEF DUMMY_SIZE_IDX
<1>11. \A S \in SUBSET Pool : IsFiniteSet(S) /\ Cardinality(S) <= Cardinality(Pool)
  BY <1>6, FS_Subset
<1>. QED  BY <1>1, <1>5, <1>6, <1>7, <1>8, <1>9, <1>10, <1>11

(* Block numbers: those of the class with the most.                        *)
LEMMA BlockNumbers ==
  \E B \in Nat : /\ Block = 1 .. B /\ B >= 2 /\ Cardinality(Block) = B
                 /\ \A c \in SizeClass : NUMBLOCKS[c] \in Nat /\ NUMBLOCKS[c] >= 2 /\ NUMBLOCKS[c] <= B
<1>. DEFINE V == {NUMBLOCKS[c] : c \in SizeClass}
            T == {n \in Nat : n >= 1 /\ n <= NClasses =>
                    \E c \in 1 .. n : \A d \in 1 .. n : NUMBLOCKS[d] <= NUMBLOCKS[c]}
<1>1. NClasses \in Nat \ {0} /\ \A c \in 1 .. NClasses : NUMBLOCKS[c] \in Nat /\ NUMBLOCKS[c] >= 2
  BY PoolArenasAssumption
<1>2. 0 \in T
  OBVIOUS
<1>3. ASSUME NEW n \in Nat, n \in T  PROVE n + 1 \in T
  <2>. SUFFICES ASSUME n + 1 <= NClasses
                PROVE  \E c \in 1 .. n + 1 : \A d \in 1 .. n + 1 : NUMBLOCKS[d] <= NUMBLOCKS[c]
    OBVIOUS
  <2>0. n + 1 \in 1 .. NClasses
    BY <1>1
  <2>1. CASE n = 0
    BY <1>1, <2>0, <2>1
  <2>2. CASE n # 0
    <3>1. PICK c \in 1 .. n : \A d \in 1 .. n : NUMBLOCKS[d] <= NUMBLOCKS[c]
      BY <1>1, <1>3, <2>2
    <3>2. CASE NUMBLOCKS[n + 1] <= NUMBLOCKS[c]
      BY <1>1, <3>1, <3>2
    <3>3. CASE ~ (NUMBLOCKS[n + 1] <= NUMBLOCKS[c])
      <4>1. \A d \in 1 .. n + 1 : d \in 1 .. n \/ d = n + 1
        OBVIOUS
      <4>2. \A d \in 1 .. n : NUMBLOCKS[d] <= NUMBLOCKS[n + 1]
        BY <1>1, <2>0, <3>1, <3>3
      <4>3. NUMBLOCKS[n + 1] <= NUMBLOCKS[n + 1]
        BY <1>1, <2>0
      <4>. QED  BY <4>1, <4>2, <4>3
    <3>. QED  BY <3>2, <3>3
  <2>. QED  BY <2>1, <2>2
<1>. HIDE DEF T
<1>4. NClasses \in T
  BY <1>1, <1>2, <1>3, NatSetInduction
<1>5. PICK c \in SizeClass : \A d \in SizeClass : NUMBLOCKS[d] <= NUMBLOCKS[c]
  BY <1>1, <1>4 DEF T, SizeClass
<1>6. PICK B : B = CHOOSE n \in V : \A d \in SizeClass : NUMBLOCKS[d] <= n
  OBVIOUS
<1>7. B \in V /\ \A d \in SizeClass : NUMBLOCKS[d] <= B
  BY <1>5, <1>6
<1>8. Block = 1 .. B
  BY <1>6 DEF Block
<1>9. B \in Nat /\ B >= 2 /\ \A d \in SizeClass : NUMBLOCKS[d] \in Nat /\ NUMBLOCKS[d] >= 2
  BY <1>1, <1>7 DEF SizeClass
<1>10. Cardinality(Block) = B
  BY <1>8, <1>9, FS_Interval
<1>. QED  BY <1>7, <1>8, <1>9, <1>10

(***************************************************************************)
(* The invariant of obmalloc.c.  I are the pools in use, G the free ones   *)
(* that were used before.                                                  *)
(***************************************************************************)
Memory == [maxarenas : 0 .. MaxArenaObjects, unused : Arena \cup {Nil}, usable : Arena \cup {Nil},
           arenas : [Arena -> arena_object], pool : [Pool -> pool_header],
           nextpool : [Node -> Node \cup {Nil}], prevpool : [Node -> Node \cup {Nil}]]

(* Every pool below pool_address is in use or free; the arena's numbers.   *)
Counts(m, I, G) ==
    /\ I \in SUBSET Pool /\ G \in SUBSET Pool /\ I \cap G = {}
    /\ \A p \in Pool : p \in I \cup G <=> /\ m.arenas[ArenaOf(p)].used
                                          /\ p < m.arenas[ArenaOf(p)].pool_address
    /\ \A a \in Arena : m.arenas[a].used =>
         /\ m.arenas[a].ntotalpools >= PoolsPerArena - 1
         /\ m.arenas[a].nfreepools = m.arenas[a].ntotalpools - Cardinality(I \cap PoolsOf(a))
         /\ FirstPool(a) <= m.arenas[a].pool_address
         /\ m.arenas[a].pool_address <= FirstPool(a) + m.arenas[a].ntotalpools

(* Every arena has the list of its free pools.                             *)
Frees(m, G) ==
    \A a \in Arena : m.arenas[a].used =>
        Chained(m.arenas[a].freepools, m.nextpool, G \cap PoolsOf(a))

(* Every class has the ring of its pools in R.                             *)
OfClass(m, R, c) == {p \in R : m.pool[p].szidx = c}
Rings(m, R) ==
    /\ R \in SUBSET Pool
    /\ \A p \in R : m.pool[p].szidx \in SizeClass
    /\ \A c \in SizeClass : Ringed(PTA(c), m.nextpool, m.prevpool, OfClass(m, R, c))

(* The blocks of pool p among O; what a header says of the blocks held.    *)
HeldOf(O, p) == {b \in Block : <<p, b>> \in O}
GoodPool(h, H) ==
    /\ h \in pool_header /\ h.szidx \in SizeClass
    /\ IsFiniteSet(H) /\ h.count = Cardinality(H)
    /\ 3 <= h.nextoffset /\ h.nextoffset <= NUMBLOCKS[h.szidx] + 1
    /\ IsInjective(h.freeblock)
    /\ H \cap ToSet(h.freeblock) = {}
    /\ H \cup ToSet(h.freeblock) = 1 .. h.nextoffset - 1

PoolBlocks(m, O, I, G) ==
    /\ O \subseteq I \X Block
    /\ \A p \in I \cup G : GoodPool(m.pool[p], HeldOf(O, p))
    /\ \A p \in I : HeldOf(O, p) # {}

(* A pool of I is in the ring of its class while it has a block to give.   *)
Giving(m, I) == {p \in I : m.pool[p].freeblock # <<>>}

Pools(m, O, I, G) ==
    /\ Counts(m, I, G) /\ Frees(m, G) /\ Rings(m, Giving(m, I)) /\ PoolBlocks(m, O, I, G)

(* usable_arenas and unused_arena_objects.                                 *)
Nexts(m) == [a \in Arena |-> m.arenas[a].nextarena]
Prevs(m) == [a \in Arena |-> m.arenas[a].prevarena]
Usables(m) == {a \in Arena : m.arenas[a].used /\ m.arenas[a].nfreepools > 0}
Unuseds(m) == {a \in 1 .. m.maxarenas : ~m.arenas[a].used}

Lists(m) ==
    /\ Doubly(m.usable, Nexts(m), Prevs(m), Usables(m))
    /\ \A a \in Usables(m) : Nexts(m)[a] # Nil =>
         m.arenas[a].nfreepools <= m.arenas[Nexts(m)[a]].nfreepools
    /\ Chained(m.unused, Nexts(m), Unuseds(m))
    /\ \A a \in Arena : m.arenas[a].used => a <= m.maxarenas

(* No arena is kept that is free as a whole.                               *)
Busy(m) == \A a \in Arena : m.arenas[a].used => m.arenas[a].nfreepools < m.arenas[a].ntotalpools

Inv(m, O) ==
    /\ m \in Memory /\ Lists(m) /\ Busy(m)
    /\ \E I \in SUBSET Pool, G \in SUBSET Pool : Pools(m, O, I, G)

(* The size of an interval.                                                *)
LEMMA RangeCard ==
  ASSUME NEW a \in Int, NEW b \in Int, a <= b
  PROVE  IsFiniteSet(a .. b - 1) /\ Cardinality(a .. b - 1) = b - a
<1>1. PICK e \in Int : e = b - 1
  OBVIOUS
<1>2. IsFiniteSet(a .. e) /\ Cardinality(a .. e) = IF a > e THEN 0 ELSE e - a + 1
  BY FS_Interval
<1>3. (IF a > e THEN 0 ELSE e - a + 1) = b - a
  BY <1>1
<1>. QED  BY <1>1, <1>2, <1>3

(* The size of the interval from 1.                                        *)
LEMMA UpTo ==
  ASSUME NEW n \in Nat
  PROVE  IsFiniteSet(1 .. n) /\ Cardinality(1 .. n) = n
<1>1. IsFiniteSet(1 .. n) /\ Cardinality(1 .. n) = IF 1 > n THEN 0 ELSE n - 1 + 1
  BY FS_Interval
<1>. QED  BY <1>1

(* The properties' view of free pools and pools in use is that of the      *)
(* invariant.                                                              *)
LEMMA FreePoolsAre ==
  ASSUME NEW m, m \in Memory, NEW I, NEW G, Counts(m, I, G), Frees(m, G)
  PROVE  /\ \A a \in Arena : m.arenas[a].used => FreePools(m, a) = (G \cap PoolsOf(a)) \cup {Nil}
         /\ PoolsInUse(m) = I
<1>1. ASSUME NEW a \in Arena, m.arenas[a].used
      PROVE  FreePools(m, a) = (G \cap PoolsOf(a)) \cup {Nil}
  <2>. DEFINE S == G \cap PoolsOf(a)
  <2>1. IsFiniteSet(PoolsOf(a)) /\ Cardinality(PoolsOf(a)) = PoolsPerArena /\ S \subseteq PoolsOf(a)
    BY PoolsOfIs
  <2>2. IsFiniteSet(S) /\ Cardinality(S) <= PoolsPerArena
    <3>. HIDE DEF S
    <3>. QED  BY <2>1, FS_Subset
  <2>a. Chained(m.arenas[a].freepools, m.nextpool, S)
    BY <1>1 DEF Frees
  <2>3. Chained(m.arenas[a].freepools, m.nextpool, S) /\ Cardinality(S) \in Nat
        /\ PoolsPerArena + 1 \in Nat /\ Cardinality(S) < PoolsPerArena + 1
    <3>. HIDE DEF S
    <3>1. Cardinality(S) \in Nat
      BY <2>2, FS_CardinalityType
    <3>. QED  BY <2>a, <2>2, <3>1, PoolNumbers
  <2>4. Follow(m.nextpool, m.arenas[a].freepools, PoolsPerArena + 1) = S \cup {Nil}
    <3>. HIDE DEF S
    <3>. QED  BY <2>2, <2>3, FollowList
  <2>. QED  BY <1>1, <2>4 DEF FreePools
<1>2. ASSUME NEW p \in Pool
      PROVE  p \in PoolsInUse(m) <=> p \in I
  <2>. DEFINE a == ArenaOf(p)
  <2>1. a \in Arena /\ p # Nil /\ p \in PoolsOf(a) /\ p \in Nat /\ FirstPool(a) \in Nat /\ FirstPool(a) <= p
    BY PoolNumbers, PoolsOfIs
  <2>2. p \in PoolsInUse(m) <=> m.arenas[a].used /\ p \in Carved(m, a) /\ p \notin FreePools(m, a)
    BY DEF PoolsInUse
  <2>3. p \in I \cup G <=> m.arenas[a].used /\ p < m.arenas[a].pool_address
    BY DEF Counts
  <2>. HIDE DEF a
  <2>b. m.arenas[a].pool_address \in Int
    BY <2>1 DEF Memory, arena_object
  <2>4. m.arenas[a].used => (p \in Carved(m, a) <=> p < m.arenas[a].pool_address)
    BY <2>1, <2>b DEF Carved
  <2>. QED  BY <1>1, <2>1, <2>2, <2>3, <2>4 DEF Counts
<1>3. PoolsInUse(m) \subseteq Pool /\ I \subseteq Pool
  BY DEF PoolsInUse, Counts
<1>. QED  BY <1>1, <1>2, <1>3

Parted(C, I, G, n) ==
    /\ C = I \cup G /\ IsFiniteSet(I) /\ IsFiniteSet(G)
    /\ Cardinality(I) \in Nat /\ Cardinality(G) \in Nat
    /\ Cardinality(C) = n /\ Cardinality(C) = Cardinality(I) + Cardinality(G)

(* The pools an arena has given are those in use and the free ones.        *)
LEMMA CarvedIs ==
  ASSUME NEW m, m \in Memory, NEW I, NEW G, Counts(m, I, G), NEW a \in Arena, m.arenas[a].used
  PROVE  Parted(Carved(m, a), I \cap PoolsOf(a), G \cap PoolsOf(a),
                m.arenas[a].pool_address - FirstPool(a))
<1>1. PICK f \in Nat, e \in Nat, t \in Nat : f = FirstPool(a) /\ e = m.arenas[a].pool_address
                                             /\ t = m.arenas[a].ntotalpools /\ t <= PoolsPerArena
  BY PoolNumbers DEF Memory, arena_object
<1>2. f <= e /\ e <= f + t /\ PoolsPerArena \in Nat
  BY <1>1, PoolNumbers DEF Counts
<1>3. Carved(m, a) = f .. e - 1 /\ PoolsOf(a) = f .. f + PoolsPerArena - 1
  BY <1>1 DEF Carved, PoolsOf
<1>a. PoolsOf(a) \subseteq Pool /\ \A p \in PoolsOf(a) : ArenaOf(p) = a
  BY PoolsOfIs
<1>b. f .. e - 1 \subseteq f .. f + PoolsPerArena - 1
  BY <1>1, <1>2
<1>4. Carved(m, a) \subseteq PoolsOf(a) /\ PoolsOf(a) \subseteq Pool
  BY <1>3, <1>a, <1>b
<1>5. \A p \in PoolsOf(a) : ArenaOf(p) = a /\ (p < e <=> p \in Carved(m, a))
  BY <1>1, <1>3, <1>a
<1>6. \A p \in PoolsOf(a) : p \in I \cup G <=> p \in Carved(m, a)
  BY <1>1, <1>4, <1>5 DEF Counts
<1>7. Carved(m, a) = (I \cap PoolsOf(a)) \cup (G \cap PoolsOf(a))
  BY <1>4, <1>6
<1>8. IsFiniteSet(I \cap PoolsOf(a)) /\ IsFiniteSet(G \cap PoolsOf(a))
  <2>1. IsFiniteSet(PoolsOf(a))
    BY PoolsOfIs
  <2>. QED  BY <2>1, FS_Subset
<1>9. Cardinality(I \cap PoolsOf(a)) \in Nat /\ Cardinality(G \cap PoolsOf(a)) \in Nat
  BY <1>8, FS_CardinalityType
<1>10. Cardinality(Carved(m, a)) = e - f
  <2>1. f \in Int /\ e \in Int
    BY <1>1
  <2>. QED  BY <1>2, <1>3, <2>1, RangeCard
<1>11. Cardinality(Carved(m, a)) = Cardinality(I \cap PoolsOf(a)) + Cardinality(G \cap PoolsOf(a))
  <2>. DEFINE S == I \cap PoolsOf(a)
              T == G \cap PoolsOf(a)
  <2>1. S \cap T = {}
    BY DEF Counts
  <2>2. IsFiniteSet(S) /\ IsFiniteSet(T) /\ Carved(m, a) = S \cup T
    BY <1>7, <1>8
  <2>. HIDE DEF S, T
  <2>3. Cardinality(S \cup T) = Cardinality(S) + Cardinality(T) - Cardinality(S \cap T)
    BY <2>2, FS_Union
  <2>4. Cardinality(S \cap T) = 0 /\ Cardinality(S) \in Nat /\ Cardinality(T) \in Nat
    BY <2>1, <2>2, FS_EmptySet, FS_CardinalityType
  <2>5. Cardinality(Carved(m, a)) = Cardinality(S) + Cardinality(T)
    BY <2>2, <2>3, <2>4
  <2>. QED  BY <2>5 DEF S, T
<1>. QED  BY <1>1, <1>7, <1>8, <1>9, <1>10, <1>11 DEF Parted

(* The type invariant of the memory.                                       *)
LEMMA MemoryTyped ==
  ASSUME NEW m, m \in Memory  PROVE MemType(m)
BY DEF Memory, MemType

-----------------------------------------------------------------------------
(* What the properties say follows from the invariant.                     *)
LEMMA RingsRight ==
  ASSUME Inv(mem, owned)  PROVE UsedPoolsExact
<1>1. PICK I \in SUBSET Pool, G \in SUBSET Pool : Pools(mem, owned, I, G)
  BY DEF Inv
<1>2. PoolsInUse(mem) = I
  BY <1>1, FreePoolsAre DEF Pools, Inv
<1>. SUFFICES ASSUME NEW c \in SizeClass
              PROVE  IsRing(mem, c, {p \in I : mem.pool[p].szidx = c /\ mem.pool[p].freeblock # <<>>})
  BY <1>2 DEF UsedPoolsExact
<1>. DEFINE S == {p \in I : mem.pool[p].szidx = c /\ mem.pool[p].freeblock # <<>>}
<1>3. S = OfClass(mem, Giving(mem, I), c)
  BY DEF OfClass, Giving
<1>4. Ringed(PTA(c), mem.nextpool, mem.prevpool, S)
  BY <1>1, <1>3 DEF Pools, Rings
<1>5. S \in SUBSET Pool
  OBVIOUS
<1>. HIDE DEF S
<1>6. IsFiniteSet(S) /\ Cardinality(S) \in Nat /\ Cardinality(S) < Cardinality(Pool) + 1
      /\ Cardinality(Pool) + 1 \in Nat /\ PTA(c) # Nil /\ Nil \notin S
  BY <1>5, NodesAre, FS_CardinalityType
<1>7. Follow(mem.nextpool, PTA(c), Cardinality(Pool) + 1) = S \cup {PTA(c)}
  BY <1>4, <1>6, FollowRing
<1>8. \A n \in S \cup {PTA(c)} : mem.prevpool[mem.nextpool[n]] = n
  BY <1>4 DEF Ringed
<1>9. IsRing(mem, c, S)
  BY <1>7, <1>8 DEF IsRing
<1>. QED  BY <1>9 DEF S

(* The properties' view of the blocks held is that of the invariant.       *)
LEMMA HeldAre ==
  ASSUME NEW I, owned \subseteq I \X Block, NEW p  PROVE HeldIn(p) = HeldOf(owned, p)
<1>1. ASSUME NEW b  PROVE b \in HeldIn(p) <=> b \in HeldOf(owned, p)
  <2>1. b \in HeldIn(p) <=> \E bp \in owned : bp[1] = p /\ b = bp[2]
    BY DEF HeldIn
  <2>2. b \in HeldOf(owned, p) <=> b \in Block /\ <<p, b>> \in owned
    BY DEF HeldOf
  <2>3. \A bp \in owned : bp = <<bp[1], bp[2]>> /\ bp[2] \in Block
    OBVIOUS
  <2>. QED  BY <2>1, <2>2, <2>3
<1>. QED  BY <1>1

(* BlocksExact.                                                            *)
LEMMA BlocksRight ==
  ASSUME Inv(mem, owned)  PROVE BlocksExact
<1>1. PICK I \in SUBSET Pool, G \in SUBSET Pool : Pools(mem, owned, I, G)
  BY DEF Inv
<1>2. PoolsInUse(mem) = I
  BY <1>1, FreePoolsAre DEF Pools, Inv
<1>3. PoolBlocks(mem, owned, I, G) /\ mem \in Memory
  BY <1>1 DEF Pools, Inv
<1>4. owned \subseteq Pool \X Block /\ \A bp \in owned : bp[1] \in I
  BY <1>3 DEF PoolBlocks
<1>5. ObTypeOK
  BY <1>3, <1>4, MemoryTyped DEF ObTypeOK
<1>6. ASSUME NEW p \in I
      PROVE  /\ HeldIn(p) # {} /\ mem.pool[p].count = Cardinality(HeldIn(p))
             /\ HeldIn(p) \intersect FreeIn(p) = {}
             /\ HeldIn(p) \union FreeIn(p) = CutBlocks(mem, p)
             /\ Cardinality(FreeIn(p)) = Len(mem.pool[p].freeblock)
  <2>1. HeldIn(p) = HeldOf(owned, p) /\ GoodPool(mem.pool[p], HeldIn(p)) /\ HeldIn(p) # {}
    BY <1>3, HeldAre DEF PoolBlocks
  <2>2. PICK s \in Seq(Block) : s = mem.pool[p].freeblock
    BY <1>3 DEF Memory, pool_header
  <2>3. FreeIn(p) = ToSet(s)
    BY <2>2 DEF FreeIn, ToSet
  <2>4. IsInjective(s)
    BY <2>1, <2>2 DEF GoodPool
  <2>5. Cardinality(ToSet(s)) = Len(s)
    <3>1. s \in Bijection(1 .. Len(s), ToSet(s))
      BY <2>2, <2>4 DEF ToSet, Bijection, Injection, Surjection, IsInjective
    <3>2. IsFiniteSet(1 .. Len(s)) /\ Cardinality(1 .. Len(s)) = Len(s)
      BY <2>2, UpTo
    <3>3. Cardinality(1 .. Len(s)) = Cardinality(ToSet(s))
      BY <3>1, <3>2, FS_Bijection DEF ExistsBijection
    <3>. QED  BY <3>2, <3>3
  <2>. QED  BY <2>1, <2>2, <2>3, <2>5 DEF GoodPool, CutBlocks
<1>. QED  BY <1>2, <1>4, <1>5, <1>6 DEF BlocksExact

(* ArenasExact.                                                            *)
LEMMA ArenasRight ==
  ASSUME Inv(mem, owned)  PROVE ArenasExact
<1>1. PICK I \in SUBSET Pool, G \in SUBSET Pool : Pools(mem, owned, I, G)
  BY DEF Inv
<1>2. mem \in Memory /\ Lists(mem) /\ Counts(mem, I, G) /\ Frees(mem, G)
  BY <1>1 DEF Pools, Inv
<1>3. PoolsCounted(mem)
  <2>. SUFFICES ASSUME NEW a \in Arena, mem.arenas[a].used
                PROVE  /\ Nil \in FreePools(mem, a)
                       /\ FreePools(mem, a) \ {Nil} \subseteq Carved(mem, a)
                       /\ mem.arenas[a].nfreepools = Cardinality(FreePools(mem, a) \ {Nil})
                            + mem.arenas[a].ntotalpools - Cardinality(Carved(mem, a))
    BY DEF PoolsCounted
  <2>1. FreePools(mem, a) = (G \cap PoolsOf(a)) \cup {Nil}
    BY <1>2, FreePoolsAre
  <2>2. FreePools(mem, a) \ {Nil} = G \cap PoolsOf(a)
    BY <2>1, NodesAre
  <2>3. /\ Carved(mem, a) = (I \cap PoolsOf(a)) \cup (G \cap PoolsOf(a))
        /\ Cardinality(I \cap PoolsOf(a)) \in Nat /\ Cardinality(G \cap PoolsOf(a)) \in Nat
        /\ Cardinality(Carved(mem, a)) = Cardinality(I \cap PoolsOf(a)) + Cardinality(G \cap PoolsOf(a))
    <3>1. PICK m : m = mem
      OBVIOUS
    <3>2. m \in Memory /\ Counts(m, I, G) /\ m.arenas[a].used
      BY <1>2, <3>1
    <3>3. Parted(Carved(m, a), I \cap PoolsOf(a), G \cap PoolsOf(a),
                 m.arenas[a].pool_address - FirstPool(a))
      BY <3>2, CarvedIs
    <3>. QED  BY <3>1, <3>3 DEF Parted
  <2>4. mem.arenas[a].ntotalpools \in Nat
        /\ mem.arenas[a].nfreepools = mem.arenas[a].ntotalpools - Cardinality(I \cap PoolsOf(a))
    BY <1>2 DEF Counts, Memory, arena_object
  <2>. QED  BY <2>1, <2>2, <2>3, <2>4
<1>4. \A S \in SUBSET Arena : /\ IsFiniteSet(S) /\ Cardinality(S) < MaxArenaObjects + 1
                              /\ MaxArenaObjects + 1 \in Nat
  BY NodesAre, PoolNumbers, FS_Subset, FS_CardinalityType
<1>5. Usables(mem) \in SUBSET Arena /\ Unuseds(mem) \in SUBSET Arena
  <2>1. mem.maxarenas \in 0 .. MaxArenaObjects
    BY <1>2 DEF Memory
  <2>2. 1 .. mem.maxarenas \subseteq Arena
    BY <2>1, PoolNumbers DEF Arena
  <2>. QED  BY <2>2 DEF Usables, Unuseds
<1>6. Usable(mem) = Usables(mem) \cup {Nil} /\ Unused(mem) = Unuseds(mem) \cup {Nil}
  <2>1. Chained(mem.usable, Nexts(mem), Usables(mem)) /\ Chained(mem.unused, Nexts(mem), Unuseds(mem))
    BY <1>2 DEF Lists, Doubly
  <2>2. Follow(Nexts(mem), mem.usable, MaxArenaObjects + 1) = Usables(mem) \cup {Nil}
    BY <1>4, <1>5, <2>1, FollowList
  <2>3. Follow(Nexts(mem), mem.unused, MaxArenaObjects + 1) = Unuseds(mem) \cup {Nil}
    BY <1>4, <1>5, <2>1, FollowList
  <2>. QED  BY <2>2, <2>3 DEF Usable, Unused, Nexts
<1>7. ASSUME NEW a \in Usables(mem)
      PROVE  LET next == mem.arenas[a].nextarena
             IN /\ a = mem.usable => mem.arenas[a].prevarena = Nil
                /\ next # Nil => /\ mem.arenas[next].prevarena = a
                                 /\ mem.arenas[a].nfreepools <= mem.arenas[next].nfreepools
  <2>1. a \in Arena /\ Nexts(mem)[a] = mem.arenas[a].nextarena /\ Prevs(mem)[a] = mem.arenas[a].prevarena
    BY <1>5 DEF Nexts, Prevs
  <2>2. a = mem.usable => Prevs(mem)[a] = Nil
    BY <1>2, <2>1, NodesAre DEF Lists, Doubly
  <2>3. Nexts(mem)[a] # Nil => /\ Nexts(mem)[a] \in Arena /\ Prevs(mem)[Nexts(mem)[a]] = a
                               /\ mem.arenas[a].nfreepools <= mem.arenas[Nexts(mem)[a]].nfreepools
    BY <1>2, <1>5 DEF Lists, Doubly, Chained
  <2>. QED  BY <2>1, <2>2, <2>3 DEF Prevs
<1>. QED  BY <1>3, <1>5, <1>6, <1>7, NodesAre DEF ArenasExact, Usables, Unuseds

(* NothingRetained: without blocks no pool is in use, and an arena would   *)
(* be free as a whole.                                                     *)
LEMMA NothingKept ==
  ASSUME Inv(mem, owned)  PROVE NothingRetained
<1>. SUFFICES ASSUME owned = {}, NEW a \in Arena, mem.arenas[a].used  PROVE FALSE
  BY DEF NothingRetained
<1>1. PICK I \in SUBSET Pool, G \in SUBSET Pool : Pools(mem, owned, I, G)
  BY DEF Inv
<1>2. I = {}
  BY <1>1 DEF Pools, PoolBlocks, HeldOf
<1>3. Cardinality(I \cap PoolsOf(a)) = 0
  BY <1>2, FS_EmptySet
<1>4. mem.arenas[a].nfreepools = mem.arenas[a].ntotalpools - 0 /\ mem.arenas[a].ntotalpools \in Nat
  BY <1>1, <1>3 DEF Pools, Counts, Inv, Memory, arena_object
<1>5. mem.arenas[a].nfreepools < mem.arenas[a].ntotalpools
  BY DEF Inv, Busy
<1>. QED  BY <1>4, <1>5

(***************************************************************************)
(* The lists of arenas.                                                    *)
(***************************************************************************)
(* Arena a got one more free pool, nothing else of the lists changed.      *)
Raised(m, m2, a) ==
    /\ m2.usable = m.usable /\ m2.unused = m.unused /\ m2.maxarenas = m.maxarenas
    /\ m2.arenas[a].used
    /\ \A x \in Arena : /\ m2.arenas[x].used = m.arenas[x].used
                        /\ m2.arenas[x].nextarena = m.arenas[x].nextarena
                        /\ m2.arenas[x].prevarena = m.arenas[x].prevarena
                        /\ m2.arenas[x].ntotalpools = m.arenas[x].ntotalpools
                        /\ m2.arenas[x].nfreepools = m.arenas[x].nfreepools + (IF x = a THEN 1 ELSE 0)

(* The fields of an arena object.                                          *)
LEMMA ArenaTyped ==
  ASSUME NEW m, m \in Memory, NEW a \in Arena
  PROVE  /\ m.arenas[a].used \in BOOLEAN
         /\ m.arenas[a].nfreepools \in Nat /\ m.arenas[a].ntotalpools \in Nat
         /\ m.arenas[a].nfreepools <= PoolsPerArena /\ m.arenas[a].ntotalpools <= PoolsPerArena
         /\ m.arenas[a].pool_address \in Nat /\ m.arenas[a].freepools \in Pool \cup {Nil}
         /\ m.arenas[a].nextarena \in Arena \cup {Nil} /\ m.arenas[a].prevarena \in Arena \cup {Nil}
         /\ Nexts(m)[a] = m.arenas[a].nextarena /\ Prevs(m)[a] = m.arenas[a].prevarena
         /\ m.arenas[a] \in arena_object
BY PoolNumbers DEF Memory, arena_object, Nexts, Prevs

(* The fields of the memory.                                               *)
LEMMA MemoryFields ==
  ASSUME NEW m, m \in Memory
  PROVE  /\ m.maxarenas \in Nat /\ m.maxarenas <= MaxArenaObjects
         /\ m.usable \in Arena \cup {Nil} /\ m.unused \in Arena \cup {Nil}
         /\ m.arenas \in [Arena -> arena_object] /\ m.pool \in [Pool -> pool_header]
         /\ m.nextpool \in [Node -> Node \cup {Nil}] /\ m.prevpool \in [Node -> Node \cup {Nil}]
         /\ 1 .. m.maxarenas \subseteq Arena
BY PoolNumbers DEF Memory, Arena

(* Lists of memory m with usable arenas U and unused objects V, as far as  *)
(* it depends on what the fields hold.                                     *)
LEMMA ListsAre ==
  ASSUME NEW m, m \in Memory, Lists(m)
  PROVE  /\ Doubly(m.usable, Nexts(m), Prevs(m), Usables(m)) /\ Usables(m) \in SUBSET Arena
         /\ Chained(m.unused, Nexts(m), Unuseds(m)) /\ Unuseds(m) \in SUBSET Arena
         /\ Usables(m) \cap Unuseds(m) = {}
         /\ \A a \in Usables(m) : Nexts(m)[a] \in Usables(m) \cup {Nil}
         /\ \A a \in Usables(m) : Prevs(m)[a] \in Usables(m) \cup {Nil}
         /\ \A a \in Usables(m) : Prevs(m)[a] # Nil => Nexts(m)[Prevs(m)[a]] = a
         /\ \A a \in Usables(m) : Nexts(m)[a] # Nil => Prevs(m)[Nexts(m)[a]] = a
         /\ m.usable \in Usables(m) \cup {Nil} /\ (m.usable = Nil => Usables(m) = {})
         /\ m.unused \in Unuseds(m) \cup {Nil} /\ (m.unused = Nil => Unuseds(m) = {})
         /\ Nil \notin Arena
<1>1. /\ Doubly(m.usable, Nexts(m), Prevs(m), Usables(m)) /\ Usables(m) \in SUBSET Arena
      /\ Chained(m.unused, Nexts(m), Unuseds(m)) /\ Unuseds(m) \in SUBSET Arena
      /\ Usables(m) \cap Unuseds(m) = {} /\ Nil \notin Arena
  BY MemoryFields, NodesAre DEF Lists, Usables, Unuseds
<1>2. \A a \in Usables(m) : a # m.usable => Prevs(m)[a] \in Usables(m) /\ Nexts(m)[Prevs(m)[a]] = a
  BY <1>1 DEF Doubly
<1>3. m.usable # Nil => Prevs(m)[m.usable] = Nil
  BY <1>1 DEF Doubly
<1>4. \A a \in Usables(m) : Prevs(m)[a] \in Usables(m) \cup {Nil} /\ (Prevs(m)[a] # Nil => Nexts(m)[Prevs(m)[a]] = a)
  BY <1>1, <1>2, <1>3
<1>5. \A a \in Usables(m) : Nexts(m)[a] # Nil => Prevs(m)[Nexts(m)[a]] = a
  BY <1>1 DEF Doubly
<1>6. /\ \A a \in Usables(m) : Nexts(m)[a] \in Usables(m) \cup {Nil}
      /\ m.usable \in Usables(m) \cup {Nil} /\ (m.usable = Nil => Usables(m) = {})
  BY <1>1 DEF Doubly, Chained
<1>7. m.unused \in Unuseds(m) \cup {Nil} /\ (m.unused = Nil => Unuseds(m) = {})
  BY <1>1 DEF Chained
<1>. QED  BY <1>1, <1>4, <1>5, <1>6, <1>7

(***************************************************************************)
(* Single assignments to the memory.                                       *)
(***************************************************************************)
(* Object o2 is o with these links.                                        *)
Relinked(o2, o, next, prev) ==
    /\ o2.used = o.used /\ o2.pool_address = o.pool_address
    /\ o2.nfreepools = o.nfreepools /\ o2.ntotalpools = o.ntotalpools
    /\ o2.freepools = o.freepools
    /\ o2.nextarena = next /\ o2.prevarena = prev

SamePools(m, r) == r.pool = m.pool /\ r.nextpool = m.nextpool /\ r.prevpool = m.prevpool
KeepsRest(m, r) == r \in Memory /\ r.maxarenas = m.maxarenas /\ SamePools(m, r)

PutUsable(m, v)  == [m EXCEPT !.usable = v]
PutArenas(m, A)  == [m EXCEPT !.arenas = A]
PutNext(m, x, v) == [m EXCEPT !.arenas[x].nextarena = v]
PutPrev(m, x, v) == [m EXCEPT !.arenas[x].prevarena = v]
PutLinks(m, x, next, prev) ==
    [m EXCEPT !.arenas[x] = [@ EXCEPT !.prevarena = prev, !.nextarena = next]]

(* An assignment to usable_arenas.                                         *)
LEMMA SetUsable ==
  ASSUME NEW m, m \in Memory, NEW v \in Arena \cup {Nil},
         NEW r, r = PutUsable(m, v)
  PROVE  /\ KeepsRest(m, r) /\ r.usable = v /\ r.unused = m.unused /\ r.arenas = m.arenas
BY DEF Memory, KeepsRest, SamePools, PutUsable, PutArenas

(* An assignment to the arena objects.                                     *)
LEMMA SetArenas ==
  ASSUME NEW m, m \in Memory, NEW A \in [Arena -> arena_object],
         NEW r, r = PutArenas(m, A)
  PROVE  /\ KeepsRest(m, r) /\ r.usable = m.usable /\ r.unused = m.unused /\ r.arenas = A
BY DEF Memory, KeepsRest, SamePools, PutUsable, PutArenas

(* An assignment to both links of an arena.                                *)
LEMMA SetLinks ==
  ASSUME NEW m, m \in Memory, NEW x \in Arena, NEW next \in Arena \cup {Nil},
         NEW prev \in Arena \cup {Nil},
         NEW r, r = PutLinks(m, x, next, prev)
  PROVE  /\ KeepsRest(m, r) /\ r.usable = m.usable /\ r.unused = m.unused
         /\ \A y \in Arena : IF y = x THEN Relinked(r.arenas[y], m.arenas[y], next, prev)
                             ELSE r.arenas[y] = m.arenas[y]
<1>1. PICK o \in arena_object : o = m.arenas[x]
  BY ArenaTyped
<1>2. PICK o2 : o2 = [o EXCEPT !.prevarena = prev, !.nextarena = next]
  OBVIOUS
<1>3. o2 \in arena_object /\ Relinked(o2, o, next, prev)
  BY <1>2 DEF arena_object, Relinked
<1>4. PICK A : A = [m.arenas EXCEPT ![x] = o2]
  OBVIOUS
<1>5. A \in [Arena -> arena_object] /\ A[x] = o2 /\ \A y \in Arena : y # x => A[y] = m.arenas[y]
  BY <1>3, <1>4, MemoryFields
<1>6. r = PutArenas(m, A)
  BY <1>1, <1>2, <1>4 DEF Memory, PutArenas, PutNext, PutPrev, PutLinks
<1>7. KeepsRest(m, r) /\ r.usable = m.usable /\ r.unused = m.unused /\ r.arenas = A
  BY <1>5, <1>6, SetArenas
<1>. QED  BY <1>1, <1>3, <1>5, <1>7

(* An assignment to nextarena.                                             *)
LEMMA SetNext ==
  ASSUME NEW m, m \in Memory, NEW x \in Arena, NEW v \in Arena \cup {Nil},
         NEW r, r = PutNext(m, x, v)
  PROVE  /\ KeepsRest(m, r) /\ r.usable = m.usable /\ r.unused = m.unused
         /\ \A y \in Arena : IF y = x THEN Relinked(r.arenas[y], m.arenas[y], v, m.arenas[y].prevarena)
                             ELSE r.arenas[y] = m.arenas[y]
<1>1. PICK o \in arena_object : o = m.arenas[x]
  BY ArenaTyped
<1>2. PICK o2 : o2 = [o EXCEPT !.nextarena = v]
  OBVIOUS
<1>3. o2 \in arena_object /\ Relinked(o2, o, v, o.prevarena)
  BY <1>2 DEF arena_object, Relinked
<1>4. PICK A : A = [m.arenas EXCEPT ![x] = o2]
  OBVIOUS
<1>5. A \in [Arena -> arena_object] /\ A[x] = o2 /\ \A y \in Arena : y # x => A[y] = m.arenas[y]
  BY <1>3, <1>4, MemoryFields
<1>6. r = PutArenas(m, A)
  BY <1>1, <1>2, <1>4 DEF Memory, PutArenas, PutNext, PutPrev, PutLinks
<1>7. KeepsRest(m, r) /\ r.usable = m.usable /\ r.unused = m.unused /\ r.arenas = A
  BY <1>5, <1>6, SetArenas
<1>. QED  BY <1>1, <1>3, <1>5, <1>7

(* An assignment to prevarena.                                             *)
LEMMA SetPrev ==
  ASSUME NEW m, m \in Memory, NEW x \in Arena, NEW v \in Arena \cup {Nil},
         NEW r, r = PutPrev(m, x, v)
  PROVE  /\ KeepsRest(m, r) /\ r.usable = m.usable /\ r.unused = m.unused
         /\ \A y \in Arena : IF y = x THEN Relinked(r.arenas[y], m.arenas[y], m.arenas[y].nextarena, v)
                             ELSE r.arenas[y] = m.arenas[y]
<1>1. PICK o \in arena_object : o = m.arenas[x]
  BY ArenaTyped
<1>2. PICK o2 : o2 = [o EXCEPT !.prevarena = v]
  OBVIOUS
<1>3. o2 \in arena_object /\ Relinked(o2, o, o.nextarena, v)
  BY <1>2 DEF arena_object, Relinked
<1>4. PICK A : A = [m.arenas EXCEPT ![x] = o2]
  OBVIOUS
<1>5. A \in [Arena -> arena_object] /\ A[x] = o2 /\ \A y \in Arena : y # x => A[y] = m.arenas[y]
  BY <1>3, <1>4, MemoryFields
<1>6. r = PutArenas(m, A)
  BY <1>1, <1>2, <1>4 DEF Memory, PutArenas, PutNext, PutPrev, PutLinks
<1>7. KeepsRest(m, r) /\ r.usable = m.usable /\ r.unused = m.unused /\ r.arenas = A
  BY <1>5, <1>6, SetArenas
<1>. QED  BY <1>1, <1>3, <1>5, <1>7

(* An arena object without memory.                                         *)
LEMMA NoArenaIs ==
  ASSUME NEW v \in Arena \cup {Nil}
  PROVE  LET o == [NoArena EXCEPT !.nextarena = v]
         IN o \in arena_object /\ ~o.used /\ o.nextarena = v
<1>1. 1 \in 1 .. MaxArenaObjects * PoolsPerArena + 1 /\ 0 \in 0 .. PoolsPerArena
  BY PoolNumbers
<1>. QED  BY <1>1 DEF NoArena, arena_object

(* The header of a pool nobody has used.                                   *)
LEMMA RawPoolIs == RawPool \in pool_header
<1>1. <<>> \in Seq(Block) /\ 1 \in 1 .. Cardinality(Block) + 2
  BY BlockNumbers
<1>2. DUMMY_SIZE_IDX \in 1 .. DUMMY_SIZE_IDX
  BY PoolArenasAssumption DEF DUMMY_SIZE_IDX
<1>. QED  BY <1>1, <1>2 DEF RawPool, pool_header

(* The end of ReturnArena: what it does with the arena itself.             *)
ReturnTail(m2, m, a) ==
    [m2 EXCEPT !.arenas[a] = [NoArena EXCEPT !.nextarena = m.unused],
               !.unused = a,
               !.pool = [p \in Pool |-> IF ArenaOf(p) = a THEN RawPool ELSE @[p]],
               !.nextpool = [n \in Node |-> IF n \in Pool /\ ArenaOf(n) = a THEN Nil ELSE @[n]],
               !.prevpool = [n \in Node |-> IF n \in Pool /\ ArenaOf(n) = a THEN Nil ELSE @[n]]]

(* Case 1: what ReturnArena does with the arenas.                          *)
LEMMA ReturnIs ==
  ASSUME NEW m, m \in Memory, NEW a \in Arena,
         NEW prev, prev = m.arenas[a].prevarena, NEW next, next = m.arenas[a].nextarena,
         prev # a, next # a, NEW r, r = ReturnArena(m, a)
  PROVE  /\ r \in Memory
         /\ r.usable = (IF prev = Nil THEN next ELSE m.usable)
         /\ r.unused = a /\ r.maxarenas = m.maxarenas
         /\ ~r.arenas[a].used /\ r.arenas[a].nextarena = m.unused
         /\ \A x \in Arena \ {a} :
              Relinked(r.arenas[x], m.arenas[x], IF x = prev THEN next ELSE m.arenas[x].nextarena,
                                                 IF x = next THEN prev ELSE m.arenas[x].prevarena)
         /\ r.pool = [p \in Pool |-> IF ArenaOf(p) = a THEN RawPool ELSE m.pool[p]]
         /\ r.nextpool = [n \in Node |-> IF n \in Pool /\ ArenaOf(n) = a THEN Nil ELSE m.nextpool[n]]
         /\ r.prevpool = [n \in Node |-> IF n \in Pool /\ ArenaOf(n) = a THEN Nil ELSE m.prevpool[n]]
<1>1. prev \in Arena \cup {Nil} /\ next \in Arena \cup {Nil} /\ Nil \notin Arena
  BY ArenaTyped, NodesAre
<1>. DEFINE L1 == IF m.arenas[a].prevarena = Nil THEN PutUsable(m, m.arenas[a].nextarena)
                  ELSE PutNext(m, m.arenas[a].prevarena, m.arenas[a].nextarena)
            L2 == IF m.arenas[a].nextarena = Nil THEN L1
                  ELSE PutPrev(L1, m.arenas[a].nextarena, m.arenas[a].prevarena)
<1>0. ReturnArena(m, a) = ReturnTail(L2, m, a)
  BY DEF ReturnArena, ReturnTail, PutUsable, PutNext, PutPrev
<1>a. PICK m1 : m1 = L1
  OBVIOUS
<1>b. L2 = IF next = Nil THEN m1 ELSE PutPrev(m1, next, prev)
  BY <1>a
<1>2. m1 = IF prev = Nil THEN PutUsable(m, next) ELSE PutNext(m, prev, next)
  BY <1>a
<1>. HIDE DEF L2
<1>3. /\ KeepsRest(m, m1)
      /\ m1.usable = (IF prev = Nil THEN next ELSE m.usable) /\ m1.unused = m.unused
      /\ \A x \in Arena : Relinked(m1.arenas[x], m.arenas[x],
                           IF x = prev THEN next ELSE m.arenas[x].nextarena,
                           m.arenas[x].prevarena)
  <2>1. CASE prev = Nil
    BY <2>1, <1>1, <1>2, SetUsable DEF Relinked
  <2>2. CASE prev # Nil
    BY <2>2, <1>1, <1>2, SetNext DEF Relinked
  <2>. QED  BY <2>1, <2>2
<1>c. PICK m2 : m2 = L2
  OBVIOUS
<1>4. m2 = IF next = Nil THEN m1 ELSE PutPrev(m1, next, prev)
  BY <1>b, <1>c
<1>5. /\ KeepsRest(m, m2)
      /\ m2.usable = (IF prev = Nil THEN next ELSE m.usable) /\ m2.unused = m.unused
      /\ \A x \in Arena : Relinked(m2.arenas[x], m.arenas[x],
                           IF x = prev THEN next ELSE m.arenas[x].nextarena,
                           IF x = next THEN prev ELSE m.arenas[x].prevarena)
  <2>1. CASE next = Nil
    BY <2>1, <1>1, <1>3, <1>4 DEF Relinked
  <2>2. CASE next # Nil
    <3>1. next \in Arena /\ m1 \in Memory /\ m2 = PutPrev(m1, next, prev)
      BY <2>2, <1>1, <1>3, <1>4 DEF KeepsRest
    <3>2. /\ KeepsRest(m1, m2) /\ m2.usable = m1.usable /\ m2.unused = m1.unused
          /\ \A y \in Arena : IF y = next THEN Relinked(m2.arenas[y], m1.arenas[y], m1.arenas[y].nextarena, prev)
                              ELSE m2.arenas[y] = m1.arenas[y]
      BY ONLY <1>1, <3>1, SetPrev
    <3>. QED  BY <1>3, <3>2 DEF Relinked, KeepsRest, SamePools
  <2>. QED  BY <2>1, <2>2
<1>. DEFINE o == [NoArena EXCEPT !.nextarena = m.unused]
            A3 == [m2.arenas EXCEPT ![a] = o]
            pl == [p \in Pool |-> IF ArenaOf(p) = a THEN RawPool ELSE m.pool[p]]
            nx == [n \in Node |-> IF n \in Pool /\ ArenaOf(n) = a THEN Nil ELSE m.nextpool[n]]
            pv == [n \in Node |-> IF n \in Pool /\ ArenaOf(n) = a THEN Nil ELSE m.prevpool[n]]
<1>6. r = ReturnTail(m2, m, a)
  BY <1>0, <1>c
<1>7. m2 \in Memory /\ m2.maxarenas = m.maxarenas /\ m2.pool = m.pool
      /\ m2.nextpool = m.nextpool /\ m2.prevpool = m.prevpool
  BY <1>5 DEF KeepsRest, SamePools
<1>8. o \in arena_object /\ ~o.used /\ o.nextarena = m.unused
  BY MemoryFields, NoArenaIs
<1>9. A3 \in [Arena -> arena_object] /\ A3[a] = o /\ \A x \in Arena \ {a} : A3[x] = m2.arenas[x]
  BY <1>7, <1>8, MemoryFields
<1>10. pl \in [Pool -> pool_header]
  BY MemoryFields, RawPoolIs
<1>11. nx \in [Node -> Node \cup {Nil}] /\ pv \in [Node -> Node \cup {Nil}]
  BY MemoryFields
<1>12. r = [m2 EXCEPT !.arenas = A3, !.unused = a, !.pool = pl, !.nextpool = nx, !.prevpool = pv]
  BY <1>6, <1>7 DEF Memory, ReturnTail
<1>. HIDE DEF A3, pl, nx, pv
<1>13. /\ r \in Memory /\ r.usable = m2.usable /\ r.maxarenas = m2.maxarenas /\ r.unused = a
       /\ r.arenas = A3 /\ r.pool = pl /\ r.nextpool = nx /\ r.prevpool = pv
  BY <1>7, <1>9, <1>10, <1>11, <1>12 DEF Memory
<1>. QED  BY <1>5, <1>7, <1>8, <1>9, <1>13 DEF pl, nx, pv

Ordered(m) == \A a \in Usables(m) : Nexts(m)[a] # Nil =>
                m.arenas[a].nfreepools <= m.arenas[Nexts(m)[a]].nfreepools

(* The parts of Lists, for use as one fact.                                *)
LEMMA ListsFrom ==
  ASSUME NEW m, Doubly(m.usable, Nexts(m), Prevs(m), Usables(m)), Ordered(m),
         Chained(m.unused, Nexts(m), Unuseds(m)),
         \A a \in Arena : m.arenas[a].used => a <= m.maxarenas
  PROVE  Lists(m)
BY DEF Lists, Ordered

(* No usable arena is its own neighbour.                                   *)
LEMMA NotSelf ==
  ASSUME NEW m, m \in Memory, Lists(m), NEW a \in Usables(m)
  PROVE  m.arenas[a].nextarena # a /\ m.arenas[a].prevarena # a
<1>1. /\ a \in Arena /\ Chained(m.usable, Nexts(m), Usables(m))
      /\ (Prevs(m)[a] # Nil => Nexts(m)[Prevs(m)[a]] = a) /\ Nil \notin Arena
  BY ListsAre DEF Doubly
<1>2. Nexts(m)[a] # a
  BY <1>1, ChainedLoop
<1>3. Prevs(m)[a] # a
  BY <1>1, <1>2
<1>. QED  BY <1>1, <1>2, <1>3, ArenaTyped

(* The arena's count is positive before, or the arena is not in the list.  *)
LEMMA RaisedAre ==
  ASSUME NEW m, m \in Memory, NEW m2, m2 \in Memory, NEW a \in Arena, Raised(m, m2, a)
  PROVE  /\ Usables(m2) = Usables(m) \cup {a} /\ Unuseds(m2) = Unuseds(m) /\ a \notin Unuseds(m)
         /\ (a \in Usables(m) <=> m.arenas[a].nfreepools > 0)
         /\ Nexts(m2) = Nexts(m) /\ Prevs(m2) = Prevs(m)
         /\ m.arenas[a].used
<1>1. \A x \in Arena : m.arenas[x].nfreepools \in Nat /\ m2.arenas[x].used = m.arenas[x].used
                       /\ m2.arenas[x].nfreepools = m.arenas[x].nfreepools + (IF x = a THEN 1 ELSE 0)
  BY ArenaTyped DEF Raised
<1>2. m2.arenas[a].used /\ m.arenas[a].used
  BY <1>1 DEF Raised
<1>3. \A x \in Arena : x \in Usables(m2) <=> x \in Usables(m) \/ x = a
  <2>. SUFFICES ASSUME NEW x \in Arena  PROVE x \in Usables(m2) <=> x \in Usables(m) \/ x = a
    OBVIOUS
  <2>1. x \in Usables(m2) <=> m2.arenas[x].used /\ m2.arenas[x].nfreepools > 0
    BY DEF Usables
  <2>2. x \in Usables(m) <=> m.arenas[x].used /\ m.arenas[x].nfreepools > 0
    BY DEF Usables
  <2>3. CASE x = a
    BY <1>1, <1>2, <2>1, <2>3
  <2>4. CASE x # a
    BY <1>1, <2>1, <2>2, <2>4
  <2>. QED  BY <2>3, <2>4
<1>4. Usables(m2) = Usables(m) \cup {a}
  <2>1. Usables(m2) \subseteq Arena /\ Usables(m) \subseteq Arena
    BY DEF Usables
  <2>. QED  BY <1>3, <2>1
<1>5. Unuseds(m2) = Unuseds(m) /\ a \notin Unuseds(m)
  <2>1. m2.maxarenas = m.maxarenas /\ 1 .. m.maxarenas \subseteq Arena
    BY MemoryFields DEF Raised
  <2>. QED  BY <1>1, <1>2, <2>1 DEF Unuseds
<1>6. a \in Usables(m) <=> m.arenas[a].nfreepools > 0
  BY <1>2 DEF Usables
<1>7. Nexts(m2) = Nexts(m) /\ Prevs(m2) = Prevs(m)
  BY DEF Nexts, Prevs, Raised
<1>. QED  BY <1>2, <1>4, <1>5, <1>6, <1>7

(* What arena a's leaving the list means for the links.                    *)
Leaves(m, r, a, prev, next) ==
    \A x \in Arena \ {a} :
        Relinked(r.arenas[x], m.arenas[x], IF x = prev THEN next ELSE m.arenas[x].nextarena,
                                           IF x = next THEN prev ELSE m.arenas[x].prevarena)

Left(r, h, U) ==
    /\ Doubly(h, Nexts(r), Prevs(r), U)
    /\ \A x \in U : Nexts(r)[x] # Nil => r.arenas[x].nfreepools <= r.arenas[Nexts(r)[x]].nfreepools
    /\ \A x \in U : r.arenas[x].used /\ r.arenas[x].nfreepools > 0

LeftAt(m, m2, a, prev, next, r, h) ==
    /\ m \in Memory /\ Lists(m) /\ m2 \in Memory /\ a \in Usables(m) /\ Raised(m, m2, a)
    /\ prev = m2.arenas[a].prevarena /\ next = m2.arenas[a].nextarena
    /\ r \in Memory /\ Leaves(m2, r, a, prev, next) /\ h = IF prev = Nil THEN next ELSE m.usable

(* What is left of usable_arenas is a list in order.                       *)
LEMMA LeavesList ==
  ASSUME NEW m, NEW m2, NEW a, NEW prev, NEW next, NEW r, NEW h, LeftAt(m, m2, a, prev, next, r, h)
  PROVE  Left(r, h, Usables(m) \ {a}) /\ \A x \in Unuseds(m) : Nexts(r)[x] = Nexts(m)[x]
<1>. /\ m \in Memory /\ Lists(m) /\ m2 \in Memory /\ a \in Usables(m) /\ Raised(m, m2, a)
     /\ prev = m2.arenas[a].prevarena /\ next = m2.arenas[a].nextarena
     /\ r \in Memory /\ Leaves(m2, r, a, prev, next) /\ h = IF prev = Nil THEN next ELSE m.usable
  BY DEF LeftAt
<1>. DEFINE U == Usables(m)
<1>1. /\ Doubly(m.usable, Nexts(m), Prevs(m), U) /\ U \in SUBSET Arena /\ Unuseds(m) \in SUBSET Arena
      /\ U \cap Unuseds(m) = {} /\ Nil \notin Arena
      /\ \A x \in U : Nexts(m)[x] \in U \cup {Nil} /\ Prevs(m)[x] \in U \cup {Nil}
      /\ \A x \in U : Prevs(m)[x] # Nil => Nexts(m)[Prevs(m)[x]] = x
      /\ \A x \in U : Nexts(m)[x] # Nil => Prevs(m)[Nexts(m)[x]] = x
  BY ListsAre
<1>2. prev = Prevs(m)[a] /\ next = Nexts(m)[a] /\ Nexts(m2) = Nexts(m) /\ Prevs(m2) = Prevs(m) /\ a \in Arena
  BY <1>1, RaisedAre, ArenaTyped
<1>3. prev # a /\ next # a /\ prev \in U \cup {Nil} /\ next \in U \cup {Nil}
  BY <1>1, <1>2, NotSelf, ArenaTyped
<1>4. \A x \in Arena \ {a} : /\ Nexts(r)[x] = (IF x = prev THEN next ELSE Nexts(m)[x])
                             /\ Prevs(r)[x] = (IF x = next THEN prev ELSE Prevs(m)[x])
                             /\ r.arenas[x].used = m2.arenas[x].used
                             /\ r.arenas[x].nfreepools = m2.arenas[x].nfreepools
  BY <1>2, ArenaTyped DEF Leaves, Relinked
<1>5. \A x \in Arena \ {a} : /\ r.arenas[x].used = m.arenas[x].used
                             /\ r.arenas[x].nfreepools = m.arenas[x].nfreepools
                             /\ m.arenas[x].nfreepools \in Nat
  BY <1>4, ArenaTyped DEF Raised
<1>6. Doubly(h, Nexts(r), Prevs(r), U \ {a})
  <2>1. /\ Doubly(m.usable, Nexts(m), Prevs(m), U) /\ a \in U
        /\ h = Past(m.usable, Nexts(m), Prevs(m), a)
        /\ Bypasses(U, Nexts(m), Prevs(m), a, Nexts(r), Prevs(r))
    BY <1>1, <1>2, <1>4 DEF Past, Bypasses
  <2>. QED  BY ONLY <2>1, DoublyDrop
<1>7. \A x \in U : Nexts(m)[x] # Nil => m.arenas[x].nfreepools <= m.arenas[Nexts(m)[x]].nfreepools
  BY DEF Lists
<1>8. ASSUME NEW x \in U \ {a}, Nexts(r)[x] # Nil
      PROVE  r.arenas[x].nfreepools <= r.arenas[Nexts(r)[x]].nfreepools
  <2>1. x \in Arena /\ x # a /\ m.arenas[a].nfreepools \in Nat
    BY <1>1, <1>2, <1>8, ArenaTyped
  <2>2. CASE x = prev
    <3>1. Nexts(r)[x] = next /\ Nexts(m)[x] = a /\ next \in U \ {a}
      BY <1>1, <1>2, <1>3, <1>4, <1>8, <2>1, <2>2
    <3>2. m.arenas[x].nfreepools <= m.arenas[a].nfreepools
          /\ m.arenas[a].nfreepools <= m.arenas[next].nfreepools
      BY <1>1, <1>2, <1>3, <1>7, <3>1
    <3>3. /\ r.arenas[x].nfreepools = m.arenas[x].nfreepools /\ m.arenas[x].nfreepools \in Nat
          /\ r.arenas[next].nfreepools = m.arenas[next].nfreepools /\ m.arenas[next].nfreepools \in Nat
      BY <1>1, <1>5, <2>1, <3>1
    <3>. QED  BY <2>1, <3>1, <3>2, <3>3
  <2>3. CASE x # prev
    <3>1. Nexts(r)[x] = Nexts(m)[x] /\ Nexts(m)[x] \in U
      BY <1>1, <1>4, <1>8, <2>1, <2>3
    <3>2. Nexts(m)[x] # a
      BY <1>1, <1>2, <2>3, <3>1
    <3>3. Nexts(m)[x] \in Arena \ {a} /\ m.arenas[x].nfreepools <= m.arenas[Nexts(m)[x]].nfreepools
      BY <1>1, <1>7, <1>8, <3>1, <3>2
    <3>. QED  BY <1>5, <2>1, <3>1, <3>3
  <2>. QED  BY <2>2, <2>3
<1>9. \A x \in U \ {a} : /\ r.arenas[x].used /\ r.arenas[x].nfreepools > 0
                         /\ r.arenas[x].nfreepools = m.arenas[x].nfreepools
                         /\ r.arenas[x].nfreepools = m2.arenas[x].nfreepools
  BY <1>1, <1>4, <1>5 DEF Usables
<1>10. \A x \in Unuseds(m) : Nexts(r)[x] = Nexts(m)[x]
  BY <1>1, <1>3, <1>4
<1>. QED  BY <1>6, <1>8, <1>9, <1>10 DEF Left

(* Case 1: ReturnArena keeps the lists.                                    *)
LEMMA ReturnLists ==
  ASSUME NEW m, m \in Memory, Lists(m), NEW m2, m2 \in Memory, NEW a \in Usables(m), Raised(m, m2, a),
         NEW r, r = ReturnArena(m2, a)
  PROVE  /\ Lists(r) /\ r \in Memory /\ ~r.arenas[a].used
         /\ r.pool = [p \in Pool |-> IF ArenaOf(p) = a THEN RawPool ELSE m2.pool[p]]
         /\ r.nextpool = [n \in Node |-> IF n \in Pool /\ ArenaOf(n) = a THEN Nil ELSE m2.nextpool[n]]
         /\ r.prevpool = [n \in Node |-> IF n \in Pool /\ ArenaOf(n) = a THEN Nil ELSE m2.prevpool[n]]
         /\ \A x \in Arena \ {a} : Relinked(r.arenas[x], m2.arenas[x], r.arenas[x].nextarena, r.arenas[x].prevarena)
<1>. DEFINE U == Usables(m)
<1>1. PICK prev, next : prev = m2.arenas[a].prevarena /\ next = m2.arenas[a].nextarena
  OBVIOUS
<1>2. /\ Doubly(m.usable, Nexts(m), Prevs(m), U) /\ U \in SUBSET Arena /\ Unuseds(m) \in SUBSET Arena
      /\ U \cap Unuseds(m) = {} /\ Nil \notin Arena /\ a \in Arena
      /\ Chained(m.unused, Nexts(m), Unuseds(m))
  BY ListsAre
<1>3. prev # a /\ next # a
  <2>1. m2.arenas[a].prevarena = m.arenas[a].prevarena /\ m2.arenas[a].nextarena = m.arenas[a].nextarena
    BY <1>2 DEF Raised
  <2>. QED  BY <1>1, <2>1, NotSelf
<1>4. /\ r \in Memory
      /\ r.usable = (IF prev = Nil THEN next ELSE m2.usable)
      /\ r.unused = a /\ r.maxarenas = m2.maxarenas
      /\ ~r.arenas[a].used /\ r.arenas[a].nextarena = m2.unused
      /\ Leaves(m2, r, a, prev, next)
      /\ r.pool = [p \in Pool |-> IF ArenaOf(p) = a THEN RawPool ELSE m2.pool[p]]
      /\ r.nextpool = [n \in Node |-> IF n \in Pool /\ ArenaOf(n) = a THEN Nil ELSE m2.nextpool[n]]
      /\ r.prevpool = [n \in Node |-> IF n \in Pool /\ ArenaOf(n) = a THEN Nil ELSE m2.prevpool[n]]
  BY <1>1, <1>2, <1>3, ReturnIs DEF Leaves
<1>5. r.usable = (IF prev = Nil THEN next ELSE m.usable) /\ r.arenas[a].nextarena = m.unused
      /\ r.maxarenas = m.maxarenas
  BY <1>4 DEF Raised
<1>6. /\ Doubly(r.usable, Nexts(r), Prevs(r), U \ {a})
      /\ \A x \in U \ {a} : Nexts(r)[x] # Nil =>
            r.arenas[x].nfreepools <= r.arenas[Nexts(r)[x]].nfreepools
      /\ \A x \in U \ {a} : r.arenas[x].used /\ r.arenas[x].nfreepools > 0
      /\ \A x \in Unuseds(m) : Nexts(r)[x] = Nexts(m)[x]
  <2>1. r \in Memory /\ Leaves(m2, r, a, prev, next) /\ r.usable = (IF prev = Nil THEN next ELSE m.usable)
    BY <1>4, <1>5
  <2>2. Left(r, r.usable, U \ {a}) /\ \A x \in Unuseds(m) : Nexts(r)[x] = Nexts(m)[x]
    <3>1. LeftAt(m, m2, a, prev, next, r, r.usable)
      BY <1>1, <1>3, <2>1 DEF LeftAt
    <3>. QED  BY <3>1, LeavesList
  <2>. QED  BY <2>2 DEF Left
<1>7. \A x \in Arena \ {a} : /\ r.arenas[x].used = m.arenas[x].used
                             /\ r.arenas[x].nfreepools = m.arenas[x].nfreepools
  <2>. SUFFICES ASSUME NEW x \in Arena \ {a}
                PROVE  r.arenas[x].used = m.arenas[x].used /\ r.arenas[x].nfreepools = m.arenas[x].nfreepools
    OBVIOUS
  <2>1. r.arenas[x].used = m2.arenas[x].used /\ r.arenas[x].nfreepools = m2.arenas[x].nfreepools
    BY <1>4 DEF Leaves, Relinked
  <2>2. m2.arenas[x].used = m.arenas[x].used /\ m2.arenas[x].nfreepools = m.arenas[x].nfreepools + 0
        /\ m.arenas[x].nfreepools \in Nat
    BY ArenaTyped DEF Raised
  <2>. QED  BY <2>1, <2>2
<1>8. Usables(r) = U \ {a}
  BY <1>2, <1>4, <1>7 DEF Usables
<1>9. a \in 1 .. m.maxarenas
  <2>1. m.arenas[a].used /\ a \in Nat /\ a >= 1
    BY <1>2, RaisedAre, PoolNumbers
  <2>. QED  BY <1>2, <2>1, MemoryFields DEF Lists
<1>10. Unuseds(r) = Unuseds(m) \cup {a} /\ a \notin Unuseds(m)
  <2>1. 1 .. m.maxarenas \subseteq Arena
    BY MemoryFields
  <2>. QED  BY <1>2, <1>4, <1>5, <1>7, <1>9, <2>1 DEF Unuseds
<1>11. Chained(a, Nexts(r), Unuseds(m) \cup {a})
  <2>1. Nexts(r)[a] = m.unused /\ a # Nil
    BY <1>2, <1>4, <1>5, ArenaTyped
  <2>. QED  BY <1>2, <1>6, <1>10, <2>1, ChainedPush
<1>12. Lists(r)
  <2>1. Ordered(r)
    BY <1>6, <1>8 DEF Ordered
  <2>2. \A x \in Arena : r.arenas[x].used => x <= r.maxarenas
    BY <1>4, <1>5, <1>7 DEF Lists
  <2>. QED  BY <1>4, <1>6, <1>8, <1>10, <1>11, <2>1, <2>2, ListsFrom
<1>13. \A x \in Arena \ {a} : Relinked(r.arenas[x], m2.arenas[x], r.arenas[x].nextarena, r.arenas[x].prevarena)
  BY <1>4 DEF Leaves, Relinked
<1>. QED  BY <1>4, <1>12, <1>13

PutFirst(m, a) ==
    [m EXCEPT !.arenas[a] = [@ EXCEPT !.nextarena = m.usable, !.prevarena = Nil], !.usable = a]

(* An arena's links when it becomes the first of usable_arenas.            *)
LEMMA SetFirst ==
  ASSUME NEW m, m \in Memory, NEW a \in Arena, NEW r, r = PutFirst(m, a)
  PROVE  /\ KeepsRest(m, r) /\ r.usable = a /\ r.unused = m.unused
         /\ \A y \in Arena : IF y = a THEN Relinked(r.arenas[y], m.arenas[y], m.usable, Nil)
                             ELSE r.arenas[y] = m.arenas[y]
<1>1. PICK o \in arena_object : o = m.arenas[a]
  BY ArenaTyped
<1>2. PICK o2 : o2 = [o EXCEPT !.nextarena = m.usable, !.prevarena = Nil]
  OBVIOUS
<1>3. o2 \in arena_object /\ Relinked(o2, o, m.usable, Nil)
  BY <1>2, MemoryFields DEF arena_object, Relinked
<1>4. PICK A : A = [m.arenas EXCEPT ![a] = o2]
  OBVIOUS
<1>5. A \in [Arena -> arena_object] /\ A[a] = o2 /\ \A y \in Arena : y # a => A[y] = m.arenas[y]
  BY <1>3, <1>4, MemoryFields
<1>6. r = [m EXCEPT !.arenas = A, !.usable = a]
  BY <1>1, <1>2, <1>4 DEF Memory, PutFirst
<1>7. KeepsRest(m, r) /\ r.usable = a /\ r.unused = m.unused /\ r.arenas = A
  BY <1>5, <1>6 DEF Memory, KeepsRest, SamePools
<1>. QED  BY <1>1, <1>3, <1>5, <1>7

(* An arena management that changes only links.                            *)
OnlyLinks(m, r) ==
    /\ KeepsRest(m, r) /\ r.unused = m.unused
    /\ \A x \in Arena : Relinked(r.arenas[x], m.arenas[x], r.arenas[x].nextarena, r.arenas[x].prevarena)

(* Case 2: what ReviveArena does.                                          *)
LEMMA ReviveIs ==
  ASSUME NEW m, m \in Memory, NEW a \in Arena, m.usable # a, NEW r, r = ReviveArena(m, a)
  PROVE  /\ OnlyLinks(m, r) /\ r.usable = a
         /\ r.arenas[a].nextarena = m.usable /\ r.arenas[a].prevarena = Nil
         /\ \A x \in Arena \ {a} : /\ r.arenas[x].nextarena = m.arenas[x].nextarena
                                   /\ r.arenas[x].prevarena = IF x = m.usable THEN a ELSE m.arenas[x].prevarena
<1>1. PICK m1 : m1 = PutFirst(m, a)
  OBVIOUS
<1>2. r = IF m.usable = Nil THEN m1 ELSE PutPrev(m1, m.usable, a)
  BY <1>1 DEF ReviveArena, PutFirst, PutPrev
<1>3. /\ KeepsRest(m, m1) /\ m1.usable = a /\ m1.unused = m.unused
      /\ \A y \in Arena : IF y = a THEN Relinked(m1.arenas[y], m.arenas[y], m.usable, Nil)
                          ELSE m1.arenas[y] = m.arenas[y]
  BY ONLY <1>1, m \in Memory, a \in Arena, SetFirst
<1>4. CASE m.usable = Nil
  BY <1>2, <1>3, <1>4, NodesAre DEF OnlyLinks, Relinked
<1>5. CASE m.usable # Nil
  <2>1. m.usable \in Arena /\ m1 \in Memory /\ r = PutPrev(m1, m.usable, a) /\ a \in Arena \cup {Nil}
    BY <1>2, <1>3, <1>5, MemoryFields DEF KeepsRest
  <2>2. /\ KeepsRest(m1, r) /\ r.usable = m1.usable /\ r.unused = m1.unused
        /\ \A y \in Arena : IF y = m.usable THEN Relinked(r.arenas[y], m1.arenas[y], m1.arenas[y].nextarena, a)
                            ELSE r.arenas[y] = m1.arenas[y]
    BY ONLY <2>1, SetPrev
  <2>3. KeepsRest(m, r)
    BY <1>3, <2>2 DEF KeepsRest, SamePools
  <2>4. \A y \in Arena \ {a} : /\ r.arenas[y].nextarena = m.arenas[y].nextarena
                               /\ r.arenas[y].prevarena = IF y = m.usable THEN a ELSE m.arenas[y].prevarena
                               /\ Relinked(r.arenas[y], m.arenas[y], r.arenas[y].nextarena, r.arenas[y].prevarena)
    BY <1>3, <2>2 DEF Relinked
  <2>5. /\ r.arenas[a].nextarena = m.usable /\ r.arenas[a].prevarena = Nil
        /\ Relinked(r.arenas[a], m.arenas[a], r.arenas[a].nextarena, r.arenas[a].prevarena)
    BY <1>3, <2>2 DEF Relinked
  <2>. QED  BY <1>3, <2>2, <2>3, <2>4, <2>5 DEF OnlyLinks
<1>. QED  BY <1>4, <1>5

(* What holds of the sets when only links changed.                         *)
LEMMA OnlyLinksAre ==
  ASSUME NEW m, m \in Memory, NEW r, OnlyLinks(m, r)
  PROVE  /\ r \in Memory /\ Usables(r) = Usables(m) /\ Unuseds(r) = Unuseds(m)
         /\ \A x \in Arena : r.arenas[x].nfreepools = m.arenas[x].nfreepools
         /\ \A x \in Arena : r.arenas[x].used = m.arenas[x].used
         /\ r.maxarenas = m.maxarenas /\ r.unused = m.unused
<1>1. /\ r \in Memory /\ r.maxarenas = m.maxarenas /\ r.unused = m.unused
      /\ \A x \in Arena : r.arenas[x].nfreepools = m.arenas[x].nfreepools /\ r.arenas[x].used = m.arenas[x].used
  BY DEF OnlyLinks, KeepsRest, Relinked
<1>2. 1 .. m.maxarenas \subseteq Arena
  BY MemoryFields
<1>. QED  BY <1>1, <1>2 DEF Usables, Unuseds

(* Case 2: ReviveArena keeps the lists.                                    *)
LEMMA ReviveLists ==
  ASSUME NEW m, m \in Memory, Lists(m), NEW m2, m2 \in Memory, NEW a \in Arena, Raised(m, m2, a),
         m.arenas[a].nfreepools = 0, NEW r, r = ReviveArena(m2, a)
  PROVE  Lists(r) /\ OnlyLinks(m2, r)
<1>. DEFINE U == Usables(m)
<1>1. /\ Doubly(m.usable, Nexts(m), Prevs(m), U) /\ U \in SUBSET Arena /\ Unuseds(m) \in SUBSET Arena
      /\ Nil \notin Arena /\ Chained(m.unused, Nexts(m), Unuseds(m))
      /\ m.usable \in U \cup {Nil} /\ (m.usable = Nil => U = {})
      /\ \A x \in U : Nexts(m)[x] \in U \cup {Nil}
  BY ListsAre
<1>2. /\ Usables(m2) = U \cup {a} /\ Unuseds(m2) = Unuseds(m) /\ a \notin Unuseds(m) /\ a \notin U
      /\ Nexts(m2) = Nexts(m) /\ Prevs(m2) = Prevs(m) /\ m2.usable = m.usable /\ m2.unused = m.unused
  BY RaisedAre DEF Raised
<1>3. m2.usable # a
  BY <1>1, <1>2
<1>4. /\ OnlyLinks(m2, r) /\ r.usable = a
      /\ r.arenas[a].nextarena = m2.usable /\ r.arenas[a].prevarena = Nil
      /\ \A x \in Arena \ {a} : /\ r.arenas[x].nextarena = m2.arenas[x].nextarena
                                /\ r.arenas[x].prevarena = IF x = m2.usable THEN a ELSE m2.arenas[x].prevarena
  BY <1>3, ReviveIs
<1>5. r \in Memory /\ Usables(r) = U \cup {a} /\ Unuseds(r) = Unuseds(m)
      /\ (\A x \in Arena : r.arenas[x].nfreepools = m2.arenas[x].nfreepools)
      /\ (\A x \in Arena : r.arenas[x].used = m2.arenas[x].used)
      /\ r.maxarenas = m2.maxarenas /\ r.unused = m.unused
  BY <1>2, <1>4, OnlyLinksAre
<1>6. /\ Nexts(r)[a] = m.usable /\ Prevs(r)[a] = Nil
      /\ \A x \in Arena \ {a} : /\ Nexts(r)[x] = Nexts(m)[x]
                                /\ Prevs(r)[x] = IF x = m.usable THEN a ELSE Prevs(m)[x]
  BY <1>2, <1>4 DEF Nexts, Prevs
<1>7. Doubly(a, Nexts(r), Prevs(r), U \cup {a})
  <2>1. /\ Doubly(m.usable, Nexts(m), Prevs(m), U) /\ a \notin U /\ a # Nil
        /\ Nexts(r)[a] = m.usable /\ Prevs(r)[a] = Nil
        /\ \A n \in U : Nexts(r)[n] = Nexts(m)[n]
                        /\ Prevs(r)[n] = (IF n = m.usable THEN a ELSE Prevs(m)[n])
    BY <1>1, <1>2, <1>6
  <2>. QED  BY ONLY <2>1, DoublyPush
<1>8. Chained(r.unused, Nexts(r), Unuseds(r))
  <2>1. \A n \in Unuseds(m) : Nexts(r)[n] = Nexts(m)[n]
    BY <1>1, <1>2, <1>6
  <2>. QED  BY <1>1, <1>5, <2>1, ChainedFrame
<1>9. \A x \in Arena : m2.arenas[x].nfreepools = m.arenas[x].nfreepools + (IF x = a THEN 1 ELSE 0)
                       /\ m.arenas[x].nfreepools \in Nat
  BY ArenaTyped DEF Raised
<1>10. Ordered(r)
  <2>. SUFFICES ASSUME NEW x \in U \cup {a}, Nexts(r)[x] # Nil
                PROVE  r.arenas[x].nfreepools <= r.arenas[Nexts(r)[x]].nfreepools
    BY <1>5 DEF Ordered
  <2>1. CASE x = a
    <3>1. Nexts(r)[a] \in U
      BY <1>1, <1>6, <2>1
    <3>2. m.arenas[Nexts(r)[a]].nfreepools > 0 /\ Nexts(r)[a] # a /\ Nexts(r)[a] \in Arena
      BY <1>1, <1>2, <3>1 DEF Usables
    <3>3. r.arenas[a].nfreepools = 1
      BY <1>5, <1>9
    <3>4. r.arenas[Nexts(r)[a]].nfreepools = m.arenas[Nexts(r)[a]].nfreepools
          /\ m.arenas[Nexts(r)[a]].nfreepools \in Nat
      BY <1>5, <1>9, <3>2
    <3>. QED  BY <2>1, <3>2, <3>3, <3>4
  <2>2. CASE x # a
    <3>1. x \in U /\ x \in Arena /\ Nexts(r)[x] = Nexts(m)[x] /\ Nexts(m)[x] \in U
      BY <1>1, <1>6, <2>2
    <3>2. m.arenas[x].nfreepools <= m.arenas[Nexts(m)[x]].nfreepools
      BY <2>2, <3>1 DEF Lists
    <3>. QED  BY <1>1, <1>2, <1>5, <1>9, <2>2, <3>1, <3>2
  <2>. QED  BY <2>1, <2>2
<1>11. \A x \in Arena : r.arenas[x].used => x <= r.maxarenas
  BY <1>5 DEF Lists, Raised
<1>12. Lists(r)
  BY <1>4, <1>5, <1>7, <1>8, <1>10, <1>11, ListsFrom
<1>. QED  BY <1>4, <1>12

(* Case 4: nothing moves, the lists are right.                             *)
LEMMA StayLists ==
  ASSUME NEW m, m \in Memory, Lists(m), NEW m2, m2 \in Memory, NEW a \in Usables(m), Raised(m, m2, a),
         \/ m2.arenas[a].nextarena = Nil
         \/ m2.arenas[a].nfreepools <= m2.arenas[m2.arenas[a].nextarena].nfreepools
  PROVE  Lists(m2)
<1>. DEFINE U == Usables(m)
<1>1. /\ Doubly(m.usable, Nexts(m), Prevs(m), U) /\ U \in SUBSET Arena /\ a \in Arena
      /\ Chained(m.unused, Nexts(m), Unuseds(m)) /\ Nil \notin Arena
      /\ \A x \in U : Nexts(m)[x] \in U \cup {Nil}
  BY ListsAre
<1>2. /\ Usables(m2) = U /\ Unuseds(m2) = Unuseds(m)
      /\ Nexts(m2) = Nexts(m) /\ Prevs(m2) = Prevs(m) /\ m2.usable = m.usable /\ m2.unused = m.unused
  <2>1. Usables(m) \cup {a} = Usables(m)
    OBVIOUS
  <2>2. /\ Usables(m2) = Usables(m) \cup {a} /\ Unuseds(m2) = Unuseds(m)
        /\ Nexts(m2) = Nexts(m) /\ Prevs(m2) = Prevs(m)
    BY <1>1, RaisedAre
  <2>. QED  BY <2>1, <2>2 DEF Raised
<1>3. \A x \in Arena : /\ m2.arenas[x].nfreepools = m.arenas[x].nfreepools + (IF x = a THEN 1 ELSE 0)
                       /\ m.arenas[x].nfreepools \in Nat /\ m2.arenas[x].used = m.arenas[x].used
  BY ArenaTyped DEF Raised
<1>4. Ordered(m2)
  <2>. SUFFICES ASSUME NEW x \in U, Nexts(m)[x] # Nil
                PROVE  m2.arenas[x].nfreepools <= m2.arenas[Nexts(m)[x]].nfreepools
    BY <1>2 DEF Ordered
  <2>1. Nexts(m)[x] \in U /\ x \in Arena /\ Nexts(m)[x] \in Arena
    BY <1>1
  <2>2. m.arenas[x].nfreepools <= m.arenas[Nexts(m)[x]].nfreepools
    BY DEF Lists
  <2>3. CASE x = a
    <3>1. m2.arenas[a].nextarena = Nexts(m)[a]
      BY <1>1, <1>2, ArenaTyped
    <3>. QED  BY <2>3, <3>1
  <2>4. CASE x # a
    BY <1>3, <2>1, <2>2, <2>4
  <2>. QED  BY <2>3, <2>4
<1>5. \A x \in Arena : m2.arenas[x].used => x <= m2.maxarenas
  BY <1>3 DEF Lists, Raised
<1>. QED  BY <1>1, <1>2, <1>4, <1>5, ListsFrom

(* The three parts of SlideArena: the arena leaves the list, the loop, the *)
(* arena is put behind the place found.                                    *)
PutGap(m, a) ==
    LET prev == m.arenas[a].prevarena
        next == m.arenas[a].nextarena
    IN IF prev = Nil THEN [m EXCEPT !.usable = next, !.arenas[next].prevarena = Nil]
       ELSE [m EXCEPT !.arenas[prev].nextarena = next, !.arenas[next].prevarena = prev]

Advance(m, m1, nf, w) ==
    IF w.next = Nil \/ nf <= m.arenas[w.next].nfreepools THEN w
    ELSE [prev |-> w.next, next |-> m1.arenas[w.next].nextarena]

Hunt(m, a, at) ==
    LET nf   == m.arenas[a].nfreepools
        prev == m.arenas[a].prevarena
        next == m.arenas[a].nextarena
        m1   == PutGap(m, a)
    IN at = [i \in 0 .. MaxArenaObjects |->
               IF i = 0 THEN [prev |-> prev, next |-> next]
               ELSE LET w == at[i - 1]
                    IN IF w.next = Nil \/ nf <= m.arenas[w.next].nfreepools THEN w
                       ELSE [prev |-> w.next, next |-> m1.arenas[w.next].nextarena]]

PutBehind(m1, a, w) ==
    [m1 EXCEPT !.arenas[a] = [@ EXCEPT !.prevarena = w.prev, !.nextarena = w.next],
               !.arenas[w.prev].nextarena = a]

(* SlideArena in parts.                                                    *)
LEMMA SlideParts ==
  ASSUME NEW m, NEW a
  PROVE  \E at : /\ at = CHOOSE f : Hunt(m, a, f)
                 /\ SlideArena(m, a) =
                      LET w  == at[MaxArenaObjects]
                          m2 == PutBehind(PutGap(m, a), a, w)
                      IN IF w.next = Nil THEN m2 ELSE [m2 EXCEPT !.arenas[w.next].prevarena = a]
<1>1. SlideArena(m, a) =
        LET at == CHOOSE f : Hunt(m, a, f)
            w  == at[MaxArenaObjects]
            m2 == PutBehind(PutGap(m, a), a, w)
        IN IF w.next = Nil THEN m2 ELSE [m2 EXCEPT !.arenas[w.next].prevarena = a]
  BY DEF SlideArena, Hunt, PutGap, PutBehind
<1>. QED  BY <1>1

(* The search of SlideArena is defined by its equations.                   *)
LEMMA HuntExists ==
  ASSUME NEW m, m \in Memory, NEW a \in Arena, NEW m1, m1 = PutGap(m, a), m1 \in Memory,
         NEW at, at = CHOOSE f : Hunt(m, a, f)
  PROVE  /\ at[0] = [prev |-> m.arenas[a].prevarena, next |-> m.arenas[a].nextarena]
         /\ \A i \in 1 .. MaxArenaObjects :
              at[i] = Advance(m, m1, m.arenas[a].nfreepools, at[i - 1])
<1>. DEFINE D == [prev : Arena \cup {Nil}, next : Arena \cup {Nil}]
            nf == m.arenas[a].nfreepools
            A == [prev |-> m.arenas[a].prevarena, next |-> m.arenas[a].nextarena]
            F == [w \in D |-> Advance(m, m1, nf, w)]
            N == MaxArenaObjects
<1>1. A \in D
  BY ArenaTyped
<1>2. F \in [D -> D]
  <2>. SUFFICES ASSUME NEW w \in D  PROVE Advance(m, m1, nf, w) \in D
    OBVIOUS
  <2>1. w.next # Nil => w.next \in Arena /\ m1.arenas[w.next].nextarena \in Arena \cup {Nil}
    BY ArenaTyped
  <2>. QED  BY <2>1 DEF Advance
<1>3. N \in Nat
  BY PoolNumbers
<1>4. PICK g \in [0 .. N -> D] : Iterates(g, A, F, N)
  <2>. HIDE DEF D, A, F, N
  <2>. QED  BY <1>1, <1>2, <1>3, IterationExists
<1>5. \A i \in 0 .. N : g[i] = IF i = 0 THEN A ELSE Advance(m, m1, nf, g[i - 1])
  <2>. SUFFICES ASSUME NEW i \in 0 .. N  PROVE g[i] = IF i = 0 THEN A ELSE Advance(m, m1, nf, g[i - 1])
    OBVIOUS
  <2>1. g[i] = IF i = 0 THEN A ELSE F[g[i - 1]]
    BY <1>4 DEF Iterates
  <2>2. i # 0 => g[i - 1] \in D
    <3>1. i # 0 => i - 1 \in 0 .. N
      BY <1>3
    <3>. QED  BY <1>4, <3>1
  <2>. HIDE DEF D, A
  <2>. QED  BY <2>1, <2>2
<1>. HIDE DEF A, F, D
<1>6. Hunt(m, a, g)
  <2>1. g = [i \in 0 .. N |-> IF i = 0 THEN A ELSE Advance(m, m1, nf, g[i - 1])]
    BY <1>4, <1>5
  <2>. QED  BY <2>1 DEF Hunt, Advance, A
<1>7. Hunt(m, a, at)
  BY <1>6
<1>8. at = [i \in 0 .. N |-> IF i = 0 THEN A ELSE Advance(m, m1, nf, at[i - 1])]
  <2>1. \A f : Hunt(m, a, f) <=>
              f = [i \in 0 .. MaxArenaObjects |->
                     IF i = 0 THEN [prev |-> m.arenas[a].prevarena, next |-> m.arenas[a].nextarena]
                     ELSE Advance(m, PutGap(m, a), m.arenas[a].nfreepools, f[i - 1])]
    BY ONLY TRUE DEF Hunt, Advance
  <2>2. at = [i \in 0 .. MaxArenaObjects |->
                IF i = 0 THEN [prev |-> m.arenas[a].prevarena, next |-> m.arenas[a].nextarena]
                ELSE Advance(m, PutGap(m, a), m.arenas[a].nfreepools, at[i - 1])]
    BY ONLY <1>7, <2>1
  <2>. QED  BY <2>2 DEF A
<1>9. 0 \in 0 .. N /\ \A i \in 1 .. N : i \in 0 .. N /\ i # 0
  BY <1>3
<1>10. at[0] = A /\ \A i \in 1 .. N : at[i] = Advance(m, m1, nf, at[i - 1])
  BY <1>8, <1>9
<1>. QED  BY <1>10 DEF A

(* The loop finds the place: behind w.prev, before w.next.                 *)
LEMMA HuntEnds ==
  ASSUME NEW m, m \in Memory, NEW a \in Arena, NEW m1, m1 \in Memory,
         NEW h, NEW V \in SUBSET (Arena \ {a}), Chained(h, Nexts(m1), V),
         NEW nf \in Nat, \A x \in V : m.arenas[x].nfreepools \in Nat,
         NEW at, at[0].next \in V, ~ (nf <= m.arenas[at[0].next].nfreepools),
         \A i \in 1 .. MaxArenaObjects : at[i] = Advance(m, m1, nf, at[i - 1]),
         NEW w, w = at[MaxArenaObjects]
  PROVE  /\ w.prev \in V /\ w.next \in V \cup {Nil} /\ Nexts(m1)[w.prev] = w.next
         /\ m.arenas[w.prev].nfreepools <= nf
         /\ w.next = Nil \/ nf <= m.arenas[w.next].nfreepools
<1>. DEFINE M == MaxArenaObjects
            Ends(v) == v.next = Nil \/ nf <= m.arenas[v.next].nfreepools
<1>1. M \in Nat /\ M >= 1 /\ Nil \notin Arena
  BY PoolNumbers, NodesAre
<1>2. IsFiniteSet(V) /\ Cardinality(V) < M
  <2>1. IsFiniteSet(Arena \ {a}) /\ Cardinality(Arena \ {a}) = M - 1
    BY NodesAre, FS_RemoveElement
  <2>2. IsFiniteSet(V) /\ Cardinality(V) <= M - 1 /\ Cardinality(V) \in Nat
    BY <2>1, FS_Subset, FS_CardinalityType
  <2>. QED  BY <1>1, <2>2
<1>3. PICK r \in [V -> 0 .. M - 1] : \A n \in V : Nexts(m1)[n] # Nil => r[Nexts(m1)[n]] = r[n] + 1
  BY <1>1, <1>2, ChainedPlaces
<1>4. \A x \in V : Nexts(m1)[x] = m1.arenas[x].nextarena /\ Nexts(m1)[x] \in V \cup {Nil}
  BY ArenaTyped DEF Chained
<1>. DEFINE P(i) == /\ at[i].next \in V \cup {Nil}
                    /\ i >= 1 => /\ at[i].prev \in V /\ Nexts(m1)[at[i].prev] = at[i].next
                                 /\ m.arenas[at[i].prev].nfreepools <= nf
                    /\ i = 0 => ~Ends(at[i])
                    /\ Ends(at[i]) \/ r[at[i].next] >= i
            T == {i \in Nat : i <= M => P(i)}
<1>5. 0 \in T
  <2>1. at[0].next # Nil /\ r[at[0].next] \in 0 .. M - 1
    BY <1>1, <1>3
  <2>. QED  BY <2>1
<1>6. ASSUME NEW i \in Nat, i \in T  PROVE i + 1 \in T
  <2>. SUFFICES ASSUME i + 1 <= M  PROVE P(i + 1)
    OBVIOUS
  <2>1. i + 1 \in 1 .. M /\ (i + 1) - 1 = i /\ i <= M
    BY <1>1
  <2>2. at[i + 1] = Advance(m, m1, nf, at[i])
    BY <2>1
  <2>3. P(i)
    BY <1>6, <2>1
  <2>4. CASE Ends(at[i])
    <3>1. at[i + 1] = at[i]
      BY <2>2, <2>4 DEF Advance
    <3>2. i >= 1
      BY <2>3, <2>4
    <3>. QED  BY <2>3, <2>4, <3>1, <3>2
  <2>5. CASE ~Ends(at[i])
    <3>1. PICK x : x = at[i].next
      OBVIOUS
    <3>2. x \in V /\ at[i + 1] = [prev |-> x, next |-> m1.arenas[x].nextarena] /\ r[x] >= i
          /\ ~ (nf <= m.arenas[x].nfreepools)
      BY <2>2, <2>3, <2>5, <3>1 DEF Advance
    <3>3. at[i + 1].prev = x /\ at[i + 1].next = Nexts(m1)[x] /\ Nexts(m1)[x] \in V \cup {Nil}
      BY <1>4, <3>2
    <3>4. m.arenas[x].nfreepools <= nf
      BY <3>2
    <3>5. Nexts(m1)[x] # Nil => r[Nexts(m1)[x]] >= i + 1
      BY <1>3, <3>2
    <3>. QED  BY <3>2, <3>3, <3>4, <3>5
  <2>. QED  BY <2>4, <2>5
<1>. HIDE DEF T
<1>7. M \in T
  BY <1>1, <1>5, <1>6, NatSetInduction
<1>8. P(M)
  BY <1>1, <1>7 DEF T
<1>9. Ends(at[M])
  <2>. SUFFICES ASSUME ~Ends(at[M])  PROVE FALSE
    OBVIOUS
  <2>1. at[M].next \in V /\ r[at[M].next] >= M
    BY <1>8
  <2>2. r[at[M].next] \in 0 .. M - 1
    BY <1>3, <2>1
  <2>. QED  BY <1>1, <2>1, <2>2
<1>. QED  BY <1>1, <1>8, <1>9

(* The neighbours of the arena close the gap.                              *)
LEMMA GapIs ==
  ASSUME NEW m, m \in Memory, NEW a \in Arena,
         NEW prev, prev = m.arenas[a].prevarena, NEW next, next = m.arenas[a].nextarena,
         next # Nil, NEW r, r = PutGap(m, a)
  PROVE  /\ KeepsRest(m, r) /\ r.unused = m.unused
         /\ r.usable = (IF prev = Nil THEN next ELSE m.usable)
         /\ \A x \in Arena :
              Relinked(r.arenas[x], m.arenas[x], IF x = prev THEN next ELSE m.arenas[x].nextarena,
                                                 IF x = next THEN prev ELSE m.arenas[x].prevarena)
<1>1. prev \in Arena \cup {Nil} /\ next \in Arena /\ Nil \notin Arena
  BY ArenaTyped, NodesAre
<1>2. r = IF prev = Nil THEN PutPrev(PutUsable(m, next), next, Nil)
          ELSE PutPrev(PutNext(m, prev, next), next, prev)
  BY DEF PutGap, PutPrev, PutUsable, PutNext
<1>3. CASE prev = Nil
  <2>1. PICK m1 : m1 = PutUsable(m, next)
    OBVIOUS
  <2>2. /\ KeepsRest(m, m1) /\ m1.usable = next /\ m1.unused = m.unused /\ m1.arenas = m.arenas
    BY <1>1, <2>1, SetUsable
  <2>3. next \in Arena /\ m1 \in Memory /\ r = PutPrev(m1, next, Nil) /\ Nil \in Arena \cup {Nil}
    BY <1>1, <1>2, <1>3, <2>1, <2>2 DEF KeepsRest
  <2>4. /\ KeepsRest(m1, r) /\ r.usable = m1.usable /\ r.unused = m1.unused
        /\ \A y \in Arena : IF y = next THEN Relinked(r.arenas[y], m1.arenas[y], m1.arenas[y].nextarena, Nil)
                            ELSE r.arenas[y] = m1.arenas[y]
    BY ONLY <2>3, SetPrev
  <2>. QED  BY <1>1, <1>3, <2>2, <2>4 DEF KeepsRest, SamePools, Relinked
<1>4. CASE prev # Nil
  <2>1. PICK m1 : m1 = PutNext(m, prev, next)
    OBVIOUS
  <2>a. prev \in Arena /\ next \in Arena \cup {Nil} /\ m \in Memory
    BY <1>1, <1>4
  <2>2. /\ KeepsRest(m, m1) /\ m1.usable = m.usable /\ m1.unused = m.unused
        /\ \A y \in Arena : IF y = prev THEN Relinked(m1.arenas[y], m.arenas[y], next, m.arenas[y].prevarena)
                            ELSE m1.arenas[y] = m.arenas[y]
    BY ONLY <2>1, <2>a, SetNext
  <2>3. next \in Arena /\ m1 \in Memory /\ r = PutPrev(m1, next, prev) /\ prev \in Arena \cup {Nil}
    BY <1>1, <1>2, <1>4, <2>1, <2>2 DEF KeepsRest
  <2>4. /\ KeepsRest(m1, r) /\ r.usable = m1.usable /\ r.unused = m1.unused
        /\ \A y \in Arena : IF y = next THEN Relinked(r.arenas[y], m1.arenas[y], m1.arenas[y].nextarena, prev)
                            ELSE r.arenas[y] = m1.arenas[y]
    BY ONLY <2>3, SetPrev
  <2>5. \A y \in Arena :
          /\ IF y = prev THEN Relinked(m1.arenas[y], m.arenas[y], next, m.arenas[y].prevarena)
             ELSE m1.arenas[y] = m.arenas[y]
          /\ IF y = next THEN Relinked(r.arenas[y], m1.arenas[y], m1.arenas[y].nextarena, prev)
             ELSE r.arenas[y] = m1.arenas[y]
    BY <2>2, <2>4
  <2>6. \A y \in Arena :
              Relinked(r.arenas[y], m.arenas[y], IF y = prev THEN next ELSE m.arenas[y].nextarena,
                                                 IF y = next THEN prev ELSE m.arenas[y].prevarena)
    BY ONLY <2>5 DEF Relinked
  <2>. QED  BY <1>4, <2>2, <2>4, <2>6 DEF KeepsRest, SamePools
<1>. QED  BY <1>3, <1>4

(* a between b and c.                                                      *)
LEMMA BehindIs ==
  ASSUME NEW m, m \in Memory, NEW a \in Arena, NEW b \in Arena, a # b, NEW c \in Arena \cup {Nil}, c # a,
         NEW w, w.prev = b, w.next = c,
         NEW m2, m2 = PutBehind(m, a, w),
         NEW r, r = IF c = Nil THEN m2 ELSE PutPrev(m2, c, a)
  PROVE  /\ OnlyLinks(m, r) /\ r.usable = m.usable
         /\ r.arenas[a].nextarena = c /\ r.arenas[a].prevarena = b
         /\ \A x \in Arena \ {a} : /\ r.arenas[x].nextarena = (IF x = b THEN a ELSE m.arenas[x].nextarena)
                                   /\ r.arenas[x].prevarena = (IF x = c THEN a ELSE m.arenas[x].prevarena)
<1>1. PICK m1 : m1 = PutLinks(m, a, c, b)
  OBVIOUS
<1>2. m2 = PutNext(m1, b, a)
  BY <1>1 DEF PutBehind, PutLinks, PutNext
<1>3. /\ KeepsRest(m, m1) /\ m1.usable = m.usable /\ m1.unused = m.unused
      /\ \A y \in Arena : IF y = a THEN Relinked(m1.arenas[y], m.arenas[y], c, b)
                          ELSE m1.arenas[y] = m.arenas[y]
  <2>1. m \in Memory /\ a \in Arena /\ b \in Arena \cup {Nil} /\ c \in Arena \cup {Nil}
    OBVIOUS
  <2>. QED  BY ONLY <2>1, <1>1, SetLinks
<1>4. m1 \in Memory /\ b \in Arena /\ a \in Arena \cup {Nil} /\ Nil \notin Arena
  BY <1>3, NodesAre DEF KeepsRest
<1>5. /\ KeepsRest(m1, m2) /\ m2.usable = m1.usable /\ m2.unused = m1.unused
      /\ \A y \in Arena : IF y = b THEN Relinked(m2.arenas[y], m1.arenas[y], a, m1.arenas[y].prevarena)
                          ELSE m2.arenas[y] = m1.arenas[y]
  BY ONLY <1>2, <1>4, SetNext
<1>6. /\ KeepsRest(m, m2) /\ m2.usable = m.usable /\ m2.unused = m.unused
      /\ \A y \in Arena : Relinked(m2.arenas[y], m.arenas[y],
                             IF y = a THEN c ELSE IF y = b THEN a ELSE m.arenas[y].nextarena,
                             IF y = a THEN b ELSE m.arenas[y].prevarena)
  <2>1. \A y \in Arena : Relinked(m2.arenas[y], m.arenas[y],
                             IF y = a THEN c ELSE IF y = b THEN a ELSE m.arenas[y].nextarena,
                             IF y = a THEN b ELSE m.arenas[y].prevarena)
    BY <1>3, <1>5 DEF Relinked
  <2>. QED  BY <1>3, <1>5, <2>1 DEF KeepsRest, SamePools
<1>7. /\ KeepsRest(m, r) /\ r.usable = m.usable /\ r.unused = m.unused
      /\ \A y \in Arena : Relinked(r.arenas[y], m.arenas[y],
                             IF y = a THEN c ELSE IF y = b THEN a ELSE m.arenas[y].nextarena,
                             IF y = a THEN b ELSE IF y = c THEN a ELSE m.arenas[y].prevarena)
  <2>1. CASE c = Nil
    BY <1>4, <1>6, <2>1
  <2>2. CASE c # Nil
    <3>1. c \in Arena /\ m2 \in Memory /\ a \in Arena \cup {Nil} /\ r = PutPrev(m2, c, a)
      BY <1>6, <2>2 DEF KeepsRest
    <3>2. /\ KeepsRest(m2, r) /\ r.usable = m2.usable /\ r.unused = m2.unused
          /\ \A y \in Arena : IF y = c THEN Relinked(r.arenas[y], m2.arenas[y], m2.arenas[y].nextarena, a)
                              ELSE r.arenas[y] = m2.arenas[y]
      BY ONLY <3>1, SetPrev
    <3>3. \A y \in Arena : Relinked(r.arenas[y], m.arenas[y],
                             IF y = a THEN c ELSE IF y = b THEN a ELSE m.arenas[y].nextarena,
                             IF y = a THEN b ELSE IF y = c THEN a ELSE m.arenas[y].prevarena)
      BY <1>6, <3>2 DEF Relinked
    <3>. QED  BY <1>6, <3>2, <3>3 DEF KeepsRest, SamePools
  <2>. QED  BY <2>1, <2>2
<1>. QED  BY <1>7 DEF OnlyLinks, Relinked

(* Case 3: what SlideArena does.                                           *)
Slid(m, a, at, r) ==
    /\ at = CHOOSE f : Hunt(m, a, f)
    /\ r = LET w  == at[MaxArenaObjects]
               m3 == PutBehind(PutGap(m, a), a, w)
           IN IF w.next = Nil THEN m3 ELSE [m3 EXCEPT !.arenas[w.next].prevarena = a]

(* SlideArena, with its search as a constant.                              *)
LEMMA SlidIs ==
  ASSUME NEW m, NEW a  PROVE \E at : Slid(m, a, at, SlideArena(m, a))
BY SlideParts DEF Slid

(* Case 3: SlideArena keeps the lists, and their order.                    *)
LEMMA SlideLists ==
  ASSUME NEW m, m \in Memory, Lists(m), NEW m2, m2 \in Memory, NEW a \in Usables(m), Raised(m, m2, a),
         m2.arenas[a].nextarena # Nil,
         ~ (m2.arenas[a].nfreepools <= m2.arenas[m2.arenas[a].nextarena].nfreepools),
         NEW r, r = SlideArena(m2, a)
  PROVE  Lists(r) /\ OnlyLinks(m2, r)
<1>. DEFINE U == Usables(m)
            V == Usables(m) \ {a}
<1>1. /\ Doubly(m.usable, Nexts(m), Prevs(m), U) /\ U \in SUBSET Arena /\ a \in Arena
      /\ Unuseds(m) \in SUBSET Arena /\ U \cap Unuseds(m) = {}
      /\ Chained(m.unused, Nexts(m), Unuseds(m)) /\ Nil \notin Arena
      /\ \A x \in U : Nexts(m)[x] \in U \cup {Nil} /\ Prevs(m)[x] \in U \cup {Nil}
      /\ \A x \in U : Prevs(m)[x] # Nil => Nexts(m)[Prevs(m)[x]] = x
  BY ListsAre
<1>2. /\ Usables(m2) = U /\ Unuseds(m2) = Unuseds(m)
      /\ Nexts(m2) = Nexts(m) /\ Prevs(m2) = Prevs(m) /\ m2.usable = m.usable /\ m2.unused = m.unused
      /\ m2.maxarenas = m.maxarenas
  <2>1. Usables(m) \cup {a} = Usables(m)
    OBVIOUS
  <2>2. /\ Usables(m2) = Usables(m) \cup {a} /\ Unuseds(m2) = Unuseds(m)
        /\ Nexts(m2) = Nexts(m) /\ Prevs(m2) = Prevs(m)
    BY <1>1, RaisedAre
  <2>. QED  BY <2>1, <2>2 DEF Raised
<1>3. PICK prev, next : prev = m2.arenas[a].prevarena /\ next = m2.arenas[a].nextarena
  OBVIOUS
<1>4. /\ prev = Prevs(m)[a] /\ next = Nexts(m)[a] /\ next # Nil /\ next \in U /\ prev \in U \cup {Nil}
  BY <1>1, <1>2, <1>3, ArenaTyped
<1>5. prev # a /\ next # a
  BY <1>1, <1>4, NotSelf, ArenaTyped
<1>6. PICK m1 : m1 = PutGap(m2, a)
  OBVIOUS
<1>7. /\ KeepsRest(m2, m1) /\ m1.unused = m2.unused
      /\ m1.usable = (IF prev = Nil THEN next ELSE m2.usable)
      /\ \A x \in Arena :
           Relinked(m1.arenas[x], m2.arenas[x], IF x = prev THEN next ELSE m2.arenas[x].nextarena,
                                                IF x = next THEN prev ELSE m2.arenas[x].prevarena)
  <2>1. m2 \in Memory /\ a \in Arena /\ next # Nil
    BY <1>1, <1>4
  <2>. QED  BY ONLY <2>1, <1>3, <1>6, GapIs
<1>8. m1 \in Memory /\ Leaves(m2, m1, a, prev, next) /\ m1.usable = (IF prev = Nil THEN next ELSE m.usable)
  BY <1>2, <1>7 DEF KeepsRest, Leaves
<1>9. /\ Left(m1, m1.usable, V)
      /\ \A x \in V : m1.arenas[x].nfreepools = m2.arenas[x].nfreepools
      /\ \A x \in Unuseds(m) : Nexts(m1)[x] = Nexts(m)[x]
  <2>1. Left(m1, m1.usable, U \ {a}) /\ \A x \in Unuseds(m) : Nexts(m1)[x] = Nexts(m)[x]
    <3>1. LeftAt(m, m2, a, prev, next, m1, m1.usable)
      BY <1>3, <1>8 DEF LeftAt
    <3>. QED  BY <3>1, LeavesList
  <2>2. \A x \in V : m1.arenas[x].nfreepools = m2.arenas[x].nfreepools
    BY <1>1, <1>7 DEF Relinked
  <2>. QED  BY <2>1, <2>2
<1>10. PICK at : Slid(m2, a, at, r)
  BY SlidIs
<1>11. PICK w, m3 : w = at[MaxArenaObjects] /\ m3 = PutBehind(m1, a, w)
  OBVIOUS
<1>12. r = IF w.next = Nil THEN m3 ELSE PutPrev(m3, w.next, a)
  BY <1>6, <1>10, <1>11 DEF PutPrev, Slid
<1>13. /\ at[0] = [prev |-> prev, next |-> next]
       /\ \A i \in 1 .. MaxArenaObjects :
            at[i] = Advance(m2, m1, m2.arenas[a].nfreepools, at[i - 1])
  <2>1. m2 \in Memory /\ a \in Arena /\ m1 = PutGap(m2, a) /\ m1 \in Memory
    BY <1>1, <1>6, <1>8
  <2>2. at = CHOOSE f : Hunt(m2, a, f)
    BY <1>10 DEF Slid
  <2>3. /\ at[0] = [prev |-> m2.arenas[a].prevarena, next |-> m2.arenas[a].nextarena]
        /\ \A i \in 1 .. MaxArenaObjects :
             at[i] = Advance(m2, m1, m2.arenas[a].nfreepools, at[i - 1])
    BY ONLY <2>1, <2>2, HuntExists
  <2>. QED  BY <1>3, <2>3
<1>14. PICK nf \in Nat : nf = m2.arenas[a].nfreepools
  BY <1>1, ArenaTyped
<1>15. /\ w.prev \in V /\ w.next \in V \cup {Nil} /\ Nexts(m1)[w.prev] = w.next
       /\ m2.arenas[w.prev].nfreepools <= nf
       /\ w.next = Nil \/ nf <= m2.arenas[w.next].nfreepools
  <2>1. at[0].next = next /\ next \in V /\ ~ (nf <= m2.arenas[next].nfreepools)
    BY <1>3, <1>4, <1>5, <1>13, <1>14
  <2>2. V \in SUBSET (Arena \ {a}) /\ (\A x \in V : m2.arenas[x].nfreepools \in Nat)
    BY <1>1, ArenaTyped
  <2>3. Chained(m1.usable, Nexts(m1), V)
    BY <1>9 DEF Left, Doubly
  <2>4. /\ at[0].next \in V /\ ~ (nf <= m2.arenas[at[0].next].nfreepools)
        /\ \A i \in 1 .. MaxArenaObjects : at[i] = Advance(m2, m1, nf, at[i - 1])
    BY <1>13, <1>14, <2>1
  <2>. HIDE DEF V
  <2>. QED  BY <1>1, <1>8, <1>11, <2>2, <2>3, <2>4, HuntEnds
<1>16. PICK b, c : b = w.prev /\ c = w.next
  OBVIOUS
<1>17. /\ b \in V /\ c \in V \cup {Nil} /\ Nexts(m1)[b] = c /\ b \in Arena /\ b # a
       /\ c \in Arena \cup {Nil} /\ c # a
       /\ m2.arenas[b].nfreepools <= nf /\ (c # Nil => nf <= m2.arenas[c].nfreepools)
  BY <1>1, <1>15, <1>16
<1>18. /\ OnlyLinks(m1, r) /\ r.usable = m1.usable
       /\ r.arenas[a].nextarena = c /\ r.arenas[a].prevarena = b
       /\ \A x \in Arena \ {a} : /\ r.arenas[x].nextarena = (IF x = b THEN a ELSE m1.arenas[x].nextarena)
                                 /\ r.arenas[x].prevarena = (IF x = c THEN a ELSE m1.arenas[x].prevarena)
  <2>1. m1 \in Memory /\ a \in Arena /\ b \in Arena /\ a # b /\ c \in Arena \cup {Nil} /\ c # a
        /\ w.prev = b /\ w.next = c /\ m3 = PutBehind(m1, a, w) /\ r = IF c = Nil THEN m3 ELSE PutPrev(m3, c, a)
    BY <1>1, <1>8, <1>11, <1>12, <1>16, <1>17
  <2>. QED  BY ONLY <2>1, BehindIs
<1>19. /\ r \in Memory /\ r.maxarenas = m.maxarenas /\ r.unused = m.unused
       /\ \A x \in Arena : /\ r.arenas[x].used = m2.arenas[x].used
                           /\ r.arenas[x].nfreepools = m2.arenas[x].nfreepools
                           /\ Relinked(r.arenas[x], m2.arenas[x], r.arenas[x].nextarena, r.arenas[x].prevarena)
  BY <1>2, <1>7, <1>18 DEF OnlyLinks, KeepsRest, Relinked
<1>20. OnlyLinks(m2, r)
  BY <1>7, <1>18, <1>19 DEF OnlyLinks, KeepsRest, SamePools
<1>21. Usables(r) = U /\ Unuseds(r) = Unuseds(m)
  BY <1>2, <1>20, OnlyLinksAre
<1>22. /\ Nexts(r)[a] = c /\ Prevs(r)[a] = b
       /\ \A x \in Arena \ {a} : /\ Nexts(r)[x] = (IF x = b THEN a ELSE Nexts(m1)[x])
                                 /\ Prevs(r)[x] = (IF x = c THEN a ELSE Prevs(m1)[x])
  BY <1>1, <1>18 DEF Nexts, Prevs
<1>23. Doubly(r.usable, Nexts(r), Prevs(r), U)
  <2>1. /\ Doubly(m1.usable, Nexts(m1), Prevs(m1), V) /\ b \in V /\ a # Nil /\ a \notin V
        /\ Nexts(r)[a] = Nexts(m1)[b] /\ Prevs(r)[a] = b
        /\ \A x \in V : /\ Nexts(r)[x] = (IF x = b THEN a ELSE Nexts(m1)[x])
                        /\ Prevs(r)[x] = (IF x = Nexts(m1)[b] THEN a ELSE Prevs(m1)[x])
    BY <1>1, <1>9, <1>17, <1>22 DEF Left
  <2>2. Doubly(m1.usable, Nexts(r), Prevs(r), V \cup {a})
    <3>. HIDE DEF V
    <3>. QED  BY ONLY <2>1, DoublyInsert
  <2>3. V \cup {a} = U
    OBVIOUS
  <2>. QED  BY <1>18, <2>2, <2>3
<1>24. Chained(r.unused, Nexts(r), Unuseds(r))
  <2>1. \A n \in Unuseds(m) : Nexts(r)[n] = Nexts(m)[n]
    BY <1>1, <1>9, <1>17, <1>22
  <2>. QED  BY <1>1, <1>19, <1>21, <2>1, ChainedFrame
<1>25. Ordered(r)
  <2>. SUFFICES ASSUME NEW x \in U, Nexts(r)[x] # Nil
                PROVE  r.arenas[x].nfreepools <= r.arenas[Nexts(r)[x]].nfreepools
    BY <1>21 DEF Ordered
  <2>1. CASE x = a
    BY <1>1, <1>14, <1>17, <1>19, <1>22, <2>1
  <2>2. CASE x = b
    BY <1>1, <1>14, <1>17, <1>19, <1>22, <2>2
  <2>3. CASE x # a /\ x # b
    <3>1. x \in V /\ Nexts(r)[x] = Nexts(m1)[x] /\ x \in Arena
      BY <1>1, <1>22, <2>3
    <3>2. Nexts(m1)[x] \in V
      BY <1>9, <3>1 DEF Left, Doubly, Chained
    <3>3. m1.arenas[x].nfreepools <= m1.arenas[Nexts(m1)[x]].nfreepools
      BY <1>9, <3>1 DEF Left
    <3>4. m1.arenas[x].nfreepools = r.arenas[x].nfreepools
          /\ m1.arenas[Nexts(m1)[x]].nfreepools = r.arenas[Nexts(m1)[x]].nfreepools
      BY <1>1, <1>9, <1>19, <3>1, <3>2
    <3>. QED  BY <3>1, <3>3, <3>4
  <2>. QED  BY <2>1, <2>2, <2>3
<1>26. \A x \in Arena : r.arenas[x].used => x <= r.maxarenas
  BY <1>19 DEF Lists, Raised
<1>27. Lists(r)
  BY <1>19, <1>21, <1>23, <1>24, <1>25, <1>26, ListsFrom
<1>. QED  BY <1>20, <1>27

(* Arena a went back to the system with all its pools.                     *)
Returned(m, r, a) ==
    /\ r \in Memory /\ ~r.arenas[a].used
    /\ r.pool = [p \in Pool |-> IF ArenaOf(p) = a THEN RawPool ELSE m.pool[p]]
    /\ r.nextpool = [n \in Node |-> IF n \in Pool /\ ArenaOf(n) = a THEN Nil ELSE m.nextpool[n]]
    /\ r.prevpool = [n \in Node |-> IF n \in Pool /\ ArenaOf(n) = a THEN Nil ELSE m.prevpool[n]]
    /\ \A x \in Arena \ {a} : Relinked(r.arenas[x], m.arenas[x], r.arenas[x].nextarena, r.arenas[x].prevarena)

RaisedAt(m, m2, a) ==
    /\ m \in Memory /\ Lists(m) /\ m2 \in Memory /\ a \in Arena /\ Raised(m, m2, a)

(* The four cases, as ArrangeArena tells them apart.                       *)
LEMMA ArrangeLists ==
  ASSUME NEW m, NEW m2, NEW a, RaisedAt(m, m2, a), m.arenas[a].ntotalpools >= 2,
         m.arenas[a].nfreepools < m.arenas[a].ntotalpools,
         NEW r, r = ArrangeArena(m2, a)
  PROVE  /\ Lists(r)
         /\ IF m2.arenas[a].nfreepools = m2.arenas[a].ntotalpools THEN Returned(m2, r, a)
            ELSE OnlyLinks(m2, r)
<1>. m \in Memory /\ Lists(m) /\ m2 \in Memory /\ a \in Arena /\ Raised(m, m2, a)
  BY DEF RaisedAt
<1>1. PICK nf, nf0, nt \in Nat : /\ nf = m2.arenas[a].nfreepools /\ nt = m2.arenas[a].ntotalpools
                                 /\ nf0 = m.arenas[a].nfreepools /\ nt = m.arenas[a].ntotalpools
                                 /\ nf = nf0 + 1 /\ nt >= 2
  BY ArenaTyped DEF Raised
<1>2. a \in Usables(m) <=> nf0 > 0
  BY <1>1, RaisedAre
<1>3. CASE nf = nt
  <2>1. r = ReturnArena(m2, a) /\ a \in Usables(m)
    BY <1>1, <1>2, <1>3 DEF ArrangeArena
  <2>2. /\ Lists(r) /\ r \in Memory /\ ~r.arenas[a].used
        /\ r.pool = [p \in Pool |-> IF ArenaOf(p) = a THEN RawPool ELSE m2.pool[p]]
        /\ r.nextpool = [n \in Node |-> IF n \in Pool /\ ArenaOf(n) = a THEN Nil ELSE m2.nextpool[n]]
        /\ r.prevpool = [n \in Node |-> IF n \in Pool /\ ArenaOf(n) = a THEN Nil ELSE m2.prevpool[n]]
        /\ \A x \in Arena \ {a} : Relinked(r.arenas[x], m2.arenas[x], r.arenas[x].nextarena, r.arenas[x].prevarena)
    BY <2>1, ReturnLists
  <2>3. Returned(m2, r, a)
    BY <2>2 DEF Returned
  <2>. QED  BY <1>1, <1>3, <2>2, <2>3
<1>4. CASE nf # nt /\ nf = 1
  <2>1. r = ReviveArena(m2, a) /\ m.arenas[a].nfreepools = 0
    BY <1>1, <1>4 DEF ArrangeArena
  <2>2. Lists(r) /\ OnlyLinks(m2, r)
    BY <2>1, ReviveLists
  <2>. QED  BY <1>1, <1>4, <2>2
<1>5. CASE nf # nt /\ nf # 1
  <2>1. a \in Usables(m)
    BY <1>1, <1>2, <1>5
  <2>2. CASE \/ m2.arenas[a].nextarena = Nil
             \/ m2.arenas[a].nfreepools <= m2.arenas[m2.arenas[a].nextarena].nfreepools
    <3>1. r = m2
      BY <1>1, <1>5, <2>2 DEF ArrangeArena
    <3>2. Lists(m2)
      BY <2>1, <2>2, StayLists
    <3>3. OnlyLinks(m2, m2)
      BY DEF OnlyLinks, KeepsRest, SamePools, Relinked
    <3>. QED  BY <1>1, <1>5, <3>1, <3>2, <3>3
  <2>3. CASE ~ \/ m2.arenas[a].nextarena = Nil
               \/ m2.arenas[a].nfreepools <= m2.arenas[m2.arenas[a].nextarena].nfreepools
    <3>1. r = SlideArena(m2, a)
      BY <1>1, <1>5, <2>3 DEF ArrangeArena
    <3>2. m2.arenas[a].nextarena # Nil /\ ~(m2.arenas[a].nfreepools <= m2.arenas[m2.arenas[a].nextarena].nfreepools)
      BY <2>3
    <3>3. Lists(r) /\ OnlyLinks(m2, r)
      BY <2>1, <3>1, <3>2, SlideLists
    <3>. QED  BY <1>1, <1>5, <3>3
  <2>. QED  BY <2>2, <2>3
<1>. QED  BY <1>3, <1>4, <1>5

(* The arenas have the same numbers and the pools are the same.            *)
SameNumbers(m, r) ==
    /\ SamePools(m, r)
    /\ \A x \in Arena : Relinked(r.arenas[x], m.arenas[x], r.arenas[x].nextarena, r.arenas[x].prevarena)

(* What is said of pools and blocks does not depend on the links between   *)
(* arenas.                                                                 *)
LEMMA PoolsFrame ==
  ASSUME NEW m, NEW r, SameNumbers(m, r), NEW O, NEW I, NEW G, Pools(m, O, I, G)
  PROVE  Pools(r, O, I, G)
<1>1. \A p \in Pool : ArenaOf(p) \in Arena
  BY PoolNumbers
<1>2. Counts(r, I, G)
  BY <1>1 DEF Pools, Counts, SameNumbers, Relinked
<1>3. Frees(r, G)
  BY DEF Pools, Frees, SameNumbers, Relinked, SamePools
<1>4. Giving(r, I) = Giving(m, I)
  BY DEF Giving, SameNumbers, SamePools
<1>5. Rings(r, Giving(r, I))
  BY <1>4 DEF Pools, Rings, OfClass, SameNumbers, SamePools
<1>6. PoolBlocks(r, O, I, G)
  BY DEF Pools, PoolBlocks, SameNumbers, SamePools
<1>. QED  BY <1>2, <1>3, <1>5, <1>6 DEF Pools

(* The objects lo to hi in a row.                                          *)
LEMMA IntervalChained ==
  ASSUME NEW lo \in Nat \ {0}, NEW hi \in Nat, lo <= hi, NEW nx,
         \A a \in lo .. hi : nx[a] = IF a < hi THEN a + 1 ELSE Nil
  PROVE  Chained(lo, nx, lo .. hi)
<1>. Nil = 0
  BY DEF Nil
<1>1. ASSUME NEW S \in SUBSET (lo .. hi), lo \in S, Leads(S, nx)  PROVE S = lo .. hi
  <2>. DEFINE T == {k \in Nat : lo + k <= hi => lo + k \in S}
  <2>1. 0 \in T
    BY <1>1
  <2>2. ASSUME NEW n \in Nat, n \in T  PROVE n + 1 \in T
    <3>. SUFFICES ASSUME lo + (n + 1) <= hi  PROVE lo + (n + 1) \in S
      OBVIOUS
    <3>1. PICK x : x = lo + n
      OBVIOUS
    <3>2. x \in S /\ x \in lo .. hi /\ x < hi /\ lo + (n + 1) = x + 1
      BY <2>2, <3>1
    <3>3. nx[x] = x + 1 /\ x + 1 # Nil
      BY <3>2
    <3>. QED  BY <1>1, <3>2, <3>3 DEF Leads
  <2>3. Nat \subseteq T
    <3>. HIDE DEF T
    <3>. QED  BY <2>1, <2>2, NatSetInduction
  <2>4. ASSUME NEW x \in lo .. hi  PROVE x \in S
    <3>1. x - lo \in Nat /\ lo + (x - lo) = x /\ x <= hi
      BY <2>4
    <3>. QED  BY <2>3, <3>1
  <2>. QED  BY <2>4
<1>. QED  BY <1>1 DEF Chained

(* More objects: none is used yet, all are in the list of unused ones.     *)
LEMMA MoreObjectsKeeps ==
  ASSUME NEW m, m \in Memory, Lists(m), m.usable = Nil, NEW r, r = MoreObjects(m)
  PROVE  /\ r \in Memory /\ Lists(r) /\ SameNumbers(m, r) /\ r.usable = Nil
<1>. DEFINE n == IF m.maxarenas = 0 THEN InitialArenaObjects ELSE 2 * m.maxarenas
<1>1. CASE m.unused # Nil \/ n > MaxArenaObjects
  <2>1. r = m
    BY <1>1 DEF MoreObjects
  <2>. QED  BY <2>1 DEF SameNumbers, SamePools, Relinked
<1>2. CASE m.unused = Nil /\ ~(n > MaxArenaObjects)
  <2>1. /\ m.maxarenas \in Nat /\ m.maxarenas <= MaxArenaObjects /\ n \in Nat /\ m.maxarenas < n
        /\ n <= MaxArenaObjects /\ MaxArenaObjects \in Nat
    BY <1>2, MemoryFields, PoolArenasAssumption
  <2>2. PICK A : A = [a \in Arena |-> IF a \in (m.maxarenas + 1) .. n
                        THEN [m.arenas[a] EXCEPT !.nextarena = IF a < n THEN a + 1 ELSE Nil]
                        ELSE m.arenas[a]]
    OBVIOUS
  <2>3. r = [m EXCEPT !.arenas = A, !.unused = m.maxarenas + 1, !.maxarenas = n]
    BY <1>2, <2>2 DEF MoreObjects
  <2>. HIDE DEF n
  <2>4. ASSUME NEW a \in Arena
        PROVE  /\ A[a] \in arena_object
               /\ Relinked(A[a], m.arenas[a], IF a \in (m.maxarenas + 1) .. n
                                              THEN IF a < n THEN a + 1 ELSE Nil
                                              ELSE m.arenas[a].nextarena, m.arenas[a].prevarena)
    <3>1. m.arenas[a] \in arena_object /\ a \in Nat /\ a >= 1
      BY ArenaTyped, PoolNumbers
    <3>2. (IF a < n THEN a + 1 ELSE Nil) \in Arena \cup {Nil}
      BY <2>1, <3>1 DEF Arena
    <3>3. PICK v \in Arena \cup {Nil} : v = IF a < n THEN a + 1 ELSE Nil
      BY <3>2
    <3>4. A[a] = IF a \in (m.maxarenas + 1) .. n THEN [m.arenas[a] EXCEPT !.nextarena = v] ELSE m.arenas[a]
      BY <2>2, <3>3
    <3>5. /\ A[a] \in arena_object
          /\ Relinked(A[a], m.arenas[a], IF a \in (m.maxarenas + 1) .. n THEN v ELSE m.arenas[a].nextarena,
                      m.arenas[a].prevarena)
      BY <3>1, <3>4 DEF arena_object, Relinked
    <3>. QED  BY <3>3, <3>5
  <2>5. A \in [Arena -> arena_object] /\ m.maxarenas + 1 \in Arena \cup {Nil} /\ n \in 0 .. MaxArenaObjects
    BY <2>1, <2>2, <2>4 DEF Arena
  <2>6. /\ r \in Memory /\ r.arenas = A /\ r.unused = m.maxarenas + 1 /\ r.maxarenas = n
        /\ r.usable = Nil /\ SamePools(m, r)
    BY <2>3, <2>5 DEF Memory, SamePools
  <2>7. SameNumbers(m, r)
    BY <2>4, <2>6 DEF SameNumbers, Relinked
  <2>8. Usables(m) = {} /\ Unuseds(m) = {}
    BY <1>2, ListsAre
  <2>9. Usables(r) = {}
    BY <2>7, <2>8 DEF Usables, SameNumbers, Relinked
  <2>10. Unuseds(r) = (m.maxarenas + 1) .. n
    <3>1. ASSUME NEW x \in Unuseds(r)  PROVE x \in (m.maxarenas + 1) .. n
      <4>1. x \in 1 .. n /\ ~ r.arenas[x].used /\ x \in Arena
        BY <2>1, <2>6 DEF Unuseds, Arena
      <4>2. ~ m.arenas[x].used
        BY <2>7, <4>1 DEF SameNumbers, Relinked
      <4>3. x \notin 1 .. m.maxarenas
        BY <2>8, <4>2 DEF Unuseds
      <4>. QED  BY <2>1, <4>1, <4>3
    <3>2. ASSUME NEW x \in (m.maxarenas + 1) .. n  PROVE x \in Unuseds(r)
      <4>1. x \in 1 .. n /\ x \in Arena /\ ~(x <= m.maxarenas)
        BY <2>1 DEF Arena
      <4>2. ~ m.arenas[x].used
        BY <4>1 DEF Lists
      <4>3. ~ r.arenas[x].used
        BY <2>7, <4>1, <4>2 DEF SameNumbers, Relinked
      <4>. QED  BY <2>6, <4>1, <4>3 DEF Unuseds
    <3>. QED  BY <3>1, <3>2
  <2>11. Chained(r.unused, Nexts(r), Unuseds(r))
    <3>1. \A a \in (m.maxarenas + 1) .. n : Nexts(r)[a] = IF a < n THEN a + 1 ELSE Nil
      <4>. SUFFICES ASSUME NEW a \in (m.maxarenas + 1) .. n
                    PROVE  Nexts(r)[a] = IF a < n THEN a + 1 ELSE Nil
        OBVIOUS
      <4>1. a \in Arena
        BY <2>1 DEF Arena
      <4>. QED  BY <2>4, <2>6, <4>1 DEF Nexts, Relinked
    <3>2. m.maxarenas + 1 \in Nat \ {0} /\ n \in Nat /\ m.maxarenas + 1 <= n
      BY <2>1
    <3>. QED  BY <2>6, <2>10, <3>1, <3>2, IntervalChained
  <2>12. Doubly(r.usable, Nexts(r), Prevs(r), Usables(r))
    BY <2>6, <2>9, EmptyChained DEF Doubly
  <2>13. \A a \in Arena : r.arenas[a].used => a <= r.maxarenas
    <3>. SUFFICES ASSUME NEW a \in Arena, r.arenas[a].used  PROVE a <= n
      BY <2>6
    <3>1. m.arenas[a].used /\ a \in Nat
      BY <2>7, PoolNumbers DEF SameNumbers, Relinked
    <3>2. a <= m.maxarenas
      BY <3>1 DEF Lists
    <3>. QED  BY <2>1, <3>1, <3>2
  <2>14. Ordered(r)
    BY <2>9 DEF Ordered
  <2>. QED  BY <2>6, <2>7, <2>11, <2>12, <2>13, <2>14, ListsFrom
<1>. QED  BY <1>1, <1>2

(* Every arena but the first usable one is in use; that one may be new.    *)
BusyBut(m, h) ==
    \A a \in Arena : m.arenas[a].used => \/ m.arenas[a].nfreepools < m.arenas[a].ntotalpools
                                         \/ a = h /\ m.arenas[a].nfreepools = m.arenas[a].ntotalpools

(* Object a gets an arena.                                                 *)
LEMMA WithArenaKeeps ==
  ASSUME NEW m, m \in Memory, Lists(m), m.usable = Nil, m.unused # Nil, Busy(m),
         NEW O, NEW I, NEW G, Pools(m, O, I, G),
         NEW a, a = m.unused, NEW n \in {PoolsPerArena, PoolsPerArena - 1},
         NEW r, r = WithArena(m, a, n, n)
  PROVE  /\ r \in Memory /\ Lists(r) /\ Pools(r, O, I, G) /\ r.usable = a
         /\ BusyBut(r, a) /\ r.nextpool = m.nextpool
<1>1. /\ a \in Unuseds(m) /\ a \in Arena /\ ~ m.arenas[a].used /\ a \in 1 .. m.maxarenas
      /\ Usables(m) = {} /\ Chained(a, Nexts(m), Unuseds(m)) /\ Unuseds(m) \in SUBSET Arena
      /\ Nexts(m)[a] = m.arenas[a].nextarena /\ m.arenas[a].nextarena \in Arena \cup {Nil}
      /\ Nil \notin Arena
  <2>1. /\ Chained(m.unused, Nexts(m), Unuseds(m)) /\ Unuseds(m) \in SUBSET Arena /\ Usables(m) = {}
        /\ m.unused \in Unuseds(m) /\ Nil \notin Arena
    BY ListsAre
  <2>2. a \in Arena /\ a \in Unuseds(m) /\ Chained(a, Nexts(m), Unuseds(m))
    BY <2>1
  <2>. QED  BY <2>1, <2>2, ArenaTyped DEF Unuseds
<1>2. /\ n \in Nat /\ n >= 2 /\ n <= PoolsPerArena /\ n >= PoolsPerArena - 1
      /\ FirstPool(a) \in Nat /\ FirstPool(a) >= 1
      /\ FirstPool(a) + PoolsPerArena <= MaxArenaObjects * PoolsPerArena + 1
      /\ PoolsPerArena \in Nat /\ MaxArenaObjects * PoolsPerArena \in Nat
  BY <1>1, PoolNumbers
<1>3. PICK o : o = [used |-> TRUE, pool_address |-> FirstPool(a), nfreepools |-> n, ntotalpools |-> n,
                    freepools |-> Nil, nextarena |-> Nil, prevarena |-> Nil]
  OBVIOUS
<1>4. o \in arena_object
  <2>1. FirstPool(a) \in 1 .. MaxArenaObjects * PoolsPerArena + 1 /\ n \in 0 .. PoolsPerArena
    BY <1>2
  <2>. QED  BY <1>3, <2>1 DEF arena_object
<1>5. r = [m EXCEPT !.unused = m.arenas[a].nextarena, !.usable = a, !.arenas[a] = o]
  BY <1>3 DEF WithArena
<1>6. /\ r \in Memory /\ r.unused = Nexts(m)[a] /\ r.usable = a /\ r.maxarenas = m.maxarenas
      /\ SamePools(m, r)
      /\ \A x \in Arena : r.arenas[x] = IF x = a THEN o ELSE m.arenas[x]
  <2>1. PICK A : A = [m.arenas EXCEPT ![a] = o]
    OBVIOUS
  <2>2. m.arenas \in [Arena -> arena_object]
    BY MemoryFields
  <2>3. A \in [Arena -> arena_object] /\ \A x \in Arena : A[x] = IF x = a THEN o ELSE m.arenas[x]
    BY <1>1, <1>4, <2>1, <2>2
  <2>4. PICK v \in Arena \cup {Nil} : v = m.arenas[a].nextarena
    BY <1>1
  <2>5. r = [m EXCEPT !.unused = v, !.usable = a, !.arenas = A]
    BY <1>5, <2>1, <2>4
  <2>6. /\ r \in Memory /\ r.unused = v /\ r.usable = a /\ r.maxarenas = m.maxarenas
        /\ SamePools(m, r) /\ r.arenas = A
    BY <1>1, <2>3, <2>4, <2>5 DEF Memory, SamePools
  <2>. QED  BY <1>1, <2>3, <2>4, <2>6
<1>7. /\ o.used /\ o.pool_address = FirstPool(a) /\ o.nfreepools = n /\ o.ntotalpools = n
      /\ o.freepools = Nil /\ o.nextarena = Nil /\ o.prevarena = Nil
  BY <1>3
<1>8. Usables(r) = {a}
  <2>1. \A x \in Arena \ {a} : x \notin Usables(r)
    BY <1>1, <1>6 DEF Usables
  <2>2. a \in Usables(r)
    BY <1>1, <1>2, <1>6, <1>7 DEF Usables
  <2>. QED  BY <2>1, <2>2 DEF Usables
<1>9. Unuseds(r) = Unuseds(m) \ {a}
  <2>1. \A x \in 1 .. m.maxarenas : x \in Arena
    BY MemoryFields
  <2>. QED  BY <1>6, <1>7, <2>1 DEF Unuseds
<1>10. Lists(r)
  <2>1. Nexts(r)[a] = Nil /\ Prevs(r)[a] = Nil /\ \A x \in Arena \ {a} : Nexts(r)[x] = Nexts(m)[x]
    BY <1>1, <1>6, <1>7 DEF Nexts, Prevs
  <2>2. Doubly(r.usable, Nexts(r), Prevs(r), Usables(r))
    BY <1>1, <1>6, <1>8, <2>1, DoublyOne
  <2>3. Ordered(r)
    BY <1>8, <2>1 DEF Ordered
  <2>4. Chained(r.unused, Nexts(r), Unuseds(r))
    <3>1. /\ Chained(a, Nexts(m), Unuseds(m)) /\ a # Nil
          /\ \A x \in Unuseds(m) : x # a => Nexts(r)[x] = Nexts(m)[x]
      BY <1>1, <2>1
    <3>2. Chained(Nexts(m)[a], Nexts(r), Unuseds(m) \ {a})
      BY ONLY <3>1, ChainedDropHead
    <3>. QED  BY <1>6, <1>9, <3>2
  <2>5. \A x \in Arena : r.arenas[x].used => x <= r.maxarenas
    BY <1>1, <1>6 DEF Lists
  <2>. QED  BY <2>2, <2>3, <2>4, <2>5, ListsFrom
<1>11. I \cap PoolsOf(a) = {} /\ G \cap PoolsOf(a) = {} /\ I \in SUBSET Pool /\ G \in SUBSET Pool
  BY <1>1, PoolsOfIs DEF Pools, Counts
<1>12. Counts(r, I, G)
  <2>1. \A p \in Pool : p \in I \cup G <=> /\ r.arenas[ArenaOf(p)].used
                                           /\ p < r.arenas[ArenaOf(p)].pool_address
    <3>. SUFFICES ASSUME NEW p \in Pool
                  PROVE  p \in I \cup G <=> /\ r.arenas[ArenaOf(p)].used
                                            /\ p < r.arenas[ArenaOf(p)].pool_address
      OBVIOUS
    <3>1. ArenaOf(p) \in Arena /\ FirstPool(ArenaOf(p)) <= p /\ p \in Nat
      BY PoolNumbers
    <3>2. CASE ArenaOf(p) = a
      <4>1. p \in PoolsOf(a)
        BY <1>1, <3>2, PoolsOfIs
      <4>. QED  BY <1>2, <1>6, <1>7, <1>11, <3>1, <3>2, <4>1
    <3>3. CASE ArenaOf(p) # a
      BY <1>6, <3>1, <3>3 DEF Pools, Counts
    <3>. QED  BY <3>2, <3>3
  <2>2. ASSUME NEW x \in Arena, r.arenas[x].used
        PROVE  /\ r.arenas[x].ntotalpools >= PoolsPerArena - 1
               /\ r.arenas[x].nfreepools = r.arenas[x].ntotalpools - Cardinality(I \cap PoolsOf(x))
               /\ FirstPool(x) <= r.arenas[x].pool_address
               /\ r.arenas[x].pool_address <= FirstPool(x) + r.arenas[x].ntotalpools
    <3>1. CASE x = a
      <4>1. Cardinality(I \cap PoolsOf(x)) = 0
        BY <1>11, <3>1, FS_EmptySet
      <4>. QED  BY <1>2, <1>6, <1>7, <2>2, <3>1, <4>1
    <3>2. CASE x # a
      BY <1>6, <2>2, <3>2 DEF Pools, Counts
    <3>. QED  BY <3>1, <3>2
  <2>. QED  BY <2>1, <2>2 DEF Pools, Counts
<1>13. Frees(r, G)
  <2>. SUFFICES ASSUME NEW x \in Arena, r.arenas[x].used
                PROVE  Chained(r.arenas[x].freepools, r.nextpool, G \cap PoolsOf(x))
    BY DEF Frees
  <2>1. CASE x = a
    BY <1>6, <1>7, <1>11, <2>1, EmptyChained
  <2>2. CASE x # a
    BY <1>6, <2>2 DEF Pools, Frees, SamePools
  <2>. QED  BY <2>1, <2>2
<1>14. Rings(r, Giving(r, I)) /\ PoolBlocks(r, O, I, G)
  <2>1. Giving(r, I) = Giving(m, I)
    BY <1>6 DEF Giving, SamePools
  <2>. QED  BY <1>6, <2>1 DEF Pools, Rings, OfClass, PoolBlocks, SamePools
<1>15. BusyBut(r, a)
  BY <1>6, <1>7 DEF Busy, BusyBut
<1>. QED  BY <1>6, <1>10, <1>12, <1>13, <1>14, <1>15 DEF Pools, SamePools

(* Nor does Busy.                                                          *)
LEMMA BusyFrame ==
  ASSUME NEW m, Busy(m), NEW r, SameNumbers(m, r)
  PROVE  Busy(r)
BY DEF Busy, SameNumbers, Relinked

(* Busy is the stronger of the two.                                        *)
LEMMA BusyIsBut ==
  ASSUME NEW m, Busy(m), NEW h  PROVE BusyBut(m, h)
BY DEF Busy, BusyBut

(* new_arena: there is a usable arena then, or none is to be had.          *)
LEMMA NewArenaKeeps ==
  ASSUME NEW m, m \in Memory, Lists(m), m.usable = Nil, Busy(m),
         NEW O, NEW I, NEW G, Pools(m, O, I, G), NEW sys,
         NEW r, r = new_arena(m, sys)
  PROVE  /\ r \in Memory /\ Lists(r) /\ Pools(r, O, I, G) /\ r.nextpool = m.nextpool
         /\ IF r.usable = Nil THEN Busy(r) ELSE BusyBut(r, r.usable)
<1>1. PICK m1 : m1 = MoreObjects(m)
  OBVIOUS
<1>2. m1 \in Memory /\ Lists(m1) /\ SameNumbers(m, m1) /\ m1.usable = Nil
  BY <1>1, MoreObjectsKeeps
<1>3. Pools(m1, O, I, G) /\ Busy(m1) /\ m1.nextpool = m.nextpool
  BY <1>2, PoolsFrame, BusyFrame DEF SameNumbers, SamePools
<1>4. r = IF m1.unused = Nil \/ sys = "fails" THEN m1
          ELSE WithArena(m1, m1.unused, AlignedPools(sys), AlignedPools(sys))
  BY <1>1 DEF new_arena
<1>5. CASE m1.unused = Nil \/ sys = "fails"
  BY <1>2, <1>3, <1>4, <1>5
<1>6. CASE ~(m1.unused = Nil \/ sys = "fails")
  <2>1. PICK a, n : a = m1.unused /\ n = AlignedPools(sys)
    OBVIOUS
  <2>2. n \in {PoolsPerArena, PoolsPerArena - 1}
    <3>1. PoolsPerArena - 0 = PoolsPerArena
      BY PoolNumbers
    <3>. QED  BY <2>1, <3>1 DEF AlignedPools
  <2>3. r = WithArena(m1, a, n, n) /\ m1.unused # Nil
    BY <1>4, <1>6, <2>1
  <2>4. r \in Memory /\ Lists(r) /\ Pools(r, O, I, G) /\ r.usable = a /\ BusyBut(r, a)
        /\ r.nextpool = m1.nextpool
    BY <1>2, <1>3, <2>1, <2>2, <2>3, WithArenaKeeps
  <2>. QED  BY <1>3, <1>6, <2>1, <2>4
<1>. QED  BY <1>5, <1>6

(* TakePool before it looks at the list of arenas.                         *)
Take(m, a, p) ==
    IF m.arenas[a].freepools # Nil
    THEN [m EXCEPT !.arenas[a].freepools = m.nextpool[p],
                   !.arenas[a].nfreepools = @ - 1]
    ELSE [m EXCEPT !.arenas[a].pool_address = @ + 1,
                   !.arenas[a].nfreepools = @ - 1,
                   !.pool[p].szidx = DUMMY_SIZE_IDX]

TakeIt(m) == Take(m, m.usable, NextFreePool(m))

TakePoolIs(m, m1, a, next) ==
    IF m1.arenas[a].nfreepools > 0 THEN m1
    ELSE IF next = Nil THEN [m1 EXCEPT !.usable = Nil]
    ELSE PutPrev(PutUsable(m1, next), next, Nil)

(* TakePool in parts.                                                      *)
LEMMA TakePoolParts ==
  ASSUME NEW m
  PROVE  TakePool(m) = TakePoolIs(m, TakeIt(m), m.usable, m.arenas[m.usable].nextarena)
BY DEF TakePool, TakeIt, Take, TakePoolIs, PutPrev, PutUsable

(* What Take changes of the arena and of the pool.                         *)
Taken(m, m1, a, p) ==
    /\ m1 \in Memory
    /\ m1.usable = m.usable /\ m1.unused = m.unused /\ m1.maxarenas = m.maxarenas
    /\ m1.nextpool = m.nextpool /\ m1.prevpool = m.prevpool
    /\ \A x \in Arena : x # a => m1.arenas[x] = m.arenas[x]
    /\ \A q \in Pool : q # p => m1.pool[q] = m.pool[q]
    /\ m1.arenas[a].used = m.arenas[a].used
    /\ m1.arenas[a].nextarena = m.arenas[a].nextarena
    /\ m1.arenas[a].prevarena = m.arenas[a].prevarena
    /\ m1.arenas[a].ntotalpools = m.arenas[a].ntotalpools
    /\ m1.arenas[a].nfreepools = m.arenas[a].nfreepools - 1
    /\ IF m.arenas[a].freepools # Nil
       THEN /\ m1.arenas[a].freepools = m.nextpool[p]
            /\ m1.arenas[a].pool_address = m.arenas[a].pool_address
            /\ m1.pool[p] = m.pool[p]
       ELSE /\ m1.arenas[a].freepools = Nil
            /\ m1.arenas[a].pool_address = p + 1
            /\ m1.pool[p].szidx = DUMMY_SIZE_IDX

(* What Take does.                                                         *)
LEMMA TakeIs ==
  ASSUME NEW m, m \in Memory, NEW a \in Arena, NEW p \in Pool, m.arenas[a].nfreepools > 0,
         m.arenas[a].freepools # Nil => m.nextpool[p] \in Pool \cup {Nil},
         m.arenas[a].freepools = Nil => p = m.arenas[a].pool_address,
         NEW r, r = Take(m, a, p)
  PROVE  Taken(m, r, a, p)
<1>1. PICK o : o = m.arenas[a]
  OBVIOUS
<1>2. /\ o \in arena_object /\ m.arenas \in [Arena -> arena_object] /\ m.pool \in [Pool -> pool_header]
      /\ o.nfreepools \in Nat /\ o.nfreepools > 0 /\ o.nfreepools - 1 \in 0 .. PoolsPerArena
  <2>1. o \in arena_object /\ o.nfreepools \in Nat /\ o.nfreepools > 0 /\ o.nfreepools <= PoolsPerArena
        /\ PoolsPerArena \in Nat
    BY <1>1, ArenaTyped, PoolNumbers
  <2>. QED  BY <2>1, MemoryFields
<1>3. CASE o.freepools # Nil
  <2>1. PICK v \in Pool \cup {Nil} : v = m.nextpool[p]
    BY <1>1, <1>3
  <2>2. PICK o2 : o2 = [o EXCEPT !.freepools = v, !.nfreepools = @ - 1]
    OBVIOUS
  <2>3. /\ o2 \in arena_object /\ o2.freepools = v /\ o2.nfreepools = o.nfreepools - 1 /\ o2.used = o.used
        /\ o2.nextarena = o.nextarena /\ o2.prevarena = o.prevarena /\ o2.ntotalpools = o.ntotalpools
        /\ o2.pool_address = o.pool_address
    BY <1>2, <2>2 DEF arena_object
  <2>4. PICK A : A = [m.arenas EXCEPT ![a] = o2]
    OBVIOUS
  <2>5. A \in [Arena -> arena_object] /\ A[a] = o2 /\ \A x \in Arena : x # a => A[x] = m.arenas[x]
    BY <1>2, <2>3, <2>4
  <2>6. r = [m EXCEPT !.arenas = A]
    BY <1>1, <1>2, <1>3, <2>1, <2>2, <2>4 DEF Take, Memory
  <2>7. /\ r \in Memory /\ r.arenas = A /\ r.pool = m.pool /\ r.nextpool = m.nextpool
        /\ r.prevpool = m.prevpool /\ r.usable = m.usable /\ r.unused = m.unused
        /\ r.maxarenas = m.maxarenas
    BY <2>5, <2>6 DEF Memory
  <2>. QED  BY <1>1, <1>3, <2>1, <2>3, <2>5, <2>7 DEF Taken
<1>4. CASE o.freepools = Nil
  <2>1. p = o.pool_address /\ p + 1 \in 1 .. MaxArenaObjects * PoolsPerArena + 1
    <3>1. p \in 1 .. MaxArenaObjects * PoolsPerArena /\ MaxArenaObjects * PoolsPerArena \in Nat
      BY PoolNumbers DEF Pool
    <3>. QED  BY <1>1, <1>4, <3>1
  <2>2. PICK o2 : o2 = [o EXCEPT !.pool_address = @ + 1, !.nfreepools = @ - 1]
    OBVIOUS
  <2>3. /\ o2 \in arena_object /\ o2.freepools = Nil /\ o2.nfreepools = o.nfreepools - 1 /\ o2.used = o.used
        /\ o2.nextarena = o.nextarena /\ o2.prevarena = o.prevarena /\ o2.ntotalpools = o.ntotalpools
        /\ o2.pool_address = p + 1
    BY <1>2, <1>4, <2>1, <2>2 DEF arena_object
  <2>4. PICK A : A = [m.arenas EXCEPT ![a] = o2]
    OBVIOUS
  <2>5. A \in [Arena -> arena_object] /\ A[a] = o2 /\ \A x \in Arena : x # a => A[x] = m.arenas[x]
    BY <1>2, <2>3, <2>4
  <2>6. PICK h, Q : h = [m.pool[p] EXCEPT !.szidx = DUMMY_SIZE_IDX] /\ Q = [m.pool EXCEPT ![p] = h]
    OBVIOUS
  <2>7. h \in pool_header /\ h.szidx = DUMMY_SIZE_IDX
    <3>1. DUMMY_SIZE_IDX \in 1 .. DUMMY_SIZE_IDX
      BY PoolArenasAssumption DEF DUMMY_SIZE_IDX
    <3>2. m.pool[p] \in pool_header
      BY <1>2
    <3>. QED  BY <2>6, <3>1, <3>2 DEF pool_header
  <2>8. Q \in [Pool -> pool_header] /\ Q[p] = h /\ \A q \in Pool : q # p => Q[q] = m.pool[q]
    BY <1>2, <2>6, <2>7
  <2>9. r = [m EXCEPT !.arenas = A, !.pool = Q]
    BY <1>1, <1>2, <1>4, <2>2, <2>4, <2>6 DEF Take, Memory
  <2>10. /\ r \in Memory /\ r.arenas = A /\ r.pool = Q /\ r.nextpool = m.nextpool
         /\ r.prevpool = m.prevpool /\ r.usable = m.usable /\ r.unused = m.unused
         /\ r.maxarenas = m.maxarenas
    BY <2>5, <2>8, <2>9 DEF Memory
  <2>. QED  BY <1>1, <1>4, <2>3, <2>5, <2>7, <2>8, <2>10 DEF Taken
<1>. QED  BY <1>3, <1>4

(* Which pool it is.                                                       *)
NextPool(m, I, G, a, p) ==
    /\ a \in Usables(m) /\ a \in Arena /\ m.arenas[a].used /\ m.arenas[a].nfreepools > 0
    /\ p \in PoolsOf(a) /\ p \in Pool /\ p \notin I /\ ArenaOf(p) = a
    /\ IF m.arenas[a].freepools # Nil
       THEN /\ p = m.arenas[a].freepools /\ p \in G
            /\ m.nextpool[p] \in Pool \cup {Nil}
            /\ Chained(p, m.nextpool, G \cap PoolsOf(a))
       ELSE /\ p = m.arenas[a].pool_address /\ p \notin G /\ G \cap PoolsOf(a) = {}
            /\ p < FirstPool(a) + m.arenas[a].ntotalpools

(* The pool that is taken: the first free one, or the next never used.     *)
LEMMA NextFreePoolIs ==
  ASSUME NEW m, m \in Memory, Lists(m), m.usable # Nil,
         NEW I, NEW G, Counts(m, I, G), Frees(m, G),
         NEW a, a = m.usable, NEW p, p = NextFreePool(m)
  PROVE  NextPool(m, I, G, a, p)
<1>1. /\ a \in Usables(m) /\ a \in Arena /\ m.arenas[a].used /\ m.arenas[a].nfreepools > 0
  <2>1. a \in Usables(m) /\ Usables(m) \in SUBSET Arena
    BY ListsAre
  <2>. QED  BY <2>1 DEF Usables
<1>2. PICK fp : fp = m.arenas[a].freepools
  OBVIOUS
<1>3. Chained(fp, m.nextpool, G \cap PoolsOf(a)) /\ PoolsOf(a) \subseteq Pool /\ I \in SUBSET Pool /\ I \cap G = {}
  BY <1>1, <1>2, PoolsOfIs DEF Frees, Counts
<1>4. CASE fp # Nil
  <2>1. p = fp
    BY <1>2, <1>4 DEF NextFreePool
  <2>2. p \in G \cap PoolsOf(a) /\ m.nextpool[p] \in (G \cap PoolsOf(a)) \cup {Nil}
    BY <1>3, <1>4, <2>1 DEF Chained
  <2>. QED  BY <1>1, <1>2, <1>3, <1>4, <2>1, <2>2, PoolsOfIs DEF NextPool
<1>5. CASE fp = Nil
  <2>1. p = m.arenas[a].pool_address
    BY <1>2, <1>5 DEF NextFreePool
  <2>2. G \cap PoolsOf(a) = {}
    BY <1>3, <1>5 DEF Chained
  <2>3. /\ p \in Nat /\ m.arenas[a].ntotalpools \in Nat /\ m.arenas[a].ntotalpools <= PoolsPerArena
        /\ m.arenas[a].nfreepools \in Nat /\ PoolsPerArena \in Nat /\ FirstPool(a) \in Nat
        /\ FirstPool(a) <= p
        /\ m.arenas[a].nfreepools = m.arenas[a].ntotalpools - Cardinality(I \cap PoolsOf(a))
    <3>1. p \in Nat /\ m.arenas[a].ntotalpools \in Nat /\ m.arenas[a].ntotalpools <= PoolsPerArena
          /\ m.arenas[a].nfreepools \in Nat
      BY <1>1, <2>1, ArenaTyped
    <3>2. PoolsPerArena \in Nat /\ FirstPool(a) \in Nat
      BY <1>1, PoolNumbers
    <3>. QED  BY <1>1, <2>1, <3>1, <3>2 DEF Counts
  <2>4. Parted(Carved(m, a), I \cap PoolsOf(a), G \cap PoolsOf(a), p - FirstPool(a))
    BY <1>1, <2>1, CarvedIs
  <2>5. Cardinality(I \cap PoolsOf(a)) = p - FirstPool(a)
    BY <2>2, <2>3, <2>4, FS_EmptySet DEF Parted
  <2>6. p < FirstPool(a) + m.arenas[a].ntotalpools
    BY <1>1, <2>3, <2>5
  <2>7. p \in Int /\ p < FirstPool(a) + PoolsPerArena
    BY <2>3, <2>6
  <2>8. p \in Pool /\ ArenaOf(p) = a
    BY <1>1, <2>3, <2>7, PoolNumbers
  <2>9. p \in PoolsOf(a)
    BY <1>1, <2>8, PoolsOfIs
  <2>10. p \notin I \cup G
    BY <2>1, <2>3, <2>8 DEF Counts
  <2>. QED  BY <1>1, <1>2, <1>5, <2>1, <2>2, <2>6, <2>8, <2>9, <2>10 DEF NextPool
<1>. QED  BY <1>4, <1>5

(* The lists when the first usable arena has one free pool less.           *)
LEMMA TakeLists ==
  ASSUME NEW m, m \in Memory, Lists(m), NEW a \in Usables(m), a = m.usable,
         NEW p, NEW m1, Taken(m, m1, a, p),
         NEW r, r = TakePoolIs(m, m1, a, m.arenas[a].nextarena)
  PROVE  Lists(r) /\ OnlyLinks(m1, r)
<1>1. /\ Doubly(a, Nexts(m), Prevs(m), Usables(m)) /\ Usables(m) \in SUBSET Arena
      /\ Chained(m.unused, Nexts(m), Unuseds(m)) /\ Unuseds(m) \in SUBSET Arena
      /\ Usables(m) \cap Unuseds(m) = {}
      /\ \A x \in Usables(m) : Nexts(m)[x] \in Usables(m) \cup {Nil}
      /\ Nil \notin Arena /\ a # Nil /\ a \in Arena
  BY ListsAre
<1>2. PICK next : next = m.arenas[a].nextarena
  OBVIOUS
<1>3. next = Nexts(m)[a] /\ next \in Usables(m) \cup {Nil} /\ Prevs(m)[a] = Nil /\ next # a
  BY <1>1, <1>2, ArenaTyped, NotSelf DEF Doubly
<1>4. m1 \in Memory /\ m1.usable = a /\ m1.unused = m.unused /\ m1.maxarenas = m.maxarenas
  BY DEF Taken
<1>5. \A x \in Arena : /\ m1.arenas[x].used = m.arenas[x].used
                       /\ m1.arenas[x].nextarena = m.arenas[x].nextarena
                       /\ m1.arenas[x].prevarena = m.arenas[x].prevarena
                       /\ x # a => m1.arenas[x].nfreepools = m.arenas[x].nfreepools
  BY DEF Taken
<1>6. Nexts(m1) = Nexts(m) /\ Prevs(m1) = Prevs(m)
  BY <1>5 DEF Nexts, Prevs
<1>7. PICK n0, n1 \in Nat : n0 = m.arenas[a].nfreepools /\ n1 = m1.arenas[a].nfreepools /\ n1 = n0 - 1
  BY <1>1, <1>4, ArenaTyped DEF Taken
<1>8. Unuseds(m1) = Unuseds(m) /\ \A x \in Arena : m1.arenas[x].used => x <= m1.maxarenas
  <2>1. \A x \in 1 .. m.maxarenas : x \in Arena
    BY MemoryFields
  <2>. QED  BY <1>4, <1>5, <2>1 DEF Unuseds, Lists
<1>9. \A x \in Usables(m) : Nexts(m)[x] # Nil =>
         Nexts(m)[x] # a /\ m.arenas[x].nfreepools <= m.arenas[Nexts(m)[x]].nfreepools
  BY <1>1 DEF Lists, Doubly, Chained
<1>10. CASE n1 > 0
  <2>1. r = m1
    BY <1>7, <1>10 DEF TakePoolIs
  <2>2. Usables(m1) = Usables(m)
    BY <1>5, <1>7, <1>10 DEF Usables
  <2>3. Ordered(m1)
    <3>. SUFFICES ASSUME NEW x \in Usables(m), Nexts(m)[x] # Nil
                  PROVE  m1.arenas[x].nfreepools <= m1.arenas[Nexts(m)[x]].nfreepools
      BY <1>6, <2>2 DEF Ordered
    <3>1. PICK y : y = Nexts(m)[x]
      OBVIOUS
    <3>2. y \in Arena /\ y # a /\ x \in Arena /\ m.arenas[x].nfreepools <= m.arenas[y].nfreepools
          /\ m1.arenas[y].nfreepools = m.arenas[y].nfreepools /\ m.arenas[y].nfreepools \in Nat
      BY <1>1, <1>5, <1>9, <3>1, ArenaTyped
    <3>3. m1.arenas[x].nfreepools <= m.arenas[x].nfreepools /\ m1.arenas[x].nfreepools \in Nat
          /\ m.arenas[x].nfreepools \in Nat
      <4>1. m1.arenas[x].nfreepools \in Nat /\ m.arenas[x].nfreepools \in Nat
        BY <1>4, <3>2, ArenaTyped
      <4>2. CASE x = a
        <5>1. n0 \in Nat /\ n1 \in Nat /\ n1 = n0 - 1
          BY <1>7
        <5>2. n1 <= n0
          BY ONLY <5>1
        <5>3. m1.arenas[x].nfreepools = n1 /\ m.arenas[x].nfreepools = n0
          BY ONLY <1>7, <4>2
        <5>. QED  BY <4>1, <5>2, <5>3
      <4>3. CASE x # a
        BY <1>5, <3>2, <4>1, <4>3
      <4>. QED  BY <4>1, <4>2, <4>3
    <3>. QED  BY <3>1, <3>2, <3>3
  <2>4. Lists(m1)
    BY <1>1, <1>4, <1>6, <1>8, <2>2, <2>3, ListsFrom
  <2>5. OnlyLinks(m1, m1)
    BY <1>4 DEF OnlyLinks, KeepsRest, SamePools, Relinked
  <2>. QED  BY <2>1, <2>4, <2>5
<1>11. CASE n1 = 0
  <2>1. r = IF next = Nil THEN [m1 EXCEPT !.usable = Nil] ELSE PutPrev(PutUsable(m1, next), next, Nil)
    BY <1>2, <1>7, <1>11 DEF TakePoolIs
  <2>2. next \in Arena \cup {Nil} /\ Nil \in Arena \cup {Nil}
    BY <1>1, <1>3
  <2>3. /\ OnlyLinks(m1, r) /\ r.usable = next
        /\ \A x \in Arena : /\ r.arenas[x].nextarena = m1.arenas[x].nextarena
                            /\ x # next => r.arenas[x].prevarena = m1.arenas[x].prevarena
        /\ next # Nil => r.arenas[next].prevarena = Nil
    <3>1. PICK m2 : m2 = PutUsable(m1, next)
      OBVIOUS
    <3>2. /\ KeepsRest(m1, m2) /\ m2.usable = next /\ m2.unused = m1.unused /\ m2.arenas = m1.arenas
      BY <1>4, <2>2, <3>1, SetUsable
    <3>3. CASE next = Nil
      <4>1. r = m2
        BY <2>1, <3>1, <3>3 DEF PutUsable
      <4>. QED  BY <1>1, <3>2, <3>3, <4>1 DEF OnlyLinks, Relinked
    <3>4. CASE next # Nil
      <4>1. next \in Arena /\ m2 \in Memory /\ Nil \in Arena \cup {Nil} /\ r = PutPrev(m2, next, Nil)
        BY <2>1, <2>2, <3>1, <3>2, <3>4 DEF KeepsRest
      <4>2. /\ KeepsRest(m2, r) /\ r.usable = m2.usable /\ r.unused = m2.unused
            /\ \A y \in Arena : IF y = next THEN Relinked(r.arenas[y], m2.arenas[y], m2.arenas[y].nextarena, Nil)
                                ELSE r.arenas[y] = m2.arenas[y]
        BY ONLY <4>1, SetPrev
      <4>. QED  BY <3>2, <4>1, <4>2 DEF OnlyLinks, KeepsRest, SamePools, Relinked
    <3>. QED  BY <3>3, <3>4
  <2>4. r \in Memory /\ r.unused = m.unused /\ r.maxarenas = m.maxarenas
    BY <1>4, <2>3 DEF OnlyLinks, KeepsRest
  <2>5. Usables(r) = Usables(m1) /\ Unuseds(r) = Unuseds(m1)
        /\ \A x \in Arena : /\ r.arenas[x].nfreepools = m1.arenas[x].nfreepools
                            /\ r.arenas[x].used = m1.arenas[x].used
    BY <1>4, <2>3, OnlyLinksAre
  <2>6. Usables(m1) = Usables(m) \ {a}
    <3>1. a \notin Usables(m1)
      <4>1. ~ (m1.arenas[a].nfreepools > 0)
        BY <1>7, <1>11
      <4>. QED  BY <4>1 DEF Usables
    <3>2. \A x \in Arena \ {a} : x \in Usables(m1) <=> x \in Usables(m)
      BY <1>5 DEF Usables
    <3>. QED  BY <3>1, <3>2 DEF Usables
  <2>7. Nexts(r) = Nexts(m) /\ \A x \in Arena : Prevs(r)[x] = IF x = next THEN Nil ELSE Prevs(m)[x]
    <3>1. \A x \in Arena : /\ r.arenas[x].nextarena = m.arenas[x].nextarena
                           /\ r.arenas[x].prevarena = IF x = next THEN Nil ELSE m.arenas[x].prevarena
      BY <1>1, <1>5, <2>3
    <3>2. Nexts(r) = Nexts(m)
      BY <3>1 DEF Nexts
    <3>3. \A x \in Arena : Prevs(r)[x] = IF x = next THEN Nil ELSE Prevs(m)[x]
      BY <3>1 DEF Prevs
    <3>. QED  BY <3>2, <3>3
  <2>8. Doubly(r.usable, Nexts(r), Prevs(r), Usables(r))
    <3>1. next = Past(a, Nexts(m), Prevs(m), a) /\ Bypasses(Usables(m), Nexts(m), Prevs(m), a, Nexts(r), Prevs(r))
      BY <1>1, <1>3, <2>7 DEF Past, Bypasses
    <3>2. Doubly(a, Nexts(m), Prevs(m), Usables(m)) /\ a \in Usables(m)
      BY <1>1
    <3>3. Doubly(next, Nexts(r), Prevs(r), Usables(m) \ {a})
      BY ONLY <3>1, <3>2, DoublyDrop
    <3>. QED  BY <2>3, <2>5, <2>6, <3>3
  <2>9. Ordered(r)
    <3>. SUFFICES ASSUME NEW x \in Usables(m), x # a, Nexts(m)[x] # Nil
                  PROVE  r.arenas[x].nfreepools <= r.arenas[Nexts(m)[x]].nfreepools
      BY <2>5, <2>6, <2>7 DEF Ordered
    <3>1. Nexts(m)[x] \in Arena /\ Nexts(m)[x] # a /\ x \in Arena
          /\ m.arenas[x].nfreepools <= m.arenas[Nexts(m)[x]].nfreepools
      BY <1>1, <1>9
    <3>. QED  BY <1>5, <2>5, <3>1
  <2>10. Chained(r.unused, Nexts(r), Unuseds(r))
    BY <1>1, <1>8, <2>4, <2>5, <2>7
  <2>11. \A x \in Arena : r.arenas[x].used => x <= r.maxarenas
    BY <1>4, <1>8, <2>4, <2>5
  <2>. QED  BY <2>3, <2>8, <2>9, <2>10, <2>11, ListsFrom
<1>. QED  BY <1>7, <1>10, <1>11

(* Pool p is neither in use nor free: init_pool may have it.               *)
Ready(m, O, I, G, p) ==
    /\ m \in Memory /\ Lists(m) /\ Busy(m)
    /\ p \in Pool /\ p \notin I /\ p \notin G
    /\ Counts(m, I \cup {p}, G) /\ Frees(m, G) /\ Rings(m, Giving(m, I)) /\ PoolBlocks(m, O, I, G)
    /\ GoodPool(m.pool[p], {}) \/ m.pool[p].szidx = DUMMY_SIZE_IDX

(* A pool is taken from the first usable arena, which is not free as a     *)
(* whole then.                                                             *)
LEMMA TakePoolKeeps ==
  ASSUME NEW m, m \in Memory, Lists(m), m.usable # Nil, BusyBut(m, m.usable),
         NEW O, NEW I, NEW G, Pools(m, O, I, G),
         NEW p, p = NextFreePool(m), NEW r, r = TakePool(m)
  PROVE  /\ Ready(r, O, I, G \ {p}, p) /\ r.nextpool = m.nextpool
         /\ \A x \in Arena : r.arenas[x].used = m.arenas[x].used
<1>1. PICK a : a = m.usable
  OBVIOUS
<1>2. PICK m1 : m1 = Take(m, a, p)
  OBVIOUS
<1>3. /\ a \in Usables(m) /\ a \in Arena /\ m.arenas[a].used /\ m.arenas[a].nfreepools > 0
      /\ p \in PoolsOf(a) /\ p \in Pool /\ p \notin I /\ ArenaOf(p) = a
      /\ IF m.arenas[a].freepools # Nil
         THEN /\ p = m.arenas[a].freepools /\ p \in G
              /\ m.nextpool[p] \in Pool \cup {Nil}
              /\ Chained(p, m.nextpool, G \cap PoolsOf(a))
         ELSE /\ p = m.arenas[a].pool_address /\ p \notin G /\ G \cap PoolsOf(a) = {}
              /\ p < FirstPool(a) + m.arenas[a].ntotalpools
  <2>1. Counts(m, I, G) /\ Frees(m, G)
    BY DEF Pools
  <2>2. NextPool(m, I, G, a, p)
    BY <1>1, <2>1, NextFreePoolIs
  <2>. QED  BY <2>2 DEF NextPool
<1>4. Taken(m, m1, a, p)
  <2>1. /\ m.arenas[a].freepools # Nil => m.nextpool[p] \in Pool \cup {Nil}
        /\ m.arenas[a].freepools = Nil => p = m.arenas[a].pool_address
    BY <1>3
  <2>. QED  BY <1>2, <1>3, <2>1, TakeIs
<1>5. Lists(r) /\ OnlyLinks(m1, r)
  <2>1. r = TakePoolIs(m, m1, a, m.arenas[a].nextarena)
    BY <1>1, <1>2, TakePoolParts DEF TakeIt
  <2>. QED  BY <1>1, <1>3, <1>4, <2>1, TakeLists
<1>6. SameNumbers(m1, r) /\ r \in Memory
  BY <1>5 DEF SameNumbers, OnlyLinks, KeepsRest
<1>7. /\ r.pool = m1.pool /\ r.nextpool = m.nextpool /\ r.prevpool = m.prevpool
      /\ \A x \in Arena : /\ r.arenas[x].used = m1.arenas[x].used
                          /\ r.arenas[x].pool_address = m1.arenas[x].pool_address
                          /\ r.arenas[x].nfreepools = m1.arenas[x].nfreepools
                          /\ r.arenas[x].ntotalpools = m1.arenas[x].ntotalpools
                          /\ r.arenas[x].freepools = m1.arenas[x].freepools
  BY <1>4, <1>6 DEF Taken, SameNumbers, SamePools, Relinked
<1>8. /\ \A x \in Arena \ {a} : /\ r.arenas[x].used = m.arenas[x].used
                                /\ r.arenas[x].pool_address = m.arenas[x].pool_address
                                /\ r.arenas[x].nfreepools = m.arenas[x].nfreepools
                                /\ r.arenas[x].ntotalpools = m.arenas[x].ntotalpools
                                /\ r.arenas[x].freepools = m.arenas[x].freepools
      /\ r.arenas[a].used
      /\ r.arenas[a].nfreepools = m.arenas[a].nfreepools - 1
      /\ r.arenas[a].ntotalpools = m.arenas[a].ntotalpools
      /\ IF m.arenas[a].freepools # Nil
         THEN /\ r.arenas[a].freepools = m.nextpool[p]
              /\ r.arenas[a].pool_address = m.arenas[a].pool_address
              /\ r.pool[p] = m.pool[p]
         ELSE /\ r.arenas[a].freepools = Nil
              /\ r.arenas[a].pool_address = p + 1
              /\ r.pool[p].szidx = DUMMY_SIZE_IDX
      /\ \A q \in Pool : q # p => r.pool[q] = m.pool[q]
  <2>1. ASSUME NEW x \in Arena \ {a}
        PROVE  /\ r.arenas[x].used = m.arenas[x].used
               /\ r.arenas[x].pool_address = m.arenas[x].pool_address
               /\ r.arenas[x].nfreepools = m.arenas[x].nfreepools
               /\ r.arenas[x].ntotalpools = m.arenas[x].ntotalpools
               /\ r.arenas[x].freepools = m.arenas[x].freepools
    <3>1. m1.arenas[x] = m.arenas[x]
      BY <1>4 DEF Taken
    <3>. QED  BY <1>7, <3>1
  <2>2. /\ r.arenas[a].used
        /\ r.arenas[a].nfreepools = m.arenas[a].nfreepools - 1
        /\ r.arenas[a].ntotalpools = m.arenas[a].ntotalpools
    BY <1>3, <1>4, <1>7 DEF Taken
  <2>3. CASE m.arenas[a].freepools # Nil
    BY <1>3, <1>4, <1>7, <2>1, <2>2, <2>3 DEF Taken
  <2>4. CASE m.arenas[a].freepools = Nil
    BY <1>3, <1>4, <1>7, <2>1, <2>2, <2>4 DEF Taken
  <2>. QED  BY <2>3, <2>4
<1>9. /\ I \in SUBSET Pool /\ G \in SUBSET Pool /\ I \cap G = {}
      /\ \A q \in Pool : q \in I \cup G <=> /\ m.arenas[ArenaOf(q)].used
                                            /\ q < m.arenas[ArenaOf(q)].pool_address
  BY DEF Pools, Counts
<1>10. \A x \in Arena : p \in PoolsOf(x) => x = a
  BY <1>3, PoolsOfIs
<1>11. PICK J, F : J = I \cup {p} /\ F = G \ {p}
  OBVIOUS
<1>12. Counts(r, J, F)
  <2>1. J \in SUBSET Pool /\ F \in SUBSET Pool /\ J \cap F = {}
    BY <1>3, <1>9, <1>11
  <2>2. ASSUME NEW q \in Pool
        PROVE  q \in J \cup F <=> /\ r.arenas[ArenaOf(q)].used
                                  /\ q < r.arenas[ArenaOf(q)].pool_address
    <3>1. ArenaOf(q) \in Arena /\ q \in Nat /\ p \in Nat
      BY <1>3, PoolNumbers
    <3>2. CASE ArenaOf(q) # a
      <4>1. q # p
        BY <1>3, <3>2
      <4>2. q \in J \cup F <=> q \in I \cup G
        BY <1>11, <4>1
      <4>. QED  BY <1>8, <1>9, <3>1, <3>2, <4>2
    <3>3. CASE ArenaOf(q) = a
      <4>1. CASE m.arenas[a].freepools # Nil
        <5>1. q \in J \cup F <=> q \in I \cup G
          BY <1>3, <1>11, <4>1
        <5>. QED  BY <1>3, <1>8, <1>9, <3>1, <3>3, <4>1, <5>1
      <4>2. CASE m.arenas[a].freepools = Nil
        <5>1. q \in J \cup F <=> q \in I \cup G \/ q = p
          BY <1>3, <1>11, <4>2
        <5>2. q \in I \cup G <=> q < p
          BY <1>3, <1>9, <3>3, <4>2
        <5>3. r.arenas[a].used /\ r.arenas[a].pool_address = p + 1
          BY <1>8, <4>2
        <5>4. q < p \/ q = p <=> q < p + 1
          BY <3>1
        <5>. QED  BY <3>3, <5>1, <5>2, <5>3, <5>4
      <4>. QED  BY <4>1, <4>2
    <3>. QED  BY <3>2, <3>3
  <2>3. ASSUME NEW x \in Arena, r.arenas[x].used
        PROVE  /\ r.arenas[x].ntotalpools >= PoolsPerArena - 1
               /\ r.arenas[x].nfreepools = r.arenas[x].ntotalpools - Cardinality(J \cap PoolsOf(x))
               /\ FirstPool(x) <= r.arenas[x].pool_address
               /\ r.arenas[x].pool_address <= FirstPool(x) + r.arenas[x].ntotalpools
    <3>1. CASE x # a
      <4>1. J \cap PoolsOf(x) = I \cap PoolsOf(x)
        BY <1>10, <1>11, <3>1
      <4>. QED  BY <1>8, <2>3, <3>1, <4>1 DEF Pools, Counts
    <3>2. CASE x = a
      <4>1. /\ m.arenas[a].ntotalpools >= PoolsPerArena - 1
            /\ m.arenas[a].nfreepools = m.arenas[a].ntotalpools - Cardinality(I \cap PoolsOf(a))
            /\ FirstPool(a) <= m.arenas[a].pool_address
            /\ m.arenas[a].pool_address <= FirstPool(a) + m.arenas[a].ntotalpools
        BY <1>3 DEF Pools, Counts
      <4>2. J \cap PoolsOf(a) = (I \cap PoolsOf(a)) \cup {p} /\ p \notin I \cap PoolsOf(a)
            /\ IsFiniteSet(I \cap PoolsOf(a))
        BY <1>3, <1>11, PoolsOfIs, FS_Subset
      <4>3. PICK n, n2 : n = Cardinality(I \cap PoolsOf(a)) /\ n2 = Cardinality(J \cap PoolsOf(a))
        OBVIOUS
      <4>4. n \in Nat /\ n2 = n + 1
        BY <4>2, <4>3, FS_AddElement, FS_CardinalityType
      <4>5. PICK nt, nf, pa, fp : /\ nt = m.arenas[a].ntotalpools /\ nf = m.arenas[a].nfreepools
                                  /\ pa = m.arenas[a].pool_address /\ fp = FirstPool(a)
        OBVIOUS
      <4>6. nt \in Nat /\ nf \in Nat /\ pa \in Nat /\ fp \in Nat /\ p \in Nat /\ nf = nt - n /\ fp <= p
        BY <1>3, <4>1, <4>3, <4>5, ArenaTyped, PoolNumbers
      <4>7. r.arenas[a].ntotalpools = nt /\ r.arenas[a].nfreepools = nf - 1
            /\ r.arenas[a].pool_address = IF m.arenas[a].freepools # Nil THEN pa ELSE p + 1
        BY <1>8, <4>5
      <4>8. fp <= pa /\ pa <= fp + nt /\ (m.arenas[a].freepools = Nil => p < fp + nt)
        BY <1>3, <4>1, <4>5
      <4>9. nf - 1 = nt - n2
        BY <4>4, <4>6
      <4>10. p + 1 <= fp + nt \/ m.arenas[a].freepools # Nil
        BY <4>6, <4>8
      <4>. QED  BY <3>2, <4>1, <4>3, <4>5, <4>6, <4>7, <4>8, <4>9, <4>10
    <3>. QED  BY <3>1, <3>2
  <2>. QED  BY <2>1, <2>2, <2>3 DEF Counts
<1>13. Frees(r, F)
  <2>. SUFFICES ASSUME NEW x \in Arena, r.arenas[x].used
                PROVE  Chained(r.arenas[x].freepools, m.nextpool, F \cap PoolsOf(x))
    BY <1>7 DEF Frees
  <2>1. CASE x # a
    <3>1. F \cap PoolsOf(x) = G \cap PoolsOf(x)
      BY <1>10, <1>11, <2>1
    <3>. QED  BY <1>8, <2>1, <3>1 DEF Pools, Frees
  <2>2. CASE x = a /\ m.arenas[a].freepools # Nil
    <3>1. p # Nil
      BY <1>3, PoolNumbers
    <3>2. Chained(m.nextpool[p], m.nextpool, (G \cap PoolsOf(a)) \ {p})
      BY <1>3, <2>2, <3>1, ChainedDropHead
    <3>3. (G \cap PoolsOf(a)) \ {p} = F \cap PoolsOf(a)
      BY <1>11
    <3>. QED  BY <1>8, <2>2, <3>2, <3>3
  <2>3. CASE x = a /\ m.arenas[a].freepools = Nil
    <3>1. F \cap PoolsOf(a) = {}
      BY <1>3, <1>11, <2>3
    <3>. QED  BY <1>8, <2>3, <3>1, EmptyChained
  <2>. QED  BY <2>1, <2>2, <2>3
<1>14. Giving(r, I) = Giving(m, I) /\ \A q \in I : r.pool[q] = m.pool[q]
  BY <1>3, <1>8, <1>9 DEF Giving
<1>15. Rings(r, Giving(r, I))
  <2>1. Giving(m, I) \subseteq I
    BY DEF Giving
  <2>2. \A c \in SizeClass : OfClass(r, Giving(m, I), c) = OfClass(m, Giving(m, I), c)
    BY <1>14, <2>1 DEF OfClass
  <2>. QED  BY <1>7, <1>14, <2>1, <2>2 DEF Pools, Rings
<1>16. PoolBlocks(r, O, I, F)
  <2>1. \A q \in I \cup F : r.pool[q] = m.pool[q]
    BY <1>3, <1>8, <1>9, <1>11
  <2>. QED  BY <1>11, <2>1 DEF Pools, PoolBlocks
<1>17. GoodPool(r.pool[p], {}) \/ r.pool[p].szidx = DUMMY_SIZE_IDX
  <2>1. CASE m.arenas[a].freepools # Nil
    <3>1. p \in G /\ r.pool[p] = m.pool[p]
      BY <1>3, <1>8, <2>1
    <3>2. HeldOf(O, p) = {}
      BY <1>3 DEF Pools, PoolBlocks, HeldOf
    <3>. QED  BY <3>1, <3>2 DEF Pools, PoolBlocks
  <2>2. CASE m.arenas[a].freepools = Nil
    BY <1>8, <2>2
  <2>. QED  BY <2>1, <2>2
<1>18. Busy(r)
  <2>. SUFFICES ASSUME NEW x \in Arena, r.arenas[x].used
                PROVE  r.arenas[x].nfreepools < r.arenas[x].ntotalpools
    BY DEF Busy
  <2>1. CASE x # a
    <3>1. m.arenas[x].used
      BY <1>8, <2>1
    <3>. QED  BY <1>1, <1>8, <2>1, <3>1 DEF BusyBut
  <2>2. CASE x = a
    <3>1. m.arenas[a].nfreepools \in Nat /\ m.arenas[a].ntotalpools \in Nat
          /\ m.arenas[a].nfreepools <= m.arenas[a].ntotalpools
      BY <1>1, <1>3, ArenaTyped DEF BusyBut
    <3>2. m.arenas[a].nfreepools - 1 < m.arenas[a].ntotalpools
      BY <3>1
    <3>. QED  BY <1>8, <2>2, <3>2
  <2>. QED  BY <2>1, <2>2
<1>. QED
  <2>1. \A x \in Arena : r.arenas[x].used = m.arenas[x].used
    BY <1>4, <1>7 DEF Taken
  <2>. QED
    BY <1>3, <1>5, <1>6, <1>7, <1>11, <1>12, <1>13, <1>15, <1>16, <1>17, <1>18, <2>1 DEF Ready

(* Only the header of pool p and links between pools are not the same.     *)
Edited(m, r, p) ==
    /\ r \in Memory /\ r.arenas = m.arenas
    /\ r.usable = m.usable /\ r.unused = m.unused /\ r.maxarenas = m.maxarenas
    /\ \A q \in Pool : q # p => r.pool[q] = m.pool[q]

(* What does not depend on pools' headers and links.                       *)
LEMMA EditedKeeps ==
  ASSUME NEW m, NEW r, NEW p, Edited(m, r, p)
  PROVE  /\ Lists(m) => Lists(r)
         /\ Busy(m) => Busy(r)
         /\ \A I, G : Counts(m, I, G) => Counts(r, I, G)
         /\ \A x \in Arena : r.arenas[x] = m.arenas[x]
<1>1. Nexts(r) = Nexts(m) /\ Prevs(r) = Prevs(m) /\ Usables(r) = Usables(m) /\ Unuseds(r) = Unuseds(m)
  BY DEF Edited, Nexts, Prevs, Usables, Unuseds
<1>2. Lists(m) => Lists(r)
  BY <1>1 DEF Edited, Lists
<1>3. Busy(m) => Busy(r)
  BY DEF Edited, Busy
<1>4. \A I, G : Counts(m, I, G) => Counts(r, I, G)
  BY DEF Edited, Counts
<1>. QED  BY <1>2, <1>3, <1>4 DEF Edited

(* The links of the pools outside these sets.                              *)
LEMMA FreesFrame ==
  ASSUME NEW m, NEW r, r.arenas = m.arenas, NEW G, Frees(m, G),
         \A n \in G : r.nextpool[n] = m.nextpool[n]
  PROVE  Frees(r, G)
<1>. SUFFICES ASSUME NEW a \in Arena, m.arenas[a].used
              PROVE  Chained(m.arenas[a].freepools, r.nextpool, G \cap PoolsOf(a))
  BY DEF Frees
<1>1. Chained(m.arenas[a].freepools, m.nextpool, G \cap PoolsOf(a))
  BY DEF Frees
<1>2. \A n \in G \cap PoolsOf(a) : r.nextpool[n] = m.nextpool[n]
  OBVIOUS
<1>. QED  BY <1>1, <1>2, ChainedFrame

(* No link changed, and no pool of R has another class.                    *)
LEMMA RingsFrame ==
  ASSUME NEW m, NEW r, r.nextpool = m.nextpool, r.prevpool = m.prevpool, NEW R, Rings(m, R),
         \A q \in R : r.pool[q].szidx = m.pool[q].szidx
  PROVE  Rings(r, R)
<1>1. \A c \in SizeClass : OfClass(r, R, c) = OfClass(m, R, c)
  BY DEF OfClass
<1>. QED  BY <1>1 DEF Rings

(* Pool p becomes the first of class c.                                    *)
Joins(m, r, p, c) ==
    /\ r.nextpool[p] = m.nextpool[PTA(c)] /\ r.prevpool[p] = PTA(c)
    /\ \A n \in Node : n # p =>
         /\ r.nextpool[n] = (IF n = PTA(c) THEN p ELSE m.nextpool[n])
         /\ r.prevpool[n] = (IF n = m.nextpool[PTA(c)] THEN p ELSE m.prevpool[n])

(* The ring with that pool, and the links of the others.                   *)
LEMMA JoinsKeep ==
  ASSUME NEW m, NEW r, NEW R, Rings(m, R), NEW p \in Pool, p \notin R, NEW c \in SizeClass,
         Joins(m, r, p, c), r.pool[p].szidx = c,
         \A q \in R : r.pool[q].szidx = m.pool[q].szidx
  PROVE  /\ Rings(r, R \cup {p})
         /\ \A n \in Pool \ {p} : r.nextpool[n] = m.nextpool[n]
<1>1. /\ R \in SUBSET Pool /\ p \in Node /\ PTA(c) \in Node /\ PTA(c) \notin Pool
      /\ Pool \subseteq Node
      /\ \A q \in R : m.pool[q].szidx \in SizeClass
  BY NodesAre DEF Rings
<1>2. ASSUME NEW d \in SizeClass
      PROVE  Ringed(PTA(d), r.nextpool, r.prevpool, OfClass(r, R \cup {p}, d))
  <2>1. PICK N : N = OfClass(m, R, d)
    OBVIOUS
  <2>2. /\ Ringed(PTA(d), m.nextpool, m.prevpool, N) /\ N \subseteq R /\ p \notin N
        /\ PTA(d) \in Node /\ PTA(d) \notin Pool /\ p # PTA(d)
    BY <2>1, NodesAre DEF Rings, OfClass
  <2>3. CASE d = c
    <3>1. OfClass(r, R \cup {p}, d) = N \cup {p}
      BY <2>1, <2>3 DEF OfClass
    <3>2. \A n \in N \cup {PTA(d)} :
            /\ r.nextpool[n] = (IF n = PTA(d) THEN p ELSE m.nextpool[n])
            /\ r.prevpool[n] = (IF n = m.nextpool[PTA(d)] THEN p ELSE m.prevpool[n])
      BY <1>1, <2>2, <2>3 DEF Joins
    <3>3. r.nextpool[p] = m.nextpool[PTA(d)] /\ r.prevpool[p] = PTA(d)
      BY <2>3 DEF Joins
    <3>4. Ringed(PTA(d), r.nextpool, r.prevpool, N \cup {p})
      BY ONLY <2>2, <3>2, <3>3, RingFirst
    <3>. QED  BY <3>1, <3>4
  <2>4. CASE d # c
    <3>1. OfClass(r, R \cup {p}, d) = N
      BY <2>1, <2>4 DEF OfClass
    <3>2. PTA(d) # PTA(c)
      BY <2>4, NodesAre
    <3>3. m.nextpool[PTA(c)] \in OfClass(m, R, c) \cup {PTA(c)}
      BY DEF Rings, Ringed
    <3>4. m.nextpool[PTA(c)] \notin N \cup {PTA(d)}
      BY <1>1, <2>1, <2>2, <2>4, <3>2, <3>3 DEF OfClass
    <3>5. \A n \in N \cup {PTA(d)} : r.nextpool[n] = m.nextpool[n] /\ r.prevpool[n] = m.prevpool[n]
      BY <1>1, <2>2, <3>2, <3>4 DEF Joins
    <3>6. Ringed(PTA(d), r.nextpool, r.prevpool, N)
      BY <2>2, <3>5, RingFrame
    <3>. QED  BY <3>1, <3>6
  <2>. QED  BY <2>3, <2>4
<1>3. \A n \in Pool \ {p} : r.nextpool[n] = m.nextpool[n]
  BY <1>1 DEF Joins
<1>. QED  BY <1>1, <1>2, <1>3 DEF Rings

(* Pool p leaves its ring.                                                 *)
Quits(m, r, p) ==
    \A n \in Node : n # p =>
        /\ r.nextpool[n] = (IF n = m.prevpool[p] THEN m.nextpool[p] ELSE m.nextpool[n])
        /\ r.prevpool[n] = (IF n = m.nextpool[p] THEN m.prevpool[p] ELSE m.prevpool[n])

(* The ring without that pool, and the links of the others.                *)
LEMMA QuitsKeep ==
  ASSUME NEW m, NEW r, NEW R, Rings(m, R), NEW p \in R, Quits(m, r, p),
         \A q \in R : r.pool[q].szidx = m.pool[q].szidx
  PROVE  /\ Rings(r, R \ {p})
         /\ \A n \in Pool \ R : r.nextpool[n] = m.nextpool[n]
<1>. DEFINE c == m.pool[p].szidx
<1>1. /\ R \in SUBSET Pool /\ p \in Node /\ c \in SizeClass /\ PTA(c) \in Node /\ PTA(c) \notin Pool
      /\ Pool \subseteq Node /\ p \in OfClass(m, R, c)
      /\ \A q \in R : m.pool[q].szidx \in SizeClass
  BY NodesAre DEF Rings, OfClass
<1>2. m.nextpool[p] \in OfClass(m, R, c) \cup {PTA(c)} /\ m.prevpool[p] \in OfClass(m, R, c) \cup {PTA(c)}
  BY <1>1 DEF Rings, Ringed
<1>. HIDE DEF c
<1>3. ASSUME NEW d \in SizeClass
      PROVE  Ringed(PTA(d), r.nextpool, r.prevpool, OfClass(r, R \ {p}, d))
  <2>1. PICK N : N = OfClass(m, R, d)
    OBVIOUS
  <2>2. /\ Ringed(PTA(d), m.nextpool, m.prevpool, N) /\ N \subseteq R
        /\ PTA(d) \in Node /\ PTA(d) \notin Pool /\ p # PTA(d)
    BY <1>1, <2>1, NodesAre DEF Rings, OfClass
  <2>3. OfClass(r, R \ {p}, d) = N \ {p}
    BY <2>1 DEF OfClass
  <2>4. CASE d = c
    <3>1. p \in N
      BY <1>1, <2>1, <2>4
    <3>2. \A n \in N \cup {PTA(d)} : n # p =>
            /\ r.nextpool[n] = (IF n = m.prevpool[p] THEN m.nextpool[p] ELSE m.nextpool[n])
            /\ r.prevpool[n] = (IF n = m.nextpool[p] THEN m.prevpool[p] ELSE m.prevpool[n])
      BY <1>1, <2>2 DEF Quits
    <3>3. Ringed(PTA(d), r.nextpool, r.prevpool, N \ {p})
      BY ONLY <2>2, <3>1, <3>2, RingDrop
    <3>. QED  BY <2>3, <3>3
  <2>5. CASE d # c
    <3>1. p \notin N
      BY <2>1, <2>5 DEF c, OfClass
    <3>2. PTA(d) # PTA(c)
      BY <1>1, <2>5, NodesAre
    <3>3. OfClass(m, R, c) \cap N = {}
      BY <2>1, <2>5 DEF OfClass
    <3>4. \A n \in N \cup {PTA(d)} : n # m.prevpool[p] /\ n # m.nextpool[p]
      BY <1>1, <1>2, <2>2, <3>2, <3>3 DEF OfClass
    <3>5. \A n \in N \cup {PTA(d)} : r.nextpool[n] = m.nextpool[n] /\ r.prevpool[n] = m.prevpool[n]
      BY <1>1, <2>2, <3>1, <3>4 DEF Quits
    <3>6. Ringed(PTA(d), r.nextpool, r.prevpool, N)
      BY <2>2, <3>5, RingFrame
    <3>7. N \ {p} = N
      BY <3>1
    <3>. QED  BY <2>3, <3>6, <3>7
  <2>. QED  BY <2>4, <2>5
<1>4. \A n \in Pool \ R : r.nextpool[n] = m.nextpool[n]
  <2>1. OfClass(m, R, c) \subseteq R
    BY DEF OfClass
  <2>2. m.prevpool[p] \in R \/ m.prevpool[p] \notin Pool
    BY <1>1, <1>2, <2>1
  <2>. QED  BY <1>1, <2>2 DEF Quits
<1>. QED  BY <1>1, <1>3, <1>4 DEF Rings

(* The blocks of one pool change hands.                                    *)
LEMMA BlocksEdit ==
  ASSUME NEW m, NEW r, NEW p, Edited(m, r, p), NEW O, NEW I, NEW G, PoolBlocks(m, O, I, G),
         I \subseteq Pool, G \subseteq Pool, p \notin G,
         NEW O2, NEW J, J = I \cup {p}, O2 \subseteq J \X Block,
         \A q \in I : q # p => HeldOf(O2, q) = HeldOf(O, q),
         HeldOf(O2, p) # {}, GoodPool(r.pool[p], HeldOf(O2, p)), I \cap G = {}
  PROVE  PoolBlocks(r, O2, J, G)
<1>1. \A q \in G : q # p /\ q \in Pool /\ r.pool[q] = m.pool[q]
  BY DEF Edited
<1>2. \A q \in G : HeldOf(O, q) = {} /\ HeldOf(O2, q) = {}
  BY <1>1 DEF PoolBlocks, HeldOf
<1>3. \A q \in G : GoodPool(r.pool[q], HeldOf(O2, q))
  BY <1>1, <1>2 DEF PoolBlocks
<1>4. \A q \in J : GoodPool(r.pool[q], HeldOf(O2, q)) /\ HeldOf(O2, q) # {}
  <2>. SUFFICES ASSUME NEW q \in J  PROVE GoodPool(r.pool[q], HeldOf(O2, q)) /\ HeldOf(O2, q) # {}
    OBVIOUS
  <2>1. CASE q = p
    BY <2>1
  <2>2. CASE q # p
    <3>1. q \in I /\ r.pool[q] = m.pool[q] /\ HeldOf(O2, q) = HeldOf(O, q)
      BY <2>2 DEF Edited
    <3>. QED  BY <3>1 DEF PoolBlocks
  <2>. QED  BY <2>1, <2>2
<1>. QED  BY <1>3, <1>4 DEF PoolBlocks

PutPools(m, NX, PV, Q) == [m EXCEPT !.nextpool = NX, !.prevpool = PV, !.pool = Q]

(* An assignment to the links between pools and to their headers.          *)
LEMMA SetPools ==
  ASSUME NEW m, m \in Memory, NEW NX \in [Node -> Node \cup {Nil}], NEW PV \in [Node -> Node \cup {Nil}],
         NEW p \in Pool, NEW h \in pool_header, NEW Q, Q = [m.pool EXCEPT ![p] = h],
         NEW r, r = PutPools(m, NX, PV, Q)
  PROVE  Edited(m, r, p) /\ r.pool[p] = h /\ r.nextpool = NX /\ r.prevpool = PV
<1>1. m.pool \in [Pool -> pool_header]
  BY MemoryFields
<1>2. Q \in [Pool -> pool_header] /\ Q[p] = h /\ \A q \in Pool : q # p => Q[q] = m.pool[q]
  BY <1>1
<1>3. /\ r \in Memory /\ r.nextpool = NX /\ r.prevpool = PV /\ r.pool = Q /\ r.arenas = m.arenas
      /\ r.usable = m.usable /\ r.unused = m.unused /\ r.maxarenas = m.maxarenas
  BY <1>2 DEF PutPools, Memory
<1>. QED  BY <1>2, <1>3 DEF Edited

-----------------------------------------------------------------------------
(* The header of a pool after init_pool, and after the last free block.    *)
LEMMA FreshIs ==
  ASSUME NEW c \in SizeClass
  PROVE  /\ GoodPool(FreshPool(c, 3), {1}) /\ 1 \in Block
         /\ FreshPool(c, 3).freeblock # <<>> /\ FreshPool(c, 3).szidx = c
<1>1. PICK B \in Nat : /\ Block = 1 .. B /\ B >= 2 /\ Cardinality(Block) = B
                       /\ NUMBLOCKS[c] \in Nat /\ NUMBLOCKS[c] >= 2
  BY BlockNumbers
<1>2. PICK h : h = FreshPool(c, 3)
  OBVIOUS
<1>3. h.count = 1 /\ h.freeblock = <<2>> /\ h.szidx = c /\ h.nextoffset = 3
  BY <1>2 DEF FreshPool
<1>4. 1 \in Block /\ 2 \in Block /\ <<2>> \in Seq(Block) /\ <<2>> # <<>>
  BY <1>1
<1>5. c \in 1 .. DUMMY_SIZE_IDX
  BY PoolArenasAssumption DEF SizeClass, DUMMY_SIZE_IDX
<1>6. h \in pool_header
  <2>1. 3 \in 1 .. Cardinality(Block) + 2
    BY <1>1
  <2>. QED  BY <1>2, <1>4, <1>5, <2>1 DEF FreshPool, pool_header
<1>7. ToSet(<<2>>) = {2} /\ IsInjective(<<2>>)
  BY ToSetOne
<1>8. IsFiniteSet({1}) /\ Cardinality({1}) = 1
  BY FS_Singleton
<1>9. {1} \cap {2} = {} /\ {1} \cup {2} = 1 .. 3 - 1
  OBVIOUS
<1>10. 3 <= NUMBLOCKS[c] + 1
  BY <1>1
<1>11. PICK t : t = <<2>>
  OBVIOUS
<1>12. /\ h \in pool_header /\ h.szidx = c /\ h.count = Cardinality({1}) /\ h.nextoffset = 3 /\ h.freeblock = t
       /\ IsInjective(t) /\ {1} \cap ToSet(t) = {} /\ {1} \cup ToSet(t) = 1 .. 3 - 1 /\ t # <<>>
  BY <1>3, <1>4, <1>6, <1>7, <1>8, <1>9, <1>11
<1>13. GoodPool(h, {1})
  BY <1>8, <1>10, <1>12 DEF GoodPool
<1>. QED  BY <1>2, <1>4, <1>12, <1>13

PutHeader(h, k, t, n) == [h EXCEPT !.count = k, !.freeblock = t, !.nextoffset = n]

HeaderIs(h2, h, k, t, n) ==
    /\ h2 \in pool_header
    /\ h2.count = k /\ h2.freeblock = t /\ h2.szidx = h.szidx /\ h2.nextoffset = n

(* The fields of a header written at once.                                 *)
LEMMA HeaderPut ==
  ASSUME NEW h \in pool_header, NEW k \in Int, NEW t \in Seq(Block), NEW n \in 1 .. Cardinality(Block) + 2
  PROVE  HeaderIs(PutHeader(h, k, t, n), h, k, t, n)
<1>. PICK h2 : h2 = PutHeader(h, k, t, n)
  OBVIOUS
<1>1. PICK S, C, N : S = Seq(Block) /\ C = 1 .. DUMMY_SIZE_IDX /\ N = 1 .. Cardinality(Block) + 2
  OBVIOUS
<1>2. pool_header = [count : Int, freeblock : S, szidx : C, nextoffset : N]
  BY <1>1 DEF pool_header
<1>3. h \in [count : Int, freeblock : S, szidx : C, nextoffset : N] /\ k \in Int /\ t \in S /\ n \in N
  BY <1>1, <1>2
<1>4. /\ h2 \in [count : Int, freeblock : S, szidx : C, nextoffset : N]
      /\ h2.count = k /\ h2.freeblock = t /\ h2.szidx = h.szidx /\ h2.nextoffset = n
  BY ONLY <1>3, h2 = PutHeader(h, k, t, n) DEF PutHeader
<1>. QED  BY <1>2, <1>4 DEF HeaderIs

(* A pool that had the same class before gives the first block of its      *)
(* list.                                                                   *)
LEMMA KeptIs ==
  ASSUME NEW h, GoodPool(h, {}), NEW h2, h2 = [h EXCEPT !.count = 1, !.freeblock = Tail(@)]
  PROVE  /\ GoodPool(h2, {Head(h.freeblock)}) /\ Head(h.freeblock) \in Block
         /\ h2.freeblock # <<>> /\ h2.szidx = h.szidx
<1>1. PICK s \in Seq(Block) : s = h.freeblock
  BY DEF GoodPool, pool_header
<1>2. PICK n \in Nat : n = h.nextoffset /\ 3 <= n
  BY DEF GoodPool, pool_header
<1>3. IsInjective(s) /\ ToSet(s) = 1 .. n - 1
  BY <1>1, <1>2 DEF GoodPool
<1>4. 1 \in ToSet(s) /\ 2 \in ToSet(s)
  BY <1>2, <1>3
<1>5. s # <<>>
  BY <1>4, ToSetEmpty
<1>6. /\ Head(s) \in Block /\ Tail(s) \in Seq(Block) /\ ToSet(s) = {Head(s)} \cup ToSet(Tail(s))
      /\ IsInjective(Tail(s)) /\ Head(s) \notin ToSet(Tail(s))
  BY <1>3, <1>5, HeadOfList
<1>7. Tail(s) # <<>>
  <2>. SUFFICES ASSUME Tail(s) = <<>>  PROVE FALSE
    OBVIOUS
  <2>1. ToSet(Tail(s)) = {}
    BY ToSetEmpty
  <2>2. 1 = Head(s) /\ 2 = Head(s)
    BY <1>4, <1>6, <2>1
  <2>. QED  BY <2>2
<1>8. h2.count = 1 /\ h2.freeblock = Tail(s) /\ h2.szidx = h.szidx /\ h2.nextoffset = n /\ h2 \in pool_header
  <2>1. PICK t \in Seq(Block) : t = Tail(s)
    BY <1>6
  <2>2. h \in pool_header
    BY DEF GoodPool
  <2>3. h2 = PutHeader(h, 1, t, n)
    BY <1>1, <1>2, <2>1, <2>2 DEF pool_header, PutHeader
  <2>4. 1 \in Int /\ n \in 1 .. Cardinality(Block) + 2
    BY <1>2, <2>2 DEF pool_header
  <2>5. HeaderIs(h2, h, 1, t, n)
    BY ONLY <2>1, <2>2, <2>3, <2>4, HeaderPut
  <2>. QED  BY <2>1, <2>5 DEF HeaderIs
<1>9. IsFiniteSet({Head(s)}) /\ Cardinality({Head(s)}) = 1
  BY FS_Singleton
<1>. QED  BY <1>1, <1>2, <1>3, <1>6, <1>7, <1>8, <1>9 DEF GoodPool

(* init_pool in parts: the links, the header and the block.                *)
InitHeader(m, p, c) ==
    IF m.pool[p].szidx = c THEN [m.pool[p] EXCEPT !.count = 1, !.freeblock = Tail(@)]
    ELSE FreshPool(c, 3)
InitBlock(m, p, c) == IF m.pool[p].szidx = c THEN Head(m.pool[p].freeblock) ELSE 1

InitPoolIs(m, p, c, next, r) ==
    /\ r.bp = <<p, InitBlock(m, p, c)>>
    /\ r.m = PutPools(m, [m.nextpool EXCEPT ![p] = next, ![next] = p],
                         [m.prevpool EXCEPT ![p] = next, ![next] = p],
                         [m.pool EXCEPT ![p] = InitHeader(m, p, c)])

(* init_pool is that.                                                      *)
LEMMA InitPoolParts ==
  ASSUME NEW m, NEW p, NEW c
  PROVE  InitPoolIs(m, p, c, usedpools(m, c), init_pool(m, p, c))
BY DEF init_pool, InitPool, InitHeader, InitBlock, PutPools, InitPoolIs

(* An empty ring.                                                          *)
LEMMA NoneOfClass ==
  ASSUME NEW m, NEW R, Rings(m, R), NEW c \in SizeClass, usedpools(m, c) = PTA(c)
  PROVE  OfClass(m, R, c) = {} /\ m.nextpool[PTA(c)] = PTA(c)
<1>1. PICK N, h : N = OfClass(m, R, c) /\ h = PTA(c)
  OBVIOUS
<1>2. Ringed(h, m.nextpool, m.prevpool, N) /\ m.nextpool[h] = h
  BY <1>1 DEF Rings, usedpools
<1>3. {h} = N \cup {h} /\ h \notin N
  <2>1. {h} \in SUBSET (N \cup {h}) /\ h \in {h} /\ \A n \in {h} : m.nextpool[n] \in {h}
    BY <1>2
  <2>. QED  BY <1>2, <2>1 DEF Ringed
<1>. QED  BY <1>1, <1>2, <1>3

(* What an allocation gives: a block nobody had.                           *)
Gives(m, O, r) ==
    /\ r.bp \in Pool \X Block /\ r.bp \notin O
    /\ Inv(r.m, O \cup {r.bp})
    /\ \A x \in Arena : r.m.arenas[x].used = m.arenas[x].used

(* init_pool gives a block nobody had.                                     *)
LEMMA InitPoolKeeps ==
  ASSUME NEW m, NEW O, NEW I, NEW G, NEW p, Ready(m, O, I, G, p),
         NEW c \in SizeClass, usedpools(m, c) = PTA(c)
  PROVE  Gives(m, O, init_pool(m, p, c))
<1>1. /\ m \in Memory /\ Lists(m) /\ Busy(m)
      /\ p \in Pool /\ p \notin I /\ p \notin G
      /\ Counts(m, I \cup {p}, G) /\ Frees(m, G) /\ Rings(m, Giving(m, I)) /\ PoolBlocks(m, O, I, G)
      /\ GoodPool(m.pool[p], {}) \/ m.pool[p].szidx = DUMMY_SIZE_IDX
  BY DEF Ready
<1>2. PICK h, b : h = InitHeader(m, p, c) /\ b = InitBlock(m, p, c)
  OBVIOUS
<1>3. /\ GoodPool(h, {b}) /\ b \in Block /\ h.freeblock # <<>> /\ h.szidx = c
  <2>1. CASE m.pool[p].szidx = c
    <3>1. GoodPool(m.pool[p], {})
      BY <1>1, <2>1, NodesAre
    <3>2. h = [m.pool[p] EXCEPT !.count = 1, !.freeblock = Tail(@)] /\ b = Head(m.pool[p].freeblock)
      BY <1>2, <2>1 DEF InitHeader, InitBlock
    <3>. QED  BY <2>1, <3>1, <3>2, KeptIs
  <2>2. CASE m.pool[p].szidx # c
    <3>1. h = FreshPool(c, 3) /\ b = 1
      BY <1>2, <2>2 DEF InitHeader, InitBlock
    <3>. QED  BY <3>1, FreshIs
  <2>. QED  BY <2>1, <2>2
<1>4. PICK next, r, bp : next = PTA(c) /\ r = init_pool(m, p, c).m /\ bp = init_pool(m, p, c).bp
  OBVIOUS
<1>5. PICK NX, PV, Q : /\ NX = [m.nextpool EXCEPT ![p] = next, ![next] = p]
                       /\ PV = [m.prevpool EXCEPT ![p] = next, ![next] = p]
                       /\ Q = [m.pool EXCEPT ![p] = h]
  OBVIOUS
<1>6. bp = <<p, b>> /\ r = PutPools(m, NX, PV, Q)
  <2>1. next = usedpools(m, c)
    BY <1>4
  <2>2. InitPoolIs(m, p, c, next, init_pool(m, p, c))
    BY <2>1, InitPoolParts
  <2>. QED  BY ONLY <1>2, <1>4, <1>5, <2>2 DEF InitPoolIs
<1>7. /\ p \in Node /\ next \in Node /\ next \notin Pool /\ p # next /\ Nil \notin Node
  BY <1>1, <1>4, NodesAre
<1>8. /\ NX \in [Node -> Node \cup {Nil}] /\ PV \in [Node -> Node \cup {Nil}]
      /\ NX[p] = next /\ NX[next] = p /\ PV[p] = next /\ PV[next] = p
      /\ \A n \in Node : n # p /\ n # next => NX[n] = m.nextpool[n] /\ PV[n] = m.prevpool[n]
  <2>1. m.nextpool \in [Node -> Node \cup {Nil}] /\ m.prevpool \in [Node -> Node \cup {Nil}]
    BY <1>1, MemoryFields
  <2>. QED  BY ONLY <2>1, <1>5, <1>7
<1>9. h \in pool_header
  BY <1>3 DEF GoodPool
<1>10. Edited(m, r, p) /\ r.pool[p] = h /\ r.nextpool = NX /\ r.prevpool = PV
  <2>1. PutPools(m, NX, PV, Q) = r /\ m \in Memory /\ p \in Pool
    BY <1>1, <1>6
  <2>. QED  BY ONLY <1>5, <1>8, <1>9, <2>1, SetPools
<1>11. /\ Lists(r) /\ Busy(r) /\ Counts(r, I \cup {p}, G)
       /\ \A x \in Arena : r.arenas[x] = m.arenas[x]
  BY <1>1, <1>10, EditedKeeps
<1>12. PICK R : R = Giving(m, I)
  OBVIOUS
<1>13. /\ R \subseteq I /\ p \notin R /\ Rings(m, R)
       /\ I \in SUBSET Pool /\ G \in SUBSET Pool /\ I \cap G = {}
       /\ \A q \in I \cup G : r.pool[q] = m.pool[q]
  BY <1>1, <1>10, <1>12 DEF Giving, Counts, Edited
<1>14. m.nextpool[PTA(c)] = PTA(c)
  BY <1>13, NoneOfClass
<1>15. Joins(m, r, p, c)
  BY <1>4, <1>7, <1>8, <1>10, <1>14 DEF Joins
<1>16. Rings(r, R \cup {p}) /\ \A n \in Pool \ {p} : r.nextpool[n] = m.nextpool[n]
  <2>1. /\ Rings(m, R) /\ p \in Pool /\ p \notin R /\ c \in SizeClass
        /\ Joins(m, r, p, c) /\ r.pool[p].szidx = c
        /\ \A q \in R : r.pool[q].szidx = m.pool[q].szidx
    BY <1>1, <1>3, <1>10, <1>13, <1>15
  <2>. QED  BY ONLY <2>1, JoinsKeep
<1>17. Giving(r, I \cup {p}) = R \cup {p}
  BY <1>3, <1>10, <1>12, <1>13 DEF Giving
<1>18. Frees(r, G)
  <2>1. \A n \in G : r.nextpool[n] = m.nextpool[n]
    BY <1>1, <1>13, <1>16
  <2>. QED  BY <1>1, <1>10, <2>1, FreesFrame DEF Edited
<1>19. PICK O2 : O2 = O \cup {bp}
  OBVIOUS
<1>20. bp \notin O /\ bp \in Pool \X Block /\ O \subseteq I \X Block
  BY <1>1, <1>3, <1>6 DEF PoolBlocks
<1>21. PoolBlocks(r, O2, I \cup {p}, G)
  <2>1. HeldOf(O2, p) = {b}
    BY <1>1, <1>3, <1>6, <1>19, <1>20 DEF HeldOf
  <2>2. \A q \in I : q # p => HeldOf(O2, q) = HeldOf(O, q)
    BY <1>6, <1>19 DEF HeldOf
  <2>3. O2 \subseteq (I \cup {p}) \X Block
    BY <1>3, <1>6, <1>19, <1>20
  <2>4. PICK J : J = I \cup {p}
    OBVIOUS
  <2>5. /\ Edited(m, r, p) /\ PoolBlocks(m, O, I, G) /\ I \subseteq Pool /\ G \subseteq Pool /\ p \notin G
        /\ J = I \cup {p} /\ O2 \subseteq J \X Block
        /\ \A q \in I : q # p => HeldOf(O2, q) = HeldOf(O, q)
        /\ HeldOf(O2, p) # {} /\ GoodPool(r.pool[p], HeldOf(O2, p)) /\ I \cap G = {}
    BY <1>1, <1>3, <1>10, <1>13, <2>1, <2>2, <2>3, <2>4
  <2>6. PoolBlocks(r, O2, J, G)
    BY ONLY <2>5, BlocksEdit
  <2>. QED  BY <2>4, <2>6
<1>22. Pools(r, O2, I \cup {p}, G)
  BY <1>11, <1>16, <1>17, <1>18, <1>21 DEF Pools
<1>23. Inv(r, O2)
  <2>1. r \in Memory /\ I \cup {p} \in SUBSET Pool /\ G \in SUBSET Pool
    BY <1>1, <1>10, <1>13 DEF Edited
  <2>. QED  BY <1>11, <1>22, <2>1 DEF Inv
<1>. QED  BY <1>4, <1>11, <1>19, <1>20, <1>23 DEF Gives

PutPool(m, p, h) == [m EXCEPT !.pool[p] = h]

(* An assignment to a pool's header.                                       *)
LEMMA SetPool ==
  ASSUME NEW m, m \in Memory, NEW p \in Pool, NEW h \in pool_header, NEW r, r = PutPool(m, p, h)
  PROVE  Edited(m, r, p) /\ r.pool[p] = h /\ r.nextpool = m.nextpool /\ r.prevpool = m.prevpool
<1>1. PICK Q : Q = [m.pool EXCEPT ![p] = h]
  OBVIOUS
<1>2. Q \in [Pool -> pool_header] /\ Q[p] = h /\ \A q \in Pool : q # p => Q[q] = m.pool[q]
  BY <1>1, MemoryFields
<1>3. r = [m EXCEPT !.pool = Q]
  BY <1>1 DEF PutPool
<1>4. /\ r \in Memory /\ r.nextpool = m.nextpool /\ r.prevpool = m.prevpool /\ r.pool = Q
      /\ r.arenas = m.arenas /\ r.usable = m.usable /\ r.unused = m.unused /\ r.maxarenas = m.maxarenas
  BY <1>2, <1>3 DEF Memory
<1>. QED  BY <1>2, <1>4 DEF Edited

PutRings(m, NX, PV) == [m EXCEPT !.nextpool = NX, !.prevpool = PV]

(* An assignment to the links between pools.                               *)
LEMMA SetRings ==
  ASSUME NEW m, m \in Memory, NEW NX \in [Node -> Node \cup {Nil}], NEW PV \in [Node -> Node \cup {Nil}],
         NEW r, r = PutRings(m, NX, PV), NEW p
  PROVE  Edited(m, r, p) /\ r.pool = m.pool /\ r.nextpool = NX /\ r.prevpool = PV
<1>1. /\ r \in Memory /\ r.nextpool = NX /\ r.prevpool = PV /\ r.pool = m.pool
      /\ r.arenas = m.arenas /\ r.usable = m.usable /\ r.unused = m.unused /\ r.maxarenas = m.maxarenas
  BY DEF PutRings, Memory
<1>. QED  BY <1>1 DEF Edited

(* What Unlink does.                                                       *)
LEMMA UnlinkIs ==
  ASSUME NEW m, m \in Memory, NEW p \in Pool, m.prevpool[p] \in Node, m.nextpool[p] \in Node,
         NEW r, r = Unlink(m, p)
  PROVE  Edited(m, r, p) /\ r.pool = m.pool /\ Quits(m, r, p)
<1>1. PICK prev, next : prev = m.prevpool[p] /\ next = m.nextpool[p]
  OBVIOUS
<1>2. PICK NX, PV : /\ NX = [m.nextpool EXCEPT ![prev] = next, ![p] = Nil]
                    /\ PV = [m.prevpool EXCEPT ![next] = prev, ![p] = Nil]
  OBVIOUS
<1>3. r = PutRings(m, NX, PV)
  BY <1>1, <1>2 DEF Unlink, PutRings
<1>4. /\ NX \in [Node -> Node \cup {Nil}] /\ PV \in [Node -> Node \cup {Nil}]
      /\ \A n \in Node : n # p => /\ NX[n] = (IF n = prev THEN next ELSE m.nextpool[n])
                                  /\ PV[n] = (IF n = next THEN prev ELSE m.prevpool[n])
  <2>1. m.nextpool \in [Node -> Node \cup {Nil}] /\ m.prevpool \in [Node -> Node \cup {Nil}]
    BY MemoryFields
  <2>2. p \in Node /\ prev \in Node /\ next \in Node
    BY <1>1, NodesAre
  <2>. QED  BY ONLY <1>2, <2>1, <2>2
<1>5. Edited(m, r, p) /\ r.pool = m.pool /\ r.nextpool = NX /\ r.prevpool = PV
  BY <1>3, <1>4, SetRings
<1>. QED  BY <1>1, <1>4, <1>5 DEF Quits

(* What LinkFirst does.                                                    *)
LEMMA LinkFirstIs ==
  ASSUME NEW m, m \in Memory, NEW p \in Pool, NEW c \in SizeClass, c = m.pool[p].szidx,
         m.nextpool[PTA(c)] \in Node, m.nextpool[PTA(c)] # p, m.prevpool[m.nextpool[PTA(c)]] = PTA(c),
         NEW r, r = LinkFirst(m, p)
  PROVE  Edited(m, r, p) /\ r.pool = m.pool /\ Joins(m, r, p, c)
<1>1. PICK prev, next : prev = PTA(c) /\ next = m.nextpool[PTA(c)]
  OBVIOUS
<1>2. PICK NX, PV : /\ NX = [m.nextpool EXCEPT ![p] = next, ![prev] = p]
                    /\ PV = [m.prevpool EXCEPT ![p] = prev, ![next] = p]
  OBVIOUS
<1>3. r = PutRings(m, NX, PV)
  BY <1>1, <1>2 DEF LinkFirst, PutRings, usedpools
<1>4. /\ NX \in [Node -> Node \cup {Nil}] /\ PV \in [Node -> Node \cup {Nil}]
      /\ NX[p] = next /\ PV[p] = prev
      /\ \A n \in Node : n # p => /\ NX[n] = (IF n = prev THEN p ELSE m.nextpool[n])
                                  /\ PV[n] = (IF n = next THEN p ELSE m.prevpool[n])
  <2>1. m.nextpool \in [Node -> Node \cup {Nil}] /\ m.prevpool \in [Node -> Node \cup {Nil}]
    BY MemoryFields
  <2>2. p \in Node /\ prev \in Node /\ next \in Node /\ next # p /\ prev # p
    BY <1>1, NodesAre
  <2>. QED  BY ONLY <1>2, <2>1, <2>2
<1>5. Edited(m, r, p) /\ r.pool = m.pool /\ r.nextpool = NX /\ r.prevpool = PV
  BY <1>3, <1>4, SetRings
<1>. QED  BY <1>1, <1>4, <1>5 DEF Joins

-----------------------------------------------------------------------------
(* AllocFromPool: the header after the block in front was handed out.      *)
NextHeader(h, c) ==
    IF Tail(h.freeblock) # <<>> THEN [h EXCEPT !.count = @ + 1, !.freeblock = Tail(h.freeblock)]
    ELSE IF RoomLeft(h, c)
    THEN [h EXCEPT !.count = @ + 1, !.freeblock = <<h.nextoffset>>, !.nextoffset = @ + 1]
    ELSE [h EXCEPT !.count = @ + 1, !.freeblock = <<>>]

AllocIs(m, c, p, r) ==
    /\ r.m = PutPool(m, p, NextHeader(m.pool[p], c))
    /\ r.bp = <<p, Head(m.pool[p].freeblock)>>
    /\ r = [m |-> r.m, bp |-> r.bp]

(* AllocFromPool is that.                                                  *)
LEMMA AllocParts ==
  ASSUME NEW m, NEW c  PROVE AllocIs(m, c, usedpools(m, c), AllocFromPool(m, c))
<1>1. PICK p, h, r : p = usedpools(m, c) /\ h = m.pool[p] /\ r = AllocFromPool(m, c)
  OBVIOUS
<1>2. r = [m |-> PutPool(m, p, NextHeader(h, c)), bp |-> <<p, Head(h.freeblock)>>]
  <2>1. CASE Tail(h.freeblock) # <<>>
    BY <1>1, <2>1 DEF AllocFromPool, PutPool, NextHeader
  <2>2. CASE Tail(h.freeblock) = <<>> /\ RoomLeft(h, c)
    BY <1>1, <2>2 DEF AllocFromPool, PutPool, NextHeader
  <2>3. CASE Tail(h.freeblock) = <<>> /\ ~RoomLeft(h, c)
    BY <1>1, <2>3 DEF AllocFromPool, PutPool, NextHeader
  <2>. QED  BY <2>1, <2>2, <2>3
<1>. QED  BY <1>1, <1>2 DEF AllocIs

(* The block in front was nobody's, and the header is right without it.    *)
LEMMA NextHeaderIs ==
  ASSUME NEW h, NEW H, GoodPool(h, H), h.freeblock # <<>>, NEW c, c = h.szidx, NEW h2, h2 = NextHeader(h, c),
         NEW b, b = Head(h.freeblock)
  PROVE  GoodPool(h2, H \cup {b}) /\ b \in Block /\ b \notin H /\ h2.szidx = c
<1>1. PICK s \in Seq(Block), n \in Nat, k \in Int :
        s = h.freeblock /\ n = h.nextoffset /\ k = h.count
  BY DEF GoodPool, pool_header
<1>2. /\ c \in SizeClass /\ IsFiniteSet(H) /\ k = Cardinality(H) /\ 3 <= n /\ n <= NUMBLOCKS[c] + 1
      /\ IsInjective(s) /\ H \cap ToSet(s) = {} /\ H \cup ToSet(s) = 1 .. n - 1
      /\ h \in pool_header /\ s # <<>> /\ n \in 1 .. Cardinality(Block) + 2
  BY <1>1 DEF GoodPool, pool_header
<1>3. /\ b \in Block /\ Tail(s) \in Seq(Block) /\ ToSet(s) = {b} \cup ToSet(Tail(s))
      /\ IsInjective(Tail(s)) /\ b \notin ToSet(Tail(s))
  BY <1>1, <1>2, HeadOfList
<1>4. b \notin H
  BY <1>2, <1>3
<1>5. IsFiniteSet(H \cup {b}) /\ Cardinality(H \cup {b}) = k + 1
  BY <1>2, <1>4, FS_AddElement
<1>6. PICK B \in Nat : /\ Block = 1 .. B /\ Cardinality(Block) = B
                       /\ NUMBLOCKS[c] \in Nat /\ NUMBLOCKS[c] <= B
  BY <1>2, BlockNumbers
<1>7. ASSUME NEW t \in Seq(Block), NEW j \in 1 .. Cardinality(Block) + 2, h2 = PutHeader(h, k + 1, t, j),
             3 <= j, j <= NUMBLOCKS[c] + 1, IsInjective(t), (H \cup {b}) \cap ToSet(t) = {},
             (H \cup {b}) \cup ToSet(t) = 1 .. j - 1
      PROVE  GoodPool(h2, H \cup {b}) /\ h2.szidx = c
  <2>1. k + 1 \in Int /\ h \in pool_header
    BY <1>2
  <2>2. PICK k1 \in Int : k1 = k + 1
    BY <2>1
  <2>3. HeaderIs(PutHeader(h, k1, t, j), h, k1, t, j)
    BY <2>1, HeaderPut
  <2>4. HeaderIs(h2, h, k + 1, t, j)
    BY <1>7, <2>2, <2>3
  <2>. QED  BY <1>2, <1>5, <1>7, <2>4 DEF GoodPool, HeaderIs
<1>8. PICK C : C = Cardinality(Block)
  OBVIOUS
<1>9. CASE Tail(s) # <<>>
  <2>1. h2 = PutHeader(h, k + 1, Tail(s), n)
    BY <1>1, <1>2, <1>9 DEF NextHeader, PutHeader, pool_header
  <2>2. (H \cup {b}) \cap ToSet(Tail(s)) = {} /\ (H \cup {b}) \cup ToSet(Tail(s)) = 1 .. n - 1
    BY <1>2, <1>3
  <2>. QED  BY <1>2, <1>3, <1>4, <1>7, <2>1, <2>2
<1>10. CASE Tail(s) = <<>> /\ RoomLeft(h, c)
  <2>1. h2 = PutHeader(h, k + 1, <<n>>, n + 1)
    BY <1>1, <1>2, <1>10 DEF NextHeader, PutHeader, pool_header
  <2>2. n <= NUMBLOCKS[c]
    BY <1>1, <1>10 DEF RoomLeft
  <2>3. n \in Block /\ n + 1 \in 1 .. Cardinality(Block) + 2 /\ n + 1 <= NUMBLOCKS[c] + 1 /\ 3 <= n + 1
    BY <1>2, <1>6, <2>2
  <2>4. <<n>> \in Seq(Block) /\ ToSet(<<n>>) = {n} /\ IsInjective(<<n>>)
    BY <2>3, ToSetOne
  <2>5. H \cup {b} = 1 .. n - 1
    <3>1. ToSet(Tail(s)) = {}
      BY <1>10, ToSetEmpty
    <3>. QED  BY <1>2, <1>3, <3>1
  <2>6. (1 .. n - 1) \cap {n} = {} /\ (1 .. n - 1) \cup {n} = 1 .. (n + 1) - 1
    BY <1>2
  <2>7. (H \cup {b}) \cap ToSet(<<n>>) = {} /\ (H \cup {b}) \cup ToSet(<<n>>) = 1 .. (n + 1) - 1
    BY <2>4, <2>5, <2>6
  <2>. QED  BY <1>3, <1>4, <1>7, <2>1, <2>3, <2>4, <2>7
<1>11. CASE Tail(s) = <<>> /\ ~RoomLeft(h, c)
  <2>1. h2 = PutHeader(h, k + 1, <<>>, n)
    BY <1>1, <1>2, <1>11 DEF NextHeader, PutHeader, pool_header
  <2>2. ToSet(<<>>) = {} /\ <<>> \in Seq(Block) /\ IsInjective(<<>>)
    BY <1>3, <1>11, ToSetEmpty
  <2>3. (H \cup {b}) \cap ToSet(<<>>) = {} /\ (H \cup {b}) \cup ToSet(<<>>) = 1 .. n - 1
    BY <1>2, <1>3, <1>11, <2>2
  <2>. QED  BY <1>2, <1>3, <1>4, <1>7, <2>1, <2>2, <2>3
<1>. QED  BY <1>9, <1>10, <1>11

(* The first pool of a ring that is not empty.                             *)
LEMMA FirstOfClass ==
  ASSUME NEW m, NEW R, Rings(m, R), NEW c \in SizeClass, NEW p, p = usedpools(m, c), p # PTA(c)
  PROVE  p \in R /\ p \in Pool /\ m.pool[p].szidx = c
<1>1. R \in SUBSET Pool /\ p \in OfClass(m, R, c)
  BY DEF Rings, Ringed, usedpools
<1>. QED  BY <1>1 DEF OfClass

(* The neighbours of a pool in a ring.                                     *)
LEMMA Neighbours ==
  ASSUME NEW m, NEW R, Rings(m, R), NEW p \in R
  PROVE  m.nextpool[p] \in Node /\ m.prevpool[p] \in Node
<1>1. PICK c \in SizeClass : c = m.pool[p].szidx
  BY DEF Rings
<1>2. p \in OfClass(m, R, c) /\ OfClass(m, R, c) \subseteq Pool
  BY <1>1 DEF OfClass, Rings
<1>3. m.nextpool[p] \in OfClass(m, R, c) \cup {PTA(c)} /\ m.prevpool[p] \in OfClass(m, R, c) \cup {PTA(c)}
  BY <1>1, <1>2 DEF Rings, Ringed
<1>. QED  BY <1>2, <1>3, NodesAre

(* A pool that has no block left quits its ring.                           *)
LEMMA UnlinkFullKeeps ==
  ASSUME NEW m, m \in Memory, NEW I, I \in SUBSET Pool, NEW G, G \in SUBSET Pool, I \cap G = {},
         Frees(m, G), NEW p \in I, NEW R, Rings(m, R), R \subseteq I, p \in R,
         NEW r, r = Unlink(m, p)
  PROVE  /\ Edited(m, r, p) /\ r.pool = m.pool /\ Frees(r, G)
         /\ Rings(r, R \ {p})
<1>1. Edited(m, r, p) /\ r.pool = m.pool /\ Quits(m, r, p)
  <2>1. m.nextpool[p] \in Node /\ m.prevpool[p] \in Node
    BY Neighbours
  <2>. QED  BY <2>1, UnlinkIs
<1>2. Rings(r, R \ {p}) /\ \A n \in Pool \ R : r.nextpool[n] = m.nextpool[n]
  <2>1. /\ Rings(m, R) /\ p \in R /\ Quits(m, r, p)
        /\ \A q \in R : r.pool[q].szidx = m.pool[q].szidx
    BY <1>1
  <2>. QED  BY ONLY <2>1, QuitsKeep
<1>3. Frees(r, G)
  <2>1. \A n \in G : r.nextpool[n] = m.nextpool[n]
    BY <1>2
  <2>. QED  BY <1>1, <2>1, FreesFrame DEF Edited
<1>. QED  BY <1>1, <1>2, <1>3

(* Two changes of the same pool.                                           *)
LEMMA EditedTwice ==
  ASSUME NEW m, NEW m1, NEW r, NEW p, Edited(m, m1, p), Edited(m1, r, p)
  PROVE  Edited(m, r, p)
BY DEF Edited

(* An allocation from the first pool of a ring; the pool leaves it with    *)
(* its last block.                                                         *)
LEMMA AllocKeeps ==
  ASSUME NEW m, NEW O, Inv(m, O), NEW c \in SizeClass, usedpools(m, c) # PTA(c)
  PROVE  Gives(m, O, UnlinkFull(AllocFromPool(m, c), usedpools(m, c)))
<1>1. PICK I \in SUBSET Pool, G \in SUBSET Pool : Pools(m, O, I, G)
  BY DEF Inv
<1>2. PICK p, al, r : p = usedpools(m, c) /\ al = AllocFromPool(m, c) /\ r = UnlinkFull(al, p)
  OBVIOUS
<1>3. PICK R : R = Giving(m, I)
  OBVIOUS
<1>4. /\ m \in Memory /\ Lists(m) /\ Busy(m)
      /\ Counts(m, I, G) /\ Frees(m, G) /\ Rings(m, R) /\ PoolBlocks(m, O, I, G)
      /\ I \cap G = {} /\ R \subseteq I /\ O \subseteq I \X Block
  BY <1>1, <1>3 DEF Inv, Pools, Counts, Giving, PoolBlocks
<1>5. p \in R /\ p \in Pool /\ p \in I /\ p \notin G /\ m.pool[p].szidx = c
  BY <1>2, <1>4, FirstOfClass
<1>6. PICK h, H, h2, b : /\ h = m.pool[p] /\ H = HeldOf(O, p) /\ h2 = NextHeader(h, c)
                         /\ b = Head(h.freeblock)
  OBVIOUS
<1>7. GoodPool(h, H) /\ h.freeblock # <<>> /\ c = h.szidx
  BY <1>3, <1>4, <1>5, <1>6 DEF PoolBlocks, Giving
<1>8. GoodPool(h2, H \cup {b}) /\ b \in Block /\ b \notin H /\ h2.szidx = c
  BY <1>6, <1>7, NextHeaderIs
<1>9. AllocIs(m, c, p, al)
  BY <1>2, AllocParts
<1>10. PICK m1, bp : m1 = al.m /\ bp = al.bp
  OBVIOUS
<1>11. m1 = PutPool(m, p, h2) /\ bp = <<p, b>> /\ al = [m |-> m1, bp |-> bp]
  BY <1>6, <1>9, <1>10 DEF AllocIs
<1>12. Edited(m, m1, p) /\ m1.pool[p] = h2 /\ m1.nextpool = m.nextpool /\ m1.prevpool = m.prevpool
  <2>1. h2 \in pool_header
    BY <1>8 DEF GoodPool
  <2>. QED  BY <1>4, <1>5, <1>11, <2>1, SetPool
<1>13. m1 \in Memory /\ Frees(m1, G) /\ Rings(m1, R)
  <2>1. \A n \in G : m1.nextpool[n] = m.nextpool[n]
    BY <1>12
  <2>2. \A q \in R : m1.pool[q].szidx = m.pool[q].szidx
    <3>. SUFFICES ASSUME NEW q \in R  PROVE m1.pool[q].szidx = m.pool[q].szidx
      OBVIOUS
    <3>1. CASE q = p
      BY <1>5, <1>8, <1>12, <3>1
    <3>2. CASE q # p
      BY <1>4, <1>12, <3>2 DEF Edited
    <3>. QED  BY <3>1, <3>2
  <2>3. m1.arenas = m.arenas /\ m1 \in Memory
    BY <1>12 DEF Edited
  <2>4. Frees(m1, G)
    BY <1>4, <2>1, <2>3, FreesFrame
  <2>5. Rings(m1, R)
    BY <1>4, <1>12, <2>2, RingsFrame
  <2>. QED  BY <2>3, <2>4, <2>5
<1>14. PICK r1 : r1 = r.m
  OBVIOUS
<1>15. r.bp = bp /\ r1 = IF h2.freeblock = <<>> THEN Unlink(m1, p) ELSE m1
  <2>1. al.m = m1 /\ al.bp = bp /\ m1.pool[p] = h2
    BY <1>10, <1>12
  <2>2. CASE h2.freeblock = <<>>
    <3>1. r = [al EXCEPT !.m = Unlink(@, p)]
      BY <1>2, <2>1, <2>2 DEF UnlinkFull
    <3>2. r = [m |-> Unlink(m1, p), bp |-> bp]
      BY <1>11, <3>1
    <3>. QED  BY <1>14, <2>2, <3>2
  <2>3. CASE h2.freeblock # <<>>
    <3>1. r = al
      BY <1>2, <2>1, <2>3 DEF UnlinkFull
    <3>. QED  BY <1>14, <2>1, <2>3, <3>1
  <2>. QED  BY <2>2, <2>3
<1>16. /\ Edited(m, r1, p) /\ r1.pool = m1.pool /\ Frees(r1, G)
       /\ Rings(r1, IF h2.freeblock = <<>> THEN R \ {p} ELSE R)
  <2>1. CASE h2.freeblock = <<>>
    <3>1. r1 = Unlink(m1, p)
      BY <1>15, <2>1
    <3>2. Edited(m1, r1, p) /\ r1.pool = m1.pool /\ Frees(r1, G) /\ Rings(r1, R \ {p})
      BY <1>4, <1>5, <1>13, <3>1, UnlinkFullKeeps
    <3>. QED  BY <1>12, <2>1, <3>2, EditedTwice
  <2>2. CASE h2.freeblock # <<>>
    BY <1>12, <1>13, <1>15, <2>2
  <2>. QED  BY <2>1, <2>2
<1>17. Giving(r1, I) = IF h2.freeblock = <<>> THEN R \ {p} ELSE R
  <2>1. \A q \in I : q # p => r1.pool[q] = m.pool[q]
    BY <1>16 DEF Edited
  <2>2. r1.pool[p] = h2
    BY <1>12, <1>16
  <2>3. \A q \in I : q # p => (q \in Giving(r1, I) <=> q \in R)
    BY <1>3, <2>1 DEF Giving
  <2>4. p \in Giving(r1, I) <=> h2.freeblock # <<>>
    BY <1>5, <2>2 DEF Giving
  <2>5. Giving(r1, I) \subseteq I
    BY DEF Giving
  <2>6. \A q : q \in Giving(r1, I) <=> q \in (IF h2.freeblock = <<>> THEN R \ {p} ELSE R)
    BY <1>4, <1>5, <2>3, <2>4, <2>5
  <2>. QED  BY <2>6
<1>18. /\ Lists(r1) /\ Busy(r1) /\ Counts(r1, I, G) /\ r1 \in Memory
       /\ \A x \in Arena : r1.arenas[x] = m.arenas[x]
  <2>1. r1 \in Memory
    BY <1>16 DEF Edited
  <2>. QED  BY <1>4, <1>16, <2>1, EditedKeeps
<1>19. PICK O2 : O2 = O \cup {bp}
  OBVIOUS
<1>20. bp \notin O /\ bp \in Pool \X Block
  BY <1>5, <1>6, <1>8, <1>11 DEF HeldOf
<1>21. PoolBlocks(r1, O2, I, G)
  <2>1. HeldOf(O2, p) = H \cup {b}
    BY <1>6, <1>8, <1>11, <1>19 DEF HeldOf
  <2>2. \A q \in I : q # p => HeldOf(O2, q) = HeldOf(O, q)
    BY <1>11, <1>19 DEF HeldOf
  <2>3. O2 \subseteq I \X Block
    BY <1>4, <1>5, <1>8, <1>11, <1>19
  <2>4. PICK J : J = I \cup {p}
    OBVIOUS
  <2>5. J = I
    BY <1>5, <2>4
  <2>6. /\ Edited(m, r1, p) /\ PoolBlocks(m, O, I, G) /\ I \subseteq Pool /\ G \subseteq Pool /\ p \notin G
        /\ J = I \cup {p} /\ O2 \subseteq J \X Block
        /\ \A q \in I : q # p => HeldOf(O2, q) = HeldOf(O, q)
        /\ HeldOf(O2, p) # {} /\ GoodPool(r1.pool[p], HeldOf(O2, p)) /\ I \cap G = {}
    BY <1>4, <1>5, <1>8, <1>12, <1>16, <2>1, <2>2, <2>3, <2>4, <2>5
  <2>7. PoolBlocks(r1, O2, J, G)
    BY ONLY <2>6, BlocksEdit
  <2>. QED  BY <2>5, <2>7
<1>22. Inv(r1, O2)
  BY <1>16, <1>17, <1>18, <1>21 DEF Inv, Pools
<1>. QED  BY <1>2, <1>14, <1>15, <1>18, <1>19, <1>20, <1>22 DEF Gives

(* What an allocation answers: a block nobody had, or none.                *)
Serves(m, O, r) ==
    /\ \/ r.bp \in Pool \X Block /\ r.bp \notin O /\ Inv(r.m, O \cup {r.bp})
       \/ r.bp = NOBLOCK /\ Inv(r.m, O)
    /\ \A x \in Arena : r.m.arenas[x].used /\ ~m.arenas[x].used => m.usable = Nil

(* An allocation that needs a pool, perhaps an arena.                      *)
LEMMA ArenaKeeps ==
  ASSUME NEW m, NEW O, Inv(m, O), NEW c \in SizeClass, usedpools(m, c) = PTA(c), NEW sys,
         NEW r, r = AllocFromArena(m, c, sys)
  PROVE  Serves(m, O, r)
<1>1. PICK I \in SUBSET Pool, G \in SUBSET Pool : Pools(m, O, I, G)
  BY DEF Inv
<1>2. m \in Memory /\ Lists(m) /\ Busy(m)
  BY DEF Inv
<1>3. PICK m1 : m1 = IF m.usable = Nil THEN new_arena(m, sys) ELSE m
  OBVIOUS
<1>4. /\ m1 \in Memory /\ Lists(m1) /\ Pools(m1, O, I, G) /\ m1.nextpool = m.nextpool
      /\ IF m1.usable = Nil THEN Busy(m1) ELSE BusyBut(m1, m1.usable)
  <2>1. CASE m.usable = Nil
    <3>1. m1 = new_arena(m, sys)
      BY <1>3, <2>1
    <3>. QED  BY <1>1, <1>2, <2>1, <3>1, NewArenaKeeps
  <2>2. CASE m.usable # Nil
    BY <1>1, <1>2, <1>3, <2>2, BusyIsBut
  <2>. QED  BY <2>1, <2>2
<1>5. CASE m1.usable = Nil
  <2>1. r = [m |-> m1, bp |-> NOBLOCK]
    BY <1>3, <1>5 DEF AllocFromArena
  <2>2. Inv(m1, O)
    BY <1>4, <1>5 DEF Inv
  <2>3. m.usable # Nil => m1 = m
    BY <1>3
  <2>. QED  BY <2>1, <2>2, <2>3 DEF Serves
<1>6. CASE m1.usable # Nil
  <2>1. PICK p, m2 : p = NextFreePool(m1) /\ m2 = TakePool(m1)
    OBVIOUS
  <2>2. /\ Ready(m2, O, I, G \ {p}, p) /\ m2.nextpool = m1.nextpool
        /\ \A x \in Arena : m2.arenas[x].used = m1.arenas[x].used
    BY <1>4, <1>6, <2>1, TakePoolKeeps
  <2>3. r = init_pool(m2, p, c)
    BY <1>3, <1>6, <2>1 DEF AllocFromArena
  <2>4. usedpools(m2, c) = PTA(c)
    BY <1>4, <2>2 DEF usedpools
  <2>5. PICK F : F = G \ {p}
    OBVIOUS
  <2>6. Ready(m2, O, I, F, p)
    BY <2>2, <2>5
  <2>7. Gives(m2, O, r)
    BY <2>3, <2>4, <2>6, InitPoolKeeps
  <2>8. m.usable # Nil => \A x \in Arena : r.m.arenas[x].used = m.arenas[x].used
    BY <1>3, <2>2, <2>7 DEF Gives
  <2>. QED  BY <2>7, <2>8 DEF Gives, Serves
<1>. QED  BY <1>5, <1>6

(* PyObject_Malloc of a size that has a class.                             *)
LEMMA MallocBlockKeeps ==
  ASSUME NEW m, NEW O, Inv(m, O), NEW c \in SizeClass, NEW sys,
         NEW r, r = MallocBlock(m, c, sys)
  PROVE  Serves(m, O, r)
<1>1. CASE usedpools(m, c) # PTA(c)
  <2>1. r = UnlinkFull(AllocFromPool(m, c), usedpools(m, c))
    BY <1>1 DEF MallocBlock
  <2>2. Gives(m, O, r)
    BY <1>1, <2>1, AllocKeeps
  <2>. QED  BY <2>2 DEF Gives, Serves
<1>2. CASE usedpools(m, c) = PTA(c)
  <2>1. r = AllocFromArena(m, c, sys)
    BY <1>2 DEF MallocBlock
  <2>. QED  BY <1>2, <2>1, ArenaKeeps
<1>. QED  BY <1>1, <1>2

(* PyObject_Malloc of any size.                                            *)
LEMMA AllocateKeeps ==
  ASSUME NEW m, NEW O, Inv(m, O), NEW nbytes, NEW sys,
         NEW r, r = Allocate(m, nbytes, sys)
  PROVE  Serves(m, O, r)
<1>1. CASE ClassOf(nbytes) \in SizeClass
  <2>1. PICK c \in SizeClass : c = ClassOf(nbytes)
    BY <1>1
  <2>2. r = MallocBlock(m, c, sys)
    BY <1>1, <2>1 DEF Allocate
  <2>. QED  BY <2>2, MallocBlockKeeps
<1>2. CASE ClassOf(nbytes) \notin SizeClass
  <2>1. r = [m |-> m, bp |-> NOBLOCK]
    BY <1>2 DEF Allocate
  <2>. QED  BY <2>1 DEF Serves
<1>. QED  BY <1>1, <1>2

(* The header of a pool after a block came back.                           *)
FreedHeader(h, b) == [h EXCEPT !.count = @ - 1, !.freeblock = <<b>> \o @]

PushIs(m, p, b) == PushBlock([m EXCEPT !.pool[p].count = @ - 1], p, b)

(* The block goes to the front of its pool's list, the count is one less.  *)
LEMMA PushParts ==
  ASSUME NEW m, m \in Memory, NEW p \in Pool, NEW b
  PROVE  PushIs(m, p, b) = PutPool(m, p, FreedHeader(m.pool[p], b))
<1>1. m.pool \in [Pool -> pool_header] /\ m.pool[p] \in pool_header
  BY MemoryFields
<1>. QED  BY <1>1 DEF PushIs, PushBlock, PutPool, FreedHeader, Memory, pool_header

(* The header is right without that block; a pool that was full has others *)
(* in use.                                                                 *)
LEMMA FreedHeaderIs ==
  ASSUME NEW h, NEW H, GoodPool(h, H), NEW b \in H, b \in Block, NEW h2, h2 = FreedHeader(h, b)
  PROVE  /\ GoodPool(h2, H \ {b}) /\ h2.freeblock # <<>> /\ h2.szidx = h.szidx
         /\ h2.count = Cardinality(H \ {b})
         /\ h.freeblock = <<>> => H \ {b} # {}
<1>1. PICK s \in Seq(Block), n \in Nat, k \in Int :
        s = h.freeblock /\ n = h.nextoffset /\ k = h.count
  BY DEF GoodPool, pool_header
<1>2. /\ h.szidx \in SizeClass /\ IsFiniteSet(H) /\ k = Cardinality(H) /\ 3 <= n /\ n <= NUMBLOCKS[h.szidx] + 1
      /\ IsInjective(s) /\ H \cap ToSet(s) = {} /\ H \cup ToSet(s) = 1 .. n - 1
      /\ h \in pool_header /\ n \in 1 .. Cardinality(Block) + 2
  BY <1>1 DEF GoodPool, pool_header
<1>3. PICK t : t = <<b>> \o s
  OBVIOUS
<1>4. b \notin ToSet(s)
  BY <1>2
<1>5. t \in Seq(Block) /\ IsInjective(t) /\ ToSet(t) = ToSet(s) \cup {b}
  BY <1>2, <1>3, <1>4, PushOnList
<1>6. t # <<>>
  BY <1>5, ToSetEmpty
<1>7. IsFiniteSet(H \ {b}) /\ Cardinality(H \ {b}) = k - 1
  BY <1>2, FS_RemoveElement
<1>8. h2 = PutHeader(h, k - 1, t, n)
  BY <1>1, <1>2, <1>3 DEF FreedHeader, PutHeader, pool_header
<1>9. HeaderIs(h2, h, k - 1, t, n)
  <2>1. PICK k1 \in Int : k1 = k - 1
    OBVIOUS
  <2>2. HeaderIs(PutHeader(h, k1, t, n), h, k1, t, n)
    BY <1>2, <1>5, HeaderPut
  <2>. QED  BY <1>8, <2>1, <2>2
<1>10. (H \ {b}) \cap ToSet(t) = {} /\ (H \ {b}) \cup ToSet(t) = 1 .. n - 1
  BY <1>2, <1>5
<1>11. s = <<>> => H \ {b} # {}
  <2>1. ASSUME s = <<>>  PROVE H \ {b} # {}
    <3>1. H = 1 .. n - 1
      BY <1>2, <2>1, ToSetEmpty
    <3>2. 1 \in H /\ 2 \in H
      BY <1>2, <3>1
    <3>. QED  BY <3>2
  <2>. QED  BY <2>1
<1>. QED  BY <1>1, <1>2, <1>5, <1>6, <1>7, <1>9, <1>10, <1>11 DEF GoodPool, HeaderIs

(* An arena without pools in use goes back to the system.                  *)
LEMMA ReturnedKeeps ==
  ASSUME NEW m, m \in Memory, NEW O, NEW I, NEW G, Pools(m, O, I, G), NEW a \in Arena, I \cap PoolsOf(a) = {},
         NEW r, Returned(m, r, a)
  PROVE  Pools(r, O, I, G \ PoolsOf(a))
<1>1. PICK F : F = G \ PoolsOf(a)
  OBVIOUS
<1>2. /\ Counts(m, I, G) /\ Frees(m, G) /\ Rings(m, Giving(m, I)) /\ PoolBlocks(m, O, I, G)
      /\ I \in SUBSET Pool /\ G \in SUBSET Pool /\ I \cap G = {}
  BY DEF Pools, Counts
<1>3. /\ r \in Memory /\ ~r.arenas[a].used
      /\ r.pool = [p \in Pool |-> IF ArenaOf(p) = a THEN RawPool ELSE m.pool[p]]
      /\ r.nextpool = [n \in Node |-> IF n \in Pool /\ ArenaOf(n) = a THEN Nil ELSE m.nextpool[n]]
      /\ r.prevpool = [n \in Node |-> IF n \in Pool /\ ArenaOf(n) = a THEN Nil ELSE m.prevpool[n]]
      /\ \A x \in Arena \ {a} : Relinked(r.arenas[x], m.arenas[x], r.arenas[x].nextarena, r.arenas[x].prevarena)
  BY DEF Returned
<1>4. \A q \in I \cup F : q \in Pool /\ ArenaOf(q) # a /\ r.pool[q] = m.pool[q]
                          /\ r.nextpool[q] = m.nextpool[q] /\ r.prevpool[q] = m.prevpool[q]
  <2>1. \A q \in I \cup F : q \in Pool /\ ArenaOf(q) # a /\ q \in Node
    BY <1>1, <1>2, PoolsOfIs, NodesAre
  <2>. QED  BY <1>3, <2>1
<1>5. Counts(r, I, F)
  <2>1. I \in SUBSET Pool /\ F \in SUBSET Pool /\ I \cap F = {}
    BY <1>1, <1>2
  <2>2. ASSUME NEW q \in Pool
        PROVE  q \in I \cup F <=> /\ r.arenas[ArenaOf(q)].used
                                  /\ q < r.arenas[ArenaOf(q)].pool_address
    <3>1. ArenaOf(q) \in Arena
      BY PoolNumbers
    <3>2. CASE ArenaOf(q) = a
      BY <1>3, <1>4, <3>2
    <3>3. CASE ArenaOf(q) # a
      <4>1. q \notin PoolsOf(a)
        BY <3>3, PoolsOfIs
      <4>2. q \in I \cup F <=> q \in I \cup G
        BY <1>1, <4>1
      <4>. QED  BY <1>2, <1>3, <3>1, <3>3, <4>2 DEF Counts, Relinked
    <3>. QED  BY <3>2, <3>3
  <2>3. ASSUME NEW x \in Arena, r.arenas[x].used
        PROVE  /\ r.arenas[x].ntotalpools >= PoolsPerArena - 1
               /\ r.arenas[x].nfreepools = r.arenas[x].ntotalpools - Cardinality(I \cap PoolsOf(x))
               /\ FirstPool(x) <= r.arenas[x].pool_address
               /\ r.arenas[x].pool_address <= FirstPool(x) + r.arenas[x].ntotalpools
    <3>1. x # a
      BY <1>3, <2>3
    <3>. QED  BY <1>2, <1>3, <2>3, <3>1 DEF Counts, Relinked
  <2>. QED  BY <2>1, <2>2, <2>3 DEF Counts
<1>6. Frees(r, F)
  <2>. SUFFICES ASSUME NEW x \in Arena, r.arenas[x].used
                PROVE  Chained(r.arenas[x].freepools, r.nextpool, F \cap PoolsOf(x))
    BY DEF Frees
  <2>1. x # a
    BY <1>3
  <2>2. m.arenas[x].used /\ r.arenas[x].freepools = m.arenas[x].freepools
    BY <1>3, <2>1 DEF Relinked
  <2>3. Chained(m.arenas[x].freepools, m.nextpool, G \cap PoolsOf(x))
    BY <1>2, <2>2 DEF Frees
  <2>4. F \cap PoolsOf(x) = G \cap PoolsOf(x)
    BY <1>1, <1>2, <2>1, PoolsOfIs
  <2>5. \A n \in G \cap PoolsOf(x) : r.nextpool[n] = m.nextpool[n]
    BY <1>4, <2>4
  <2>6. Chained(m.arenas[x].freepools, r.nextpool, G \cap PoolsOf(x))
    BY <2>3, <2>5, ChainedFrame
  <2>. QED  BY <2>2, <2>4, <2>6
<1>7. PICK R : R = Giving(m, I)
  OBVIOUS
<1>8. Giving(r, I) = R /\ R \subseteq I /\ Rings(m, R)
  BY <1>2, <1>4, <1>7 DEF Giving
<1>9. Rings(r, R)
  <2>1. ASSUME NEW c \in SizeClass
        PROVE  Ringed(PTA(c), r.nextpool, r.prevpool, OfClass(r, R, c))
    <3>1. PICK N, h : N = OfClass(m, R, c) /\ h = PTA(c)
      OBVIOUS
    <3>2. Ringed(h, m.nextpool, m.prevpool, N)
      BY <1>8, <3>1 DEF Rings
    <3>3. OfClass(r, R, c) = N /\ N \subseteq I
      BY <1>4, <1>8, <3>1 DEF OfClass
    <3>4. h \in Node /\ h \notin Pool
      BY <3>1, NodesAre
    <3>5. \A n \in N \cup {h} : r.nextpool[n] = m.nextpool[n] /\ r.prevpool[n] = m.prevpool[n]
      BY <1>3, <1>4, <3>3, <3>4
    <3>6. Ringed(h, r.nextpool, r.prevpool, N)
      BY <3>2, <3>5, RingFrame
    <3>. QED  BY <3>1, <3>3, <3>6
  <2>2. \A q \in R : r.pool[q].szidx \in SizeClass
    BY <1>4, <1>8 DEF Rings
  <2>. QED  BY <1>8, <2>1, <2>2 DEF Rings
<1>10. PoolBlocks(r, O, I, F)
  BY <1>1, <1>2, <1>4 DEF PoolBlocks
<1>. QED  BY <1>1, <1>5, <1>6, <1>8, <1>9, <1>10 DEF Pools

(* Pool p is the first free pool of its arena a.                           *)
Shelved(m, r, a, p) ==
    /\ r \in Memory /\ r.usable = m.usable /\ r.unused = m.unused /\ r.maxarenas = m.maxarenas
    /\ r.pool = m.pool /\ r.prevpool = m.prevpool
    /\ r.nextpool[p] = m.arenas[a].freepools
    /\ \A n \in Node : n # p => r.nextpool[n] = m.nextpool[n]
    /\ \A x \in Arena : x # a => r.arenas[x] = m.arenas[x]
    /\ r.arenas[a].used = m.arenas[a].used
    /\ r.arenas[a].pool_address = m.arenas[a].pool_address
    /\ r.arenas[a].nextarena = m.arenas[a].nextarena
    /\ r.arenas[a].prevarena = m.arenas[a].prevarena
    /\ r.arenas[a].ntotalpools = m.arenas[a].ntotalpools
    /\ r.arenas[a].freepools = p
    /\ r.arenas[a].nfreepools = m.arenas[a].nfreepools + 1

(* What ToArena does.                                                      *)
LEMMA ToArenaIs ==
  ASSUME NEW m, m \in Memory, NEW p \in Pool, NEW a \in Arena, a = ArenaOf(p),
         m.arenas[a].nfreepools + 1 <= PoolsPerArena, NEW r, r = ToArena(m, p)
  PROVE  Shelved(m, r, a, p)
<1>1. PICK o, fp : o = m.arenas[a] /\ fp = o.freepools
  OBVIOUS
<1>2. /\ o \in arena_object /\ fp \in Pool \cup {Nil} /\ m.arenas \in [Arena -> arena_object]
      /\ o.nfreepools \in Nat /\ o.nfreepools + 1 \in 0 .. PoolsPerArena
      /\ m.nextpool \in [Node -> Node \cup {Nil}] /\ fp \in Node \cup {Nil} /\ p \in Node
  <2>1. p \in Node /\ Pool \subseteq Node
    BY NodesAre
  <2>2. m.arenas \in [Arena -> arena_object] /\ m.nextpool \in [Node -> Node \cup {Nil}]
    BY MemoryFields
  <2>3. /\ m.arenas[a].freepools \in Pool \cup {Nil} /\ m.arenas[a].nfreepools \in Nat
        /\ m.arenas[a] \in arena_object
    BY ArenaTyped
  <2>4. PICK k : k = m.arenas[a].nfreepools
    OBVIOUS
  <2>5. PoolsPerArena \in Nat /\ k \in Nat /\ k + 1 <= PoolsPerArena
    BY <2>3, <2>4, PoolNumbers
  <2>6. k + 1 \in 0 .. PoolsPerArena
    BY ONLY <2>5
  <2>. QED  BY <1>1, <2>1, <2>2, <2>3, <2>4, <2>6
<1>3. PICK o2 : o2 = [o EXCEPT !.freepools = p, !.nfreepools = @ + 1]
  OBVIOUS
<1>4. /\ o2 \in arena_object /\ o2.freepools = p /\ o2.nfreepools = o.nfreepools + 1 /\ o2.used = o.used
      /\ o2.nextarena = o.nextarena /\ o2.prevarena = o.prevarena /\ o2.ntotalpools = o.ntotalpools
      /\ o2.pool_address = o.pool_address
  BY <1>2, <1>3 DEF arena_object
<1>5. PICK A, NX : A = [m.arenas EXCEPT ![a] = o2] /\ NX = [m.nextpool EXCEPT ![p] = fp]
  OBVIOUS
<1>6. /\ A \in [Arena -> arena_object] /\ A[a] = o2 /\ \A x \in Arena : x # a => A[x] = m.arenas[x]
      /\ NX \in [Node -> Node \cup {Nil}] /\ NX[p] = fp /\ \A n \in Node : n # p => NX[n] = m.nextpool[n]
  BY <1>2, <1>4, <1>5
<1>7. r = [m EXCEPT !.nextpool = NX, !.arenas = A]
  BY <1>1, <1>2, <1>3, <1>5 DEF ToArena, Memory
<1>8. /\ r \in Memory /\ r.arenas = A /\ r.nextpool = NX /\ r.pool = m.pool /\ r.prevpool = m.prevpool
      /\ r.usable = m.usable /\ r.unused = m.unused /\ r.maxarenas = m.maxarenas
  BY <1>6, <1>7 DEF Memory
<1>. QED  BY <1>1, <1>4, <1>6, <1>8 DEF Shelved

(* A pool without blocks in use is free.                                   *)
LEMMA ShelvedKeeps ==
  ASSUME NEW m, m \in Memory, NEW I, NEW G, Counts(m, I, G), Frees(m, G), NEW R, Rings(m, R), R \subseteq I,
         NEW p \in I, p \notin R, NEW a \in Arena, a = ArenaOf(p), NEW r, Shelved(m, r, a, p),
         NEW J, J = I \ {p}, NEW F, F = G \cup {p}
  PROVE  Counts(r, J, F) /\ Frees(r, F) /\ Rings(r, R)
<1>1. /\ I \in SUBSET Pool /\ G \in SUBSET Pool /\ I \cap G = {} /\ p \in Pool /\ p \notin G
      /\ J \in SUBSET Pool /\ F \in SUBSET Pool /\ J \cap F = {} /\ J \cup F = I \cup G
      /\ R \in SUBSET Pool /\ p \in Node /\ p # Nil
  BY NodesAre, PoolNumbers DEF Counts
<1>2. \A x \in Arena : /\ r.arenas[x].used = m.arenas[x].used
                       /\ r.arenas[x].pool_address = m.arenas[x].pool_address
                       /\ r.arenas[x].ntotalpools = m.arenas[x].ntotalpools
                       /\ x # a => /\ r.arenas[x].nfreepools = m.arenas[x].nfreepools
                                   /\ r.arenas[x].freepools = m.arenas[x].freepools
  <2>. SUFFICES ASSUME NEW x \in Arena
                PROVE  /\ r.arenas[x].used = m.arenas[x].used
                       /\ r.arenas[x].pool_address = m.arenas[x].pool_address
                       /\ r.arenas[x].ntotalpools = m.arenas[x].ntotalpools
                       /\ x # a => /\ r.arenas[x].nfreepools = m.arenas[x].nfreepools
                                   /\ r.arenas[x].freepools = m.arenas[x].freepools
    OBVIOUS
  <2>1. CASE x = a
    BY <2>1 DEF Shelved
  <2>2. CASE x # a
    <3>1. r.arenas[x] = m.arenas[x]
      BY <2>2 DEF Shelved
    <3>. QED  BY <3>1
  <2>. QED  BY <2>1, <2>2
<1>3. m.arenas[a].used
  BY <1>1 DEF Counts
<1>4. p \in PoolsOf(a) /\ \A x \in Arena : p \in PoolsOf(x) => x = a
  BY <1>1, PoolsOfIs
<1>5. Counts(r, J, F)
  <2>1. \A q \in Pool : q \in J \cup F <=> /\ r.arenas[ArenaOf(q)].used
                                           /\ q < r.arenas[ArenaOf(q)].pool_address
    <3>1. \A q \in Pool : ArenaOf(q) \in Arena
      BY PoolNumbers
    <3>. QED  BY <1>1, <1>2, <3>1 DEF Counts
  <2>2. ASSUME NEW x \in Arena, r.arenas[x].used
        PROVE  /\ r.arenas[x].ntotalpools >= PoolsPerArena - 1
               /\ r.arenas[x].nfreepools = r.arenas[x].ntotalpools - Cardinality(J \cap PoolsOf(x))
               /\ FirstPool(x) <= r.arenas[x].pool_address
               /\ r.arenas[x].pool_address <= FirstPool(x) + r.arenas[x].ntotalpools
    <3>1. m.arenas[x].used
      BY <1>2, <2>2
    <3>2. CASE x # a
      <4>1. J \cap PoolsOf(x) = I \cap PoolsOf(x)
        BY <1>4, <3>2
      <4>. QED  BY <1>2, <3>1, <3>2, <4>1 DEF Counts
    <3>3. CASE x = a
      <4>1. /\ J \cap PoolsOf(a) = (I \cap PoolsOf(a)) \ {p} /\ p \in I \cap PoolsOf(a)
            /\ IsFiniteSet(I \cap PoolsOf(a))
        BY <1>4, PoolsOfIs, FS_Subset
      <4>2. PICK n, n2 : n = Cardinality(I \cap PoolsOf(a)) /\ n2 = Cardinality(J \cap PoolsOf(a))
        OBVIOUS
      <4>3. n \in Nat /\ n2 = n - 1
        <5>1. PICK N : N = I \cap PoolsOf(a)
          OBVIOUS
        <5>2. IsFiniteSet(N) /\ p \in N
          BY <4>1, <5>1
        <5>3. Cardinality(N) \in Nat
          BY ONLY <5>2, FS_CardinalityType
        <5>4. Cardinality(N \ {p}) = Cardinality(N) - 1
          BY ONLY <5>2, FS_RemoveElement
        <5>. QED  BY <4>1, <4>2, <5>1, <5>3, <5>4
      <4>4. PICK nt, nf \in Nat : nt = m.arenas[a].ntotalpools /\ nf = m.arenas[a].nfreepools
        BY ArenaTyped
      <4>5. nf = nt - n
        BY <3>1, <3>3, <4>2, <4>4 DEF Counts
      <4>6. nf + 1 = nt - n2
        BY <4>3, <4>4, <4>5
      <4>7. r.arenas[a].nfreepools = nf + 1
        BY <4>4 DEF Shelved
      <4>8. r.arenas[a].nfreepools = r.arenas[a].ntotalpools - Cardinality(J \cap PoolsOf(a))
        BY <1>2, <4>2, <4>4, <4>6, <4>7
      <4>. QED  BY <1>2, <3>1, <3>3, <4>8 DEF Counts
    <3>. QED  BY <3>2, <3>3
  <2>. QED  BY <1>1, <2>1, <2>2 DEF Counts
<1>6. \A n \in Node : n # p => r.nextpool[n] = m.nextpool[n] /\ r.prevpool[n] = m.prevpool[n]
  BY DEF Shelved
<1>7. Frees(r, F)
  <2>. SUFFICES ASSUME NEW x \in Arena, r.arenas[x].used
                PROVE  Chained(r.arenas[x].freepools, r.nextpool, F \cap PoolsOf(x))
    BY DEF Frees
  <2>1. Chained(m.arenas[x].freepools, m.nextpool, G \cap PoolsOf(x))
    BY <1>2 DEF Frees
  <2>2. \A n \in G \cap PoolsOf(x) : r.nextpool[n] = m.nextpool[n]
    BY <1>1, <1>6, NodesAre
  <2>3. CASE x # a
    <3>1. F \cap PoolsOf(x) = G \cap PoolsOf(x)
      BY <1>4, <2>3
    <3>2. Chained(m.arenas[x].freepools, r.nextpool, G \cap PoolsOf(x))
      BY <2>1, <2>2, ChainedFrame
    <3>. QED  BY <1>2, <2>3, <3>1, <3>2
  <2>4. CASE x = a
    <3>1. PICK N, h : N = G \cap PoolsOf(a) /\ h = m.arenas[a].freepools
      OBVIOUS
    <3>2. /\ Chained(h, m.nextpool, N) /\ p \notin N /\ p # Nil /\ r.nextpool[p] = h
          /\ \A n \in N : r.nextpool[n] = m.nextpool[n]
      BY <1>1, <2>1, <2>2, <2>4, <3>1 DEF Shelved
    <3>3. Chained(p, r.nextpool, N \cup {p})
      BY ONLY <3>2, ChainedPush
    <3>4. F \cap PoolsOf(a) = N \cup {p}
      BY <1>4, <3>1
    <3>. QED  BY <2>4, <3>3, <3>4 DEF Shelved
  <2>. QED  BY <2>3, <2>4
<1>8. Rings(r, R)
  <2>1. r.pool = m.pool
    BY DEF Shelved
  <2>2. ASSUME NEW c \in SizeClass
        PROVE  Ringed(PTA(c), r.nextpool, r.prevpool, OfClass(r, R, c))
    <3>1. PICK N, h : N = OfClass(m, R, c) /\ h = PTA(c)
      OBVIOUS
    <3>2. Ringed(h, m.nextpool, m.prevpool, N) /\ OfClass(r, R, c) = N /\ N \subseteq R
      BY <2>1, <3>1 DEF Rings, OfClass
    <3>3. \A n \in N \cup {h} : n \in Node /\ n # p
      BY <1>1, <3>1, <3>2, NodesAre
    <3>4. Ringed(h, r.nextpool, r.prevpool, N)
      BY <1>6, <3>2, <3>3, RingFrame
    <3>. QED  BY <3>1, <3>2, <3>4
  <2>. QED  BY <1>1, <2>1, <2>2 DEF Rings
<1>. QED  BY <1>5, <1>7, <1>8

(* Block b is back in the list of pool p and nothing else is done yet.     *)
Pushed(m, O, I, G, p, b, m1) ==
    /\ p \in I /\ p \in Pool /\ p \notin G /\ I \in SUBSET Pool /\ G \in SUBSET Pool /\ I \cap G = {}
    /\ m1 \in Memory /\ Edited(m, m1, p) /\ m1.nextpool = m.nextpool /\ m1.prevpool = m.prevpool
    /\ m1.pool[p].szidx = m.pool[p].szidx /\ m.pool[p].szidx \in SizeClass
    /\ m1.pool[p].freeblock # <<>>
    /\ GoodPool(m1.pool[p], HeldOf(O \ {<<p, b>>}, p))
    /\ m1.pool[p].count = Cardinality(HeldOf(O \ {<<p, b>>}, p))
    /\ IsFiniteSet(HeldOf(O \ {<<p, b>>}, p))
    /\ m.pool[p].freeblock = <<>> => HeldOf(O \ {<<p, b>>}, p) # {}
    /\ \A q : q # p => HeldOf(O \ {<<p, b>>}, q) = HeldOf(O, q)
    /\ O \ {<<p, b>>} \subseteq I \X Block
    /\ Counts(m1, I, G) /\ Frees(m1, G) /\ Rings(m1, Giving(m, I))
    /\ Giving(m1, I) = Giving(m, I) \cup {p} /\ (p \in Giving(m, I) <=> m.pool[p].freeblock # <<>>)

(* The pool and the rest after the block came back.                        *)
LEMMA PushKeeps ==
  ASSUME NEW m, m \in Memory, NEW O, NEW I, NEW G, Pools(m, O, I, G), NEW p, NEW b, <<p, b>> \in O,
         NEW m1, m1 = PutPool(m, p, FreedHeader(m.pool[p], b))
  PROVE  Pushed(m, O, I, G, p, b, m1)
<1>1. PICK O2, H, R : O2 = O \ {<<p, b>>} /\ H = HeldOf(O, p) /\ R = Giving(m, I)
  OBVIOUS
<1>2. /\ Counts(m, I, G) /\ Frees(m, G) /\ Rings(m, R) /\ PoolBlocks(m, O, I, G)
      /\ I \in SUBSET Pool /\ G \in SUBSET Pool /\ I \cap G = {}
  BY <1>1 DEF Pools, Counts
<1>3. p \in I /\ b \in Block /\ O2 \subseteq I \X Block
  BY <1>1, <1>2 DEF PoolBlocks
<1>4. p \in Pool /\ p \notin G /\ b \in H
  BY <1>1, <1>2, <1>3 DEF HeldOf
<1>5. GoodPool(m.pool[p], H)
  BY <1>1, <1>2, <1>3 DEF PoolBlocks
<1>6. PICK h, h2 : h = m.pool[p] /\ h2 = FreedHeader(h, b)
  OBVIOUS
<1>7. /\ GoodPool(h2, H \ {b}) /\ h2.freeblock # <<>> /\ h2.szidx = h.szidx
      /\ h2.count = Cardinality(H \ {b})
      /\ h.freeblock = <<>> => H \ {b} # {}
  <2>1. GoodPool(h, H)
    BY <1>5, <1>6
  <2>. QED  BY <1>3, <1>4, <1>6, <2>1, FreedHeaderIs
<1>8. h2 \in pool_header /\ h2.szidx \in SizeClass /\ IsFiniteSet(H \ {b})
  BY <1>7 DEF GoodPool
<1>9. Edited(m, m1, p) /\ m1.pool[p] = h2 /\ m1.nextpool = m.nextpool /\ m1.prevpool = m.prevpool
  BY <1>4, <1>6, <1>8, SetPool
<1>10. m1 \in Memory /\ m1.arenas = m.arenas /\ \A q \in Pool : q # p => m1.pool[q] = m.pool[q]
  BY <1>9 DEF Edited
<1>11. HeldOf(O2, p) = H \ {b} /\ \A q : q # p => HeldOf(O2, q) = HeldOf(O, q)
  BY <1>1 DEF HeldOf
<1>12. Counts(m1, I, G)
  BY <1>2, <1>9, EditedKeeps
<1>13. Frees(m1, G)
  BY <1>2, <1>9, <1>10, FreesFrame
<1>14. R \subseteq I
  BY <1>1 DEF Giving
<1>15. \A q \in R : m1.pool[q].szidx = m.pool[q].szidx
  <2>. SUFFICES ASSUME NEW q \in R PROVE m1.pool[q].szidx = m.pool[q].szidx
    OBVIOUS
  <2>1. CASE q = p
    BY <1>6, <1>7, <1>9, <2>1
  <2>2. CASE q # p
    BY <1>2, <1>10, <1>14, <2>2
  <2>. QED  BY <2>1, <2>2
<1>16. Rings(m1, R)
  BY <1>2, <1>9, <1>15, RingsFrame
<1>17. Giving(m1, I) = R \cup {p}
  <2>1. \A q : q # p => (q \in Giving(m1, I) <=> q \in R)
    BY <1>1, <1>2, <1>10 DEF Giving
  <2>2. p \in Giving(m1, I)
    BY <1>3, <1>7, <1>9 DEF Giving
  <2>. QED  BY <2>1, <2>2
<1>18. p \in R <=> m.pool[p].freeblock # <<>>
  BY <1>1, <1>3 DEF Giving
<1>. QED  BY <1>1, <1>2, <1>3, <1>4, <1>6, <1>7, <1>8, <1>9, <1>10, <1>11, <1>12, <1>13, <1>16, <1>17, <1>18 DEF Pushed

(* The pool still has blocks the client holds.                             *)
LEMMA PushedBlocks ==
  ASSUME NEW m, NEW O, NEW I, NEW G, PoolBlocks(m, O, I, G), NEW p, NEW b, NEW m1, Pushed(m, O, I, G, p, b, m1),
         NEW O2, O2 = O \ {<<p, b>>}, HeldOf(O2, p) # {}
  PROVE  PoolBlocks(m1, O2, I, G)
<1>1. /\ p \in I /\ p \notin G /\ Edited(m, m1, p) /\ I \subseteq Pool /\ G \subseteq Pool /\ I \cap G = {}
      /\ GoodPool(m1.pool[p], HeldOf(O2, p)) /\ O2 \subseteq I \X Block
      /\ \A q \in I : q # p => HeldOf(O2, q) = HeldOf(O, q)
  BY DEF Pushed
<1>2. PICK J : J = I \cup {p}
  OBVIOUS
<1>3. J = I
  BY <1>1, <1>2
<1>4. /\ Edited(m, m1, p) /\ PoolBlocks(m, O, I, G) /\ I \subseteq Pool /\ G \subseteq Pool /\ p \notin G
      /\ J = I \cup {p} /\ O2 \subseteq J \X Block
      /\ \A q \in I : q # p => HeldOf(O2, q) = HeldOf(O, q)
      /\ HeldOf(O2, p) # {} /\ GoodPool(m1.pool[p], HeldOf(O2, p)) /\ I \cap G = {}
  BY <1>1, <1>2, <1>3
<1>5. PoolBlocks(m1, O2, J, G)
  BY ONLY <1>4, BlocksEdit
<1>. QED  BY <1>3, <1>5

(* A pool that was full is the first of its ring again.                    *)
LEMMA RelinkKeeps ==
  ASSUME NEW m, m \in Memory, NEW O, NEW I, NEW G, Pools(m, O, I, G), NEW p, NEW b,
         NEW m1, Pushed(m, O, I, G, p, b, m1), m.pool[p].freeblock = <<>>,
         NEW r, r = LinkFirst(m1, p), NEW O2, O2 = O \ {<<p, b>>}
  PROVE  Edited(m, r, p) /\ Pools(r, O2, I, G)
<1>1. PICK R, c : R = Giving(m, I) /\ c = m.pool[p].szidx
  OBVIOUS
<1>2. /\ p \in I /\ p \in Pool /\ p \notin G /\ p \notin R /\ I \in SUBSET Pool /\ G \in SUBSET Pool
      /\ m1 \in Memory /\ Edited(m, m1, p) /\ c \in SizeClass /\ m1.pool[p].szidx = c
      /\ Counts(m1, I, G) /\ Frees(m1, G) /\ Rings(m1, R) /\ Giving(m1, I) = R \cup {p}
      /\ HeldOf(O2, p) # {}
  BY <1>1 DEF Pushed
<1>3. PICK N, n : N = OfClass(m1, R, c) /\ n = m1.nextpool[PTA(c)]
  OBVIOUS
<1>4. Ringed(PTA(c), m1.nextpool, m1.prevpool, N) /\ N \subseteq R /\ R \in SUBSET Pool
  BY <1>2, <1>3 DEF Rings, OfClass
<1>5. n \in N \cup {PTA(c)} /\ m1.prevpool[n] = PTA(c)
  BY <1>3, <1>4 DEF Ringed
<1>6. n \in Node /\ n # p
  BY <1>2, <1>4, <1>5, NodesAre
<1>7. Edited(m1, r, p) /\ r.pool = m1.pool /\ Joins(m1, r, p, c)
  BY <1>2, <1>3, <1>5, <1>6, LinkFirstIs
<1>8. Rings(r, R \cup {p}) /\ \A t \in Pool \ {p} : r.nextpool[t] = m1.nextpool[t]
  <2>1. /\ Rings(m1, R) /\ p \in Pool /\ p \notin R /\ c \in SizeClass /\ Joins(m1, r, p, c)
        /\ r.pool[p].szidx = c /\ \A q \in R : r.pool[q].szidx = m1.pool[q].szidx
    BY <1>2, <1>7
  <2>2. Rings(r, R \cup {p})
    BY ONLY <2>1, JoinsKeep
  <2>3. \A t \in Pool \ {p} : r.nextpool[t] = m1.nextpool[t]
    <3>. SUFFICES ASSUME NEW t \in Pool, t # p  PROVE r.nextpool[t] = m1.nextpool[t]
      OBVIOUS
    <3>1. t \in Node /\ t # PTA(c)
      BY <1>2, NodesAre
    <3>. QED  BY <1>7, <3>1 DEF Joins
  <2>. QED  BY <2>2, <2>3
<1>9. Frees(r, G)
  <2>1. r.arenas = m1.arenas /\ \A q \in G : r.nextpool[q] = m1.nextpool[q]
    BY <1>2, <1>7, <1>8 DEF Edited
  <2>. QED  BY <1>2, <2>1, FreesFrame
<1>10. Counts(r, I, G)
  BY <1>2, <1>7, EditedKeeps
<1>11. Giving(r, I) = R \cup {p}
  BY <1>2, <1>7 DEF Giving
<1>12. PoolBlocks(r, O2, I, G)
  <2>1. PoolBlocks(m, O, I, G)
    BY DEF Pools
  <2>2. PoolBlocks(m1, O2, I, G)
    BY <1>2, <2>1, PushedBlocks
  <2>. QED  BY <1>7, <2>2 DEF PoolBlocks
<1>13. Edited(m, r, p)
  BY <1>2, <1>7, EditedTwice
<1>. QED  BY <1>8, <1>9, <1>10, <1>11, <1>12, <1>13 DEF Pools

(* A pool that became empty is in no ring and the first free pool of its   *)
(* arena.                                                                  *)
Emptied(m, O2, I, G, p, a, r) ==
    /\ r \in Memory /\ Raised(m, r, a)
    /\ Pools(r, O2, I \ {p}, G \cup {p})

(* A pool without blocks in use becomes free.                              *)
LEMMA EmptiedKeeps ==
  ASSUME NEW m, m \in Memory, Busy(m), NEW O, NEW I, NEW G, Pools(m, O, I, G), NEW p, NEW b,
         NEW m1, Pushed(m, O, I, G, p, b, m1), m.pool[p].freeblock # <<>>, m1.pool[p].count = 0,
         NEW a, a = ArenaOf(p), NEW r, r = ToArena(Unlink(m1, p), p), NEW O2, O2 = O \ {<<p, b>>}
  PROVE  Emptied(m, O2, I, G, p, a, r) /\ a \in Arena /\ m.arenas[a].used
<1>1. PICK R, m2, J, F, S : /\ R = Giving(m, I) /\ m2 = Unlink(m1, p) /\ J = I \ {p} /\ F = G \cup {p}
                            /\ S = R \ {p}
  OBVIOUS
<1>2. /\ p \in I /\ p \in Pool /\ p \notin G /\ p \in R /\ I \in SUBSET Pool /\ G \in SUBSET Pool
      /\ I \cap G = {} /\ m1 \in Memory /\ Edited(m, m1, p)
      /\ Counts(m1, I, G) /\ Frees(m1, G) /\ Rings(m1, R) /\ Giving(m1, I) = R \cup {p}
      /\ R \subseteq I
  BY <1>1 DEF Pushed, Giving
<1>3. HeldOf(O2, p) = {} /\ GoodPool(m1.pool[p], {}) /\ O2 \subseteq I \X Block
      /\ \A q : q # p => HeldOf(O2, q) = HeldOf(O, q)
  <2>1. /\ IsFiniteSet(HeldOf(O2, p)) /\ Cardinality(HeldOf(O2, p)) = 0
        /\ GoodPool(m1.pool[p], HeldOf(O2, p)) /\ O2 \subseteq I \X Block
        /\ \A q : q # p => HeldOf(O2, q) = HeldOf(O, q)
    BY DEF Pushed
  <2>2. HeldOf(O2, p) = {}
    BY <2>1, FS_EmptySet
  <2>. QED  BY <2>1, <2>2
<1>4. /\ Edited(m1, m2, p) /\ m2.pool = m1.pool /\ Frees(m2, G) /\ Rings(m2, S)
  BY <1>1, <1>2, UnlinkFullKeeps
<1>5. Counts(m2, I, G) /\ m2 \in Memory /\ \A x \in Arena : m2.arenas[x] = m.arenas[x]
  <2>1. Edited(m, m2, p)
    BY <1>2, <1>4, EditedTwice
  <2>. QED  BY <1>2, <1>4, <2>1, EditedKeeps DEF Edited
<1>6. a \in Arena /\ p \in PoolsOf(a)
  BY <1>2, PoolNumbers, PoolsOfIs
<1>7. m.arenas[a].used /\ Counts(m, I, G) /\ PoolBlocks(m, O, I, G)
  BY <1>2 DEF Pools, Counts
<1>8. m2.arenas[a].nfreepools + 1 <= PoolsPerArena
  <2>1. PICK nf, nt \in Nat : nf = m.arenas[a].nfreepools /\ nt = m.arenas[a].ntotalpools
    BY <1>6, ArenaTyped
  <2>2. nt <= PoolsPerArena /\ PoolsPerArena \in Nat
    BY <1>6, <2>1, ArenaTyped, PoolNumbers
  <2>3. nf < nt
    BY <1>6, <1>7, <2>1 DEF Busy
  <2>4. nf + 1 <= PoolsPerArena
    BY <2>1, <2>2, <2>3
  <2>. QED  BY <1>5, <1>6, <2>1, <2>4
<1>9. Shelved(m2, r, a, p)
  BY <1>1, <1>2, <1>5, <1>6, <1>8, ToArenaIs
<1>10. Counts(r, J, F) /\ Frees(r, F) /\ Rings(r, S)
  <2>1. p \notin S /\ S \subseteq I
    BY <1>1, <1>2
  <2>2. /\ m2 \in Memory /\ Counts(m2, I, G) /\ Frees(m2, G) /\ Rings(m2, S) /\ S \subseteq I
        /\ p \in I /\ p \notin S /\ a \in Arena /\ a = ArenaOf(p) /\ Shelved(m2, r, a, p)
        /\ J = I \ {p} /\ F = G \cup {p}
    BY <1>1, <1>2, <1>4, <1>5, <1>6, <1>9, <2>1
  <2>. QED  BY ONLY <2>2, ShelvedKeeps
<1>11. r.pool = m1.pool /\ r \in Memory
  BY <1>4, <1>9 DEF Shelved
<1>12. \A q \in I \cup G : q # p => r.pool[q] = m.pool[q]
  BY <1>2, <1>11 DEF Edited
<1>13. Giving(r, J) = S
  <2>1. \A q \in J : q \in Giving(r, J) <=> q \in R
    BY <1>1, <1>12 DEF Giving
  <2>2. Giving(r, J) \subseteq J /\ S \subseteq J
    BY <1>1, <1>2 DEF Giving
  <2>3. \A q \in J : q \in S <=> q \in R
    BY <1>1
  <2>. QED  BY <2>1, <2>2, <2>3
<1>14. PoolBlocks(r, O2, J, F)
  <2>1. O2 \subseteq J \X Block
    <3>. SUFFICES ASSUME NEW x \in O2 PROVE x \in J \X Block
      OBVIOUS
    <3>1. PICK q \in I, d \in Block : x = <<q, d>>
      BY <1>3
    <3>2. q # p
      BY <1>3, <3>1 DEF HeldOf
    <3>. QED  BY <1>1, <3>1, <3>2
  <2>2. ASSUME NEW q \in J \cup F  PROVE GoodPool(r.pool[q], HeldOf(O2, q))
    <3>1. CASE q = p
      BY <1>3, <1>11, <3>1
    <3>2. CASE q # p
      <4>1. q \in I \cup G
        BY <1>1, <2>2, <3>2
      <4>. QED  BY <1>3, <1>7, <1>12, <3>2, <4>1 DEF PoolBlocks
    <3>. QED  BY <3>1, <3>2
  <2>3. \A q \in J : HeldOf(O2, q) # {}
    BY <1>1, <1>3, <1>7 DEF PoolBlocks
  <2>. QED  BY <2>1, <2>2, <2>3 DEF PoolBlocks
<1>15. Raised(m, r, a)
  <2>1. /\ r.usable = m.usable /\ r.unused = m.unused /\ r.maxarenas = m.maxarenas
    BY <1>2, <1>4, <1>9 DEF Shelved, Edited
  <2>2. ASSUME NEW x \in Arena
        PROVE  /\ r.arenas[x].used = m.arenas[x].used
               /\ r.arenas[x].nextarena = m.arenas[x].nextarena
               /\ r.arenas[x].prevarena = m.arenas[x].prevarena
               /\ r.arenas[x].ntotalpools = m.arenas[x].ntotalpools
               /\ r.arenas[x].nfreepools = m.arenas[x].nfreepools + (IF x = a THEN 1 ELSE 0)
    <3>1. CASE x = a
      BY <1>5, <1>6, <1>9, <3>1 DEF Shelved
    <3>2. CASE x # a
      <4>1. r.arenas[x] = m.arenas[x]
        BY <1>5, <1>9, <3>2 DEF Shelved
      <4>2. m.arenas[x].nfreepools \in Nat
        BY ArenaTyped
      <4>. QED  BY <3>2, <4>1, <4>2
    <3>. QED  BY <3>1, <3>2
  <2>3. r.arenas[a].used
    BY <1>6, <1>7, <2>2
  <2>. QED  BY <2>1, <2>2, <2>3 DEF Raised
<1>16. Pools(r, O2, J, F)
  BY <1>10, <1>13, <1>14 DEF Pools
<1>. QED  BY <1>1, <1>6, <1>7, <1>11, <1>15, <1>16 DEF Emptied

(* The arena management afterwards.                                        *)
LEMMA ArrangeKeeps ==
  ASSUME NEW m, m \in Memory, Lists(m), Busy(m), NEW O2, NEW I, NEW G, NEW p, NEW a \in Arena,
         m.arenas[a].used, NEW m3, Emptied(m, O2, I, G, p, a, m3), NEW r, r = ArrangeArena(m3, a)
  PROVE  Inv(r, O2) /\ \A x \in Arena : r.arenas[x].used => m.arenas[x].used
<1>1. PICK J, F : J = I \ {p} /\ F = G \cup {p}
  OBVIOUS
<1>2. m3 \in Memory /\ Raised(m, m3, a) /\ Pools(m3, O2, J, F) /\ Counts(m3, J, F)
      /\ J \in SUBSET Pool /\ F \in SUBSET Pool
  BY <1>1 DEF Emptied, Pools, Counts
<1>3. PICK nf, nt, P \in Nat : nf = m.arenas[a].nfreepools /\ nt = m.arenas[a].ntotalpools /\ P = PoolsPerArena
  BY ArenaTyped, PoolNumbers
<1>4. nf < nt /\ nt >= 2
  <2>1. nf < nt
    BY <1>3 DEF Busy
  <2>2. m3.arenas[a].ntotalpools = nt /\ m3.arenas[a].used
    BY <1>2, <1>3 DEF Raised
  <2>3. nt >= P - 1
    BY <1>2, <1>3, <2>2 DEF Counts
  <2>4. P >= 3
    BY <1>3, PoolNumbers
  <2>. QED  BY <2>1, <2>3, <2>4
<1>5. m3.arenas[a].nfreepools = nf + 1 /\ m3.arenas[a].ntotalpools = nt /\ m3.arenas[a].used
      /\ \A x \in Arena : m3.arenas[x].used = m.arenas[x].used
  BY <1>2, <1>3 DEF Raised
<1>6. /\ Lists(r)
      /\ IF m3.arenas[a].nfreepools = m3.arenas[a].ntotalpools THEN Returned(m3, r, a) ELSE OnlyLinks(m3, r)
  <2>1. /\ RaisedAt(m, m3, a) /\ m.arenas[a].ntotalpools >= 2
        /\ m.arenas[a].nfreepools < m.arenas[a].ntotalpools /\ r = ArrangeArena(m3, a)
    BY <1>2, <1>3, <1>4 DEF RaisedAt
  <2>. QED  BY ONLY <2>1, ArrangeLists
<1>7. \A x \in Arena : x # a /\ m3.arenas[x].used => m3.arenas[x].nfreepools < m3.arenas[x].ntotalpools
  <2>. SUFFICES ASSUME NEW x \in Arena, x # a, m3.arenas[x].used
                PROVE  m3.arenas[x].nfreepools < m3.arenas[x].ntotalpools
    OBVIOUS
  <2>1. /\ m3.arenas[x].used = m.arenas[x].used /\ m3.arenas[x].ntotalpools = m.arenas[x].ntotalpools
        /\ m3.arenas[x].nfreepools = m.arenas[x].nfreepools + 0
    BY <1>2 DEF Raised
  <2>2. m.arenas[x].nfreepools \in Nat /\ m.arenas[x].nfreepools < m.arenas[x].ntotalpools
    BY <2>1, ArenaTyped DEF Busy
  <2>. QED  BY <2>1, <2>2
<1>8. CASE nf + 1 = nt
  <2>1. Returned(m3, r, a)
    BY <1>5, <1>6, <1>8
  <2>2. J \cap PoolsOf(a) = {}
    <3>1. PICK N : N = J \cap PoolsOf(a)
      OBVIOUS
    <3>2. IsFiniteSet(N)
      BY <3>1, PoolsOfIs, FS_Subset
    <3>3. PICK k : k = Cardinality(N)
      OBVIOUS
    <3>4. k \in Nat
      BY ONLY <3>2, <3>3, FS_CardinalityType
    <3>5. nf + 1 = nt - k
      BY <1>2, <1>5, <3>1, <3>3 DEF Counts
    <3>6. k = 0
      BY <1>3, <1>8, <3>4, <3>5
    <3>. QED  BY <3>1, <3>2, <3>3, <3>6, FS_EmptySet
  <2>3. Pools(r, O2, J, F \ PoolsOf(a))
    BY <1>2, <2>1, <2>2, ReturnedKeeps
  <2>4. r \in Memory /\ ~r.arenas[a].used
        /\ \A x \in Arena \ {a} : /\ r.arenas[x].used = m3.arenas[x].used
                                  /\ r.arenas[x].nfreepools = m3.arenas[x].nfreepools
                                  /\ r.arenas[x].ntotalpools = m3.arenas[x].ntotalpools
    BY <2>1 DEF Returned, Relinked
  <2>5. Busy(r)
    BY <1>7, <2>4 DEF Busy
  <2>6. F \ PoolsOf(a) \in SUBSET Pool
    BY <1>2
  <2>7. Inv(r, O2)
    BY <1>2, <1>6, <2>3, <2>4, <2>5, <2>6 DEF Inv
  <2>8. \A x \in Arena : r.arenas[x].used => m.arenas[x].used
    BY <1>5, <2>4
  <2>. QED  BY <2>7, <2>8
<1>9. CASE nf + 1 # nt
  <2>1. OnlyLinks(m3, r)
    BY <1>5, <1>6, <1>9
  <2>2. SameNumbers(m3, r) /\ r \in Memory
    BY <2>1 DEF OnlyLinks, KeepsRest, SameNumbers
  <2>3. Busy(m3)
    <3>1. nf + 1 < nt
      BY <1>3, <1>4, <1>9
    <3>. QED  BY <1>5, <1>7, <3>1 DEF Busy
  <2>4. Busy(r) /\ Pools(r, O2, J, F)
    BY <1>2, <2>2, <2>3, BusyFrame, PoolsFrame
  <2>5. Inv(r, O2)
    BY <1>2, <1>6, <2>2, <2>4 DEF Inv
  <2>6. \A x \in Arena : r.arenas[x].used => m.arenas[x].used
    BY <1>5, <2>2 DEF SameNumbers, Relinked
  <2>. QED  BY <2>5, <2>6
<1>. QED  BY <1>8, <1>9

(* PyObject_Free.                                                          *)
LEMMA FreeBlockKeeps ==
  ASSUME NEW m, NEW O, Inv(m, O), NEW p, NEW b, <<p, b>> \in O,
         NEW r, r = FreeBlock(m, p, b), NEW O2, O2 = O \ {<<p, b>>}
  PROVE  Inv(r, O2) /\ \A x \in Arena : r.arenas[x].used => m.arenas[x].used
<1>1. PICK I, G \in SUBSET Pool : Pools(m, O, I, G)
  BY DEF Inv
<1>2. m \in Memory /\ Lists(m) /\ Busy(m)
  BY DEF Inv
<1>3. p \in Pool
  BY <1>1 DEF Pools, PoolBlocks
<1>4. PICK m1 : m1 = PushIs(m, p, b)
  OBVIOUS
<1>5. m1 = PutPool(m, p, FreedHeader(m.pool[p], b))
  BY <1>2, <1>3, <1>4, PushParts
<1>6. Pushed(m, O, I, G, p, b, m1)
  BY <1>1, <1>2, <1>5, PushKeeps
<1>7. r = IF m.pool[p].freeblock = <<>> THEN LinkFirst(m1, p)
          ELSE IF m1.pool[p].count # 0 THEN m1
          ELSE ArrangeArena(ToArena(Unlink(m1, p), p), ArenaOf(p))
  BY <1>4 DEF FreeBlock, PushIs
<1>8. CASE m.pool[p].freeblock = <<>>
  <2>1. r = LinkFirst(m1, p)
    BY <1>7, <1>8
  <2>2. Edited(m, r, p) /\ Pools(r, O2, I, G)
    BY <1>1, <1>2, <1>6, <1>8, <2>1, RelinkKeeps
  <2>3. Lists(r) /\ Busy(r) /\ \A x \in Arena : r.arenas[x] = m.arenas[x]
    BY <1>2, <2>2, EditedKeeps
  <2>4. r \in Memory
    BY <2>2 DEF Edited
  <2>. QED  BY <2>2, <2>3, <2>4 DEF Inv
<1>9. CASE m.pool[p].freeblock # <<>> /\ m1.pool[p].count # 0
  <2>1. r = m1
    BY <1>7, <1>9
  <2>2. Edited(m, r, p) /\ r \in Memory /\ Counts(r, I, G) /\ Frees(r, G) /\ Rings(r, Giving(r, I))
    <3>1. Giving(m1, I) = Giving(m, I)
      BY <1>6, <1>9 DEF Pushed
    <3>. QED  BY <1>6, <2>1, <3>1 DEF Pushed
  <2>3. HeldOf(O2, p) # {}
    <3>1. m1.pool[p].count = Cardinality(HeldOf(O2, p))
      BY <1>6 DEF Pushed
    <3>. QED  BY <1>9, <3>1, FS_EmptySet
  <2>4. PoolBlocks(r, O2, I, G)
    <3>1. PoolBlocks(m, O, I, G)
      BY <1>1 DEF Pools
    <3>. QED  BY <1>6, <2>1, <2>3, <3>1, PushedBlocks
  <2>5. Lists(r) /\ Busy(r) /\ \A x \in Arena : r.arenas[x] = m.arenas[x]
    BY <1>2, <2>2, EditedKeeps
  <2>. QED  BY <2>2, <2>4, <2>5 DEF Inv, Pools
<1>10. CASE m.pool[p].freeblock # <<>> /\ m1.pool[p].count = 0
  <2>1. PICK a, m3 : a = ArenaOf(p) /\ m3 = ToArena(Unlink(m1, p), p)
    OBVIOUS
  <2>2. r = ArrangeArena(m3, a)
    BY <1>7, <1>10, <2>1
  <2>3. Emptied(m, O2, I, G, p, a, m3) /\ a \in Arena /\ m.arenas[a].used
    BY <1>1, <1>2, <1>6, <1>10, <2>1, EmptiedKeeps
  <2>. QED  BY <1>2, <2>2, <2>3, ArrangeKeeps
<1>. QED  BY <1>8, <1>9, <1>10

(* The first memory has its type.                                          *)
LEMMA NoMemoryTyped == NoMemory \in Memory
<1>1. NoArena \in arena_object /\ RawPool \in pool_header
  <2>1. NoArena \in arena_object
    <3>1. PoolsPerArena \in Nat /\ MaxArenaObjects * PoolsPerArena \in Nat
      BY PoolNumbers
    <3>. QED  BY <3>1 DEF NoArena, arena_object
  <2>. QED  BY <2>1, RawPoolIs
<1>2. PICK nx : nx = [n \in Node |-> IF n \in Pool THEN Nil ELSE n]
  OBVIOUS
<1>3. nx \in [Node -> Node \cup {Nil}]
  BY <1>2
<1>4. PICK A, PP : A = [a \in Arena |-> NoArena] /\ PP = [p \in Pool |-> RawPool]
  OBVIOUS
<1>5. A \in [Arena -> arena_object] /\ PP \in [Pool -> pool_header]
  BY <1>1, <1>4
<1>6. 0 \in 0 .. MaxArenaObjects
  BY PoolNumbers
<1>7. NoMemory = [maxarenas |-> 0, unused |-> Nil, usable |-> Nil, arenas |-> A, pool |-> PP,
                  nextpool |-> nx, prevpool |-> nx]
  BY <1>2, <1>4 DEF NoMemory
<1>. QED  BY <1>3, <1>5, <1>6, <1>7 DEF Memory

(* The first memory: no arena, every ring its header only.                 *)
LEMMA InitialMemory == Inv(NoMemory, {})
<1>1. PICK m : m = NoMemory
  OBVIOUS
<1>2. /\ m \in Memory /\ m.maxarenas = 0 /\ m.unused = Nil /\ m.usable = Nil
      /\ \A a \in Arena : ~m.arenas[a].used
      /\ \A c \in SizeClass : m.nextpool[PTA(c)] = PTA(c) /\ m.prevpool[PTA(c)] = PTA(c)
  <2>1. m \in Memory
    BY <1>1, NoMemoryTyped
  <2>2. m.maxarenas = 0 /\ m.unused = Nil /\ m.usable = Nil
    BY <1>1 DEF NoMemory
  <2>3. \A a \in Arena : ~m.arenas[a].used
    BY <1>1 DEF NoMemory, NoArena
  <2>4. \A c \in SizeClass : m.nextpool[PTA(c)] = PTA(c) /\ m.prevpool[PTA(c)] = PTA(c)
    BY <1>1, NodesAre DEF NoMemory
  <2>. QED  BY <2>1, <2>2, <2>3, <2>4
<1>3. Usables(m) = {} /\ Unuseds(m) = {}
  BY <1>2 DEF Usables, Unuseds
<1>4. Lists(m)
  <2>1. Chained(Nil, Nexts(m), {})
    BY EmptyChained
  <2>2. Doubly(Nil, Nexts(m), Prevs(m), {})
    BY <2>1 DEF Doubly
  <2>. QED  BY <1>2, <1>3, <2>1, <2>2 DEF Lists
<1>5. Busy(m)
  BY <1>2 DEF Busy
<1>6. Counts(m, {}, {}) /\ Frees(m, {}) /\ PoolBlocks(m, {}, {}, {})
  <2>1. Counts(m, {}, {})
    BY <1>2, PoolNumbers DEF Counts
  <2>. QED  BY <1>2, <2>1 DEF Frees, PoolBlocks
<1>7. Rings(m, {})
  <2>. SUFFICES ASSUME NEW c \in SizeClass
                PROVE  Ringed(PTA(c), m.nextpool, m.prevpool, OfClass(m, {}, c))
    BY DEF Rings
  <2>1. OfClass(m, {}, c) = {}
    BY DEF OfClass
  <2>2. Ringed(PTA(c), m.nextpool, m.prevpool, {})
    BY <1>2 DEF Ringed
  <2>. QED  BY <2>1, <2>2
<1>8. Giving(m, {}) = {}
  BY DEF Giving
<1>. QED  BY <1>1, <1>2, <1>4, <1>5, <1>6, <1>7, <1>8 DEF Inv, Pools

(* A block is a pair.                                                      *)
LEMMA OwnedPair ==
  ASSUME NEW m, NEW O, Inv(m, O), NEW bp \in O
  PROVE  bp = <<bp[1], bp[2]>> /\ bp # NOBLOCK /\ bp[1] \in Pool
<1>1. PICK I, G \in SUBSET Pool : Pools(m, O, I, G)
  BY DEF Inv
<1>2. bp \in Pool \X Block
  BY <1>1 DEF Pools, PoolBlocks
<1>. QED  BY <1>2, PoolNumbers DEF NOBLOCK

(* What a step does to the memory and to the client's blocks; a new arena  *)
(* is used only when none was usable.                                      *)
Stepped(m, O, r, O2) ==
    /\ Inv(r, O2)
    /\ \A x \in Arena : r.arenas[x].used /\ ~m.arenas[x].used => m.usable = Nil

(* A step of PyObject_Malloc.                                              *)
LEMMA MallocStepKeeps ==
  ASSUME Inv(mem, owned), NEW nbytes, PyObject_Malloc(nbytes)
  PROVE  Stepped(mem, owned, mem', owned')
<1>1. PICK sys, r : r = Allocate(mem, nbytes, sys) /\ mem' = r.m /\ owned' = owned \cup ({r.bp} \ {NOBLOCK})
  BY DEF PyObject_Malloc
<1>2. Serves(mem, owned, r)
  BY <1>1, AllocateKeeps
<1>3. CASE r.bp = NOBLOCK /\ Inv(r.m, owned)
  <2>1. owned' = owned
    BY <1>1, <1>3
  <2>. QED  BY <1>1, <1>2, <1>3, <2>1 DEF Stepped, Serves
<1>4. CASE r.bp \in Pool \X Block /\ Inv(r.m, owned \cup {r.bp})
  <2>1. r.bp # NOBLOCK
    BY <1>4, PoolNumbers DEF NOBLOCK
  <2>2. owned' = owned \cup {r.bp}
    BY <1>1, <2>1
  <2>. QED  BY <1>1, <1>2, <1>4, <2>2 DEF Stepped, Serves
<1>. QED  BY <1>2, <1>3, <1>4 DEF Serves

(* A step of PyObject_Free.                                                *)
LEMMA FreeStepKeeps ==
  ASSUME Inv(mem, owned), NEW bp \in owned, PyObject_Free(bp)
  PROVE  Stepped(mem, owned, mem', owned')
<1>1. PICK m, O, r, O2, p, b : /\ m = mem /\ O = owned /\ r = mem' /\ O2 = owned'
                               /\ p = bp[1] /\ b = bp[2]
  OBVIOUS
<1>2. <<p, b>> \in O /\ r = FreeBlock(m, p, b) /\ O2 = O \ {<<p, b>>} /\ Inv(m, O)
  BY <1>1, OwnedPair DEF PyObject_Free
<1>3. Inv(r, O2) /\ \A x \in Arena : r.arenas[x].used => m.arenas[x].used
  BY ONLY <1>2, FreeBlockKeeps
<1>. QED  BY <1>1, <1>3 DEF Stepped

(* A step of PyObject_Realloc: the new block is had while the old one is   *)
(* still held.                                                             *)
LEMMA ReallocStepKeeps ==
  ASSUME Inv(mem, owned), NEW bp \in owned, NEW nbytes, PyObject_Realloc(bp, nbytes)
  PROVE  Stepped(mem, owned, mem', owned')
<1>1. PICK sys, r : /\ r = Allocate(mem, nbytes, sys)
                    /\ \/ /\ mem' = FreeBlock(r.m, bp[1], bp[2])
                          /\ owned' = (owned \union ({r.bp} \ {NOBLOCK})) \ {bp}
                       \/ r.bp = NOBLOCK /\ mem' = r.m /\ UNCHANGED owned
  BY DEF PyObject_Realloc
<1>2. Serves(mem, owned, r)
  BY <1>1, AllocateKeeps
<1>3. PICK O : O = owned \cup ({r.bp} \ {NOBLOCK})
  OBVIOUS
<1>4. Inv(r.m, O)
  <2>1. CASE r.bp = NOBLOCK /\ Inv(r.m, owned)
    <3>1. O = owned
      BY <1>3, <2>1
    <3>. QED  BY <2>1, <3>1
  <2>2. CASE r.bp \in Pool \X Block /\ Inv(r.m, owned \cup {r.bp})
    <3>1. r.bp # NOBLOCK
      BY <2>2, PoolNumbers DEF NOBLOCK
    <3>2. O = owned \cup {r.bp}
      BY <1>3, <3>1
    <3>. QED  BY <2>2, <3>2
  <2>. QED  BY <1>2, <2>1, <2>2 DEF Serves
<1>5. \A x \in Arena : r.m.arenas[x].used /\ ~mem.arenas[x].used => mem.usable = Nil
  BY <1>2 DEF Serves
<1>6. CASE mem' = FreeBlock(r.m, bp[1], bp[2]) /\ owned' = O \ {bp}
  <2>1. PICK m, k, O2, p, b : m = r.m /\ k = mem' /\ O2 = owned' /\ p = bp[1] /\ b = bp[2]
    OBVIOUS
  <2>2. bp = <<p, b>> /\ bp \in O
    BY <1>3, <2>1, OwnedPair
  <2>3. Inv(m, O) /\ <<p, b>> \in O /\ k = FreeBlock(m, p, b) /\ O2 = O \ {<<p, b>>}
    BY <1>4, <1>6, <2>1, <2>2
  <2>4. Inv(k, O2) /\ \A x \in Arena : k.arenas[x].used => m.arenas[x].used
    BY ONLY <2>3, FreeBlockKeeps
  <2>. QED  BY <1>5, <2>1, <2>4 DEF Stepped
<1>7. CASE r.bp = NOBLOCK /\ mem' = r.m /\ UNCHANGED owned
  <2>1. O = owned'
    BY <1>3, <1>7
  <2>. QED  BY <1>4, <1>5, <1>7, <2>1 DEF Stepped
<1>. QED  BY <1>1, <1>3, <1>6, <1>7

(* Every step.                                                             *)
LEMMA StepKeeps ==
  ASSUME Inv(mem, owned), ObNext
  PROVE  Stepped(mem, owned, mem', owned')
BY MallocStepKeeps, FreeStepKeeps, ReallocStepKeeps DEF ObNext

ObInv == program = "obmalloc" /\ Inv(mem, owned)

(* The inductive invariant of obmalloc.c.                                  *)
THEOREM ObInvariant == ObSpec => []ObInv
<1>1. ObInit => ObInv
  BY InitialMemory DEF ObInit, ObInv
<1>2. ObInv /\ [ObNext]_obvars => ObInv'
  <2>. SUFFICES ASSUME ObInv, [ObNext]_obvars  PROVE ObInv'
    OBVIOUS
  <2>1. CASE ObNext
    <3>1. Inv(mem', owned')
      BY <2>1, StepKeeps DEF ObInv, Stepped
    <3>2. program' = "obmalloc"
      BY <2>1 DEF ObNext, ObInv
    <3>. QED  BY <3>1, <3>2 DEF ObInv
  <2>2. CASE UNCHANGED obvars
    BY <2>2 DEF obvars, ObInv
  <2>. QED  BY <2>1, <2>2
<1>. QED  BY <1>1, <1>2, PTL DEF ObSpec

(* usedpools' ring of a class holds exactly the pools in use that have a   *)
(* block to give, linked both ways (obmalloc.c, PyObject_Malloc and        *)
(* PyObject_Free).                                                         *)
THEOREM UsedPoolsAreExact == ObSpec => []UsedPoolsExact
<1>1. ObInv => UsedPoolsExact
  BY RingsRight DEF ObInv
<1>. QED  BY <1>1, ObInvariant, PTL

(* Every block cut from a pool in use is held by the client or once in the *)
(* pool's list, and ref.count is the number held (obmalloc.c,              *)
(* PyObject_Malloc and PyObject_Free).                                     *)
THEOREM BlocksAreExact == ObSpec => []BlocksExact
<1>1. ObInv => BlocksExact
  BY BlocksRight DEF ObInv
<1>. QED  BY <1>1, ObInvariant, PTL

(* usable_arenas holds exactly the arenas with a free pool, in order of    *)
(* their number and linked both ways, and unused_arena_objects the rest    *)
(* (obmalloc.c, the four cases in PyObject_Free).                          *)
THEOREM ArenasAreExact == ObSpec => []ArenasExact
<1>1. ObInv => ArenasExact
  BY ArenasRight DEF ObInv
<1>. QED  BY <1>1, ObInvariant, PTL

(* A client that has freed everything leaves no arena behind (obmalloc.c,  *)
(* case 1 in PyObject_Free).                                               *)
THEOREM NothingIsRetained == ObSpec => []NothingRetained
<1>1. ObInv => NothingRetained
  BY NothingKept DEF ObInv
<1>. QED  BY <1>1, ObInvariant, PTL

(* The step that ArenaWhenNeeded allows.                                   *)
ArenaNeeded == \A a, b \in Arena : /\ program = "obmalloc"
                                   /\ ~mem.arenas[a].used /\ mem'.arenas[a].used
                                   /\ mem.arenas[b].used
                                   => mem.arenas[b].nfreepools = 0

(* Without a usable arena no arena has a free pool.                        *)
LEMMA NoneUsable ==
  ASSUME NEW m, NEW O, Inv(m, O), m.usable = Nil, NEW b \in Arena, m.arenas[b].used
  PROVE  m.arenas[b].nfreepools = 0
<1>1. m \in Memory /\ Lists(m)
  BY DEF Inv
<1>2. Usables(m) = {}
  BY <1>1, ListsAre
<1>3. m.arenas[b].nfreepools \in Nat /\ ~(m.arenas[b].nfreepools > 0)
  BY <1>1, <1>2, ArenaTyped DEF Usables
<1>. QED  BY <1>3

(* A new arena is used only when no other has a free pool (obmalloc.c,     *)
(* PyObject_Malloc up to new_arena).                                       *)
THEOREM ArenasAreNeeded == ObSpec => ArenaWhenNeeded
<1>1. ObInv /\ [ObNext]_obvars => [ArenaNeeded]_obvars
  <2>. SUFFICES ASSUME ObInv, ObNext  PROVE ArenaNeeded
    OBVIOUS
  <2>1. Stepped(mem, owned, mem', owned')
    BY StepKeeps DEF ObInv
  <2>2. ASSUME NEW a \in Arena, NEW b \in Arena, ~mem.arenas[a].used, mem'.arenas[a].used, mem.arenas[b].used
        PROVE  mem.arenas[b].nfreepools = 0
    <3>1. mem.usable = Nil
      BY <2>1, <2>2 DEF Stepped
    <3>. QED  BY <2>2, <3>1, NoneUsable DEF ObInv
  <2>. QED  BY <2>2 DEF ArenaNeeded
<1>2. ObSpec => [][ArenaNeeded]_obvars
  BY <1>1, ObInvariant, PTL DEF ObSpec
<1>. QED  BY <1>2 DEF ArenaWhenNeeded, ArenaNeeded
=============================================================================
