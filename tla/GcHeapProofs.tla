---------------------------- MODULE GcHeapProofs ----------------------------
(***************************************************************************)
(* Lemmas about gc.c for the proofs of its clients: on a heap whose blocks *)
(* are all multiples of the one size that is asked for, gc_malloc, gc_free *)
(* and gc_init keep the blocks tiling the heaps and the free list exact,   *)
(* for heaps of any size.                                                  *)
(***************************************************************************)
EXTENDS GcHeap, BasicLemmas

(***************************************************************************)
(* The free list, without its order in memory: fl is the head, nx[n] the   *)
(* link of node n, N the nodes.                                            *)
(***************************************************************************)
Closed(S, nx) == \A n \in S : nx[n] \in S \cup {NULL}

ListOf(fl, nx, N) ==
    /\ N \in SUBSET Addr
    /\ fl \in N \cup {NULL} /\ (fl = NULL => N = {})
    /\ \A n \in N : nx[n] \in N \cup {NULL} /\ nx[n] # fl
    /\ \A m, n \in N : nx[m] = nx[n] => m = n \/ nx[m] = NULL
    /\ \A S \in SUBSET N : fl \in S /\ Closed(S, nx) => S = N

(***************************************************************************)
(* The blocks: hs are the heaps, sz[b] the size of block b, B the blocks,  *)
(* every one a multiple of r.                                              *)
(***************************************************************************)
End(s) == s.slot + s.size

HeapsOK(hs) ==
    /\ hs \in Seq([slot : Addr, size : 1 .. MaxAddr])
    /\ \A i \in 1 .. Len(hs) : End(hs[i]) <= MaxAddr + 1
    /\ \A i, j \in 1 .. Len(hs) : i < j => End(hs[i]) < hs[j].slot

Multiple(n, r) == \E k \in Nat : n = k * r

InHeap(b, s, sz, B) ==
    /\ s.slot <= b /\ b + sz[b] <= End(s)
    /\ b + sz[b] = End(s) \/ b + sz[b] \in B

Tiles(B, sz, hs, r) ==
    /\ B \in SUBSET Addr
    /\ \A b \in B : sz[b] \in 1 .. MaxAddr /\ Multiple(sz[b], r)
    /\ \A i \in 1 .. Len(hs) : hs[i].slot \in B
    /\ \A b \in B : \E i \in 1 .. Len(hs) : InHeap(b, hs[i], sz, B)
    /\ \A b, c \in B : b < c => b + sz[b] <= c

Header == [size : 0 .. MaxAddr, next_free : Addr \cup {NULL}, flags : SUBSET {"ALLOC"}]

Sizes(hdr) == [a \in Addr |-> hdr[a].size]
Links(hdr) == [a \in Addr |-> hdr[a].next_free]

(* A heap whose blocks are B and whose free blocks are N.                  *)
Good(fl, hs, hdr, N, B, r) ==
    /\ hdr \in [Addr -> Header]
    /\ HeapsOK(hs)
    /\ Tiles(B, Sizes(hdr), hs, r)
    /\ ListOf(fl, Links(hdr), N)
    /\ N \subseteq B

Well(h, N, B, r) ==
    /\ h = [free_list |-> h.free_list, heaps |-> h.heaps, hdr |-> h.hdr]
    /\ Good(h.free_list, h.heaps, h.hdr, N, B, r)

LEMMA Constants ==
  /\ MaxAddr \in Nat \ {0} /\ TINY_HEAP_SIZE \in Nat \ {0} /\ Addr \subseteq Nat
  /\ NULL = 0 /\ NULL \notin Addr
BY HeapAssumption DEF Addr, NULL

(***************************************************************************)
(* The list operations.                                                    *)
(***************************************************************************)
LEMMA NoLoop ==
  ASSUME NEW fl, NEW nx, NEW N, ListOf(fl, nx, N), NEW n \in N
  PROVE  nx[n] # n
<1>. SUFFICES ASSUME nx[n] = n  PROVE FALSE
  OBVIOUS
<1>1. n # fl /\ fl \in N
  BY DEF ListOf
<1>2. Closed(N \ {n}, nx)
  BY Constants DEF ListOf, Closed
<1>. QED  BY <1>1, <1>2 DEF ListOf

(* A new node t behind hit.                                                *)
LEMMA InsertBehind ==
  ASSUME NEW fl, NEW nx, NEW N, ListOf(fl, nx, N), NEW hit \in N,
         NEW t \in Addr, t \notin N, NEW nx2,
         nx2[hit] = t, nx2[t] = nx[hit], \A n \in N : n # hit => nx2[n] = nx[n]
  PROVE  ListOf(fl, nx2, N \cup {t})
<1>1. t # NULL /\ fl \in N /\ fl # t
  BY Constants DEF ListOf
<1>2. \A n \in N \cup {t} : nx2[n] \in N \cup {t, NULL} /\ nx2[n] # fl
  BY <1>1 DEF ListOf
<1>3. \A m, n \in N \cup {t} : nx2[m] = nx2[n] => m = n \/ nx2[m] = NULL
  BY <1>1 DEF ListOf
<1>4. ASSUME NEW S \in SUBSET (N \cup {t}), fl \in S, Closed(S, nx2)
      PROVE  S = N \cup {t}
  <2>1. Closed(S \ {t}, nx)
    BY <1>1, <1>4 DEF Closed, ListOf
  <2>2. S \ {t} = N
    BY <1>1, <1>4, <2>1 DEF ListOf
  <2>. QED  BY <1>1, <1>4, <2>2 DEF Closed
<1>. QED  BY <1>1, <1>2, <1>3, <1>4 DEF ListOf

(* t takes the place of the node behind hit.                               *)
LEMMA ReplaceBehind ==
  ASSUME NEW fl, NEW nx, NEW N, ListOf(fl, nx, N), NEW hit \in N, nx[hit] # NULL,
         NEW t \in Addr, t \notin N, NEW nx2,
         nx2[hit] = t, nx2[t] = nx[nx[hit]],
         \A n \in N : n # hit /\ n # nx[hit] => nx2[n] = nx[n]
  PROVE  ListOf(fl, nx2, (N \ {nx[hit]}) \cup {t})
<1>. DEFINE x == nx[hit]
            M == (N \ {x}) \cup {t}
<1>a. t # NULL /\ fl \in N /\ fl # t /\ x \in N /\ x # fl
  BY Constants DEF ListOf
<1>b. x # hit /\ nx[x] # x
  BY <1>a, NoLoop
<1>1. t # NULL /\ fl \in N /\ fl # t /\ x \in N /\ x # fl /\ x # hit /\ nx[x] # x
  BY <1>a, <1>b
<1>2. \A n \in N : nx[n] = x => n = hit
  BY <1>1 DEF ListOf
<1>. HIDE DEF x
<1>0. nx2[hit] = t /\ nx2[t] = nx[x] /\ nx[hit] = x
      /\ \A n \in N : n # hit /\ n # x => nx2[n] = nx[n]
  BY DEF x
<1>3. \A n \in M : nx2[n] \in M \cup {NULL} /\ nx2[n] # fl
  BY <1>0, <1>1, <1>2 DEF ListOf
<1>4. \A m, n \in M : nx2[m] = nx2[n] => m = n \/ nx2[m] = NULL
  BY <1>0, <1>1, <1>2 DEF ListOf
<1>5. ASSUME NEW S \in SUBSET M, fl \in S, Closed(S, nx2)
      PROVE  S = M
  <2>. DEFINE T == (S \ {t}) \cup (IF t \in S THEN {x} ELSE {})
  <2>1. T \in SUBSET N /\ fl \in T
    BY <1>1, <1>5
  <2>2. Closed(T, nx)
    <3>. SUFFICES ASSUME NEW n \in T  PROVE nx[n] \in T \cup {NULL}
      BY DEF Closed
    <3>1. CASE n = x
      <4>1. t \in S
        BY <1>5, <3>1
      <4>2. nx[x] \in S \cup {NULL} /\ nx[x] # t
        BY <4>1, <1>0, <1>1, <1>5 DEF Closed, ListOf
      <4>. QED  BY <3>1, <4>2
    <3>2. CASE n = hit
      BY <3>2, <1>0, <1>1, <1>5 DEF Closed
    <3>3. CASE n # x /\ n # hit
      <4>1. n \in S /\ n \in N
        BY <3>3, <1>5
      <4>2. nx[n] \in S \cup {NULL} /\ nx[n] # t
        BY <4>1, <3>3, <1>0, <1>1, <1>5 DEF Closed, ListOf
      <4>. QED  BY <4>2
    <3>. QED  BY <3>1, <3>2, <3>3
  <2>3. T = N
    BY <2>1, <2>2 DEF ListOf
  <2>. QED  BY <1>1, <1>5, <2>3
<1>6. M \in SUBSET Addr /\ fl \in M
  BY <1>1 DEF ListOf
<1>7. ListOf(fl, nx2, M)
  BY <1>1, <1>3, <1>4, <1>5, <1>6, Constants DEF ListOf
<1>. QED  BY <1>7 DEF x

(* The node behind hit leaves the list.                                    *)
LEMMA DropBehind ==
  ASSUME NEW fl, NEW nx, NEW N, ListOf(fl, nx, N), NEW hit \in N, nx[hit] # NULL,
         NEW nx2, nx2[hit] = nx[nx[hit]],
         \A n \in N : n # hit /\ n # nx[hit] => nx2[n] = nx[n]
  PROVE  ListOf(fl, nx2, N \ {nx[hit]})
<1>. DEFINE x == nx[hit]
            M == N \ {x}
<1>a. fl \in N /\ x \in N /\ x # fl
  BY Constants DEF ListOf
<1>b. x # hit /\ nx[x] # x
  BY <1>a, NoLoop
<1>1. fl \in N /\ x \in N /\ x # fl /\ x # hit /\ nx[x] # x
  BY <1>a, <1>b
<1>2. \A n \in N : nx[n] = x => n = hit
  BY <1>1 DEF ListOf
<1>. HIDE DEF x
<1>0. nx2[hit] = nx[x] /\ nx[hit] = x
      /\ \A n \in N : n # hit /\ n # x => nx2[n] = nx[n]
  BY DEF x
<1>3. \A n \in M : nx2[n] \in M \cup {NULL} /\ nx2[n] # fl
  BY <1>0, <1>1, <1>2 DEF ListOf
<1>4. \A m, n \in M : nx2[m] = nx2[n] => m = n \/ nx2[m] = NULL
  BY <1>0, <1>1, <1>2 DEF ListOf
<1>5. ASSUME NEW S \in SUBSET M, fl \in S, Closed(S, nx2)
      PROVE  S = M
  <2>. DEFINE T == IF hit \in S THEN S \cup {x} ELSE S
  <2>1. T \in SUBSET N /\ fl \in T
    BY <1>1, <1>5
  <2>2. Closed(T, nx)
    <3>. SUFFICES ASSUME NEW n \in T  PROVE nx[n] \in T \cup {NULL}
      BY DEF Closed
    <3>1. CASE n = x
      BY <3>1, <1>0, <1>1, <1>5 DEF Closed
    <3>2. CASE n = hit
      BY <3>2, <1>0, <1>1, <1>5 DEF Closed
    <3>3. CASE n # x /\ n # hit
      BY <3>3, <1>0, <1>1, <1>5 DEF Closed
    <3>. QED  BY <3>1, <3>2, <3>3
  <2>3. T = N
    BY <2>1, <2>2 DEF ListOf
  <2>. QED  BY <1>1, <1>5, <2>3
<1>6. M \in SUBSET Addr /\ fl \in M
  BY <1>1 DEF ListOf
<1>7. ListOf(fl, nx2, M)
  BY <1>1, <1>3, <1>4, <1>5, <1>6, Constants DEF ListOf
<1>. QED  BY <1>7 DEF x

(* t takes the place of the head.                                          *)
LEMMA ReplaceHead ==
  ASSUME NEW fl, NEW nx, NEW N, ListOf(fl, nx, N), fl # NULL,
         NEW t \in Addr, t \notin N, NEW nx2,
         nx2[t] = nx[fl], \A n \in N : n # fl => nx2[n] = nx[n]
  PROVE  ListOf(t, nx2, (N \ {fl}) \cup {t})
<1>. DEFINE M == (N \ {fl}) \cup {t}
<1>1. t # NULL /\ fl \in N /\ fl # t /\ M \in SUBSET Addr
  BY Constants DEF ListOf
<1>2. \A n \in M : nx2[n] \in M \cup {NULL} /\ nx2[n] # t
  BY <1>1 DEF ListOf
<1>3. \A m, n \in M : nx2[m] = nx2[n] => m = n \/ nx2[m] = NULL
  BY <1>1 DEF ListOf
<1>4. ASSUME NEW S \in SUBSET M, t \in S, Closed(S, nx2)
      PROVE  S = M
  <2>1. Closed((S \ {t}) \cup {fl}, nx)
    BY <1>1, <1>4 DEF Closed, ListOf
  <2>2. (S \ {t}) \cup {fl} = N
    BY <1>1, <1>4, <2>1 DEF ListOf
  <2>. QED  BY <1>1, <1>4, <2>2
<1>. QED  BY <1>1, <1>2, <1>3, <1>4 DEF ListOf

LEMMA DropHead ==
  ASSUME NEW fl, NEW nx, NEW N, ListOf(fl, nx, N), fl # NULL,
         NEW nx2, \A n \in N : n # fl => nx2[n] = nx[n]
  PROVE  ListOf(nx[fl], nx2, N \ {fl})
<1>. DEFINE M == N \ {fl}
            y == nx[fl]
<1>1. fl \in N /\ M \in SUBSET Addr /\ y \in M \cup {NULL}
  BY DEF ListOf
<1>5. y = NULL => M = {}
  <2>. SUFFICES ASSUME y = NULL  PROVE N = {fl}
    OBVIOUS
  <2>1. {fl} \in SUBSET N /\ Closed({fl}, nx)
    BY <1>1 DEF Closed
  <2>. QED  BY <2>1 DEF ListOf
<1>2. \A n \in M : nx2[n] \in M \cup {NULL} /\ nx2[n] # y
  BY <1>1, <1>5 DEF ListOf
<1>3. \A m, n \in M : nx2[m] = nx2[n] => m = n \/ nx2[m] = NULL
  BY <1>1 DEF ListOf
<1>4. ASSUME NEW S \in SUBSET M, y \in S \/ y = NULL, Closed(S, nx2)
      PROVE  S = M
  <2>1. Closed(S \cup {fl}, nx)
    BY <1>1, <1>4 DEF Closed, ListOf
  <2>2. S \cup {fl} = N
    BY <1>1, <1>4, <2>1 DEF ListOf
  <2>. QED  BY <1>1, <1>4, <2>2
<1>. QED  BY <1>1, <1>2, <1>3, <1>4, <1>5 DEF ListOf

(***************************************************************************)
(* A walk: g[k] is what has been visited after k steps, from a along nx    *)
(* until something of Stop is met.  Over R, where no two steps lead to one *)
(* place, a walk of as many steps as R has members meets Stop.             *)
(***************************************************************************)
Walks(g, a, nx, Stop, K) ==
    /\ g[0] = <<a>>
    /\ \A k \in 1 .. K : g[k] = IF Last(g[k - 1]) \in Stop THEN g[k - 1]
                                ELSE Append(g[k - 1], nx[Last(g[k - 1])])

Path(w, a, nx, R, Stop) ==
    /\ w \in Seq(R \cup Stop) /\ Len(w) >= 1
    /\ w[1] = a
    /\ \A j \in 1 .. Len(w) - 1 : w[j] \in R /\ w[j + 1] = nx[w[j]]

OneWay(a, nx, R, Stop) ==
    /\ R \cap Stop = {} /\ a \in R \cup Stop
    /\ \A n \in R : nx[n] \in R \cup Stop /\ nx[n] # a
    /\ \A m, n \in R : nx[m] = nx[n] => m = n \/ nx[m] \in Stop

LEMMA PathNoRepeat ==
  ASSUME NEW a, NEW nx, NEW R, NEW Stop, OneWay(a, nx, R, Stop),
         NEW w, Path(w, a, nx, R, Stop), w[Len(w)] \in R
  PROVE  /\ \A j \in 1 .. Len(w) : w[j] \in R
         /\ \A i, j \in 1 .. Len(w) : w[i] = w[j] => i = j
<1>. DEFINE L == Len(w)
            T == {j \in Nat : j \in 1 .. L => \A i \in 1 .. j - 1 : w[i] # w[j]}
<1>1. L \in Nat /\ L >= 1
  BY DEF Path
<1>2. \A j \in 1 .. L : w[j] \in R
  BY <1>1 DEF Path
<1>3. w[1] = a /\ \A j \in 1 .. L - 1 : w[j + 1] = nx[w[j]]
  BY DEF Path
<1>. HIDE DEF L
<1>4. 0 \in T
  OBVIOUS
<1>5. ASSUME NEW j \in Nat, j \in T  PROVE j + 1 \in T
  <2>. SUFFICES ASSUME j + 1 \in 1 .. L, NEW i \in 1 .. j, w[i] = w[j + 1]  PROVE FALSE
    OBVIOUS
  <2>1. j \in 1 .. L - 1 /\ w[j] \in R /\ w[j + 1] \in R /\ w[j + 1] = nx[w[j]]
    BY <1>1, <1>2, <1>3
  <2>2. CASE i = 1
    BY <2>1, <2>2, <1>3 DEF OneWay
  <2>3. CASE i # 1
    <3>1. i - 1 \in 1 .. L - 1 /\ i - 1 \in 1 .. j - 1 /\ w[i - 1] \in R /\ (i - 1) + 1 = i
      BY <2>1, <2>3, <1>1, <1>2
    <3>2. w[i] = nx[w[i - 1]]
      BY <3>1, <1>3
    <3>3. w[i - 1] = w[j]
      BY <3>1, <3>2, <2>1 DEF OneWay
    <3>4. j \in 1 .. L /\ \A n \in 1 .. j - 1 : w[n] # w[j]
      BY <1>1, <1>5, <2>1
    <3>. QED  BY <3>1, <3>3, <3>4
  <2>. QED  BY <2>2, <2>3
<1>. HIDE DEF T
<1>6. Nat \subseteq T
  BY <1>4, <1>5, NatSetInduction
<1>7. \A j \in 1 .. L : \A i \in 1 .. j - 1 : w[i] # w[j]
  BY <1>1, <1>6 DEF T
<1>8. ASSUME NEW i \in 1 .. L, NEW j \in 1 .. L, w[i] = w[j]  PROVE i = j
  <2>1. i < j => i \in 1 .. j - 1
    BY <1>1
  <2>2. j < i => j \in 1 .. i - 1
    BY <1>1
  <2>. QED  BY <1>1, <1>7, <1>8, <2>1, <2>2
<1>. QED  BY <1>2, <1>8 DEF L

LEMMA WalkEnds ==
  ASSUME NEW a, NEW nx, NEW R, NEW Stop, OneWay(a, nx, R, Stop),
         NEW K \in Nat, IsFiniteSet(R), Cardinality(R) <= K,
         NEW g, Walks(g, a, nx, Stop, K)
  PROVE  Path(g[K], a, nx, R, Stop) /\ Last(g[K]) \in Stop
<1>. DEFINE S == {k \in Nat : k <= K => /\ Path(g[k], a, nx, R, Stop)
                                        /\ Last(g[k]) \in Stop \/ Len(g[k]) = k + 1}
<1>1. 0 \in S
  <2>1. g[0] = <<a>> /\ a \in R \cup Stop
    BY DEF Walks, OneWay
  <2>2. <<a>> \in Seq(R \cup Stop) /\ Len(<<a>>) = 1 /\ <<a>>[1] = a
    BY <2>1
  <2>3. Path(<<a>>, a, nx, R, Stop)
    BY <2>2 DEF Path
  <2>4. Len(g[0]) = 0 + 1
    BY <2>1, <2>2
  <2>. QED  BY <2>1, <2>3, <2>4
<1>2. ASSUME NEW k \in Nat, k \in S  PROVE k + 1 \in S
  <2>. SUFFICES ASSUME k + 1 <= K
                PROVE  /\ Path(g[k + 1], a, nx, R, Stop)
                       /\ Last(g[k + 1]) \in Stop \/ Len(g[k + 1]) = k + 2
    OBVIOUS
  <2>1. k + 1 \in 1 .. K /\ (k + 1) - 1 = k /\ k <= K
    OBVIOUS
  <2>2. g[k + 1] = IF Last(g[k]) \in Stop THEN g[k] ELSE Append(g[k], nx[Last(g[k])])
    BY <2>1 DEF Walks
  <2>3. /\ Path(g[k], a, nx, R, Stop)
        /\ Last(g[k]) \in Stop \/ Len(g[k]) = k + 1
    BY <1>2, <2>1
  <2>4. CASE Last(g[k]) \in Stop
    BY <2>2, <2>3, <2>4
  <2>5. CASE Last(g[k]) \notin Stop
    <3>. DEFINE w == g[k]
                L == Len(w)
                e == nx[w[L]]
                v == Append(w, e)
    <3>1. w \in Seq(R \cup Stop) /\ L \in Nat /\ L >= 1 /\ L = k + 1 /\ w[L] \in R
      BY <2>3, <2>5 DEF Path, Last
    <3>2. e \in R \cup Stop
      BY <3>1 DEF OneWay
    <3>3. v \in Seq(R \cup Stop) /\ Len(v) = L + 1 /\ v[L + 1] = e
          /\ \A j \in 1 .. L : v[j] = w[j]
      BY <3>1, <3>2
    <3>4. g[k + 1] = v
      BY <2>2, <2>5 DEF Last
    <3>5. w[1] = a /\ \A j \in 1 .. L - 1 : w[j] \in R /\ w[j + 1] = nx[w[j]]
      BY <2>3 DEF Path
    <3>. HIDE DEF v, L, w
    <3>6. \A j \in 1 .. L : v[j] \in R /\ v[j + 1] = nx[v[j]]
      <4>. SUFFICES ASSUME NEW j \in 1 .. L  PROVE v[j] \in R /\ v[j + 1] = nx[v[j]]
        OBVIOUS
      <4>1. CASE j = L
        BY <4>1, <3>1, <3>3
      <4>2. CASE j # L
        <5>1. j \in 1 .. L - 1 /\ j + 1 \in 1 .. L
          BY <4>2, <3>1
        <5>. QED  BY <5>1, <3>3, <3>5
      <4>. QED  BY <4>1, <4>2
    <3>7. v[1] = a /\ Len(v) - 1 = L
      BY <3>1, <3>3, <3>5
    <3>8. Path(v, a, nx, R, Stop)
      BY <3>1, <3>3, <3>6, <3>7 DEF Path
    <3>. QED  BY <3>1, <3>3, <3>4, <3>8
  <2>. QED  BY <2>4, <2>5
<1>. HIDE DEF S
<1>3. Nat \subseteq S
  BY <1>1, <1>2, NatSetInduction
<1>4. /\ Path(g[K], a, nx, R, Stop)
      /\ Last(g[K]) \in Stop \/ Len(g[K]) = K + 1
  BY <1>3 DEF S
<1>5. ASSUME Last(g[K]) \notin Stop  PROVE FALSE
  <2>. DEFINE w == g[K]
  <2>1. Len(w) = K + 1 /\ w \in Seq(R \cup Stop) /\ w[Len(w)] \in R
    BY <1>4, <1>5 DEF Path, Last
  <2>2. /\ \A j \in 1 .. K + 1 : w[j] \in R
        /\ \A i, j \in 1 .. K + 1 : w[i] = w[j] => i = j
    BY <1>4, <2>1, PathNoRepeat
  <2>3. [j \in 1 .. K + 1 |-> w[j]] \in Injection(1 .. K + 1, R)
    BY <2>2 DEF Injection, IsInjective
  <2>4. Cardinality(1 .. K + 1) <= Cardinality(R)
    BY <2>3, FS_Injection
  <2>5. Cardinality(1 .. K + 1) = K + 1
    BY FS_Interval
  <2>6. Cardinality(R) \in Nat
    BY FS_CardinalityType
  <2>. QED  BY <2>4, <2>5, <2>6
<1>. QED  BY <1>4, <1>5

LEMMA AddrFinite == /\ IsFiniteSet(Addr) /\ Cardinality(Addr) = MaxAddr
                    /\ \A S \in SUBSET Addr : IsFiniteSet(S) /\ Cardinality(S) <= MaxAddr
<1>1. IsFiniteSet(Addr) /\ Cardinality(Addr) = MaxAddr
  BY Constants, FS_Interval DEF Addr
<1>. QED  BY <1>1, FS_Subset

(* FreeList visits the nodes of the list and ends.                         *)
LEMMA FreeListWalk ==
  ASSUME NEW h, h.hdr \in [Addr -> Header], NEW N, ListOf(h.free_list, Links(h.hdr), N)
  PROVE  /\ Path(FreeList(h), h.free_list, Links(h.hdr), N, {NULL})
         /\ Last(FreeList(h)) = NULL
<1>. DEFINE X == Addr \cup {NULL}
            D == Seq(X) \ {<<>>}
            A == <<h.free_list>>
            next(w) == IF Last(w) = NULL THEN w ELSE Append(w, h.hdr[Last(w)].next_free)
            F == [n \in Nat |-> [w \in D |-> next(w)]]
            Walk(f) == f = [k \in 0 .. MaxAddr |->
                              IF k = 0 THEN A
                              ELSE IF Last(f[k - 1]) = NULL THEN f[k - 1]
                                   ELSE Append(f[k - 1], h.hdr[Last(f[k - 1])].next_free)]
            f == CHOOSE f : Walk(f)
<1>1. h.free_list \in X /\ A \in D
  BY DEF ListOf
<1>2. \A a \in Addr : h.hdr[a].next_free \in X
  BY DEF Header
<1>3. ASSUME NEW w \in D  PROVE next(w) \in D
  <2>1. w \in Seq(X) /\ w # <<>> /\ Last(w) \in X
    BY LastOfList
  <2>2. Last(w) # NULL => h.hdr[Last(w)].next_free \in X
    BY <1>2, <2>1
  <2>3. Last(w) # NULL => Append(w, h.hdr[Last(w)].next_free) \in D
    BY <2>1, <2>2
  <2>. QED  BY <2>1, <2>3
<1>4. F \in [Nat -> [D -> D]]
  BY <1>3
<1>5. PICK g \in [0 .. MaxAddr -> D] : Recurses(g, A, F, MaxAddr)
  <2>. HIDE DEF F, D, A
  <2>. QED  BY <1>1, <1>4, Constants, RecursionExists
<1>6. Walk(g)
  <2>1. \A n \in 0 .. MaxAddr : g[n] = IF n = 0 THEN A ELSE F[n][g[n - 1]]
    BY <1>5 DEF Recurses
  <2>2. \A n \in 0 .. MaxAddr : n # 0 => n \in Nat /\ g[n - 1] \in D
    BY Constants
  <2>3. \A n \in Nat, w \in D : F[n][w] = next(w)
    OBVIOUS
  <2>. HIDE DEF F, D, A
  <2>4. \A n \in 0 .. MaxAddr : g[n] = IF n = 0 THEN A ELSE next(g[n - 1])
    BY <2>1, <2>2, <2>3
  <2>. QED  BY <2>4
<1>7. Walk(f)
  BY <1>6
<1>8. FreeList(h) = f[MaxAddr]
  BY DEF FreeList
<1>. HIDE DEF f
<1>9. Walks(f, h.free_list, Links(h.hdr), {NULL}, MaxAddr)
  <2>1. \A k \in 0 .. MaxAddr : f[k] = IF k = 0 THEN A ELSE next(f[k - 1])
    BY <1>7
  <2>2. 0 \in 0 .. MaxAddr /\ \A k \in 1 .. MaxAddr : k \in 0 .. MaxAddr /\ k # 0 /\ k - 1 \in Nat
    BY Constants
  <2>3. f[0] = A /\ \A k \in 1 .. MaxAddr : f[k] = next(f[k - 1])
    BY <2>1, <2>2, Zenon
  <2>4. \A k \in Nat : k <= MaxAddr => f[k] \in D
    <3>. DEFINE S == {k \in Nat : k <= MaxAddr => f[k] \in D}
    <3>1. 0 \in S
      BY <2>3, <1>1
    <3>2. ASSUME NEW k \in Nat, k \in S  PROVE k + 1 \in S
      <4>. SUFFICES ASSUME k + 1 <= MaxAddr  PROVE f[k + 1] \in D
        OBVIOUS
      <4>1. k + 1 \in 1 .. MaxAddr /\ (k + 1) - 1 = k /\ f[k] \in D
        BY <3>2, Constants
      <4>2. next(f[k]) \in D
        BY <4>1, <1>3
      <4>. HIDE DEF D
      <4>. QED  BY <4>1, <4>2, <2>3
    <3>. HIDE DEF S
    <3>3. Nat \subseteq S
      BY <3>1, <3>2, NatSetInduction
    <3>. QED  BY <3>3 DEF S
  <2>5. ASSUME NEW k \in 1 .. MaxAddr
        PROVE  f[k] = IF Last(f[k - 1]) \in {NULL} THEN f[k - 1]
                      ELSE Append(f[k - 1], Links(h.hdr)[Last(f[k - 1])])
    <3>1. k - 1 \in Nat /\ k - 1 <= MaxAddr
      BY Constants
    <3>2. f[k - 1] \in Seq(X) /\ f[k - 1] # <<>>
      BY <3>1, <2>4
    <3>3. Last(f[k - 1]) \in X
      BY <3>2, LastOfList
    <3>4. Last(f[k - 1]) # NULL => Links(h.hdr)[Last(f[k - 1])] = h.hdr[Last(f[k - 1])].next_free
      BY <3>3 DEF Links
    <3>. QED  BY <2>3, <3>4
  <2>. QED  BY <2>3, <2>5 DEF Walks
<1>10. OneWay(h.free_list, Links(h.hdr), N, {NULL})
  BY Constants DEF ListOf, OneWay
<1>11. IsFiniteSet(N) /\ Cardinality(N) <= MaxAddr
  BY AddrFinite DEF ListOf
<1>12. Path(f[MaxAddr], h.free_list, Links(h.hdr), N, {NULL}) /\ Last(f[MaxAddr]) \in {NULL}
  BY <1>9, <1>10, <1>11, Constants, WalkEnds
<1>. QED  BY <1>8, <1>12

LEMMA NodesOf ==
  ASSUME NEW h, h.hdr \in [Addr -> Header], NEW N, ListOf(h.free_list, Links(h.hdr), N)
  PROVE  Nodes(h) = N /\ ~Endless(h)
<1>. DEFINE w == FreeList(h)
            nx == Links(h.hdr)
            V == ToSet(w) \ {NULL}
<1>1. Path(w, h.free_list, nx, N, {NULL}) /\ w[Len(w)] = NULL
  BY FreeListWalk DEF Last
<1>2. w \in Seq(N \cup {NULL}) /\ Len(w) \in Nat /\ Len(w) >= 1 /\ w[1] = h.free_list
      /\ \A j \in 1 .. Len(w) - 1 : w[j + 1] = nx[w[j]]
  BY <1>1 DEF Path
<1>3. V \in SUBSET N /\ \A n \in V : \E j \in 1 .. Len(w) : w[j] = n
  BY <1>2, ToSetSeq DEF ToSet
<1>4. \A j \in 1 .. Len(w) : w[j] \in V \cup {NULL}
  BY <1>2 DEF ToSet
<1>. HIDE DEF w, nx, V
<1>5. Closed(V, nx)
  <2>. SUFFICES ASSUME NEW n \in V  PROVE nx[n] \in V \cup {NULL}
    BY DEF Closed
  <2>1. PICK j \in 1 .. Len(w) : w[j] = n
    BY <1>3
  <2>2. n # NULL
    BY DEF V
  <2>3. j \in 1 .. Len(w) - 1 /\ j + 1 \in 1 .. Len(w)
    BY <1>1, <1>2, <2>1, <2>2
  <2>. QED  BY <1>2, <1>4, <2>1, <2>3
<1>6. h.free_list \in V \cup {NULL}
  <2>1. 1 \in 1 .. Len(w)
    BY <1>2
  <2>. QED  BY <1>2, <1>4, <2>1
<1>7. V = N
  <2>1. h.free_list = NULL => N = {}
    BY DEF ListOf
  <2>2. h.free_list \in V => V = N
    BY <1>3, <1>5 DEF ListOf, nx
  <2>. QED  BY <1>3, <1>6, <2>1, <2>2
<1>8. Nodes(h) = V /\ (Endless(h) <=> w[Len(w)] # NULL)
  BY DEF Nodes, Endless, w, V, Last
<1>. QED  BY <1>1, <1>7, <1>8

(***************************************************************************)
(* The blocks of a heap.                                                   *)
(***************************************************************************)
LEMMA HeapTyped ==
  ASSUME NEW hs, HeapsOK(hs), NEW i \in 1 .. Len(hs)
  PROVE  /\ hs[i].slot \in 1 .. MaxAddr /\ hs[i].size \in 1 .. MaxAddr
         /\ End(hs[i]) = hs[i].slot + hs[i].size /\ End(hs[i]) <= MaxAddr + 1
         /\ hs[i].slot \in Nat /\ End(hs[i]) \in Nat /\ hs[i].slot < End(hs[i])
<1>. DEFINE T == [slot : Addr, size : 1 .. MaxAddr]
<1>0. hs \in Seq(T)
  BY DEF HeapsOK
<1>1. hs[i] \in T
  <2>. HIDE DEF T
  <2>. QED  BY <1>0
<1>2. hs[i].slot \in Addr /\ hs[i].size \in 1 .. MaxAddr
  BY <1>1
<1>3. End(hs[i]) = hs[i].slot + hs[i].size
  BY DEF End
<1>4. End(hs[i]) <= MaxAddr + 1
  BY DEF HeapsOK
<1>5. hs[i].slot \in 1 .. MaxAddr
  BY <1>2 DEF Addr
<1>. QED  BY <1>2, <1>3, <1>4, <1>5, Constants

LEMMA TileTyped ==
  ASSUME NEW B, NEW sz, NEW hs, NEW r, Tiles(B, sz, hs, r), NEW b \in B
  PROVE  b \in 1 .. MaxAddr /\ b \in Nat /\ sz[b] \in 1 .. MaxAddr /\ sz[b] \in Nat /\ sz[b] > 0
<1>1. b \in Addr /\ sz[b] \in 1 .. MaxAddr
  BY DEF Tiles
<1>. QED  BY <1>1, Constants DEF Addr

(* A block that begins in a heap ends in it.                               *)
LEMMA TileInHeap ==
  ASSUME NEW B, NEW sz, NEW hs, NEW r, HeapsOK(hs), Tiles(B, sz, hs, r), NEW b \in B,
         NEW i \in 1 .. Len(hs), hs[i].slot <= b, b <= End(hs[i])
  PROVE  InHeap(b, hs[i], sz, B)
<1>1. PICK j \in 1 .. Len(hs) : InHeap(b, hs[j], sz, B)
  BY DEF Tiles
<1>2. hs[j].slot <= b /\ b + sz[b] <= End(hs[j])
  BY <1>1 DEF InHeap
<1>3. b \in Nat /\ sz[b] \in Nat /\ sz[b] > 0
  BY TileTyped
<1>4. /\ hs[i].slot \in Nat /\ End(hs[i]) \in Nat
      /\ hs[j].slot \in Nat /\ End(hs[j]) \in Nat
  <2>1. \A k \in 1 .. Len(hs) : hs[k].slot \in Nat /\ End(hs[k]) \in Nat
    BY HeapTyped, Constants
  <2>. QED  BY <2>1
<1>5. Len(hs) \in Nat /\ (i < j => End(hs[i]) < hs[j].slot) /\ (j < i => End(hs[j]) < hs[i].slot)
  BY DEF HeapsOK
<1>6. i = j
  BY <1>2, <1>3, <1>4, <1>5
<1>. QED  BY <1>1, <1>6

BlocksIn(B, s) == {b \in B : s.slot <= b /\ b < End(s)}

(* NEXT_HEADER visits the blocks of heap i and ends where the heap ends.   *)
LEMMA ChainWalk ==
  ASSUME NEW h, h.hdr \in [Addr -> Header], HeapsOK(h.heaps), NEW B, NEW r,
         Tiles(B, Sizes(h.hdr), h.heaps, r), NEW i \in 1 .. Len(h.heaps)
  PROVE  /\ ChainEnds(h, i)
         /\ ToSet(Front(Chain(h, i))) = BlocksIn(B, h.heaps[i])
<1>. DEFINE slot == h.heaps[i].slot
            end == slot + h.heaps[i].size
            X == Nat \ {0}
            D == Seq(X) \ {<<>>}
            A == <<slot>>
            next(w) == IF Last(w) >= end THEN w ELSE Append(w, Last(w) + h.hdr[Last(w)].size)
            F == [n \in Nat |-> [w \in D |-> next(w)]]
            Walk(f) == f = [k \in 0 .. MaxAddr |->
                              IF k = 0 THEN A
                              ELSE IF Last(f[k - 1]) >= end THEN f[k - 1]
                                   ELSE Append(f[k - 1], NEXT_HEADER(h, Last(f[k - 1])))]
            f == CHOOSE f : Walk(f)
            R == {b \in B : slot <= b /\ b < end}
            Stop == {a \in Nat : a >= end}
            nx == [b \in Addr |-> b + h.hdr[b].size]
<1>1. slot \in 1 .. MaxAddr /\ end \in Nat /\ slot < end /\ end <= MaxAddr + 1
      /\ end = End(h.heaps[i])
  BY HeapTyped, Constants
<1>2. \A a \in Addr : h.hdr[a].size \in Nat
  BY Constants DEF Header
<1>a. A \in D
  BY <1>1
<1>3. ASSUME NEW w \in D  PROVE next(w) \in D
  <2>1. w \in Seq(X) /\ w # <<>> /\ Last(w) \in X
    BY LastOfList
  <2>2. ~(Last(w) >= end) => Last(w) \in Addr
    BY <2>1, <1>1, Constants DEF Addr
  <2>3. ~(Last(w) >= end) => Last(w) + h.hdr[Last(w)].size \in X
    BY <1>2, <2>1, <2>2
  <2>4. ~(Last(w) >= end) => Append(w, Last(w) + h.hdr[Last(w)].size) \in D
    <3>1. PICK e : e = Last(w) + h.hdr[Last(w)].size
      OBVIOUS
    <3>2. e \in X => Append(w, e) \in Seq(X) /\ Append(w, e) # <<>>
      BY <2>1, AppendProperties
    <3>. QED  BY <2>3, <3>1, <3>2
  <2>. QED  BY <2>1, <2>4
<1>4. F \in [Nat -> [D -> D]]
  BY <1>3
<1>5. PICK g \in [0 .. MaxAddr -> D] : Recurses(g, A, F, MaxAddr)
  <2>. HIDE DEF F, D, A
  <2>. QED  BY <1>a, <1>4, Constants, RecursionExists
<1>6. Walk(g)
  <2>1. \A n \in 0 .. MaxAddr : g[n] = IF n = 0 THEN A ELSE F[n][g[n - 1]]
    BY <1>5 DEF Recurses
  <2>2. \A n \in 0 .. MaxAddr : n # 0 => n \in Nat /\ g[n - 1] \in D
    BY Constants
  <2>3. \A n \in Nat, w \in D : F[n][w] = next(w)
    OBVIOUS
  <2>. HIDE DEF F, D, A
  <2>4. \A n \in 0 .. MaxAddr : g[n] = IF n = 0 THEN A ELSE next(g[n - 1])
    BY <2>1, <2>2, <2>3
  <2>. QED  BY <2>4 DEF NEXT_HEADER
<1>7. Walk(f)
  BY <1>6
<1>8. Chain(h, i) = f[MaxAddr]
  BY DEF Chain
<1>. HIDE DEF f, slot, end
<1>9. Walks(f, slot, nx, Stop, MaxAddr)
  <2>1. \A k \in 0 .. MaxAddr : f[k] = IF k = 0 THEN A ELSE next(f[k - 1])
    BY <1>7 DEF NEXT_HEADER
  <2>2. 0 \in 0 .. MaxAddr /\ \A k \in 1 .. MaxAddr : k \in 0 .. MaxAddr /\ k # 0 /\ k - 1 \in Nat
    BY Constants
  <2>3. f[0] = A /\ \A k \in 1 .. MaxAddr : f[k] = next(f[k - 1])
    BY <2>1, <2>2, Zenon
  <2>4. \A k \in Nat : k <= MaxAddr => f[k] \in D
    <3>. DEFINE S == {k \in Nat : k <= MaxAddr => f[k] \in D}
    <3>1. 0 \in S
      BY <2>3, <1>a
    <3>2. ASSUME NEW k \in Nat, k \in S  PROVE k + 1 \in S
      <4>. SUFFICES ASSUME k + 1 <= MaxAddr  PROVE f[k + 1] \in D
        OBVIOUS
      <4>1. k + 1 \in 1 .. MaxAddr /\ (k + 1) - 1 = k /\ f[k] \in D
        BY <3>2, Constants
      <4>2. next(f[k]) \in D
        BY <4>1, <1>3
      <4>. HIDE DEF D
      <4>. QED  BY <4>1, <4>2, <2>3
    <3>. HIDE DEF S
    <3>3. Nat \subseteq S
      BY <3>1, <3>2, NatSetInduction
    <3>. QED  BY <3>3 DEF S
  <2>5. ASSUME NEW k \in 1 .. MaxAddr
        PROVE  f[k] = IF Last(f[k - 1]) \in Stop THEN f[k - 1]
                      ELSE Append(f[k - 1], nx[Last(f[k - 1])])
    <3>1. k - 1 \in Nat /\ k - 1 <= MaxAddr
      BY Constants
    <3>2. f[k - 1] \in Seq(X) /\ f[k - 1] # <<>>
      BY <3>1, <2>4
    <3>3. Last(f[k - 1]) \in X
      BY <3>2, LastOfList
    <3>4. Last(f[k - 1]) \in Stop <=> Last(f[k - 1]) >= end
      BY <3>3
    <3>5. Last(f[k - 1]) \notin Stop =>
            nx[Last(f[k - 1])] = Last(f[k - 1]) + h.hdr[Last(f[k - 1])].size
      <4>. SUFFICES ASSUME Last(f[k - 1]) \notin Stop  PROVE Last(f[k - 1]) \in Addr
        OBVIOUS
      <4>1. Last(f[k - 1]) \in Nat \ {0} /\ Last(f[k - 1]) < end
        BY <3>3, <3>4, <1>1
      <4>. QED  BY <4>1, <1>1, Constants DEF Addr
    <3>. HIDE DEF nx, Stop, X
    <3>. QED  BY <2>3, <3>4, <3>5
  <2>. HIDE DEF nx, Stop
  <2>. QED  BY <2>3, <2>5 DEF Walks
<1>10. ASSUME NEW b \in R
       PROVE  nx[b] \in R \cup {end} /\ nx[b] > b /\ nx[b] = b + Sizes(h.hdr)[b]
              /\ b \in Nat /\ nx[b] \in Nat
  <2>1. b \in 1 .. MaxAddr /\ b \in Nat /\ Sizes(h.hdr)[b] \in Nat /\ Sizes(h.hdr)[b] > 0
    BY TileTyped
  <2>2. InHeap(b, h.heaps[i], Sizes(h.hdr), B)
    <3>1. h.heaps[i].slot <= b /\ b <= End(h.heaps[i])
      BY <1>1, <2>1 DEF slot
    <3>. QED  BY <3>1, TileInHeap
  <2>3. nx[b] = b + Sizes(h.hdr)[b]
    BY <2>1 DEF Sizes, Addr
  <2>4. nx[b] <= end /\ (nx[b] = end \/ nx[b] \in B)
    BY <2>2, <2>3, <1>1 DEF InHeap
  <2>5. nx[b] \in Nat /\ nx[b] > b
    <3>. HIDE DEF nx
    <3>. QED  BY <2>1, <2>3
  <2>6. nx[b] \in R \cup {end}
    <3>. HIDE DEF nx
    <3>1. slot <= b /\ slot \in Nat /\ end \in Nat
      BY <1>1, Constants
    <3>2. nx[b] # end => nx[b] \in B /\ slot <= nx[b] /\ nx[b] < end
      BY <2>1, <2>4, <2>5, <3>1
    <3>. QED  BY <3>2
  <2>. HIDE DEF nx, R
  <2>. QED  BY <2>1, <2>3, <2>5, <2>6
<1>11. slot \in R
  <2>1. slot \in B
    <3>1. \A j \in 1 .. Len(h.heaps) : h.heaps[j].slot \in B
      BY DEF Tiles
    <3>2. slot = h.heaps[i].slot
      BY DEF slot
    <3>. QED  BY <3>1, <3>2
  <2>. HIDE DEF slot, end
  <2>. QED  BY <1>1, <2>1, Constants
<1>12. OneWay(slot, nx, R, Stop)
  <2>1. R \cap Stop = {}
    BY <1>1, Constants, TileTyped
  <2>2. \A n \in R : nx[n] \in R \cup Stop /\ nx[n] # slot
    <3>. SUFFICES ASSUME NEW n \in R  PROVE nx[n] \in R \cup Stop /\ nx[n] # slot
      OBVIOUS
    <3>1. slot <= n /\ slot \in Nat /\ end \in Stop
      BY <1>1, Constants
    <3>2. nx[n] \in R \cup {end} /\ nx[n] > n /\ n \in Nat /\ nx[n] \in Nat
      BY <1>10
    <3>. HIDE DEF nx, R, Stop
    <3>. QED  BY <3>1, <3>2
  <2>3. ASSUME NEW m \in R, NEW n \in R, nx[m] = nx[n]  PROVE m = n
    <3>1. /\ m < n => m + Sizes(h.hdr)[m] <= n
          /\ n < m => n + Sizes(h.hdr)[n] <= m
      BY DEF Tiles
    <3>2. m \in Nat /\ n \in Nat /\ nx[m] = m + Sizes(h.hdr)[m] /\ nx[n] = n + Sizes(h.hdr)[n]
          /\ nx[m] > m /\ nx[n] > n
      BY <1>10
    <3>3. Sizes(h.hdr)[m] \in Nat /\ Sizes(h.hdr)[n] \in Nat
      BY TileTyped
    <3>4. m + Sizes(h.hdr)[m] = n + Sizes(h.hdr)[n]
      BY <2>3, <3>2
    <3>. QED  BY <3>1, <3>2, <3>3, <3>4
  <2>. QED  BY <1>11, <2>1, <2>2, <2>3 DEF OneWay
<1>13. IsFiniteSet(R) /\ Cardinality(R) <= MaxAddr
  <2>1. R \in SUBSET Addr
    BY DEF Tiles
  <2>. QED  BY <2>1, AddrFinite
<1>. DEFINE w == Chain(h, i)
            L == Len(w)
<1>14. Path(w, slot, nx, R, Stop) /\ Last(w) \in Stop
  <2>. HIDE DEF nx, R, Stop, slot
  <2>. QED  BY <1>8, <1>9, <1>12, <1>13, Constants, WalkEnds
<1>15. w \in Seq(R \cup Stop) /\ L \in Nat /\ L >= 1 /\ w[1] = slot
       /\ (\A j \in 1 .. L - 1 : w[j] \in R /\ w[j + 1] = nx[w[j]]) /\ w[L] \in Stop
  <2>. HIDE DEF w, nx, R, Stop, slot
  <2>. QED  BY <1>14 DEF Path, Last
<1>. HIDE DEF w, L, nx, R
<1>16. L >= 2 /\ w[L] = end
  <2>1. L # 1
    BY <1>1, <1>15
  <2>2. L - 1 \in 1 .. L - 1 /\ (L - 1) + 1 = L
    BY <1>15, <2>1
  <2>3. w[L - 1] \in R /\ w[L] = nx[w[L - 1]]
    BY <2>2, <1>15
  <2>4. w[L] \in R \cup {end}
    BY <2>3, <1>10
  <2>. QED  BY <2>1, <2>4, <1>15, <1>12 DEF OneWay
<1>17. ChainEnds(h, i)
  BY <1>16 DEF ChainEnds, w, L, Last, slot, end
<1>18. ToSet(Front(w)) = {w[j] : j \in 1 .. L - 1}
  <2>1. w \in Seq(R \cup Stop) /\ w # <<>>
    BY <1>15 DEF L
  <2>2. Len(SubSeq(w, 1, L - 1)) = L - 1 /\ \A j \in 1 .. L - 1 : SubSeq(w, 1, L - 1)[j] = w[j]
    BY <2>1, <1>15, <1>16 DEF L
  <2>3. SubSeq(w, 1, L - 1) \in Seq(R \cup Stop)
    BY <2>1, <1>15, <1>16 DEF L
  <2>4. DOMAIN SubSeq(w, 1, L - 1) = 1 .. L - 1
    BY <2>2, <2>3
  <2>5. ToSet(SubSeq(w, 1, L - 1)) = {w[j] : j \in 1 .. L - 1}
    BY <2>2, <2>4 DEF ToSet
  <2>. QED  BY <2>5 DEF Front, L
<1>19. ASSUME NEW c \in R, c \notin {w[j] : j \in 1 .. L - 1}  PROVE FALSE
  <2>. DEFINE T == {j \in Nat : j \in 1 .. L => w[j] <= c}
  <2>0. c \in Nat /\ slot <= c /\ c < end
    BY <1>10 DEF R
  <2>1. 0 \in T
    OBVIOUS
  <2>2. ASSUME NEW j \in Nat, j \in T  PROVE j + 1 \in T
    <3>. SUFFICES ASSUME j + 1 \in 1 .. L  PROVE w[j + 1] <= c
      OBVIOUS
    <3>1. CASE j = 0
      BY <3>1, <1>15, <2>0
    <3>2. CASE j # 0
      <4>1. j \in 1 .. L - 1 /\ j \in 1 .. L
        BY <3>2, <1>15
      <4>2. w[j] \in R /\ w[j + 1] = nx[w[j]] /\ w[j] # c /\ w[j] <= c
        BY <4>1, <1>15, <1>19, <2>2
      <4>3. w[j] \in Nat /\ w[j + 1] = w[j] + Sizes(h.hdr)[w[j]] /\ w[j] \in B /\ c \in B
        BY <4>2, <1>10, <1>19 DEF R
      <4>. QED  BY <2>0, <4>2, <4>3 DEF Tiles
    <3>. QED  BY <3>1, <3>2
  <2>. HIDE DEF T
  <2>3. Nat \subseteq T
    BY <2>1, <2>2, NatSetInduction
  <2>4. w[L] <= c
    BY <2>3, <1>15 DEF T
  <2>. QED  BY <2>0, <2>4, <1>16, <1>1
<1>20. ToSet(Front(w)) = R
  BY <1>15, <1>18, <1>19
<1>. QED  BY <1>1, <1>17, <1>20 DEF w, R, slot, BlocksIn

LEMMA BlocksOf ==
  ASSUME NEW h, h.hdr \in [Addr -> Header], HeapsOK(h.heaps), NEW B, NEW r,
         Tiles(B, Sizes(h.hdr), h.heaps, r)
  PROVE  Blocks(h) = B /\ \A i \in DOMAIN h.heaps : ChainEnds(h, i)
<1>1. DOMAIN h.heaps = 1 .. Len(h.heaps)
  BY DEF HeapsOK
<1>2. ASSUME NEW b \in B
      PROVE  \E i \in 1 .. Len(h.heaps) : h.heaps[i].slot <= b /\ b < End(h.heaps[i])
  <2>1. PICK i \in 1 .. Len(h.heaps) : InHeap(b, h.heaps[i], Sizes(h.hdr), B)
    BY DEF Tiles
  <2>2. b \in Nat /\ Sizes(h.hdr)[b] \in Nat /\ Sizes(h.hdr)[b] > 0
    BY TileTyped, Constants
  <2>3. h.heaps[i].slot <= b /\ b + Sizes(h.hdr)[b] <= End(h.heaps[i]) /\ End(h.heaps[i]) \in Nat
    BY <2>1, HeapTyped DEF InHeap
  <2>4. b < End(h.heaps[i])
    BY <2>2, <2>3
  <2>. QED  BY <2>3, <2>4
<1>3. \A i \in 1 .. Len(h.heaps) :
        /\ ChainEnds(h, i)
        /\ ToSet(Front(Chain(h, i))) = BlocksIn(B, h.heaps[i])
  <2>. TAKE i \in 1 .. Len(h.heaps)
  <2>. QED  BY ChainWalk
<1>4. Blocks(h) = UNION {ToSet(Front(Chain(h, i))) : i \in 1 .. Len(h.heaps)}
  BY <1>1 DEF Blocks
<1>. QED  BY <1>1, <1>2, <1>3, <1>4 DEF BlocksIn

(***************************************************************************)
(* The operations on blocks.                                               *)
(***************************************************************************)
LEMMA MultipleSum ==
  ASSUME NEW m, NEW n, NEW r \in Nat, Multiple(m, r), Multiple(n, r)
  PROVE  Multiple(m + n, r)
<1>1. PICK j \in Nat : m = j * r
  BY DEF Multiple
<1>2. PICK k \in Nat : n = k * r
  BY DEF Multiple
<1>3. m + n = (j + k) * r /\ j + k \in Nat
  BY <1>1, <1>2
<1>. QED  BY <1>3 DEF Multiple

LEMMA MultipleLess ==
  ASSUME NEW n \in Nat, NEW r \in Nat \ {0}, Multiple(n, r), n > 0
  PROVE  n >= r /\ Multiple(n - r, r) /\ Multiple(r, r)
<1>1. PICK k \in Nat : n = k * r
  BY DEF Multiple
<1>2. k # 0
  BY <1>1
<1>3. n - r = (k - 1) * r /\ k - 1 \in Nat /\ (k - 1) * r \in Nat /\ r = 1 * r
  BY <1>1, <1>2
<1>. QED  BY <1>3 DEF Multiple

LEMMA TilesSame ==
  ASSUME NEW B, NEW sz, NEW hs, NEW r, Tiles(B, sz, hs, r), NEW sz2,
         \A b \in B : sz2[b] = sz[b]
  PROVE  Tiles(B, sz2, hs, r)
BY DEF Tiles, InHeap

(* Block c, right behind block b, becomes a part of it.                    *)
LEMMA TilesMerge ==
  ASSUME NEW B, NEW sz, NEW hs, NEW r \in Nat, HeapsOK(hs), Tiles(B, sz, hs, r),
         NEW b \in B, NEW c \in B, c = b + sz[b], NEW sz2,
         sz2[b] = sz[b] + sz[c], \A x \in B : x # b /\ x # c => sz2[x] = sz[x]
  PROVE  Tiles(B \ {c}, sz2, hs, r)
<1>1. \A x \in B : x \in Nat /\ x > 0 /\ sz[x] \in Nat /\ sz[x] > 0
  BY TileTyped
<1>2. \A i \in 1 .. Len(hs) : hs[i].slot \in Nat /\ End(hs[i]) \in Nat /\ hs[i].slot < End(hs[i])
                              /\ End(hs[i]) <= MaxAddr + 1
  BY HeapTyped, Constants
<1>3. \A x, y \in B : x < y => x + sz[x] <= y
  BY DEF Tiles
<1>4. \A x \in B : x + sz[x] = c => x = b
  <2>. TAKE x \in B
  <2>. QED  BY <1>1, <1>3
<1>5. ASSUME NEW i \in 1 .. Len(hs), InHeap(b, hs[i], sz, B)
      PROVE  InHeap(c, hs[i], sz, B)
  <2>1. hs[i].slot <= c /\ c <= End(hs[i])
    BY <1>1, <1>2, <1>5 DEF InHeap
  <2>. QED  BY <2>1, TileInHeap
<1>6. ASSUME NEW x \in B, x # c
      PROVE  /\ sz2[x] \in 1 .. MaxAddr /\ Multiple(sz2[x], r)
             /\ \E i \in 1 .. Len(hs) : InHeap(x, hs[i], sz2, B \ {c})
  <2>1. PICK i \in 1 .. Len(hs) : InHeap(x, hs[i], sz, B)
    BY DEF Tiles
  <2>2. CASE x # b
    <3>1. sz2[x] = sz[x] /\ x + sz[x] # c
      BY <1>4, <1>6, <2>2
    <3>. QED  BY <2>1, <3>1 DEF InHeap, Tiles
  <2>3. CASE x = b
    <3>1. InHeap(c, hs[i], sz, B)
      BY <1>5, <2>1, <2>3
    <3>2. b + sz2[b] = c + sz[c] /\ c + sz[c] # c
      BY <1>1
    <3>3. InHeap(b, hs[i], sz2, B \ {c})
      BY <2>1, <2>3, <3>1, <3>2 DEF InHeap
    <3>4. Multiple(sz2[b], r)
      BY MultipleSum DEF Tiles
    <3>5. sz2[b] \in 1 .. MaxAddr
      <4>1. b + sz2[b] <= End(hs[i])
        BY <3>3 DEF InHeap
      <4>2. sz2[b] \in Nat /\ sz2[b] > 0 /\ b \in Nat /\ b > 0
        BY <1>1
      <4>3. sz2[b] <= MaxAddr
        BY <1>2, <4>1, <4>2, Constants
      <4>. QED  BY <4>2, <4>3, Constants
    <3>. QED  BY <2>3, <3>3, <3>4, <3>5
  <2>. QED  BY <2>2, <2>3
<1>7. ASSUME NEW i \in 1 .. Len(hs)  PROVE hs[i].slot # c
  <2>. SUFFICES ASSUME hs[i].slot = c  PROVE FALSE
    OBVIOUS
  <2>1. PICK j \in 1 .. Len(hs) : InHeap(b, hs[j], sz, B)
    BY DEF Tiles
  <2>2. hs[j].slot <= b /\ c <= End(hs[j]) /\ b < c
    BY <2>1, <1>1 DEF InHeap
  <2>3. Len(hs) \in Nat /\ (i < j => End(hs[i]) < hs[j].slot) /\ (j < i => End(hs[j]) < hs[i].slot)
    BY DEF HeapsOK
  <2>4. /\ hs[i].slot \in Nat /\ End(hs[i]) \in Nat /\ hs[i].slot < End(hs[i])
        /\ hs[j].slot \in Nat /\ End(hs[j]) \in Nat
    BY HeapTyped
  <2>5. CASE i = j
    BY <1>1, <2>2, <2>4, <2>5
  <2>6. CASE i < j
    BY <1>1, <2>2, <2>3, <2>4, <2>6
  <2>7. CASE j < i
    BY <1>1, <2>2, <2>3, <2>4, <2>7
  <2>. QED  BY <2>5, <2>6, <2>7
<1>8. ASSUME NEW x \in B, x # c, NEW y \in B, y # c, x < y  PROVE x + sz2[x] <= y
  <2>1. CASE x # b
    BY <1>3, <1>8, <2>1
  <2>2. CASE x = b
    <3>1. c <= y
      BY <1>3, <1>8, <2>2
    <3>2. c + sz[c] <= y
      BY <1>1, <1>3, <1>8, <3>1
    <3>. QED  BY <1>1, <2>2, <3>2
  <2>. QED  BY <2>1, <2>2
<1>9. B \ {c} \in SUBSET Addr /\ \A i \in 1 .. Len(hs) : hs[i].slot \in B \ {c}
  BY <1>7 DEF Tiles
<1>. QED  BY <1>6, <1>8, <1>9 DEF Tiles

(* Block b is cut after q units.                                           *)
LEMMA TilesCut ==
  ASSUME NEW B, NEW sz, NEW hs, NEW r \in Nat, HeapsOK(hs), Tiles(B, sz, hs, r),
         NEW b \in B, NEW q \in Nat \ {0}, q < sz[b],
         Multiple(q, r), Multiple(sz[b] - q, r), NEW sz2,
         sz2[b] = q, sz2[b + q] = sz[b] - q, \A x \in B : x # b => sz2[x] = sz[x]
  PROVE  /\ Tiles(B \cup {b + q}, sz2, hs, r)
         /\ b + q \in Addr /\ b + q \notin B
<1>. DEFINE c == b + q
<1>1. \A x \in B : x \in Nat /\ x > 0 /\ sz[x] \in Nat /\ sz[x] > 0 /\ sz[x] <= MaxAddr
  BY TileTyped, Constants
<1>2. \A i \in 1 .. Len(hs) : hs[i].slot \in Nat /\ End(hs[i]) \in Nat /\ hs[i].slot < End(hs[i])
                              /\ End(hs[i]) <= MaxAddr + 1
  BY HeapTyped, Constants
<1>3. \A x, y \in B : x < y => x + sz[x] <= y
  BY DEF Tiles
<1>4. PICK j \in 1 .. Len(hs) : InHeap(b, hs[j], sz, B)
  BY DEF Tiles
<1>5. c \in Nat /\ b < c /\ c < b + sz[b] /\ c + sz2[c] = b + sz[b] /\ c \notin B
  BY <1>1, <1>3
<1>6. c \in Addr
  <2>1. b + sz[b] <= End(hs[j])
    BY <1>4 DEF InHeap
  <2>2. End(hs[j]) \in Nat /\ End(hs[j]) <= MaxAddr + 1
    BY <1>2
  <2>3. c \in 1 .. MaxAddr
    <3>. HIDE DEF c
    <3>. QED  BY <1>1, <1>5, <2>1, <2>2, Constants
  <2>. QED  BY <2>3 DEF Addr
<1>. HIDE DEF c
<1>c. c = b + q /\ sz2[c] = sz[b] - q
  BY DEF c
<1>7. InHeap(b, hs[j], sz2, B \cup {c}) /\ InHeap(c, hs[j], sz2, B \cup {c})
  <2>1. /\ hs[j].slot <= b /\ b + sz[b] <= End(hs[j])
        /\ b + sz[b] = End(hs[j]) \/ b + sz[b] \in B
    BY <1>4 DEF InHeap
  <2>2. /\ hs[j].slot \in Nat /\ End(hs[j]) \in Nat
        /\ b \in Nat /\ sz[b] \in Nat /\ q \in Nat /\ sz2[b] = q
    BY <1>1, <1>2
  <2>3. b + sz2[b] = c /\ c + sz2[c] = b + sz[b] /\ hs[j].slot <= c /\ c <= End(hs[j])
    BY <1>5, <1>c, <2>1, <2>2
  <2>. QED  BY <2>1, <2>3 DEF InHeap
<1>8. \A x \in B : x # b => /\ sz2[x] \in 1 .. MaxAddr /\ Multiple(sz2[x], r)
                            /\ \E i \in 1 .. Len(hs) : InHeap(x, hs[i], sz2, B \cup {c})
  BY DEF Tiles, InHeap
<1>9. sz2[b] \in 1 .. MaxAddr /\ sz2[c] \in 1 .. MaxAddr
  BY <1>1, <1>c, Constants
<1>10. ASSUME NEW x \in B \cup {c}, NEW y \in B \cup {c}, x < y  PROVE x + sz2[x] <= y
  <2>1. CASE x = b
    BY <1>1, <1>3, <1>5, <1>c, <1>10, <2>1
  <2>2. CASE x = c
    <3>1. y \in B /\ b < y
      BY <1>1, <1>5, <1>10, <2>2
    <3>2. b + sz[b] <= y
      BY <1>3, <3>1
    <3>. QED  BY <1>5, <2>2, <3>2
  <2>3. CASE x # b /\ x # c
    <3>1. x \in B /\ sz2[x] = sz[x]
      BY <2>3
    <3>2. CASE y \in B
      BY <1>3, <1>10, <3>1, <3>2
    <3>3. CASE y = c
      <4>1. x < b \/ b < x
        BY <1>1, <2>3, <3>1
      <4>2. x < b
        BY <4>1, <1>1, <1>3, <1>5, <1>10, <3>1, <3>3
      <4>3. x + sz[x] <= b
        BY <4>2, <1>3, <3>1
      <4>. QED  BY <4>3, <1>1, <1>5, <3>1, <3>3
    <3>. QED  BY <3>2, <3>3
  <2>. QED  BY <2>1, <2>2, <2>3
<1>11. Tiles(B \cup {c}, sz2, hs, r)
  <2>1. B \cup {c} \in SUBSET Addr /\ \A i \in 1 .. Len(hs) : hs[i].slot \in B \cup {c}
    BY <1>6 DEF Tiles
  <2>2. \A x \in B \cup {c} : sz2[x] \in 1 .. MaxAddr /\ Multiple(sz2[x], r)
    BY <1>8, <1>9, <1>c
  <2>3. \A x \in B \cup {c} : \E i \in 1 .. Len(hs) : InHeap(x, hs[i], sz2, B \cup {c})
    BY <1>7, <1>8
  <2>. QED  BY <2>1, <2>2, <2>3, <1>10 DEF Tiles
<1>. QED  BY <1>5, <1>6, <1>11 DEF c

(* A new heap of one block of n units at a, behind the others.             *)
Grows(B, sz, hs, a, n, e, hs2, sz2) ==
    /\ a \in Addr /\ n \in 1 .. MaxAddr /\ a + n <= MaxAddr + 1
    /\ \A i \in 1 .. Len(hs) : End(hs[i]) < a
    /\ e \in [slot : Addr, size : 1 .. MaxAddr] /\ e.slot = a /\ e.size = n
    /\ hs2 = Append(hs, e)
    /\ sz2[a] = n /\ \A x \in B : x # a => sz2[x] = sz[x]

LEMMA TilesGrow ==
  ASSUME NEW B, NEW sz, NEW hs, NEW r, HeapsOK(hs), Tiles(B, sz, hs, r),
         NEW a, NEW n, NEW e, NEW hs2, NEW sz2, Grows(B, sz, hs, a, n, e, hs2, sz2),
         Multiple(n, r)
  PROVE  HeapsOK(hs2) /\ Tiles(B \cup {a}, sz2, hs2, r) /\ a \notin B
<1>g. /\ a \in Addr /\ n \in 1 .. MaxAddr /\ a + n <= MaxAddr + 1
      /\ \A i \in 1 .. Len(hs) : End(hs[i]) < a
      /\ e \in [slot : Addr, size : 1 .. MaxAddr] /\ e.slot = a /\ e.size = n
      /\ hs2 = Append(hs, e)
      /\ sz2[a] = n /\ \A x \in B : x # a => sz2[x] = sz[x]
  BY DEF Grows
<1>. USE <1>g
<1>. DEFINE L == Len(hs)
            T == [slot : Addr, size : 1 .. MaxAddr]
<1>0. e \in T /\ e.slot = a /\ e.size = n /\ End(e) = a + n
  BY DEF End
<1>. HIDE DEF T
<1>1. hs \in Seq(T) /\ L \in Nat
  BY DEF HeapsOK, T
<1>2. hs2 = Append(hs, e)
  OBVIOUS
<1>3. hs2 \in Seq(T) /\ Len(hs2) = L + 1 /\ hs2[L + 1] = e /\ \A i \in 1 .. L : hs2[i] = hs[i]
  BY <1>0, <1>1, <1>2
<1>. HIDE DEF L
<1>4. a \in Nat /\ n \in Nat /\ n > 0
  BY Constants
<1>5. \A i \in 1 .. L : End(hs[i]) < a /\ End(hs[i]) \in Nat /\ hs[i].slot \in Nat
  <2>. TAKE i \in 1 .. L
  <2>1. i \in 1 .. Len(hs)
    BY DEF L
  <2>. QED  BY <2>1, HeapTyped
<1>6. HeapsOK(hs2)
  <2>1. \A i \in 1 .. L + 1 : i \in 1 .. L \/ i = L + 1
    BY <1>1
  <2>2. \A i \in 1 .. L + 1 : End(hs2[i]) <= MaxAddr + 1
    BY <2>1, <1>0, <1>3 DEF HeapsOK, L
  <2>3. \A i, j \in 1 .. L : i < j => End(hs[i]) < hs[j].slot
    BY DEF HeapsOK, L
  <2>4. \A i, j \in 1 .. L + 1 : i < j => i \in 1 .. L
    BY <1>1
  <2>5. \A i, j \in 1 .. L + 1 : i < j => End(hs2[i]) < hs2[j].slot
    BY <2>1, <2>3, <2>4, <1>0, <1>3, <1>5
  <2>. QED  BY <1>3, <2>2, <2>5 DEF HeapsOK, T
<1>7. \A x \in B : \E i \in 1 .. L : InHeap(x, hs[i], sz, B)
  BY DEF Tiles, L
<1>8. \A x \in B : x \in Nat /\ sz[x] \in Nat /\ sz[x] > 0
  BY TileTyped
<1>9. \A x \in B : x + sz[x] < a /\ x < a
  BY <1>4, <1>5, <1>7, <1>8 DEF InHeap
<1>10. a \notin B
  BY <1>4, <1>9
<1>11. \A x \in B : sz2[x] = sz[x]
  BY <1>10
<1>12. Tiles(B \cup {a}, sz2, hs2, r)
  <2>1. B \cup {a} \in SUBSET Addr
    BY DEF Tiles
  <2>2. \A x \in B \cup {a} : sz2[x] \in 1 .. MaxAddr /\ Multiple(sz2[x], r)
    BY <1>11 DEF Tiles
  <2>3. \A i \in 1 .. L + 1 : hs2[i].slot \in B \cup {a}
    <3>. TAKE i \in 1 .. L + 1
    <3>1. i \in 1 .. L \/ i = L + 1
      BY <1>1
    <3>. QED  BY <3>1, <1>0, <1>3 DEF Tiles, L
  <2>4. ASSUME NEW x \in B \cup {a}
        PROVE  \E i \in 1 .. L + 1 : InHeap(x, hs2[i], sz2, B \cup {a})
    <3>1. CASE x = a
      <4>1. InHeap(a, e, sz2, B \cup {a}) /\ L + 1 \in 1 .. L + 1
        BY <1>0, <1>1, <1>4 DEF InHeap
      <4>. QED  BY <3>1, <4>1, <1>3
    <3>2. CASE x \in B
      <4>1. PICK i \in 1 .. L : InHeap(x, hs[i], sz, B)
        BY <1>7, <3>2
      <4>2. i \in 1 .. L + 1 /\ hs2[i] = hs[i]
        BY <1>1, <1>3
      <4>3. InHeap(x, hs2[i], sz2, B \cup {a})
        BY <3>2, <4>1, <4>2, <1>11 DEF InHeap
      <4>. QED  BY <4>2, <4>3
    <3>. QED  BY <3>1, <3>2
  <2>5. ASSUME NEW x \in B \cup {a}, NEW y \in B \cup {a}, x < y  PROVE x + sz2[x] <= y
    <3>1. CASE x = a
      BY <1>4, <1>8, <1>9, <2>5, <3>1
    <3>2. CASE x \in B /\ y = a
      BY <1>4, <1>8, <1>9, <1>11, <3>2
    <3>3. CASE x \in B /\ y \in B
      BY <1>11, <2>5, <3>3 DEF Tiles
    <3>. QED  BY <3>1, <3>2, <3>3
  <2>. QED  BY <2>1, <2>2, <2>3, <2>4, <2>5, <1>3 DEF Tiles
<1>. QED  BY <1>6, <1>10, <1>12

(***************************************************************************)
(* gc_free.                                                                *)
(***************************************************************************)
LEMMA HeaderTyped ==
  ASSUME NEW hdr \in [Addr -> Header], NEW a \in Addr
  PROVE  /\ hdr[a] = [size |-> hdr[a].size, next_free |-> hdr[a].next_free,
                      flags |-> hdr[a].flags]
         /\ hdr[a].size \in 0 .. MaxAddr /\ hdr[a].size \in Nat
         /\ hdr[a].next_free \in Addr \cup {NULL}
         /\ hdr[a].flags \in SUBSET {"ALLOC"}
<1>1. hdr[a] \in Header
  OBVIOUS
<1>. QED  BY <1>1, Constants DEF Header

LEMMA IsHeader ==
  ASSUME NEW s \in 0 .. MaxAddr, NEW n \in Addr \cup {NULL}, NEW f \in SUBSET {"ALLOC"}
  PROVE  [size |-> s, next_free |-> n, flags |-> f] \in Header
BY DEF Header

(* A header without looking at its parts.                                  *)
Fields(hdr, a, s, n) == hdr[a].size = s /\ hdr[a].next_free = n

Headers(hdr) ==
    /\ hdr = [a \in Addr |-> hdr[a]]
    /\ \A a \in Addr : /\ hdr[a] = [size |-> hdr[a].size, next_free |-> hdr[a].next_free,
                                    flags |-> hdr[a].flags]
                       /\ hdr[a].flags \in SUBSET {"ALLOC"}

SameFlags(hdr, hdr2) == \A a \in Addr : hdr2[a].flags = hdr[a].flags

(* The headers that say "allocated", of blocks or not.                     *)
Flagged(hdr) == {a \in Addr : hdr[a].flags # {}}

LEMMA HeadersOf ==
  ASSUME NEW hdr \in [Addr -> Header]
  PROVE  Headers(hdr)
BY HeaderTyped DEF Headers

LEMMA HeadersTyped ==
  ASSUME NEW hdr, Headers(hdr),
         \A a \in Addr : hdr[a].size \in 0 .. MaxAddr /\ hdr[a].next_free \in Addr \cup {NULL}
  PROVE  hdr \in [Addr -> Header]
<1>1. \A a \in Addr : hdr[a] \in Header
  <2>. TAKE a \in Addr
  <2>1. [size |-> hdr[a].size, next_free |-> hdr[a].next_free, flags |-> hdr[a].flags] \in Header
    BY IsHeader DEF Headers
  <2>. QED  BY <2>1 DEF Headers
<1>. QED  BY <1>1 DEF Headers

Joined(c, t, s, n, m) == m = [c EXCEPT ![t].size = @ + s, ![t].next_free = n]
Linked(c, t, n, m) == m = [c EXCEPT ![t].next_free = n]

(* Both parts of a header are written.                                     *)
LEMMA TwoFields ==
  ASSUME NEW c, Headers(c), NEW t \in Addr, NEW s, NEW n, NEW m, Joined(c, t, s, n, m)
  PROVE  /\ Headers(m) /\ \A a \in Addr : a # t => m[a] = c[a]
         /\ Fields(m, t, c[t].size + s, n) /\ SameFlags(c, m)
<1>1. c = [a \in Addr |-> c[a]] /\ c[t].flags \in SUBSET {"ALLOC"}
      /\ c[t] = [size |-> c[t].size, next_free |-> c[t].next_free, flags |-> c[t].flags]
  BY DEF Headers
<1>0. m = [c EXCEPT ![t].size = @ + s, ![t].next_free = n]
  BY DEF Joined
<1>2. m = [a \in Addr |-> m[a]] /\ \A a \in Addr : a # t => m[a] = c[a]
  BY <1>0, <1>1
<1>3. m[t] = [size |-> c[t].size + s, next_free |-> n, flags |-> c[t].flags]
  BY <1>0, <1>1
<1>4. \A a \in Addr : a # t => /\ m[a] = [size |-> m[a].size, next_free |-> m[a].next_free,
                                         flags |-> m[a].flags]
                              /\ m[a].flags \in SUBSET {"ALLOC"}
  BY <1>2 DEF Headers
<1>5. SameFlags(c, m)
  BY <1>2, <1>3 DEF SameFlags
<1>. QED  BY <1>1, <1>2, <1>3, <1>4, <1>5 DEF Headers, Fields

(* The link alone is written.                                              *)
LEMMA OneField ==
  ASSUME NEW c, Headers(c), NEW t \in Addr, NEW n, NEW m, Linked(c, t, n, m)
  PROVE  /\ Headers(m) /\ \A a \in Addr : a # t => m[a] = c[a]
         /\ Fields(m, t, c[t].size, n) /\ SameFlags(c, m)
<1>1. c = [a \in Addr |-> c[a]] /\ c[t].flags \in SUBSET {"ALLOC"}
      /\ c[t] = [size |-> c[t].size, next_free |-> c[t].next_free, flags |-> c[t].flags]
  BY DEF Headers
<1>0. m = [c EXCEPT ![t].next_free = n]
  BY DEF Linked
<1>2. m = [a \in Addr |-> m[a]] /\ \A a \in Addr : a # t => m[a] = c[a]
  BY <1>0, <1>1
<1>3. m[t] = [size |-> c[t].size, next_free |-> n, flags |-> c[t].flags]
  BY <1>0, <1>1
<1>4. \A a \in Addr : a # t => /\ m[a] = [size |-> m[a].size, next_free |-> m[a].next_free,
                                         flags |-> m[a].flags]
                              /\ m[a].flags \in SUBSET {"ALLOC"}
  BY <1>2 DEF Headers
<1>5. SameFlags(c, m)
  BY <1>2, <1>3 DEF SameFlags
<1>. QED  BY <1>1, <1>2, <1>3, <1>4, <1>5 DEF Headers, Fields

LEMMA RightFields ==
  ASSUME NEW c, Headers(c), NEW hit \in Addr, NEW t \in Addr, hit # t,
         NEW m, m = MergeRight(c, hit, t), NEW x, x = c[hit].next_free
  PROVE  /\ Headers(m) /\ \A a \in Addr : a # t => m[a] = c[a]
         /\ t + c[t].size = x => Fields(m, t, c[t].size + c[x].size, c[x].next_free)
         /\ t + c[t].size # x => Fields(m, t, c[t].size, x)
         /\ SameFlags(c, m)
<1>1. CASE t + c[t].size = x
  <2>1. Joined(c, t, c[x].size, c[x].next_free, m)
    BY <1>1 DEF MergeRight, Joined
  <2>2. /\ Headers(m) /\ \A a \in Addr : a # t => m[a] = c[a]
        /\ Fields(m, t, c[t].size + c[x].size, c[x].next_free) /\ SameFlags(c, m)
    BY <2>1, TwoFields
  <2>. QED  BY <1>1, <2>2
<1>2. CASE t + c[t].size # x
  <2>1. Linked(c, t, x, m)
    BY <1>2 DEF MergeRight, Linked
  <2>. QED  BY <1>2, <2>1, OneField
<1>. QED  BY <1>1, <1>2

LEMMA LeftFields ==
  ASSUME NEW c, Headers(c), NEW hit \in Addr, NEW t \in Addr, hit # t,
         NEW m, m = MergeLeft(c, hit, t)
  PROVE  /\ Headers(m) /\ \A a \in Addr : a # hit => m[a] = c[a]
         /\ hit + c[hit].size = t => Fields(m, hit, c[hit].size + c[t].size, c[t].next_free)
         /\ hit + c[hit].size # t => Fields(m, hit, c[hit].size, t)
         /\ SameFlags(c, m)
<1>1. CASE hit + c[hit].size = t
  <2>1. Joined(c, hit, c[t].size, c[t].next_free, m)
    BY <1>1 DEF MergeLeft, Joined
  <2>2. /\ Headers(m) /\ \A a \in Addr : a # hit => m[a] = c[a]
        /\ Fields(m, hit, c[hit].size + c[t].size, c[t].next_free) /\ SameFlags(c, m)
    BY <2>1, TwoFields
  <2>. QED  BY <1>1, <2>2
<1>2. CASE hit + c[hit].size # t
  <2>1. Linked(c, hit, t, m)
    BY <1>2 DEF MergeLeft, Linked
  <2>. QED  BY <1>2, <2>1, OneField
<1>. QED  BY <1>1, <1>2

LEMMA ClearedFields ==
  ASSUME NEW h, h.hdr \in [Addr -> Header], NEW t \in Addr, NEW c, c = Cleared(h, t)
  PROVE  /\ c \in [Addr -> Header]
         /\ Fields(c, t, h.hdr[t].size, h.hdr[t].next_free)
         /\ \A a \in Addr : a <= t \/ a >= t + h.hdr[t].size =>
               Fields(c, a, h.hdr[a].size, h.hdr[a].next_free)
<1>. DEFINE hdr == h.hdr
            body == t + HEADER_SIZE .. NEXT_HEADER(h, t) - 1
<1>1. t \in Nat /\ hdr[t].size \in Nat /\ t \notin body
  <2>1. t \in Nat /\ hdr[t].size \in Nat
    BY HeaderTyped, Constants
  <2>. QED  BY <2>1 DEF HEADER_SIZE, NEXT_HEADER
<1>2. Headers(hdr)
  BY HeadersOf
<1>3. \A a \in Addr : c[a] = IF a \in body THEN Blank
                             ELSE IF a = t THEN [hdr[t] EXCEPT !.flags = {}] ELSE hdr[a]
  BY DEF Cleared
<1>4. DOMAIN c = Addr /\ c = [a \in Addr |-> c[a]]
  BY DEF Cleared
<1>5. \A a \in Addr : a <= t \/ a >= t + hdr[t].size => a \notin body
  BY <1>1, Constants DEF NEXT_HEADER, HEADER_SIZE
<1>. HIDE DEF body, hdr
<1>6. c[t] = [size |-> hdr[t].size, next_free |-> hdr[t].next_free, flags |-> {}]
  <2>1. c[t] = [hdr[t] EXCEPT !.flags = {}]
    BY <1>1, <1>3
  <2>2. hdr[t] = [size |-> hdr[t].size, next_free |-> hdr[t].next_free, flags |-> hdr[t].flags]
    BY <1>2 DEF Headers
  <2>. QED  BY <2>1, <2>2
<1>7. \A a \in Addr : a \notin body => Fields(c, a, hdr[a].size, hdr[a].next_free)
  BY <1>3, <1>6 DEF Fields
<1>8. \A a \in Addr : c[a] \in Header
  <2>. TAKE a \in Addr
  <2>1. hdr \in [Addr -> Header]
    BY DEF hdr
  <2>2. CASE a = t
    <3>1. hdr[t].size \in 0 .. MaxAddr /\ hdr[t].next_free \in Addr \cup {NULL}
      BY <2>1, HeaderTyped
    <3>2. [size |-> hdr[t].size, next_free |-> hdr[t].next_free, flags |-> {}] \in Header
      BY <3>1, IsHeader
    <3>. QED  BY <1>6, <2>2, <3>2
  <2>3. CASE a \in body
    <3>1. Blank \in Header
      BY IsHeader, Constants DEF Blank
    <3>. QED  BY <1>3, <2>3, <3>1
  <2>4. CASE a # t /\ a \notin body
    BY <1>3, <2>1, <2>4
  <2>. QED  BY <2>2, <2>3, <2>4
<1>. QED  BY <1>1, <1>4, <1>5, <1>7, <1>8 DEF hdr

LEMMA ClearedFlags ==
  ASSUME NEW h, h.hdr \in [Addr -> Header], NEW t \in Addr, h.hdr[t].size > 0,
         NEW c, c = Cleared(h, t)
  PROVE  Flagged(c) = Flagged(h.hdr) \ (t .. (t + h.hdr[t].size - 1))
<1>. DEFINE body == t + HEADER_SIZE .. NEXT_HEADER(h, t) - 1
            unit == t .. (t + h.hdr[t].size - 1)
<1>1. t \in Nat /\ h.hdr[t].size \in Nat
  BY HeaderTyped, Constants
<1>2. \A a \in Addr : c[a] = IF a \in body THEN Blank
                             ELSE IF a = t THEN [h.hdr[t] EXCEPT !.flags = {}] ELSE h.hdr[a]
  BY DEF Cleared
<1>3. c[t].flags = {}
  <2>1. c[t] = Blank \/ c[t] = [h.hdr[t] EXCEPT !.flags = {}]
    BY <1>2
  <2>2. h.hdr[t] \in Header
    OBVIOUS
  <2>3. Blank.flags = {} /\ [h.hdr[t] EXCEPT !.flags = {}].flags = {}
    BY <2>2 DEF Blank, Header
  <2>. QED  BY <2>1, <2>3
<1>4. \A a \in Addr : a \in body => c[a].flags = {}
  BY <1>2 DEF Blank
<1>5. \A a \in Addr : a \notin body /\ a # t => c[a].flags = h.hdr[a].flags
  BY <1>2
<1>6. \A a \in Addr : a \in unit <=> a \in body \/ (a = t /\ h.hdr[t].size > 0)
  BY <1>1, Constants DEF HEADER_SIZE, NEXT_HEADER
<1>. HIDE DEF body, unit
<1>7. \A a \in Addr : a \in unit => c[a].flags = {}
  BY <1>3, <1>4, <1>6
<1>8. \A a \in Addr : a \notin unit => c[a].flags = h.hdr[a].flags
  BY <1>5, <1>6
<1>. QED  BY <1>7, <1>8 DEF Flagged, unit
LEMMA GoodSame ==
  ASSUME NEW fl, NEW hs, NEW c, NEW N, NEW B, NEW r, Good(fl, hs, c, N, B, r),
         NEW m \in [Addr -> Header],
         \A b \in B : Fields(m, b, c[b].size, c[b].next_free)
  PROVE  Good(fl, hs, m, N, B, r)
<1>1. B \in SUBSET Addr /\ N \in SUBSET B
  BY DEF Good, Tiles
<1>2. \A b \in B : Sizes(m)[b] = Sizes(c)[b] /\ Links(m)[b] = Links(c)[b]
  BY <1>1 DEF Sizes, Links, Fields
<1>3. Tiles(B, Sizes(m), hs, r)
  <2>. HIDE DEF Sizes
  <2>. QED  BY <1>2, TilesSame DEF Good
<1>4. ListOf(fl, Links(m), N)
  BY <1>1, <1>2 DEF Good, ListOf, Closed
<1>. QED  BY <1>3, <1>4 DEF Good

(* What is known of a block t outside the list and a node hit of the list. *)
LEMMA Around ==
  ASSUME NEW fl, NEW hs, NEW c, NEW N, NEW B, NEW r, Good(fl, hs, c, N, B, r),
         NEW hit \in N, NEW t \in B \ N, NEW x, x = c[hit].next_free
  PROVE  /\ Headers(c) /\ hit \in Addr /\ hit \in B /\ t \in Addr /\ hit # t /\ t # NULL
         /\ B \in SUBSET Addr /\ N \in SUBSET B
         /\ Links(c)[hit] = x /\ x \in N \cup {NULL} /\ x # hit /\ x # t
         /\ \A a \in Addr : Sizes(c)[a] = c[a].size /\ Links(c)[a] = c[a].next_free
         /\ \A a \in Addr : c[a].size \in 0 .. MaxAddr /\ c[a].next_free \in Addr \cup {NULL}
<1>1. B \in SUBSET Addr /\ N \in SUBSET B /\ hit \in Addr /\ t \in Addr
  BY DEF Good, Tiles
<1>2. Headers(c)
  BY HeadersOf DEF Good
<1>3. \A a \in Addr : Sizes(c)[a] = c[a].size /\ Links(c)[a] = c[a].next_free
  BY DEF Sizes, Links
<1>4. x \in N \cup {NULL}
  BY <1>1, <1>3 DEF Good, ListOf
<1>5. x # hit
  BY <1>1, <1>3, NoLoop DEF Good
<1>6. \A a \in Addr : c[a].size \in 0 .. MaxAddr /\ c[a].next_free \in Addr \cup {NULL}
  BY HeaderTyped DEF Good
<1>. QED  BY <1>1, <1>2, <1>3, <1>4, <1>5, <1>6, Constants

(* A block of B begins at t or before it and ends where the header at t    *)
(* says that t's block ends.                                               *)
EndsWith(t, hdr, B) ==
    /\ hdr[t].size > 0
    /\ \E b \in B : b <= t /\ b + hdr[b].size = t + hdr[t].size

(* The block enters the list behind hit, merged with its neighbours or not.*)
LEMMA InsertFree ==
  ASSUME NEW fl, NEW hs, NEW c, NEW N, NEW B, NEW r \in Nat, Good(fl, hs, c, N, B, r),
         NEW hit \in N, NEW t \in B \ N,
         NEW m, m = MergeLeft(MergeRight(c, hit, t), hit, t)
  PROVE  SameFlags(c, m) /\ \E N2, B2 \in SUBSET Addr :
            /\ Good(fl, hs, m, N2, B2, r)
            /\ N2 # {} /\ B2 \ N2 = (B \ N) \ {t}
            /\ \A b \in (B \ N) \ {t} : m[b].size = c[b].size
            /\ EndsWith(t, m, B2)
<1>. DEFINE x == c[hit].next_free
            k == MergeRight(c, hit, t)
<1>. HIDE DEF x, k
<1>0. m = MergeLeft(k, hit, t) /\ x = c[hit].next_free /\ k = MergeRight(c, hit, t)
  BY DEF x, k
<1>1. /\ Headers(c) /\ hit \in Addr /\ hit \in B /\ t \in Addr /\ hit # t /\ t # NULL
      /\ B \in SUBSET Addr /\ N \in SUBSET B
      /\ Links(c)[hit] = x /\ x \in N \cup {NULL} /\ x # hit /\ x # t
      /\ \A a \in Addr : Sizes(c)[a] = c[a].size /\ Links(c)[a] = c[a].next_free
      /\ \A a \in Addr : c[a].size \in 0 .. MaxAddr /\ c[a].next_free \in Addr \cup {NULL}
  BY <1>0, Around
<1>2. HeapsOK(hs) /\ Tiles(B, Sizes(c), hs, r) /\ ListOf(fl, Links(c), N)
  BY DEF Good
<1>3. /\ Headers(k) /\ \A a \in Addr : a # t => k[a] = c[a]
      /\ t + c[t].size = x => Fields(k, t, c[t].size + c[x].size, c[x].next_free)
      /\ t + c[t].size # x => Fields(k, t, c[t].size, x)
      /\ SameFlags(c, k)
  BY <1>0, <1>1, RightFields
<1>4. /\ Headers(m) /\ \A a \in Addr : a # hit => m[a] = k[a]
      /\ hit + k[hit].size = t => Fields(m, hit, k[hit].size + k[t].size, k[t].next_free)
      /\ hit + k[hit].size # t => Fields(m, hit, k[hit].size, t)
      /\ SameFlags(k, m)
  <2>1. Headers(k)
    BY <1>3
  <2>2. hit \in Addr /\ t \in Addr /\ hit # t
    BY <1>1
  <2>. QED  BY <1>0, <2>1, <2>2, LeftFields
<1>5. k[hit] = c[hit] /\ m[t] = k[t] /\ \A a \in Addr : a # hit /\ a # t => m[a] = c[a]
  BY <1>1, <1>3, <1>4
<1>6. \A a \in Addr : /\ Sizes(k)[a] = k[a].size /\ Links(k)[a] = k[a].next_free
                      /\ Sizes(m)[a] = m[a].size /\ Links(m)[a] = m[a].next_free
  BY DEF Sizes, Links
<1>. DEFINE B1 == IF t + c[t].size = x THEN B \ {x} ELSE B
(* The sizes after the merge with the right neighbour.                     *)
<1>7. /\ Tiles(B1, Sizes(k), hs, r)
      /\ t + c[t].size = x => x \in B /\ x # NULL /\ x \in Addr
  <2>1. CASE t + c[t].size = x
    <3>1. x # NULL /\ x \in B /\ x \in Addr /\ t \in B
      <4>1. t \in Nat /\ t > 0 /\ c[t].size \in Nat
        BY <1>1, Constants
      <4>. QED  BY <1>1, <2>1, <4>1, Constants
    <3>2. /\ Sizes(k)[t] = Sizes(c)[t] + Sizes(c)[x]
          /\ \A b \in B : b # t /\ b # x => Sizes(k)[b] = Sizes(c)[b]
          /\ x = t + Sizes(c)[t]
      BY <1>1, <1>3, <1>6, <2>1, <3>1 DEF Fields
    <3>3. Tiles(B \ {x}, Sizes(k), hs, r)
      BY <1>2, <3>1, <3>2, TilesMerge
    <3>. QED  BY <2>1, <3>1, <3>3
  <2>2. CASE t + c[t].size # x
    <3>1. \A b \in B : Sizes(k)[b] = Sizes(c)[b]
      BY <1>1, <1>3, <1>6, <2>2 DEF Fields
    <3>2. Tiles(B, Sizes(k), hs, r)
      BY <1>2, <3>1, TilesSame
    <3>. QED  BY <2>2, <3>2
  <2>. QED  BY <2>1, <2>2
<1>8. t \in B1 /\ hit \in B1 /\ B1 \in SUBSET B
  BY <1>1
<1>. HIDE DEF B1
<1>9. k[t].size \in 1 .. MaxAddr /\ k[hit].size \in 1 .. MaxAddr
  BY <1>1, <1>6, <1>7, <1>8 DEF Tiles
<1>10. k[t].next_free \in N \cup {NULL}
  <2>1. t + c[t].size = x => c[x].next_free \in N \cup {NULL}
    BY <1>1, <1>2, <1>7 DEF ListOf
  <2>. QED  BY <1>1, <1>3, <2>1 DEF Fields
<1>. DEFINE B2 == IF hit + k[hit].size = t THEN B1 \ {t} ELSE B1
(* And after the merge with the left one.                                  *)
<1>11. Tiles(B2, Sizes(m), hs, r)
  <2>1. CASE hit + k[hit].size = t
    <3>1. /\ Sizes(m)[hit] = Sizes(k)[hit] + Sizes(k)[t]
          /\ \A b \in B1 : b # hit /\ b # t => Sizes(m)[b] = Sizes(k)[b]
          /\ t = hit + Sizes(k)[hit]
      BY <1>1, <1>4, <1>6, <1>8, <2>1 DEF Fields
    <3>2. Tiles(B1 \ {t}, Sizes(m), hs, r)
      BY <1>2, <1>7, <1>8, <3>1, TilesMerge
    <3>. QED  BY <2>1, <3>2
  <2>2. CASE hit + k[hit].size # t
    <3>1. \A b \in B1 : Sizes(m)[b] = Sizes(k)[b]
      BY <1>1, <1>4, <1>6, <1>8, <2>2 DEF Fields
    <3>2. Tiles(B1, Sizes(m), hs, r)
      BY <1>7, <3>1, TilesSame
    <3>. QED  BY <2>2, <3>2
  <2>. QED  BY <2>1, <2>2
<1>12. hit \in B2 /\ B2 \in SUBSET B
  BY <1>1, <1>8
<1>13. m \in [Addr -> Header]
  <2>1. m[hit].size \in 0 .. MaxAddr
    BY <1>1, <1>6, <1>11, <1>12 DEF Tiles
  <2>2. m[hit].next_free \in Addr \cup {NULL}
    BY <1>1, <1>4, <1>10 DEF Fields
  <2>3. m[t].size \in 0 .. MaxAddr /\ m[t].next_free \in Addr \cup {NULL}
    BY <1>1, <1>5, <1>9, <1>10
  <2>4. \A a \in Addr : m[a].size \in 0 .. MaxAddr /\ m[a].next_free \in Addr \cup {NULL}
    BY <1>1, <1>5, <2>1, <2>2, <2>3
  <2>. QED  BY <1>4, <2>4, HeadersTyped
<1>14. \A b \in (B \ N) \ {t} : m[b].size = c[b].size
  BY <1>1, <1>5
<1>15. \E N2 \in SUBSET Addr :
          /\ ListOf(fl, Links(m), N2) /\ N2 \subseteq B2
          /\ hit \in N2 /\ B2 \ N2 = (B \ N) \ {t}
  <2>0. \A n \in N : n # hit => Links(m)[n] = Links(c)[n]
    BY <1>1, <1>5, <1>6
  <2>1. CASE t + c[t].size = x /\ hit + k[hit].size = t
    <3>1. x \in N /\ x # NULL /\ B2 = (B \ {x}) \ {t}
      BY <1>1, <1>7, <2>1 DEF B1
    <3>2. Links(m)[hit] = Links(c)[Links(c)[hit]]
      BY <1>1, <1>3, <1>4, <1>6, <2>1, <3>1 DEF Fields
    <3>3. ListOf(fl, Links(m), N \ {x})
      BY <1>1, <1>2, <2>0, <3>1, <3>2, DropBehind
    <3>. QED  BY <1>1, <3>1, <3>3
  <2>2. CASE t + c[t].size = x /\ hit + k[hit].size # t
    <3>1. x \in N /\ x # NULL /\ B2 = B \ {x}
      BY <1>1, <1>7, <2>2 DEF B1
    <3>2. Links(m)[hit] = t /\ Links(m)[t] = Links(c)[Links(c)[hit]]
      BY <1>1, <1>3, <1>4, <1>5, <1>6, <2>2, <3>1 DEF Fields
    <3>3. ListOf(fl, Links(m), (N \ {x}) \cup {t})
      BY <1>1, <1>2, <2>0, <3>1, <3>2, ReplaceBehind
    <3>. QED  BY <1>1, <3>1, <3>3
  <2>3. CASE t + c[t].size # x /\ hit + k[hit].size = t
    <3>1. B2 = B \ {t}
      BY <2>3 DEF B1
    <3>2. Links(m)[hit] = Links(c)[hit]
      BY <1>1, <1>3, <1>4, <1>6, <2>3 DEF Fields
    <3>3. ListOf(fl, Links(m), N)
      BY <1>2, <2>0, <3>2 DEF ListOf, Closed
    <3>. QED  BY <1>1, <3>1, <3>3
  <2>4. CASE t + c[t].size # x /\ hit + k[hit].size # t
    <3>1. B2 = B
      BY <2>4 DEF B1
    <3>2. Links(m)[hit] = t /\ Links(m)[t] = Links(c)[hit]
      BY <1>1, <1>3, <1>4, <1>5, <1>6, <2>4 DEF Fields
    <3>3. ListOf(fl, Links(m), N \cup {t})
      BY <1>1, <1>2, <2>0, <3>2, InsertBehind
    <3>. QED  BY <1>1, <3>1, <3>3
  <2>. QED  BY <2>1, <2>2, <2>3, <2>4
<1>16. B2 \in SUBSET Addr
  BY <1>1, <1>12
<1>17. EndsWith(t, m, B2)
  <2>1. t \in Nat /\ hit \in Nat /\ k[t].size \in Nat /\ k[hit].size \in Nat /\ k[t].size > 0
        /\ k[hit].size > 0
    BY <1>1, <1>9, Constants
  <2>2. m[t].size = k[t].size
    BY <1>5
  <2>3. CASE hit + k[hit].size = t
    <3>1. m[hit].size = k[hit].size + k[t].size
      BY <1>4, <2>3 DEF Fields
    <3>2. hit <= t /\ hit + m[hit].size = t + m[t].size
      BY <2>1, <2>2, <2>3, <3>1
    <3>. QED  BY <1>12, <2>1, <2>2, <3>2 DEF EndsWith
  <2>4. CASE hit + k[hit].size # t
    <3>1. t \in B2
      BY <1>8, <2>4
    <3>. HIDE DEF B2
    <3>. QED  BY <2>1, <2>2, <3>1 DEF EndsWith
  <2>. QED  BY <2>3, <2>4
<1>18. SameFlags(c, m)
  BY <1>3, <1>4 DEF SameFlags
<1>. HIDE DEF B2
<1>. QED  BY <1>2, <1>11, <1>13, <1>14, <1>15, <1>16, <1>17, <1>18 DEF Good

(* The block lies before the list's head and becomes the head.             *)
LEMMA FreeBefore ==
  ASSUME NEW fl, NEW hs, NEW c, NEW N, NEW B, NEW r \in Nat, Good(fl, hs, c, N, B, r),
         fl # NULL, NEW t \in B \ N, t + c[t].size = fl,
         NEW m, Headers(m), \A a \in Addr : a # t => m[a] = c[a],
         Fields(m, t, c[t].size + c[fl].size, c[fl].next_free)
  PROVE  \E N2, B2 \in SUBSET Addr :
            /\ Good(t, hs, m, N2, B2, r)
            /\ N2 # {} /\ B2 \ N2 = (B \ N) \ {t}
            /\ \A b \in (B \ N) \ {t} : m[b].size = c[b].size
            /\ EndsWith(t, m, B2)
<1>1. fl \in N
  BY DEF Good, ListOf
<1>2. /\ Headers(c) /\ fl \in Addr /\ fl \in B /\ t \in Addr /\ fl # t
      /\ B \in SUBSET Addr /\ N \in SUBSET B
      /\ c[fl].next_free \in N \cup {NULL}
      /\ \A a \in Addr : Sizes(c)[a] = c[a].size /\ Links(c)[a] = c[a].next_free
      /\ \A a \in Addr : c[a].size \in 0 .. MaxAddr /\ c[a].next_free \in Addr \cup {NULL}
  BY <1>1, Around
<1>3. HeapsOK(hs) /\ Tiles(B, Sizes(c), hs, r) /\ ListOf(fl, Links(c), N)
  BY DEF Good
<1>4. m[t].size = c[t].size + c[fl].size /\ m[t].next_free = c[fl].next_free
      /\ \A a \in Addr : a # t => m[a] = c[a]
  BY DEF Fields
<1>5. \A a \in Addr : Sizes(m)[a] = m[a].size /\ Links(m)[a] = m[a].next_free
  BY DEF Sizes, Links
<1>6. Tiles(B \ {fl}, Sizes(m), hs, r)
  <2>1. /\ Sizes(m)[t] = Sizes(c)[t] + Sizes(c)[fl]
        /\ \A b \in B : b # t /\ b # fl => Sizes(m)[b] = Sizes(c)[b]
        /\ fl = t + Sizes(c)[t]
    BY <1>2, <1>4, <1>5
  <2>2. HeapsOK(hs) /\ Tiles(B, Sizes(c), hs, r)
    BY <1>3
  <2>3. t \in B /\ fl \in B
    BY <1>2
  <2>4. PICK sz : sz = Sizes(c)
    OBVIOUS
  <2>5. PICK sz2 : sz2 = Sizes(m)
    OBVIOUS
  <2>6. PICK f : f = fl
    OBVIOUS
  <2>7. /\ t \in B /\ f \in B /\ f = t + sz[t] /\ sz2[t] = sz[t] + sz[f]
        /\ \A b \in B : b # t /\ b # f => sz2[b] = sz[b]
        /\ HeapsOK(hs) /\ Tiles(B, sz, hs, r)
    BY <2>1, <2>2, <2>3, <2>4, <2>5, <2>6
  <2>8. Tiles(B \ {f}, sz2, hs, r)
    BY <2>7, TilesMerge
  <2>. QED  BY <2>5, <2>6, <2>8
<1>7. ListOf(t, Links(m), (N \ {fl}) \cup {t})
  <2>1. Links(m)[t] = Links(c)[fl] /\ \A n \in N : n # fl => Links(m)[n] = Links(c)[n]
    BY <1>2, <1>4, <1>5
  <2>. QED  BY <1>2, <1>3, <2>1, ReplaceHead
<1>8. m \in [Addr -> Header]
  <2>1. m[t].size \in 0 .. MaxAddr
    <3>1. t \in B \ {fl}
      BY <1>2
    <3>2. Sizes(m)[t] \in 1 .. MaxAddr
      BY <1>6, <3>1 DEF Tiles
    <3>3. m[t].size \in 1 .. MaxAddr
      BY <1>2, <1>5, <3>2
    <3>. QED  BY <3>3, Constants
  <2>2. \A a \in Addr : m[a].size \in 0 .. MaxAddr /\ m[a].next_free \in Addr \cup {NULL}
    BY <1>2, <1>4, <2>1
  <2>. QED  BY <2>2, HeadersTyped
<1>9. \A b \in (B \ N) \ {t} : m[b].size = c[b].size
  BY <1>2, <1>4
<1>. DEFINE N2 == (N \ {fl}) \cup {t}
            B2 == B \ {fl}
<1>10. N2 \in SUBSET Addr /\ B2 \in SUBSET Addr /\ N2 # {} /\ N2 \in SUBSET B2
       /\ B2 \ N2 = (B \ N) \ {t}
  BY <1>1, <1>2
<1>11. Good(t, hs, m, N2, B2, r)
  BY <1>3, <1>6, <1>7, <1>8, <1>10 DEF Good
<1>12. EndsWith(t, m, B2)
  <2>1. t \in B2 /\ t \in Nat
    BY <1>2, Constants
  <2>2. Sizes(m)[t] \in 1 .. MaxAddr
    BY <1>6, <2>1 DEF Tiles
  <2>3. m[t].size > 0
    BY <1>2, <1>5, <2>2
  <2>. QED  BY <2>1, <2>3 DEF EndsWith
<1>. QED  BY <1>9, <1>10, <1>11, <1>12

(* The search of gc_free ends, at a node of the list.                      *)
LEMMA SearchHits ==
  ASSUME NEW h, h.hdr \in [Addr -> Header], NEW N, ListOf(h.free_list, Links(h.hdr), N),
         N # {}, NEW t,
         NEW w, w = FreeList(h)
  PROVE  w[Min({k \in DOMAIN w : w[k] # NULL /\ StopsAt(h.hdr, w[k], t)})] \in N
<1>. DEFINE K == {k \in DOMAIN w : w[k] # NULL /\ StopsAt(h.hdr, w[k], t)}
            L == Len(w)
<1>1. /\ w \in Seq(N \cup {NULL}) /\ L \in Nat /\ L >= 1 /\ w[1] = h.free_list /\ w[L] = NULL
      /\ \A j \in 1 .. L - 1 : w[j] \in N /\ w[j + 1] = Links(h.hdr)[w[j]]
  <2>1. Path(w, h.free_list, Links(h.hdr), N, {NULL}) /\ Last(w) = NULL
    BY FreeListWalk
  <2>. QED  BY <2>1 DEF Path, Last
<1>2. h.free_list # NULL /\ N \in SUBSET Addr
  BY DEF ListOf
<1>3. L - 1 \in 1 .. L - 1 /\ (L - 1) + 1 = L
  BY <1>1, <1>2
<1>4. w[L - 1] \in N /\ Links(h.hdr)[w[L - 1]] = NULL
  BY <1>1, <1>3
<1>5. h.hdr[w[L - 1]].next_free = NULL /\ w[L - 1] # NULL
  BY <1>2, <1>4, Constants DEF Links
<1>6. L - 1 \in K
  BY <1>1, <1>3, <1>5 DEF StopsAt
<1>7. K \in SUBSET Nat
  BY <1>1
<1>8. Min(K) \in K
  BY <1>6, <1>7, NatMin
<1>9. w[Min(K)] # NULL /\ Min(K) \in 1 .. L
  BY <1>1, <1>8
<1>. HIDE DEF K
<1>. QED  BY <1>1, <1>9 DEF K

(* In h2 something is free; the blocks T, and they alone, are not, and     *)
(* have the sizes they have in h.                                          *)
HasFree(h, h2, T, r) ==
    \E N2, B2 \in SUBSET Addr :
       /\ Well(h2, N2, B2, r)
       /\ N2 # {} /\ B2 \ N2 = T
       /\ \A b \in T : h2.hdr[b].size = h.hdr[b].size

(* The same, the flags of t and of what it covered are gone, and a walk     *)
(* of the headers that stood at block t goes on where a block of h2 ends.  *)
FreedAt(h, h2, t, T, r) ==
    /\ Flagged(h2.hdr) = Flagged(h.hdr) \ (t .. (t + h.hdr[t].size - 1))
    /\ \E N2, B2 \in SUBSET Addr :
          /\ Well(h2, N2, B2, r)
          /\ N2 # {} /\ B2 \ N2 = T
          /\ \A b \in T : h2.hdr[b].size = h.hdr[b].size
          /\ EndsWith(t, h2.hdr, B2)

(* gc_free: a block that is not free becomes free, alone or as a part of   *)
(* another one, and nothing else changes hands.                            *)
LEMMA FreeKeeps ==
  ASSUME NEW h, NEW N, NEW B, NEW r \in Nat, Well(h, N, B, r), N # {},
         NEW t \in B \ N, NEW h2, h2 = gc_free(h, t)
  PROVE  /\ h2.heaps = h.heaps /\ HasFree(h, h2, (B \ N) \ {t}, r)
         /\ FreedAt(h, h2, t, (B \ N) \ {t}, r)
<1>. DEFINE c == Cleared(h, t)
            fl == h.free_list
            hs == h.heaps
            h1 == [h EXCEPT !.hdr = c]
            w == FreeList(h1)
            hit == w[Min({k \in DOMAIN w : w[k] # NULL /\ StopsAt(c, w[k], t)})]
<1>1. /\ h = [free_list |-> fl, heaps |-> hs, hdr |-> h.hdr]
      /\ Good(fl, hs, h.hdr, N, B, r)
  BY DEF Well
<1>2. h.hdr \in [Addr -> Header] /\ t \in Addr /\ B \in SUBSET Addr /\ N \in SUBSET B
  BY <1>1 DEF Good, Tiles
<1>3. /\ c \in [Addr -> Header]
      /\ Fields(c, t, h.hdr[t].size, h.hdr[t].next_free)
      /\ \A a \in Addr : a <= t \/ a >= t + h.hdr[t].size =>
               Fields(c, a, h.hdr[a].size, h.hdr[a].next_free)
  BY <1>2, ClearedFields
<1>4. h1 = [free_list |-> fl, heaps |-> hs, hdr |-> c]
  BY <1>1
<1>. HIDE DEF c, h1, fl, hs
<1>5. \A b \in B : Fields(c, b, h.hdr[b].size, h.hdr[b].next_free)
  <2>. TAKE b \in B
  <2>1. \A x, y \in B : x < y => x + Sizes(h.hdr)[x] <= y
    BY <1>1 DEF Good, Tiles
  <2>2. Sizes(h.hdr)[t] = h.hdr[t].size
    BY <1>2 DEF Sizes
  <2>3. b <= t \/ t + h.hdr[t].size <= b
    BY <1>2, <2>1, <2>2, Constants
  <2>4. h.hdr[t].size \in Nat
    BY <1>2, HeaderTyped
  <2>. QED  BY <1>2, <1>3, <2>3, <2>4, Constants
<1>6. Good(fl, hs, c, N, B, r)
  BY <1>1, <1>3, <1>5, GoodSame
<1>7. ListOf(h1.free_list, Links(h1.hdr), N) /\ h1.hdr \in [Addr -> Header] /\ h1.hdr = c
  BY <1>3, <1>4, <1>6 DEF Good
<1>8. w = FreeList(h1)
  OBVIOUS
<1>. HIDE DEF w
<1>9. hit \in N
  BY <1>7, <1>8, SearchHits
<1>10. fl \in N /\ fl # NULL
  BY <1>6, Constants DEF Good, ListOf
<1>11. h2 = IF t + c[t].size = fl
            THEN [h EXCEPT !.free_list = t,
                           !.hdr = [c EXCEPT ![t].size = @ + c[fl].size,
                                             ![t].next_free = c[fl].next_free]]
            ELSE [h EXCEPT !.hdr = MergeLeft(MergeRight(c, hit, t), hit, t)]
  BY <1>10 DEF gc_free, c, fl, h1, w
<1>. HIDE DEF hit
<1>12. ASSUME NEW g, NEW m, h2 = [free_list |-> g, heaps |-> hs, hdr |-> m],
              NEW N2 \in SUBSET Addr, NEW B2 \in SUBSET Addr, Good(g, hs, m, N2, B2, r),
              N2 # {}, B2 \ N2 = (B \ N) \ {t},
              \A b \in (B \ N) \ {t} : m[b].size = c[b].size,
              EndsWith(t, m, B2), SameFlags(c, m)
       PROVE  /\ h2.heaps = h.heaps /\ HasFree(h, h2, (B \ N) \ {t}, r)
              /\ FreedAt(h, h2, t, (B \ N) \ {t}, r)
  <2>1. h2.heaps = h.heaps /\ h2.free_list = g /\ h2.hdr = m
    BY <1>12 DEF hs
  <2>2. Well(h2, N2, B2, r)
    BY <1>12, <2>1 DEF Well, hs
  <2>3. \A b \in (B \ N) \ {t} : h2.hdr[b].size = h.hdr[b].size
    BY <1>5, <1>12, <2>1 DEF Fields
  <2>4. EndsWith(t, h2.hdr, B2)
    BY <1>12, <2>1
  <2>5. Flagged(h2.hdr) = Flagged(h.hdr) \ (t .. (t + h.hdr[t].size - 1))
    <3>1. Flagged(m) = Flagged(c)
      BY <1>12 DEF Flagged, SameFlags
    <3>2. h.hdr[t].size > 0
      <4>1. Sizes(h.hdr)[t] > 0
        BY <1>1, TileTyped DEF Good
      <4>. QED  BY <1>2, <4>1 DEF Sizes
    <3>3. Flagged(c) = Flagged(h.hdr) \ (t .. (t + h.hdr[t].size - 1))
      BY <1>2, <3>2, ClearedFlags DEF c
    <3>. QED  BY <2>1, <3>1, <3>3
  <2>6. HasFree(h, h2, (B \ N) \ {t}, r)
    BY <1>12, <2>2, <2>3 DEF HasFree
  <2>7. FreedAt(h, h2, t, (B \ N) \ {t}, r)
    BY <1>12, <2>2, <2>3, <2>4, <2>5 DEF FreedAt
  <2>. QED  BY <2>1, <2>6, <2>7
<1>13. CASE t + c[t].size = fl
  <2>. DEFINE m == [c EXCEPT ![t].size = @ + c[fl].size, ![t].next_free = c[fl].next_free]
  <2>1. h2 = [free_list |-> t, heaps |-> hs, hdr |-> m]
    <3>1. h2 = [h EXCEPT !.free_list = t, !.hdr = m]
      BY <1>11, <1>13
    <3>. HIDE DEF m
    <3>2. PICK x : h = [free_list |-> fl, heaps |-> hs, hdr |-> x]
      BY <1>1
    <3>. QED  BY <3>1, <3>2
  <2>2. Headers(c)
    BY <1>3, HeadersOf
  <2>3. /\ Headers(m) /\ \A a \in Addr : a # t => m[a] = c[a]
        /\ Fields(m, t, c[t].size + c[fl].size, c[fl].next_free) /\ SameFlags(c, m)
    <3>1. t \in Addr
      BY <1>2
    <3>2. Joined(c, t, c[fl].size, c[fl].next_free, m)
      BY DEF Joined, m
    <3>. QED  BY <2>2, <3>1, <3>2, TwoFields
  <2>. HIDE DEF m
  <2>4. \E N2, B2 \in SUBSET Addr :
           /\ Good(t, hs, m, N2, B2, r)
           /\ N2 # {} /\ B2 \ N2 = (B \ N) \ {t}
           /\ \A b \in (B \ N) \ {t} : m[b].size = c[b].size
           /\ EndsWith(t, m, B2)
    BY <1>6, <1>10, <1>13, <2>3, FreeBefore
  <2>. QED  BY <2>1, <2>3, <2>4, <1>12
<1>14. CASE t + c[t].size # fl
  <2>. DEFINE m == MergeLeft(MergeRight(c, hit, t), hit, t)
  <2>1. h2 = [free_list |-> fl, heaps |-> hs, hdr |-> m]
    BY <1>1, <1>11, <1>14
  <2>2. m = MergeLeft(MergeRight(c, hit, t), hit, t)
    OBVIOUS
  <2>. HIDE DEF m
  <2>3. SameFlags(c, m) /\ \E N2, B2 \in SUBSET Addr :
           /\ Good(fl, hs, m, N2, B2, r)
           /\ N2 # {} /\ B2 \ N2 = (B \ N) \ {t}
           /\ \A b \in (B \ N) \ {t} : m[b].size = c[b].size
           /\ EndsWith(t, m, B2)
    BY <1>6, <1>9, <2>2, InsertFree
  <2>. QED  BY <2>1, <2>3, <1>12
<1>. QED  BY <1>13, <1>14

(***************************************************************************)
(* gc_malloc.                                                              *)
(***************************************************************************)
LEMMA TileEnds ==
  ASSUME NEW B, NEW sz, NEW hs, NEW r, HeapsOK(hs), Tiles(B, sz, hs, r), NEW b \in B
  PROVE  b + sz[b] <= MaxAddr + 1
<1>1. PICK i \in 1 .. Len(hs) : InHeap(b, hs[i], sz, B)
  BY DEF Tiles
<1>2. End(hs[i]) <= MaxAddr + 1 /\ End(hs[i]) \in Nat
  <2>1. hs[i].slot \in Nat /\ End(hs[i]) \in Nat /\ End(hs[i]) <= MaxAddr + 1
    BY HeapTyped
  <2>. QED  BY <2>1
<1>3. b \in Nat /\ sz[b] \in Nat /\ b + sz[b] <= End(hs[i])
  BY <1>1, TileTyped DEF InHeap
<1>. QED  BY <1>2, <1>3, Constants

(* When every request has the size that divides the blocks, the first      *)
(* block of the list fits.                                                 *)
LEMMA FitsFirst ==
  ASSUME NEW h, NEW N, NEW B, NEW r \in Nat \ {0}, Well(h, N, B, r)
  PROVE  /\ Fits(h, r) # {} <=> N # {}
         /\ N # {} => /\ Min(Fits(h, r)) = 1 /\ FreeList(h)[1] = h.free_list
                      /\ h.free_list \in N /\ h.hdr[h.free_list].size >= r
<1>. DEFINE w == FreeList(h)
            nx == Links(h.hdr)
<1>1. /\ h.hdr \in [Addr -> Header] /\ Tiles(B, Sizes(h.hdr), h.heaps, r) /\ N \subseteq B
      /\ ListOf(h.free_list, nx, N) /\ B \in SUBSET Addr
  BY DEF Well, Good, Tiles
<1>2. w \in Seq(N \cup {NULL}) /\ Len(w) \in Nat /\ Len(w) >= 1 /\ w[1] = h.free_list
  <2>1. Path(w, h.free_list, nx, N, {NULL})
    BY <1>1, FreeListWalk
  <2>. QED  BY <2>1 DEF Path
<1>3. ASSUME NEW n \in N  PROVE h.hdr[n].size >= r
  <2>1. n \in B /\ n \in Addr /\ Sizes(h.hdr)[n] \in Nat /\ Sizes(h.hdr)[n] > 0
        /\ Multiple(Sizes(h.hdr)[n], r)
    BY <1>1, TileTyped DEF Tiles
  <2>2. Sizes(h.hdr)[n] >= r
    BY <2>1, MultipleLess
  <2>. QED  BY <2>1, <2>2 DEF Sizes
<1>. HIDE DEF w
<1>4. Fits(h, r) = {k \in DOMAIN w : w[k] # NULL /\ h.hdr[w[k]].size >= r}
  BY DEF Fits, w
<1>5. Fits(h, r) \in SUBSET (1 .. Len(w))
  BY <1>2, <1>4
<1>6. ASSUME N # {}
      PROVE  1 \in Fits(h, r) /\ h.free_list \in N /\ h.hdr[h.free_list].size >= r
  <2>1. h.free_list \in N /\ h.free_list # NULL
    BY <1>1, <1>6, Constants DEF ListOf
  <2>. QED  BY <1>2, <1>3, <1>4, <2>1
<1>7. ASSUME Fits(h, r) # {}  PROVE N # {}
  <2>1. PICK k \in Fits(h, r) : TRUE
    BY <1>7
  <2>2. k \in 1 .. Len(w) /\ w[k] # NULL
    BY <1>2, <1>4, <2>1
  <2>. QED  BY <1>2, <2>2
<1>8. ASSUME N # {}  PROVE Min(Fits(h, r)) = 1
  <2>1. Fits(h, r) \in SUBSET Nat
    BY <1>5
  <2>2. Min(Fits(h, r)) \in Fits(h, r) /\ Min(Fits(h, r)) <= 1
    BY <1>6, <1>8, <2>1, NatMin
  <2>. QED  BY <1>2, <1>5, <2>2
<1>. QED  BY <1>2, <1>6, <1>7, <1>8 DEF w

TakenAs(c, p, s, m) == m = [c EXCEPT ![p].size = s, ![p].flags = {"ALLOC"}]
RestOf(c, p, q, r, m) == m = [c EXCEPT ![q] = [c[p] EXCEPT !.size = @ - r]]

LEMMA TakenFields ==
  ASSUME NEW c, Headers(c), NEW p \in Addr, NEW s, NEW m, TakenAs(c, p, s, m)
  PROVE  /\ Headers(m) /\ \A a \in Addr : a # p => m[a] = c[a]
         /\ Fields(m, p, s, c[p].next_free) /\ m[p].flags = {"ALLOC"}
<1>1. c = [a \in Addr |-> c[a]]
      /\ c[p] = [size |-> c[p].size, next_free |-> c[p].next_free, flags |-> c[p].flags]
  BY DEF Headers
<1>2. m = [a \in Addr |-> m[a]] /\ \A a \in Addr : a # p => m[a] = c[a]
  BY <1>1 DEF TakenAs
<1>3. m[p] = [size |-> s, next_free |-> c[p].next_free, flags |-> {"ALLOC"}]
  BY <1>1 DEF TakenAs
<1>4. \A a \in Addr : a # p => /\ m[a] = [size |-> m[a].size, next_free |-> m[a].next_free,
                                         flags |-> m[a].flags]
                              /\ m[a].flags \in SUBSET {"ALLOC"}
  BY <1>2 DEF Headers
<1>. QED  BY <1>2, <1>3, <1>4 DEF Headers, Fields

LEMMA RestFields ==
  ASSUME NEW c, Headers(c), NEW p \in Addr, NEW q \in Addr, NEW r, NEW m,
         RestOf(c, p, q, r, m)
  PROVE  /\ Headers(m) /\ \A a \in Addr : a # q => m[a] = c[a]
         /\ Fields(m, q, c[p].size - r, c[p].next_free) /\ m[q].flags = c[p].flags
<1>1. c = [a \in Addr |-> c[a]] /\ c[p].flags \in SUBSET {"ALLOC"}
      /\ c[p] = [size |-> c[p].size, next_free |-> c[p].next_free, flags |-> c[p].flags]
  BY DEF Headers
<1>2. m = [a \in Addr |-> m[a]] /\ \A a \in Addr : a # q => m[a] = c[a]
  BY <1>1 DEF RestOf
<1>3. m[q] = [size |-> c[p].size - r, next_free |-> c[p].next_free, flags |-> c[p].flags]
  <2>1. m[q] = [c[p] EXCEPT !.size = @ - r]
    BY <1>1 DEF RestOf
  <2>. QED  BY <1>1, <2>1
<1>4. \A a \in Addr : a # q => /\ m[a] = [size |-> m[a].size, next_free |-> m[a].next_free,
                                         flags |-> m[a].flags]
                              /\ m[a].flags \in SUBSET {"ALLOC"}
  BY <1>2 DEF Headers
<1>. QED  BY <1>1, <1>2, <1>3, <1>4 DEF Headers, Fields

(* The head of the list, of the right size, leaves it.                     *)
LEMMA TakeExact ==
  ASSUME NEW fl, NEW hs, NEW c, NEW N, NEW B, NEW r \in Nat \ {0}, Good(fl, hs, c, N, B, r),
         fl \in N, c[fl].size = r,
         NEW m, Headers(m), \A a \in Addr : a # fl => m[a] = c[a],
         Fields(m, fl, r, c[fl].next_free)
  PROVE  Good(c[fl].next_free, hs, m, N \ {fl}, B, r)
<1>1. /\ HeapsOK(hs) /\ Tiles(B, Sizes(c), hs, r) /\ ListOf(fl, Links(c), N)
      /\ N \subseteq B /\ B \in SUBSET Addr /\ fl \in Addr /\ fl # NULL
  BY Constants DEF Good, Tiles
<1>2. /\ \A a \in Addr : c[a].size \in 0 .. MaxAddr /\ c[a].next_free \in Addr \cup {NULL}
      /\ \A a \in Addr : Sizes(c)[a] = c[a].size /\ Links(c)[a] = c[a].next_free
      /\ \A a \in Addr : Sizes(m)[a] = m[a].size /\ Links(m)[a] = m[a].next_free
  BY HeaderTyped DEF Good, Sizes, Links
<1>3. \A a \in Addr : m[a].size = c[a].size /\ m[a].next_free = c[a].next_free
  BY <1>1 DEF Fields
<1>4. m \in [Addr -> Header]
  BY <1>2, <1>3, HeadersTyped
<1>5. Tiles(B, Sizes(m), hs, r)
  <2>1. \A b \in B : Sizes(m)[b] = Sizes(c)[b]
    BY <1>1, <1>2, <1>3
  <2>. QED  BY <1>1, <2>1, TilesSame
<1>6. ListOf(c[fl].next_free, Links(m), N \ {fl})
  <2>1. \A n \in N : n # fl => Links(m)[n] = Links(c)[n]
    BY <1>1, <1>2, <1>3
  <2>2. ListOf(Links(c)[fl], Links(m), N \ {fl})
    BY <1>1, <2>1, DropHead
  <2>. QED  BY <1>1, <1>2, <2>2
<1>. QED  BY <1>1, <1>4, <1>5, <1>6 DEF Good

(* The head of the list is cut; what is left of it takes its place.        *)
LEMMA TakeCut ==
  ASSUME NEW fl, NEW hs, NEW c, NEW N, NEW B, NEW r \in Nat \ {0}, Good(fl, hs, c, N, B, r),
         fl \in N, c[fl].size > r, fl + r \in Addr,
         NEW m, Headers(m), \A a \in Addr : a # fl /\ a # fl + r => m[a] = c[a],
         Fields(m, fl, r, c[fl].next_free),
         Fields(m, fl + r, c[fl].size - r, c[fl].next_free)
  PROVE  /\ Good(fl + r, hs, m, (N \ {fl}) \cup {fl + r}, B \cup {fl + r}, r)
         /\ fl + r \notin B
<1>1. /\ HeapsOK(hs) /\ Tiles(B, Sizes(c), hs, r) /\ ListOf(fl, Links(c), N)
      /\ N \subseteq B /\ B \in SUBSET Addr /\ fl \in Addr /\ fl \in B /\ fl # NULL
  BY Constants DEF Good, Tiles
<1>2. /\ \A a \in Addr : c[a].size \in 0 .. MaxAddr /\ c[a].next_free \in Addr \cup {NULL}
      /\ \A a \in Addr : Sizes(c)[a] = c[a].size /\ Links(c)[a] = c[a].next_free
      /\ \A a \in Addr : Sizes(m)[a] = m[a].size /\ Links(m)[a] = m[a].next_free
  BY HeaderTyped DEF Good, Sizes, Links
<1>. DEFINE q == fl + r
<1>0. q = fl + r /\ q \in Addr
  OBVIOUS
<1>. HIDE DEF q
<1>3. /\ m[fl].size = r /\ m[fl].next_free = c[fl].next_free
      /\ m[q].size = c[fl].size - r /\ m[q].next_free = c[fl].next_free
      /\ \A a \in Addr : a # fl /\ a # q => m[a] = c[a]
  BY <1>0 DEF Fields
<1>4. Tiles(B \cup {q}, Sizes(m), hs, r) /\ q \notin B
  <2>1. Sizes(c)[fl] \in Nat /\ Sizes(c)[fl] > r /\ Multiple(Sizes(c)[fl], r)
    BY <1>1, <1>2, TileTyped DEF Tiles
  <2>2. Multiple(r, r) /\ Multiple(Sizes(c)[fl] - r, r)
    BY <2>1, MultipleLess
  <2>3. Sizes(m)[fl] = r /\ Sizes(m)[q] = Sizes(c)[fl] - r
    BY <1>0, <1>1, <1>2, <1>3
  <2>4. q \notin B
    <3>1. \A x, y \in B : x < y => x + Sizes(c)[x] <= y
      BY <1>1 DEF Tiles
    <3>2. fl \in Nat /\ q \in Nat
      BY <1>0, <1>1, Constants
    <3>. QED  BY <1>0, <1>1, <2>1, <3>1, <3>2
  <2>5. \A b \in B : b # fl => Sizes(m)[b] = Sizes(c)[b]
    BY <1>1, <1>2, <1>3, <2>4
  <2>. HIDE DEF Sizes
  <2>. QED  BY <1>0, <1>1, <2>1, <2>2, <2>3, <2>4, <2>5, TilesCut
<1>5. ListOf(q, Links(m), (N \ {fl}) \cup {q})
  <2>1. /\ Links(m)[q] = Links(c)[fl] /\ q \notin N
        /\ \A n \in N : n # fl => Links(m)[n] = Links(c)[n]
    BY <1>0, <1>1, <1>2, <1>3, <1>4
  <2>. QED  BY <1>0, <1>1, <2>1, ReplaceHead
<1>6. m \in [Addr -> Header]
  <2>1. m[fl].size \in 0 .. MaxAddr /\ m[q].size \in 0 .. MaxAddr
    <3>1. Sizes(m)[fl] \in 1 .. MaxAddr /\ Sizes(m)[q] \in 1 .. MaxAddr
      BY <1>1, <1>4 DEF Tiles
    <3>2. m[fl].size \in 1 .. MaxAddr /\ m[q].size \in 1 .. MaxAddr
      BY <1>0, <1>1, <1>2, <3>1
    <3>. QED  BY <3>2, Constants
  <2>2. \A a \in Addr : m[a].size \in 0 .. MaxAddr /\ m[a].next_free \in Addr \cup {NULL}
    BY <1>1, <1>2, <1>3, <2>1
  <2>. QED  BY <2>2, HeadersTyped
<1>7. (N \ {fl}) \cup {q} \subseteq B \cup {q}
  BY <1>1
<1>8. Good(q, hs, m, (N \ {fl}) \cup {q}, B \cup {q}, r)
  BY <1>1, <1>4, <1>5, <1>6, <1>7 DEF Good
<1>. QED  BY <1>4, <1>8 DEF q

LEMMA Rewritten ==
  ASSUME NEW h, NEW fl, NEW hs, NEW c, h = [free_list |-> fl, heaps |-> hs, hdr |-> c],
         NEW g, NEW m, NEW h2, h2 = [h EXCEPT !.free_list = g, !.hdr = m]
  PROVE  h2 = [free_list |-> g, heaps |-> hs, hdr |-> m]
OBVIOUS

(* The head of the list is handed out; if it was larger than r, something  *)
(* is free still.                                                          *)
Handed(h, res, N, B, r) ==
    /\ res.heap.heaps = h.heaps
    /\ res.ptr \in N /\ res.ptr = h.free_list /\ res.heap.hdr[res.ptr].size = r
    /\ Flagged(h.hdr) = B \ N => Flagged(res.heap.hdr) = (B \ N) \cup {res.ptr}
    /\ \E N2, B2 \in SUBSET Addr :
          /\ Well(res.heap, N2, B2, r)
          /\ B2 \ N2 = (B \ N) \cup {res.ptr}
          /\ h.hdr[res.ptr].size > r => N2 # {}
          /\ \A b \in B \ N : res.heap.hdr[b].size = h.hdr[b].size

(* gc_malloc from the label alloc: the head of the list is handed out.     *)
LEMMA TakeKeeps ==
  ASSUME NEW h, NEW N, NEW B, NEW r \in Nat \ {0}, Well(h, N, B, r), N # {},
         NEW res, res = TakeFirstFit(h, r)
  PROVE  Handed(h, res, N, B, r)
<1>. DEFINE c == h.hdr
            p == h.free_list
            hs == h.heaps
            q == p + r
            w == FreeList(h)
<1>1. /\ h = [free_list |-> p, heaps |-> hs, hdr |-> c]
      /\ Good(p, hs, c, N, B, r)
  BY DEF Well
<1>2. Min(Fits(h, r)) = 1 /\ w[1] = p /\ p \in N /\ c[p].size >= r
  BY FitsFirst
<1>3. /\ c \in [Addr -> Header] /\ p \in Addr /\ p # NULL /\ B \in SUBSET Addr /\ N \in SUBSET B
      /\ HeapsOK(hs) /\ Tiles(B, Sizes(c), hs, r) /\ p \in B /\ c[p].size \in Nat
      /\ Sizes(c)[p] = c[p].size
  <2>1. /\ c \in [Addr -> Header] /\ B \in SUBSET Addr /\ N \in SUBSET B
        /\ HeapsOK(hs) /\ Tiles(B, Sizes(c), hs, r)
    BY <1>1 DEF Good, Tiles
  <2>2. p \in Addr /\ p \in B /\ p # NULL
    BY <1>2, <2>1, Constants
  <2>. QED  BY <2>1, <2>2, HeaderTyped DEF Sizes
<1>4. Headers(c)
  BY <1>3, HeadersOf
<1>5. res = [ptr |-> p,
             heap |->
               IF c[p].size = r THEN
                 [h EXCEPT !.free_list = c[p].next_free,
                           !.hdr = [c EXCEPT ![p].size = r, ![p].flags = {"ALLOC"}]]
               ELSE
                 [h EXCEPT !.free_list = q,
                           !.hdr = [[c EXCEPT ![q] = [c[p] EXCEPT !.size = @ - r]]
                                      EXCEPT ![p].size = r, ![p].flags = {"ALLOC"}]]]
  BY <1>2 DEF TakeFirstFit, CutAt
<1>. HIDE DEF c, p, hs, q, w
<1>6. ASSUME NEW g, NEW m, res = [ptr |-> p, heap |-> [free_list |-> g, heaps |-> hs, hdr |-> m]],
             NEW N2 \in SUBSET Addr, NEW B2 \in SUBSET Addr, Good(g, hs, m, N2, B2, r),
             B2 \ N2 = (B \ N) \cup {p}, c[p].size > r => N2 # {},
             m[p].size = r, \A b \in B \ N : m[b].size = c[b].size,
             Flagged(c) = B \ N => Flagged(m) = (B \ N) \cup {p}
      PROVE  Handed(h, res, N, B, r)
  <2>1. /\ res.ptr = p /\ res.heap.heaps = hs /\ res.heap.free_list = g /\ res.heap.hdr = m
        /\ res.heap = [free_list |-> g, heaps |-> hs, hdr |-> m] /\ hs = h.heaps /\ c = h.hdr
        /\ p = h.free_list
    BY <1>6 DEF hs, c, p
  <2>2. Well(res.heap, N2, B2, r)
    BY <1>6, <2>1 DEF Well
  <2>. QED  BY <1>2, <1>6, <2>1, <2>2 DEF Handed
<1>7. CASE c[p].size = r
  <2>. DEFINE m == [c EXCEPT ![p].size = r, ![p].flags = {"ALLOC"}]
  <2>1. /\ Headers(m) /\ \A a \in Addr : a # p => m[a] = c[a]
        /\ Fields(m, p, r, c[p].next_free) /\ m[p].flags = {"ALLOC"}
    <3>1. TakenAs(c, p, r, m)
      BY DEF TakenAs
    <3>. HIDE DEF m
    <3>. QED  BY <1>3, <1>4, <3>1, TakenFields
  <2>2. res = [ptr |-> p,
               heap |-> [free_list |-> c[p].next_free, heaps |-> hs, hdr |-> m]]
    <3>1. PICK x : res = [ptr |-> p, heap |-> x] /\ x = [h EXCEPT !.free_list = c[p].next_free, !.hdr = m]
      BY <1>5, <1>7
    <3>. HIDE DEF m
    <3>2. x = [free_list |-> c[p].next_free, heaps |-> hs, hdr |-> m]
      BY <1>1, <3>1, Rewritten
    <3>. QED  BY <3>1, <3>2
  <2>. HIDE DEF m
  <2>3. Good(c[p].next_free, hs, m, N \ {p}, B, r)
    BY <1>1, <1>2, <1>7, <2>1, TakeExact
  <2>4. B \ (N \ {p}) = (B \ N) \cup {p} /\ N \ {p} \in SUBSET Addr
    BY <1>2, <1>3
  <2>5. m[p].size = r /\ \A b \in B \ N : m[b].size = c[b].size
    BY <1>2, <1>3, <2>1 DEF Fields
  <2>6. N \ {p} \in SUBSET Addr /\ B \in SUBSET Addr /\ ~(c[p].size > r)
    BY <1>3, <1>7
  <2>7. Flagged(m) = Flagged(c) \cup {p}
    BY <1>3, <2>1 DEF Flagged
  <2>. QED  BY <2>2, <2>3, <2>4, <2>5, <2>6, <2>7, <1>6
<1>8. CASE c[p].size # r
  <2>1. q \in Addr /\ q # p /\ c[p].size > r
    <3>1. p + Sizes(c)[p] <= MaxAddr + 1
      BY <1>3, TileEnds
    <3>2. p \in 1 .. MaxAddr
      BY <1>3 DEF Addr
    <3>. QED  BY <1>2, <1>3, <1>8, <3>1, <3>2, Constants DEF q, Addr
  <2>. DEFINE k == [c EXCEPT ![q] = [c[p] EXCEPT !.size = @ - r]]
              m == [k EXCEPT ![p].size = r, ![p].flags = {"ALLOC"}]
  <2>2. res = [ptr |-> p, heap |-> [free_list |-> q, heaps |-> hs, hdr |-> m]]
    <3>1. PICK x : res = [ptr |-> p, heap |-> x] /\ x = [h EXCEPT !.free_list = q, !.hdr = m]
      BY <1>5, <1>8
    <3>. HIDE DEF m
    <3>2. x = [free_list |-> q, heaps |-> hs, hdr |-> m]
      BY <1>1, <3>1, Rewritten
    <3>. QED  BY <3>1, <3>2
  <2>3. /\ Headers(k) /\ \A a \in Addr : a # q => k[a] = c[a]
        /\ Fields(k, q, c[p].size - r, c[p].next_free) /\ k[q].flags = c[p].flags
    <3>1. RestOf(c, p, q, r, k)
      BY DEF RestOf
    <3>. HIDE DEF k
    <3>. QED  BY <1>3, <1>4, <2>1, <3>1, RestFields
  <2>. HIDE DEF k
  <2>4. /\ Headers(m) /\ \A a \in Addr : a # p => m[a] = k[a]
        /\ Fields(m, p, r, k[p].next_free) /\ m[p].flags = {"ALLOC"}
    <3>1. TakenAs(k, p, r, m)
      BY DEF TakenAs
    <3>. HIDE DEF m
    <3>. QED  BY <1>3, <2>3, <3>1, TakenFields
  <2>. HIDE DEF m
  <2>5. /\ \A a \in Addr : a # p /\ a # q => m[a] = c[a]
        /\ Fields(m, p, r, c[p].next_free)
        /\ Fields(m, q, c[p].size - r, c[p].next_free)
    BY <1>3, <2>1, <2>3, <2>4 DEF Fields
  <2>6. /\ Good(q, hs, m, (N \ {p}) \cup {q}, B \cup {q}, r)
        /\ q \notin B
    BY <1>1, <1>2, <2>1, <2>4, <2>5, TakeCut DEF q
  <2>7. (B \cup {q}) \ ((N \ {p}) \cup {q}) = (B \ N) \cup {p}
        /\ (N \ {p}) \cup {q} \in SUBSET Addr /\ B \cup {q} \in SUBSET Addr
        /\ (N \ {p}) \cup {q} # {}
    BY <1>2, <1>3, <2>1, <2>6
  <2>8. m[p].size = r /\ \A b \in B \ N : m[b].size = c[b].size
    BY <1>2, <1>3, <2>5, <2>6 DEF Fields
  <2>9. ASSUME Flagged(c) = B \ N  PROVE Flagged(m) = (B \ N) \cup {p}
    <3>1. c[p].flags = {} /\ c[q].flags = {}
      BY <1>2, <1>3, <2>1, <2>6, <2>9 DEF Flagged
    <3>2. m[q].flags = {}
      BY <1>3, <2>1, <2>3, <2>4, <3>1
    <3>3. \A a \in Addr : a # p => m[a].flags = c[a].flags
      BY <2>5, <3>1, <3>2
    <3>4. Flagged(m) = Flagged(c) \cup {p}
      BY <1>3, <2>4, <3>3 DEF Flagged
    <3>. QED  BY <2>9, <3>4
  <2>. QED  BY <2>2, <2>6, <2>7, <2>8, <2>9, <1>6
<1>. QED  BY <1>7, <1>8

(***************************************************************************)
(* gc_init and gc_grow.                                                    *)
(***************************************************************************)
(* sbrk's next address lies behind every heap.                             *)
LEMMA BrkBehind ==
  ASSUME NEW h, HeapsOK(h.heaps)
  PROVE  Brk(h) \in Nat \ {0} /\ \A i \in 1 .. Len(h.heaps) : End(h.heaps[i]) < Brk(h)
<1>. DEFINE hs == h.heaps
            L == Len(hs)
<1>1. \A i \in 1 .. L : hs[i].slot \in Nat /\ hs[i].slot > 0 /\ hs[i].size \in Nat
                        /\ End(hs[i]) = hs[i].slot + hs[i].size
  BY HeapTyped, Constants
<1>2. L \in Nat /\ (hs = <<>> <=> L = 0) /\ \A i, j \in 1 .. L : i < j => End(hs[i]) < hs[j].slot
  BY DEF HeapsOK
<1>3. CASE L = 0
  <2>1. Brk(h) = 1
    BY <1>2, <1>3 DEF Brk
  <2>. QED  BY <1>3, <2>1
<1>4. CASE L # 0
  <2>1. Brk(h) = hs[L].slot + hs[L].size + 1 /\ L \in 1 .. L
    BY <1>2, <1>4 DEF Brk, Last
  <2>. HIDE DEF L, hs
  <2>2. \A i \in 1 .. L : i < L => End(hs[i]) < hs[L].slot
    BY <1>2, <2>1
  <2>3. \A i \in 1 .. L : i < L \/ i = L
    BY <1>2
  <2>4. ASSUME NEW i \in 1 .. L  PROVE End(hs[i]) < Brk(h)
    <3>1. hs[L].slot \in Nat /\ hs[L].size \in Nat /\ End(hs[L]) = hs[L].slot + hs[L].size
          /\ End(hs[i]) \in Nat
      BY <1>1, <2>1
    <3>. QED  BY <2>1, <2>2, <2>3, <3>1
  <2>5. Brk(h) \in Nat \ {0}
    BY <1>1, <2>1
  <2>. QED  BY <2>4, <2>5 DEF L, hs
<1>. QED  BY <1>3, <1>4

(* h2 is h and a heap of n units.                                          *)
Added(h, h2, n, N, B, r) ==
    /\ h2.heaps = NewHeap(h, n).heaps
    /\ HasFree(h, h2, B \ N, r)
    /\ N = {} => /\ h2.hdr[h2.free_list].size = n
                 /\ Flagged(h2.hdr) = Flagged(h.hdr) \ {Brk(h)}

(* A heap of one free block is added.                                      *)
LEMMA HeapAdded ==
  ASSUME NEW h, NEW N, NEW B, NEW r \in Nat \ {0}, Well(h, N, B, r),
         NEW n \in Nat \ {0}, Multiple(n, r), Brk(h) + n <= MaxAddr + 1,
         NEW h2, h2 = AddFree(NewHeap(h, n), Brk(h))
  PROVE  Added(h, h2, n, N, B, r)
<1>. DEFINE a == Brk(h)
            c == h.hdr
            fl == h.free_list
            e == [slot |-> a, size |-> n]
            hs2 == Append(h.heaps, e)
            m == [c EXCEPT ![a] = [size |-> n, next_free |-> NULL, flags |-> {}]]
            h1 == NewHeap(h, n)
            B1 == B \cup {a}
<1>1. /\ h = [free_list |-> fl, heaps |-> h.heaps, hdr |-> c]
      /\ Good(fl, h.heaps, c, N, B, r)
  BY DEF Well
<1>2. /\ c \in [Addr -> Header] /\ HeapsOK(h.heaps) /\ Tiles(B, Sizes(c), h.heaps, r)
      /\ ListOf(fl, Links(c), N) /\ N \subseteq B /\ B \in SUBSET Addr
  BY <1>1 DEF Good, Tiles
<1>3. a \in Addr /\ n \in 1 .. MaxAddr /\ a + n <= MaxAddr + 1
      /\ \A i \in 1 .. Len(h.heaps) : End(h.heaps[i]) < a
  <2>1. a \in Nat \ {0} /\ \A i \in 1 .. Len(h.heaps) : End(h.heaps[i]) < a
    BY <1>2, BrkBehind
  <2>2. MaxAddr \in Nat /\ a + n <= MaxAddr + 1
    BY Constants
  <2>3. a \in Addr /\ n \in 1 .. MaxAddr
    BY <2>1, <2>2 DEF Addr
  <2>. QED  BY <2>1, <2>2, <2>3
<1>4. h1 = [free_list |-> fl, heaps |-> hs2, hdr |-> m]
  <2>1. h1 = [h EXCEPT !.heaps = hs2, !.hdr = m]
    BY <1>1 DEF NewHeap
  <2>. HIDE DEF h1, m, hs2
  <2>. QED  BY <1>1, <2>1
<1>5. /\ m \in [Addr -> Header]
      /\ \A x \in Addr : x # a => m[x] = c[x]
      /\ m[a].size = n /\ m[a].next_free = NULL /\ m[a].flags = {}
  <2>1. [size |-> n, next_free |-> NULL, flags |-> {}] \in Header
    BY <1>3, IsHeader, Constants
  <2>. QED  BY <1>2, <1>3, <2>1
<1>6. hs2 = Append(h.heaps, e)
  OBVIOUS
<1>7. h2 = AddFree(h1, a)
  OBVIOUS
<1>. HIDE DEF a, c, fl, hs2, m, h1
<1>8. /\ \A x \in Addr : x # a => Sizes(m)[x] = Sizes(c)[x] /\ Links(m)[x] = Links(c)[x]
      /\ Sizes(m)[a] = n /\ Links(m)[a] = NULL
  BY <1>3, <1>5 DEF Sizes, Links
<1>9. HeapsOK(hs2) /\ Tiles(B1, Sizes(m), hs2, r) /\ a \notin B
  <2>1. \A x \in B : x # a => Sizes(m)[x] = Sizes(c)[x]
    BY <1>2, <1>8
  <2>2. e \in [slot : Addr, size : 1 .. MaxAddr] /\ e.slot = a /\ e.size = n
    BY <1>3
  <2>. HIDE DEF e, B1
  <2>3. Grows(B, Sizes(c), h.heaps, a, n, e, hs2, Sizes(m))
    BY <1>3, <1>6, <1>8, <2>1, <2>2 DEF Grows
  <2>4. HeapsOK(hs2) /\ Tiles(B \cup {a}, Sizes(m), hs2, r) /\ a \notin B
    BY <1>2, <2>3, TilesGrow
  <2>. QED  BY <2>4 DEF B1
<1>10. ListOf(fl, Links(m), N)
  <2>1. \A x \in N : Links(m)[x] = Links(c)[x]
    BY <1>2, <1>8, <1>9
  <2>. QED  BY <1>2, <2>1 DEF ListOf, Closed
<1>11. B1 \in SUBSET Addr /\ \A b \in B \ N : m[b].size = c[b].size
  BY <1>2, <1>3, <1>5, <1>9
<1>12. CASE fl = NULL
  <2>1. N = {} /\ h1.free_list = NULL
    BY <1>2, <1>4, <1>12 DEF ListOf
  <2>2. h2 = [free_list |-> a, heaps |-> hs2, hdr |-> m]
    BY <1>4, <1>7, <2>1 DEF AddFree
  <2>3. h2.free_list = a /\ h2.heaps = hs2 /\ h2.hdr = m
    BY <2>2
  <2>4. ListOf(a, Links(m), {a})
    BY <1>3, <1>8, Constants DEF ListOf, Closed
  <2>5. Well(h2, {a}, B1, r)
    BY <1>5, <1>9, <2>2, <2>3, <2>4 DEF Well, Good
  <2>6. {a} \in SUBSET Addr /\ {a} # {} /\ B1 \ {a} = B \ N
    BY <1>3, <1>9, <2>1
  <2>7. HasFree(h, h2, B \ N, r)
    BY <1>11, <2>3, <2>5, <2>6 DEF HasFree, c
  <2>8. h2.heaps = h1.heaps
    BY <1>4, <2>3
  <2>9. Flagged(h2.hdr) = Flagged(c) \ {a}
    BY <1>3, <1>5, <2>3 DEF Flagged
  <2>. QED  BY <1>5, <2>3, <2>7, <2>8, <2>9 DEF h1, a, c, Added
<1>13. CASE fl # NULL
  <2>1. N # {} /\ h1.free_list # NULL
    BY <1>2, <1>4, <1>13 DEF ListOf
  <2>2. h2 = gc_free(h1, a)
    BY <1>7, <2>1 DEF AddFree
  <2>3. h1.free_list = fl /\ h1.heaps = hs2 /\ h1.hdr = m
    BY <1>4
  <2>4. Well(h1, N, B1, r)
    BY <1>2, <1>4, <1>5, <1>9, <1>10, <2>3 DEF Well, Good
  <2>5. a \in B1 \ N
    BY <1>2, <1>9
  <2>. HIDE DEF B1
  <2>6. h2.heaps = h1.heaps /\ HasFree(h1, h2, (B1 \ N) \ {a}, r)
    BY <2>1, <2>2, <2>4, <2>5, FreeKeeps
  <2>7. (B1 \ N) \ {a} = B \ N
    BY <1>9 DEF B1
  <2>8. HasFree(h, h2, B \ N, r)
    BY <1>11, <2>3, <2>6, <2>7 DEF HasFree, c
  <2>. QED  BY <2>1, <2>6, <2>8 DEF h1, Added
<1>. QED  BY <1>12, <1>13

(* Heaps whose blocks are all free.                                        *)
HeapRecords == [free_list : Addr \cup {NULL}, heaps : Seq([slot : Addr, size : 1 .. MaxAddr]),
                hdr : [Addr -> Header]]
Fresh(r) == {h \in HeapRecords : \E N \in SUBSET Addr : Well(h, N, N, r)}

LEMMA FreshEmpty ==
  ASSUME NEW r \in Nat \ {0}
  PROVE  /\ EmptyHeap \in Fresh(r) /\ EmptyHeap.heaps = <<>> /\ EmptyHeap.free_list = NULL
         /\ Brk(EmptyHeap) = 1 /\ Well(EmptyHeap, {}, {}, r)
<1>. DEFINE c == [a \in Addr |-> Blank]
<1>1. c \in [Addr -> Header]
  <2>1. Blank \in Header
    BY IsHeader, Constants DEF Blank
  <2>. QED  BY <2>1
<1>2. EmptyHeap = [free_list |-> NULL, heaps |-> <<>>, hdr |-> c]
  BY DEF EmptyHeap
<1>. HIDE DEF c
<1>3. EmptyHeap.heaps = <<>> /\ EmptyHeap.free_list = NULL /\ EmptyHeap.hdr = c
  BY <1>2
<1>4. HeapsOK(<<>>)
  BY DEF HeapsOK
<1>5. Tiles({}, Sizes(c), <<>>, r)
  BY DEF Tiles
<1>6. ListOf(NULL, Links(c), {})
  BY DEF ListOf
<1>7. Well(EmptyHeap, {}, {}, r)
  BY <1>1, <1>2, <1>3, <1>4, <1>5, <1>6 DEF Well, Good
<1>8. EmptyHeap \in HeapRecords
  BY <1>1, <1>2 DEF HeapRecords
<1>9. Brk(EmptyHeap) = 1
  BY <1>3 DEF Brk
<1>. QED  BY <1>3, <1>7, <1>8, <1>9 DEF Fresh

LEMMA FreshAdded ==
  ASSUME NEW r \in Nat \ {0}, NEW h \in Fresh(r),
         NEW n \in Nat \ {0}, Multiple(n, r), Brk(h) + n <= MaxAddr + 1,
         NEW h2, h2 = AddFree(NewHeap(h, n), Brk(h))
  PROVE  /\ h2 \in Fresh(r) /\ Brk(h2) = Brk(h) + n + 1 /\ h2.free_list # NULL
<1>1. PICK N \in SUBSET Addr : Well(h, N, N, r)
  BY DEF Fresh
<1>2. /\ h2.heaps = Append(h.heaps, [slot |-> Brk(h), size |-> n])
      /\ \E N2, B2 \in SUBSET Addr : Well(h2, N2, B2, r) /\ N2 # {} /\ B2 \ N2 = {}
  <2>0. Added(h, h2, n, N, N, r)
    BY <1>1, HeapAdded
  <2>1. h2.heaps = NewHeap(h, n).heaps
    BY <2>0 DEF Added
  <2>3. NewHeap(h, n).heaps = Append(h.heaps, [slot |-> Brk(h), size |-> n])
    <3>1. h \in HeapRecords
      BY DEF Fresh
    <3>. QED  BY <3>1 DEF NewHeap, HeapRecords
  <2>2. HasFree(h, h2, N \ N, r)
    BY <2>0 DEF Added
  <2>. QED  BY <2>1, <2>2, <2>3 DEF HasFree
<1>3. PICK N2, B2 \in SUBSET Addr : Well(h2, N2, B2, r) /\ N2 # {} /\ B2 \ N2 = {}
  BY <1>2
<1>4. N2 = B2
  BY <1>3 DEF Well, Good
<1>5. h2 \in HeapRecords /\ h2.free_list # NULL
  BY <1>3 DEF Well, Good, HeapsOK, ListOf, HeapRecords
<1>6. h.heaps \in Seq([slot : Addr, size : 1 .. MaxAddr])
  BY <1>1 DEF Well, Good, HeapsOK
<1>7. Brk(h2) = Brk(h) + n + 1
  <2>. DEFINE e == [slot |-> Brk(h), size |-> n]
              s == Append(h.heaps, e)
  <2>1. e.slot = Brk(h) /\ e.size = n
    OBVIOUS
  <2>. HIDE DEF e
  <2>2. s # <<>> /\ Last(s) = e
    BY <1>6 DEF Last
  <2>3. h2.heaps = s
    BY <1>2 DEF e
  <2>. HIDE DEF s
  <2>. QED  BY <2>1, <2>2, <2>3 DEF Brk
<1>. QED  BY <1>3, <1>4, <1>5, <1>7 DEF Fresh

(* gc_init with n heaps of a size that fits n times.                       *)
LEMMA InitFresh ==
  ASSUME NEW r \in Nat \ {0}, NEW n \in Nat, NEW size \in Nat,
         n > 0 => size > 0 /\ Multiple(size, r) /\ n * (size + 1) <= MaxAddr + 1
  PROVE  gc_init(n, size) \in Fresh(r)
         /\ (n = 0 => gc_init(n, size) = EmptyHeap)
         /\ (n > 0 => gc_init(n, size).free_list # NULL)
<1>. DEFINE D == Fresh(r)
            step(h) == AddFree(NewHeap(h, size), Brk(h))
            F == [k \in Nat |->
                    [h \in D |-> IF n > 0 /\ Brk(h) + size <= MaxAddr + 1 THEN step(h) ELSE h]]
            Walk(f) == f = [k \in 0 .. n |-> IF k = 0 THEN EmptyHeap
                                             ELSE AddFree(NewHeap(f[k - 1], size), Brk(f[k - 1]))]
            f == CHOOSE f : Walk(f)
<1>1. EmptyHeap \in D /\ Brk(EmptyHeap) = 1
  BY FreshEmpty
<1>2. ASSUME NEW h \in D, n > 0, Brk(h) + size <= MaxAddr + 1
      PROVE  step(h) \in D /\ Brk(step(h)) = Brk(h) + size + 1 /\ step(h).free_list # NULL
  BY <1>2, FreshAdded
<1>. HIDE DEF step, D
<1>3. F \in [Nat -> [D -> D]]
  BY <1>2
<1>4. PICK g \in [0 .. n -> D] : Recurses(g, EmptyHeap, F, n)
  <2>. HIDE DEF F
  <2>. QED  BY <1>1, <1>3, RecursionExists
<1>5. \A k \in 0 .. n : g[k] = IF k = 0 THEN EmptyHeap
                              ELSE IF n > 0 /\ Brk(g[k - 1]) + size <= MaxAddr + 1
                                   THEN step(g[k - 1]) ELSE g[k - 1]
  <2>1. \A k \in 0 .. n : g[k] = IF k = 0 THEN EmptyHeap ELSE F[k][g[k - 1]]
    BY <1>4 DEF Recurses
  <2>2. \A k \in 0 .. n : k # 0 => k \in Nat /\ g[k - 1] \in D
    OBVIOUS
  <2>3. \A k \in Nat, h \in D :
           F[k][h] = IF n > 0 /\ Brk(h) + size <= MaxAddr + 1 THEN step(h) ELSE h
    OBVIOUS
  <2>. HIDE DEF F
  <2>. QED  BY <2>1, <2>2, <2>3
(* Before each of the n additions there is room for it.                    *)
<1>6. \A k \in Nat : k + 1 <= n => (k + 1) * (size + 1) <= n * (size + 1)
                                   /\ (k + 1) * (size + 1) = k * (size + 1) + size + 1
  <2>. TAKE k \in Nat
  <2>. HAVE k + 1 <= n
  <2>. DEFINE d == n - (k + 1)
  <2>1. d \in Nat /\ n = (k + 1) + d
    OBVIOUS
  <2>. HIDE DEF d
  <2>2. n * (size + 1) = (k + 1) * (size + 1) + d * (size + 1)
    BY <2>1
  <2>3. d * (size + 1) \in Nat /\ (k + 1) * (size + 1) \in Nat /\ k * (size + 1) \in Nat
    BY <2>1
  <2>. QED  BY <2>2, <2>3
<1>7. \A k \in Nat : k <= n => Brk(g[k]) = k * (size + 1) + 1
                               /\ (k > 0 => g[k] = step(g[k - 1]) /\ g[k].free_list # NULL)
  <2>. DEFINE S == {k \in Nat : k <= n => Brk(g[k]) = k * (size + 1) + 1
                               /\ (k > 0 => g[k] = step(g[k - 1]) /\ g[k].free_list # NULL)}
  <2>1. 0 \in S
    BY <1>1, <1>5
  <2>2. ASSUME NEW k \in Nat, k \in S  PROVE k + 1 \in S
    <3>. SUFFICES ASSUME k + 1 <= n
                  PROVE  /\ Brk(g[k + 1]) = (k + 1) * (size + 1) + 1
                         /\ g[k + 1] = step(g[k]) /\ g[k + 1].free_list # NULL
      BY DEF S
    <3>1. Brk(g[k]) = k * (size + 1) + 1 /\ n > 0 /\ g[k] \in D /\ k * (size + 1) \in Nat
      BY <2>2
    <3>2. (k + 1) * (size + 1) <= n * (size + 1)
          /\ (k + 1) * (size + 1) = k * (size + 1) + size + 1
      BY <1>6
    <3>3. Brk(g[k]) + size <= MaxAddr + 1
      <4>1. n * (size + 1) <= MaxAddr + 1 /\ n * (size + 1) \in Nat
        BY <3>1
      <4>. QED  BY <3>1, <3>2, <4>1, Constants
    <3>4. g[k + 1] = step(g[k])
      <4>1. k + 1 \in 0 .. n /\ k + 1 # 0 /\ (k + 1) - 1 = k
        OBVIOUS
      <4>. QED  BY <4>1, <1>5, <3>1, <3>3
    <3>. QED  BY <1>2, <3>1, <3>2, <3>3, <3>4
  <2>. HIDE DEF S
  <2>3. Nat \subseteq S
    BY <2>1, <2>2, NatSetInduction
  <2>. QED  BY <2>3 DEF S
<1>8. Walk(g)
  <2>1. \A k \in 0 .. n : g[k] = IF k = 0 THEN EmptyHeap ELSE step(g[k - 1])
    BY <1>5, <1>7
  <2>. QED  BY <2>1 DEF step
<1>9. Walk(f)
  BY <1>8
<1>10. \A k \in Nat : k <= n => f[k] = g[k]
  <2>. HIDE DEF f
  <2>. DEFINE S == {k \in Nat : k <= n => f[k] = g[k]}
  <2>1. 0 \in S
    <3>1. 0 \in 0 .. n
      OBVIOUS
    <3>2. f[0] = EmptyHeap /\ g[0] = EmptyHeap
      BY <1>8, <1>9, <3>1
    <3>. QED  BY <3>2
  <2>2. ASSUME NEW k \in Nat, k \in S  PROVE k + 1 \in S
    <3>. SUFFICES ASSUME k + 1 <= n  PROVE f[k + 1] = g[k + 1]
      BY DEF S
    <3>1. k + 1 \in 0 .. n /\ k + 1 # 0 /\ (k + 1) - 1 = k /\ f[k] = g[k]
      BY <2>2
    <3>. QED  BY <1>8, <1>9, <3>1
  <2>. HIDE DEF S
  <2>3. Nat \subseteq S
    BY <2>1, <2>2, NatSetInduction
  <2>. QED  BY <2>3 DEF S
<1>11. gc_init(n, size) = f[n]
  BY DEF gc_init
<1>. HIDE DEF f, F
<1>12. gc_init(n, size) = g[n] /\ g[n] \in D /\ (n = 0 => g[n] = EmptyHeap)
  BY <1>5, <1>10, <1>11
<1>. QED  BY <1>7, <1>12 DEF D

(* Every unit of a heap lies in a block.                                   *)
LEMMA Covered ==
  ASSUME NEW B, NEW sz, NEW hs, NEW r, HeapsOK(hs), Tiles(B, sz, hs, r),
         NEW i \in 1 .. Len(hs), NEW u \in Nat, hs[i].slot <= u, u < End(hs[i])
  PROVE  \E b \in B : b <= u /\ u < b + sz[b]
<1>. DEFINE C == {b \in B : hs[i].slot <= b /\ b <= u}
            D == {u - b : b \in C}
<1>1. hs[i].slot \in Nat /\ hs[i].slot \in B /\ End(hs[i]) \in Nat
  BY HeapTyped, Constants DEF Tiles
<1>2. \A b \in B : b \in Nat /\ sz[b] \in Nat /\ sz[b] > 0
  BY TileTyped
<1>3. D \in SUBSET Nat /\ D # {}
  BY <1>1, <1>2
<1>4. Min(D) \in D /\ \A d \in D : Min(D) <= d
  BY <1>3, NatMin
<1>5. PICK b \in C : Min(D) = u - b
  BY <1>4
<1>6. \A c \in C : c <= b
  <2>. TAKE c \in C
  <2>1. u - c \in D /\ c \in Nat /\ b \in Nat
    BY <1>2
  <2>. HIDE DEF D
  <2>2. u - b <= u - c
    BY <1>4, <1>5, <2>1
  <2>. QED  BY <2>1, <2>2
<1>. HIDE DEF D
<1>7. ASSUME b + sz[b] <= u  PROVE FALSE
  <2>1. InHeap(b, hs[i], sz, B)
    BY <1>1, <1>2, TileInHeap
  <2>2. b + sz[b] \in B
    BY <1>1, <1>2, <1>7, <2>1 DEF InHeap
  <2>3. b + sz[b] \in C
    BY <1>1, <1>2, <1>7, <2>2
  <2>. QED  BY <1>2, <1>6, <2>3
<1>. QED  BY <1>2, <1>7

LEMMA UnitsTyped ==
  ASSUME NEW h, HeapsOK(h.heaps)
  PROVE  Units(h) \in SUBSET Addr
<1>1. \A s \in ToSet(h.heaps) : \E i \in 1 .. Len(h.heaps) : s = h.heaps[i]
  BY DEF ToSet, HeapsOK
<1>2. \A i \in 1 .. Len(h.heaps) :
         h.heaps[i].slot .. (h.heaps[i].slot + h.heaps[i].size - 1) \subseteq Addr
  <2>. TAKE i \in 1 .. Len(h.heaps)
  <2>1. h.heaps[i].slot \in 1 .. MaxAddr /\ h.heaps[i].size \in 1 .. MaxAddr
        /\ h.heaps[i].slot + h.heaps[i].size <= MaxAddr + 1
    BY HeapTyped
  <2>. QED  BY <2>1, Constants DEF Addr
<1>. QED  BY <1>1, <1>2 DEF Units

LEMMA UnitInBlock ==
  ASSUME NEW h, NEW N, NEW B, NEW r, Well(h, N, B, r), NEW u \in Units(h)
  PROVE  \E b \in B : b <= u /\ u < b + Sizes(h.hdr)[b]
<1>1. HeapsOK(h.heaps) /\ Tiles(B, Sizes(h.hdr), h.heaps, r)
  BY DEF Well, Good
<1>2. PICK i \in 1 .. Len(h.heaps) : u \in h.heaps[i].slot .. (h.heaps[i].slot + h.heaps[i].size - 1)
  <2>1. \A s \in ToSet(h.heaps) : \E i \in 1 .. Len(h.heaps) : s = h.heaps[i]
    BY <1>1 DEF ToSet, HeapsOK
  <2>2. PICK s \in ToSet(h.heaps) : u \in s.slot .. (s.slot + s.size - 1)
    BY DEF Units
  <2>. QED  BY <2>1, <2>2
<1>3. u \in Nat /\ h.heaps[i].slot <= u /\ u < End(h.heaps[i])
  <2>1. PICK s : s = h.heaps[i]
    OBVIOUS
  <2>2. s.slot \in Nat /\ End(s) \in Nat /\ s.size \in Int /\ End(s) = s.slot + s.size
    <3>1. /\ h.heaps[i].slot \in Nat /\ End(h.heaps[i]) \in Nat
          /\ h.heaps[i].size \in 1 .. MaxAddr
          /\ End(h.heaps[i]) = h.heaps[i].slot + h.heaps[i].size
      BY <1>1, HeapTyped
    <3>. QED  BY <2>1, <3>1
  <2>3. u \in s.slot .. (s.slot + s.size - 1)
    BY <1>2, <2>1
  <2>4. u \in Nat /\ s.slot <= u /\ u < End(s)
    BY <2>2, <2>3
  <2>. QED  BY <2>1, <2>4
<1>. QED  BY <1>1, <1>3, Covered

LEMMA UnionBound ==
  ASSUME NEW S \in SUBSET Addr, NEW p \in Nat, NEW r \in Nat \ {0}, NEW T,
         T \subseteq S \cup (p .. (p + r - 1))
  PROVE  Cardinality(T) <= Cardinality(S) + r
         /\ Cardinality(S) \in Nat /\ Cardinality(T) \in Nat
<1>. DEFINE I == p .. (p + r - 1)
<1>1. IsFiniteSet(S)
  BY AddrFinite
<1>2. IsFiniteSet(I) /\ Cardinality(I) = r
  BY FS_Interval
<1>. HIDE DEF I
<1>3. IsFiniteSet(S \cup I) /\ Cardinality(S \cup I) = Cardinality(S) + r - Cardinality(S \cap I)
  BY <1>1, <1>2, FS_Union
<1>4. IsFiniteSet(S \cap I)
  BY <1>1, FS_Subset
<1>5. Cardinality(S) \in Nat /\ Cardinality(S \cap I) \in Nat /\ Cardinality(S \cup I) \in Nat
  BY <1>1, <1>3, <1>4, FS_CardinalityType
<1>6. IsFiniteSet(T) /\ Cardinality(T) <= Cardinality(S \cup I)
  BY <1>3, FS_Subset DEF I
<1>7. Cardinality(T) \in Nat
  BY <1>6, FS_CardinalityType
<1>. QED  BY <1>3, <1>5, <1>6, <1>7

LEMMA NoHeaps ==
  ASSUME NEW h, NEW N, NEW B, NEW r, Well(h, N, B, r), h.heaps = <<>>
  PROVE  N = {} /\ B = {}
<1>1. Tiles(B, Sizes(h.hdr), h.heaps, r) /\ N \subseteq B
  BY DEF Well, Good
<1>2. Len(h.heaps) = 0
  OBVIOUS
<1>. QED  BY <1>1, <1>2 DEF Tiles

LEMMA MultipleMod ==
  ASSUME NEW n \in Nat, NEW r \in Nat \ {0}, n % r = 0
  PROVE  Multiple(n, r)
<1>1. n = (n \div r) * r /\ n \div r \in Nat
  OBVIOUS
<1>. QED  BY <1>1 DEF Multiple
=============================================================================
