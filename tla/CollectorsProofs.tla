-------------------------- MODULE CollectorsProofs --------------------------
(***************************************************************************)
(* Proofs about three of the small collectors, for every value of their    *)
(* constants.  compact-lisp2: a collection keeps the reachable objects in  *)
(* the order of their addresses, and roots and pointers lead where they    *)
(* led. refcount: as long as no two threads count one object at once,      *)
(* counts are exact and nothing that is referred to is freed.              *)
(* generational: until one of its two losses occurs, minor collections and *)
(* promotions keep what the roots reach, once each, and every old object   *)
(* with a young target remembered.                                         *)
(***************************************************************************)
EXTENDS Refcount, Lisp2, Generational, BasicLemmas

(***************************************************************************)
(* compact-lisp2.                                                          *)
(***************************************************************************)
Objects == [value : Nat, forwarding : Nat, field : [Word -> Nat]]
ValueOf(bl, p) == IF p = 0 THEN 0 ELSE bl[p].value

(***************************************************************************)
(* A heap bl with the roots ro shows the program what it stored, md: every *)
(* object has its value for itself, and every pointer, those of dead       *)
(* objects too, leads to the value that was assigned.                      *)
(***************************************************************************)
Shaped(bl, ro) ==
    /\ bl \in Seq(Objects) /\ Len(bl) <= LispRoom
    /\ \A a \in 1 .. Len(bl), f \in Word : bl[a].field[f] \in 0 .. Len(bl)
    /\ ro \in Seq(1 .. Len(bl))
Made(md) ==
    /\ md = [name |-> md.name, link |-> md.link]
    /\ md.link \in Seq([Word -> Nat])
Known(bl, md) ==
    /\ \A a \in 1 .. Len(bl) : bl[a].value \in 1 .. Len(md.link)
    /\ \A a, b \in 1 .. Len(bl) : bl[a].value = bl[b].value => a = b
Shows(bl, ro, md) ==
    /\ md.name = [n \in 1 .. Len(ro) |-> bl[ro[n]].value]
    /\ \A a \in 1 .. Len(bl), f \in Word :
          md.link[bl[a].value][f] = ValueOf(bl, bl[a].field[f])
Good(bl, ro, md) == Shaped(bl, ro) /\ Made(md) /\ Known(bl, md) /\ Shows(bl, ro, md)
LispInv == Good(block, root, made)

(***************************************************************************)
(* Ranks: the place a marked object moves to.                              *)
(***************************************************************************)
Rank(M, n) == Cardinality({b \in M : b <= n})
Nth(M, k) == CHOOSE a \in M : Rank(M, a) = k

LEMMA RankIs ==
  ASSUME NEW L \in Nat, NEW M \in SUBSET (1 .. L)
  PROVE  /\ IsFiniteSet(M) /\ Cardinality(M) \in Nat
         /\ \A n \in 0 .. L : Rank(M, n) \in Nat
         /\ Rank(M, 0) = 0 /\ Rank(M, L) = Cardinality(M)
         /\ \A n \in 1 .. L : Rank(M, n) = Rank(M, n - 1) + (IF n \in M THEN 1 ELSE 0)
<1>0. \A b \in M : b \in Nat /\ 1 <= b /\ b <= L
  OBVIOUS
<1>1. IsFiniteSet(1 .. L)
  BY FS_Interval
<1>2. \A n : IsFiniteSet({b \in M : b <= n})
  BY <1>1, FS_Subset
<1>3. \A n : Rank(M, n) \in Nat
  BY <1>2, FS_CardinalityType DEF Rank
<1>4. IsFiniteSet(M) /\ Cardinality(M) \in Nat
  BY <1>1, FS_Subset, FS_CardinalityType
<1>5. Rank(M, 0) = 0
  <2>1. {b \in M : b <= 0} = {}
    <3>1. \A b \in M : ~(b <= 0)
      BY <1>0
    <3>. QED  BY <3>1
  <2>. QED  BY <2>1, FS_EmptySet DEF Rank
<1>6. Rank(M, L) = Cardinality(M)
  <2>1. {b \in M : b <= L} = M
    BY <1>0
  <2>. QED  BY <2>1 DEF Rank
<1>7. ASSUME NEW n \in 1 .. L
      PROVE  Rank(M, n) = Rank(M, n - 1) + (IF n \in M THEN 1 ELSE 0)
  <2>0. \A b \in M : b <= n <=> b <= n - 1 \/ b = n
    BY <1>0
  <2>1. CASE n \in M
    <3>1. {b \in M : b <= n} = {b \in M : b <= n - 1} \cup {n}
      BY <2>0, <2>1
    <3>2. n \notin {b \in M : b <= n - 1}
      OBVIOUS
    <3>3. Cardinality({b \in M : b <= n - 1} \cup {n}) = Cardinality({b \in M : b <= n - 1}) + 1
      BY <1>2, <3>2, FS_AddElement
    <3>. QED  BY <2>1, <3>1, <3>3 DEF Rank
  <2>2. CASE n \notin M
    <3>1. {b \in M : b <= n} = {b \in M : b <= n - 1}
      BY <2>0, <2>2
    <3>. QED  BY <1>3, <2>2, <3>1 DEF Rank
  <2>. QED  BY <2>1, <2>2
<1>. QED  BY <1>3, <1>4, <1>5, <1>6, <1>7

LEMMA RankOrder ==
  ASSUME NEW L \in Nat, NEW M \in SUBSET (1 .. L)
  PROVE  \A b \in 0 .. L : \A a \in 0 .. b : Rank(M, a) <= Rank(M, b)
<1>0. /\ Rank(M, 0) = 0 /\ Rank(M, L) = Cardinality(M) /\ Cardinality(M) \in Nat
      /\ \A n \in 0 .. L : Rank(M, n) \in Nat
      /\ \A n \in 1 .. L : Rank(M, n) = Rank(M, n - 1) + (IF n \in M THEN 1 ELSE 0)
  BY RankIs
<1>. DEFINE S == {b \in Nat : b <= L => \A a \in 0 .. b : Rank(M, a) <= Rank(M, b)}
<1>1. 0 \in S
  BY <1>0
<1>2. ASSUME NEW n \in Nat, n \in S  PROVE n + 1 \in S
  <2>. SUFFICES ASSUME n + 1 <= L, NEW a \in 0 .. n + 1  PROVE Rank(M, a) <= Rank(M, n + 1)
    OBVIOUS
  <2>1. Rank(M, n + 1) = Rank(M, n) + (IF n + 1 \in M THEN 1 ELSE 0)
    <3>1. n + 1 \in 1 .. L /\ (n + 1) - 1 = n
      OBVIOUS
    <3>. QED  BY <1>0, <3>1
  <2>2. Rank(M, n) \in Nat /\ Rank(M, n + 1) \in Nat
    BY <1>0
  <2>3. a <= n => Rank(M, a) <= Rank(M, n) /\ Rank(M, a) \in Nat
    BY <1>2, <1>0
  <2>. QED  BY <2>1, <2>2, <2>3
<1>. HIDE DEF S
<1>3. Nat \subseteq S
  BY <1>1, <1>2, NatSetInduction
<1>. QED  BY <1>3 DEF S

LEMMA RankOnto ==
  ASSUME NEW L \in Nat, NEW M \in SUBSET (1 .. L)
  PROVE  \A k \in 1 .. Cardinality(M) : \E a \in M : Rank(M, a) = k
<1>0. /\ Rank(M, 0) = 0 /\ Rank(M, L) = Cardinality(M) /\ Cardinality(M) \in Nat
      /\ \A n \in 0 .. L : Rank(M, n) \in Nat
      /\ \A n \in 1 .. L : Rank(M, n) = Rank(M, n - 1) + (IF n \in M THEN 1 ELSE 0)
  BY RankIs
<1>. DEFINE S == {n \in Nat : n <= L => \A k \in 1 .. Rank(M, n) : \E a \in M : Rank(M, a) = k}
<1>1. 0 \in S
  BY <1>0
<1>2. ASSUME NEW n \in Nat, n \in S  PROVE n + 1 \in S
  <2>. SUFFICES ASSUME n + 1 <= L, NEW k \in 1 .. Rank(M, n + 1)
                PROVE  \E a \in M : Rank(M, a) = k
    OBVIOUS
  <2>1. Rank(M, n + 1) = Rank(M, n) + (IF n + 1 \in M THEN 1 ELSE 0)
    <3>1. n + 1 \in 1 .. L /\ (n + 1) - 1 = n
      OBVIOUS
    <3>. QED  BY <1>0, <3>1
  <2>2. Rank(M, n) \in Nat
    BY <1>0
  <2>3. k \in 1 .. Rank(M, n) \/ (n + 1 \in M /\ k = Rank(M, n + 1))
    BY <2>1, <2>2
  <2>. QED  BY <1>2, <2>3
<1>. HIDE DEF S
<1>3. Nat \subseteq S
  BY <1>1, <1>2, NatSetInduction
<1>. QED  BY <1>3, <1>0 DEF S

LEMMA RankPlace ==
  ASSUME NEW L \in Nat, NEW M \in SUBSET (1 .. L)
  PROVE  /\ \A a \in M : Rank(M, a) \in 1 .. Cardinality(M) /\ Nth(M, Rank(M, a)) = a
         /\ \A k \in 1 .. Cardinality(M) : Nth(M, k) \in M /\ Rank(M, Nth(M, k)) = k
<1>0. /\ Rank(M, 0) = 0 /\ Rank(M, L) = Cardinality(M) /\ Cardinality(M) \in Nat
      /\ \A n \in 0 .. L : Rank(M, n) \in Nat
      /\ \A n \in 1 .. L : Rank(M, n) = Rank(M, n - 1) + (IF n \in M THEN 1 ELSE 0)
  BY RankIs
<1>1. \A a \in M : Rank(M, a) = Rank(M, a - 1) + 1 /\ Rank(M, a - 1) \in Nat
                   /\ Rank(M, a) <= Cardinality(M)
  <2>. TAKE a \in M
  <2>1. a \in 1 .. L /\ a - 1 \in 0 .. L /\ a \in 0 .. L /\ L \in 0 .. L
    OBVIOUS
  <2>2. Rank(M, a) <= Rank(M, L)
    BY <2>1, RankOrder
  <2>. QED  BY <1>0, <2>1, <2>2
<1>2. ASSUME NEW a \in M, NEW b \in M, a < b  PROVE Rank(M, a) # Rank(M, b)
  <2>1. Rank(M, a) <= Rank(M, b - 1)
    BY <1>2, RankOrder
  <2>2. Rank(M, a) \in Nat /\ Rank(M, b - 1) \in Nat /\ Rank(M, b) = Rank(M, b - 1) + 1
    BY <1>1, <1>0
  <2>. QED  BY <2>1, <2>2
<1>3. \A a, b \in M : Rank(M, a) = Rank(M, b) => a = b
  <2>1. \A a, b \in M : a = b \/ a < b \/ b < a
    OBVIOUS
  <2>. QED  BY <1>2, <2>1
<1>4. ASSUME NEW k \in 1 .. Cardinality(M)
      PROVE  Nth(M, k) \in M /\ Rank(M, Nth(M, k)) = k
  BY RankOnto DEF Nth
<1>5. ASSUME NEW a \in M
      PROVE  Rank(M, a) \in 1 .. Cardinality(M) /\ Nth(M, Rank(M, a)) = a
  <2>1. Rank(M, a) \in 1 .. Cardinality(M)
    BY <1>1, <1>0
  <2>. QED  BY <1>3, <1>4, <2>1
<1>. QED  BY <1>4, <1>5

(***************************************************************************)
(* gc_mark returns a set of objects that holds the targets of the roots    *)
(* and is closed under pointers.                                           *)
(***************************************************************************)
Marks(r) == r = [n \in 0 .. LispRoom |->
                   IF n = 0 THEN ToSet(root) \cap DOMAIN block ELSE MarkedFrom(r[n - 1])]

LEMMA MarkClosed ==
  ASSUME Shaped(block, root)
  PROVE  /\ gc_mark \in SUBSET (1 .. Len(block))
         /\ \A n \in 1 .. Len(root) : root[n] \in gc_mark
         /\ \A a \in gc_mark, f \in Word :
               block[a].field[f] \in 1 .. Len(block) => block[a].field[f] \in gc_mark
<1>. DEFINE D == 1 .. Len(block)
            A == ToSet(root) \cap DOMAIN block
            F == [Y \in SUBSET D |-> MarkedFrom(Y)]
            r == CHOOSE x : Marks(x)
<1>1. /\ LispRoom \in Nat /\ Len(block) \in Nat /\ DOMAIN block = D
      /\ IsFiniteSet(D) /\ Cardinality(D) = Len(block) /\ LispRoom >= Cardinality(D)
  <2>1. LispRoom \in Nat
    BY Lisp2Assumption
  <2>2. /\ Len(block) \in Nat /\ DOMAIN block = 1 .. Len(block) /\ Len(block) <= LispRoom
    BY DEF Shaped
  <2>3. IsFiniteSet(1 .. Len(block)) /\ Cardinality(1 .. Len(block)) = Len(block)
    <3>1. \A n \in Nat : IsFiniteSet(1 .. n) /\ Cardinality(1 .. n) = IF 1 > n THEN 0 ELSE n - 1 + 1
      BY FS_Interval
    <3>. QED  BY <2>2, <3>1
  <2>. QED  BY <2>1, <2>2, <2>3
<1>2. A \in SUBSET D
  BY <1>1
<1>0. \A Y, x : x \in MarkedFrom(Y) <=> \/ x \in Y
                                        \/ x \in D /\ \E a \in Y, f \in Word : x = block[a].field[f]
  BY <1>1 DEF MarkedFrom
<1>3. \A Y \in SUBSET D : MarkedFrom(Y) \in SUBSET D /\ Y \subseteq MarkedFrom(Y)
  BY <1>0
<1>4. /\ F \in [SUBSET D -> SUBSET D] /\ Inflates(F, D)
      /\ \A Y \in SUBSET D : F[Y] = MarkedFrom(Y)
  BY <1>3 DEF Inflates
<1>. HIDE DEF A, D, F
<1>5. PICK g \in [0 .. LispRoom -> SUBSET D] : Iterates(g, A, F, LispRoom)
  BY <1>1, <1>2, <1>4, IterationExists
<1>6. Marks(g)
  <2>1. \A n \in 0 .. LispRoom : n # 0 => g[n - 1] \in SUBSET D
    BY <1>1
  <2>2. \A n \in 0 .. LispRoom : g[n] = IF n = 0 THEN A ELSE F[g[n - 1]]
    BY <1>5 DEF Iterates
  <2>3. \A n \in 0 .. LispRoom : g[n] = IF n = 0 THEN A ELSE MarkedFrom(g[n - 1])
    BY <1>4, <2>1, <2>2
  <2>. QED  BY <2>3 DEF Marks, A
<1>7. Marks(r)
  BY <1>6
<1>8. gc_mark = r[LispRoom]
  BY DEF gc_mark, Marks
<1>. HIDE DEF r
<1>9. \A n \in 0 .. LispRoom : r[n] = IF n = 0 THEN A ELSE MarkedFrom(r[n - 1])
  BY <1>7 DEF Marks, A
<1>10. \A n \in 0 .. LispRoom : r[n] \in SUBSET D
  <2>. DEFINE S == {n \in Nat : n <= LispRoom => r[n] \in SUBSET D}
  <2>1. 0 \in S
    <3>1. 0 \in 0 .. LispRoom
      BY <1>1
    <3>2. r[0] = A
      BY <1>9, <3>1, Zenon
    <3>. QED  BY <1>2, <3>2
  <2>2. ASSUME NEW n \in Nat, n \in S  PROVE n + 1 \in S
    <3>. SUFFICES ASSUME n + 1 <= LispRoom  PROVE r[n + 1] \in SUBSET D
      OBVIOUS
    <3>1. r[n] \in SUBSET D /\ n + 1 \in 0 .. LispRoom /\ n + 1 # 0 /\ (n + 1) - 1 = n
      BY <1>1, <2>2
    <3>2. r[n + 1] = MarkedFrom(r[n])
      BY <1>9, <3>1
    <3>. QED  BY <1>3, <3>1, <3>2
  <2>. HIDE DEF S
  <2>3. Nat \subseteq S
    BY <2>1, <2>2, NatSetInduction
  <2>. QED  BY <1>1, <2>3 DEF S
<1>11. Iterates(r, A, F, LispRoom)
  <2>1. \A n \in 0 .. LispRoom : n # 0 => r[n - 1] \in SUBSET D
    BY <1>1, <1>10
  <2>2. \A n \in 0 .. LispRoom : r[n] = IF n = 0 THEN A ELSE F[r[n - 1]]
    BY <1>4, <1>9, <2>1
  <2>3. r = [n \in 0 .. LispRoom |-> r[n]]
    BY <1>7 DEF Marks
  <2>. QED  BY <2>2, <2>3 DEF Iterates
<1>12. gc_mark \in SUBSET D /\ A \subseteq gc_mark /\ MarkedFrom(gc_mark) = gc_mark
  <2>1. r[LispRoom] \in SUBSET D /\ A \subseteq r[LispRoom] /\ F[r[LispRoom]] = r[LispRoom]
    <3>1. LispRoom \in Nat /\ LispRoom >= Cardinality(D) /\ IsFiniteSet(D)
      BY <1>1
    <3>. QED  BY <1>2, <1>4, <1>11, <3>1, IterationRests
  <2>. QED  BY <1>4, <1>8, <2>1
<1>13. \A n \in 1 .. Len(root) : root[n] \in A
  BY <1>1 DEF A, D, ToSet, Shaped
<1>14. ASSUME NEW a \in gc_mark, NEW f \in Word, block[a].field[f] \in D
       PROVE  block[a].field[f] \in gc_mark
  BY <1>0, <1>12, <1>14
<1>. QED  BY <1>1, <1>12, <1>13, <1>14 DEF D

(***************************************************************************)
(* What a collection makes of the heap.                                    *)
(***************************************************************************)
Moved(M, p) == IF p = 0 THEN 0 ELSE Rank(M, p)

LEMMA Forwarded ==
  ASSUME Shaped(block, root), NEW M, M = gc_mark
  PROVE  /\ M \in SUBSET (1 .. Len(block)) /\ Cardinality(M) \in 0 .. Len(block)
         /\ set_forwarding_ptr(M) \in [1 .. Len(block) -> Nat]
         /\ \A a \in M : set_forwarding_ptr(M)[a] = Rank(M, a)
<1>0. Len(block) \in Nat /\ DOMAIN block = 1 .. Len(block) /\ \A a \in 1 .. Len(block) : block[a] \in Objects
  BY DEF Shaped
<1>1. M \in SUBSET (1 .. Len(block))
  BY MarkClosed
<1>2. Cardinality(M) \in Nat /\ \A n \in 0 .. Len(block) : Rank(M, n) \in Nat
  BY <1>0, <1>1, RankIs
<1>3. Cardinality(M) <= Len(block)
  <2>1. \A n \in Nat : IsFiniteSet(1 .. n) /\ Cardinality(1 .. n) = IF 1 > n THEN 0 ELSE n - 1 + 1
    BY FS_Interval
  <2>2. IsFiniteSet(1 .. Len(block)) /\ Cardinality(1 .. Len(block)) = Len(block)
    BY <1>0, <2>1
  <2>3. Cardinality(M) <= Cardinality(1 .. Len(block))
    BY <1>1, <2>2, FS_Subset
  <2>. QED  BY <2>2, <2>3
<1>4. set_forwarding_ptr(M) = [a \in 1 .. Len(block) |->
                                 IF a \in M THEN Rank(M, a) ELSE block[a].forwarding]
  BY <1>0 DEF set_forwarding_ptr, Rank
<1>5. \A a \in 1 .. Len(block) : block[a].forwarding \in Nat /\ Rank(M, a) \in Nat
  BY <1>0, <1>2 DEF Objects
<1>. QED  BY <1>1, <1>2, <1>3, <1>4, <1>5

LEMMA CollectedIs ==
  ASSUME Shaped(block, root), NEW M, M = gc_mark
  PROVE  /\ Collected.block \in Seq(Objects) /\ Len(Collected.block) = Cardinality(M)
         /\ \A n \in 1 .. Cardinality(M) :
               /\ Collected.block[n].value = block[Nth(M, n)].value
               /\ \A f \in Word : Collected.block[n].field[f] = Moved(M, block[Nth(M, n)].field[f])
         /\ Collected.root = [n \in 1 .. Len(root) |-> Rank(M, root[n])]
<1>. DEFINE N == Cardinality(M)
            F == set_forwarding_ptr(M)
            J == adjust_ptr(F)
<1>0. /\ Len(block) \in Nat /\ DOMAIN block = 1 .. Len(block) /\ DOMAIN root = 1 .. Len(root)
      /\ \A a \in 1 .. Len(block) : block[a] \in Objects
      /\ \A a \in 1 .. Len(block), f \in Word : block[a].field[f] \in 0 .. Len(block)
      /\ \A n \in 1 .. Len(root) : root[n] \in 1 .. Len(block)
  BY DEF Shaped
<1>1. /\ M \in SUBSET (1 .. Len(block)) /\ N \in 0 .. Len(block)
      /\ F \in [1 .. Len(block) -> Nat] /\ \A a \in M : F[a] = Rank(M, a)
  BY Forwarded
<1>2. /\ Collected.block = move_obj(J, M)
      /\ Collected.root = [n \in DOMAIN root |-> To(F, root[n])]
  BY DEF Collected
<1>. HIDE DEF F, N
<1>3. \A a \in 1 .. Len(block) :
        /\ J[a] \in Objects /\ J[a].value = block[a].value
        /\ \A f \in Word : J[a].field[f] = To(F, block[a].field[f])
  <2>. TAKE a \in 1 .. Len(block)
  <2>1. J[a] = [block[a] EXCEPT !.forwarding = F[a],
                                !.field = [f \in Word |-> To(F, block[a].field[f])]]
    BY <1>0 DEF adjust_ptr
  <2>2. block[a] \in Objects /\ F[a] \in Nat
    BY <1>0, <1>1
  <2>3. [f \in Word |-> To(F, block[a].field[f])] \in [Word -> Nat]
    BY <1>0, <1>1 DEF To
  <2>. QED  BY <2>1, <2>2, <2>3 DEF Objects
<1>. HIDE DEF J
<1>4. move_obj(J, M) = [n \in 1 .. N |-> J[Nth(M, n)]]
  BY DEF move_obj, Nth, Rank, N
<1>5. \A n \in 1 .. N : Nth(M, n) \in M /\ Nth(M, n) \in 1 .. Len(block)
  BY <1>0, <1>1, RankPlace DEF N
<1>6. \A a \in M, f \in Word : To(F, block[a].field[f]) = Moved(M, block[a].field[f])
  <2>. TAKE a \in M, f \in Word
  <2>1. block[a].field[f] \in 0 .. Len(block)
    BY <1>0, <1>1
  <2>2. block[a].field[f] \in 1 .. Len(block) => block[a].field[f] \in M
    BY MarkClosed
  <2>. QED  BY <1>0, <1>1, <2>1, <2>2 DEF To, Moved
<1>7. \A n \in 1 .. Len(root) : To(F, root[n]) = Rank(M, root[n])
  BY <1>0, <1>1, MarkClosed DEF To
<1>8. Collected.block \in Seq(Objects) /\ Len(Collected.block) = N
  <2>1. \A n \in 1 .. N : J[Nth(M, n)] \in Objects
    BY <1>3, <1>5
  <2>. QED  BY <1>1, <1>2, <1>4, <2>1
<1>9. ASSUME NEW n \in 1 .. N
      PROVE  /\ Collected.block[n].value = block[Nth(M, n)].value
             /\ \A f \in Word : Collected.block[n].field[f] = Moved(M, block[Nth(M, n)].field[f])
  <2>1. Collected.block[n] = J[Nth(M, n)]
    BY <1>2, <1>4
  <2>. QED  BY <1>3, <1>5, <1>6, <2>1
<1>10. Collected.root = [n \in 1 .. Len(root) |-> Rank(M, root[n])]
  BY <1>0, <1>2, <1>7
<1>. QED  BY <1>8, <1>9, <1>10 DEF N

(* It shows the program what it did before.                                *)
LEMMA CollectedGood ==
  ASSUME Good(block, root, made)
  PROVE  Good(Collected.block, Collected.root, made)
<1>0. PICK M : M = gc_mark
  OBVIOUS
<1>1. PICK bl : bl = Collected.block
  OBVIOUS
<1>2. PICK ro : ro = Collected.root
  OBVIOUS
<1>3. PICK N : N = Cardinality(M)
  OBVIOUS
<1>4. Shaped(block, root) /\ Known(block, made) /\ Shows(block, root, made)
  BY DEF Good
<1>5. /\ Len(block) \in Nat /\ Len(block) <= LispRoom
      /\ \A a \in 1 .. Len(block), f \in Word : block[a].field[f] \in 0 .. Len(block)
      /\ \A n \in 1 .. Len(root) : root[n] \in 1 .. Len(block)
      /\ Len(root) \in Nat
  BY <1>4 DEF Shaped
<1>6. M \in SUBSET (1 .. Len(block)) /\ N \in 0 .. Len(block)
  BY <1>0, <1>3, <1>4, Forwarded
<1>7. /\ bl \in Seq(Objects) /\ Len(bl) = N
      /\ \A n \in 1 .. N :
            /\ bl[n].value = block[Nth(M, n)].value
            /\ \A f \in Word : bl[n].field[f] = Moved(M, block[Nth(M, n)].field[f])
      /\ ro = [n \in 1 .. Len(root) |-> Rank(M, root[n])]
  BY <1>0, <1>1, <1>2, <1>3, <1>4, CollectedIs
<1>8. /\ \A a \in M : Rank(M, a) \in 1 .. N /\ Nth(M, Rank(M, a)) = a
      /\ \A n \in 1 .. N : /\ Nth(M, n) \in M /\ Nth(M, n) \in 1 .. Len(block)
                           /\ Rank(M, Nth(M, n)) = n
  BY <1>3, <1>5, <1>6, RankPlace
<1>9. /\ \A n \in 1 .. Len(root) : root[n] \in M
      /\ \A a \in M, f \in Word :
            block[a].field[f] \in 1 .. Len(block) => block[a].field[f] \in M
  BY <1>0, <1>4, MarkClosed
<1>10. \A n \in 1 .. N, f \in Word :
         \/ block[Nth(M, n)].field[f] = 0 /\ bl[n].field[f] = 0
         \/ /\ block[Nth(M, n)].field[f] \in M /\ block[Nth(M, n)].field[f] # 0
            /\ bl[n].field[f] = Rank(M, block[Nth(M, n)].field[f])
            /\ bl[n].field[f] \in 1 .. N
  <2>. TAKE n \in 1 .. N, f \in Word
  <2>1. /\ block[Nth(M, n)].field[f] \in 0 .. Len(block)
        /\ block[Nth(M, n)].field[f] \in 1 .. Len(block) => block[Nth(M, n)].field[f] \in M
    BY <1>5, <1>8, <1>9
  <2>2. bl[n].field[f] = Moved(M, block[Nth(M, n)].field[f])
    BY <1>7
  <2>. QED  BY <1>8, <2>1, <2>2 DEF Moved
<1>11. Shaped(bl, ro)
  <2>1. \A n \in 1 .. N, f \in Word : bl[n].field[f] \in 0 .. N
    BY <1>6, <1>10
  <2>2. ro \in Seq(1 .. N)
    BY <1>5, <1>7, <1>8, <1>9
  <2>3. ro \in Seq(1 .. Len(bl)) /\ \A n \in 1 .. Len(bl), f \in Word : bl[n].field[f] \in 0 .. Len(bl)
    BY <1>7, <2>1, <2>2
  <2>4. Len(bl) <= LispRoom
    BY <1>5, <1>6, <1>7, Lisp2Assumption
  <2>. QED  BY <1>7, <2>3, <2>4 DEF Shaped
<1>12. Known(bl, made)
  <2>1. \A n \in 1 .. N : bl[n].value \in 1 .. Len(made.link)
    BY <1>4, <1>7, <1>8 DEF Known
  <2>2. \A n, m \in 1 .. N : bl[n].value = bl[m].value => n = m
    <3>. TAKE n, m \in 1 .. N
    <3>1. PICK a, b \in 1 .. Len(block) : a = Nth(M, n) /\ b = Nth(M, m)
      BY <1>8
    <3>2. bl[n].value = block[a].value /\ bl[m].value = block[b].value
      BY <1>7, <3>1
    <3>3. block[a].value = block[b].value => a = b
      BY <1>4 DEF Known
    <3>. QED  BY <1>8, <3>1, <3>2, <3>3
  <2>. QED  BY <1>7, <2>1, <2>2 DEF Known
<1>13. Shows(bl, ro, made)
  <2>1. \A n \in 1 .. Len(root) : bl[ro[n]].value = block[root[n]].value
    BY <1>7, <1>8, <1>9
  <2>2. Len(ro) = Len(root)
    BY <1>5, <1>7
  <2>3. made.name = [n \in 1 .. Len(ro) |-> bl[ro[n]].value]
    BY <1>4, <2>1, <2>2 DEF Shows
  <2>4. ASSUME NEW n \in 1 .. N, NEW f \in Word
        PROVE  made.link[bl[n].value][f] = ValueOf(bl, bl[n].field[f])
    <3>1. made.link[bl[n].value][f] = ValueOf(block, block[Nth(M, n)].field[f])
      BY <1>4, <1>7, <1>8 DEF Shows
    <3>2. CASE block[Nth(M, n)].field[f] = 0 /\ bl[n].field[f] = 0
      BY <3>1, <3>2 DEF ValueOf
    <3>3. CASE /\ block[Nth(M, n)].field[f] \in M /\ block[Nth(M, n)].field[f] # 0
               /\ bl[n].field[f] = Rank(M, block[Nth(M, n)].field[f])
               /\ bl[n].field[f] \in 1 .. N
      <4>1. bl[bl[n].field[f]].value = block[block[Nth(M, n)].field[f]].value
        BY <1>7, <1>8, <3>3
      <4>2. bl[n].field[f] # 0
        BY <1>6, <3>3
      <4>. QED  BY <3>1, <3>3, <4>1, <4>2 DEF ValueOf
    <3>. QED  BY <1>10, <3>2, <3>3
  <2>. QED  BY <1>7, <2>3, <2>4 DEF Shows
<1>. QED  BY <1>1, <1>2, <1>11, <1>12, <1>13 DEF Good

(***************************************************************************)
(* The steps of the program.                                               *)
(***************************************************************************)
NewObject(v) == [value |-> v, forwarding |-> NIL, field |-> [f \in Word |-> NIL]]
NoLinks == [f \in Word |-> 0]
Longer(bl, md) == Append(bl, NewObject(Len(md.link) + 1))
Unlinked(md) == [name |-> md.name, link |-> Append(md.link, NoLinks)]

(* An object behind the others, to which nothing refers yet.               *)
LEMMA Appended ==
  ASSUME NEW bl, NEW ro, NEW md, Good(bl, ro, md), Len(bl) + 1 <= LispRoom
  PROVE  /\ Good(Longer(bl, md), ro, Unlinked(md))
         /\ Len(bl) \in Nat /\ Len(Longer(bl, md)) = Len(bl) + 1
<1>0. PICK b, lk : b = Longer(bl, md) /\ lk = Append(md.link, NoLinks)
  OBVIOUS
<1>1. /\ bl \in Seq(Objects) /\ Len(bl) \in Nat
      /\ \A a \in 1 .. Len(bl) : bl[a] \in Objects
      /\ \A a \in 1 .. Len(bl), f \in Word : bl[a].field[f] \in 0 .. Len(bl)
      /\ Len(ro) \in Nat /\ \A n \in 1 .. Len(ro) : ro[n] \in 1 .. Len(bl)
      /\ ro \in Seq(1 .. Len(bl))
  BY DEF Good, Shaped
<1>2. /\ md.link \in Seq([Word -> Nat]) /\ Len(md.link) \in Nat
      /\ \A v \in 1 .. Len(md.link) : md.link[v] \in [Word -> Nat]
  BY DEF Good, Made
<1>3. PICK v : v = Len(md.link) + 1 /\ v \in Nat
  BY <1>2
<1>4. PICK new : new = Len(bl) + 1 /\ new \in Nat
  BY <1>1
<1>5. PICK o : o = NewObject(v)
  OBVIOUS
<1>6. o \in Objects /\ o.value = v /\ \A f \in Word : o.field[f] = 0
  BY <1>3, <1>5 DEF NewObject, NIL, Objects
<1>7. /\ b \in Seq(Objects) /\ Len(b) = new /\ b[new] = o
      /\ \A a \in 1 .. Len(bl) : b[a] = bl[a]
  BY <1>0, <1>1, <1>3, <1>4, <1>5, <1>6 DEF Longer
<1>8. /\ lk \in Seq([Word -> Nat]) /\ Len(lk) = v
      /\ \A f \in Word : lk[v][f] = 0
      /\ \A w \in 1 .. Len(md.link) : lk[w] = md.link[w]
  <2>1. NoLinks \in [Word -> Nat] /\ \A f \in Word : NoLinks[f] = 0
    BY DEF NoLinks
  <2>. QED  BY <1>0, <1>2, <1>3, <2>1
<1>9. \A a \in 1 .. new : a \in 1 .. Len(bl) \/ a = new
  BY <1>1, <1>4
<1>10. Shaped(b, ro)
  <2>1. \A a \in 1 .. new, f \in Word : b[a].field[f] \in 0 .. new
    BY <1>1, <1>4, <1>6, <1>7, <1>9
  <2>2. ro \in Seq(1 .. new)
    BY <1>1, <1>4
  <2>3. /\ \A a \in 1 .. Len(b), f \in Word : b[a].field[f] \in 0 .. Len(b)
        /\ ro \in Seq(1 .. Len(b))
    BY <1>7, <2>1, <2>2
  <2>. QED  BY <1>4, <1>7, <2>3 DEF Shaped
<1>11. PICK m : m = [name |-> md.name, link |-> lk]
  OBVIOUS
<1>18. m.name = md.name /\ m.link = lk
  BY <1>11
<1>19. m = Unlinked(md)
  BY <1>0, <1>11 DEF Unlinked
<1>12. Made(m)
  BY <1>8, <1>11, <1>18 DEF Made
<1>13. /\ \A a \in 1 .. Len(bl) : bl[a].value \in 1 .. Len(md.link)
       /\ \A a, c \in 1 .. Len(bl) : bl[a].value = bl[c].value => a = c
  BY DEF Good, Known
<1>14. Known(b, m)
  <2>1. \A a \in 1 .. new : b[a].value \in 1 .. v
    <3>1. \A a \in 1 .. Len(bl) : b[a].value \in 1 .. v
      BY <1>2, <1>3, <1>7, <1>13
    <3>2. b[new].value \in 1 .. v
      BY <1>2, <1>3, <1>6, <1>7
    <3>. QED  BY <1>9, <3>1, <3>2
  <2>2. \A a \in 1 .. Len(bl) : b[a].value # v
    BY <1>2, <1>3, <1>7, <1>13
  <2>3. b[new].value = v
    BY <1>6, <1>7
  <2>4. \A a, c \in 1 .. new : b[a].value = b[c].value => a = c
    BY <1>7, <1>9, <1>13, <2>2, <2>3
  <2>. QED  BY <1>7, <1>8, <1>18, <2>1, <2>4 DEF Known
<1>15. /\ md.name = [n \in 1 .. Len(ro) |-> bl[ro[n]].value]
       /\ \A a \in 1 .. Len(bl), f \in Word :
             md.link[bl[a].value][f] = ValueOf(bl, bl[a].field[f])
  BY DEF Good, Shows
<1>16. \A p \in 0 .. Len(bl) : ValueOf(b, p) = ValueOf(bl, p)
  BY <1>1, <1>7 DEF ValueOf
<1>17. Shows(b, ro, m)
  <2>1. md.name = [n \in 1 .. Len(ro) |-> b[ro[n]].value]
    BY <1>1, <1>7, <1>15
  <2>2. \A a \in 1 .. Len(bl), f \in Word : lk[b[a].value][f] = ValueOf(b, b[a].field[f])
    <3>. TAKE a \in 1 .. Len(bl), f \in Word
    <3>1. b[a] = bl[a] /\ bl[a].value \in 1 .. Len(md.link) /\ bl[a].field[f] \in 0 .. Len(bl)
      BY <1>1, <1>7, <1>13
    <3>2. lk[bl[a].value] = md.link[bl[a].value]
      BY <1>8, <3>1
    <3>3. md.link[bl[a].value][f] = ValueOf(bl, bl[a].field[f])
      BY <1>15
    <3>. QED  BY <1>16, <3>1, <3>2, <3>3
  <2>3. \A f \in Word : lk[b[new].value][f] = ValueOf(b, b[new].field[f])
    BY <1>6, <1>7, <1>8 DEF ValueOf
  <2>4. \A a \in 1 .. Len(b), f \in Word : lk[b[a].value][f] = ValueOf(b, b[a].field[f])
    BY <1>7, <1>9, <2>2, <2>3
  <2>. QED  BY <1>18, <2>1, <2>4 DEF Shows
<1>. QED  BY <1>0, <1>1, <1>3, <1>4, <1>6, <1>7, <1>10, <1>12, <1>14, <1>17, <1>19 DEF Good

(* An assignment to a field.                                               *)
LEMMA AssignedGood ==
  ASSUME NEW b, NEW ro, NEW md, Good(b, ro, md),
         NEW a \in 1 .. Len(b), NEW f \in Word, NEW p \in 0 .. Len(b)
  PROVE  Good([b EXCEPT ![a].field[f] = p], ro,
              [md EXCEPT !.link[b[a].value][f] = ValueOf(b, p)])
<1>1. /\ b \in Seq(Objects) /\ Len(b) \in Nat /\ Len(b) <= LispRoom
      /\ \A c \in 1 .. Len(b) : b[c] \in Objects
      /\ \A c \in 1 .. Len(b), g \in Word : b[c].field[g] \in 0 .. Len(b)
      /\ Len(ro) \in Nat /\ \A n \in 1 .. Len(ro) : ro[n] \in 1 .. Len(b)
      /\ ro \in Seq(1 .. Len(b))
  BY DEF Good, Shaped
<1>2. /\ md = [name |-> md.name, link |-> md.link]
      /\ md.link \in Seq([Word -> Nat]) /\ Len(md.link) \in Nat
      /\ \A v \in 1 .. Len(md.link) : md.link[v] \in [Word -> Nat]
  BY DEF Good, Made
<1>3. /\ \A c \in 1 .. Len(b) : b[c].value \in 1 .. Len(md.link)
      /\ \A c, d \in 1 .. Len(b) : b[c].value = b[d].value => c = d
  BY DEF Good, Known
<1>4. PICK v : v = b[a].value /\ v \in 1 .. Len(md.link)
  BY <1>3
<1>5. PICK x : x = ValueOf(b, p)
  OBVIOUS
<1>6. x \in Nat
  <2>1. p # 0 => b[p] \in Objects
    BY <1>1
  <2>2. p # 0 => b[p].value \in Nat
    BY <2>1 DEF Objects
  <2>. QED  BY <1>5, <2>2 DEF ValueOf
<1>7. PICK e : e = [b EXCEPT ![a].field[f] = p]
  OBVIOUS
<1>8. /\ e \in Seq(Objects) /\ Len(e) = Len(b)
      /\ \A c \in 1 .. Len(b) : e[c].value = b[c].value
      /\ \A c \in 1 .. Len(b), g \in Word :
            e[c].field[g] = IF c = a /\ g = f THEN p ELSE b[c].field[g]
  <2>1. [b[a] EXCEPT !.field[f] = p] \in Objects
    <3>1. b[a] \in Objects /\ p \in Nat
      BY <1>1
    <3>2. [b[a].field EXCEPT ![f] = p] \in [Word -> Nat]
      BY <3>1 DEF Objects
    <3>. QED  BY <3>1, <3>2 DEF Objects
  <2>2. e \in Seq(Objects) /\ Len(e) = Len(b)
    BY <1>1, <1>7, <2>1
  <2>3. \A c \in 1 .. Len(b) : e[c] = IF c = a THEN [b[a] EXCEPT !.field[f] = p] ELSE b[c]
    BY <1>1, <1>7
  <2>4. \A g \in Word : [b[a] EXCEPT !.field[f] = p].field[g] = IF g = f THEN p ELSE b[a].field[g]
    BY <1>1 DEF Objects
  <2>5. [b[a] EXCEPT !.field[f] = p].value = b[a].value
    BY <1>1 DEF Objects
  <2>. QED  BY <2>2, <2>3, <2>4, <2>5
<1>9. PICK lk : lk = [md.link EXCEPT ![v][f] = x]
  OBVIOUS
<1>10. /\ lk \in Seq([Word -> Nat]) /\ Len(lk) = Len(md.link)
       /\ \A w \in 1 .. Len(md.link), g \in Word :
             lk[w][g] = IF w = v /\ g = f THEN x ELSE md.link[w][g]
  <2>1. [md.link[v] EXCEPT ![f] = x] \in [Word -> Nat]
    BY <1>2, <1>4, <1>6
  <2>2. /\ lk \in Seq([Word -> Nat]) /\ Len(lk) = Len(md.link)
        /\ \A w \in 1 .. Len(md.link) :
              lk[w] = IF w = v THEN [md.link[v] EXCEPT ![f] = x] ELSE md.link[w]
    BY <1>2, <1>4, <1>9, <2>1
  <2>3. ASSUME NEW w \in 1 .. Len(md.link), NEW g \in Word
        PROVE  lk[w][g] = IF w = v /\ g = f THEN x ELSE md.link[w][g]
    <3>1. CASE w = v
      <4>1. md.link[v] \in [Word -> Nat] /\ lk[w] = [md.link[v] EXCEPT ![f] = x]
        BY <1>2, <1>4, <2>2, <3>1
      <4>. QED  BY <3>1, <4>1
    <3>2. CASE w # v
      BY <2>2, <3>2
    <3>. QED  BY <3>1, <3>2
  <2>. QED  BY <2>2, <2>3
<1>11. PICK m : m = [md EXCEPT !.link[v][f] = x]
  OBVIOUS
<1>12. m = [name |-> md.name, link |-> lk] /\ m.name = md.name /\ m.link = lk
  BY <1>2, <1>9, <1>11
<1>13. Shaped(e, ro)
  <2>1. /\ \A c \in 1 .. Len(e), g \in Word : e[c].field[g] \in 0 .. Len(e)
        /\ ro \in Seq(1 .. Len(e)) /\ Len(e) <= LispRoom
    BY <1>1, <1>8
  <2>. QED  BY <1>8, <2>1 DEF Shaped
<1>14. Made(m)
  BY <1>10, <1>12 DEF Made
<1>15. Known(e, m)
  BY <1>3, <1>8, <1>10, <1>12 DEF Known
<1>16. \A q \in 0 .. Len(b) : ValueOf(e, q) = ValueOf(b, q)
  BY <1>1, <1>8 DEF ValueOf
<1>17. /\ md.name = [n \in 1 .. Len(ro) |-> b[ro[n]].value]
       /\ \A c \in 1 .. Len(b), g \in Word :
             md.link[b[c].value][g] = ValueOf(b, b[c].field[g])
  BY DEF Good, Shows
<1>18. Shows(e, ro, m)
  <2>1. md.name = [n \in 1 .. Len(ro) |-> e[ro[n]].value]
    BY <1>1, <1>8, <1>17
  <2>2. ASSUME NEW c \in 1 .. Len(b), NEW g \in Word
        PROVE  lk[e[c].value][g] = ValueOf(e, e[c].field[g])
    <3>1. e[c].value = b[c].value /\ b[c].value \in 1 .. Len(md.link)
      BY <1>3, <1>8
    <3>2. b[c].value = v <=> c = a
      BY <1>3, <1>4
    <3>3. CASE c = a /\ g = f
      BY <1>4, <1>5, <1>8, <1>10, <1>16, <3>1, <3>2, <3>3
    <3>4. CASE ~(c = a /\ g = f)
      <4>1. lk[e[c].value][g] = md.link[b[c].value][g]
        BY <1>10, <3>1, <3>2, <3>4
      <4>2. e[c].field[g] = b[c].field[g] /\ b[c].field[g] \in 0 .. Len(b)
        BY <1>1, <1>8, <3>4
      <4>. QED  BY <1>16, <1>17, <4>1, <4>2
    <3>. QED  BY <3>3, <3>4
  <2>. QED  BY <1>8, <1>12, <2>1, <2>2 DEF Shows
<1>. QED  BY <1>4, <1>5, <1>7, <1>11, <1>13, <1>14, <1>15, <1>18 DEF Good

(* gc_malloc's new object, in a variable or in a field.                    *)
LEMMA TakeGood ==
  ASSUME NEW s, Good(s.block, s.root, made), Take(s)
  PROVE  Good(block', root', made')
<1>. DEFINE bl == s.block
            ro == s.root
            v == Len(made.link) + 1
            new == Len(bl) + 1
            b == Append(bl, NewObject(v))
            lk == Append(made.link, NoLinks)
            m == [name |-> made.name, link |-> lk]
<1>0. /\ NIL = 0 /\ new <= LispRoom /\ v <= LispMade
      /\ \/ /\ root' = Append(ro, new) /\ block' = b
            /\ made' = [name |-> Append(made.name, v), link |-> lk]
         \/ \E a \in ToSet(ro), f \in Word :
              /\ block' = [b EXCEPT ![a].field[f] = new] /\ root' = ro
              /\ made' = [made EXCEPT !.link = Append([@ EXCEPT ![b[a].value][f] = v], NoLinks)]
  BY DEF Take, NIL, NewObject, NoLinks
<1>1. /\ Good(b, ro, m) /\ Len(b) = new /\ Len(bl) \in Nat
      /\ b[new].value = v /\ \A a \in 1 .. Len(bl) : b[a] = bl[a]
  <2>1. b = Longer(bl, made) /\ m = Unlinked(made)
    BY DEF Longer, Unlinked
  <2>2. PICK x, r : x = bl /\ r = ro /\ Good(x, r, made) /\ Len(x) + 1 <= LispRoom
    BY <1>0
  <2>3. /\ Good(Longer(x, made), r, Unlinked(made))
        /\ Len(x) \in Nat /\ Len(Longer(x, made)) = Len(x) + 1
    BY <2>2, Appended
  <2>4. PICK o : o = NewObject(v)
    OBVIOUS
  <2>5. v \in Nat /\ Len(made.link) \in Nat /\ x \in Seq(Objects) /\ b = Append(x, o)
    BY <2>2, <2>4 DEF Good, Made, Shaped
  <2>6. o \in Objects /\ o.value = v
    BY <2>4, <2>5 DEF NewObject, NIL, Objects
  <2>7. b[Len(x) + 1] = o /\ \A a \in 1 .. Len(x) : b[a] = x[a]
    BY <2>3, <2>5, <2>6
  <2>. QED  BY <2>1, <2>2, <2>3, <2>6, <2>7
<1>2. m.name = made.name /\ m.link = lk
  OBVIOUS
<1>3. b[new].value = v
  BY <1>1
<1>4. /\ made = [name |-> made.name, link |-> made.link]
      /\ made.link \in Seq([Word -> Nat]) /\ Len(made.link) \in Nat
      /\ \A a \in 1 .. Len(bl) : bl[a].value \in 1 .. Len(made.link)
      /\ ro \in Seq(1 .. Len(bl)) /\ Len(ro) \in Nat
      /\ made.name = [n \in 1 .. Len(ro) |-> bl[ro[n]].value]
  BY DEF Good, Made, Known, Shaped, Shows
<1>. HIDE DEF b, m, new, v, lk
<1>5. CASE /\ root' = Append(ro, new) /\ block' = b
           /\ made' = [name |-> Append(made.name, v), link |-> lk]
  <2>1. PICK r : r = Append(ro, new)
    OBVIOUS
  <2>2. PICK nm : nm = Append(made.name, v)
    OBVIOUS
  <2>3. PICK d : d = [name |-> nm, link |-> lk]
    OBVIOUS
  <2>4. d.name = nm /\ d.link = lk
    BY <2>3
  <2>5. new = Len(bl) + 1 /\ new \in Nat
    BY <1>1 DEF new
  <2>6. /\ r \in Seq(1 .. new) /\ Len(r) = Len(ro) + 1 /\ r[Len(ro) + 1] = new
        /\ \A n \in 1 .. Len(ro) : r[n] = ro[n] /\ ro[n] \in 1 .. Len(bl)
    <3>1. /\ ro \in Seq(1 .. new) /\ new \in 1 .. new
          /\ \A n \in 1 .. Len(ro) : ro[n] \in 1 .. Len(bl)
      <4>1. ro \in Seq(1 .. Len(bl)) /\ Len(bl) \in Nat
        BY <1>1, <1>4
      <4>2. 1 .. Len(bl) \subseteq 1 .. new /\ new \in 1 .. new
        BY <2>5, <4>1
      <4>3. ro \in Seq(1 .. new)
        BY <4>1, <4>2, SeqMonotonic
      <4>4. \A n \in 1 .. Len(ro) : ro[n] \in 1 .. Len(bl)
        BY <4>1, ElementOfSeq
      <4>. QED  BY <4>2, <4>3, <4>4
    <3>. QED  BY <2>1, <3>1, AppendProperties
  <2>7. Shaped(b, r)
    <3>1. Shaped(b, ro)
      BY <1>1 DEF Good
    <3>2. r \in Seq(1 .. Len(b))
      BY <1>1, <2>6
    <3>. QED  BY <3>1, <3>2 DEF Shaped
  <2>8. Made(d) /\ Known(b, d)
    <3>1. Made(m) /\ Known(b, m)
      BY <1>1 DEF Good
    <3>. QED  BY <1>2, <2>3, <2>4, <3>1 DEF Made, Known
  <2>9. Shows(b, r, d)
    <3>1. Shows(b, ro, m)
      BY <1>1 DEF Good
    <3>2. nm = [n \in 1 .. Len(r) |-> b[r[n]].value]
      <4>1. made.name = [n \in 1 .. Len(ro) |-> b[ro[n]].value]
        BY <1>2, <3>1 DEF Shows
      <4>2. \A n \in 1 .. Len(ro) : b[ro[n]].value \in Nat
        <5>1. b \in Seq(Objects) /\ Len(b) = Len(bl) + 1
          BY <1>1, <2>5 DEF Good, Shaped
        <5>2. \A a \in 1 .. Len(bl) : b[a] \in Objects
          BY <1>1, <5>1
        <5>. QED  BY <2>6, <5>2 DEF Objects
      <4>3. made.name \in Seq(Nat) /\ Len(made.name) = Len(ro) /\ v \in Nat
        <5>1. v \in Nat
          BY <1>4 DEF v
        <5>2. PICK h, N : h = made.name /\ N = Len(ro) /\ N \in Nat
          BY <1>4
        <5>3. h \in [1 .. N -> Nat]
          BY <4>1, <4>2, <5>2
        <5>4. h \in Seq(Nat) /\ Len(h) = N
          BY <5>2, <5>3
        <5>. QED  BY <5>1, <5>2, <5>4
      <4>4. /\ nm \in Seq(Nat) /\ Len(nm) = Len(ro) + 1 /\ nm[Len(ro) + 1] = v
            /\ \A n \in 1 .. Len(ro) : nm[n] = b[ro[n]].value
        <5>1. /\ nm \in Seq(Nat) /\ Len(nm) = Len(made.name) + 1 /\ nm[Len(made.name) + 1] = v
              /\ \A n \in 1 .. Len(made.name) : nm[n] = made.name[n]
          BY <2>2, <4>3, AppendProperties
        <5>2. \A n \in 1 .. Len(ro) : made.name[n] = b[ro[n]].value
          BY <4>1
        <5>. QED  BY <4>3, <5>1, <5>2
      <4>5. \A n \in 1 .. Len(r) : n \in 1 .. Len(ro) \/ n = Len(ro) + 1
        BY <1>4, <2>6
      <4>6. \A n \in 1 .. Len(r) : nm[n] = b[r[n]].value
        BY <1>3, <2>6, <4>4, <4>5
      <4>. QED  BY <2>6, <4>4, <4>6
    <3>. QED  BY <1>2, <2>4, <3>1, <3>2 DEF Shows
  <2>. QED  BY <1>5, <2>1, <2>2, <2>3, <2>7, <2>8, <2>9 DEF Good
<1>6. CASE \E a \in ToSet(ro), f \in Word :
              /\ block' = [b EXCEPT ![a].field[f] = new] /\ root' = ro
              /\ made' = [made EXCEPT !.link = Append([@ EXCEPT ![b[a].value][f] = v], NoLinks)]
  <2>1. PICK a \in ToSet(ro), f \in Word :
              /\ block' = [b EXCEPT ![a].field[f] = new] /\ root' = ro
              /\ made' = [made EXCEPT !.link = Append([@ EXCEPT ![b[a].value][f] = v], NoLinks)]
    BY <1>6
  <2>2. a \in 1 .. Len(bl)
    BY <1>4, ToSetSeq
  <2>3. new = Len(bl) + 1 /\ new \in Nat /\ v = Len(made.link) + 1
    BY <1>1 DEF new, v
  <2>4. a \in 1 .. Len(b) /\ new \in 0 .. Len(b) /\ ValueOf(b, new) = v
    BY <1>1, <1>3, <2>2, <2>3 DEF ValueOf
  <2>5. Good([b EXCEPT ![a].field[f] = new], ro, [m EXCEPT !.link[b[a].value][f] = ValueOf(b, new)])
    BY <1>1, <2>4, AssignedGood
  <2>6. PICK w : w = b[a].value /\ w \in 1 .. Len(made.link)
    BY <1>1, <1>4, <2>2
  <2>7. [lk EXCEPT ![w][f] = v] = Append([made.link EXCEPT ![w][f] = v], NoLinks)
    <3>1. PICK x : x = [made.link[w] EXCEPT ![f] = v]
      OBVIOUS
    <3>2. x \in [Word -> Nat] /\ NoLinks \in [Word -> Nat]
      BY <1>4, <2>3, <2>6, <3>1 DEF NoLinks
    <3>3. [made.link EXCEPT ![w][f] = v] = [made.link EXCEPT ![w] = x]
      BY <3>1
    <3>4. lk[w] = made.link[w]
      BY <1>4, <2>6, <3>2 DEF lk
    <3>5. [lk EXCEPT ![w][f] = v] = [lk EXCEPT ![w] = x]
      BY <3>1, <3>4
    <3>6. PICK N : N = Len(made.link) /\ N \in Nat
      BY <1>4
    <3>7. PICK old, up : old = made.link /\ up = [made.link EXCEPT ![w] = x]
      OBVIOUS
    <3>8. /\ old \in Seq([Word -> Nat]) /\ up \in Seq([Word -> Nat]) /\ Len(old) = N /\ Len(up) = N
          /\ \A q \in 1 .. N : up[q] = IF q = w THEN x ELSE old[q]
      BY <1>4, <2>6, <3>2, <3>6, <3>7
    <3>9. PICK l1, l2 : l1 = Append(old, NoLinks) /\ l2 = Append(up, NoLinks)
      OBVIOUS
    <3>10. /\ l1 \in Seq([Word -> Nat]) /\ l2 \in Seq([Word -> Nat])
           /\ Len(l1) = N + 1 /\ Len(l2) = N + 1
           /\ \A q \in 1 .. N : l1[q] = old[q] /\ l2[q] = up[q]
           /\ l1[N + 1] = NoLinks /\ l2[N + 1] = NoLinks
      BY <3>2, <3>6, <3>8, <3>9
    <3>11. \A q \in 1 .. N + 1 : q \in 1 .. N \/ (q = N + 1 /\ q # w)
      BY <2>6, <3>6
    <3>12. [l1 EXCEPT ![w] = x] = l2
      <4>1. PICK l3 : l3 = [l1 EXCEPT ![w] = x]
        OBVIOUS
      <4>2. w \in 1 .. N + 1
        BY <2>6, <3>6
      <4>3. /\ l3 \in Seq([Word -> Nat]) /\ Len(l3) = N + 1
            /\ \A q \in 1 .. N + 1 : l3[q] = IF q = w THEN x ELSE l1[q]
        BY <3>2, <3>10, <4>1, <4>2, ExceptSeq
      <4>4. \A q \in 1 .. N + 1 : l3[q] = l2[q]
        BY <3>8, <3>10, <3>11, <4>3
      <4>5. l3 = l2
        <5>1. l3 = [q \in 1 .. N + 1 |-> l3[q]] /\ l2 = [q \in 1 .. N + 1 |-> l2[q]]
          BY <3>6, <3>10, <4>3
        <5>. QED  BY <4>4, <5>1
      <4>. QED  BY <4>1, <4>5
    <3>13. lk = l1 /\ Append([made.link EXCEPT ![w] = x], NoLinks) = l2
      BY <3>7, <3>9 DEF lk
    <3>. QED  BY <3>3, <3>5, <3>12, <3>13
  <2>8. [m EXCEPT !.link[w][f] = v]
          = [made EXCEPT !.link = Append([@ EXCEPT ![w][f] = v], NoLinks)]
    BY <1>2, <1>4, <2>7 DEF m
  <2>. QED  BY <2>1, <2>4, <2>5, <2>6, <2>8
<1>. QED  BY <1>0, <1>5, <1>6

(* A variable goes out of scope.                                           *)
LEMMA Removed ==
  ASSUME NEW S, NEW s \in Seq(S), NEW n \in 1 .. Len(s)
  PROVE  /\ RemoveAt(s, n) \in Seq(S) /\ Len(RemoveAt(s, n)) = Len(s) - 1
         /\ \A k \in 1 .. Len(s) - 1 : RemoveAt(s, n)[k] = IF k < n THEN s[k] ELSE s[k + 1]
<1>. DEFINE l == SubSeq(s, 1, n - 1)
            r == SubSeq(s, n + 1, Len(s))
<1>0. Len(s) \in Nat /\ \A k \in 1 .. Len(s) : s[k] \in S
  OBVIOUS
<1>1. l \in Seq(S) /\ Len(l) = n - 1 /\ \A k \in 1 .. n - 1 : l[k] = s[k]
  BY <1>0
<1>2. r \in Seq(S) /\ Len(r) = Len(s) - n /\ \A k \in 1 .. Len(s) - n : r[k] = s[k + n]
  BY <1>0
<1>3. RemoveAt(s, n) = l \o r
  BY DEF RemoveAt
<1>. HIDE DEF l, r
<1>4. /\ l \o r \in Seq(S) /\ Len(l \o r) = Len(l) + Len(r)
      /\ \A k \in 1 .. Len(l) + Len(r) : (l \o r)[k] = IF k <= Len(l) THEN l[k] ELSE r[k - Len(l)]
  BY <1>1, <1>2, ConcatProperties
<1>5. \A k \in 1 .. Len(s) - 1 : (l \o r)[k] = IF k < n THEN s[k] ELSE s[k + 1]
  <2>. TAKE k \in 1 .. Len(s) - 1
  <2>1. CASE k < n
    BY <1>0, <1>1, <1>2, <1>4, <2>1
  <2>2. CASE ~(k < n)
    <3>1. k - (n - 1) \in 1 .. Len(s) - n /\ (k - (n - 1)) + n = k + 1
      BY <1>0, <2>2
    <3>2. (l \o r)[k] = r[k - (n - 1)]
      BY <1>0, <1>1, <1>2, <1>4, <2>2
    <3>. QED  BY <1>2, <2>2, <3>1, <3>2
  <2>. QED  BY <2>1, <2>2
<1>. QED  BY <1>0, <1>1, <1>2, <1>3, <1>4, <1>5

LEMMA ForgetGood ==
  ASSUME Good(block, root, made), Forget
  PROVE  Good(block', root', made')
<1>1. PICK n \in DOMAIN root :
        /\ root' = RemoveAt(root, n) /\ made' = [made EXCEPT !.name = RemoveAt(@, n)]
        /\ block' = block
  BY DEF Forget
<1>2. Shaped(block, root) /\ Made(made) /\ Known(block, made) /\ Shows(block, root, made)
  BY DEF Good
<1>3. PICK D, N : D = 1 .. Len(block) /\ N = Len(root)
  OBVIOUS
<1>4. /\ root \in Seq(D) /\ N \in Nat /\ n \in 1 .. N /\ \A k \in 1 .. N : root[k] \in D
      /\ block \in Seq(Objects) /\ Len(block) <= LispRoom /\ Len(block) \in Nat
      /\ \A a \in D, f \in Word : block[a].field[f] \in 0 .. Len(block)
      /\ \A a \in D : block[a] \in Objects
  <2>1. /\ root \in Seq(D) /\ block \in Seq(Objects) /\ Len(block) <= LispRoom
        /\ \A a \in D, f \in Word : block[a].field[f] \in 0 .. Len(block)
    BY <1>2, <1>3 DEF Shaped
  <2>2. N \in Nat /\ n \in 1 .. N
    BY <1>3, <2>1
  <2>3. \A k \in 1 .. N : root[k] \in D
    BY <1>3, <2>1, ElementOfSeq
  <2>4. Len(block) \in Nat /\ \A a \in D : block[a] \in Objects
    BY <1>3, <2>1, ElementOfSeq
  <2>. QED  BY <2>1, <2>2, <2>3, <2>4
<1>5. PICK nm : nm = made.name
  OBVIOUS
<1>6. nm \in Seq(Nat) /\ Len(nm) = N /\ \A k \in 1 .. N : nm[k] = block[root[k]].value
  <2>1. nm = [k \in 1 .. N |-> block[root[k]].value]
    BY <1>2, <1>3, <1>5 DEF Shows
  <2>2. \A k \in 1 .. N : block[root[k]].value \in Nat
    BY <1>4 DEF Objects
  <2>. QED  BY <1>4, <2>1, <2>2
<1>7. PICK r, m : r = RemoveAt(root, n) /\ m = RemoveAt(nm, n)
  OBVIOUS
<1>8. /\ r \in Seq(D) /\ Len(r) = N - 1
      /\ \A k \in 1 .. N - 1 : r[k] = IF k < n THEN root[k] ELSE root[k + 1]
  BY <1>3, <1>4, <1>7, Removed
<1>9. /\ m \in Seq(Nat) /\ Len(m) = N - 1
      /\ \A k \in 1 .. N - 1 : m[k] = IF k < n THEN nm[k] ELSE nm[k + 1]
  <2>1. n \in 1 .. Len(nm)
    BY <1>4, <1>6
  <2>2. /\ RemoveAt(nm, n) \in Seq(Nat) /\ Len(RemoveAt(nm, n)) = Len(nm) - 1
        /\ \A k \in 1 .. Len(nm) - 1 : RemoveAt(nm, n)[k] = IF k < n THEN nm[k] ELSE nm[k + 1]
    BY <1>6, <2>1, Removed
  <2>. QED  BY <1>6, <1>7, <2>2
<1>10. m = [k \in 1 .. Len(r) |-> block[r[k]].value]
  <2>1. \A k \in 1 .. N - 1 : k \in 1 .. N /\ k + 1 \in 1 .. N
    BY <1>4
  <2>2. \A k \in 1 .. N - 1 : m[k] = block[r[k]].value
    BY <1>4, <1>6, <1>8, <1>9, <2>1
  <2>. QED  BY <1>4, <1>8, <1>9, <2>2
<1>11. PICK d : d = [made EXCEPT !.name = m]
  OBVIOUS
<1>12. d = [name |-> m, link |-> made.link] /\ d.name = m /\ d.link = made.link
  BY <1>2, <1>11 DEF Made
<1>13. Shaped(block, r)
  BY <1>3, <1>4, <1>8 DEF Shaped
<1>14. Made(d) /\ Known(block, d)
  BY <1>2, <1>12 DEF Made, Known
<1>15. Shows(block, r, d)
  BY <1>2, <1>10, <1>12 DEF Shows
<1>. QED  BY <1>1, <1>5, <1>7, <1>11, <1>13, <1>14, <1>15 DEF Good

LEMMA StoreGood ==
  ASSUME Good(block, root, made), Store
  PROVE  Good(block', root', made')
<1>1. PICK a \in gc_mark, f \in Word, p \in gc_mark \cup {NIL} :
        /\ block' = [block EXCEPT ![a].field[f] = p]
        /\ made' = [made EXCEPT !.link[block[a].value][f] = ValueIn(p)]
        /\ root' = root
  BY DEF Store
<1>2. Shaped(block, root)
  BY DEF Good
<1>3. a \in 1 .. Len(block) /\ p \in 0 .. Len(block) /\ DOMAIN block = 1 .. Len(block)
  BY <1>1, <1>2, MarkClosed DEF NIL, Shaped
<1>4. ValueIn(p) = ValueOf(block, p)
  BY <1>2, <1>3 DEF ValueIn, ValueOf, Shaped
<1>5. Good([block EXCEPT ![a].field[f] = p], root,
           [made EXCEPT !.link[block[a].value][f] = ValueOf(block, p)])
  BY <1>3, AssignedGood
<1>. QED  BY <1>1, <1>4, <1>5

LEMMA LispInvInit ==
  ASSUME LispInit
  PROVE  LispInv
<1>1. block = <<>> /\ root = <<>> /\ made = [name |-> <<>>, link |-> <<>>]
  BY DEF LispInit
<1>2. Len(block) = 0 /\ Len(root) = 0 /\ block \in Seq(Objects) /\ root \in Seq(1 .. Len(block))
  BY <1>1
<1>3. made.name = <<>> /\ made.link = <<>> /\ made.link \in Seq([Word -> Nat])
  BY <1>1
<1>4. made.name = [n \in 1 .. Len(root) |-> block[root[n]].value]
  BY <1>2, <1>3
<1>5. Shaped(block, root)
  BY <1>2, Lisp2Assumption DEF Shaped
<1>6. Made(made) /\ Known(block, made) /\ Shows(block, root, made)
  BY <1>1, <1>2, <1>3, <1>4 DEF Made, Known, Shows
<1>. QED  BY <1>5, <1>6 DEF LispInv, Good

LEMMA LispInvStep ==
  ASSUME LispInv, LispNext
  PROVE  LispInv'
<1>. USE DEF LispInv
<1>1. CASE compact_malloc
  <2>1. CASE Take(State)
    <3>1. State.block = block /\ State.root = root
      BY DEF State
    <3>2. Good(State.block, State.root, made)
      BY <3>1
    <3>3. Good(block', root', made')
      BY <2>1, <3>2, TakeGood
    <3>. QED  BY <3>3
  <2>2. CASE Take(Collected)
    <3>1. Good(Collected.block, Collected.root, made)
      BY CollectedGood
    <3>2. Good(block', root', made')
      BY <2>2, <3>1, TakeGood
    <3>. QED  BY <3>2
  <2>. QED  BY <1>1, <2>1, <2>2 DEF compact_malloc
<1>2. CASE gc
  <2>1. block' = Collected.block /\ root' = Collected.root /\ made' = made
    BY <1>2 DEF gc
  <2>. QED  BY <2>1, CollectedGood
<1>3. CASE Store
  BY <1>3, StoreGood
<1>4. CASE Forget
  BY <1>4, ForgetGood
<1>. QED  BY <1>1, <1>2, <1>3, <1>4 DEF LispNext

(***************************************************************************)
(* The reachable objects in the order of their addresses are what a        *)
(* collection keeps.                                                       *)
(***************************************************************************)
Upto(u) == u = [n \in 0 .. Len(block) |->
                  IF n = 0 THEN <<>>
                  ELSE IF n \in gc_mark THEN Append(u[n - 1], block[n].value) ELSE u[n - 1]]

LEMMA ReachableValuesAre ==
  ASSUME Shaped(block, root)
  PROVE  ReachableValues = [k \in 1 .. Cardinality(gc_mark) |-> block[Nth(gc_mark, k)].value]
<1>0. PICK M, L : M = gc_mark /\ L = Len(block)
  OBVIOUS
<1>1. /\ L \in Nat /\ M \in SUBSET (1 .. L)
      /\ \A a \in 1 .. L : block[a].value \in Nat
  <2>1. gc_mark \in SUBSET (1 .. Len(block))
    BY MarkClosed
  <2>2. L \in Nat /\ \A a \in 1 .. L : block[a] \in Objects
    BY <1>0 DEF Shaped
  <2>. QED  BY <1>0, <2>1, <2>2 DEF Objects
<1>2. /\ Rank(M, 0) = 0 /\ Rank(M, L) = Cardinality(M)
      /\ \A n \in 0 .. L : Rank(M, n) \in Nat
      /\ \A n \in 1 .. L : Rank(M, n) = Rank(M, n - 1) + (IF n \in M THEN 1 ELSE 0)
  BY <1>1, RankIs
<1>3. /\ \A a \in M : Rank(M, a) \in 1 .. Cardinality(M) /\ Nth(M, Rank(M, a)) = a
      /\ \A k \in 1 .. Cardinality(M) : Nth(M, k) \in M
  BY <1>1, RankPlace
<1>. DEFINE V(n) == [k \in 1 .. Rank(M, n) |-> block[Nth(M, k)].value]
            u == CHOOSE x : Upto(x)
            g == [n \in 0 .. L |-> V(n)]
<1>4. \A n \in 0 .. L : Rank(M, n) <= Rank(M, L)
  BY <1>1, RankOrder
<1>5. \A n \in 0 .. L : V(n) \in Seq(Nat) /\ Len(V(n)) = Rank(M, n)
  <2>. TAKE n \in 0 .. L
  <2>1. PICK c : c = Rank(M, n) /\ c \in Nat
    BY <1>2
  <2>2. \A k \in 1 .. c : k \in 1 .. Cardinality(M)
    BY <1>1, <1>2, <1>4, <2>1
  <2>3. \A k \in 1 .. c : block[Nth(M, k)].value \in Nat
    BY <1>1, <1>3, <2>2
  <2>. QED  BY <2>1, <2>3
<1>6. V(0) = <<>>
  BY <1>2
<1>7. ASSUME NEW n \in 1 .. L
      PROVE  V(n) = IF n \in M THEN Append(V(n - 1), block[n].value) ELSE V(n - 1)
  <2>0. n \in 0 .. L /\ n - 1 \in 0 .. L
    BY <1>1
  <2>1. CASE n \notin M
    <3>1. Rank(M, n) = Rank(M, n - 1)
      BY <1>2, <2>0, <2>1
    <3>. QED  BY <2>1, <3>1
  <2>2. CASE n \in M
    <3>1. PICK c : c = Rank(M, n - 1) /\ c \in Nat
      BY <1>2, <2>0
    <3>2. Rank(M, n) = c + 1 /\ Nth(M, c + 1) = n
      BY <1>2, <1>3, <2>0, <2>2, <3>1
    <3>3. PICK x, y : x = V(n) /\ y = Append(V(n - 1), block[n].value)
      OBVIOUS
    <3>4. /\ x \in Seq(Nat) /\ Len(x) = c + 1
          /\ \A k \in 1 .. c + 1 : x[k] = block[Nth(M, k)].value
      BY <1>5, <2>0, <3>1, <3>2, <3>3
    <3>5. PICK w, e : w = V(n - 1) /\ e = block[n].value
      OBVIOUS
    <3>6. /\ w \in Seq(Nat) /\ Len(w) = c /\ e \in Nat
          /\ \A k \in 1 .. c : w[k] = block[Nth(M, k)].value
      BY <1>1, <1>5, <2>0, <3>1, <3>5
    <3>7. y = Append(w, e)
      BY <3>3, <3>5
    <3>8. /\ y \in Seq(Nat) /\ Len(y) = c + 1 /\ y[c + 1] = e
          /\ \A k \in 1 .. c : y[k] = w[k]
      BY <3>1, <3>6, <3>7
    <3>9. \A k \in 1 .. c + 1 : k \in 1 .. c \/ k = c + 1
      BY <3>1
    <3>10. \A k \in 1 .. c + 1 : x[k] = y[k]
      BY <3>2, <3>4, <3>5, <3>6, <3>8, <3>9
    <3>11. x = [k \in 1 .. c + 1 |-> x[k]] /\ y = [k \in 1 .. c + 1 |-> y[k]]
      BY <3>1, <3>4, <3>8
    <3>12. x = y
      BY <3>10, <3>11
    <3>. QED  BY <2>2, <3>3, <3>12
  <2>. QED  BY <2>1, <2>2
<1>. HIDE DEF V
<1>8. Upto(g)
  <2>1. \A n \in 0 .. L : n # 0 => n \in 1 .. L /\ n - 1 \in 0 .. L
    BY <1>1
  <2>2. \A n \in 0 .. L : g[n] = IF n = 0 THEN <<>>
                                 ELSE IF n \in M THEN Append(g[n - 1], block[n].value) ELSE g[n - 1]
    BY <1>6, <1>7, <2>1
  <2>. QED  BY <1>0, <2>2 DEF Upto
<1>9. Upto(u)
  BY <1>8
<1>10. ReachableValues = u[L]
  BY <1>0 DEF ReachableValues, Upto
<1>. HIDE DEF u
<1>11. \A n \in 0 .. L : u[n] = IF n = 0 THEN <<>>
                                ELSE IF n \in M THEN Append(u[n - 1], block[n].value) ELSE u[n - 1]
  BY <1>0, <1>9 DEF Upto
<1>12. \A n \in 0 .. L : u[n] = V(n)
  <2>. DEFINE S == {n \in Nat : n <= L => u[n] = V(n)}
  <2>1. 0 \in S
    <3>1. 0 \in 0 .. L
      BY <1>1
    <3>2. u[0] = <<>>
      BY <1>11, <3>1, Zenon
    <3>. QED  BY <1>6, <3>2
  <2>2. ASSUME NEW n \in Nat, n \in S  PROVE n + 1 \in S
    <3>. SUFFICES ASSUME n + 1 <= L  PROVE u[n + 1] = V(n + 1)
      OBVIOUS
    <3>1. n + 1 \in 0 .. L /\ n + 1 \in 1 .. L /\ n + 1 # 0 /\ (n + 1) - 1 = n /\ u[n] = V(n)
      BY <1>1, <2>2
    <3>2. u[n + 1] = IF n + 1 \in M THEN Append(u[n], block[n + 1].value) ELSE u[n]
      BY <1>11, <3>1
    <3>3. V(n + 1) = IF n + 1 \in M THEN Append(V(n), block[n + 1].value) ELSE V(n)
      BY <1>7, <3>1
    <3>. QED  BY <3>1, <3>2, <3>3
  <2>. HIDE DEF S
  <2>3. Nat \subseteq S
    BY <2>1, <2>2, NatSetInduction
  <2>. QED  BY <1>1, <2>3 DEF S
<1>13. u[L] = V(L)
  BY <1>1, <1>12
<1>. QED  BY <1>0, <1>2, <1>10, <1>13 DEF V

LEMMA InvIsExact ==
  ASSUME LispInv
  PROVE  CompactExact
<1>1. Shaped(block, root) /\ Shows(block, root, made)
  BY DEF LispInv, Good
<1>2. /\ DOMAIN block = 1 .. Len(block) /\ DOMAIN root = 1 .. Len(root) /\ Len(block) \in Nat
      /\ \A n \in 1 .. Len(root) : root[n] \in 1 .. Len(block)
      /\ \A a \in 1 .. Len(block), f \in Word : block[a].field[f] \in 0 .. Len(block)
  BY <1>1 DEF Shaped
<1>3. made.name = [n \in DOMAIN root |-> ValueIn(root[n])]
  BY <1>1, <1>2 DEF Shows, ValueIn
<1>4. ASSUME NEW a \in gc_mark, NEW f \in Word
      PROVE  ValueIn(block[a].field[f]) = made.link[block[a].value][f]
  <2>1. a \in 1 .. Len(block)
    BY <1>1, MarkClosed
  <2>2. PICK p : p = block[a].field[f] /\ p \in 0 .. Len(block)
    BY <1>2, <2>1
  <2>3. ValueIn(p) = ValueOf(block, p)
    BY <1>2, <2>2 DEF ValueIn, ValueOf
  <2>4. made.link[block[a].value][f] = ValueOf(block, p)
    BY <1>1, <2>1, <2>2 DEF Shows
  <2>. QED  BY <2>2, <2>3, <2>4
<1>5. [n \in DOMAIN Collected.block |-> Collected.block[n].value] = ReachableValues
  <2>1. PICK M : M = gc_mark
    OBVIOUS
  <2>2. PICK c, N : c = Collected.block /\ N = Cardinality(M)
    OBVIOUS
  <2>3. /\ c \in Seq(Objects) /\ Len(c) = N
        /\ \A n \in 1 .. N : c[n].value = block[Nth(M, n)].value
    BY <1>1, <2>1, <2>2, CollectedIs
  <2>4. DOMAIN c = 1 .. N
    BY <2>3
  <2>5. [n \in DOMAIN c |-> c[n].value] = [n \in 1 .. N |-> block[Nth(M, n)].value]
    BY <2>3, <2>4
  <2>. QED  BY <1>1, <2>1, <2>2, <2>5, ReachableValuesAre
<1>. QED  BY <1>3, <1>4, <1>5 DEF CompactExact

(* compact-lisp2: roots and pointers lead where the program made them      *)
(* lead, and a collection keeps the reachable objects in order.            *)
THEOREM CompactionExact == LispSpec => []CompactExact
<1>1. LispInv /\ UNCHANGED lisp2vars => LispInv'
  BY DEF LispInv, lisp2vars
<1>. QED  BY <1>1, LispInvInit, LispInvStep, InvIsExact, PTL DEF LispSpec

(***************************************************************************)
(* refcount.                                                               *)
(***************************************************************************)

(***************************************************************************)
(* What is left of a call.                                                 *)
(***************************************************************************)
Target == Obj \cup {NOOBJ}

RefCalls ==
    {Call(op, o) : op \in {"inc", "dec"}, o \in Target}
    \cup {Call(op, o) : op \in {"test", "free"}, o \in Obj}
    \cup {DecField(a, f) : a \in Obj, f \in Slot}
    \cup {Assignment(a, f, o) : a \in Obj, f \in Slot, o \in Target}

Counts(c) == c.op \in {"inc", "dec", "test"}
ReleasesOf(c, a) == c.op = "decfield" /\ c.obj = a

(* A dead object is freed after its fields; an assignment ends its call.   *)
InOrder(s) ==
    /\ s \in Seq(RefCalls) /\ IsInjective(s)
    /\ \A q \in 1 .. Len(s) : s[q].op = "assign" => q = Len(s)
    /\ \A q \in 1 .. Len(s), j \in 1 .. Len(s) :
          s[j].op = "free" /\ ReleasesOf(s[q], s[j].obj) => q < j

(* A count is under way only at the front.                                 *)
RestOK(s) == InOrder(s) /\ \A q \in 1 .. Len(s) : ~Counts(s[q])

Moves(s) == \E a \in Obj, f \in Slot, o \in Target :
                  s = <<Call("inc", o), DecField(a, f), Assignment(a, f, o)>>

ListOK(s) ==
    /\ InOrder(s)
    /\ \A q \in 1 .. Len(s) : Counts(s[q]) => q = 1
    /\ s # <<>> /\ Head(s).op = "inc" => s = <<Call("inc", Head(s).obj)>> \/ Moves(s)

LEMMA CallKinds ==
  ASSUME NEW c \in RefCalls
  PROVE  /\ \/ c.op \in {"inc", "dec"} /\ c.obj \in Target /\ c = Call(c.op, c.obj)
            \/ c.op \in {"test", "free"} /\ c.obj \in Obj /\ c = Call(c.op, c.obj)
            \/ /\ c.op = "decfield" /\ c.obj \in Obj /\ c.field \in Slot
               /\ c = DecField(c.obj, c.field)
            \/ /\ c.op = "assign" /\ c.obj \in Target /\ c.to \in Obj /\ c.field \in Slot
               /\ c = Assignment(c.to, c.field, c.obj)
BY DEF RefCalls, Call, DecField, Assignment

LEMMA CallFields ==
  /\ \A op, o : Call(op, o).op = op /\ Call(op, o).obj = o
  /\ \A a, f : /\ DecField(a, f).op = "decfield" /\ DecField(a, f).obj = a
               /\ DecField(a, f).field = f
  /\ \A a, f, o : /\ Assignment(a, f, o).op = "assign" /\ Assignment(a, f, o).obj = o
                  /\ Assignment(a, f, o).to = a /\ Assignment(a, f, o).field = f
  /\ \A o \in Target : Call("inc", o) \in RefCalls /\ Call("dec", o) \in RefCalls
  /\ \A o \in Obj : Call("test", o) \in RefCalls /\ Call("free", o) \in RefCalls
  /\ \A a \in Obj, f \in Slot : DecField(a, f) \in RefCalls
  /\ \A a \in Obj, f \in Slot, o \in Target : Assignment(a, f, o) \in RefCalls
<1>1. /\ \A op, o : Call(op, o).op = op /\ Call(op, o).obj = o
      /\ \A a, f : /\ DecField(a, f).op = "decfield" /\ DecField(a, f).obj = a
                   /\ DecField(a, f).field = f
  BY DEF Call, DecField
<1>2. \A a, f, o : /\ Assignment(a, f, o).op = "assign" /\ Assignment(a, f, o).obj = o
                   /\ Assignment(a, f, o).to = a /\ Assignment(a, f, o).field = f
  BY DEF Assignment
<1>3. /\ \A o \in Target : Call("inc", o) \in RefCalls /\ Call("dec", o) \in RefCalls
      /\ \A o \in Obj : Call("test", o) \in RefCalls /\ Call("free", o) \in RefCalls
  BY DEF RefCalls
<1>4. /\ \A a \in Obj, f \in Slot : DecField(a, f) \in RefCalls
      /\ \A a \in Obj, f \in Slot, o \in Target : Assignment(a, f, o) \in RefCalls
  BY DEF RefCalls
<1>. QED  BY <1>1, <1>2, <1>3, <1>4

(* The calls that are left once the first is done.                         *)
LEMMA RestAfter ==
  ASSUME NEW s, ListOK(s), s # <<>>, NEW r, r = Tail(s)
  PROVE  /\ RestOK(r)
         /\ Head(s) \in RefCalls /\ ToSet(s) = {Head(s)} \cup ToSet(r) /\ Head(s) \notin ToSet(r)
         /\ Head(s).op = "free" => \A c \in ToSet(r) : ~ReleasesOf(c, Head(s).obj)
         /\ Head(s).op = "assign" => r = <<>>
<1>1. s \in Seq(RefCalls) /\ IsInjective(s)
  BY DEF ListOK, InOrder
<1>2. /\ r \in Seq(RefCalls) /\ IsInjective(r) /\ Head(s) \in RefCalls
      /\ ToSet(s) = {Head(s)} \cup ToSet(r) /\ Head(s) \notin ToSet(r)
  BY <1>1, HeadOfList
<1>3. Len(s) \in Nat \ {0} /\ Len(r) = Len(s) - 1 /\ Head(s) = s[1]
      /\ \A q \in 1 .. Len(r) : q + 1 \in 1 .. Len(s) /\ r[q] = s[q + 1]
  BY <1>1
<1>4. ASSUME NEW q \in 1 .. Len(r), r[q].op = "assign"  PROVE q = Len(r)
  <2>1. q + 1 = Len(s)
    BY <1>3, <1>4 DEF ListOK, InOrder
  <2>2. Len(r) = Len(s) - 1 /\ Len(s) \in Nat
    BY <1>3
  <2>. QED  BY <2>1, <2>2
<1>5. \A q \in 1 .. Len(r) : ~Counts(r[q])
  BY <1>3 DEF ListOK
<1>6. ASSUME NEW q \in 1 .. Len(r), NEW j \in 1 .. Len(r),
             r[j].op = "free", ReleasesOf(r[q], r[j].obj)
      PROVE  q < j
  <2>1. q + 1 < j + 1
    BY <1>3, <1>6 DEF ListOK, InOrder
  <2>. QED  BY <2>1
<1>7. ASSUME Head(s).op = "free", NEW c \in ToSet(r), ReleasesOf(c, Head(s).obj)  PROVE FALSE
  <2>1. PICK q \in 1 .. Len(r) : c = r[q]
    BY <1>2, <1>7 DEF ToSet
  <2>2. q + 1 < 1
    <3>1. 1 \in 1 .. Len(s) /\ q + 1 \in 1 .. Len(s) /\ s[q + 1] = c
      BY <1>3, <2>1
    <3>. QED  BY <1>3, <1>7, <3>1 DEF ListOK, InOrder
  <2>. QED  BY <2>2
<1>8. ASSUME Head(s).op = "assign"  PROVE r = <<>>
  <2>1. 1 = Len(s)
    <3>1. 1 \in 1 .. Len(s) /\ s[1].op = "assign"
      BY <1>3, <1>8
    <3>. QED  BY <3>1 DEF ListOK, InOrder
  <2>. QED  BY <1>2, <1>3, <2>1, EmptySeq
<1>. QED  BY <1>2, <1>4, <1>5, <1>6, <1>7, <1>8 DEF RestOK, InOrder

LEMMA RestIsList ==
  ASSUME NEW s, RestOK(s)
  PROVE  ListOK(s) /\ (s # <<>> => ~Counts(Head(s)))
<1>1. s \in Seq(RefCalls)
  BY DEF RestOK, InOrder
<1>2. s # <<>> => Head(s) = s[1] /\ 1 \in 1 .. Len(s)
  BY <1>1
<1>. QED  BY <1>2 DEF RestOK, ListOK, Counts

(* A count of the first object goes on, or that of a field's begins.       *)
LEMMA CountNext ==
  ASSUME NEW r, RestOK(r), NEW c \in RefCalls, c.op \in {"dec", "test"}, NEW s, s = <<c>> \o r
  PROVE  ListOK(s) /\ s # <<>> /\ Head(s) = c /\ ToSet(s) = {c} \cup ToSet(r)
<1>1. r \in Seq(RefCalls) /\ IsInjective(r) /\ DOMAIN r = 1 .. Len(r)
  BY DEF RestOK, InOrder
<1>2. c \notin ToSet(r)
  BY <1>1 DEF RestOK, Counts, ToSet
<1>3. s \in Seq(RefCalls) /\ IsInjective(s) /\ ToSet(s) = {c} \cup ToSet(r)
  BY <1>1, <1>2, PushOnList
<1>4. /\ Len(r) \in Nat /\ Len(s) = Len(r) + 1 /\ s[1] = c
      /\ \A q \in 1 .. Len(s) : q = 1 \/ (q - 1 \in 1 .. Len(r) /\ s[q] = r[q - 1])
  BY <1>1, <1>3
<1>5. s # <<>> /\ Head(s) = c
  BY <1>3, <1>4
<1>6. \A q \in 1 .. Len(s) : s[q].op = "assign" => q = Len(s)
  BY <1>4 DEF RestOK, InOrder
<1>7. ASSUME NEW q \in 1 .. Len(s), NEW j \in 1 .. Len(s),
             s[j].op = "free", ReleasesOf(s[q], s[j].obj)
      PROVE  q < j
  <2>1. q # 1 /\ j # 1
    BY <1>4, <1>7 DEF ReleasesOf
  <2>2. q - 1 < j - 1
    BY <1>4, <1>7, <2>1 DEF RestOK, InOrder
  <2>. QED  BY <2>2
<1>8. \A q \in 1 .. Len(s) : Counts(s[q]) => q = 1
  BY <1>4 DEF RestOK
<1>9. InOrder(s)
  BY <1>3, <1>6, <1>7 DEF InOrder
<1>. QED  BY <1>3, <1>5, <1>8, <1>9 DEF ListOK

(* The fields of a dead object and the object itself come before the rest. *)
LEMMA DeadNext ==
  ASSUME IsFiniteSet(Slot), NEW r, RestOK(r), NEW o \in Obj,
         \A c \in ToSet(r) : ~ReleasesOf(c, o) /\ c # Call("free", o),
         NEW s, s = Dead(o) \o r
  PROVE  /\ RestOK(s) /\ s # <<>>
         /\ ToSet(s) = {DecField(o, f) : f \in Slot} \cup {Call("free", o)} \cup ToSet(r)
<1>. DEFINE D == {DecField(o, f) : f \in Slot}
            d == SetToSeq(D)
            z == <<Call("free", o)>>
            e == d \o z
<1>1. IsFiniteSet(D)
  <2>. DEFINE g == [f \in Slot |-> DecField(o, f)]
  <2>1. \A f, f2 \in Slot : g[f] = g[f2] => f = f2
    BY CallFields
  <2>2. g \in [Slot -> D] /\ \A c \in D : \E f \in Slot : g[f] = c
    OBVIOUS
  <2>. HIDE DEF g, D
  <2>3. g \in Bijection(Slot, D)
    BY <2>1, <2>2 DEF Bijection, Injection, Surjection, IsInjective
  <2>. QED  BY <2>3, FS_Bijection DEF ExistsBijection
<1>2. D \subseteq RefCalls /\ Call("free", o) \in RefCalls
      /\ \A c \in D : c.op = "decfield" /\ c.obj = o
  BY CallFields
<1>3. d \in Seq(D) /\ IsInjective(d) /\ ToSet(d) = D
  <2>. HIDE DEF D
  <2>. QED  BY <1>1, SetToSeqIs
<1>4. d \in Seq(RefCalls) /\ z \in Seq(RefCalls) /\ ToSet(z) = {Call("free", o)} /\ IsInjective(z)
      /\ z # <<>>
  BY <1>2, <1>3, ToSetOne
<1>5. Call("free", o) \notin D
  BY <1>2, CallFields
<1>6. Len(z) = 1 /\ z[1] = Call("free", o)
  OBVIOUS
<1>7. r \in Seq(RefCalls) /\ IsInjective(r) /\ DOMAIN r = 1 .. Len(r) /\ Len(r) \in Nat
  BY DEF RestOK, InOrder
<1>8. s = e \o r
  BY DEF Dead
<1>. HIDE DEF D, d, z
<1>9. e \in Seq(RefCalls) /\ ToSet(e) = D \cup {Call("free", o)} /\ IsInjective(e)
  BY <1>3, <1>4, <1>5, ToSetConcat, ConcatInjective
<1>10. /\ Len(d) \in Nat /\ Len(e) = Len(d) + 1 /\ e[Len(e)] = Call("free", o)
       /\ \A q \in 1 .. Len(d) : e[q] \in D
  <2>1. Len(d) \in Nat /\ \A q \in 1 .. Len(d) : d[q] \in D
    BY <1>3
  <2>2. /\ Len(e) = Len(d) + Len(z)
        /\ \A q \in 1 .. Len(d) + Len(z) : e[q] = IF q <= Len(d) THEN d[q] ELSE z[q - Len(d)]
    BY <1>4, ConcatProperties
  <2>3. Len(e) = Len(d) + 1 /\ Len(d) + 1 \in 1 .. Len(d) + Len(z) /\ ~(Len(d) + 1 <= Len(d))
        /\ (Len(d) + 1) - Len(d) = 1
    BY <1>6, <2>1, <2>2
  <2>4. e[Len(e)] = Call("free", o)
    BY <1>6, <2>2, <2>3
  <2>5. \A q \in 1 .. Len(d) : q \in 1 .. Len(d) + Len(z) /\ q <= Len(d)
    BY <1>6, <2>1
  <2>. QED  BY <2>1, <2>2, <2>3, <2>4, <2>5
<1>. HIDE DEF e
<1>11. ToSet(e) \cap ToSet(r) = {}
  BY <1>2, <1>9 DEF ReleasesOf
<1>12. s \in Seq(RefCalls) /\ IsInjective(s) /\ ToSet(s) = ToSet(e) \cup ToSet(r)
  BY <1>7, <1>8, <1>9, <1>11, ToSetConcat, ConcatInjective
<1>13. /\ Len(s) = Len(e) + Len(r) /\ Len(e) \in Nat
       /\ \A q \in 1 .. Len(s) : s[q] = IF q <= Len(e) THEN e[q] ELSE r[q - Len(e)]
  BY <1>7, <1>8, <1>9, ConcatProperties
<1>14. ASSUME NEW q \in 1 .. Len(s)
       PROVE  \/ q \in 1 .. Len(d) /\ q < Len(e) /\ s[q] \in D
              \/ q = Len(e) /\ s[q] = Call("free", o)
              \/ q > Len(e) /\ q - Len(e) \in 1 .. Len(r) /\ s[q] = r[q - Len(e)]
  <2>1. CASE q <= Len(d)
    <3>1. q \in 1 .. Len(d) /\ q <= Len(e) /\ q < Len(e)
      BY <1>10, <1>13, <1>14, <2>1
    <3>. QED  BY <1>10, <1>13, <3>1
  <2>2. CASE q = Len(e)
    BY <1>10, <1>13, <2>2
  <2>3. CASE q > Len(e)
    <3>1. q - Len(e) \in 1 .. Len(r) /\ ~(q <= Len(e))
      BY <1>7, <1>13, <1>14, <2>3
    <3>. QED  BY <1>13, <2>3, <3>1
  <2>. QED  BY <1>10, <1>13, <2>1, <2>2, <2>3
<1>15. ASSUME NEW q \in 1 .. Len(s), s[q].op = "assign"  PROVE q = Len(s)
  <2>1. q - Len(e) \in 1 .. Len(r) /\ s[q] = r[q - Len(e)]
    BY <1>2, <1>14, <1>15, CallFields
  <2>2. q - Len(e) = Len(r)
    BY <1>15, <2>1 DEF RestOK, InOrder
  <2>. QED  BY <1>13, <1>7, <2>2
<1>16. \A q \in 1 .. Len(s) : ~Counts(s[q])
  <2>. TAKE q \in 1 .. Len(s)
  <2>1. \A j \in 1 .. Len(r) : ~Counts(r[j])
    BY DEF RestOK
  <2>2. \A c \in D : ~Counts(c)
    BY <1>2 DEF Counts
  <2>3. ~Counts(Call("free", o))
    BY CallFields DEF Counts
  <2>. QED  BY <1>14, <2>1, <2>2, <2>3
<1>17. ASSUME NEW q \in 1 .. Len(s), NEW j \in 1 .. Len(s),
              s[j].op = "free", ReleasesOf(s[q], s[j].obj)
       PROVE  q < j
  <2>1. CASE j = Len(e)
    <3>1. s[j].obj = o
      BY <1>14, <2>1, CallFields
    <3>2. q \notin {j} /\ ~(q > Len(e) /\ q - Len(e) \in 1 .. Len(r) /\ s[q] = r[q - Len(e)])
      <4>1. s[q].op = "decfield" /\ ReleasesOf(s[q], o)
        BY <1>17, <3>1 DEF ReleasesOf
      <4>2. \A k \in 1 .. Len(r) : r[k] \in ToSet(r)
        BY <1>7 DEF ToSet
      <4>. QED  BY <1>17, <4>1, <4>2
    <3>. QED  BY <1>14, <2>1, <3>2
  <2>2. CASE j > Len(e) /\ j - Len(e) \in 1 .. Len(r) /\ s[j] = r[j - Len(e)]
    <3>1. CASE q > Len(e) /\ q - Len(e) \in 1 .. Len(r) /\ s[q] = r[q - Len(e)]
      <4>1. q - Len(e) < j - Len(e)
        BY <1>17, <2>2, <3>1 DEF RestOK, InOrder
      <4>. QED  BY <1>13, <4>1
    <3>2. CASE q <= Len(e)
      BY <1>13, <2>2, <3>2
    <3>. QED  BY <1>13, <1>14, <3>1, <3>2
  <2>. QED  BY <1>2, <1>14, <1>17, <2>1, <2>2
<1>18. RestOK(s)
  BY <1>12, <1>15, <1>16, <1>17 DEF RestOK, InOrder
<1>19. s # <<>>
  BY <1>7, <1>10, <1>12, <1>13
<1>. QED  BY <1>9, <1>12, <1>18, <1>19 DEF D

(* The lists calls begin with.                                             *)
LEMMA FirstLists ==
  /\ ListOK(<<>>) /\ ToSet(<<>>) = {}
  /\ \A op \in {"inc", "dec"}, o \in Target :
        LET s == <<Call(op, o)>>
        IN  ListOK(s) /\ s # <<>> /\ Head(s) = Call(op, o) /\ ToSet(s) = {Call(op, o)}
<1>1. RestOK(<<>>)
  BY DEF RestOK, InOrder, IsInjective
<1>2. ASSUME NEW op \in {"inc", "dec"}, NEW o \in Target, NEW s, s = <<Call(op, o)>>
      PROVE  ListOK(s) /\ s # <<>> /\ Head(s) = Call(op, o) /\ ToSet(s) = {Call(op, o)}
  <2>1. Call(op, o) \in RefCalls /\ Call(op, o).op = op /\ Call(op, o).obj = o
    BY CallFields
  <2>2. s \in Seq(RefCalls) /\ Len(s) = 1 /\ s[1] = Call(op, o) /\ Head(s) = s[1] /\ s # <<>>
    BY <1>2, <2>1
  <2>3. IsInjective(s) /\ ToSet(s) = {Call(op, o)}
    BY <1>2, ToSetOne
  <2>4. \A q \in 1 .. Len(s) : q = 1
    BY <2>2
  <2>5. InOrder(s)
    BY <2>1, <2>2, <2>3, <2>4 DEF InOrder
  <2>. QED  BY <1>2, <2>1, <2>2, <2>3, <2>4, <2>5 DEF ListOK
<1>. QED  BY <1>1, <1>2, RestIsList, ToSetEmpty

LEMMA UpdateList ==
  ASSUME NEW a \in Obj, NEW f \in Slot, NEW o \in Target,
         NEW s, s = <<Call("inc", o), DecField(a, f), Assignment(a, f, o)>>
  PROVE  /\ ListOK(s) /\ s # <<>> /\ Head(s) = Call("inc", o) /\ Len(s) = 3
         /\ ToSet(s) = {Call("inc", o), DecField(a, f), Assignment(a, f, o)}
<1>1. /\ Call("inc", o) \in RefCalls /\ DecField(a, f) \in RefCalls /\ Assignment(a, f, o) \in RefCalls
      /\ Call("inc", o).op = "inc" /\ DecField(a, f).op = "decfield"
      /\ Assignment(a, f, o).op = "assign" /\ Call("inc", o).obj = o
  BY CallFields
<1>2. PICK c1, c2, c3 \in RefCalls :
        c1 = Call("inc", o) /\ c2 = DecField(a, f) /\ c3 = Assignment(a, f, o)
  BY <1>1
<1>3. s = <<c1, c2, c3>>
  BY <1>2
<1>4. /\ s \in Seq(RefCalls) /\ Len(s) = 3 /\ s[1] = c1 /\ s[2] = c2 /\ s[3] = c3
      /\ s # <<>> /\ Head(s) = c1
  BY <1>3
<1>5. c1.op = "inc" /\ c2.op = "decfield" /\ c3.op = "assign"
  BY <1>1, <1>2
<1>6. \A q \in 1 .. Len(s) : q = 1 \/ q = 2 \/ q = 3
  BY <1>4
<1>7. DOMAIN s = 1 .. 3
  BY <1>3
<1>8. IsInjective(s)
  BY <1>4, <1>5, <1>6, <1>7 DEF IsInjective
<1>9. ToSet(s) = {c1, c2, c3}
  BY <1>4, <1>6, <1>7 DEF ToSet
<1>10. InOrder(s)
  BY <1>4, <1>5, <1>6, <1>8 DEF InOrder
<1>11. \A q \in 1 .. Len(s) : Counts(s[q]) => q = 1
  BY <1>4, <1>5, <1>6 DEF Counts
<1>12. ListOK(s)
  BY <1>10, <1>11 DEF ListOK, Moves
<1>. QED  BY <1>2, <1>4, <1>9, <1>12

(***************************************************************************)
(* The references an object's count stands for.                            *)
(***************************************************************************)
Assigning(P, a, f) == \E c \in P : c.op = "assign" /\ c.to = a /\ c.field = f

(* The call with the calls P left releases field f of a; it has done so    *)
(* already, and the field no longer counts for the object it refers to.    *)
Releasing(P, a, f) == Call("free", a) \in P \/ Assigning(P, a, f)
Released(P, a, f) == Releasing(P, a, f) /\ DecField(a, f) \notin P
Void(a, f) == \E t \in Thread : Released(Pending(t), a, f)

(* A thread owns o and has counted that; is about to take a count off; is  *)
(* about to put o in a field and has counted that.                         *)
Owns(t, o) == o \in held[t] /\ left[t] # <<Call("inc", o)>>
Drops(t, o) == left[t] # <<>> /\ Head(left[t]) = Call("dec", o)
Puts(t, o) == /\ left[t] # <<>> /\ Head(left[t]).op # "inc"
              /\ \E c \in Pending(t) : c.op = "assign" /\ c.obj = o

Owning(o) == {t \in Thread : Owns(t, o)}
Dropping(o) == {t \in Thread : Drops(t, o)}
Putting(o) == {t \in Thread : Puts(t, o)}
Links(o) == {b \in alloc \X Slot : child[b[1]][b[2]] = o /\ ~Void(b[1], b[2])}

Count(o) == Cardinality(Owning(o)) + Cardinality(Dropping(o)) + Cardinality(Putting(o))
            + Cardinality(Links(o))

(***************************************************************************)
(* The invariant.                                                          *)
(***************************************************************************)
Types ==
    /\ ref \in [Obj -> Int] /\ alloc \in SUBSET Obj
    /\ child \in [Obj -> [Slot -> Target]]
    /\ held \in [Thread -> SUBSET Obj]
    /\ left = [t \in Thread |-> left[t]]
    /\ loaded \in [Thread -> Int]

Lists == \A t \in Thread : ListOK(left[t])

Exact == \A o \in Obj : Count(o) = IF o \in alloc THEN ref[o] ELSE 0

FreshBlank == \A o \in Obj \ alloc : \A f \in Slot : child[o][f] = NOOBJ

(* An object about to be counted stays until it is.                        *)
Kept(t, o) ==
    /\ o \in held[t]
    /\ \/ Len(left[t]) = 3
       \/ \E u \in Thread \ {t} : Owns(u, o)
       \/ \E a \in held[t] \ {o}, f \in Slot : child[a][f] = o /\ ~Assigned(a, f)

Lending == \A t \in Thread : Doing(t, "inc") /\ Object(t) \in Obj => Kept(t, Object(t))

Frees(t, o) == Call("free", o) \in Pending(t)
Tests(t, o) == left[t] # <<>> /\ Head(left[t]) = Call("test", o)

(* An object is freed by one thread, and not while another looks at it.    *)
Dying ==
    /\ \A t \in Thread, o \in Obj : Frees(t, o) =>
          /\ o \in alloc /\ ref[o] = 0
          /\ \A u \in Thread : ~Tests(u, o) /\ (Frees(u, o) => u = t)
    /\ \A t \in Thread, o \in Obj : Tests(t, o) => o \in alloc

(* Fields are released by a thread that assigns them or frees the object.  *)
Assignments ==
    /\ \A t \in Thread, a \in Obj, f \in Slot : Assigning(Pending(t), a, f) =>
          /\ a \in held[t]
          /\ \A u \in Thread : Assigning(Pending(u), a, f) => u = t
    /\ \A t \in Thread, a \in Obj, f \in Slot :
          DecField(a, f) \in Pending(t) => Releasing(Pending(t), a, f)

(* Nobody comes between a load and its store and test.                     *)
Middle(t, o) == (loaded[t] # NOTHING /\ Object(t) = o) \/ Tests(t, o)

Apart ==
    /\ \A t \in Thread : loaded[t] # NOTHING =>
          /\ Doing(t, "inc") \/ Doing(t, "dec")
          /\ Object(t) \in Obj /\ loaded[t] = ref[Object(t)]
    /\ \A t \in Thread, u \in Thread, o \in Obj : Middle(t, o) /\ Middle(u, o) => t = u

Inv == Types /\ Lists /\ Exact /\ FreshBlank /\ Lending /\ Dying /\ Assignments /\ Apart

IInv == raced \/ Inv

-----------------------------------------------------------------------------
(* Counting.                                                               *)
One(p) == IF p THEN 1 ELSE 0

LEMMA CardChange ==
  ASSUME NEW S, IsFiniteSet(S), NEW A \in SUBSET S, NEW B \in SUBSET S,
         NEW t, A \ {t} = B \ {t}
  PROVE  /\ Cardinality(A) \in Nat /\ Cardinality(B) \in Nat
         /\ Cardinality(B) = Cardinality(A) + One(t \in B) - One(t \in A)
<1>1. IsFiniteSet(A) /\ IsFiniteSet(B) /\ IsFiniteSet(A \ {t})
  BY FS_Subset
<1>2. Cardinality(A) \in Nat /\ Cardinality(B) \in Nat /\ Cardinality(A \ {t}) \in Nat
  BY <1>1, FS_CardinalityType
<1>3. Cardinality(A \ {t}) = IF t \in A THEN Cardinality(A) - 1 ELSE Cardinality(A)
  BY <1>1, FS_RemoveElement
<1>4. Cardinality(B \ {t}) = IF t \in B THEN Cardinality(B) - 1 ELSE Cardinality(B)
  BY <1>1, FS_RemoveElement
<1>. QED  BY <1>2, <1>3, <1>4 DEF One

LEMMA CardSome ==
  ASSUME NEW S, IsFiniteSet(S), NEW A \in SUBSET S
  PROVE  Cardinality(A) \in Nat /\ (A # {} => Cardinality(A) \in Nat \ {0})
<1>1. IsFiniteSet(A)
  BY FS_Subset
<1>. QED  BY <1>1, FS_CardinalityType, FS_EmptySet

LEMMA CountIs ==
  ASSUME Types, NEW o
  PROVE  /\ Cardinality(Owning(o)) \in Nat /\ Cardinality(Dropping(o)) \in Nat
         /\ Cardinality(Putting(o)) \in Nat /\ Cardinality(Links(o)) \in Nat
         /\ Owning(o) # {} \/ Dropping(o) # {} \/ Putting(o) # {} \/ Links(o) # {}
              <=> Count(o) # 0
         /\ Count(o) \in Nat
<1>1. IsFiniteSet(Thread) /\ IsFiniteSet(Obj \X Slot)
  BY FS_Product, RefcountAssumption
<1>2. /\ Owning(o) \in SUBSET Thread /\ Dropping(o) \in SUBSET Thread
      /\ Putting(o) \in SUBSET Thread /\ Links(o) \in SUBSET (Obj \X Slot)
  BY DEF Owning, Dropping, Putting, Links, Types
<1>3. Cardinality(Owning(o)) \in Nat /\ (Owning(o) # {} <=> Cardinality(Owning(o)) # 0)
  BY <1>1, <1>2, CardSome, FS_EmptySet
<1>4. Cardinality(Dropping(o)) \in Nat /\ (Dropping(o) # {} <=> Cardinality(Dropping(o)) # 0)
  BY <1>1, <1>2, CardSome, FS_EmptySet
<1>5. Cardinality(Putting(o)) \in Nat /\ (Putting(o) # {} <=> Cardinality(Putting(o)) # 0)
  BY <1>1, <1>2, CardSome, FS_EmptySet
<1>6. Cardinality(Links(o)) \in Nat /\ (Links(o) # {} <=> Cardinality(Links(o)) # 0)
  BY <1>1, <1>2, CardSome, FS_EmptySet
<1>7. ASSUME NEW j \in Nat, NEW k \in Nat, NEW m \in Nat, NEW n \in Nat
      PROVE  /\ j + k + m + n \in Nat
             /\ j + k + m + n # 0 <=> j # 0 \/ k # 0 \/ m # 0 \/ n # 0
  OBVIOUS
<1>8. /\ Count(o) \in Nat
      /\ Count(o) # 0 <=> \/ Cardinality(Owning(o)) # 0 \/ Cardinality(Dropping(o)) # 0
                         \/ Cardinality(Putting(o)) # 0 \/ Cardinality(Links(o)) # 0
  BY <1>3, <1>4, <1>5, <1>6, <1>7 DEF Count
<1>. QED  BY <1>3, <1>4, <1>5, <1>6, <1>8

(* What holds of an object that something counts for.                      *)
Live(o) == o \in alloc /\ ref[o] \in Nat \ {0} /\ \A u \in Thread : ~Frees(u, o)

LEMMA CountedLives ==
  ASSUME Inv, NEW o \in Obj,
         \/ \E t \in Thread : Owns(t, o) \/ Drops(t, o) \/ Puts(t, o)
         \/ Links(o) # {}
  PROVE  Live(o)
<1>1. Owning(o) # {} \/ Dropping(o) # {} \/ Putting(o) # {} \/ Links(o) # {}
  BY DEF Owning, Dropping, Putting
<1>2. Count(o) \in Nat \ {0}
  BY <1>1, CountIs DEF Inv
<1>3. o \in alloc /\ ref[o] \in Nat \ {0}
  BY <1>2 DEF Inv, Exact
<1>. QED  BY <1>3 DEF Live, Inv, Dying

(* A field that no call has released or is about to.                       *)
LEMMA FieldLives ==
  ASSUME Inv, NEW a \in alloc, \A u \in Thread : ~Frees(u, a), NEW f \in Slot,
         ~Assigned(a, f), child[a][f] # NOOBJ
  PROVE  child[a][f] \in Obj /\ Live(child[a][f])
<1>1. ~Void(a, f)
  BY DEF Void, Released, Releasing, Assigning, Assigned, Frees
<1>2. child[a][f] \in Obj
  BY DEF Inv, Types, Target
<1>3. <<a, f>> \in Links(child[a][f])
  BY <1>1 DEF Links
<1>. QED  BY <1>2, <1>3, CountedLives

LEMMA HeadCall ==
  ASSUME Lists, NEW t \in Thread, left[t] # <<>>
  PROVE  /\ Head(left[t]) \in RefCalls /\ Head(left[t]) \in Pending(t)
         /\ Head(left[t]) = Call("inc", Object(t)) \/ Head(left[t]).op # "inc"
<1>1. ListOK(left[t])
  BY DEF Lists
<1>2. PICK r : r = Tail(left[t])
  OBVIOUS
<1>3. Head(left[t]) \in RefCalls /\ ToSet(left[t]) = {Head(left[t])} \cup ToSet(r)
  BY <1>1, <1>2, RestAfter
<1>. QED  BY <1>3, CallKinds DEF Pending, Object

LEMMA IncLives ==
  ASSUME Inv, NEW t \in Thread, Doing(t, "inc"), Object(t) \in Obj
  PROVE  Live(Object(t))
<1>. DEFINE o == Object(t)
            s == left[t]
<1>1. Kept(t, o)
  BY DEF Inv, Lending
<1>2. /\ s # <<>> /\ Head(s) = Call("inc", o)
      /\ s = <<Call("inc", o)>> \/ Len(s) = 3
  <2>1. s # <<>> /\ Head(s) = Call("inc", o) /\ Head(s).op = "inc" /\ ListOK(s)
    BY HeadCall DEF Inv, Doing, Lists
  <2>2. Moves(s) => Len(s) = 3
    BY DEF Moves
  <2>. QED  BY <2>1, <2>2 DEF ListOK, Object
<1>3. CASE Len(s) = 3 /\ o \in held[t]
  <2>1. s # <<Call("inc", o)>>
    BY <1>3
  <2>. QED  BY <1>3, <2>1, CountedLives DEF Owns
<1>4. CASE \E u \in Thread \ {t} : Owns(u, o)
  BY <1>4, CountedLives
<1>5. ASSUME NEW a \in held[t] \ {o}, NEW f \in Slot, child[a][f] = o, ~Assigned(a, f)
      PROVE  Live(o)
  <2>1. a \in Obj
    BY DEF Inv, Types
  <2>2. s # <<Call("inc", a)>>
    <3>1. ASSUME s = <<Call("inc", a)>>  PROVE FALSE
      <4>1. Head(s) = Call("inc", a)
        BY <3>1
      <4>. QED  BY <1>2, <4>1, CallFields
    <3>. QED  BY <3>1
  <2>3. Live(a)
    BY <2>1, <2>2, CountedLives DEF Owns
  <2>4. o # NOOBJ
    BY RefcountAssumption
  <2>. QED  BY <1>5, <2>3, <2>4, FieldLives DEF Live
<1>. QED  BY <1>1, <1>3, <1>4, <1>5 DEF Kept

LEMMA DecLives ==
  ASSUME Inv, NEW t \in Thread, Doing(t, "dec"), Object(t) \in Obj
  PROVE  Live(Object(t)) /\ Drops(t, Object(t))
<1>1. Head(left[t]) \in RefCalls /\ left[t] # <<>>
  BY HeadCall DEF Doing, Inv
<1>2. Drops(t, Object(t))
  BY <1>1, CallKinds DEF Drops, Doing, Object
<1>. QED  BY <1>2, CountedLives

LEMMA HeldLives ==
  ASSUME Inv, NEW t \in Thread, NEW o \in held[t]
  PROVE  o \in Obj /\ Live(o)
<1>1. o \in Obj
  BY DEF Inv, Types
<1>2. CASE left[t] = <<Call("inc", o)>>
  <2>1. left[t] # <<>> /\ Head(left[t]) = Call("inc", o)
    BY <1>2
  <2>2. Doing(t, "inc") /\ Object(t) = o
    BY <2>1, CallFields DEF Doing, Object
  <2>. QED  BY <1>1, <2>2, IncLives
<1>3. CASE left[t] # <<Call("inc", o)>>
  BY <1>1, <1>3, CountedLives DEF Owns
<1>. QED  BY <1>1, <1>2, <1>3

-----------------------------------------------------------------------------
(* What a step of one thread leaves of its call.                           *)
Others(t) == \A u \in Thread \ {t} :
                held'[u] = held[u] /\ left'[u] = left[u] /\ loaded'[u] = loaded[u]

Laters(P) == {c \in P : c.op \in {"decfield", "free", "assign"}}

LEMMA LatersMatter ==
  ASSUME NEW P, NEW Q, Laters(P) = Laters(Q)
  PROVE  /\ \A a, f : Assigning(P, a, f) <=> Assigning(Q, a, f)
         /\ \A a, f : Releasing(P, a, f) <=> Releasing(Q, a, f)
         /\ \A a, f : Released(P, a, f) <=> Released(Q, a, f)
         /\ \A a : Call("free", a) \in P <=> Call("free", a) \in Q
         /\ \A a, f : DecField(a, f) \in P <=> DecField(a, f) \in Q
         /\ \A o : (\E c \in P : c.op = "assign" /\ c.obj = o)
                     <=> (\E c \in Q : c.op = "assign" /\ c.obj = o)
<1>1. \A c : c.op \in {"decfield", "free", "assign"} => (c \in P <=> c \in Q)
  BY DEF Laters
<1>2. \A a, f : Assigning(P, a, f) <=> Assigning(Q, a, f)
  BY <1>1 DEF Assigning
<1>3. \A a : Call("free", a) \in P <=> Call("free", a) \in Q
  BY <1>1, CallFields
<1>4. \A a, f : DecField(a, f) \in P <=> DecField(a, f) \in Q
  BY <1>1, CallFields
<1>5. \A a, f : Releasing(P, a, f) <=> Releasing(Q, a, f)
  BY <1>2, <1>3 DEF Releasing
<1>6. \A a, f : Released(P, a, f) <=> Released(Q, a, f)
  BY <1>4, <1>5 DEF Released
<1>. QED  BY <1>1, <1>2, <1>3, <1>4, <1>5, <1>6

LEMMA ProceedsTo ==
  ASSUME Types, NEW t \in Thread, NEW calling, Proceeds(t, calling)
  PROVE  /\ left' = [u \in Thread |-> left'[u]]
         /\ left'[t] = calling \o Tail(left[t])
         /\ \A u \in Thread \ {t} : left'[u] = left[u]
BY DEF Proceeds, Types

LEMMA Popped ==
  ASSUME Types, Lists, NEW t \in Thread, left[t] # <<>>, Proceeds(t, <<>>)
  PROVE  /\ RestOK(left'[t])
         /\ Pending(t)' = Pending(t) \ {Head(left[t])}
         /\ Head(left[t]).op = "free" =>
               \A f : DecField(Head(left[t]).obj, f) \notin Pending(t)'
         /\ Head(left[t]).op = "assign" => left'[t] = <<>>
         /\ Counts(Head(left[t])) => Laters(Pending(t)') = Laters(Pending(t))
<1>1. PICK r : r = Tail(left[t])
  OBVIOUS
<1>2. ListOK(left[t])
  BY DEF Lists
<1>3. /\ RestOK(r)
      /\ ToSet(left[t]) = {Head(left[t])} \cup ToSet(r) /\ Head(left[t]) \notin ToSet(r)
      /\ Head(left[t]).op = "free" => \A c \in ToSet(r) : ~ReleasesOf(c, Head(left[t]).obj)
      /\ Head(left[t]).op = "assign" => r = <<>>
  BY <1>1, <1>2, RestAfter
<1>4. left'[t] = r
  <2>1. r \in Seq(RefCalls)
    BY <1>3 DEF RestOK, InOrder
  <2>2. <<>> \o r = r
    BY <2>1
  <2>. QED  BY <1>1, <2>2, ProceedsTo
<1>5. Pending(t)' = Pending(t) \ {Head(left[t])}
  BY <1>3, <1>4 DEF Pending
<1>6. Head(left[t]).op = "free" => \A f : DecField(Head(left[t]).obj, f) \notin Pending(t)'
  BY <1>3, <1>4, CallFields DEF Pending, ReleasesOf
<1>7. Counts(Head(left[t])) => Laters(Pending(t)') = Laters(Pending(t))
  BY <1>5 DEF Laters, Counts
<1>. QED  BY <1>3, <1>4, <1>5, <1>6, <1>7

LEMMA Replaced ==
  ASSUME Types, Lists, NEW t \in Thread, left[t] # <<>>,
         NEW c \in RefCalls, c.op \in {"dec", "test"}, Proceeds(t, <<c>>)
  PROVE  /\ ListOK(left'[t]) /\ left'[t] # <<>> /\ Head(left'[t]) = c
         /\ Pending(t)' = (Pending(t) \ {Head(left[t])}) \cup {c}
         /\ Counts(Head(left[t])) => Laters(Pending(t)') = Laters(Pending(t))
<1>1. PICK r : r = Tail(left[t])
  OBVIOUS
<1>2. ListOK(left[t])
  BY DEF Lists
<1>3. /\ RestOK(r)
      /\ ToSet(left[t]) = {Head(left[t])} \cup ToSet(r) /\ Head(left[t]) \notin ToSet(r)
  BY <1>1, <1>2, RestAfter
<1>4. PICK s : s = <<c>> \o r
  OBVIOUS
<1>5. left'[t] = s
  BY <1>1, <1>4, ProceedsTo
<1>6. ListOK(s) /\ s # <<>> /\ Head(s) = c /\ ToSet(s) = {c} \cup ToSet(r)
  BY <1>3, <1>4, CountNext
<1>7. Pending(t)' = (Pending(t) \ {Head(left[t])}) \cup {c}
  BY <1>3, <1>5, <1>6 DEF Pending
<1>8. Counts(Head(left[t])) => Laters(Pending(t)') = Laters(Pending(t))
  BY <1>7 DEF Laters, Counts
<1>. QED  BY <1>5, <1>6, <1>7, <1>8

-----------------------------------------------------------------------------
(* How a step of one thread changes the counts.                            *)
LEMMA Counted ==
  ASSUME Types, Types', NEW t \in Thread, Others(t), NEW o
  PROVE  /\ Count(o) \in Nat /\ Count(o)' \in Nat
         /\ Cardinality(Links(o)) \in Nat /\ Cardinality(Links(o)') \in Nat
         /\ Count(o)' - Count(o) = (One(Owns(t, o)') - One(Owns(t, o)))
                                 + (One(Drops(t, o)') - One(Drops(t, o)))
                                 + (One(Puts(t, o)') - One(Puts(t, o)))
                                 + (Cardinality(Links(o)') - Cardinality(Links(o)))
<1>1. /\ Cardinality(Owning(o)) \in Nat /\ Cardinality(Dropping(o)) \in Nat
      /\ Cardinality(Putting(o)) \in Nat /\ Cardinality(Links(o)) \in Nat
  BY CountIs
<1>2. Cardinality(Links(o)') \in Nat
  <2>1. IsFiniteSet(Obj \X Slot) /\ Links(o)' \in SUBSET (Obj \X Slot)
    BY FS_Product, RefcountAssumption DEF Links, Types
  <2>. QED  BY <2>1, CardSome
<1>3. IsFiniteSet(Thread)
  BY RefcountAssumption
<1>4. \A u \in Thread \ {t} : /\ Owns(u, o)' <=> Owns(u, o)
                              /\ Drops(u, o)' <=> Drops(u, o)
                              /\ Puts(u, o)' <=> Puts(u, o)
  BY DEF Others, Owns, Drops, Puts, Pending
<1>5. /\ Cardinality(Owning(o)') \in Nat
      /\ Cardinality(Owning(o)') = Cardinality(Owning(o)) + One(Owns(t, o)') - One(Owns(t, o))
  <2>1. Owning(o) \in SUBSET Thread /\ Owning(o)' \in SUBSET Thread
    BY DEF Owning
  <2>2. Owning(o) \ {t} = Owning(o)' \ {t}
    BY <1>4 DEF Owning
  <2>3. (t \in Owning(o) <=> Owns(t, o)) /\ (t \in Owning(o)' <=> Owns(t, o)')
    BY DEF Owning
  <2>4. Cardinality(Owning(o)') \in Nat /\ Cardinality(Owning(o)')
          = Cardinality(Owning(o)) + One(t \in Owning(o)') - One(t \in Owning(o))
    BY <1>3, <2>1, <2>2, CardChange
  <2>. QED  BY <2>3, <2>4 DEF One
<1>6. /\ Cardinality(Dropping(o)') \in Nat
      /\ Cardinality(Dropping(o)')
           = Cardinality(Dropping(o)) + One(Drops(t, o)') - One(Drops(t, o))
  <2>1. Dropping(o) \in SUBSET Thread /\ Dropping(o)' \in SUBSET Thread
    BY DEF Dropping
  <2>2. Dropping(o) \ {t} = Dropping(o)' \ {t}
    BY <1>4 DEF Dropping
  <2>3. (t \in Dropping(o) <=> Drops(t, o)) /\ (t \in Dropping(o)' <=> Drops(t, o)')
    BY DEF Dropping
  <2>4. Cardinality(Dropping(o)') \in Nat /\ Cardinality(Dropping(o)')
          = Cardinality(Dropping(o)) + One(t \in Dropping(o)') - One(t \in Dropping(o))
    BY <1>3, <2>1, <2>2, CardChange
  <2>. QED  BY <2>3, <2>4 DEF One
<1>7. /\ Cardinality(Putting(o)') \in Nat
      /\ Cardinality(Putting(o)') = Cardinality(Putting(o)) + One(Puts(t, o)') - One(Puts(t, o))
  <2>1. Putting(o) \in SUBSET Thread /\ Putting(o)' \in SUBSET Thread
    BY DEF Putting
  <2>2. Putting(o) \ {t} = Putting(o)' \ {t}
    BY <1>4 DEF Putting
  <2>3. (t \in Putting(o) <=> Puts(t, o)) /\ (t \in Putting(o)' <=> Puts(t, o)')
    BY DEF Putting
  <2>4. Cardinality(Putting(o)') \in Nat /\ Cardinality(Putting(o)')
          = Cardinality(Putting(o)) + One(t \in Putting(o)') - One(t \in Putting(o))
    BY <1>3, <2>1, <2>2, CardChange
  <2>. QED  BY <2>3, <2>4 DEF One
<1>8. One(Owns(t, o)) \in Nat /\ One(Owns(t, o)') \in Nat /\ One(Drops(t, o)) \in Nat
      /\ One(Drops(t, o)') \in Nat /\ One(Puts(t, o)) \in Nat /\ One(Puts(t, o)') \in Nat
  BY DEF One
<1>9. /\ Count(o) = Cardinality(Owning(o)) + Cardinality(Dropping(o)) + Cardinality(Putting(o))
                    + Cardinality(Links(o))
      /\ Count(o)' = Cardinality(Owning(o)') + Cardinality(Dropping(o)')
                     + Cardinality(Putting(o)') + Cardinality(Links(o)')
  BY DEF Count
<1>. QED  BY <1>1, <1>2, <1>5, <1>6, <1>7, <1>8, <1>9

Changes(t, o, n) == (One(Owns(t, o)') - One(Owns(t, o)))
                    + (One(Drops(t, o)') - One(Drops(t, o)))
                    + (One(Puts(t, o)') - One(Puts(t, o)))
                    + (Cardinality(Links(o)') - Cardinality(Links(o))) = n

LEMMA ExactStep ==
  ASSUME Types', Inv, NEW t \in Thread, Others(t),
         \A o \in Obj : Changes(t, o, (IF o \in alloc' THEN ref'[o] ELSE 0)
                                        - (IF o \in alloc THEN ref[o] ELSE 0))
  PROVE  Exact'
<1>. SUFFICES ASSUME NEW o \in Obj
              PROVE  Count(o)' = IF o \in alloc' THEN ref'[o] ELSE 0
  BY DEF Exact
<1>. DEFINE m == IF o \in alloc THEN ref[o] ELSE 0
            n == IF o \in alloc' THEN ref'[o] ELSE 0
<1>1. m \in Int /\ n \in Int
  BY DEF Inv, Types
<1>2. Count(o) \in Nat /\ Count(o)' \in Nat /\ Changes(t, o, Count(o)' - Count(o))
  BY Counted DEF Inv, Changes
<1>3. Count(o) = m
  BY DEF Inv, Exact
<1>4. Changes(t, o, n - m)
  OBVIOUS
<1>. HIDE DEF m, n
<1>5. Count(o)' - Count(o) = n - m
  BY <1>2, <1>4 DEF Changes
<1>. QED  BY <1>1, <1>2, <1>3, <1>5 DEF n

LEMMA NoInc ==
  ASSUME NEW s, s # <<>> => Head(s).op # "inc"
  PROVE  \A o : s # <<Call("inc", o)>>
<1>. SUFFICES ASSUME NEW o, s = <<Call("inc", o)>>  PROVE FALSE
  OBVIOUS
<1>1. s # <<>> /\ Head(s) = Call("inc", o)
  OBVIOUS
<1>. QED  BY <1>1, CallFields

(* The weights of a thread that is not about to count.                     *)
LEMMA Weights ==
  ASSUME NEW t, left[t] # <<>> => Head(left[t]).op # "inc"
  PROVE  \A o : /\ Owns(t, o) <=> o \in held[t]
                /\ Puts(t, o) <=> \E c \in Pending(t) : c.op = "assign" /\ c.obj = o
<1>1. \A o : left[t] # <<Call("inc", o)>>
  BY NoInc
<1>2. left[t] = <<>> => Pending(t) = {}
  BY ToSetEmpty DEF Pending
<1>. QED  BY <1>1, <1>2 DEF Owns, Puts

LEMMA WeightsNext ==
  ASSUME NEW t, left'[t] # <<>> => Head(left'[t]).op # "inc"
  PROVE  \A o : /\ Owns(t, o)' <=> o \in held'[t]
                /\ Puts(t, o)' <=> \E c \in Pending(t)' : c.op = "assign" /\ c.obj = o
<1>1. \A o : left'[t] # <<Call("inc", o)>>
  BY NoInc
<1>2. left'[t] = <<>> => Pending(t)' = {}
  BY ToSetEmpty DEF Pending
<1>. QED  BY <1>1, <1>2 DEF Owns, Puts

LEMMA VoidStep ==
  ASSUME NEW t \in Thread, Others(t), NEW a, NEW f,
         Released(Pending(t)', a, f) <=> Released(Pending(t), a, f)
  PROVE  Void(a, f)' <=> Void(a, f)
<1>1. \A u \in Thread \ {t} : Pending(u)' = Pending(u)
  BY DEF Others, Pending
<1>2. \A u \in Thread : Released(Pending(u)', a, f) <=> Released(Pending(u), a, f)
  BY <1>1
<1>3. Void(a, f)' <=> \E u \in Thread : Released(Pending(u)', a, f)
  BY DEF Void, Released, Releasing, Assigning
<1>. QED  BY <1>2, <1>3 DEF Void

LEMMA LinksSame ==
  ASSUME Types, alloc' = alloc, child' = child,
         \A a \in Obj, f \in Slot : Void(a, f)' <=> Void(a, f)
  PROVE  \A o : Links(o)' = Links(o)
<1>. SUFFICES ASSUME NEW o  PROVE Links(o)' = Links(o)
  OBVIOUS
<1>1. \A b \in alloc \X Slot : Void(b[1], b[2])' <=> Void(b[1], b[2])
  BY DEF Types
<1>. QED  BY <1>1 DEF Links

(* A thread in a call takes no object from another that is to be counted.  *)
LEMMA LendingStep ==
  ASSUME Inv, NEW t \in Thread, Others(t), held' = held,
         left'[t] # <<>> => Head(left'[t]).op # "inc",
         \A a \in Obj, f \in Slot : Assigned(a, f)' => Assigned(a, f),
         \A a \in Obj, f \in Slot : \/ child'[a][f] = child[a][f] \/ Assigned(a, f)
                                     \/ \E u \in Thread : Frees(u, a)
  PROVE  Lending'
<1>. SUFFICES ASSUME NEW u \in Thread, Doing(u, "inc")', Object(u)' \in Obj
              PROVE  Kept(u, Object(u))'
  BY DEF Lending
<1>1. u # t
  BY DEF Doing
<1>2. left'[u] = left[u] /\ held'[u] = held[u]
  BY <1>1 DEF Others
<1>3. PICK o \in Obj : o = Object(u) /\ o = Object(u)'
  BY <1>2 DEF Object
<1>4. Doing(u, "inc") /\ Kept(u, o)
  BY <1>2, <1>3 DEF Doing, Inv, Lending
<1>5. \A x : left'[t] # <<Call("inc", x)>>
  BY NoInc
<1>6. CASE Len(left[u]) = 3
  BY <1>2, <1>3, <1>4, <1>6 DEF Kept
<1>7. ASSUME NEW v \in Thread \ {u}, Owns(v, o)  PROVE Kept(u, o)'
  <2>1. Owns(v, o)'
    BY <1>5, <1>7 DEF Owns, Others
  <2>. QED  BY <1>2, <1>4, <2>1 DEF Kept
<1>8. ASSUME NEW a \in held[u] \ {o}, NEW f \in Slot, child[a][f] = o, ~Assigned(a, f)
      PROVE  Kept(u, o)'
  <2>1. a \in Obj /\ Live(a)
    BY HeldLives
  <2>2. child'[a][f] = o /\ ~Assigned(a, f)'
    BY <1>8, <2>1 DEF Live
  <2>. QED  BY <1>2, <1>4, <1>8, <2>2 DEF Kept
<1>9. Kept(u, o)'
  BY <1>2, <1>4, <1>6, <1>7, <1>8 DEF Kept
<1>. QED  BY <1>3, <1>9

LEMMA AssignedStep ==
  ASSUME NEW t \in Thread, Others(t), NEW a, NEW f,
         Assigning(Pending(t)', a, f) => Assigning(Pending(t), a, f)
  PROVE  Assigned(a, f)' => Assigned(a, f)
<1>1. \A u \in Thread \ {t} : Pending(u)' = Pending(u)
  BY DEF Others, Pending
<1>2. Assigned(a, f)' => \E u \in Thread : Assigning(Pending(u)', a, f)
  BY DEF Assigned, Assigning
<1>3. (\E u \in Thread : Assigning(Pending(u), a, f)) => Assigned(a, f)
  BY DEF Assigned, Assigning
<1>. QED  BY <1>1, <1>2, <1>3

LEMMA AssignmentsStep ==
  ASSUME Inv, NEW t \in Thread, Others(t), held' = held,
         \A a \in Obj, f \in Slot : Assigning(Pending(t)', a, f) => Assigning(Pending(t), a, f),
         \A a \in Obj, f \in Slot : DecField(a, f) \in Pending(t)' => Releasing(Pending(t)', a, f)
  PROVE  Assignments'
<1>1. \A u \in Thread \ {t} : Pending(u)' = Pending(u)
  BY DEF Others, Pending
<1>2. \A u \in Thread, a \in Obj, f \in Slot :
         Assigning(Pending(u)', a, f) => Assigning(Pending(u), a, f)
  BY <1>1
<1>3. ASSUME NEW u \in Thread, NEW a \in Obj, NEW f \in Slot, Assigning(Pending(u)', a, f)
      PROVE  a \in held'[u] /\ \A v \in Thread : Assigning(Pending(v)', a, f) => v = u
  BY <1>2, <1>3 DEF Inv, Assignments
<1>4. \A u \in Thread, a \in Obj, f \in Slot :
         DecField(a, f) \in Pending(u)' => Releasing(Pending(u)', a, f)
  BY <1>1 DEF Inv, Assignments
<1>. QED  BY <1>3, <1>4 DEF Assignments, Assigning, Releasing

LEMMA ListsStep ==
  ASSUME Lists, NEW t \in Thread, Others(t), ListOK(left'[t])
  PROVE  Lists'
<1>1. \A u \in Thread : ListOK(left'[u])
  BY DEF Lists, Others
<1>. QED  BY <1>1 DEF Lists, ListOK, InOrder, Moves

LEMMA ApartStep ==
  ASSUME Inv, NEW t \in Thread, Others(t), loaded'[t] = NOTHING,
         \A o \in Obj : Tests(t, o)' => Middle(t, o),
         \A u \in Thread \ {t} : loaded[u] # NOTHING => ref'[Object(u)] = ref[Object(u)]
  PROVE  Apart'
<1>1. \A u \in Thread \ {t} : /\ left'[u] = left[u] /\ loaded'[u] = loaded[u]
                              /\ Object(u)' = Object(u)
  BY DEF Others, Object
<1>2. \A u \in Thread, o \in Obj : Middle(u, o)' => Middle(u, o)
  BY <1>1 DEF Middle, Tests
<1>3. ASSUME NEW u \in Thread, loaded'[u] # NOTHING
      PROVE  /\ Doing(u, "inc")' \/ Doing(u, "dec")'
             /\ Object(u)' \in Obj /\ loaded'[u] = ref'[Object(u)']
  <2>1. u # t
    BY <1>3
  <2>. QED  BY <1>1, <1>3, <2>1 DEF Inv, Apart, Doing
<1>4. \A u \in Thread, v \in Thread, o \in Obj : Middle(u, o)' /\ Middle(v, o)' => u = v
  BY <1>2 DEF Inv, Apart
<1>. QED  BY <1>3, <1>4 DEF Apart

LEMMA DyingStep ==
  ASSUME Inv, NEW t \in Thread, Others(t),
         \A o \in Obj : Frees(t, o)' => Frees(t, o),
         \A u \in Thread, o \in Obj : Frees(u, o)' => o \in alloc' /\ ref'[o] = 0,
         \A o \in Obj : Tests(t, o)' => o \in alloc' /\ \A u \in Thread : ~Frees(u, o),
         \A u \in Thread \ {t}, o \in Obj : Tests(u, o) => o \in alloc'
  PROVE  Dying'
<1>1. \A u \in Thread \ {t}, o \in Obj : /\ Frees(u, o)' <=> Frees(u, o)
                                         /\ Tests(u, o)' <=> Tests(u, o)
  BY DEF Others, Frees, Tests, Pending
<1>2. \A u \in Thread, o \in Obj : Frees(u, o)' => Frees(u, o)
  BY <1>1
<1>3. \A u \in Thread, o \in Obj :
         Tests(u, o)' => o \in alloc' /\ \A v \in Thread : ~Frees(v, o)'
  <2>. SUFFICES ASSUME NEW u \in Thread, NEW o \in Obj, Tests(u, o)'
                PROVE  o \in alloc' /\ \A v \in Thread : ~Frees(v, o)'
    OBVIOUS
  <2>1. CASE u = t
    BY <1>2, <2>1
  <2>2. CASE u # t
    BY <1>1, <1>2, <2>2 DEF Inv, Dying
  <2>. QED  BY <2>1, <2>2
<1>4. \A u \in Thread, v \in Thread, o \in Obj : Frees(u, o)' /\ Frees(v, o)' => u = v
  BY <1>2 DEF Inv, Dying
<1>. QED  BY <1>3, <1>4 DEF Dying

(* A step that changes counts and nothing else.                            *)
LEMMA QuietStep ==
  ASSUME Inv, NEW t \in Thread, Others(t),
         held' = held, alloc' = alloc, child' = child,
         ListOK(left'[t]), left'[t] # <<>> => Head(left'[t]).op # "inc",
         Laters(Pending(t)') = Laters(Pending(t))
  PROVE  /\ Lists' /\ FreshBlank' /\ Lending' /\ Assignments'
         /\ \A o : Links(o)' = Links(o)
         /\ \A u \in Thread, o \in Obj : Frees(u, o)' <=> Frees(u, o)
         /\ \A o : (\E c \in Pending(t)' : c.op = "assign" /\ c.obj = o)
                     <=> (\E c \in Pending(t) : c.op = "assign" /\ c.obj = o)
<1>1. PICK P, Q : P = Pending(t) /\ Q = Pending(t)'
  OBVIOUS
<1>2. /\ \A a, f : Assigning(P, a, f) <=> Assigning(Q, a, f)
      /\ \A a, f : Releasing(P, a, f) <=> Releasing(Q, a, f)
      /\ \A a, f : Released(P, a, f) <=> Released(Q, a, f)
      /\ \A a : Call("free", a) \in P <=> Call("free", a) \in Q
      /\ \A a, f : DecField(a, f) \in P <=> DecField(a, f) \in Q
      /\ \A o : (\E c \in P : c.op = "assign" /\ c.obj = o)
                  <=> (\E c \in Q : c.op = "assign" /\ c.obj = o)
  BY <1>1, LatersMatter
<1>3. Lists'
  BY ListsStep DEF Inv
<1>4. FreshBlank'
  BY DEF Inv, FreshBlank
<1>5. \A a \in Obj, f \in Slot : Assigned(a, f)' => Assigned(a, f)
  BY <1>1, <1>2, AssignedStep
<1>6. Lending'
  BY <1>5, LendingStep
<1>7. Assignments'
  <2>1. \A a \in Obj, f \in Slot : DecField(a, f) \in Pending(t)' => Releasing(Pending(t)', a, f)
    BY <1>1, <1>2 DEF Inv, Assignments
  <2>2. \A a \in Obj, f \in Slot : Assigning(Pending(t)', a, f) => Assigning(Pending(t), a, f)
    BY <1>1, <1>2
  <2>. QED  BY <2>1, <2>2, AssignmentsStep
<1>8. \A a \in Obj, f \in Slot : Void(a, f)' <=> Void(a, f)
  BY <1>1, <1>2, VoidStep
<1>9. \A o : Links(o)' = Links(o)
  BY <1>8, LinksSame DEF Inv
<1>10. \A u \in Thread, o \in Obj : Frees(u, o)' <=> Frees(u, o)
  BY <1>1, <1>2 DEF Others, Frees, Pending
<1>. QED  BY <1>1, <1>2, <1>3, <1>4, <1>6, <1>7, <1>9, <1>10

(* What holds when a call has a step to do.                                *)
LEMMA AtHead ==
  ASSUME Inv, NEW t \in Thread, NEW op, Doing(t, op)
  PROVE  /\ left[t] # <<>> /\ Head(left[t]).op = op /\ Head(left[t]) \in RefCalls
         /\ Head(left[t]) \in Pending(t) /\ ListOK(left[t])
         /\ op \in {"inc", "dec", "test", "free"} => Head(left[t]) = Call(op, Object(t))
         /\ op \in {"inc", "dec"} => Object(t) \in Target
         /\ op \in {"test", "free", "decfield"} => Object(t) \in Obj
         /\ op \notin {"inc", "dec"} => loaded[t] = NOTHING
<1>1. /\ left[t] # <<>> /\ Head(left[t]).op = op /\ Head(left[t]) \in RefCalls
      /\ Head(left[t]) \in Pending(t)
  BY HeadCall DEF Doing, Inv
<1>2. ListOK(left[t])
  BY DEF Inv, Lists
<1>3. op \notin {"inc", "dec"} => loaded[t] = NOTHING
  BY <1>1 DEF Inv, Apart, Doing
<1>. QED  BY <1>1, <1>2, <1>3, CallKinds DEF Object

LEMMA IncStep ==
  ASSUME Inv, NEW t \in Thread, gc_inc(t)
  PROVE  Inv'
<1>. DEFINE o == Object(t)
<1>1. /\ left[t] # <<>> /\ Head(left[t]) = Call("inc", o) /\ Head(left[t]).op = "inc"
      /\ ListOK(left[t]) /\ Doing(t, "inc")
  BY AtHead DEF gc_inc
<1>2. o \in Obj /\ loaded[t] = ref[o] /\ Middle(t, o)
  BY DEF gc_inc, Inv, Apart, Middle
<1>3. Live(o) /\ Kept(t, o)
  BY <1>1, <1>2, IncLives DEF Inv, Lending
<1>4. /\ RestOK(left'[t]) /\ Pending(t)' = Pending(t) \ {Head(left[t])}
      /\ Laters(Pending(t)') = Laters(Pending(t))
  BY <1>1, Popped DEF gc_inc, Inv, Counts
<1>5. ListOK(left'[t]) /\ (left'[t] # <<>> => Head(left'[t]).op \notin {"inc", "dec", "test"})
  BY <1>4, RestIsList DEF Counts
<1>6. /\ left' = [u \in Thread |-> left'[u]] /\ \A u \in Thread \ {t} : left'[u] = left[u]
      /\ left'[t] = <<>> \o Tail(left[t])
  BY ProceedsTo DEF gc_inc, Inv
<1>7. /\ Others(t) /\ loaded'[t] = NOTHING /\ held' = held /\ alloc' = alloc /\ child' = child
      /\ ref' = [ref EXCEPT ![o] = ref[o] + 1] /\ loaded' \in [Thread -> Int]
  BY <1>2, <1>6 DEF gc_inc, Others, Inv, Types, NOTHING
<1>8. Types /\ Types'
  BY <1>2, <1>6, <1>7 DEF Inv, Types
<1>9. /\ Lists' /\ FreshBlank' /\ Lending' /\ Assignments'
      /\ \A x : Links(x)' = Links(x)
      /\ \A u \in Thread, x \in Obj : Frees(u, x)' <=> Frees(u, x)
  BY <1>4, <1>5, <1>7, QuietStep
<1>10. \A x : ~Drops(t, x) /\ ~Drops(t, x)' /\ ~Tests(t, x)'
  BY <1>1, <1>5, CallFields DEF Drops, Tests
<1>11. \A x \in Obj : /\ ref'[x] = IF x = o THEN ref[o] + 1 ELSE ref[x]
  BY <1>2, <1>7, <1>8 DEF Types
<1>12. \A x : (Owns(t, x)' <=> x \in held[t])
              /\ (Puts(t, x)' <=> \E c \in Pending(t)' : c.op = "assign" /\ c.obj = x)
              /\ ~Puts(t, x)
  BY <1>1, <1>5, <1>7, WeightsNext DEF Puts
<1>13. ASSUME NEW x \in Obj
       PROVE  One(Owns(t, x)') - One(Owns(t, x)) + (One(Puts(t, x)') - One(Puts(t, x)))
                = IF x = o THEN 1 ELSE 0
  <2>1. CASE left[t] = <<Call("inc", o)>>
    <3>1. Pending(t) = {Call("inc", o)}
      BY <2>1, ToSetOne DEF Pending
    <3>2. ~Puts(t, x)'
      BY <1>4, <1>1, <1>12, <3>1
    <3>3. o \in held[t]
      BY <1>3 DEF Kept
    <3>4. Owns(t, x) <=> x \in held[t] /\ x # o
      <4>1. <<Call("inc", x)>> = <<Call("inc", o)>> <=> x = o
        <5>1. <<Call("inc", x)>>[1] = Call("inc", x) /\ <<Call("inc", o)>>[1] = Call("inc", o)
          OBVIOUS
        <5>. QED  BY <5>1, CallFields
      <4>. QED  BY <2>1, <4>1 DEF Owns
    <3>. QED  BY <1>12, <3>2, <3>3, <3>4 DEF One
  <2>2. CASE Moves(left[t])
    <3>1. PICK a \in Obj, f \in Slot, y \in Target :
             left[t] = <<Call("inc", y), DecField(a, f), Assignment(a, f, y)>>
      BY <2>2 DEF Moves
    <3>2. /\ Head(left[t]) = Call("inc", y) /\ Len(left[t]) = 3
          /\ Pending(t) = {Call("inc", y), DecField(a, f), Assignment(a, f, y)}
      BY <3>1, UpdateList DEF Pending
    <3>3. y = o
      BY <1>1, <3>2, CallFields
    <3>4. Puts(t, x)' <=> x = o
      BY <1>1, <1>4, <1>12, <3>2, <3>3, CallFields
    <3>5. left[t] # <<Call("inc", x)>>
      BY <3>2
    <3>. QED  BY <1>12, <3>4, <3>5 DEF One, Owns
  <2>. QED  BY <1>1, <2>1, <2>2, CallFields DEF ListOK
<1>14. Exact'
  <2>. SUFFICES ASSUME NEW x \in Obj
                PROVE  Changes(t, x, IF x = o THEN 1 ELSE 0)
    BY <1>3, <1>7, <1>8, <1>11, ExactStep DEF Live, Types
  <2>1. One(Drops(t, x)') = 0 /\ One(Drops(t, x)) = 0
    BY <1>10 DEF One
  <2>2. One(Owns(t, x)) \in Nat /\ One(Owns(t, x)') \in Nat
        /\ One(Puts(t, x)) \in Nat /\ One(Puts(t, x)') \in Nat
    BY DEF One
  <2>3. Cardinality(Links(x)') = Cardinality(Links(x)) /\ Cardinality(Links(x)) \in Nat
    BY <1>8, <1>9, CountIs
  <2>. QED  BY <1>13, <2>1, <2>2, <2>3 DEF Changes
<1>15. Dying'
  <2>1. \A u \in Thread, x \in Obj : Frees(u, x)' => x \in alloc' /\ ref'[x] = 0
    BY <1>3, <1>7, <1>9, <1>11 DEF Live, Inv, Dying
  <2>2. \A u \in Thread \ {t}, x \in Obj : Tests(u, x) => x \in alloc'
    BY <1>7 DEF Inv, Dying
  <2>. QED  BY <1>7, <1>9, <1>10, <2>1, <2>2, DyingStep
<1>16. Apart'
  <2>1. ASSUME NEW u \in Thread \ {t}, loaded[u] # NOTHING  PROVE ref'[Object(u)] = ref[Object(u)]
    <3>1. Object(u) \in Obj /\ Middle(u, Object(u))
      BY <2>1 DEF Inv, Apart, Middle
    <3>2. Object(u) # o
      BY <1>2, <3>1 DEF Inv, Apart
    <3>. QED  BY <1>11, <3>1, <3>2
  <2>. QED  BY <1>7, <1>10, <2>1, ApartStep
<1>. QED  BY <1>8, <1>9, <1>14, <1>15, <1>16 DEF Inv

LEMMA DecStep ==
  ASSUME Inv, NEW t \in Thread, gc_dec(t)
  PROVE  Inv'
<1>. DEFINE o == Object(t)
<1>1. /\ left[t] # <<>> /\ Head(left[t]) = Call("dec", o) /\ Head(left[t]).op = "dec"
      /\ Doing(t, "dec")
  BY AtHead DEF gc_dec
<1>2. o \in Obj /\ loaded[t] = ref[o] /\ Middle(t, o)
  BY DEF gc_dec, Inv, Apart, Middle
<1>3. Live(o) /\ Drops(t, o)
  BY <1>1, <1>2, DecLives
<1>4. PICK c \in RefCalls : c = Call("test", o)
  BY <1>2, CallFields
<1>5. c.op = "test" /\ c.obj = o
  BY <1>4, CallFields
<1>6. Proceeds(t, <<c>>)
  BY <1>4 DEF gc_dec
<1>7. /\ ListOK(left'[t]) /\ left'[t] # <<>> /\ Head(left'[t]) = c
      /\ Laters(Pending(t)') = Laters(Pending(t))
  BY <1>1, <1>5, <1>6, Replaced DEF Inv, Counts
<1>8. /\ left' = [u \in Thread |-> left'[u]] /\ \A u \in Thread \ {t} : left'[u] = left[u]
  BY <1>6, ProceedsTo DEF Inv
<1>9. /\ Others(t) /\ loaded'[t] = NOTHING /\ held' = held /\ alloc' = alloc /\ child' = child
      /\ ref' = [ref EXCEPT ![o] = ref[o] - 1] /\ loaded' \in [Thread -> Int]
  BY <1>2, <1>8 DEF gc_dec, Others, Inv, Types, NOTHING
<1>10. Types /\ Types'
  BY <1>2, <1>8, <1>9 DEF Inv, Types
<1>11. /\ Lists' /\ FreshBlank' /\ Lending' /\ Assignments'
       /\ \A x : Links(x)' = Links(x)
       /\ \A u \in Thread, x \in Obj : Frees(u, x)' <=> Frees(u, x)
       /\ \A x : (\E d \in Pending(t)' : d.op = "assign" /\ d.obj = x)
                   <=> (\E d \in Pending(t) : d.op = "assign" /\ d.obj = x)
  BY <1>5, <1>7, <1>9, QuietStep
<1>12. \A x : (Owns(t, x)' <=> Owns(t, x)) /\ (Puts(t, x)' <=> Puts(t, x))
  <2>1. \A x : /\ Owns(t, x)' <=> x \in held'[t]
               /\ Puts(t, x)' <=> \E d \in Pending(t)' : d.op = "assign" /\ d.obj = x
    BY <1>5, <1>7, WeightsNext
  <2>2. \A x : /\ Owns(t, x) <=> x \in held[t]
               /\ Puts(t, x) <=> \E d \in Pending(t) : d.op = "assign" /\ d.obj = x
    BY <1>1, Weights
  <2>. QED  BY <1>9, <1>11, <2>1, <2>2
<1>13. \A x : ~Drops(t, x)' /\ (Drops(t, x) <=> x = o) /\ (Tests(t, x)' <=> x = o)
  BY <1>1, <1>4, <1>5, <1>7, CallFields DEF Drops, Tests
<1>14. \A x \in Obj : ref'[x] = IF x = o THEN ref[o] - 1 ELSE ref[x]
  BY <1>2, <1>9, <1>10 DEF Types
<1>15. Exact'
  <2>. SUFFICES ASSUME NEW x \in Obj
                PROVE  Changes(t, x, IF x = o THEN -1 ELSE 0)
    BY <1>3, <1>9, <1>10, <1>14, ExactStep DEF Live, Types
  <2>1. One(Drops(t, x)') = 0 /\ One(Drops(t, x)) = IF x = o THEN 1 ELSE 0
    BY <1>13 DEF One
  <2>2. /\ One(Owns(t, x)) \in Nat /\ One(Owns(t, x)') = One(Owns(t, x))
        /\ One(Puts(t, x)) \in Nat /\ One(Puts(t, x)') = One(Puts(t, x))
    BY <1>12 DEF One
  <2>3. Cardinality(Links(x)') = Cardinality(Links(x)) /\ Cardinality(Links(x)) \in Nat
    BY <1>10, <1>11, CountIs
  <2>. QED  BY <2>1, <2>2, <2>3 DEF Changes
<1>16. Dying'
  <2>1. \A u \in Thread, x \in Obj : Frees(u, x)' => x \in alloc' /\ ref'[x] = 0
    BY <1>3, <1>9, <1>11, <1>14 DEF Live, Inv, Dying
  <2>2. \A u \in Thread \ {t}, x \in Obj : Tests(u, x) => x \in alloc'
    BY <1>9 DEF Inv, Dying
  <2>3. \A x \in Obj : Tests(t, x)' => x \in alloc' /\ \A u \in Thread : ~Frees(u, x)
    BY <1>3, <1>9, <1>13 DEF Live
  <2>. QED  BY <1>9, <1>11, <2>1, <2>2, <2>3, DyingStep
<1>17. Apart'
  <2>1. ASSUME NEW u \in Thread \ {t}, loaded[u] # NOTHING  PROVE ref'[Object(u)] = ref[Object(u)]
    <3>1. Object(u) \in Obj /\ Middle(u, Object(u))
      BY <2>1 DEF Inv, Apart, Middle
    <3>2. Object(u) # o
      BY <1>2, <3>1 DEF Inv, Apart
    <3>. QED  BY <1>14, <3>1, <3>2
  <2>. QED  BY <1>2, <1>9, <1>13, <2>1, ApartStep
<1>. QED  BY <1>10, <1>11, <1>15, <1>16, <1>17 DEF Inv

(* A pointer that leads to no object is not counted.                       *)
LEMMA SkipStep ==
  ASSUME Inv, NEW t \in Thread, Skip(t)
  PROVE  Inv'
<1>1. PICK op \in {"inc", "dec"} : Doing(t, op)
  BY DEF Skip
<1>2. /\ left[t] # <<>> /\ Head(left[t]) = Call(op, NOOBJ) /\ Head(left[t]).op = op
      /\ Object(t) = NOOBJ /\ ListOK(left[t]) /\ NOOBJ \notin Obj
  BY <1>1, AtHead, RefcountAssumption DEF Skip
<1>3. /\ RestOK(left'[t]) /\ Pending(t)' = Pending(t) \ {Head(left[t])}
      /\ Laters(Pending(t)') = Laters(Pending(t))
  BY <1>2, Popped DEF Skip, Inv, Counts
<1>4. ListOK(left'[t]) /\ (left'[t] # <<>> => Head(left'[t]).op \notin {"inc", "dec", "test"})
  BY <1>3, RestIsList DEF Counts
<1>5. /\ left' = [u \in Thread |-> left'[u]] /\ \A u \in Thread \ {t} : left'[u] = left[u]
  BY ProceedsTo DEF Skip, Inv
<1>6. /\ Others(t) /\ loaded' = loaded /\ held' = held /\ alloc' = alloc /\ child' = child
      /\ ref' = ref
  BY <1>5 DEF Skip, Others
<1>7. Types /\ Types'
  BY <1>5, <1>6 DEF Inv, Types
<1>8. loaded[t] = NOTHING
  BY <1>2 DEF Inv, Apart
<1>9. /\ Lists' /\ FreshBlank' /\ Lending' /\ Assignments'
      /\ \A x : Links(x)' = Links(x)
      /\ \A u \in Thread, x \in Obj : Frees(u, x)' <=> Frees(u, x)
      /\ \A x : (\E d \in Pending(t)' : d.op = "assign" /\ d.obj = x)
                  <=> (\E d \in Pending(t) : d.op = "assign" /\ d.obj = x)
  BY <1>3, <1>4, <1>6, QuietStep
<1>10. \A x \in Obj : (Owns(t, x)' <=> Owns(t, x)) /\ (Puts(t, x)' <=> Puts(t, x))
  <2>. TAKE x \in Obj
  <2>1. /\ Owns(t, x)' <=> x \in held[t]
        /\ Puts(t, x)' <=> \E d \in Pending(t) : d.op = "assign" /\ d.obj = x
    BY <1>4, <1>6, <1>9, WeightsNext
  <2>2. Owns(t, x) <=> x \in held[t]
    <3>1. ASSUME left[t] = <<Call("inc", x)>>  PROVE FALSE
      <4>1. Head(left[t]) = Call("inc", x)
        BY <3>1
      <4>. QED  BY <1>2, <4>1, CallFields
    <3>. QED  BY <3>1 DEF Owns
  <2>3. CASE op = "dec"
    BY <1>2, <2>1, <2>2, <2>3 DEF Puts
  <2>4. CASE op = "inc"
    <3>1. ~Puts(t, x)
      BY <1>2, <2>4 DEF Puts
    <3>2. CASE left[t] = <<Call("inc", NOOBJ)>>
      <4>1. Pending(t) = {Call("inc", NOOBJ)}
        BY <3>2, ToSetOne DEF Pending
      <4>. QED  BY <2>1, <2>2, <3>1, <4>1, CallFields
    <3>3. CASE Moves(left[t])
      <4>1. PICK a \in Obj, f \in Slot, y \in Target :
               left[t] = <<Call("inc", y), DecField(a, f), Assignment(a, f, y)>>
        BY <3>3 DEF Moves
      <4>2. /\ Head(left[t]) = Call("inc", y)
            /\ Pending(t) = {Call("inc", y), DecField(a, f), Assignment(a, f, y)}
        BY <4>1, UpdateList DEF Pending
      <4>3. y = NOOBJ
        BY <1>2, <4>2, CallFields
      <4>. QED  BY <1>2, <2>1, <2>2, <3>1, <4>2, <4>3, CallFields
    <3>. QED  BY <1>2, <2>4, <3>2, <3>3, CallFields DEF ListOK
  <2>. QED  BY <2>3, <2>4
<1>11. \A x \in Obj : ~Drops(t, x) /\ ~Drops(t, x)' /\ ~Tests(t, x)'
  BY <1>2, <1>4, CallFields DEF Drops, Tests
<1>12. Exact'
  <2>. SUFFICES ASSUME NEW x \in Obj  PROVE Changes(t, x, 0)
    BY <1>6, <1>7, ExactStep DEF Types
  <2>1. One(Drops(t, x)') = 0 /\ One(Drops(t, x)) = 0
    BY <1>11 DEF One
  <2>2. /\ One(Owns(t, x)) \in Nat /\ One(Owns(t, x)') = One(Owns(t, x))
        /\ One(Puts(t, x)) \in Nat /\ One(Puts(t, x)') = One(Puts(t, x))
    BY <1>10 DEF One
  <2>3. Cardinality(Links(x)') = Cardinality(Links(x)) /\ Cardinality(Links(x)) \in Nat
    BY <1>7, <1>9, CountIs
  <2>. QED  BY <2>1, <2>2, <2>3 DEF Changes
<1>13. Dying'
  <2>1. \A u \in Thread, x \in Obj : Frees(u, x)' => x \in alloc' /\ ref'[x] = 0
    BY <1>6, <1>9 DEF Inv, Dying
  <2>2. \A u \in Thread \ {t}, x \in Obj : Tests(u, x) => x \in alloc'
    BY <1>6 DEF Inv, Dying
  <2>. QED  BY <1>6, <1>9, <1>11, <2>1, <2>2, DyingStep
<1>14. Apart'
  BY <1>6, <1>8, <1>11, ApartStep
<1>. QED  BY <1>7, <1>9, <1>12, <1>13, <1>14 DEF Inv

(* A step that does not touch the counts and leaves the call at a field or *)
(* at its end.                                                             *)
LEMMA StillStep ==
  ASSUME Inv, NEW t \in Thread, Others(t), loaded' = loaded, loaded[t] = NOTHING, ref' = ref,
         \A o \in Obj : ~Tests(t, o)'
  PROVE  /\ Apart'
         /\ (alloc' = alloc /\ \A u \in Thread, o \in Obj : Frees(u, o)' => Frees(u, o)) => Dying'
<1>1. Apart'
  BY ApartStep
<1>2. ASSUME alloc' = alloc, \A u \in Thread, o \in Obj : Frees(u, o)' => Frees(u, o)
      PROVE  Dying'
  <2>1. \A u \in Thread, o \in Obj : Frees(u, o)' => o \in alloc' /\ ref'[o] = 0
    BY <1>2 DEF Inv, Dying
  <2>2. \A u \in Thread \ {t}, o \in Obj : Tests(u, o) => o \in alloc'
    BY <1>2 DEF Inv, Dying
  <2>. QED  BY <1>2, <2>1, <2>2, DyingStep
<1>. QED  BY <1>1, <1>2

LEMMA UseStep ==
  ASSUME Inv, NEW t \in Thread, Test(t), ref[Object(t)] # 0
  PROVE  Inv'
<1>. DEFINE o == Object(t)
<1>1. /\ left[t] # <<>> /\ Head(left[t]).op = "test" /\ loaded[t] = NOTHING
  BY AtHead DEF Test
<1>2. Proceeds(t, <<>>)
  BY DEF Test
<1>3. /\ RestOK(left'[t]) /\ Laters(Pending(t)') = Laters(Pending(t))
  BY <1>1, <1>2, Popped DEF Inv, Counts
<1>4. ListOK(left'[t]) /\ (left'[t] # <<>> => Head(left'[t]).op \notin {"inc", "dec", "test"})
  BY <1>3, RestIsList DEF Counts
<1>5. /\ left' = [u \in Thread |-> left'[u]] /\ \A u \in Thread \ {t} : left'[u] = left[u]
  BY <1>2, ProceedsTo DEF Inv
<1>6. /\ Others(t) /\ loaded' = loaded /\ held' = held /\ alloc' = alloc /\ child' = child
      /\ ref' = ref
  BY <1>5 DEF Test, Others
<1>7. Types /\ Types'
  BY <1>5, <1>6 DEF Inv, Types
<1>8. /\ Lists' /\ FreshBlank' /\ Lending' /\ Assignments'
      /\ \A x : Links(x)' = Links(x)
      /\ \A u \in Thread, x \in Obj : Frees(u, x)' <=> Frees(u, x)
      /\ \A x : (\E d \in Pending(t)' : d.op = "assign" /\ d.obj = x)
                  <=> (\E d \in Pending(t) : d.op = "assign" /\ d.obj = x)
  BY <1>3, <1>4, <1>6, QuietStep
<1>9. \A x : (Owns(t, x)' <=> Owns(t, x)) /\ (Puts(t, x)' <=> Puts(t, x))
  <2>1. \A x : /\ Owns(t, x)' <=> x \in held'[t]
               /\ Puts(t, x)' <=> \E d \in Pending(t)' : d.op = "assign" /\ d.obj = x
    BY <1>4, WeightsNext
  <2>2. \A x : /\ Owns(t, x) <=> x \in held[t]
               /\ Puts(t, x) <=> \E d \in Pending(t) : d.op = "assign" /\ d.obj = x
    BY <1>1, Weights
  <2>. QED  BY <1>6, <1>8, <2>1, <2>2
<1>10. \A x \in Obj : ~Drops(t, x) /\ ~Drops(t, x)' /\ ~Tests(t, x)'
  BY <1>1, <1>4, CallFields DEF Drops, Tests
<1>11. Exact'
  <2>. SUFFICES ASSUME NEW x \in Obj  PROVE Changes(t, x, 0)
    BY <1>6, <1>7, ExactStep DEF Types
  <2>1. Cardinality(Links(x)') = Cardinality(Links(x)) /\ Cardinality(Links(x)) \in Nat
    BY <1>7, <1>8, CountIs
  <2>. QED  BY <1>9, <1>10, <2>1 DEF Changes, One
<1>12. Apart' /\ Dying'
  BY <1>1, <1>6, <1>8, <1>10, StillStep
<1>. QED  BY <1>7, <1>8, <1>11, <1>12 DEF Inv

(* What nothing counts for any more, nothing is about to change.           *)
LEMMA DeadFacts ==
  ASSUME Inv, NEW t \in Thread, NEW o \in Obj, Tests(t, o), ref[o] = 0
  PROVE  /\ o \in alloc
         /\ \A u \in Thread : o \notin held[u] /\ ~Frees(u, o) /\ (Tests(u, o) => u = t)
         /\ \A u \in Thread, f \in Slot : /\ ~Assigning(Pending(u), o, f)
                                           /\ DecField(o, f) \notin Pending(u)
<1>1. o \in alloc /\ \A u \in Thread : ~Frees(u, o)
  BY DEF Inv, Dying
<1>2. \A u \in Thread : o \notin held[u]
  BY HeldLives DEF Live
<1>3. \A u \in Thread : Tests(u, o) => u = t
  BY DEF Inv, Apart, Middle
<1>4. \A u \in Thread, f \in Slot : ~Assigning(Pending(u), o, f)
  BY <1>2 DEF Inv, Assignments
<1>5. \A u \in Thread, f \in Slot : DecField(o, f) \notin Pending(u)
  BY <1>1, <1>4 DEF Inv, Assignments, Releasing, Frees
<1>. QED  BY <1>1, <1>2, <1>3, <1>4, <1>5

LEMMA DeadStep ==
  ASSUME Inv, NEW t \in Thread, Test(t), ref[Object(t)] = 0
  PROVE  Inv'
<1>. DEFINE o == Object(t)
            D == {DecField(o, f) : f \in Slot} \cup {Call("free", o)}
<1>1. /\ left[t] # <<>> /\ Head(left[t]).op = "test" /\ loaded[t] = NOTHING /\ o \in Obj
      /\ Head(left[t]) = Call("test", o) /\ ListOK(left[t]) /\ Tests(t, o)
  BY AtHead DEF Test, Tests
<1>2. /\ o \in alloc
      /\ \A u \in Thread : o \notin held[u] /\ ~Frees(u, o) /\ (Tests(u, o) => u = t)
      /\ \A u \in Thread, f \in Slot : /\ ~Assigning(Pending(u), o, f)
                                        /\ DecField(o, f) \notin Pending(u)
  BY <1>1, DeadFacts
<1>3. Proceeds(t, Dead(o))
  BY DEF Test
<1>4. PICK r : r = Tail(left[t])
  OBVIOUS
<1>5. /\ RestOK(r) /\ Pending(t) = {Call("test", o)} \cup ToSet(r)
      /\ Call("test", o) \notin ToSet(r) /\ ToSet(r) \subseteq RefCalls
  <2>1. RestOK(r) /\ ToSet(left[t]) = {Head(left[t])} \cup ToSet(r) /\ Head(left[t]) \notin ToSet(r)
    BY <1>1, <1>4, RestAfter
  <2>2. ToSet(r) \subseteq RefCalls
    BY <2>1, ToSetSeq DEF RestOK, InOrder
  <2>. QED  BY <1>1, <2>1, <2>2 DEF Pending
<1>6. \A c \in ToSet(r) : ~ReleasesOf(c, o) /\ c # Call("free", o)
  BY <1>2, <1>5, CallKinds DEF ReleasesOf, Frees
<1>7. PICK s : s = Dead(o) \o r
  OBVIOUS
<1>8. left'[t] = s
  BY <1>3, <1>4, <1>7, ProceedsTo DEF Inv
<1>9. RestOK(s) /\ s # <<>> /\ ToSet(s) = D \cup ToSet(r)
  BY <1>1, <1>5, <1>6, <1>7, DeadNext, RefcountAssumption
<1>10. ListOK(left'[t]) /\ (left'[t] # <<>> => Head(left'[t]).op \notin {"inc", "dec", "test"})
  BY <1>8, <1>9, RestIsList DEF Counts
<1>11. PICK P, Q : P = Pending(t) /\ Q = Pending(t)'
  OBVIOUS
<1>12. \A c : c \in Q <=> (c \in P /\ c # Call("test", o)) \/ c \in D
  BY <1>5, <1>8, <1>9, <1>11 DEF Pending
<1>. HIDE DEF D
<1>13. /\ \A c \in D : c.op \in {"decfield", "free"} /\ c.obj = o
       /\ \A f \in Slot : DecField(o, f) \in D
       /\ Call("free", o) \in D
  BY CallFields DEF D
<1>14. /\ left' = [u \in Thread |-> left'[u]] /\ \A u \in Thread \ {t} : left'[u] = left[u]
  BY <1>3, ProceedsTo DEF Inv
<1>15. /\ Others(t) /\ loaded' = loaded /\ held' = held /\ alloc' = alloc /\ child' = child
       /\ ref' = ref
  BY <1>14 DEF Test, Others
<1>16. Types /\ Types'
  BY <1>14, <1>15 DEF Inv, Types
<1>17. /\ \A c : c.op = "assign" => (c \in Q <=> c \in P)
       /\ \A a, f : Assigning(Q, a, f) <=> Assigning(P, a, f)
  <2>1. \A c : c.op = "assign" => (c \in Q <=> c \in P)
    BY <1>12, <1>13, CallFields
  <2>. QED  BY <2>1 DEF Assigning
<1>18. \A a : Call("free", a) \in Q <=> Call("free", a) \in P \/ a = o
  BY <1>12, <1>13, CallFields
<1>19. \A a \in Obj, f \in Slot : DecField(a, f) \in Q <=> DecField(a, f) \in P \/ a = o
  BY <1>12, <1>13, CallFields
<1>20. \A a \in Obj, f \in Slot : Released(Q, a, f) <=> Released(P, a, f)
  <2>. TAKE a \in Obj, f \in Slot
  <2>1. CASE a = o
    BY <1>2, <1>11, <1>19, <2>1 DEF Released, Releasing, Frees
  <2>2. CASE a # o
    BY <1>17, <1>18, <1>19, <2>2 DEF Released, Releasing
  <2>. QED  BY <2>1, <2>2
<1>21. Lists' /\ FreshBlank'
  BY <1>10, <1>15, ListsStep DEF Inv, FreshBlank
<1>22. Lending'
  <2>1. \A a \in Obj, f \in Slot : Assigned(a, f)' => Assigned(a, f)
    BY <1>11, <1>15, <1>17, AssignedStep
  <2>. QED  BY <1>10, <1>15, <2>1, LendingStep
<1>23. Assignments'
  <2>1. \A a \in Obj, f \in Slot : DecField(a, f) \in Q => Releasing(Q, a, f)
    BY <1>11, <1>17, <1>18, <1>19 DEF Inv, Assignments, Releasing
  <2>2. \A a \in Obj, f \in Slot : Assigning(Pending(t)', a, f) => Assigning(Pending(t), a, f)
    BY <1>11, <1>17
  <2>. QED  BY <1>11, <1>15, <2>1, <2>2, AssignmentsStep
<1>24. \A x : Links(x)' = Links(x)
  <2>1. \A a \in Obj, f \in Slot : Void(a, f)' <=> Void(a, f)
    BY <1>11, <1>15, <1>20, VoidStep
  <2>. QED  BY <1>15, <1>16, <2>1, LinksSame
<1>25. \A x : (Owns(t, x)' <=> Owns(t, x)) /\ (Puts(t, x)' <=> Puts(t, x))
  <2>1. \A x : /\ Owns(t, x)' <=> x \in held'[t]
               /\ Puts(t, x)' <=> \E d \in Pending(t)' : d.op = "assign" /\ d.obj = x
    BY <1>10, WeightsNext
  <2>2. \A x : /\ Owns(t, x) <=> x \in held[t]
               /\ Puts(t, x) <=> \E d \in Pending(t) : d.op = "assign" /\ d.obj = x
    BY <1>1, Weights
  <2>. QED  BY <1>11, <1>15, <1>17, <2>1, <2>2
<1>26. \A x \in Obj : ~Drops(t, x) /\ ~Drops(t, x)' /\ ~Tests(t, x)'
  BY <1>1, <1>10, CallFields DEF Drops, Tests
<1>27. Exact'
  <2>. SUFFICES ASSUME NEW x \in Obj  PROVE Changes(t, x, 0)
    BY <1>15, <1>16, ExactStep DEF Types
  <2>1. Cardinality(Links(x)') = Cardinality(Links(x)) /\ Cardinality(Links(x)) \in Nat
    BY <1>16, <1>24, CountIs
  <2>. QED  BY <1>25, <1>26, <2>1 DEF Changes, One
<1>28. Apart'
  BY <1>1, <1>15, <1>26, StillStep
<1>29. Dying'
  <2>1. \A u \in Thread, x \in Obj : Frees(u, x)' <=> Frees(u, x) \/ (u = t /\ x = o)
    BY <1>11, <1>14, <1>18 DEF Frees, Pending
  <2>2. \A u \in Thread, x \in Obj : Tests(u, x)' => Tests(u, x) /\ u # t
    BY <1>14, <1>26 DEF Tests
  <2>3. \A u \in Thread, x \in Obj : Frees(u, x)' => x \in alloc' /\ ref'[x] = 0
    BY <1>2, <1>15, <2>1 DEF Inv, Dying
  <2>4. \A u \in Thread, v \in Thread, x \in Obj : Frees(u, x)' => ~Tests(v, x)'
    BY <1>2, <2>1, <2>2 DEF Inv, Dying
  <2>5. \A u \in Thread, v \in Thread, x \in Obj : Frees(u, x)' /\ Frees(v, x)' => v = u
    BY <1>2, <2>1 DEF Inv, Dying
  <2>6. \A u \in Thread, x \in Obj : Tests(u, x)' => x \in alloc'
    BY <1>15, <2>2 DEF Inv, Dying
  <2>. QED  BY <2>3, <2>4, <2>5, <2>6 DEF Dying
<1>. QED  BY <1>16, <1>21, <1>22, <1>23, <1>27, <1>28, <1>29 DEF Inv

(* One thread at a time sees to a field of an object that is still there.  *)
LEMMA FieldFacts ==
  ASSUME Inv, NEW t \in Thread, NEW a \in Obj, NEW f \in Slot,
         Releasing(Pending(t), a, f)
  PROVE  a \in alloc /\ \A u \in Thread \ {t} : ~Releasing(Pending(u), a, f)
<1>1. CASE Frees(t, a)
  <2>1. a \in alloc /\ ref[a] = 0 /\ \A u \in Thread : Frees(u, a) => u = t
    BY <1>1 DEF Inv, Dying
  <2>2. \A u \in Thread : ~Assigning(Pending(u), a, f)
    BY <2>1, HeldLives DEF Inv, Assignments, Live
  <2>. QED  BY <2>1, <2>2 DEF Releasing, Frees
<1>2. CASE Assigning(Pending(t), a, f)
  <2>1. a \in held[t] /\ \A u \in Thread : Assigning(Pending(u), a, f) => u = t
    BY <1>2 DEF Inv, Assignments
  <2>2. Live(a)
    BY <2>1, HeldLives
  <2>. QED  BY <2>1, <2>2 DEF Releasing, Live, Frees
<1>. QED  BY <1>1, <1>2 DEF Releasing, Frees

(* One field's references change.                                          *)
LEMMA LinksChange ==
  ASSUME Types, Types', NEW o, NEW b, Links(o) \ {b} = Links(o)' \ {b}
  PROVE  /\ Cardinality(Links(o)) \in Nat
         /\ Cardinality(Links(o)') - Cardinality(Links(o))
              = One(b \in Links(o)') - One(b \in Links(o))
<1>1. /\ IsFiniteSet(Obj \X Slot)
      /\ Links(o) \in SUBSET (Obj \X Slot) /\ Links(o)' \in SUBSET (Obj \X Slot)
  BY FS_Product, RefcountAssumption DEF Links, Types
<1>2. /\ Cardinality(Links(o)) \in Nat /\ Cardinality(Links(o)') \in Nat
      /\ Cardinality(Links(o)')
           = Cardinality(Links(o)) + One(b \in Links(o)') - One(b \in Links(o))
  BY <1>1, CardChange
<1>. QED  BY <1>2 DEF One

LEMMA ReadStep ==
  ASSUME Inv, NEW t \in Thread, ReadField(t)
  PROVE  Inv'
<1>0. PICK a, f : a = Object(t) /\ f = Head(left[t]).field
  OBVIOUS
<1>1. /\ left[t] # <<>> /\ Head(left[t]).op = "decfield" /\ loaded[t] = NOTHING /\ a \in Obj
      /\ Head(left[t]) \in Pending(t) /\ Head(left[t]) \in RefCalls
  BY <1>0, AtHead DEF ReadField
<1>2. f \in Slot /\ Head(left[t]) = DecField(a, f)
  BY <1>0, <1>1, CallKinds DEF Object
<1>3. PICK y \in Target : y = child[a][f]
  BY <1>1, <1>2 DEF Inv, Types
<1>4. PICK c \in RefCalls : c = Call("dec", y)
  BY <1>3, CallFields
<1>5. c.op = "dec" /\ c.obj = y
  BY <1>4, CallFields
<1>6. Proceeds(t, <<c>>)
  BY <1>0, <1>3, <1>4 DEF ReadField
<1>7. /\ ListOK(left'[t]) /\ left'[t] # <<>> /\ Head(left'[t]) = c
      /\ Pending(t)' = (Pending(t) \ {DecField(a, f)}) \cup {c}
  BY <1>1, <1>2, <1>5, <1>6, Replaced DEF Inv
<1>8. /\ left' = [u \in Thread |-> left'[u]] /\ \A u \in Thread \ {t} : left'[u] = left[u]
  BY <1>6, ProceedsTo DEF Inv
<1>9. /\ Others(t) /\ loaded' = loaded /\ held' = held /\ alloc' = alloc /\ child' = child
      /\ ref' = ref
  BY <1>8 DEF ReadField, Others
<1>10. Types /\ Types'
  BY <1>8, <1>9 DEF Inv, Types
<1>11. Releasing(Pending(t), a, f)
  BY <1>1, <1>2 DEF Inv, Assignments
<1>12. a \in alloc /\ \A u \in Thread \ {t} : ~Releasing(Pending(u), a, f)
  BY <1>1, <1>2, <1>11, FieldFacts
<1>13. PICK P, Q : P = Pending(t) /\ Q = Pending(t)'
  OBVIOUS
<1>14. /\ \A d : d.op = "assign" => (d \in Q <=> d \in P)
       /\ \A b, g : Assigning(Q, b, g) <=> Assigning(P, b, g)
       /\ \A b : Call("free", b) \in Q <=> Call("free", b) \in P
       /\ \A b, g : Releasing(Q, b, g) <=> Releasing(P, b, g)
  <2>1. \A d : d.op = "assign" => (d \in Q <=> d \in P)
    BY <1>5, <1>7, <1>13, CallFields
  <2>2. \A b, g : Assigning(Q, b, g) <=> Assigning(P, b, g)
    BY <2>1 DEF Assigning
  <2>3. \A b : Call("free", b) \in Q <=> Call("free", b) \in P
    BY <1>5, <1>7, <1>13, CallFields
  <2>. QED  BY <2>1, <2>2, <2>3 DEF Releasing
<1>15. \A b, g : DecField(b, g) \in Q <=> DecField(b, g) \in P /\ ~(b = a /\ g = f)
  BY <1>5, <1>7, <1>13, CallFields
<1>16. \A b, g : ~(b = a /\ g = f) => (Released(Q, b, g) <=> Released(P, b, g))
  BY <1>14, <1>15 DEF Released
<1>17. ~Void(a, f) /\ Void(a, f)'
  <2>1. DecField(a, f) \in P
    BY <1>1, <1>2, <1>13
  <2>2. ~Void(a, f)
    BY <1>12, <1>13, <2>1 DEF Void, Released
  <2>3. Released(Q, a, f)
    BY <1>11, <1>13, <1>14, <1>15 DEF Released
  <2>4. Void(a, f)'
    <3>1. Void(a, f)' <=> \E u \in Thread : Released(Pending(u)', a, f)
      BY DEF Void, Released, Releasing, Assigning
    <3>. QED  BY <1>13, <2>3, <3>1
  <2>. QED  BY <2>2, <2>4
<1>18. \A b \in Obj, g \in Slot : ~(b = a /\ g = f) => (Void(b, g)' <=> Void(b, g))
  BY <1>9, <1>13, <1>16, VoidStep
<1>19. \A x : /\ Links(x) \ {<<a, f>>} = Links(x)' \ {<<a, f>>}
              /\ <<a, f>> \notin Links(x)'
              /\ <<a, f>> \in Links(x) <=> x = y
  <2>. TAKE x
  <2>1. \A l \in alloc \X Slot : l # <<a, f>> => (Void(l[1], l[2])' <=> Void(l[1], l[2]))
    BY <1>18 DEF Inv, Types
  <2>2. Links(x) \ {<<a, f>>} = Links(x)' \ {<<a, f>>}
    BY <1>9, <2>1 DEF Links
  <2>3. <<a, f>> \notin Links(x)'
    BY <1>17 DEF Links
  <2>4. <<a, f>> \in Links(x) <=> x = y
    BY <1>2, <1>3, <1>12, <1>17 DEF Links
  <2>. QED  BY <2>2, <2>3, <2>4
<1>20. Lists' /\ FreshBlank'
  BY <1>7, <1>9, ListsStep DEF Inv, FreshBlank
<1>21. Lending'
  <2>1. \A b \in Obj, g \in Slot : Assigned(b, g)' => Assigned(b, g)
    BY <1>9, <1>13, <1>14, AssignedStep
  <2>. QED  BY <1>5, <1>7, <1>9, <2>1, LendingStep
<1>22. Assignments'
  <2>1. \A b \in Obj, g \in Slot : DecField(b, g) \in Q => Releasing(Q, b, g)
    BY <1>13, <1>14, <1>15 DEF Inv, Assignments
  <2>2. \A b \in Obj, g \in Slot : Assigning(Pending(t)', b, g) => Assigning(Pending(t), b, g)
    BY <1>13, <1>14
  <2>. QED  BY <1>9, <1>13, <2>1, <2>2, AssignmentsStep
<1>23. \A x : (Owns(t, x)' <=> Owns(t, x)) /\ (Puts(t, x)' <=> Puts(t, x))
  <2>1. \A x : /\ Owns(t, x)' <=> x \in held'[t]
               /\ Puts(t, x)' <=> \E d \in Pending(t)' : d.op = "assign" /\ d.obj = x
    BY <1>5, <1>7, WeightsNext
  <2>2. \A x : /\ Owns(t, x) <=> x \in held[t]
               /\ Puts(t, x) <=> \E d \in Pending(t) : d.op = "assign" /\ d.obj = x
    BY <1>1, Weights
  <2>. QED  BY <1>9, <1>13, <1>14, <2>1, <2>2
<1>24. \A x : ~Drops(t, x) /\ (Drops(t, x)' <=> x = y) /\ ~Tests(t, x)'
  BY <1>1, <1>4, <1>5, <1>7, CallFields DEF Drops, Tests
<1>25. Exact'
  <2>. SUFFICES ASSUME NEW x \in Obj  PROVE Changes(t, x, 0)
    BY <1>9, <1>10, ExactStep DEF Types
  <2>1. /\ Cardinality(Links(x)) \in Nat
        /\ Cardinality(Links(x)') - Cardinality(Links(x))
             = One(<<a, f>> \in Links(x)') - One(<<a, f>> \in Links(x))
    BY <1>10, <1>19, LinksChange
  <2>2. One(<<a, f>> \in Links(x)') = 0 /\ One(<<a, f>> \in Links(x)) = One(Drops(t, x)')
        /\ One(Drops(t, x)) = 0
    BY <1>19, <1>24 DEF One
  <2>3. /\ One(Owns(t, x)') = One(Owns(t, x)) /\ One(Puts(t, x)') = One(Puts(t, x))
        /\ One(Owns(t, x)) \in Nat /\ One(Puts(t, x)) \in Nat /\ One(Drops(t, x)') \in Nat
    BY <1>23 DEF One
  <2>. QED  BY <2>1, <2>2, <2>3 DEF Changes
<1>26. Apart' /\ Dying'
  <2>1. \A u \in Thread, o \in Obj : Frees(u, o)' => Frees(u, o)
    BY <1>8, <1>13, <1>14 DEF Frees, Pending
  <2>. QED  BY <1>1, <1>9, <1>24, <2>1, StillStep
<1>. QED  BY <1>10, <1>20, <1>21, <1>22, <1>25, <1>26 DEF Inv

LEMMA FreeStep ==
  ASSUME Inv, NEW t \in Thread, gc_free(t)
  PROVE  Inv'
<1>. DEFINE o == Object(t)
<1>1. /\ left[t] # <<>> /\ Head(left[t]).op = "free" /\ loaded[t] = NOTHING /\ o \in Obj
      /\ Head(left[t]) \in Pending(t) /\ Head(left[t]) = Call("free", o)
      /\ Head(left[t]).obj = o
  BY AtHead DEF gc_free, Object
<1>2. Frees(t, o) /\ o \in alloc /\ ref[o] = 0
  BY <1>1 DEF Inv, Dying, Frees
<1>3. Proceeds(t, <<>>)
  BY DEF gc_free
<1>4. /\ RestOK(left'[t]) /\ Pending(t)' = Pending(t) \ {Call("free", o)}
      /\ \A f : DecField(o, f) \notin Pending(t)'
  BY <1>1, <1>3, Popped DEF Inv
<1>5. ListOK(left'[t]) /\ (left'[t] # <<>> => Head(left'[t]).op \notin {"inc", "dec", "test"})
  BY <1>4, RestIsList DEF Counts
<1>6. /\ left' = [u \in Thread |-> left'[u]] /\ \A u \in Thread \ {t} : left'[u] = left[u]
  BY <1>3, ProceedsTo DEF Inv
<1>7. /\ Others(t) /\ loaded' = loaded /\ held' = held /\ alloc' = alloc \ {o}
      /\ child' = [child EXCEPT ![o] = [f \in Slot |-> NOOBJ]] /\ ref' = ref
  BY <1>6 DEF gc_free, Others
<1>8. Types /\ Types'
  BY <1>6, <1>7 DEF Inv, Types, Target
<1>9. PICK P, Q : P = Pending(t) /\ Q = Pending(t)'
  OBVIOUS
<1>10. /\ \A d : d.op = "assign" => (d \in Q <=> d \in P)
       /\ \A b, g : Assigning(Q, b, g) <=> Assigning(P, b, g)
       /\ \A b : Call("free", b) \in Q <=> Call("free", b) \in P /\ b # o
       /\ \A b, g : DecField(b, g) \in Q <=> DecField(b, g) \in P
  <2>1. \A d : d.op = "assign" => (d \in Q <=> d \in P)
    BY <1>4, <1>9, CallFields
  <2>2. \A b, g : Assigning(Q, b, g) <=> Assigning(P, b, g)
    BY <2>1 DEF Assigning
  <2>3. \A b : Call("free", b) \in Q <=> Call("free", b) \in P /\ b # o
    BY <1>4, <1>9, CallFields
  <2>4. \A b, g : DecField(b, g) \in Q <=> DecField(b, g) \in P
    BY <1>4, <1>9, CallFields
  <2>. QED  BY <2>1, <2>2, <2>3, <2>4
<1>11. \A b, g : b # o => (Released(Q, b, g) <=> Released(P, b, g))
  BY <1>10 DEF Released, Releasing
<1>12. \A f : Void(o, f)
  BY <1>2, <1>4, <1>9, <1>10 DEF Void, Released, Releasing, Frees
<1>13. \A x : Links(x)' = Links(x)
  <2>. TAKE x
  <2>1. \A b \in Obj, g \in Slot : b # o => (Void(b, g)' <=> Void(b, g))
    BY <1>7, <1>9, <1>11, VoidStep
  <2>2. alloc' \X Slot = {b \in alloc \X Slot : b[1] # o}
    BY <1>7
  <2>3. \A b \in alloc' \X Slot : b[1] \in Obj /\ b[1] # o /\ b[2] \in Slot
    BY <1>7, <1>8 DEF Types
  <2>4. \A b \in alloc' \X Slot : Void(b[1], b[2])' <=> Void(b[1], b[2])
    BY <2>1, <2>3
  <2>5. \A b \in alloc' \X Slot : child'[b[1]][b[2]] = child[b[1]][b[2]]
    BY <1>7, <1>8, <2>3 DEF Types
  <2>6. \A b \in alloc \X Slot : b[1] = o => Void(b[1], b[2])
    BY <1>12
  <2>. QED  BY <2>2, <2>4, <2>5, <2>6 DEF Links
<1>14. Lists'
  BY <1>5, <1>7, ListsStep DEF Inv
<1>15. FreshBlank'
  BY <1>1, <1>7, <1>8 DEF Inv, FreshBlank, Types
<1>16. Lending'
  <2>1. \A b \in Obj, g \in Slot : Assigned(b, g)' => Assigned(b, g)
    BY <1>7, <1>9, <1>10, AssignedStep
  <2>2. \A b \in Obj, g \in Slot : child'[b][g] = child[b][g] \/ Frees(t, b)
    BY <1>2, <1>7, <1>8 DEF Types
  <2>. QED  BY <1>5, <1>7, <2>1, <2>2, LendingStep
<1>17. Assignments'
  <2>1. \A b \in Obj, g \in Slot : DecField(b, g) \in Q => Releasing(Q, b, g)
    BY <1>4, <1>9, <1>10 DEF Inv, Assignments, Releasing
  <2>2. \A b \in Obj, g \in Slot : Assigning(Pending(t)', b, g) => Assigning(Pending(t), b, g)
    BY <1>9, <1>10
  <2>. QED  BY <1>7, <1>9, <2>1, <2>2, AssignmentsStep
<1>18. \A x : (Owns(t, x)' <=> Owns(t, x)) /\ (Puts(t, x)' <=> Puts(t, x))
  <2>1. \A x : /\ Owns(t, x)' <=> x \in held'[t]
               /\ Puts(t, x)' <=> \E d \in Pending(t)' : d.op = "assign" /\ d.obj = x
    BY <1>5, WeightsNext
  <2>2. \A x : /\ Owns(t, x) <=> x \in held[t]
               /\ Puts(t, x) <=> \E d \in Pending(t) : d.op = "assign" /\ d.obj = x
    BY <1>1, Weights
  <2>. QED  BY <1>7, <1>9, <1>10, <2>1, <2>2
<1>19. \A x \in Obj : ~Drops(t, x) /\ ~Drops(t, x)' /\ ~Tests(t, x)'
  BY <1>1, <1>5, CallFields DEF Drops, Tests
<1>20. Exact'
  <2>. SUFFICES ASSUME NEW x \in Obj  PROVE Changes(t, x, 0)
    <3>1. \A x \in Obj : (IF x \in alloc' THEN ref'[x] ELSE 0)
                           - (IF x \in alloc THEN ref[x] ELSE 0) = 0
      BY <1>2, <1>7, <1>8 DEF Types
    <3>2. (\A x \in Obj : Changes(t, x, 0))
             => \A x \in Obj : Changes(t, x, (IF x \in alloc' THEN ref'[x] ELSE 0)
                                             - (IF x \in alloc THEN ref[x] ELSE 0))
      BY <3>1
    <3>. QED  BY <1>7, <1>8, <3>2, ExactStep
  <2>1. Cardinality(Links(x)') = Cardinality(Links(x)) /\ Cardinality(Links(x)) \in Nat
    BY <1>8, <1>13, CountIs
  <2>. QED  BY <1>18, <1>19, <2>1 DEF Changes, One
<1>21. Apart'
  BY <1>1, <1>7, <1>19, StillStep
<1>22. Dying'
  <2>1. \A x \in Obj : Frees(t, x)' <=> Frees(t, x) /\ x # o
    BY <1>9, <1>10 DEF Frees
  <2>2. \A u \in Thread, x \in Obj : Frees(u, x)' => Frees(u, x) /\ x # o
    BY <1>2, <1>6, <2>1 DEF Frees, Pending, Inv, Dying
  <2>3. \A u \in Thread, x \in Obj : Frees(u, x)' => x \in alloc' /\ ref'[x] = 0
    BY <1>7, <2>2 DEF Inv, Dying
  <2>4. \A u \in Thread \ {t}, x \in Obj : Tests(u, x) => x \in alloc'
    BY <1>2, <1>7 DEF Inv, Dying
  <2>. QED  BY <1>7, <1>19, <2>1, <2>3, <2>4, DyingStep
<1>. QED  BY <1>8, <1>14, <1>15, <1>16, <1>17, <1>20, <1>21, <1>22 DEF Inv

(* The field takes over the count its new target was given.                *)
LEMMA StoreStep ==
  ASSUME Inv, NEW t \in Thread, StoreField(t)
  PROVE  Inv'
<1>0. PICK a, f, y : a = Head(left[t]).to /\ f = Head(left[t]).field /\ y = Object(t)
  OBVIOUS
<1>1. /\ left[t] # <<>> /\ Head(left[t]).op = "assign" /\ loaded[t] = NOTHING
      /\ Head(left[t]) \in Pending(t) /\ Head(left[t]) \in RefCalls /\ Doing(t, "assign")
  BY AtHead DEF StoreField
<1>2. a \in Obj /\ f \in Slot /\ y \in Target /\ Head(left[t]) = Assignment(a, f, y)
  BY <1>0, <1>1, CallKinds DEF Object
<1>3. Proceeds(t, <<>>)
  BY DEF StoreField
<1>4. left'[t] = <<>> /\ Pending(t)' = Pending(t) \ {Head(left[t])} /\ Pending(t)' = {}
  BY <1>1, <1>3, Popped, ToSetEmpty DEF Inv, Pending
<1>5. Pending(t) = {Assignment(a, f, y)}
  BY <1>1, <1>2, <1>4
<1>6. /\ left' = [u \in Thread |-> left'[u]] /\ \A u \in Thread \ {t} : left'[u] = left[u]
  BY <1>3, ProceedsTo DEF Inv
<1>7. /\ Others(t) /\ loaded' = loaded /\ held' = held /\ alloc' = alloc /\ ref' = ref
      /\ child' = [child EXCEPT ![a][f] = y]
  BY <1>0, <1>6 DEF StoreField, Others
<1>8. child' \in [Obj -> [Slot -> Target]]
      /\ \A b \in Obj, g \in Slot :
            child'[b][g] = IF b = a /\ g = f THEN y ELSE child[b][g]
  BY <1>2, <1>7 DEF Inv, Types
<1>9. Types /\ Types'
  BY <1>6, <1>7, <1>8 DEF Inv, Types
<1>10. Assigning(Pending(t), a, f) /\ \A d : DecField(a, f) \notin Pending(t)
  BY <1>5, CallFields DEF Assigning
<1>11. a \in alloc /\ \A u \in Thread \ {t} : ~Releasing(Pending(u), a, f)
  BY <1>2, <1>10, FieldFacts DEF Releasing
<1>12. PICK P, Q : P = Pending(t) /\ Q = Pending(t)'
  OBVIOUS
<1>13. /\ \A b, g : ~Assigning(Q, b, g) /\ ~Releasing(Q, b, g) /\ ~Released(Q, b, g)
       /\ \A b, g : DecField(b, g) \notin Q
       /\ \A b, g : ~(b = a /\ g = f) => ~Released(P, b, g)
       /\ Released(P, a, f)
       /\ \A x \in Obj : ~Frees(t, x) /\ Call("free", x) \notin Q
  <2>1. /\ \A b, g : ~Assigning(Q, b, g) /\ ~Releasing(Q, b, g) /\ ~Released(Q, b, g)
        /\ \A b, g : DecField(b, g) \notin Q
    BY <1>4, <1>12 DEF Assigning, Releasing, Released
  <2>2. \A b : Call("free", b) \notin P
    BY <1>5, <1>12, CallFields
  <2>3. \A b, g : ~(b = a /\ g = f) => ~Assigning(P, b, g)
    BY <1>5, <1>12, CallFields DEF Assigning
  <2>4. Released(P, a, f)
    BY <1>10, <1>12 DEF Released, Releasing
  <2>. QED  BY <1>4, <1>12, <2>1, <2>2, <2>3, <2>4 DEF Releasing, Released, Frees
<1>14. Void(a, f) /\ ~Void(a, f)'
  <2>1. Void(a, f)
    BY <1>12, <1>13 DEF Void
  <2>2. Void(a, f)' <=> \E u \in Thread : Released(Pending(u)', a, f)
    BY DEF Void, Released, Releasing, Assigning
  <2>3. \A u \in Thread \ {t} : Pending(u)' = Pending(u)
    BY <1>7 DEF Others, Pending
  <2>4. \A u \in Thread : ~Released(Pending(u)', a, f)
    BY <1>11, <1>12, <1>13, <2>3 DEF Released
  <2>. QED  BY <2>1, <2>2, <2>4
<1>15. \A b \in Obj, g \in Slot : ~(b = a /\ g = f) => (Void(b, g)' <=> Void(b, g))
  BY <1>7, <1>12, <1>13, VoidStep
<1>16. \A x : /\ Links(x) \ {<<a, f>>} = Links(x)' \ {<<a, f>>}
              /\ <<a, f>> \notin Links(x)
              /\ <<a, f>> \in Links(x)' <=> x = y
  <2>. TAKE x
  <2>1. \A l \in alloc \X Slot : l # <<a, f>> =>
           (Void(l[1], l[2])' <=> Void(l[1], l[2])) /\ child'[l[1]][l[2]] = child[l[1]][l[2]]
    BY <1>8, <1>15 DEF Inv, Types
  <2>2. Links(x) \ {<<a, f>>} = Links(x)' \ {<<a, f>>}
    BY <1>7, <2>1 DEF Links
  <2>3. <<a, f>> \notin Links(x)
    BY <1>14 DEF Links
  <2>4. <<a, f>> \in Links(x)' <=> x = y
    BY <1>2, <1>7, <1>8, <1>11, <1>14 DEF Links
  <2>. QED  BY <2>2, <2>3, <2>4
<1>17. Lists' /\ FreshBlank'
  <2>1. Lists'
    BY <1>4, <1>7, FirstLists, ListsStep DEF Inv
  <2>2. FreshBlank'
    BY <1>7, <1>8, <1>11 DEF Inv, FreshBlank, Types
  <2>. QED  BY <2>1, <2>2
<1>18. Lending'
  <2>1. \A b \in Obj, g \in Slot : Assigned(b, g)' => Assigned(b, g)
    BY <1>7, <1>12, <1>13, AssignedStep
  <2>2. Assigned(a, f)
    BY <1>10 DEF Assigned, Assigning
  <2>3. \A b \in Obj, g \in Slot : child'[b][g] = child[b][g] \/ Assigned(b, g)
    BY <1>8, <2>2
  <2>. QED  BY <1>4, <1>7, <2>1, <2>3, LendingStep
<1>19. Assignments'
  <2>1. \A b \in Obj, g \in Slot : DecField(b, g) \in Pending(t)' => Releasing(Pending(t)', b, g)
    BY <1>12, <1>13
  <2>2. \A b \in Obj, g \in Slot : Assigning(Pending(t)', b, g) => Assigning(Pending(t), b, g)
    BY <1>12, <1>13
  <2>. QED  BY <1>7, <2>1, <2>2, AssignmentsStep
<1>20. \A x : (Owns(t, x)' <=> Owns(t, x)) /\ (Puts(t, x) <=> x = y) /\ ~Puts(t, x)'
  <2>1. \A x : /\ Owns(t, x)' <=> x \in held'[t]
               /\ Puts(t, x)' <=> \E d \in Pending(t)' : d.op = "assign" /\ d.obj = x
    BY <1>4, WeightsNext
  <2>2. \A x : /\ Owns(t, x) <=> x \in held[t]
               /\ Puts(t, x) <=> \E d \in Pending(t) : d.op = "assign" /\ d.obj = x
    BY <1>1, Weights
  <2>. QED  BY <1>4, <1>5, <1>7, <2>1, <2>2, CallFields
<1>21. \A x \in Obj : ~Drops(t, x) /\ ~Drops(t, x)' /\ ~Tests(t, x)'
  BY <1>1, <1>4, CallFields DEF Drops, Tests
<1>22. Exact'
  <2>. SUFFICES ASSUME NEW x \in Obj  PROVE Changes(t, x, 0)
    BY <1>7, <1>9, ExactStep DEF Types
  <2>1. /\ Cardinality(Links(x)) \in Nat
        /\ Cardinality(Links(x)') - Cardinality(Links(x))
             = One(<<a, f>> \in Links(x)') - One(<<a, f>> \in Links(x))
    BY <1>9, <1>16, LinksChange
  <2>2. One(<<a, f>> \in Links(x)) = 0 /\ One(<<a, f>> \in Links(x)') = One(Puts(t, x))
        /\ One(Puts(t, x)') = 0
    BY <1>16, <1>20 DEF One
  <2>3. /\ One(Owns(t, x)') = One(Owns(t, x)) /\ One(Drops(t, x)') = One(Drops(t, x))
        /\ One(Owns(t, x)) \in Nat /\ One(Puts(t, x)) \in Nat /\ One(Drops(t, x)) \in Nat
    BY <1>20, <1>21 DEF One
  <2>. QED  BY <2>1, <2>2, <2>3 DEF Changes
<1>23. Apart' /\ Dying'
  <2>1. \A u \in Thread, x \in Obj : Frees(u, x)' => Frees(u, x)
    BY <1>6, <1>12, <1>13 DEF Frees, Pending
  <2>. QED  BY <1>1, <1>7, <1>21, <2>1, StillStep
<1>. QED  BY <1>9, <1>17, <1>18, <1>19, <1>22, <1>23 DEF Inv

(* A load: unless another thread is in the middle of counting the object.  *)
LEMMA LoadStep ==
  ASSUME Inv, NEW t \in Thread, Load(t), ~raced'
  PROVE  Inv'
<1>. DEFINE o == Object(t)
<1>1. /\ Doing(t, "inc") \/ Doing(t, "dec")
      /\ o \in Obj /\ loaded' = [loaded EXCEPT ![t] = ref[o]]
      /\ UNCHANGED <<ref, alloc, child, held, left>>
  BY AtHead DEF Load, Target
<1>2. Types'
  BY <1>1 DEF Inv, Types
<1>3. Lists' /\ FreshBlank' /\ Dying' /\ Assignments' /\ Lending' /\ Exact'
  <2>1. Lists' /\ FreshBlank'
    BY <1>1 DEF Inv, Lists, FreshBlank
  <2>2. Dying' /\ Assignments'
    BY <1>1 DEF Inv, Dying, Assignments, Frees, Tests, Assigning, Releasing, Pending
  <2>3. Lending'
    BY <1>1 DEF Inv, Lending, Kept, Owns, Assigned, Pending, Doing, Object
  <2>4. \A x : Owning(x)' = Owning(x) /\ Dropping(x)' = Dropping(x) /\ Putting(x)' = Putting(x)
               /\ Links(x)' = Links(x)
    BY <1>1 DEF Owning, Dropping, Putting, Links, Owns, Drops, Puts, Pending, Void, Released,
       Releasing, Assigning
  <2>5. Exact'
    BY <1>1, <2>4 DEF Inv, Exact, Count
  <2>. QED  BY <2>1, <2>2, <2>3, <2>5
<1>4. \A u \in Thread \ {t} : ~Middle(u, o)
  <2>1. ~InMiddle(t, o)
    BY DEF Load
  <2>2. \A u \in Thread : Tests(u, o) => Doing(u, "test") /\ Object(u) = o
    BY CallFields DEF Tests, Doing, Object
  <2>. QED  BY <2>1, <2>2 DEF InMiddle, Middle
<1>5. \A u \in Thread : Object(u)' = Object(u) /\ \A x : Tests(u, x)' <=> Tests(u, x)
  BY <1>1 DEF Object, Tests
<1>6. \A u \in Thread, x \in Obj : Middle(u, x)' => Middle(u, x) \/ (u = t /\ x = o)
  BY <1>1, <1>5 DEF Middle, Inv, Types
<1>7. \A u \in Thread, v \in Thread, x \in Obj : Middle(u, x)' /\ Middle(v, x)' => u = v
  BY <1>4, <1>6 DEF Inv, Apart
<1>8. ASSUME NEW u \in Thread, loaded'[u] # NOTHING
      PROVE  /\ Doing(u, "inc")' \/ Doing(u, "dec")'
             /\ Object(u)' \in Obj /\ loaded'[u] = ref'[Object(u)']
  BY <1>1, <1>5, <1>8 DEF Inv, Types, Apart, Doing
<1>9. Apart'
  BY <1>5, <1>7, <1>8 DEF Apart
<1>. QED  BY <1>2, <1>3, <1>9 DEF Inv

-----------------------------------------------------------------------------
(* The calls of the program.  An object another thread is about to count   *)
(* stays with those who keep it.                                           *)
LEMMA LendingAnew ==
  ASSUME Inv, NEW t \in Thread, Others(t),
         \A x \in Obj : Owns(t, x) /\ Counting(t, x) => Owns(t, x)',
         \A a \in Obj, f \in Slot :
            \/ child'[a][f] = child[a][f] /\ (Assigned(a, f)' => Assigned(a, f))
            \/ child[a][f] \notin Obj
            \/ ~Counting(t, child[a][f]),
         Doing(t, "inc")' /\ Object(t)' \in Obj => Kept(t, Object(t))'
  PROVE  Lending'
<1>. SUFFICES ASSUME NEW u \in Thread, u # t, Doing(u, "inc")', Object(u)' \in Obj
              PROVE  Kept(u, Object(u))'
  BY DEF Lending
<1>1. left'[u] = left[u] /\ held'[u] = held[u]
  BY DEF Others
<1>2. PICK o \in Obj : o = Object(u) /\ o = Object(u)'
  BY <1>1 DEF Object
<1>3. Doing(u, "inc") /\ Kept(u, o)
  BY <1>1, <1>2 DEF Doing, Inv, Lending
<1>4. Counting(t, o)
  <2>1. Head(left[u]) \in Pending(u) /\ Head(left[u]) = Call("inc", Object(u))
    BY <1>3, AtHead
  <2>. QED  BY <1>2, <2>1 DEF Counting
<1>5. ASSUME Len(left[u]) = 3  PROVE Kept(u, o)'
  BY <1>1, <1>3, <1>5 DEF Kept
<1>6. ASSUME NEW v \in Thread \ {u}, Owns(v, o)  PROVE Kept(u, o)'
  <2>1. Owns(v, o)'
    BY <1>4, <1>6 DEF Owns, Others
  <2>. QED  BY <1>1, <1>3, <2>1 DEF Kept
<1>7. ASSUME NEW a \in held[u] \ {o}, NEW f \in Slot, child[a][f] = o, ~Assigned(a, f)
      PROVE  Kept(u, o)'
  <2>1. a \in Obj
    BY HeldLives
  <2>2. child'[a][f] = o /\ ~Assigned(a, f)'
    BY <1>4, <1>7, <2>1
  <2>. QED  BY <1>1, <1>3, <1>7, <2>2 DEF Kept
<1>8. Kept(u, o)'
  BY <1>1, <1>3, <1>5, <1>6, <1>7 DEF Kept
<1>. QED  BY <1>2, <1>8

LEMMA QuietThread ==
  ASSUME Inv, NEW t \in Thread, left[t] = <<>>
  PROVE  /\ loaded[t] = NOTHING /\ Pending(t) = {}
         /\ \A x : ~Puts(t, x) /\ ~Drops(t, x) /\ ~Tests(t, x) /\ ~Frees(t, x)
         /\ \A x : Owns(t, x) <=> x \in held[t]
         /\ \A a, f : ~Assigning(Pending(t), a, f) /\ ~Released(Pending(t), a, f)
<1>1. Pending(t) = {}
  BY ToSetEmpty DEF Pending
<1>2. \A x : Owns(t, x) <=> x \in held[t]
  BY Weights
<1>3. loaded[t] = NOTHING
  BY DEF Inv, Apart, Doing
<1>. QED  BY <1>1, <1>2, <1>3 DEF Puts, Drops, Tests, Frees, Assigning, Released, Releasing

(* A thread begins a call that has not released anything yet.              *)
LEMMA BeginsStep ==
  ASSUME Inv, NEW t \in Thread, left[t] = <<>>, Others(t),
         alloc' = alloc, child' = child, ref' = ref, loaded' = loaded, ListOK(left'[t]),
         \A x : ~Frees(t, x)' /\ ~Tests(t, x)',
         \A a \in Obj, f \in Slot : ~Released(Pending(t)', a, f)
  PROVE  /\ Lists' /\ FreshBlank' /\ Dying' /\ Apart'
         /\ \A x : Links(x)' = Links(x)
<1>1. /\ loaded[t] = NOTHING /\ Pending(t) = {}
      /\ \A a, f : ~Assigning(Pending(t), a, f) /\ ~Released(Pending(t), a, f)
  BY QuietThread
<1>2. Lists' /\ FreshBlank'
  BY ListsStep DEF Inv, FreshBlank
<1>3. Apart' /\ Dying'
  <2>1. \A u \in Thread, x \in Obj : Frees(u, x)' => Frees(u, x)
    BY DEF Others, Frees, Pending
  <2>. QED  BY <1>1, <2>1, StillStep
<1>4. \A x : Links(x)' = Links(x)
  <2>1. \A a \in Obj, f \in Slot : Void(a, f)' <=> Void(a, f)
    BY <1>1, VoidStep
  <2>. QED  BY <2>1, LinksSame DEF Inv
<1>. QED  BY <1>2, <1>3, <1>4

(* A call that counts and nothing else.                                    *)
LEMMA CountBegins ==
  ASSUME NEW t \in Thread, NEW op \in {"inc", "dec"}, NEW o \in Target,
         left'[t] = <<Call(op, o)>>
  PROVE  /\ ListOK(left'[t]) /\ left'[t] # <<>> /\ Head(left'[t]) = Call(op, o)
         /\ \A x : ~Frees(t, x)' /\ ~Tests(t, x)' /\ ~Puts(t, x)'
         /\ \A a, f : /\ ~Released(Pending(t)', a, f) /\ ~Assigning(Pending(t)', a, f)
                      /\ DecField(a, f) \notin Pending(t)'
<1>1. PICK s : s = <<Call(op, o)>>
  OBVIOUS
<1>2. ListOK(s) /\ s # <<>> /\ Head(s) = Call(op, o) /\ ToSet(s) = {Call(op, o)}
  BY <1>1, FirstLists
<1>3. Pending(t)' = {Call(op, o)} /\ left'[t] = s
  BY <1>1, <1>2 DEF Pending
<1>4. \A c \in Pending(t)' : c.op = op
  BY <1>3, CallFields
<1>5. \A x : ~Frees(t, x)' /\ ~Tests(t, x)' /\ ~Puts(t, x)'
  BY <1>2, <1>3, <1>4, CallFields DEF Frees, Tests, Puts
<1>6. \A a, f : ~Assigning(Pending(t)', a, f) /\ DecField(a, f) \notin Pending(t)'
                /\ Call("free", a) \notin Pending(t)'
  BY <1>4, CallFields DEF Assigning
<1>. QED  BY <1>2, <1>3, <1>5, <1>6 DEF Released, Releasing

(* The calls under way of the other threads keep their assignments.        *)
LEMMA AssignmentsKept ==
  ASSUME Inv, NEW t \in Thread, Others(t),
         \A a \in Obj, f \in Slot : /\ ~Assigning(Pending(t)', a, f)
                                     /\ DecField(a, f) \notin Pending(t)'
  PROVE  Assignments' /\ \A a \in Obj, f \in Slot : Assigned(a, f)' => Assigned(a, f)
<1>1. \A u \in Thread \ {t} : Pending(u)' = Pending(u) /\ held'[u] = held[u]
  BY DEF Others, Pending
<1>2. ASSUME NEW u \in Thread, NEW a \in Obj, NEW f \in Slot, Assigning(Pending(u)', a, f)
      PROVE  a \in held'[u] /\ \A v \in Thread : Assigning(Pending(v)', a, f) => v = u
  <2>1. \A v \in Thread : Assigning(Pending(v)', a, f) =>
           v # t /\ Assigning(Pending(v), a, f) /\ held'[v] = held[v]
    BY <1>1
  <2>. QED  BY <1>2, <2>1 DEF Inv, Assignments
<1>3. \A u \in Thread, a \in Obj, f \in Slot :
         DecField(a, f) \in Pending(u)' => Releasing(Pending(u)', a, f)
  BY <1>1 DEF Inv, Assignments
<1>4. \A a \in Obj, f \in Slot : Assigned(a, f)' => Assigned(a, f)
  BY AssignedStep
<1>. QED  BY <1>2, <1>3, <1>4 DEF Assignments, Assigning, Releasing

LEMMA ShareStep ==
  ASSUME Inv, NEW t \in Thread, Share(t)
  PROVE  Inv'
<1>1. PICK o \in Lent(t) \ (held[t] \cup {NOOBJ}) :
         /\ held' = [held EXCEPT ![t] = @ \cup {o}]
         /\ left' = [left EXCEPT ![t] = <<Call("inc", o)>>]
  BY DEF Share
<1>2. left[t] = <<>> /\ ref' = ref /\ alloc' = alloc /\ child' = child /\ loaded' = loaded
  BY DEF Share, Begins
<1>3. \/ \E u \in Thread \ {t} : left[u] = <<>> /\ o \in held[u]
      \/ \E a \in held[t] \ {o}, f \in Slot : child[a][f] = o /\ ~Assigned(a, f)
  <2>1. CASE o \in UNION {held[u] : u \in {v \in Thread : left[v] = <<>>}}
    BY <2>1
  <2>2. CASE o \in {child[b[1]][b[2]] : b \in {c \in held[t] \X Slot : ~Assigned(c[1], c[2])}}
    BY <2>2
  <2>3. o \in Lent(t)
    OBVIOUS
  <2>. QED  BY <2>1, <2>2, <2>3 DEF Lent
<1>4. o \in Obj
  BY <1>3, HeldLives DEF Inv, Types, Target
<1>5. /\ left'[t] = <<Call("inc", o)>> /\ \A u \in Thread \ {t} : left'[u] = left[u]
      /\ held'[t] = held[t] \cup {o} /\ \A u \in Thread \ {t} : held'[u] = held[u]
      /\ left' = [u \in Thread |-> left'[u]] /\ held' \in [Thread -> SUBSET Obj]
  BY <1>1, <1>4 DEF Inv, Types
<1>6. Others(t) /\ Types /\ Types'
  BY <1>2, <1>5 DEF Inv, Types, Others
<1>7. /\ ListOK(left'[t]) /\ left'[t] # <<>> /\ Head(left'[t]) = Call("inc", o)
      /\ \A x : ~Frees(t, x)' /\ ~Tests(t, x)' /\ ~Puts(t, x)'
      /\ \A a, f : /\ ~Released(Pending(t)', a, f) /\ ~Assigning(Pending(t)', a, f)
                   /\ DecField(a, f) \notin Pending(t)'
  BY <1>4, <1>5, CountBegins DEF Target
<1>8. /\ \A x : ~Puts(t, x) /\ ~Drops(t, x) /\ (Owns(t, x) <=> x \in held[t])
  BY <1>2, QuietThread
<1>9. \A x : Owns(t, x)' <=> Owns(t, x)
  <2>1. \A x : <<Call("inc", x)>> = <<Call("inc", o)>> <=> x = o
    <3>. TAKE x
    <3>1. <<Call("inc", x)>>[1] = Call("inc", x) /\ <<Call("inc", o)>>[1] = Call("inc", o)
      OBVIOUS
    <3>. QED  BY <3>1, CallFields
  <2>2. \A x : Owns(t, x)' <=> x \in held'[t] /\ x # o
    BY <1>5, <2>1 DEF Owns
  <2>. QED  BY <1>1, <1>5, <1>8, <2>2
<1>10. \A x : ~Drops(t, x)'
  BY <1>7, CallFields DEF Drops
<1>11. Lists' /\ FreshBlank' /\ Dying' /\ Apart' /\ \A x : Links(x)' = Links(x)
  BY <1>2, <1>6, <1>7, BeginsStep
<1>12. Assignments' /\ \A a \in Obj, f \in Slot : Assigned(a, f)' => Assigned(a, f)
  BY <1>6, <1>7, AssignmentsKept
<1>13. Kept(t, o)'
  <2>1. ASSUME NEW u \in Thread \ {t}, left[u] = <<>>, o \in held[u]  PROVE Kept(t, o)'
    <3>1. Owns(u, o)
      BY <2>1, QuietThread DEF Inv
    <3>2. Owns(u, o)'
      BY <1>5, <3>1 DEF Owns
    <3>. QED  BY <1>5, <3>2 DEF Kept
  <2>2. ASSUME NEW a \in held[t] \ {o}, NEW f \in Slot, child[a][f] = o, ~Assigned(a, f)
        PROVE  Kept(t, o)'
    <3>1. a \in Obj /\ a \in held'[t]
      BY <1>5, HeldLives
    <3>2. child'[a][f] = o /\ ~Assigned(a, f)'
      BY <1>2, <1>12, <2>2, <3>1
    <3>. QED  BY <1>5, <3>1, <3>2 DEF Kept
  <2>. QED  BY <1>3, <2>1, <2>2
<1>14. Lending'
  <2>1. Object(t)' = o
    BY <1>7, CallFields DEF Object
  <2>. QED  BY <1>2, <1>6, <1>9, <1>12, <1>13, <2>1, LendingAnew
<1>15. Exact'
  <2>. SUFFICES ASSUME NEW x \in Obj  PROVE Changes(t, x, 0)
    <3>1. \A x \in Obj : (IF x \in alloc' THEN ref'[x] ELSE 0)
                           - (IF x \in alloc THEN ref[x] ELSE 0) = 0
      BY <1>2, <1>6 DEF Types
    <3>2. (\A x \in Obj : Changes(t, x, 0))
             => \A x \in Obj : Changes(t, x, (IF x \in alloc' THEN ref'[x] ELSE 0)
                                             - (IF x \in alloc THEN ref[x] ELSE 0))
      BY <3>1
    <3>. QED  BY <1>6, <3>2, ExactStep
  <2>1. Cardinality(Links(x)') = Cardinality(Links(x)) /\ Cardinality(Links(x)) \in Nat
    BY <1>6, <1>11, CountIs
  <2>. QED  BY <1>7, <1>8, <1>9, <1>10, <2>1 DEF Changes, One
<1>. QED  BY <1>6, <1>11, <1>12, <1>14, <1>15 DEF Inv

LEMMA ReleaseStep ==
  ASSUME Inv, NEW t \in Thread, Release(t)
  PROVE  Inv'
<1>1. PICK o \in held[t] :
         /\ ~Counting(t, o)
         /\ held' = [held EXCEPT ![t] = @ \ {o}]
         /\ left' = [left EXCEPT ![t] = <<Call("dec", o)>>]
  BY DEF Release
<1>2. left[t] = <<>> /\ ref' = ref /\ alloc' = alloc /\ child' = child /\ loaded' = loaded
  BY DEF Release, Begins
<1>3. o \in Obj
  BY HeldLives
<1>4. /\ left'[t] = <<Call("dec", o)>> /\ \A u \in Thread \ {t} : left'[u] = left[u]
      /\ held'[t] = held[t] \ {o} /\ \A u \in Thread \ {t} : held'[u] = held[u]
      /\ left' = [u \in Thread |-> left'[u]] /\ held' \in [Thread -> SUBSET Obj]
  BY <1>1, <1>3 DEF Inv, Types
<1>5. Others(t) /\ Types /\ Types'
  BY <1>2, <1>4 DEF Inv, Types, Others
<1>6. /\ ListOK(left'[t]) /\ left'[t] # <<>> /\ Head(left'[t]) = Call("dec", o)
      /\ \A x : ~Frees(t, x)' /\ ~Tests(t, x)' /\ ~Puts(t, x)'
      /\ \A a, f : /\ ~Released(Pending(t)', a, f) /\ ~Assigning(Pending(t)', a, f)
                   /\ DecField(a, f) \notin Pending(t)'
  BY <1>3, <1>4, CountBegins DEF Target
<1>7. /\ \A x : ~Puts(t, x) /\ ~Drops(t, x) /\ (Owns(t, x) <=> x \in held[t])
  BY <1>2, QuietThread
<1>8. \A x : (Owns(t, x)' <=> x \in held[t] /\ x # o) /\ (Drops(t, x)' <=> x = o)
  <2>1. Head(left'[t]).op # "inc"
    BY <1>6, CallFields
  <2>2. \A x : Owns(t, x)' <=> x \in held'[t]
    BY <2>1, WeightsNext
  <2>. QED  BY <1>4, <1>6, <2>2, CallFields DEF Drops
<1>9. Lists' /\ FreshBlank' /\ Dying' /\ Apart' /\ \A x : Links(x)' = Links(x)
  BY <1>2, <1>5, <1>6, BeginsStep
<1>10. Assignments' /\ \A a \in Obj, f \in Slot : Assigned(a, f)' => Assigned(a, f)
  BY <1>5, <1>6, AssignmentsKept
<1>11. Lending'
  <2>1. ~Doing(t, "inc")'
    BY <1>6, CallFields DEF Doing
  <2>2. \A x \in Obj : Owns(t, x) /\ Counting(t, x) => Owns(t, x)'
    BY <1>1, <1>7, <1>8
  <2>. QED  BY <1>2, <1>5, <1>10, <2>1, <2>2, LendingAnew
<1>12. Exact'
  <2>. SUFFICES ASSUME NEW x \in Obj  PROVE Changes(t, x, 0)
    <3>1. \A x \in Obj : (IF x \in alloc' THEN ref'[x] ELSE 0)
                           - (IF x \in alloc THEN ref[x] ELSE 0) = 0
      BY <1>2, <1>5 DEF Types
    <3>2. (\A x \in Obj : Changes(t, x, 0))
             => \A x \in Obj : Changes(t, x, (IF x \in alloc' THEN ref'[x] ELSE 0)
                                             - (IF x \in alloc THEN ref[x] ELSE 0))
      BY <3>1
    <3>. QED  BY <1>5, <3>2, ExactStep
  <2>1. Cardinality(Links(x)') = Cardinality(Links(x)) /\ Cardinality(Links(x)) \in Nat
    BY <1>5, <1>9, CountIs
  <2>. QED  BY <1>6, <1>7, <1>8, <2>1 DEF Changes, One
<1>. QED  BY <1>5, <1>9, <1>10, <1>11, <1>12 DEF Inv

LEMMA UpdateStep ==
  ASSUME Inv, NEW t \in Thread, gc_update(t)
  PROVE  Inv'
<1>1. PICK a \in held[t], f \in Slot, o \in held[t] \cup {NOOBJ} :
         /\ ~Assigned(a, f) /\ ~Counting(t, child[a][f])
         /\ left' = [left EXCEPT ![t] = <<Call("inc", o), DecField(a, f), Assignment(a, f, o)>>]
  BY DEF gc_update
<1>2. /\ left[t] = <<>> /\ ref' = ref /\ alloc' = alloc /\ child' = child /\ held' = held
      /\ loaded' = loaded
  BY DEF gc_update, Begins
<1>3. a \in Obj /\ o \in Target
  BY HeldLives DEF Target
<1>4. PICK s : s = <<Call("inc", o), DecField(a, f), Assignment(a, f, o)>>
  OBVIOUS
<1>5. /\ ListOK(s) /\ s # <<>> /\ Head(s) = Call("inc", o) /\ Len(s) = 3
      /\ ToSet(s) = {Call("inc", o), DecField(a, f), Assignment(a, f, o)}
  BY <1>3, <1>4, UpdateList
<1>6. /\ left'[t] = s /\ \A u \in Thread \ {t} : left'[u] = left[u]
      /\ left' = [u \in Thread |-> left'[u]]
  BY <1>1, <1>4 DEF Inv, Types
<1>7. Others(t) /\ Types /\ Types'
  BY <1>2, <1>6 DEF Inv, Types, Others
<1>8. PICK Q : Q = Pending(t)' /\ Q = {Call("inc", o), DecField(a, f), Assignment(a, f, o)}
  BY <1>5, <1>6 DEF Pending
<1>9. /\ \A b, g : Assigning(Q, b, g) <=> b = a /\ g = f
      /\ \A b, g : DecField(b, g) \in Q <=> b = a /\ g = f
      /\ \A b : Call("free", b) \notin Q
  <2>1. \A c : c \in Q <=> c = Call("inc", o) \/ c = DecField(a, f) \/ c = Assignment(a, f, o)
    BY <1>8
  <2>. HIDE <1>8
  <2>2. \A b, g : Assigning(Q, b, g) <=> b = a /\ g = f
    BY <2>1, CallFields DEF Assigning
  <2>3. \A b, g : DecField(b, g) \in Q <=> b = a /\ g = f
    BY <2>1, CallFields
  <2>4. \A b : Call("free", b) \notin Q
    BY <2>1, CallFields
  <2>. QED  BY <2>2, <2>3, <2>4
<1>10. \A x : ~Frees(t, x)' /\ ~Tests(t, x)' /\ ~Puts(t, x)' /\ ~Drops(t, x)'
  <2>1. Head(left'[t]) = Call("inc", o) /\ Head(left'[t]).op = "inc"
    BY <1>5, <1>6, CallFields
  <2>. QED  BY <1>8, <1>9, <2>1, CallFields DEF Frees, Tests, Puts, Drops
<1>11. \A b, g : ~Released(Q, b, g)
  BY <1>9 DEF Released, Releasing
<1>12. Lists' /\ FreshBlank' /\ Dying' /\ Apart' /\ \A x : Links(x)' = Links(x)
  BY <1>2, <1>5, <1>6, <1>7, <1>8, <1>10, <1>11, BeginsStep
<1>13. \A x : (Owns(t, x)' <=> Owns(t, x)) /\ ~Puts(t, x) /\ ~Drops(t, x)
  <2>1. \A x : left'[t] # <<Call("inc", x)>>
    BY <1>5, <1>6
  <2>. QED  BY <1>2, <2>1, QuietThread DEF Owns
<1>14. Exact'
  <2>. SUFFICES ASSUME NEW x \in Obj  PROVE Changes(t, x, 0)
    <3>1. \A x \in Obj : (IF x \in alloc' THEN ref'[x] ELSE 0)
                           - (IF x \in alloc THEN ref[x] ELSE 0) = 0
      BY <1>2, <1>7 DEF Types
    <3>2. (\A x \in Obj : Changes(t, x, 0))
             => \A x \in Obj : Changes(t, x, (IF x \in alloc' THEN ref'[x] ELSE 0)
                                             - (IF x \in alloc THEN ref[x] ELSE 0))
      BY <3>1
    <3>. QED  BY <1>7, <3>2, ExactStep
  <2>1. Cardinality(Links(x)') = Cardinality(Links(x)) /\ Cardinality(Links(x)) \in Nat
    BY <1>7, <1>12, CountIs
  <2>. QED  BY <1>10, <1>13, <2>1 DEF Changes, One
<1>15. \A u \in Thread \ {t} : Pending(u)' = Pending(u) /\ ~Assigning(Pending(u), a, f)
  BY <1>1, <1>7 DEF Others, Pending, Assigned, Assigning
<1>16. Assignments'
  <2>1. ASSUME NEW u \in Thread, NEW b \in Obj, NEW g \in Slot, Assigning(Pending(u)', b, g)
        PROVE  b \in held'[u] /\ \A v \in Thread : Assigning(Pending(v)', b, g) => v = u
    <3>1. CASE b = a /\ g = f
      BY <1>2, <1>15, <2>1, <3>1
    <3>2. CASE ~(b = a /\ g = f)
      <4>1. \A v \in Thread : Assigning(Pending(v)', b, g) => Assigning(Pending(v), b, g)
        BY <1>8, <1>9, <1>15, <3>2
      <4>. QED  BY <1>2, <2>1, <4>1 DEF Inv, Assignments
    <3>. QED  BY <3>1, <3>2
  <2>2. \A u \in Thread, b \in Obj, g \in Slot :
           DecField(b, g) \in Pending(u)' => Releasing(Pending(u)', b, g)
    <3>1. \A b, g : DecField(b, g) \in Q => Releasing(Q, b, g)
      BY <1>9 DEF Releasing
    <3>2. \A u \in Thread \ {t}, b \in Obj, g \in Slot :
             DecField(b, g) \in Pending(u)' => Releasing(Pending(u)', b, g)
      BY <1>15 DEF Inv, Assignments
    <3>. QED  BY <1>8, <3>1, <3>2
  <2>. QED  BY <2>1, <2>2 DEF Assignments, Assigning, Releasing
<1>17. \A b \in Obj, g \in Slot : Assigned(b, g)' => Assigned(b, g) \/ (b = a /\ g = f)
  BY <1>7, <1>8, <1>9, AssignedStep
<1>18. Object(t)' \in Obj => Kept(t, Object(t))'
  <2>1. Object(t)' = o
    BY <1>5, <1>6, CallFields DEF Object
  <2>2. o \in Obj => Kept(t, o)'
    BY <1>2, <1>5, <1>6, RefcountAssumption DEF Kept
  <2>. QED  BY <2>1, <2>2
<1>19. Lending'
  <2>1. \A b \in Obj, g \in Slot :
           \/ child'[b][g] = child[b][g] /\ (Assigned(b, g)' => Assigned(b, g))
           \/ ~Counting(t, child[b][g])
    BY <1>1, <1>2, <1>17
  <2>. QED  BY <1>7, <1>13, <1>18, <2>1, LendingAnew
<1>. QED  BY <1>7, <1>12, <1>14, <1>16, <1>19 DEF Inv

(* A new object: nothing refers to it but the variable or the field.       *)
LEMMA MallocStep ==
  ASSUME Inv, NEW t \in Thread, gc_malloc(t)
  PROVE  Inv'
<1>1. PICK o \in Obj \ alloc :
         /\ alloc' = alloc \cup {o} /\ ref' = [ref EXCEPT ![o] = 1]
         /\ \/ held' = [held EXCEPT ![t] = @ \cup {o}] /\ child' = child
            \/ \E a \in held[t], f \in Slot :
                  /\ child[a][f] = NOOBJ /\ ~Assigned(a, f)
                  /\ child' = [child EXCEPT ![a][f] = o] /\ held' = held
  BY DEF gc_malloc
<1>2. left[t] = <<>> /\ left' = left /\ loaded' = loaded
  BY DEF gc_malloc, Begins
<1>3. held' \in [Thread -> SUBSET Obj] /\ \A u \in Thread \ {t} : held'[u] = held[u]
  BY <1>1 DEF Inv, Types
<1>4. held[t] \subseteq held'[t]
  BY <1>1 DEF Inv, Types
<1>5. child' \in [Obj -> [Slot -> Target]]
      /\ \A b \in Obj, g \in Slot :
            child'[b][g] # child[b][g] => b \in alloc /\ child[b][g] = NOOBJ
  <2>1. CASE child' = child
    BY <2>1 DEF Inv, Types
  <2>2. ASSUME NEW a \in held[t], NEW f \in Slot, child[a][f] = NOOBJ,
               child' = [child EXCEPT ![a][f] = o]
        PROVE  /\ child' \in [Obj -> [Slot -> Target]]
               /\ \A b \in Obj, g \in Slot :
                     child'[b][g] # child[b][g] => b \in alloc /\ child[b][g] = NOOBJ
    <3>1. a \in Obj /\ Live(a)
      BY HeldLives
    <3>. QED  BY <2>2, <3>1 DEF Inv, Types, Live, Target
  <2>. QED  BY <1>1, <2>1, <2>2
<1>6. Others(t) /\ Types /\ Types'
  <2>1. Others(t)
    BY <1>2, <1>3 DEF Others
  <2>2. ref' \in [Obj -> Int] /\ alloc' \in SUBSET Obj
    BY <1>1 DEF Inv, Types
  <2>3. left' = [u \in Thread |-> left'[u]] /\ loaded' \in [Thread -> Int]
    BY <1>2 DEF Inv, Types
  <2>. QED  BY <1>3, <1>5, <2>1, <2>2, <2>3 DEF Inv, Types
<1>7. \A x \in Obj : ref'[x] = IF x = o THEN 1 ELSE ref[x]
  BY <1>1 DEF Inv, Types
<1>8. \A u \in Thread : Pending(u)' = Pending(u) /\ Object(u)' = Object(u)
  BY <1>2 DEF Pending, Object
<1>9. /\ \A u \in Thread : \A x : (Frees(u, x)' <=> Frees(u, x)) /\ (Tests(u, x)' <=> Tests(u, x))
      /\ \A b, g : Assigned(b, g)' <=> Assigned(b, g)
      /\ \A b, g : Void(b, g)' <=> Void(b, g)
  BY <1>2, <1>8 DEF Frees, Tests, Assigned, Void, Released, Releasing, Assigning, Pending
<1>10. /\ loaded[t] = NOTHING
       /\ \A x : ~Puts(t, x) /\ ~Drops(t, x) /\ ~Puts(t, x)' /\ ~Drops(t, x)' /\ ~Tests(t, x)
       /\ \A x : (Owns(t, x) <=> x \in held[t]) /\ (Owns(t, x)' <=> x \in held'[t])
  BY <1>2, QuietThread, WeightsNext DEF Puts, Drops
<1>11. Lists' /\ FreshBlank'
  BY <1>1, <1>2, <1>5 DEF Inv, Lists, FreshBlank, Types
<1>12. Dying'
  <2>1. \A u \in Thread, x \in Obj : Frees(u, x)' => x \in alloc' /\ ref'[x] = 0
    BY <1>1, <1>7, <1>9 DEF Inv, Dying
  <2>. QED  BY <1>1, <1>6, <1>9, <1>10, <2>1, DyingStep DEF Inv, Dying
<1>13. Assignments'
  BY <1>3, <1>4, <1>8 DEF Inv, Assignments, Assigning, Releasing
<1>14. Apart'
  <2>1. ASSUME NEW u \in Thread \ {t}, loaded[u] # NOTHING  PROVE ref'[Object(u)] = ref[Object(u)]
    <3>1. Object(u) \in Obj /\ Live(Object(u))
      BY <2>1, IncLives, DecLives DEF Inv, Apart
    <3>. QED  BY <1>7, <3>1 DEF Live
  <2>. QED  BY <1>2, <1>6, <1>9, <1>10, <2>1, ApartStep
<1>15. Lending'
  <2>1. \A b \in Obj, g \in Slot :
           \/ child'[b][g] = child[b][g] /\ (Assigned(b, g)' => Assigned(b, g))
           \/ child[b][g] \notin Obj
    BY <1>5, <1>9, RefcountAssumption
  <2>2. ~Doing(t, "inc")'
    BY <1>2 DEF Doing
  <2>3. \A x \in Obj : Owns(t, x) /\ Counting(t, x) => Owns(t, x)'
    BY <1>4, <1>10
  <2>. QED  BY <1>6, <2>1, <2>2, <2>3, LendingAnew
<1>16. Exact'
  <2>. SUFFICES ASSUME NEW x \in Obj  PROVE Changes(t, x, IF x = o THEN 1 ELSE 0)
    BY <1>1, <1>6, <1>7, ExactStep DEF Types
  <2>1. CASE held' = [held EXCEPT ![t] = @ \cup {o}] /\ child' = child
    <3>1. Owns(t, x)' <=> Owns(t, x) \/ x = o
      BY <1>6, <1>10, <2>1 DEF Types
    <3>2. ~Owns(t, o)
      BY <1>10, HeldLives DEF Live
    <3>3. Links(x)' = Links(x)
      <4>1. x # NOOBJ
        BY RefcountAssumption
      <4>2. \A g \in Slot : child[o][g] = NOOBJ
        BY DEF Inv, FreshBlank
      <4>. QED  BY <1>1, <1>9, <2>1, <4>1, <4>2 DEF Links
    <3>4. Cardinality(Links(x)') = Cardinality(Links(x)) /\ Cardinality(Links(x)) \in Nat
      BY <1>6, <3>3, CountIs
    <3>. QED  BY <1>10, <3>1, <3>2, <3>4 DEF Changes, One
  <2>2. ASSUME NEW a \in held[t], NEW f \in Slot, child[a][f] = NOOBJ, ~Assigned(a, f),
               child' = [child EXCEPT ![a][f] = o], held' = held
        PROVE  Changes(t, x, IF x = o THEN 1 ELSE 0)
    <3>1. a \in Obj /\ Live(a) /\ x # NOOBJ
      BY HeldLives, RefcountAssumption
    <3>2. ~Void(a, f)
      BY <2>2, <3>1 DEF Void, Released, Releasing, Assigning, Assigned, Live, Frees
    <3>3. \A b \in Obj, g \in Slot : child'[b][g] = IF b = a /\ g = f THEN o ELSE child[b][g]
      BY <2>2, <3>1 DEF Inv, Types
    <3>4. \A g \in Slot : child'[o][g] = NOOBJ
      BY <1>1, <3>1, <3>3 DEF Inv, FreshBlank, Live
    <3>5. /\ <<a, f>> \notin Links(x)
          /\ <<a, f>> \in Links(x)' <=> x = o
      BY <1>1, <1>9, <2>2, <3>1, <3>2, <3>3 DEF Links, Live
    <3>6. Links(x) \ {<<a, f>>} = Links(x)' \ {<<a, f>>}
      <4>1. \A l \in alloc \X Slot : l # <<a, f>> => child'[l[1]][l[2]] = child[l[1]][l[2]]
        BY <3>3 DEF Inv, Types
      <4>2. \A l \in alloc' \X Slot : l \in alloc \X Slot \/ child'[l[1]][l[2]] # x
        BY <1>1, <3>1, <3>4
      <4>. QED  BY <1>1, <1>9, <4>1, <4>2 DEF Links
    <3>7. /\ Cardinality(Links(x)) \in Nat
          /\ Cardinality(Links(x)') - Cardinality(Links(x))
               = One(<<a, f>> \in Links(x)') - One(<<a, f>> \in Links(x))
      BY <1>6, <3>6, LinksChange
    <3>8. One(<<a, f>> \in Links(x)) = 0 /\ One(<<a, f>> \in Links(x)') = IF x = o THEN 1 ELSE 0
      BY <3>5 DEF One
    <3>9. Owns(t, x)' <=> Owns(t, x)
      BY <1>10, <2>2
    <3>. QED  BY <1>10, <3>7, <3>8, <3>9 DEF Changes, One
  <2>. QED  BY <1>1, <2>1, <2>2
<1>. QED  BY <1>6, <1>11, <1>12, <1>13, <1>14, <1>15, <1>16 DEF Inv

-----------------------------------------------------------------------------
LEMMA InitInv ==
  ASSUME RefInit
  PROVE  Inv
<1>1. \A t \in Thread : /\ left[t] = <<>> /\ Pending(t) = {} /\ held[t] = {} /\ loaded[t] = NOTHING
  BY ToSetEmpty DEF RefInit, Pending
<1>2. Types
  BY DEF RefInit, Types, Target, NOTHING
<1>3. Lists
  BY <1>1, FirstLists DEF Lists
<1>4. Exact
  <2>. SUFFICES ASSUME NEW o \in Obj  PROVE Count(o) = 0
    BY DEF Exact, RefInit
  <2>1. Owning(o) = {} /\ Dropping(o) = {} /\ Putting(o) = {} /\ Links(o) = {}
    BY <1>1 DEF Owning, Dropping, Putting, Links, Owns, Drops, Puts, RefInit
  <2>2. Cardinality({}) = 0
    BY FS_EmptySet
  <2>. QED  BY <2>1, <2>2 DEF Count
<1>5. FreshBlank /\ Lending /\ Dying
  BY <1>1 DEF FreshBlank, Lending, Dying, RefInit, Doing, Frees, Tests
<1>6. Assignments /\ Apart
  BY <1>1 DEF Assignments, Apart, Assigning, Middle, Tests
<1>. QED  BY <1>2, <1>3, <1>4, <1>5, <1>6 DEF Inv

(* A race, once it has happened, is on record for good.                    *)
LEMMA NextInv ==
  ASSUME IInv, [RefNext]_refvars
  PROVE  IInv'
<1>1. CASE raced
  <2>1. raced'
    BY <1>1 DEF RefNext, Caller, Step, Begins, gc_malloc, Share, Release, gc_update, Load, gc_inc,
       gc_dec, Skip, Test, ReadField, gc_free, StoreField, refvars
  <2>. QED  BY <2>1 DEF IInv
<1>. SUFFICES ASSUME Inv, ~raced'  PROVE Inv'
  BY <1>1 DEF IInv
<1>2. ASSUME NEW t \in Thread, Caller(t)  PROVE Inv'
  <2>1. CASE gc_malloc(t)
    BY <2>1, MallocStep
  <2>2. CASE Share(t)
    BY <2>2, ShareStep
  <2>3. CASE Release(t)
    BY <2>3, ReleaseStep
  <2>4. CASE gc_update(t)
    BY <2>4, UpdateStep
  <2>. QED  BY <1>2, <2>1, <2>2, <2>3, <2>4 DEF Caller
<1>3. ASSUME NEW t \in Thread, Step(t)  PROVE Inv'
  <2>1. CASE Load(t)
    BY <2>1, LoadStep
  <2>2. CASE gc_inc(t)
    BY <2>2, IncStep
  <2>3. CASE gc_dec(t)
    BY <2>3, DecStep
  <2>4. CASE Skip(t)
    BY <2>4, SkipStep
  <2>5. CASE Test(t)
    BY <2>5, UseStep, DeadStep
  <2>6. CASE ReadField(t)
    BY <2>6, ReadStep
  <2>7. CASE gc_free(t)
    BY <2>7, FreeStep
  <2>8. CASE StoreField(t)
    BY <2>8, StoreStep
  <2>. QED  BY <1>3, <2>1, <2>2, <2>3, <2>4, <2>5, <2>6, <2>7, <2>8 DEF Step
<1>4. CASE UNCHANGED refvars
  <2>1. /\ ref' = ref /\ alloc' = alloc /\ child' = child /\ held' = held /\ left' = left
        /\ loaded' = loaded
    BY <1>4 DEF refvars
  <2>2. Types' /\ Lists' /\ FreshBlank'
    BY <2>1 DEF Inv, Types, Lists, FreshBlank
  <2>3. Lending' /\ Dying'
    BY <2>1 DEF Inv, Lending, Dying, Kept, Owns, Assigned, Pending, Doing, Object, Frees, Tests
  <2>4. Assignments' /\ Apart'
    BY <2>1 DEF Inv, Assignments, Apart, Middle, Assigning, Releasing, Pending, Doing, Object, Tests
  <2>5. \A x : Owning(x)' = Owning(x) /\ Dropping(x)' = Dropping(x) /\ Putting(x)' = Putting(x)
               /\ Links(x)' = Links(x)
    BY <2>1 DEF Owning, Dropping, Putting, Links, Owns, Drops, Puts, Pending, Void, Released,
       Releasing, Assigning
  <2>6. Exact'
    BY <2>1, <2>5 DEF Inv, Exact, Count
  <2>. QED  BY <2>2, <2>3, <2>4, <2>6 DEF Inv
<1>. QED  BY <1>2, <1>3, <1>4 DEF RefNext

(* When no call is under way only owners and fields are left to count.     *)
LEMMA AtRest ==
  ASSUME Inv, Quiet, NEW o \in Obj
  PROVE  Count(o) = Cardinality(Owners(o)) + Cardinality(Referrers(o))
<1>1. \A t \in Thread : /\ ~Puts(t, o) /\ ~Drops(t, o) /\ (Owns(t, o) <=> o \in held[t])
                        /\ \A a, f : ~Released(Pending(t), a, f)
  BY QuietThread DEF Quiet
<1>2. Owning(o) = Owners(o) /\ Dropping(o) = {} /\ Putting(o) = {} /\ Links(o) = Referrers(o)
  BY <1>1 DEF Owning, Owners, Dropping, Putting, Links, Referrers, Void
<1>3. Cardinality({}) = 0
  BY FS_EmptySet
<1>4. Count(o) = Cardinality(Owners(o)) + 0 + 0 + Cardinality(Referrers(o))
  BY <1>2, <1>3 DEF Count
<1>5. Cardinality(Owners(o)) \in Nat /\ Cardinality(Referrers(o)) \in Nat
  BY <1>2, CountIs DEF Inv
<1>. QED  BY <1>4, <1>5

LEMMA InvCounts ==
  ASSUME IInv
  PROVE  CountsExact
<1>. SUFFICES ASSUME Inv  PROVE CountsExact
  BY DEF IInv, CountsExact
<1>1. UNION {held[t] : t \in Thread} \subseteq alloc
  BY HeldLives DEF Live
<1>2. ASSUME NEW a \in alloc, NEW f \in Slot, ref[a] > 0, ~Assigned(a, f)
      PROVE  child[a][f] \in alloc \cup {NOOBJ}
  <2>1. \A u \in Thread : ~Frees(u, a)
    BY <1>2 DEF Inv, Dying, Types
  <2>. QED  BY <1>2, <2>1, FieldLives DEF Live
<1>3. ASSUME Quiet, NEW o \in Obj
      PROVE  Cardinality(Owners(o)) + Cardinality(Referrers(o)) = IF o \in alloc THEN ref[o] ELSE 0
  BY <1>3, AtRest DEF Inv, Exact
<1>. QED  BY <1>1, <1>2, <1>3 DEF CountsExact

(* Counts of references (refcount.c:14-64, 94-99): as long as no two       *)
(* threads count one object at once, whatever a thread owns and whatever   *)
(* an object in use refers to is allocated, in the middle of no call, and  *)
(* when no call is under way each count is the number of owners and of     *)
(* fields that refer to the object: nothing is freed early or kept.        *)
THEOREM CountsAreExact == RefSpec => []CountsExact
<1>1. RefInit => IInv
  BY InitInv DEF IInv
<1>2. IInv /\ [RefNext]_refvars => IInv'
  BY NextInv
<1>3. IInv => CountsExact
  BY InvCounts
<1>. QED  BY <1>1, <1>2, <1>3, PTL DEF RefSpec

(***************************************************************************)
(* generational.                                                           *)
(***************************************************************************)
GenObject == [value : Nat, age : Nat, copied : BOOLEAN, remembered : BOOLEAN,
              forwarding : Addr \cup {NULL}, field : [Field -> Addr \cup {NULL}]]
Location == {RootAt(n) : n \in Nat} \cup {FieldAt(a, f) : a \in Addr, f \in Field}
RsEntry == [ptr : Old, header : BOOLEAN]

(* Where a collection takes the young objects from, and where to.          *)
FromSpace == {a \in Young : a[1] # tog}
ToSpace == {a \in Young : a[1] = tog}

(* What a location may hold before gc_copy was called on it, and after.    *)
Here == FromSpace \cup Old \cup {NULL}
There == ToSpace \cup Old \cup {NULL}

(***************************************************************************)
(* The invariant, of a heap m whose to-space has tf objects, roots ro and  *)
(* a remembered set r, in a collection that has still to look at D.        *)
(***************************************************************************)
Shapes(m, tf, ro, r, D) ==
    /\ m \in [Addr -> GenObject] /\ tf \in 0 .. Room
    /\ ro \in Seq(Addr) /\ r \in Seq(RsEntry) /\ D \in SUBSET Location

(* The locations of D are roots, fields of copies, or of the old object of *)
(* the entry that update_reference is at.                                  *)
LeftOver(l, tf, ro, r) ==
    \/ pc = "roots" /\ \E n \in DOMAIN ro : l = RootAt(n)
    \/ \E a \in ToSpace, f \in Field : a[2] <= tf /\ l = FieldAt(a, f)
    \/ /\ pc = "update" /\ entered /\ ~r[i].header
       /\ \E f \in Field : l = FieldAt(r[i].ptr, f)
Phases(tf, ro, r, D) ==
    /\ pc \in {"program", "roots", "update"} /\ i \in Nat \ {0} /\ entered \in BOOLEAN
    /\ pc = "program" => D = {} /\ i = 1 /\ tf = 0
    /\ pc \in {"program", "roots"} => ~entered
    /\ pc = "update" => (entered => i <= Len(r)) /\ (D # {} => entered)
    /\ \A l \in D : LeftOver(l, tf, ro, r)

(* What objects and roots hold, by where they are and whether their call   *)
(* of gc_copy has been made.                                               *)
Pointers(m, ro, D) ==
    /\ \A a \in FromSpace, f \in Field : m[a].field[f] \in Here
    /\ \A a \in ToSpace, f \in Field :
          m[a].field[f] \in IF FieldAt(a, f) \in D THEN Here ELSE There
    /\ \A n \in DOMAIN ro :
          ro[n] \in IF pc = "program" \/ RootAt(n) \in D
                    THEN FromSpace \cup Old ELSE ToSpace \cup Old

(* update_reference has not yet looked at field f of entry j, or it has.   *)
Unseen(r, j, f, D) ==
    pc = "update" =>
        j > i \/ (j = i /\ (entered /\ ~r[j].header => FieldAt(r[j].ptr, f) \in D))
Seen(r, j, f, D) ==
    /\ pc = "update" /\ ~r[j].header
    /\ j < i \/ (j = i /\ entered /\ FieldAt(r[j].ptr, f) \notin D)

(* An old object that points into the from-space is remembered by an entry *)
(* that update_reference has yet to look at, and one that points to a copy *)
(* by an entry it has looked at.                                           *)
OldPointers(m, r, D) ==
    \A a \in Old, f \in Field :
        /\ m[a].field[f] \in FromSpace => \E j \in DOMAIN r : r[j].ptr = a /\ Unseen(r, j, f, D)
        /\ m[a].field[f] \in ToSpace => \E j \in DOMAIN r : r[j].ptr = a /\ Seen(r, j, f, D)

(* An object that was copied has its copy; the others exist once.          *)
Copies(m) ==
    /\ \A a \in Addr : m[a].copied <=> m[a].forwarding # NULL
    /\ \A a \in Addr : m[a].copied =>
          a \in FromSpace /\ pc # "program" /\ m[a].forwarding \in ToSpace \cup Old
    /\ \A a, b \in Addr :
          (m[a].value # 0 /\ m[a].value = m[b].value /\ ~m[a].copied /\ ~m[b].copied) => a = b
    /\ \A a \in Addr : m[a].value <= Len(stored.link)

(* What is behind the last object of a space is empty.                     *)
Blanks(m, tf) ==
    /\ new_free \in 0 .. Room
    /\ \A a \in ToSpace : a[2] > tf => m[a] = EMPTY
    /\ pc = "program" => \A k \in 1 .. Room : k > new_free => m[<<"new", k>>] = EMPTY
    /\ \A a \in Old : m[a] = EMPTY \/ m[a].age > 0

(* What is remembered has an entry, and promote makes one for an object.   *)
Entries(m, r) ==
    /\ \A a \in Addr : m[a].remembered => a \in Old /\ \E j \in DOMAIN r : r[j].ptr = a
    /\ \A j \in DOMAIN r : ~r[j].header => m[r[j].ptr].age > 0
    /\ \A j, k \in DOMAIN r : ~r[j].header /\ ~r[k].header /\ r[j].ptr = r[k].ptr => j = k

(* A set of objects that holds what the roots reach, copies included, and  *)
(* shows the program what it stored.                                       *)
ValueHeld(m, a) == IF a = NULL THEN 0 ELSE m[a].value
Reaches(S, m, ro) ==
    /\ \A n \in DOMAIN ro : ro[n] \in S
    /\ \A a \in S : m[a].forwarding \in S \cup {NULL}
    /\ \A a \in S, f \in Field : m[a].field[f] \in S \cup {NULL}
Tells(S, m, st) ==
    /\ \A a \in S : m[a].value # 0
    /\ \A a \in S : m[a].forwarding # NULL => m[m[a].forwarding].value = m[a].value
    /\ \A a \in S, f \in Field : st.link[m[a].value][f] = ValueHeld(m, m[a].field[f])
Names(m, ro, st) == st.name = [n \in DOMAIN ro |-> m[ro[n]].value]
LiveSet(m, ro) == /\ \E S \in SUBSET Addr : Reaches(S, m, ro) /\ Tells(S, m, stored)
               /\ Names(m, ro, stored)

Records ==
    /\ fromg \in {"s1", "s2"}
    /\ stored = [name |-> stored.name, link |-> stored.link]
    /\ stored.link \in Seq([Field -> Nat])

(* The heap and the records of it, with the locations D still to look at.  *)
Whole(m, tf, ro, r, D) ==
    /\ Shapes(m, tf, ro, r, D) /\ Phases(tf, ro, r, D) /\ Pointers(m, ro, D)
    /\ OldPointers(m, r, D) /\ Copies(m) /\ Blanks(m, tf) /\ Entries(m, r) /\ LiveSet(m, ro)
    /\ Records
Queued == todo \in Seq(Location) /\ IsInjective(todo)
GenInv == Whole(mem, to_free, roots, rs, ToSet(todo)) /\ Queued

(***************************************************************************)
(* Addresses and locations.                                                *)
(***************************************************************************)
(* The nursery and the survivor space in use, the other one, and the old.  *)
LEMMA SpacesAre ==
  ASSUME fromg \in {"s1", "s2"}
  PROVE  /\ tog \in {"s1", "s2"} /\ tog # fromg
         /\ FromSpace \cup ToSpace = Young /\ FromSpace \cap ToSpace = {}
         /\ Young \cap Old = {} /\ Young \cup Old = Addr /\ NULL \notin Addr
         /\ \A k \in 1 .. Room : <<"new", k>> \in FromSpace /\ <<tog, k>> \in ToSpace
         /\ \A a \in ToSpace : a = <<tog, a[2]>> /\ a[2] \in 1 .. Room
         /\ \A a \in FromSpace : a[1] \in {"new", fromg}
         /\ \A a \in Old : a[1] = "old"
<1>1. tog \in {"s1", "s2"} /\ tog # fromg
  BY DEF tog
<1>2. \A a \in Young : a = <<a[1], a[2]>> /\ a[1] \in Space /\ a[2] \in 1 .. Room
  BY DEF Young
<1>3. \A a \in Old : a[1] = "old" /\ a = <<a[1], a[2]>>
  BY DEF Old
<1>4. Young \cap Old = {} /\ Young \cup Old = Addr
  BY <1>2, <1>3 DEF Space, Addr
<1>5. NULL \notin Addr
  BY <1>2, <1>3 DEF Space, Addr, NULL
<1>6. \A k \in 1 .. Room : <<"new", k>> \in FromSpace /\ <<tog, k>> \in ToSpace
  BY <1>1 DEF FromSpace, ToSpace, Young, Space
<1>7. \A a \in ToSpace : a = <<tog, a[2]>> /\ a[2] \in 1 .. Room
  BY <1>2 DEF ToSpace
<1>8. \A a \in FromSpace : a[1] \in {"new", fromg}
  BY <1>1, <1>2 DEF FromSpace, Space
<1>9. FromSpace \cup ToSpace = Young /\ FromSpace \cap ToSpace = {}
  BY DEF FromSpace, ToSpace
<1>. QED  BY <1>1, <1>3, <1>4, <1>5, <1>6, <1>7, <1>8, <1>9

(* Roots and fields are told apart, and so are two fields.                 *)
LEMMA LocationsAre ==
  /\ \A n : IsRoot(RootAt(n)) /\ RootAt(n).root = n
  /\ \A a, f : ~IsRoot(FieldAt(a, f)) /\ FieldAt(a, f).obj = a /\ FieldAt(a, f).field = f
  /\ \A n, a, f : RootAt(n) # FieldAt(a, f)
  /\ \A n, k : RootAt(n) = RootAt(k) => n = k
  /\ \A a, f, b, g : FieldAt(a, f) = FieldAt(b, g) => a = b /\ f = g
<1>1. \A n : IsRoot(RootAt(n)) /\ RootAt(n).root = n
  BY DEF IsRoot, RootAt
<1>2. \A a, f : ~IsRoot(FieldAt(a, f)) /\ FieldAt(a, f).obj = a /\ FieldAt(a, f).field = f
  BY DEF IsRoot, FieldAt
<1>. QED  BY <1>1, <1>2

(* An assignment to a field of an object.                                  *)
SetField(m, a, f, p) == [m EXCEPT ![a].field[f] = p]
HasField(e, m, a, f, p) ==
    /\ e \in [Addr -> GenObject]
    /\ \A c \in Addr : /\ e[c].value = m[c].value /\ e[c].age = m[c].age
                       /\ e[c].copied = m[c].copied /\ e[c].remembered = m[c].remembered
                       /\ e[c].forwarding = m[c].forwarding
    /\ \A c \in Addr, g \in Field :
          e[c].field[g] = IF c = a /\ g = f THEN p ELSE m[c].field[g]
    /\ \A c \in Addr : c # a => e[c] = m[c]

(* What an assignment to a field leaves as it was.                         *)
LEMMA FieldSet ==
  ASSUME NEW m \in [Addr -> GenObject], NEW a \in Addr, NEW f \in Field,
         NEW p \in Addr \cup {NULL}
  PROVE  HasField(SetField(m, a, f, p), m, a, f, p)
<1>0. PICK e : e = [m EXCEPT ![a].field[f] = p]
  OBVIOUS
<1>1. m[a] \in GenObject
  OBVIOUS
<1>2. PICK o : o = [m[a] EXCEPT !.field[f] = p]
  OBVIOUS
<1>3. /\ o \in GenObject /\ o.value = m[a].value /\ o.age = m[a].age
      /\ o.copied = m[a].copied /\ o.remembered = m[a].remembered
      /\ o.forwarding = m[a].forwarding
      /\ \A g \in Field : o.field[g] = IF g = f THEN p ELSE m[a].field[g]
  <2>1. PICK h : h = [m[a].field EXCEPT ![f] = p]
    OBVIOUS
  <2>2. h \in [Field -> Addr \cup {NULL}] /\ \A g \in Field : h[g] = IF g = f THEN p ELSE m[a].field[g]
    BY <1>1, <2>1 DEF GenObject
  <2>3. o = [m[a] EXCEPT !.field = h]
    BY <1>1, <1>2, <2>1 DEF GenObject
  <2>. HIDE <1>2, <2>1
  <2>. QED  BY <1>1, <2>2, <2>3 DEF GenObject
<1>4. e = [m EXCEPT ![a] = o]
  BY <1>0, <1>2
<1>5. \A c \in Addr : e[c] = IF c = a THEN o ELSE m[c]
  BY <1>4
<1>6. e \in [Addr -> GenObject]
  BY <1>3, <1>4
<1>7. HasField(e, m, a, f, p)
  BY <1>3, <1>5, <1>6 DEF HasField
<1>8. e = SetField(m, a, f, p)
  BY <1>0 DEF SetField
<1>. QED  BY <1>7, <1>8

(* What is left to look at is still as it was before the collection.       *)
LEMMA PendingPlace ==
  ASSUME NEW m, NEW tf, NEW ro, NEW r, NEW D, Whole(m, tf, ro, r, D), NEW l \in D
  PROVE  \/ pc = "roots" /\ \E n \in DOMAIN ro : l = RootAt(n) /\ ro[n] \in FromSpace \cup Old
         \/ \E a \in ToSpace, f \in Field :
              l = FieldAt(a, f) /\ a[2] <= tf /\ m[a].field[f] \in Here
         \/ \E f \in Field : /\ l = FieldAt(r[i].ptr, f) /\ m[r[i].ptr].field[f] \in Here
                             /\ pc = "update" /\ entered /\ ~r[i].header
                             /\ i \in DOMAIN r /\ r[i].ptr \in Old
<1>. USE DEF Whole
<1>0. /\ r \in Seq(RsEntry) /\ Len(r) \in Nat /\ DOMAIN r = 1 .. Len(r)
      /\ m \in [Addr -> GenObject] /\ i \in Nat \ {0}
  BY DEF Shapes, Phases
<1>1. LeftOver(l, tf, ro, r)
  BY DEF Phases
<1>2. CASE pc = "roots" /\ \E n \in DOMAIN ro : l = RootAt(n)
  BY <1>2 DEF Pointers
<1>3. CASE \E a \in ToSpace, f \in Field : a[2] <= tf /\ l = FieldAt(a, f)
  BY <1>3 DEF Pointers
<1>4. CASE /\ pc = "update" /\ entered /\ ~r[i].header
           /\ \E f \in Field : l = FieldAt(r[i].ptr, f)
  <2>1. PICK f \in Field : l = FieldAt(r[i].ptr, f)
    BY <1>4
  <2>2. i \in DOMAIN r
    BY <1>0, <1>4 DEF Phases
  <2>3. PICK a \in Old : a = r[i].ptr
    <3>1. r[i] \in RsEntry
      BY <1>0, <2>2, ElementOfSeq
    <3>. QED  BY <3>1 DEF RsEntry
  <2>4. m[a].field[f] \notin ToSpace
    <3>. SUFFICES ASSUME m[a].field[f] \in ToSpace  PROVE FALSE
      OBVIOUS
    <3>1. PICK j \in DOMAIN r : r[j].ptr = a /\ Seen(r, j, f, D)
      BY DEF OldPointers
    <3>2. j = i
      BY <1>4, <2>2, <2>3, <3>1 DEF Seen, Entries
    <3>3. FieldAt(r[j].ptr, f) \notin D
      BY <1>0, <3>1, <3>2 DEF Seen
    <3>. QED  BY <2>1, <3>2, <3>3
  <2>5. m[a].field[f] \in Addr \cup {NULL}
    <3>1. a \in Addr
      BY DEF Addr
    <3>. QED  BY <1>0, <3>1 DEF GenObject
  <2>6. m[a].field[f] \in Here
    BY <2>4, <2>5, SpacesAre DEF Here, Records
  <2>. QED  BY <1>4, <2>1, <2>2, <2>3, <2>6
<1>. QED  BY <1>1, <1>2, <1>3, <1>4 DEF LeftOver

HeldAt(m, ro, l) == IF IsRoot(l) THEN ro[l.root] ELSE m[l.obj].field[l.field]

(* gc_copy has seen to a location: it holds a pointer to an old object or  *)
(* a copy, the one it held or the copy of that.                            *)
LEMMA SettledRoot ==
  ASSUME NEW m, NEW tf, NEW ro, NEW r, NEW D, Whole(m, tf, ro, r, D),
         NEW n \in DOMAIN ro, RootAt(n) \in D, pc = "roots",
         NEW p \in ToSpace \cup Old,
         p = ro[n] \/ (p = m[ro[n]].forwarding /\ p # NULL),
         NEW ro2, ro2 = [ro EXCEPT ![n] = p]
  PROVE  Whole(m, tf, ro2, r, D \ {RootAt(n)})
<1>. USE DEF Whole
<1>. DEFINE E == D \ {RootAt(n)}
<1>0. PICK S \in SUBSET Addr : Reaches(S, m, ro) /\ Tells(S, m, stored)
  BY DEF LiveSet
<1>1. /\ ro \in Seq(Addr) /\ DOMAIN ro = 1 .. Len(ro) /\ Len(ro) \in Nat
      /\ p \in Addr /\ ro2 \in Seq(Addr) /\ DOMAIN ro2 = DOMAIN ro
      /\ \A k \in DOMAIN ro : ro2[k] = IF k = n THEN p ELSE ro[k]
  BY SpacesAre DEF Shapes, Records
<1>2. p \in S /\ m[p].value = m[ro[n]].value
  <2>1. ro[n] \in S
    BY <1>0 DEF Reaches
  <2>2. CASE p = ro[n]
    BY <2>1, <2>2
  <2>3. CASE p = m[ro[n]].forwarding /\ p # NULL
    BY <1>0, <2>1, <2>3 DEF Reaches, Tells
  <2>. QED  BY <2>2, <2>3
<1>3. Shapes(m, tf, ro2, r, E)
  BY <1>1 DEF Shapes
<1>4. Phases(tf, ro2, r, E)
  BY <1>1 DEF Phases, LeftOver
<1>5. \A a, f : FieldAt(a, f) \in E <=> FieldAt(a, f) \in D
  BY LocationsAre
<1>6. \A k \in DOMAIN ro : k # n => (RootAt(k) \in E <=> RootAt(k) \in D)
  BY LocationsAre
<1>. HIDE DEF E
<1>7. RootAt(n) \notin E
  BY DEF E
<1>8. Pointers(m, ro2, E)
  BY <1>1, <1>5, <1>6, <1>7 DEF Pointers
<1>9. OldPointers(m, r, E)
  BY <1>5 DEF OldPointers, Unseen, Seen
<1>10. Reaches(S, m, ro2)
  BY <1>0, <1>1, <1>2 DEF Reaches
<1>11. Names(m, ro2, stored)
  <2>1. Names(m, ro, stored)
    BY DEF LiveSet
  <2>2. \A k \in DOMAIN ro : m[ro2[k]].value = m[ro[k]].value
    BY <1>1, <1>2
  <2>. QED  BY <1>1, <2>1, <2>2 DEF Names
<1>12. LiveSet(m, ro2)
  BY <1>0, <1>10, <1>11 DEF LiveSet
<1>. QED  BY <1>3, <1>4, <1>8, <1>9, <1>12 DEF E

LEMMA SettledField ==
  ASSUME NEW m, NEW tf, NEW ro, NEW r, NEW D, Whole(m, tf, ro, r, D),
         NEW a \in ToSpace \cup Old, NEW f \in Field, FieldAt(a, f) \in D,
         a \in ToSpace => a[2] <= tf,
         a \in Old => /\ pc = "update" /\ entered /\ ~r[i].header
                      /\ i \in DOMAIN r /\ a = r[i].ptr,
         NEW p \in There,
         p = m[a].field[f] \/ (p = m[m[a].field[f]].forwarding /\ p # NULL /\ m[a].field[f] # NULL),
         NEW e, e = [m EXCEPT ![a].field[f] = p]
  PROVE  Whole(e, tf, ro, r, D \ {FieldAt(a, f)})
<1>. USE DEF Whole
<1>. DEFINE E == D \ {FieldAt(a, f)}
<1>0. PICK S \in SUBSET Addr : Reaches(S, m, ro) /\ Tells(S, m, stored)
  BY DEF LiveSet
<1>1. /\ m \in [Addr -> GenObject] /\ a \in Addr /\ p \in Addr \cup {NULL}
      /\ ro \in Seq(Addr) /\ DOMAIN ro = 1 .. Len(ro)
      /\ r \in Seq(RsEntry) /\ DOMAIN r = 1 .. Len(r) /\ i \in Nat
  BY SpacesAre DEF Shapes, Records, There, Phases
<1>2. /\ e \in [Addr -> GenObject]
      /\ \A c \in Addr : /\ e[c].value = m[c].value /\ e[c].age = m[c].age
                         /\ e[c].copied = m[c].copied /\ e[c].remembered = m[c].remembered
                         /\ e[c].forwarding = m[c].forwarding
      /\ \A c \in Addr, g \in Field :
            e[c].field[g] = IF c = a /\ g = f THEN p ELSE m[c].field[g]
      /\ \A c \in Addr : c # a => e[c] = m[c]
  <2>1. m \in [Addr -> GenObject] /\ a \in Addr /\ f \in Field /\ p \in Addr \cup {NULL}
    BY <1>1
  <2>2. e = SetField(m, a, f, p)
    BY DEF SetField
  <2>3. HasField(SetField(m, a, f, p), m, a, f, p)
    BY <2>1, FieldSet
  <2>4. HasField(e, m, a, f, p)
    BY <2>2, <2>3
  <2>. QED  BY <2>4 DEF HasField
<1>3. Shapes(e, tf, ro, r, E)
  BY <1>2 DEF Shapes
<1>4. Phases(tf, ro, r, E)
  BY DEF Phases, LeftOver
<1>5. \A b, g : b # a \/ g # f => (FieldAt(b, g) \in E <=> FieldAt(b, g) \in D)
  BY LocationsAre
<1>6. \A k : RootAt(k) \in E <=> RootAt(k) \in D
  BY LocationsAre
<1>. HIDE DEF E
<1>7. FieldAt(a, f) \notin E
  BY DEF E
<1>8. Pointers(e, ro, E)
  <2>1. \A b \in FromSpace : b \in Addr /\ b # a
    BY SpacesAre DEF Records
  <2>2. \A b \in FromSpace, g \in Field : e[b].field[g] \in Here
    BY <1>2, <2>1 DEF Pointers
  <2>3. \A b \in ToSpace, g \in Field : e[b].field[g] \in IF FieldAt(b, g) \in E THEN Here ELSE There
    <3>. TAKE b \in ToSpace, g \in Field
    <3>1. b \in Addr
      BY SpacesAre DEF Records
    <3>2. CASE b = a /\ g = f
      BY <1>2, <1>7, <3>1, <3>2
    <3>3. CASE ~(b = a /\ g = f)
      BY <1>2, <1>5, <3>1, <3>3 DEF Pointers
    <3>. QED  BY <3>2, <3>3
  <2>. QED  BY <1>6, <2>2, <2>3 DEF Pointers
<1>9. OldPointers(e, r, E)
  <2>. SUFFICES ASSUME NEW b \in Old, NEW g \in Field
               PROVE  /\ e[b].field[g] \in FromSpace => \E j \in DOMAIN r : r[j].ptr = b /\ Unseen(r, j, g, E)
                      /\ e[b].field[g] \in ToSpace => \E j \in DOMAIN r : r[j].ptr = b /\ Seen(r, j, g, E)
    BY DEF OldPointers
  <2>0. b \in Addr
    BY SpacesAre DEF Records
  <2>1. CASE b = a /\ g = f
    <3>1. e[b].field[g] = p /\ p \notin FromSpace
      <4>1. e[b].field[g] = p
        BY <1>2, <2>0, <2>1
      <4>2. p \notin FromSpace
        BY SpacesAre DEF Records, There
      <4>. QED  BY <4>1, <4>2
    <3>2. i \in DOMAIN r /\ r[i].ptr = b /\ Seen(r, i, g, E)
      BY <1>7, <2>1 DEF Seen
    <3>. QED  BY <3>1, <3>2
  <2>2. CASE ~(b = a /\ g = f)
    <3>1. e[b].field[g] = m[b].field[g]
      BY <1>2, <2>0, <2>2
    <3>2. \A j \in DOMAIN r : r[j].ptr = b =>
             (Unseen(r, j, g, D) => Unseen(r, j, g, E)) /\ (Seen(r, j, g, D) => Seen(r, j, g, E))
      BY <1>5, <2>2 DEF Unseen, Seen
    <3>. QED  BY <3>1, <3>2 DEF OldPointers
  <2>. QED  BY <2>1, <2>2
<1>10. Copies(e)
  BY <1>2 DEF Copies
<1>11. Blanks(e, tf)
  <2>1. \A b \in ToSpace : b[2] > tf => e[b] = EMPTY
    <3>. SUFFICES ASSUME NEW b \in ToSpace, b[2] > tf  PROVE e[b] = EMPTY
      OBVIOUS
    <3>1. b \in Addr /\ b[2] \in Nat /\ tf \in Nat
      BY SpacesAre DEF Records, Shapes
    <3>2. b # a
      <4>1. a \in Old => b # a
        BY SpacesAre DEF Records
      <4>. QED  BY <3>1, <4>1
    <3>. QED  BY <1>2, <3>1, <3>2 DEF Blanks
  <2>2. pc # "program"
    BY DEF Phases
  <2>3. \A b \in Old : e[b] = EMPTY \/ e[b].age > 0
    <3>. TAKE b \in Old
    <3>1. b \in Addr
      BY SpacesAre DEF Records
    <3>2. CASE b = a
      <4>1. m[a].age > 0
        BY <3>2 DEF Entries
      <4>. QED  BY <1>2, <3>1, <3>2, <4>1
    <3>3. CASE b # a
      BY <1>2, <3>1, <3>3 DEF Blanks
    <3>. QED  BY <3>2, <3>3
  <2>. QED  BY <2>1, <2>2, <2>3 DEF Blanks
<1>12. Entries(e, r)
  <2>1. \A j \in DOMAIN r : r[j].ptr \in Addr
    <3>1. \A j \in DOMAIN r : r[j] \in RsEntry
      BY <1>1, ElementOfSeq
    <3>. QED  BY <3>1, SpacesAre DEF Records, RsEntry
  <2>2. \A j \in DOMAIN r : ~r[j].header => e[r[j].ptr].age > 0
    BY <1>2, <2>1 DEF Entries
  <2>. QED  BY <1>2, <2>2 DEF Entries
<1>13. \A b \in S : b \in Addr
  OBVIOUS
<1>14. \A b \in S \cup {NULL} : ValueHeld(e, b) = ValueHeld(m, b)
  BY <1>2 DEF ValueHeld
<1>15. a \in S => p \in S \cup {NULL} /\ ValueHeld(m, p) = ValueHeld(m, m[a].field[f])
  <2>. SUFFICES ASSUME a \in S  PROVE p \in S \cup {NULL} /\ ValueHeld(m, p) = ValueHeld(m, m[a].field[f])
    OBVIOUS
  <2>1. PICK x : x = m[a].field[f] /\ x \in S \cup {NULL}
    BY <1>0 DEF Reaches
  <2>2. CASE p = x
    BY <2>1, <2>2
  <2>3. CASE p = m[x].forwarding /\ p # NULL /\ x # NULL
    BY <1>0, <2>1, <2>3 DEF Reaches, Tells, ValueHeld
  <2>. QED  BY <2>1, <2>2, <2>3
<1>16. Reaches(S, e, ro)
  <2>1. \A n \in DOMAIN ro : ro[n] \in S
    BY <1>0 DEF Reaches
  <2>2. \A b \in S : e[b].forwarding \in S \cup {NULL}
    BY <1>0, <1>2, <1>13 DEF Reaches
  <2>3. \A b \in S, g \in Field : e[b].field[g] \in S \cup {NULL}
    BY <1>0, <1>2, <1>13, <1>15 DEF Reaches
  <2>. QED  BY <2>1, <2>2, <2>3 DEF Reaches
<1>17. Tells(S, e, stored)
  <2>1. \A b \in S : e[b].value # 0
    BY <1>0, <1>2, <1>13 DEF Tells
  <2>2. \A b \in S : e[b].forwarding # NULL => e[e[b].forwarding].value = e[b].value
    <3>. SUFFICES ASSUME NEW b \in S, e[b].forwarding # NULL  PROVE e[e[b].forwarding].value = e[b].value
      OBVIOUS
    <3>1. e[b].forwarding = m[b].forwarding /\ m[b].forwarding \in S /\ b \in Addr
      BY <1>0, <1>2, <1>13 DEF Reaches
    <3>2. m[m[b].forwarding].value = m[b].value
      BY <1>0, <3>1 DEF Tells
    <3>. QED  BY <1>2, <3>1, <3>2
  <2>3. ASSUME NEW b \in S, NEW g \in Field  PROVE stored.link[e[b].value][g] = ValueHeld(e, e[b].field[g])
    <3>1. b \in Addr /\ e[b].value = m[b].value
      BY <1>2
    <3>2. stored.link[m[b].value][g] = ValueHeld(m, m[b].field[g])
      BY <1>0 DEF Tells
    <3>3. e[b].field[g] \in S \cup {NULL}
      BY <1>16 DEF Reaches
    <3>4. ValueHeld(m, e[b].field[g]) = ValueHeld(m, m[b].field[g])
      BY <1>2, <1>15, <3>1
    <3>. QED  BY <1>14, <3>1, <3>2, <3>3, <3>4
  <2>. QED  BY <2>1, <2>2, <2>3 DEF Tells
<1>18. Names(e, ro, stored)
  <2>1. \A n \in DOMAIN ro : e[ro[n]].value = m[ro[n]].value
    BY <1>1, <1>2
  <2>. QED  BY <2>1 DEF LiveSet, Names
<1>19. LiveSet(e, ro)
  BY <1>16, <1>17, <1>18 DEF LiveSet
<1>. QED  BY <1>3, <1>4, <1>8, <1>9, <1>10, <1>11, <1>12, <1>19 DEF E

(***************************************************************************)
(* gc_copy and promote: the object at x gets a copy at to, which was free. *)
(***************************************************************************)
Fetched(m, x, to, o) == [m EXCEPT ![to] = o, ![x].copied = TRUE, ![x].forwarding = to]
IsFetched(e, m, x, to, d) ==
    /\ e \in [Addr -> GenObject] /\ e[to].age = d
    /\ \A c \in Addr :
         /\ e[c].value = IF c = to THEN m[x].value ELSE m[c].value
         /\ e[c].field = IF c = to THEN m[x].field ELSE m[c].field
         /\ e[c].copied <=> c = x \/ (c # to /\ m[c].copied)
         /\ e[c].forwarding = IF c = x THEN to ELSE IF c = to THEN NULL ELSE m[c].forwarding
         /\ e[c].remembered <=> c # to /\ m[c].remembered
    /\ \A c \in Addr : c # x /\ c # to => e[c] = m[c]

(* The copy has the contents of the object; no other object changes.       *)
LEMMA FetchedIs ==
  ASSUME NEW m \in [Addr -> GenObject], NEW x \in Addr, NEW to \in Addr, x # to,
         NEW o \in GenObject, o.value = m[x].value, o.field = m[x].field,
         ~o.copied, o.forwarding = NULL, ~o.remembered
  PROVE  IsFetched(Fetched(m, x, to, o), m, x, to, o.age)
<1>0. PICK e : e = Fetched(m, x, to, o)
  OBVIOUS
<1>1. PICK h : h = [m[x] EXCEPT !.copied = TRUE, !.forwarding = to]
  OBVIOUS
<1>2. m[x] \in GenObject
  OBVIOUS
<1>3. /\ h \in GenObject /\ h.value = m[x].value /\ h.field = m[x].field
      /\ h.copied = TRUE /\ h.forwarding = to /\ h.remembered = m[x].remembered
  BY <1>1, <1>2 DEF GenObject
<1>4. e = [[m EXCEPT ![to] = o] EXCEPT ![x] = h]
  BY <1>0, <1>1 DEF Fetched
<1>5. \A c \in Addr : e[c] = IF c = x THEN h ELSE IF c = to THEN o ELSE m[c]
  BY <1>4
<1>6. e \in [Addr -> GenObject]
  BY <1>3, <1>4
<1>7. \A c \in Addr : m[c] \in GenObject
  OBVIOUS
<1>8. ASSUME NEW c \in Addr
      PROVE  /\ e[c].value = IF c = to THEN m[x].value ELSE m[c].value
             /\ e[c].field = IF c = to THEN m[x].field ELSE m[c].field
             /\ e[c].forwarding = IF c = x THEN to ELSE IF c = to THEN NULL ELSE m[c].forwarding
  BY <1>3, <1>5
<1>9. ASSUME NEW c \in Addr  PROVE e[c].copied <=> c = x \/ (c # to /\ m[c].copied)
  BY <1>3, <1>5
<1>10. ASSUME NEW c \in Addr  PROVE e[c].remembered <=> c # to /\ m[c].remembered
  BY <1>3, <1>5
<1>11. e[to].age = o.age /\ \A c \in Addr : c # x /\ c # to => e[c] = m[c]
  BY <1>5
<1>12. IsFetched(e, m, x, to, o.age)
  BY <1>6, <1>8, <1>9, <1>10, <1>11 DEF IsFetched
<1>. QED  BY <1>0, <1>12

(* The copy is reached with the object, and shows the same.                *)
LEMMA LiveFetched ==
  ASSUME NEW m \in [Addr -> GenObject], NEW ro \in Seq(Addr), NEW x \in Addr, NEW to \in Addr,
         NEW e, NEW d, IsFetched(e, m, x, to, d), x # to, m[x].forwarding = NULL, m[to].value = 0,
         LiveSet(m, ro), NULL \notin Addr
  PROVE  LiveSet(e, ro)
<1>. USE DEF IsFetched
<1>0. PICK S \in SUBSET Addr : Reaches(S, m, ro) /\ Tells(S, m, stored)
  BY DEF LiveSet
<1>1. to \notin S
  BY <1>0 DEF Tells
<1>2. PICK T : T = IF x \in S THEN S \cup {to} ELSE S
  OBVIOUS
<1>3. T \in SUBSET Addr /\ S \subseteq T /\ \A a \in T : a \in S \/ (a = to /\ x \in S)
  BY <1>2
<1>4. \A n \in DOMAIN ro : ro[n] \in S /\ e[ro[n]].value = m[ro[n]].value
  BY <1>0, <1>1 DEF Reaches
<1>5. \A a \in S : e[a].value = m[a].value /\ e[a].field = m[a].field
  BY <1>1
<1>6. x \in S => to \in T
  BY <1>2
<1>7. Reaches(T, e, ro)
  <2>1. \A n \in DOMAIN ro : ro[n] \in T
    BY <1>3, <1>4
  <2>2. \A a \in T : e[a].forwarding \in T \cup {NULL}
    <3>. TAKE a \in T
    <3>1. CASE a = to
      BY <3>1
    <3>2. CASE a # to /\ a = x
      BY <1>3, <1>6, <3>2
    <3>3. CASE a # to /\ a # x
      <4>1. a \in S /\ m[a].forwarding \in S \cup {NULL}
        BY <1>0, <1>3, <3>3 DEF Reaches
      <4>. QED  BY <1>3, <3>3, <4>1
    <3>. QED  BY <3>1, <3>2, <3>3
  <2>3. \A a \in T, f \in Field : e[a].field[f] \in T \cup {NULL}
    <3>. TAKE a \in T, f \in Field
    <3>1. CASE a = to
      <4>1. x \in S /\ e[a].field = m[x].field
        BY <1>1, <1>3, <3>1
      <4>. QED  BY <1>0, <1>3, <4>1 DEF Reaches
    <3>2. CASE a # to
      <4>1. a \in S /\ e[a].field = m[a].field
        BY <1>3, <1>5, <3>2
      <4>. QED  BY <1>0, <1>3, <4>1 DEF Reaches
    <3>. QED  BY <3>1, <3>2
  <2>. QED  BY <2>1, <2>2, <2>3 DEF Reaches
<1>8. \A p \in S \cup {NULL} : ValueHeld(e, p) = ValueHeld(m, p)
  BY <1>5 DEF ValueHeld
<1>9. Tells(T, e, stored)
  <2>1. \A a \in T : e[a].value # 0
    <3>1. \A a \in S : m[a].value # 0
      BY <1>0 DEF Tells
    <3>. QED  BY <1>3, <1>5, <3>1
  <2>2. ASSUME NEW a \in T, e[a].forwarding # NULL  PROVE e[e[a].forwarding].value = e[a].value
    <3>1. a # to
      BY <2>2
    <3>2. a \in S
      BY <1>3, <3>1
    <3>3. CASE a = x
      BY <3>1, <3>3
    <3>4. CASE a # x
      <4>1. e[a].forwarding = m[a].forwarding /\ m[a].forwarding \in S
        BY <1>0, <2>2, <3>1, <3>2, <3>4 DEF Reaches
      <4>2. m[m[a].forwarding].value = m[a].value
        BY <1>0, <2>2, <3>2, <4>1 DEF Tells
      <4>. QED  BY <1>5, <3>2, <4>1, <4>2
    <3>. QED  BY <3>3, <3>4
  <2>3. ASSUME NEW a \in T, NEW f \in Field
        PROVE  stored.link[e[a].value][f] = ValueHeld(e, e[a].field[f])
    <3>1. PICK b \in S : e[a].value = m[b].value /\ e[a].field = m[b].field
      <4>1. CASE a = to
        <5>1. x \in S
          BY <1>1, <1>3, <4>1
        <5>. QED  BY <4>1, <5>1
      <4>2. CASE a # to
        BY <1>3, <1>5, <4>2
      <4>. QED  BY <4>1, <4>2
    <3>2. stored.link[m[b].value][f] = ValueHeld(m, m[b].field[f])
      BY <1>0 DEF Tells
    <3>3. m[b].field[f] \in S \cup {NULL}
      BY <1>0 DEF Reaches
    <3>. QED  BY <1>8, <3>1, <3>2, <3>3
  <2>. QED  BY <2>1, <2>2, <2>3 DEF Tells
<1>10. Names(e, ro, stored)
  BY <1>4 DEF LiveSet, Names
<1>. QED  BY <1>3, <1>7, <1>9, <1>10 DEF LiveSet

(* The object has one copy, and no other object had that value.            *)
LEMMA CopiesFetched ==
  ASSUME NEW m \in [Addr -> GenObject], NEW x \in FromSpace, NEW to \in ToSpace \cup Old,
         NEW e, NEW d, IsFetched(e, m, x, to, d), ~m[x].copied, m[to].value = 0,
         Copies(m), Records, pc # "program"
  PROVE  Copies(e) /\ m[x].forwarding = NULL
<1>. USE DEF IsFetched, Copies
<1>1. /\ x \in Addr /\ to \in Addr /\ x # to /\ NULL \notin Addr
  BY SpacesAre DEF Records
<1>2. m[x].forwarding = NULL
  BY <1>1
<1>3. \A a \in Addr : e[a].copied <=> e[a].forwarding # NULL
  BY <1>1
<1>4. \A a \in Addr : e[a].copied => a \in FromSpace /\ e[a].forwarding \in ToSpace \cup Old
  BY <1>1
<1>5. ASSUME NEW a \in Addr, NEW b \in Addr, e[a].value # 0, e[a].value = e[b].value,
             ~e[a].copied, ~e[b].copied
      PROVE  a = b
  <2>1. a # x /\ b # x
    BY <1>1, <1>5
  <2>2. CASE a = to /\ b = to
    BY <2>2
  <2>3. CASE a = to /\ b # to
    <3>1. m[b].value = m[x].value /\ m[b].value # 0 /\ ~m[b].copied
      BY <1>1, <1>5, <2>1, <2>3
    <3>. QED  BY <1>1, <2>1, <3>1
  <2>4. CASE a # to /\ b = to
    <3>1. m[a].value = m[x].value /\ m[a].value # 0 /\ ~m[a].copied
      BY <1>1, <1>5, <2>1, <2>4
    <3>. QED  BY <1>1, <2>1, <3>1
  <2>5. CASE a # to /\ b # to
    <3>1. m[a].value = m[b].value /\ m[a].value # 0 /\ ~m[a].copied /\ ~m[b].copied
      BY <1>1, <1>5, <2>1, <2>5
    <3>. QED  BY <3>1
  <2>. QED  BY <2>2, <2>3, <2>4, <2>5
<1>6. \A a \in Addr : e[a].value <= Len(stored.link)
  BY <1>1
<1>. QED  BY <1>2, <1>3, <1>4, <1>5, <1>6

(* A copy in the to-space leaves its fields to look at.                    *)
LEMMA FetchedYoung ==
  ASSUME NEW m, NEW tf, NEW ro, NEW r, NEW D, Whole(m, tf, ro, r, D), D # {},
         NEW x \in FromSpace, ~m[x].copied, tf < Room,
         NEW to, to = <<tog, tf + 1>>, NEW e, NEW d, IsFetched(e, m, x, to, d)
  PROVE  Whole(e, tf + 1, ro, r, D \cup {FieldAt(to, f) : f \in Field})
<1>. DEFINE E == D \cup {FieldAt(to, f) : f \in Field}
<1>0. /\ Shapes(m, tf, ro, r, D) /\ Phases(tf, ro, r, D) /\ Pointers(m, ro, D)
      /\ OldPointers(m, r, D) /\ Copies(m) /\ Blanks(m, tf) /\ Entries(m, r) /\ LiveSet(m, ro)
      /\ Records
  BY DEF Whole
<1>1. /\ m \in [Addr -> GenObject] /\ tf \in Nat /\ tf + 1 \in 0 .. Room /\ ro \in Seq(Addr)
      /\ r \in Seq(RsEntry) /\ DOMAIN r = 1 .. Len(r) /\ D \subseteq Location
  BY <1>0, GenerationalAssumption DEF Shapes
<1>2. /\ to \in ToSpace /\ to[2] = tf + 1 /\ to \in Addr /\ to \notin Old /\ to \notin FromSpace
      /\ x \in Addr /\ x # to /\ x \notin ToSpace /\ x \notin Old /\ NULL \notin Addr
      /\ fromg \in {"s1", "s2"}
  <2>0. fromg \in {"s1", "s2"}
    BY <1>0 DEF Records
  <2>1. tf + 1 \in 1 .. Room /\ to[2] = tf + 1
    BY <1>1
  <2>2. to \in ToSpace
    BY <2>0, <2>1, SpacesAre
  <2>. QED  BY <2>0, <2>1, <2>2, SpacesAre
<1>3. /\ \A a \in ToSpace : a \in Addr /\ a[2] \in Nat /\ a # x /\ a = <<tog, a[2]>>
      /\ \A a \in Old : a \in Addr /\ a # x /\ a # to
      /\ \A a \in FromSpace : a \in Addr /\ a # to
  BY <1>0, <1>2, SpacesAre DEF Records
<1>4. m[to] = EMPTY /\ m[to].value = 0
  <2>1. to \in ToSpace /\ to[2] > tf
    BY <1>1, <1>2
  <2>2. m[to] = EMPTY
    BY <1>0, <2>1 DEF Blanks
  <2>. QED  BY <2>2 DEF EMPTY
<1>5. pc # "program"
  BY <1>0 DEF Phases
<1>6. e \in [Addr -> GenObject] /\ \A c \in Addr : e[c].field = IF c = to THEN m[x].field ELSE m[c].field
  BY DEF IsFetched
<1>7. \A c \in Addr : c # x /\ c # to => e[c] = m[c]
  BY DEF IsFetched
<1>8. Shapes(e, tf + 1, ro, r, E)
  <2>1. \A f \in Field : FieldAt(to, f) \in Location
    BY <1>2 DEF Location
  <2>. QED  BY <1>0, <1>1, <1>6, <2>1 DEF Shapes
<1>9. /\ \A n : RootAt(n) \in E <=> RootAt(n) \in D
      /\ \A a, f : a # to => (FieldAt(a, f) \in E <=> FieldAt(a, f) \in D)
      /\ \A f \in Field : FieldAt(to, f) \in E
  BY LocationsAre
<1>10. Phases(tf + 1, ro, r, E)
  <2>1. \A l \in D : LeftOver(l, tf + 1, ro, r)
    BY <1>0, <1>1, <1>3 DEF Phases, LeftOver
  <2>2. \A f \in Field : LeftOver(FieldAt(to, f), tf + 1, ro, r)
    <3>. SUFFICES ASSUME NEW f \in Field
                 PROVE  \E a \in ToSpace, g \in Field : a[2] <= tf + 1 /\ FieldAt(to, f) = FieldAt(a, g)
      BY DEF LeftOver
    <3>1. to \in ToSpace /\ to[2] <= tf + 1
      BY <1>1, <1>2
    <3>. QED  BY <3>1
  <2>3. \A l \in E : LeftOver(l, tf + 1, ro, r)
    BY <2>1, <2>2
  <2>. HIDE DEF E
  <2>. QED  BY <1>0, <1>5, <2>3 DEF Phases
<1>. HIDE DEF E
<1>11. Pointers(e, ro, E)
  <2>1. \A a \in FromSpace, f \in Field : e[a].field[f] \in Here
    BY <1>0, <1>3, <1>6 DEF Pointers
  <2>2. \A a \in ToSpace, f \in Field : e[a].field[f] \in IF FieldAt(a, f) \in E THEN Here ELSE There
    <3>. TAKE a \in ToSpace, f \in Field
    <3>1. CASE a = to
      BY <1>0, <1>2, <1>6, <1>9, <3>1 DEF Pointers
    <3>2. CASE a # to
      BY <1>0, <1>3, <1>6, <1>9, <3>2 DEF Pointers
    <3>. QED  BY <3>1, <3>2
  <2>. QED  BY <1>0, <1>9, <2>1, <2>2 DEF Pointers
<1>12. OldPointers(e, r, E)
  <2>1. \A j \in DOMAIN r : r[j].ptr \in Old
    <3>1. \A j \in DOMAIN r : r[j] \in RsEntry
      BY <1>1, ElementOfSeq
    <3>. QED  BY <3>1 DEF RsEntry
  <2>2. \A a \in Old, f \in Field : e[a].field[f] = m[a].field[f]
    BY <1>3, <1>6
  <2>3. \A j \in DOMAIN r, f \in Field : FieldAt(r[j].ptr, f) \in E <=> FieldAt(r[j].ptr, f) \in D
    BY <1>2, <1>9, <2>1
  <2>. QED  BY <1>0, <2>2, <2>3 DEF OldPointers, Unseen, Seen
<1>13. Copies(e)
  BY <1>0, <1>1, <1>2, <1>4, <1>5, CopiesFetched
<1>14. Blanks(e, tf + 1)
  <2>1. \A a \in ToSpace : a[2] > tf + 1 => e[a] = EMPTY
    BY <1>0, <1>1, <1>2, <1>3, <1>7 DEF Blanks
  <2>2. \A a \in Old : e[a] = EMPTY \/ e[a].age > 0
    BY <1>0, <1>3, <1>7 DEF Blanks
  <2>. QED  BY <1>0, <1>5, <2>1, <2>2 DEF Blanks
<1>15. Entries(e, r)
  <2>1. \A a \in Addr : e[a].remembered => m[a].remembered
    BY DEF IsFetched
  <2>2. \A j \in DOMAIN r : r[j].ptr \in Old
    <3>1. \A j \in DOMAIN r : r[j] \in RsEntry
      BY <1>1, ElementOfSeq
    <3>. QED  BY <3>1 DEF RsEntry
  <2>3. \A j \in DOMAIN r : e[r[j].ptr] = m[r[j].ptr]
    BY <1>3, <1>7, <2>2
  <2>. QED  BY <1>0, <2>1, <2>3 DEF Entries
<1>16. LiveSet(e, ro)
  <2>1. m[x].forwarding = NULL
    BY <1>0, <1>1, <1>2, <1>4, <1>5, CopiesFetched
  <2>. QED  BY <1>0, <1>1, <1>2, <1>4, <2>1, LiveFetched
<1>. QED  BY <1>0, <1>8, <1>10, <1>11, <1>12, <1>13, <1>14, <1>15, <1>16 DEF Whole, E

NewEntry(to) == [ptr |-> to, header |-> FALSE]
Remembers(r, r2, m, x, to) ==
    r2 = IF \E f \in Field : m[x].field[f] \in Young THEN Append(r, NewEntry(to)) ELSE r

(* A copy in the old space gets an entry; update_reference will come to    *)
(* it.                                                                     *)
LEMMA FetchedOld ==
  ASSUME NEW m, NEW tf, NEW ro, NEW r, NEW D, Whole(m, tf, ro, r, D), D # {},
         NEW x \in FromSpace, ~m[x].copied, NEW to \in Old, m[to] = EMPTY,
         NEW e, NEW d \in Nat \ {0}, IsFetched(e, m, x, to, d),
         NEW r2, Remembers(r, r2, m, x, to)
  PROVE  Whole(e, tf, ro, r2, D)
<1>0. /\ Shapes(m, tf, ro, r, D) /\ Phases(tf, ro, r, D) /\ Pointers(m, ro, D)
      /\ OldPointers(m, r, D) /\ Copies(m) /\ Blanks(m, tf) /\ Entries(m, r) /\ LiveSet(m, ro)
      /\ Records
  BY DEF Whole
<1>1. /\ m \in [Addr -> GenObject] /\ ro \in Seq(Addr)
      /\ r \in Seq(RsEntry) /\ DOMAIN r = 1 .. Len(r) /\ Len(r) \in Nat /\ i \in Nat
  BY <1>0 DEF Shapes, Phases
<1>2. /\ to \in Addr /\ to \notin ToSpace /\ to \notin FromSpace
      /\ x \in Addr /\ x # to /\ x \notin ToSpace /\ x \notin Old /\ NULL \notin Addr
      /\ fromg \in {"s1", "s2"}
  BY <1>0, <1>1, SpacesAre DEF Records
<1>3. /\ \A a \in ToSpace : a \in Addr /\ a # x /\ a # to
      /\ \A a \in Old : a \in Addr /\ a # x
      /\ \A a \in FromSpace : a \in Addr /\ a # to
  BY <1>0, <1>2, SpacesAre DEF Records
<1>4. m[to].value = 0 /\ m[to].age = 0
  BY DEF EMPTY
<1>5. pc # "program"
  BY <1>0 DEF Phases
<1>6. e \in [Addr -> GenObject] /\ \A c \in Addr : e[c].field = IF c = to THEN m[x].field ELSE m[c].field
  BY DEF IsFetched
<1>7. \A c \in Addr : c # x /\ c # to => e[c] = m[c]
  BY DEF IsFetched
<1>8. NewEntry(to) \in RsEntry /\ NewEntry(to).ptr = to /\ ~NewEntry(to).header
  BY DEF NewEntry, RsEntry
<1>9. /\ r2 \in Seq(RsEntry) /\ DOMAIN r2 = 1 .. Len(r2) /\ Len(r2) \in {Len(r), Len(r) + 1}
      /\ \A j \in DOMAIN r : j \in DOMAIN r2 /\ r2[j] = r[j]
      /\ \A j \in DOMAIN r2 : j \in DOMAIN r \/ (j = Len(r) + 1 /\ r2[j] = NewEntry(to))
      /\ (\E f \in Field : m[x].field[f] \in Young) =>
            Len(r) + 1 \in DOMAIN r2 /\ r2[Len(r) + 1] = NewEntry(to)
  <2>1. CASE \E f \in Field : m[x].field[f] \in Young
    <3>1. r2 = Append(r, NewEntry(to))
      BY <2>1 DEF Remembers
    <3>2. PICK q : q = NewEntry(to) /\ q \in RsEntry
      BY <1>8
    <3>3. r2 = Append(r, q)
      BY <3>1, <3>2
    <3>4. /\ r2 \in Seq(RsEntry) /\ Len(r2) = Len(r) + 1
          /\ \A j \in 1 .. Len(r) : r2[j] = r[j]
          /\ r2[Len(r) + 1] = q
      BY ONLY <1>1, <3>2, <3>3, AppendProperties
    <3>. QED  BY <1>1, <3>2, <3>4
  <2>2. CASE ~\E f \in Field : m[x].field[f] \in Young
    <3>1. r2 = r
      BY <2>2 DEF Remembers
    <3>. QED  BY <1>1, <2>2, <3>1
  <2>. QED  BY <2>1, <2>2
<1>10. \A j \in DOMAIN r : r[j].ptr \in Old
  <2>1. \A j \in DOMAIN r : r[j] \in RsEntry
    BY <1>1, ElementOfSeq
  <2>. QED  BY <2>1 DEF RsEntry
<1>11. \A j \in DOMAIN r : ~r[j].header => r[j].ptr # to
  BY <1>0, <1>4 DEF Entries
<1>12. Shapes(e, tf, ro, r2, D)
  BY <1>0, <1>6, <1>9 DEF Shapes
<1>13. pc = "update" => entered /\ i \in DOMAIN r /\ r2[i] = r[i]
  <2>. SUFFICES ASSUME pc = "update"  PROVE entered /\ i \in DOMAIN r /\ r2[i] = r[i]
    OBVIOUS
  <2>1. entered /\ i <= Len(r) /\ i \in Nat \ {0}
    BY <1>0 DEF Phases
  <2>2. i \in DOMAIN r
    BY <1>1, <2>1
  <2>. QED  BY <1>9, <2>1, <2>2
<1>14. Phases(tf, ro, r2, D)
  <2>1. \A l \in D : LeftOver(l, tf, ro, r2)
    BY <1>0, <1>13 DEF Phases, LeftOver
  <2>2. pc = "update" => i <= Len(r2)
    <3>1. \A k \in DOMAIN r : k <= Len(r2)
      <4>. TAKE k \in DOMAIN r
      <4>1. k \in DOMAIN r2 /\ DOMAIN r2 = 1 .. Len(r2)
        BY <1>9
      <4>. QED  BY <4>1
    <3>. QED  BY <1>13, <3>1
  <2>. QED  BY <1>0, <2>1, <2>2 DEF Phases
<1>15. Pointers(e, ro, D)
  <2>1. \A a \in FromSpace, f \in Field : e[a].field[f] \in Here
    BY <1>0, <1>3, <1>6 DEF Pointers
  <2>2. \A a \in ToSpace, f \in Field : e[a].field[f] \in IF FieldAt(a, f) \in D THEN Here ELSE There
    BY <1>0, <1>3, <1>6 DEF Pointers
  <2>. QED  BY <1>0, <2>1, <2>2 DEF Pointers
<1>16. OldPointers(e, r2, D)
  <2>. SUFFICES ASSUME NEW a \in Old, NEW f \in Field
               PROVE  /\ e[a].field[f] \in FromSpace => \E j \in DOMAIN r2 : r2[j].ptr = a /\ Unseen(r2, j, f, D)
                      /\ e[a].field[f] \in ToSpace => \E j \in DOMAIN r2 : r2[j].ptr = a /\ Seen(r2, j, f, D)
    BY DEF OldPointers
  <2>1. CASE a = to
    <3>1. e[a].field[f] = m[x].field[f] /\ m[x].field[f] \in Here
      BY <1>0, <1>2, <1>6, <2>1 DEF Pointers
    <3>2. e[a].field[f] \notin ToSpace
      BY <1>2, <3>1, SpacesAre DEF Here
    <3>3. ASSUME e[a].field[f] \in FromSpace
          PROVE  \E j \in DOMAIN r2 : r2[j].ptr = a /\ Unseen(r2, j, f, D)
      <4>1. m[x].field[f] \in Young
        BY <3>1, <3>3 DEF FromSpace
      <4>2. Len(r) + 1 \in DOMAIN r2 /\ r2[Len(r) + 1] = NewEntry(to)
        BY <1>9, <4>1
      <4>3. Unseen(r2, Len(r) + 1, f, D)
        BY <1>1, <1>13 DEF Unseen
      <4>. QED  BY <1>8, <2>1, <4>2, <4>3
    <3>. QED  BY <3>2, <3>3
  <2>2. CASE a # to
    <3>1. e[a].field[f] = m[a].field[f]
      BY <1>3, <1>6, <2>2
    <3>2. \A j \in DOMAIN r : /\ j \in DOMAIN r2 /\ r2[j].ptr = r[j].ptr
                              /\ Unseen(r, j, f, D) => Unseen(r2, j, f, D)
                              /\ Seen(r, j, f, D) => Seen(r2, j, f, D)
      BY <1>9 DEF Unseen, Seen
    <3>. QED  BY <1>0, <3>1, <3>2 DEF OldPointers
  <2>. QED  BY <2>1, <2>2
<1>17. Copies(e)
  BY <1>0, <1>1, <1>2, <1>4, <1>5, CopiesFetched
<1>18. Blanks(e, tf)
  <2>1. \A a \in ToSpace : a[2] > tf => e[a] = EMPTY
    BY <1>0, <1>3, <1>7 DEF Blanks
  <2>2. e[to].age > 0
    BY DEF IsFetched
  <2>3. \A a \in Old : e[a] = EMPTY \/ e[a].age > 0
    BY <1>0, <1>3, <1>7, <2>2 DEF Blanks
  <2>. QED  BY <1>0, <1>5, <2>1, <2>3 DEF Blanks
<1>19. Entries(e, r2)
  <2>1. \A a \in Addr : e[a].remembered => m[a].remembered
    BY DEF IsFetched
  <2>2. \A a \in Addr : e[a].remembered => a \in Old /\ \E j \in DOMAIN r2 : r2[j].ptr = a
    BY <1>0, <1>9, <2>1 DEF Entries
  <2>3. ASSUME NEW j \in DOMAIN r2, ~r2[j].header  PROVE e[r2[j].ptr].age > 0
    <3>1. CASE j \in DOMAIN r
      <4>1. r2[j] = r[j] /\ m[r[j].ptr].age > 0
        BY <1>0, <1>9, <2>3, <3>1 DEF Entries
      <4>2. PICK c : c = r[j].ptr
        OBVIOUS
      <4>3. c \in Old /\ c # to /\ r2[j].ptr = c /\ m[c].age > 0
        BY <1>10, <1>11, <2>3, <3>1, <4>1, <4>2
      <4>4. e[c] = m[c]
        BY <1>3, <1>7, <4>3
      <4>. QED  BY ONLY <4>3, <4>4
    <3>2. CASE j \notin DOMAIN r
      <4>1. r2[j].ptr = to
        BY <1>8, <1>9, <3>2
      <4>2. e[to].age > 0
        BY DEF IsFetched
      <4>. QED  BY <4>1, <4>2
    <3>. QED  BY <3>1, <3>2
  <2>4. ASSUME NEW j \in DOMAIN r2, NEW k \in DOMAIN r2, ~r2[j].header, ~r2[k].header, r2[j].ptr = r2[k].ptr
        PROVE  j = k
    <3>1. CASE j \in DOMAIN r /\ k \in DOMAIN r
      BY <1>0, <1>9, <2>4, <3>1 DEF Entries
    <3>2. CASE j \in DOMAIN r /\ k \notin DOMAIN r
      BY <1>8, <1>9, <1>11, <2>4, <3>2
    <3>3. CASE j \notin DOMAIN r /\ k \in DOMAIN r
      BY <1>8, <1>9, <1>11, <2>4, <3>3
    <3>4. CASE j \notin DOMAIN r /\ k \notin DOMAIN r
      BY <1>9, <3>4
    <3>. QED  BY <3>1, <3>2, <3>3, <3>4
  <2>. QED  BY <2>2, <2>3, <2>4 DEF Entries
<1>20. LiveSet(e, ro)
  <2>1. m[x].forwarding = NULL
    BY <1>0, <1>1, <1>2, <1>4, <1>5, CopiesFetched
  <2>. QED  BY <1>0, <1>1, <1>2, <1>4, <2>1, LiveFetched
<1>. QED  BY <1>0, <1>12, <1>14, <1>15, <1>16, <1>17, <1>18, <1>19, <1>20 DEF Whole

(***************************************************************************)
(* What the roots reach.                                                   *)
(***************************************************************************)
Reached(g) == g = [n \in 0 .. Cardinality(Addr) |-> IF n = 0 THEN ToSet(roots) ELSE Traced(g[n - 1])]

(* Why the iteration of Reachable reaches its end.                         *)
LEMMA AddrFinite == IsFiniteSet(Addr) /\ Cardinality(Addr) \in Nat
<1>1. IsFiniteSet({"new", "s1"} \cup {"s2"}) /\ IsFiniteSet({"old"})
  <2>1. \A n, k : IsFiniteSet({n} \cup {k})
    BY FS_Singleton, FS_Union
  <2>2. {"new", "s1"} = {"new"} \cup {"s1"}
    OBVIOUS
  <2>3. IsFiniteSet({"new", "s1"}) /\ IsFiniteSet({"s2"}) /\ IsFiniteSet({"old"})
    <3>1. IsFiniteSet({"new"} \cup {"s1"})
      BY <2>1
    <3>. QED  BY <2>2, <3>1, FS_Singleton
  <2>. QED  BY <2>3, FS_Union
<1>2. IsFiniteSet(Space)
  <2>1. Space = {"new", "s1"} \cup {"s2"}
    BY DEF Space
  <2>. QED  BY <1>1, <2>1
<1>3. IsFiniteSet(1 .. Room) /\ IsFiniteSet(1 .. OldRoom)
  <2>1. \A n \in Nat : IsFiniteSet(1 .. n)
    BY FS_Interval
  <2>2. Room \in Nat /\ OldRoom \in Nat
    BY GenerationalAssumption
  <2>. QED  BY <2>1, <2>2
<1>4. IsFiniteSet(Young) /\ IsFiniteSet(Old)
  BY <1>1, <1>2, <1>3, FS_Product DEF Young, Old
<1>. QED  BY <1>4, FS_Union, FS_CardinalityType DEF Addr

(* The least set with the roots' objects and what its objects lead to.     *)
LEMMA ReachableIs ==
  ASSUME mem \in [Addr -> GenObject], roots \in Seq(Addr), NULL \notin Addr
  PROVE  /\ Reachable \in SUBSET Addr /\ Reaches(Reachable, mem, roots)
         /\ \A S \in SUBSET Addr : Reaches(S, mem, roots) => Reachable \subseteq S
<1>. DEFINE A == ToSet(roots)
            N == Cardinality(Addr)
            F == [Y \in SUBSET Addr |-> Traced(Y)]
            r == CHOOSE x : Reached(x)
<1>1. N \in Nat /\ IsFiniteSet(Addr) /\ N >= Cardinality(Addr)
  BY AddrFinite
<1>2. A \in SUBSET Addr
  BY ToSetSeq
<1>0. \A Y, x : x \in Traced(Y) <=>
         x # NULL /\ \/ x \in Y
                     \/ \E a \in Y, f \in Field : x = mem[a].field[f]
                     \/ \E a \in Y : x = mem[a].forwarding
  BY DEF Targets, Traced
<1>3. \A Y \in SUBSET Addr : Traced(Y) \in SUBSET Addr /\ Y \subseteq Traced(Y)
  <2>1. \A a \in Addr : mem[a].forwarding \in Addr \cup {NULL} /\ \A f \in Field : mem[a].field[f] \in Addr \cup {NULL}
    BY DEF GenObject
  <2>. QED  BY <1>0, <2>1
<1>4. /\ F \in [SUBSET Addr -> SUBSET Addr] /\ Inflates(F, Addr)
      /\ \A Y \in SUBSET Addr : F[Y] = Traced(Y)
  BY <1>3 DEF Inflates
<1>. HIDE DEF A, F, N
<1>5. PICK g \in [0 .. N -> SUBSET Addr] : Iterates(g, A, F, N)
  BY <1>1, <1>2, <1>4, IterationExists
<1>6. Reached(g)
  <2>1. \A n \in 0 .. N : n # 0 => g[n - 1] \in SUBSET Addr
    BY <1>1
  <2>2. \A n \in 0 .. N : g[n] = IF n = 0 THEN A ELSE F[g[n - 1]]
    BY <1>5 DEF Iterates
  <2>3. \A n \in 0 .. N : g[n] = IF n = 0 THEN A ELSE Traced(g[n - 1])
    BY <1>4, <2>1, <2>2
  <2>. QED  BY <2>3 DEF Reached, A, N
<1>7. Reached(r)
  BY <1>6
<1>8. Reachable = r[N]
  BY DEF Reachable, Reached, N
<1>. HIDE DEF r
<1>9. \A n \in 0 .. N : r[n] = IF n = 0 THEN A ELSE Traced(r[n - 1])
  BY <1>7 DEF Reached, A, N
<1>10. \A n \in 0 .. N : r[n] \in SUBSET Addr
  <2>. DEFINE S == {n \in Nat : n <= N => r[n] \in SUBSET Addr}
  <2>1. 0 \in S
    <3>1. 0 \in 0 .. N
      BY <1>1
    <3>2. r[0] = A
      BY <1>9, <3>1, Zenon
    <3>. QED  BY <1>2, <3>2
  <2>2. ASSUME NEW n \in Nat, n \in S  PROVE n + 1 \in S
    <3>. SUFFICES ASSUME n + 1 <= N  PROVE r[n + 1] \in SUBSET Addr
      OBVIOUS
    <3>1. r[n] \in SUBSET Addr /\ n + 1 \in 0 .. N /\ n + 1 # 0 /\ (n + 1) - 1 = n
      BY <1>1, <2>2
    <3>2. r[n + 1] = Traced(r[n])
      BY <1>9, <3>1
    <3>. QED  BY <1>3, <3>1, <3>2
  <2>. HIDE DEF S
  <2>3. Nat \subseteq S
    BY <2>1, <2>2, NatSetInduction
  <2>. QED  BY <1>1, <2>3 DEF S
<1>11. Iterates(r, A, F, N)
  <2>1. \A n \in 0 .. N : n # 0 => r[n - 1] \in SUBSET Addr
    BY <1>1, <1>10
  <2>2. \A n \in 0 .. N : r[n] = IF n = 0 THEN A ELSE F[r[n - 1]]
    BY <1>4, <1>9, <2>1
  <2>3. r = [n \in 0 .. N |-> r[n]]
    BY <1>7 DEF Reached, N
  <2>. QED  BY <2>2, <2>3 DEF Iterates
<1>12. Reachable \in SUBSET Addr /\ A \subseteq Reachable /\ Traced(Reachable) = Reachable
  <2>1. r[N] \in SUBSET Addr /\ A \subseteq r[N] /\ F[r[N]] = r[N]
    BY <1>1, <1>2, <1>4, <1>11, IterationRests
  <2>. QED  BY <1>4, <1>8, <2>1
<1>13. \A n \in DOMAIN roots : roots[n] \in Reachable
  BY <1>12 DEF A, ToSet
<1>14. \A a \in Reachable : mem[a].forwarding \in Reachable \cup {NULL}
  BY <1>0, <1>12
<1>15. \A a \in Reachable, f \in Field : mem[a].field[f] \in Reachable \cup {NULL}
  BY <1>0, <1>12
<1>16. ASSUME NEW S \in SUBSET Addr, Reaches(S, mem, roots)  PROVE Reachable \subseteq S
  <2>1. A \subseteq S
    BY <1>16 DEF A, ToSet, Reaches
  <2>2. \A Y \in SUBSET S : Traced(Y) \subseteq S
    BY <1>0, <1>16 DEF Reaches
  <2>3. \A Y \in SUBSET S : F[Y] \subseteq S
    BY <1>4, <2>2
  <2>4. \A n \in 0 .. N : r[n] \subseteq S
    <3>1. N \in Nat
      BY <1>1
    <3>2. PICK B, G, q, K : B = A /\ G = F /\ q = r /\ K = N
      OBVIOUS
    <3>3. Iterates(q, B, G, K) /\ K \in Nat /\ B \subseteq S /\ \A Y \in SUBSET S : G[Y] \subseteq S
      BY <1>11, <2>1, <2>3, <3>1, <3>2
    <3>4. \A n \in 0 .. K : q[n] \subseteq S
      BY <3>3, IterationStays
    <3>. QED  BY <3>2, <3>4
  <2>. QED  BY <1>1, <1>8, <2>4
<1>17. Reaches(Reachable, mem, roots)
  BY <1>13, <1>14, <1>15 DEF Reaches
<1>. QED  BY <1>12, <1>16, <1>17

MarksOld(g) == g = [n \in 0 .. OldRoom |->
    IF n = 0 THEN {e.ptr : e \in {d \in ToSet(rs) : ~d.header}} ELSE Targets(g[n - 1]) \cap Old]

(* The collection of the old space keeps what the remembered set names.    *)
LEMMA MarkedHasEntries ==
  ASSUME mem \in [Addr -> GenObject], rs \in Seq(RsEntry), NULL \notin Addr
  PROVE  \A j \in DOMAIN rs : ~rs[j].header => rs[j].ptr \in Marked
<1>. DEFINE A == {e.ptr : e \in {d \in ToSet(rs) : ~d.header}}
            N == OldRoom
            F == [Y \in SUBSET Old |-> Targets(Y) \cap Old]
            r == CHOOSE x : MarksOld(x)
<1>1. N \in Nat /\ \A a \in Old : a # NULL
  BY GenerationalAssumption DEF Addr
<1>2. A \in SUBSET Old
  <2>1. ToSet(rs) \subseteq RsEntry
    BY ToSetSeq
  <2>. QED  BY <2>1 DEF RsEntry
<1>4. F \in [SUBSET Old -> SUBSET Old] /\ \A Y \in SUBSET Old : F[Y] = Targets(Y) \cap Old
  OBVIOUS
<1>3. \A Y \in SUBSET Old : Y \subseteq Targets(Y) \cap Old
  BY <1>1 DEF Targets
<1>. HIDE DEF A, F, N
<1>5. PICK g \in [0 .. N -> SUBSET Old] : Iterates(g, A, F, N)
  BY <1>1, <1>2, <1>4, IterationExists
<1>6. MarksOld(g)
  <2>1. \A n \in 0 .. N : n # 0 => g[n - 1] \in SUBSET Old
    BY <1>1
  <2>2. \A n \in 0 .. N : g[n] = IF n = 0 THEN A ELSE F[g[n - 1]]
    BY <1>5 DEF Iterates
  <2>3. \A n \in 0 .. N : g[n] = IF n = 0 THEN A ELSE Targets(g[n - 1]) \cap Old
    BY <1>4, <2>1, <2>2
  <2>. QED  BY <2>3 DEF MarksOld, A, N
<1>7. MarksOld(r)
  BY <1>6
<1>8. Marked = r[N]
  BY DEF Marked, MarksOld, N
<1>. HIDE DEF r
<1>9. \A n \in 0 .. N : r[n] = IF n = 0 THEN A ELSE Targets(r[n - 1]) \cap Old
  BY <1>7 DEF MarksOld, A, N
<1>10. \A n \in 0 .. N : r[n] \in SUBSET Old /\ A \subseteq r[n]
  <2>. DEFINE S == {n \in Nat : n <= N => r[n] \in SUBSET Old /\ A \subseteq r[n]}
  <2>1. 0 \in S
    <3>1. 0 \in 0 .. N
      BY <1>1
    <3>2. r[0] = A
      BY <1>9, <3>1, Zenon
    <3>. QED  BY <1>2, <3>2
  <2>2. ASSUME NEW n \in Nat, n \in S  PROVE n + 1 \in S
    <3>. SUFFICES ASSUME n + 1 <= N  PROVE r[n + 1] \in SUBSET Old /\ A \subseteq r[n + 1]
      OBVIOUS
    <3>1. r[n] \in SUBSET Old /\ A \subseteq r[n] /\ n + 1 \in 0 .. N /\ n + 1 # 0 /\ (n + 1) - 1 = n
      BY <1>1, <2>2
    <3>2. r[n + 1] = Targets(r[n]) \cap Old
      BY <1>9, <3>1
    <3>. QED  BY <1>3, <3>1, <3>2
  <2>. HIDE DEF S
  <2>3. Nat \subseteq S
    BY <2>1, <2>2, NatSetInduction
  <2>. QED  BY <1>1, <2>3 DEF S
<1>11. A \subseteq Marked
  BY <1>1, <1>8, <1>10
<1>. QED  BY <1>11 DEF A, ToSet

(* What it frees leads nowhere; while nothing is lost, no root reaches it. *)
LEMMA SweptWhole ==
  ASSUME NEW D, Whole(mem, to_free, roots, rs, D), NEW e, e = Swept, lost = "no", LostBy(Swept) = "no"
  PROVE  Whole(e, to_free, roots, rs, D)
<1>0. /\ Shapes(mem, to_free, roots, rs, D) /\ Phases(to_free, roots, rs, D) /\ Pointers(mem, roots, D)
      /\ OldPointers(mem, rs, D) /\ Copies(mem) /\ Blanks(mem, to_free) /\ Entries(mem, rs) /\ LiveSet(mem, roots)
      /\ Records
  BY DEF Whole
<1>1. /\ mem \in [Addr -> GenObject] /\ roots \in Seq(Addr) /\ rs \in Seq(RsEntry)
  BY <1>0 DEF Shapes
<1>2. /\ NULL \notin Addr /\ \A a \in FromSpace \cup ToSpace : a \in Addr /\ a \notin Old
      /\ \A a \in Old : a \in Addr
      /\ NULL \notin FromSpace \cup ToSpace
  BY <1>0, SpacesAre DEF Records
<1>3. \A a \in Addr : e[a] = IF a \in Old \ Marked THEN EMPTY ELSE mem[a]
  BY DEF Swept
<1>4. EMPTY \in GenObject
  <2>1. [f \in Field |-> NULL] \in [Field -> Addr \cup {NULL}]
    OBVIOUS
  <2>. QED  BY <2>1 DEF EMPTY, GenObject
<1>5. e \in [Addr -> GenObject]
  <2>1. \A a \in Addr : (IF a \in Old \ Marked THEN EMPTY ELSE mem[a]) \in GenObject
    BY <1>1, <1>4
  <2>. QED  BY <2>1 DEF Swept
<1>6. \A a \in FromSpace \cup ToSpace : e[a] = mem[a]
  BY <1>2, <1>3
<1>7. \A a \in Addr : e[a] = mem[a] \/ e[a] = EMPTY
  BY <1>3
<1>8. /\ \A f \in Field : EMPTY.field[f] = NULL
      /\ EMPTY.value = 0 /\ EMPTY.age = 0 /\ ~EMPTY.copied /\ ~EMPTY.remembered
      /\ EMPTY.forwarding = NULL
  BY DEF EMPTY
<1>9. Pointers(e, roots, D)
  BY <1>0, <1>6 DEF Pointers
<1>10. OldPointers(e, rs, D)
  <2>1. \A a \in Old, f \in Field : e[a].field[f] \in FromSpace \cup ToSpace => e[a].field[f] = mem[a].field[f]
    BY <1>2, <1>7, <1>8
  <2>. QED  BY <1>0, <2>1 DEF OldPointers
<1>11. Copies(e)
  <2>1. \A a \in Addr : e[a].value = 0 \/ e[a] = mem[a]
    BY <1>7, <1>8
  <2>2. \A a \in Addr : e[a].copied => e[a] = mem[a]
    BY <1>7, <1>8
  <2>3. \A a \in Addr : e[a].value <= Len(stored.link)
    <3>1. \A a \in Addr : mem[a].value <= Len(stored.link)
      BY <1>0 DEF Copies
    <3>2. 0 <= Len(stored.link)
      BY <1>0 DEF Records
    <3>. QED  BY <1>7, <1>8, <3>1, <3>2
  <2>4. \A a \in Addr : e[a].copied <=> e[a].forwarding # NULL
    BY <1>0, <1>7, <1>8 DEF Copies
  <2>5. \A a, b \in Addr :
           (e[a].value # 0 /\ e[a].value = e[b].value /\ ~e[a].copied /\ ~e[b].copied) => a = b
    <3>. SUFFICES ASSUME NEW a \in Addr, NEW b \in Addr, e[a].value # 0, e[a].value = e[b].value,
                        ~e[a].copied, ~e[b].copied
                 PROVE  a = b
      OBVIOUS
    <3>1. e[a] = mem[a] /\ e[b] = mem[b]
      BY <2>1
    <3>. QED  BY <1>0, <3>1 DEF Copies
  <2>. QED  BY <1>0, <2>2, <2>3, <2>4, <2>5 DEF Copies
<1>12. Blanks(e, to_free)
  <2>1. \A k \in 1 .. Room : <<"new", k>> \in FromSpace
    BY <1>0, SpacesAre DEF Records
  <2>. QED  BY <1>0, <1>2, <1>6, <1>7, <2>1 DEF Blanks
<1>13. Entries(e, rs)
  <2>1. \A j \in DOMAIN rs : rs[j].ptr \in Old
    <3>1. \A j \in DOMAIN rs : rs[j] \in RsEntry
      BY <1>1, ElementOfSeq
    <3>. QED  BY <3>1 DEF RsEntry
  <2>2. \A j \in DOMAIN rs : ~rs[j].header => e[rs[j].ptr] = mem[rs[j].ptr]
    BY <1>1, <1>2, <1>3, <2>1, MarkedHasEntries
  <2>3. \A a \in Addr : e[a].remembered => mem[a].remembered
    BY <1>7, <1>8
  <2>. QED  BY <1>0, <2>2, <2>3 DEF Entries
<1>14. \A a \in Reachable : e[a] # EMPTY
  BY DEF LostBy
<1>15. Reachable \in SUBSET Addr /\ Reaches(Reachable, mem, roots)
  BY <1>1, <1>2, ReachableIs
<1>16. \A a \in Reachable : a \in Addr /\ e[a] = mem[a]
  BY <1>7, <1>14, <1>15
<1>17. Tells(Reachable, mem, stored)
  <2>1. PICK S \in SUBSET Addr : Reaches(S, mem, roots) /\ Tells(S, mem, stored)
    BY <1>0 DEF LiveSet
  <2>2. Reachable \subseteq S
    BY <1>1, <1>2, <2>1, ReachableIs
  <2>. QED  BY <2>1, <2>2 DEF Tells
<1>18. Reaches(Reachable, e, roots)
  BY <1>15, <1>16 DEF Reaches
<1>19. Tells(Reachable, e, stored)
  <2>1. \A a \in Reachable : e[a].value # 0
    BY <1>16, <1>17 DEF Tells
  <2>2. \A a \in Reachable : e[a].forwarding # NULL => e[e[a].forwarding].value = e[a].value
    BY <1>15, <1>16, <1>17 DEF Tells, Reaches
  <2>3. \A p \in Reachable \cup {NULL} : ValueHeld(e, p) = ValueHeld(mem, p)
    BY <1>16 DEF ValueHeld
  <2>4. \A a \in Reachable, f \in Field : stored.link[e[a].value][f] = ValueHeld(e, e[a].field[f])
    <3>. TAKE a \in Reachable, f \in Field
    <3>1. mem[a].field[f] \in Reachable \cup {NULL}
      BY <1>15 DEF Reaches
    <3>2. stored.link[mem[a].value][f] = ValueHeld(mem, mem[a].field[f])
      BY <1>17 DEF Tells
    <3>. QED  BY <1>16, <2>3, <3>1, <3>2
  <2>. QED  BY <2>1, <2>2, <2>4 DEF Tells
<1>20. Names(e, roots, stored)
  <2>1. \A n \in DOMAIN roots : e[roots[n]] = mem[roots[n]]
    BY <1>15, <1>16 DEF Reaches
  <2>. QED  BY <1>0, <2>1 DEF LiveSet, Names
<1>21. LiveSet(e, roots)
  BY <1>15, <1>18, <1>19, <1>20 DEF LiveSet
<1>22. Shapes(e, to_free, roots, rs, D)
  BY <1>0, <1>5 DEF Shapes
<1>. QED  BY <1>0, <1>9, <1>10, <1>11, <1>12, <1>13, <1>21, <1>22 DEF Whole

(***************************************************************************)
(* The steps of a collection.                                              *)
(***************************************************************************)
Frame == UNCHANGED <<new_free, fromg, pc, i, entered, stored>>

(* The spaces depend on fromg only.                                        *)
LEMMA SpacesSame ==
  ASSUME fromg' = fromg
  PROVE  FromSpace' = FromSpace /\ ToSpace' = ToSpace /\ Here' = Here /\ There' = There /\ tog' = tog
BY DEF FromSpace, ToSpace, Here, There, tog

(* A step that changes only objects, roots, rs and the calls.              *)
LEMMA FrameWhole ==
  ASSUME NEW D, D = ToSet(todo'), Frame, Whole(mem', to_free', roots', rs', D)
  PROVE  Whole(mem, to_free, roots, rs, ToSet(todo))'
<1>0. /\ fromg' = fromg /\ pc' = pc /\ i' = i /\ entered' = entered /\ stored' = stored
      /\ new_free' = new_free /\ ToSet(todo)' = D
  BY DEF Frame
<1>. USE SpacesSame DEF Whole
<1>1. Shapes(mem, to_free, roots, rs, ToSet(todo))'
  BY <1>0 DEF Shapes
<1>2. Phases(to_free, roots, rs, ToSet(todo))'
  BY <1>0 DEF Phases, LeftOver
<1>3. Pointers(mem, roots, ToSet(todo))'
  BY <1>0 DEF Pointers
<1>4. OldPointers(mem, rs, ToSet(todo))'
  BY <1>0 DEF OldPointers, Unseen, Seen
<1>5. Copies(mem)' /\ Blanks(mem, to_free)'
  BY <1>0 DEF Copies, Blanks
<1>6. Entries(mem, rs)' /\ LiveSet(mem, roots)' /\ Records'
  BY <1>0 DEF Entries, LiveSet, Records
<1>. QED  BY <1>1, <1>2, <1>3, <1>4, <1>5, <1>6

(* Where the innermost call of gc_copy is at.                              *)
LEMMA CallPlace ==
  ASSUME NEW m, NEW tf, NEW ro, NEW r, NEW D, Whole(m, tf, ro, r, D), NEW l \in D
  PROVE  /\ HeldAt(m, ro, l) \in Here
         /\ \/ /\ pc = "roots" /\ \E n \in DOMAIN ro : l = RootAt(n)
               /\ HeldAt(m, ro, l) \in FromSpace \cup Old
            \/ \E a \in ToSpace \cup Old, f \in Field :
                 /\ l = FieldAt(a, f) /\ HeldAt(m, ro, l) = m[a].field[f]
                 /\ a \in ToSpace => a[2] <= tf
                 /\ a \in Old => /\ pc = "update" /\ entered /\ ~r[i].header
                                 /\ i \in DOMAIN r /\ a = r[i].ptr /\ m[a].age > 0
<1>1. CASE pc = "roots" /\ \E n \in DOMAIN ro : l = RootAt(n) /\ ro[n] \in FromSpace \cup Old
  BY <1>1, LocationsAre DEF HeldAt, Here
<1>2. CASE \E a \in ToSpace, f \in Field : l = FieldAt(a, f) /\ a[2] <= tf /\ m[a].field[f] \in Here
  <2>1. PICK a \in ToSpace, f \in Field : l = FieldAt(a, f) /\ a[2] <= tf /\ m[a].field[f] \in Here
    BY <1>2
  <2>2. HeldAt(m, ro, l) = m[a].field[f]
    BY <2>1, LocationsAre DEF HeldAt
  <2>3. a \notin Old
    BY SpacesAre DEF Whole, Records
  <2>. QED  BY <2>1, <2>2, <2>3
<1>3. CASE \E f \in Field : /\ l = FieldAt(r[i].ptr, f) /\ m[r[i].ptr].field[f] \in Here
                            /\ pc = "update" /\ entered /\ ~r[i].header
                            /\ i \in DOMAIN r /\ r[i].ptr \in Old
  <2>1. PICK f \in Field : /\ l = FieldAt(r[i].ptr, f) /\ m[r[i].ptr].field[f] \in Here
                           /\ pc = "update" /\ entered /\ ~r[i].header
                           /\ i \in DOMAIN r /\ r[i].ptr \in Old
    BY <1>3
  <2>2. HeldAt(m, ro, l) = m[r[i].ptr].field[f]
    BY <2>1, LocationsAre DEF HeldAt
  <2>3. r[i].ptr \notin ToSpace
    BY <2>1, SpacesAre DEF Whole, Records
  <2>4. m[r[i].ptr].age > 0
    BY <2>1 DEF Whole, Entries
  <2>. QED  BY <2>1, <2>2, <2>3, <2>4
<1>. QED  BY <1>1, <1>2, <1>3, PendingPlace

(* A call is over: its location holds p.                                   *)
Left(m, ro, l, p, m2, ro2) ==
    IF IsRoot(l) THEN m2 = m /\ ro2 = [ro EXCEPT ![l.root] = p]
    ELSE m2 = [m EXCEPT ![l.obj].field[l.field] = p] /\ ro2 = ro

(* The heap with the locations that are left once the call is over.        *)
LEMMA CallOver ==
  ASSUME NEW m, NEW tf, NEW ro, NEW r, NEW D, Whole(m, tf, ro, r, D), NEW l \in D,
         NEW x, x = HeldAt(m, ro, l), NEW p \in There,
         p = x \/ (x # NULL /\ p # NULL /\ p = m[x].forwarding),
         NEW m2, NEW ro2, Left(m, ro, l, p, m2, ro2)
  PROVE  Whole(m2, tf, ro2, r, D \ {l})
<1>1. CASE /\ pc = "roots" /\ \E n \in DOMAIN ro : l = RootAt(n)
           /\ x \in FromSpace \cup Old
  <2>1. PICK n \in DOMAIN ro : l = RootAt(n)
    BY <1>1
  <2>2. x = ro[n] /\ m2 = m /\ ro2 = [ro EXCEPT ![n] = p]
    BY <2>1, LocationsAre DEF HeldAt, Left
  <2>3. p \in ToSpace \cup Old
    <3>1. NULL \notin FromSpace \cup Old
      BY SpacesAre DEF Whole, Records
    <3>. QED  BY <1>1, <3>1 DEF There
  <2>4. RootAt(n) \in D /\ pc = "roots" /\ (p = ro[n] \/ (p = m[ro[n]].forwarding /\ p # NULL))
    BY <1>1, <2>1, <2>2
  <2>5. Whole(m, tf, ro2, r, D \ {RootAt(n)})
    BY <2>2, <2>3, <2>4, SettledRoot
  <2>. QED  BY <2>1, <2>2, <2>5
<1>2. CASE \E a \in ToSpace \cup Old, f \in Field :
                 /\ l = FieldAt(a, f) /\ x = m[a].field[f]
                 /\ a \in ToSpace => a[2] <= tf
                 /\ a \in Old => /\ pc = "update" /\ entered /\ ~r[i].header
                                 /\ i \in DOMAIN r /\ a = r[i].ptr /\ m[a].age > 0
  <2>1. PICK a \in ToSpace \cup Old, f \in Field :
                 /\ l = FieldAt(a, f) /\ x = m[a].field[f]
                 /\ a \in ToSpace => a[2] <= tf
                 /\ a \in Old => /\ pc = "update" /\ entered /\ ~r[i].header
                                 /\ i \in DOMAIN r /\ a = r[i].ptr /\ m[a].age > 0
    BY <1>2
  <2>2. m2 = [m EXCEPT ![a].field[f] = p] /\ ro2 = ro
    BY <2>1, LocationsAre DEF Left
  <2>3. /\ FieldAt(a, f) \in D
        /\ p = m[a].field[f] \/ (p = m[m[a].field[f]].forwarding /\ p # NULL /\ m[a].field[f] # NULL)
    BY <2>1
  <2>4. Whole(m2, tf, ro, r, D \ {FieldAt(a, f)})
    BY <2>1, <2>2, <2>3, SettledField
  <2>. QED  BY <2>1, <2>2, <2>4
<1>. QED  BY <1>1, <1>2, CallPlace

(* A call at a root or at a field of an object that is still there.        *)
LEMMA CallIs ==
  ASSUME GenInv, Calls
  PROVE  /\ Loc \in ToSet(todo) /\ Ptr = HeldAt(mem, roots, Loc) /\ Ptr \in Here
         /\ todo \in Seq(Location) /\ Tail(todo) \in Seq(Location) /\ IsInjective(Tail(todo))
         /\ ToSet(Tail(todo)) = ToSet(todo) \ {Loc}
         /\ pc \in {"roots", "update"} /\ Records /\ mem \in [Addr -> GenObject]
<1>1. /\ Loc \in ToSet(todo) /\ Loc \notin ToSet(Tail(todo)) /\ Tail(todo) \in Seq(Location)
      /\ ToSet(todo) = {Loc} \cup ToSet(Tail(todo)) /\ IsInjective(Tail(todo))
  <2>1. todo \in Seq(Location) /\ IsInjective(todo) /\ todo # <<>>
    BY DEF GenInv, Queued, Calls
  <2>2. /\ Head(todo) \in ToSet(todo) /\ Head(todo) \notin ToSet(Tail(todo))
        /\ Tail(todo) \in Seq(Location) /\ IsInjective(Tail(todo))
        /\ ToSet(todo) = {Head(todo)} \cup ToSet(Tail(todo))
    <3>1. PICK t, L : t = todo /\ L = Location
      OBVIOUS
    <3>2. t \in Seq(L) /\ t # <<>> /\ IsInjective(t)
      BY ONLY <2>1, <3>1
    <3>3. /\ Tail(t) \in Seq(L) /\ ToSet(t) = {Head(t)} \cup ToSet(Tail(t))
          /\ IsInjective(t) => IsInjective(Tail(t)) /\ Head(t) \notin ToSet(Tail(t))
      BY ONLY <3>2, HeadOfList
    <3>. QED  BY ONLY <3>1, <3>2, <3>3
  <2>. QED  BY ONLY <2>2 DEF Loc
<1>2. Ptr = HeldAt(mem, roots, Loc)
  BY DEF Ptr, At, HeldAt
<1>3. Whole(mem, to_free, roots, rs, ToSet(todo))
  BY DEF GenInv
<1>4. HeldAt(mem, roots, Loc) \in Here
  BY <1>1, <1>3, CallPlace
<1>. QED  BY <1>1, <1>2, <1>3, <1>4 DEF Calls, Whole, Shapes, GenInv, Queued

(* gc_copy of NULL or of an old object.                                    *)
LEMMA NotYoungStep == GenInv /\ NotYoung => GenInv'
<1>. SUFFICES ASSUME GenInv, NotYoung  PROVE GenInv'
  OBVIOUS
<1>. DEFINE D == ToSet(todo)
<1>1. /\ Calls /\ Ptr \notin Young /\ todo' = Tail(todo) /\ Frame
      /\ mem' = mem /\ to_free' = to_free /\ roots' = roots /\ rs' = rs
  BY DEF NotYoung, CopyFrame, Frame
<1>2. /\ Loc \in D /\ Ptr = HeldAt(mem, roots, Loc) /\ Ptr \in Here
      /\ Tail(todo) \in Seq(Location) /\ IsInjective(Tail(todo))
      /\ ToSet(Tail(todo)) = D \ {Loc} /\ Records /\ mem \in [Addr -> GenObject]
  BY <1>1, CallIs
<1>3. Whole(mem, to_free, roots, rs, D)
  BY DEF GenInv
<1>4. Ptr \in There
  BY <1>1, <1>2 DEF Here, There, FromSpace
<1>5. Left(mem, roots, Loc, Ptr, mem, roots)
  <2>1. CASE IsRoot(Loc)
    <3>1. PICK n \in DOMAIN roots : Loc = RootAt(n)
      BY <1>2, <1>3, <2>1, CallPlace, LocationsAre
    <3>2. roots \in Seq(Addr) /\ Ptr = roots[Loc.root] /\ Loc.root = n
      BY <1>2, <1>3, <2>1, <3>1, LocationsAre DEF Whole, Shapes, HeldAt
    <3>. QED  BY <2>1, <3>2 DEF Left
  <2>2. CASE ~IsRoot(Loc)
    <3>1. PICK a \in Addr, f \in Field : Loc = FieldAt(a, f)
      BY <1>2, <1>3, <2>2, CallPlace, LocationsAre, SpacesAre DEF Records
    <3>2. Ptr = mem[a].field[f] /\ Loc.obj = a /\ Loc.field = f
      BY <1>2, <2>2, <3>1, LocationsAre DEF HeldAt
    <3>3. mem = [mem EXCEPT ![a].field[f] = mem[a].field[f]]
      <4>1. mem[a] = [mem[a] EXCEPT !.field[f] = mem[a].field[f]]
        BY <1>2 DEF GenObject
      <4>. QED  BY <1>2, <4>1
    <3>. QED  BY <2>2, <3>2, <3>3 DEF Left
  <2>. QED  BY <2>1, <2>2
<1>6. Whole(mem, to_free, roots, rs, D \ {Loc})
  BY <1>2, <1>3, <1>4, <1>5, CallOver
<1>7. Whole(mem, to_free, roots, rs, ToSet(todo))'
  <2>1. Whole(mem', to_free', roots', rs', D \ {Loc}) /\ D \ {Loc} = ToSet(todo')
    BY <1>1, <1>2, <1>6
  <2>. QED  BY <1>1, <2>1, FrameWhole
<1>8. Queued'
  BY <1>1, <1>2 DEF Queued
<1>. QED  BY <1>7, <1>8 DEF GenInv

(* gc_copy of an object that was copied: the location gets the copy.       *)
LEMMA IsCopiedStep == GenInv /\ IsCopied => GenInv'
<1>. SUFFICES ASSUME GenInv, IsCopied  PROVE GenInv'
  OBVIOUS
<1>. DEFINE D == ToSet(todo)
<1>1. /\ Calls /\ Ptr \in Young /\ mem[Ptr].copied /\ todo' = Tail(todo) /\ Frame
      /\ Write(mem, mem[Ptr].forwarding) /\ to_free' = to_free /\ rs' = rs
  BY DEF IsCopied, Copied, CopyFrame, Frame
<1>2. /\ Loc \in D /\ Ptr = HeldAt(mem, roots, Loc) /\ Ptr \in Here
      /\ Tail(todo) \in Seq(Location) /\ IsInjective(Tail(todo))
      /\ ToSet(Tail(todo)) = D \ {Loc} /\ Records /\ mem \in [Addr -> GenObject]
  BY <1>1, CallIs
<1>3. Whole(mem, to_free, roots, rs, D)
  BY DEF GenInv
<1>4. PICK p : p = mem[Ptr].forwarding
  OBVIOUS
<1>5. p \in There /\ p # NULL /\ Ptr # NULL
  <2>1. Ptr \in Addr /\ Copies(mem) /\ NULL \notin Addr
    BY <1>1, <1>2, <1>3, SpacesAre DEF Whole, Records, Addr
  <2>2. p \in ToSpace \cup Old
    BY <1>1, <1>4, <2>1 DEF Copies
  <2>. QED  BY <1>2, <2>1, <2>2, SpacesAre DEF There, Records
<1>6. Left(mem, roots, Loc, p, mem', roots')
  BY <1>1, <1>4 DEF Write, Left
<1>7. Whole(mem', to_free, roots', rs, D \ {Loc})
  BY <1>2, <1>3, <1>4, <1>5, <1>6, CallOver
<1>8. Whole(mem, to_free, roots, rs, ToSet(todo))'
  <2>1. Whole(mem', to_free', roots', rs', D \ {Loc}) /\ D \ {Loc} = ToSet(todo')
    BY <1>1, <1>2, <1>7
  <2>. QED  BY <1>1, <2>1, FrameWhole
<1>9. Queued'
  BY <1>1, <1>2 DEF Queued
<1>. QED  BY <1>8, <1>9 DEF GenInv

(* SetToSeq lists the fields of an object.                                 *)
LEMMA FieldsFinite == \A a : IsFiniteSet({FieldAt(a, f) : f \in Field})
<1>. TAKE a
<1>1. PICK F, g : F = {FieldAt(a, f) : f \in Field} /\ g = [f \in Field |-> FieldAt(a, f)]
  OBVIOUS
<1>2. g \in Surjection(Field, F)
  BY <1>1 DEF Surjection
<1>3. IsFiniteSet(F)
  BY <1>2, GenerationalAssumption, FS_Surjection
<1>. QED  BY <1>1, <1>3

(* The copy is not where the call came from.                               *)
LEMMA CallStays ==
  ASSUME NEW m, NEW tf, NEW ro, NEW r, NEW D, Whole(m, tf, ro, r, D), NEW l \in D,
         NEW x, x = HeldAt(m, ro, l), NEW to \in Addr, m[to] = EMPTY, to \in ToSpace => to[2] > tf,
         NEW e, NEW d, IsFetched(e, m, x, to, d)
  PROVE  HeldAt(e, ro, l) = x /\ \A f \in Field : l # FieldAt(to, f)
<1>1. CASE pc = "roots" /\ \E n \in DOMAIN ro : l = RootAt(n)
  BY <1>1, LocationsAre DEF HeldAt
<1>2. CASE \E a \in ToSpace \cup Old, f \in Field :
                 /\ l = FieldAt(a, f) /\ x = m[a].field[f]
                 /\ a \in ToSpace => a[2] <= tf
                 /\ a \in Old => m[a].age > 0
  <2>1. PICK a \in ToSpace \cup Old, f \in Field :
                 /\ l = FieldAt(a, f) /\ x = m[a].field[f]
                 /\ a \in ToSpace => a[2] <= tf
                 /\ a \in Old => m[a].age > 0
    BY <1>2
  <2>2. a # to /\ a \in Addr
    <3>1. EMPTY.age = 0
      BY DEF EMPTY
    <3>2. a \in ToSpace => a[2] \in Nat /\ a \in Addr
      BY SpacesAre DEF Whole, Records
    <3>3. tf \in Nat
      BY DEF Whole, Shapes
    <3>4. CASE a \in ToSpace
      BY <2>1, <3>2, <3>3, <3>4
    <3>5. CASE a \in Old
      BY <2>1, <3>1, <3>5 DEF Addr
    <3>. QED  BY <3>4, <3>5
  <2>3. e[a].field = m[a].field
    BY <2>2 DEF IsFetched
  <2>. QED  BY <2>1, <2>2, <2>3, LocationsAre DEF HeldAt
<1>. QED  BY <1>1, <1>2, CallPlace

(* gc_copy of an object into the other survivor space.                     *)
LEMMA CopyStep == GenInv /\ gc_copy => GenInv'
<1>. SUFFICES ASSUME GenInv, gc_copy  PROVE GenInv'
  OBVIOUS
<1>. DEFINE D == ToSet(todo)
<1>0. PICK x, to, o, m : /\ x = Ptr /\ to = <<tog, to_free + 1>> /\ o = [mem[x] EXCEPT !.age = @ + 1]
                         /\ m = Fetched(mem, x, to, o)
  OBVIOUS
<1>1. /\ Calls /\ x \in Young /\ ~mem[x].copied /\ to_free < Room /\ to_free' = to_free + 1
      /\ Write(m, to) /\ todo' = FieldsOf(to) \o Tail(todo) /\ rs' = rs /\ Frame
  BY <1>0 DEF gc_copy, Fresh, Copied, CopyFrame, Frame, Fetched
<1>2. /\ Loc \in D /\ x = HeldAt(mem, roots, Loc) /\ x \in Here /\ todo \in Seq(Location)
      /\ Tail(todo) \in Seq(Location) /\ IsInjective(Tail(todo))
      /\ ToSet(Tail(todo)) = D \ {Loc} /\ Records /\ mem \in [Addr -> GenObject]
  BY <1>0, <1>1, CallIs
<1>3. /\ Whole(mem, to_free, roots, rs, D) /\ Copies(mem) /\ Blanks(mem, to_free)
      /\ Entries(mem, rs) /\ to_free \in Nat
  BY DEF GenInv, Whole, Shapes
<1>4. x \in FromSpace /\ x \in Addr /\ x # NULL /\ x \notin Old
  BY <1>1, <1>2, SpacesAre DEF Here, Records
<1>5. to \in ToSpace /\ to \in Addr /\ to # x /\ to # NULL /\ to[2] = to_free + 1 /\ mem[to] = EMPTY
  <2>1. to_free + 1 \in 1 .. Room /\ to[2] = to_free + 1
    BY <1>0, <1>1, <1>3, GenerationalAssumption
  <2>2. to \in ToSpace /\ to \in Addr /\ to # x /\ to # NULL
    BY <1>0, <1>2, <1>4, <2>1, SpacesAre DEF Records
  <2>3. to[2] > to_free
    BY <1>3, <2>1
  <2>. QED  BY <1>3, <2>1, <2>2, <2>3 DEF Blanks
<1>6. IsFetched(m, mem, x, to, o.age)
  <2>1. mem[x] \in GenObject /\ mem[x].forwarding = NULL /\ ~mem[x].remembered
    BY <1>1, <1>2, <1>3, <1>4 DEF Copies, Entries
  <2>2. /\ o \in GenObject /\ o.value = mem[x].value /\ o.field = mem[x].field
        /\ ~o.copied /\ o.forwarding = NULL /\ ~o.remembered
    BY <1>0, <1>1, <2>1 DEF GenObject
  <2>3. IsFetched(Fetched(mem, x, to, o), mem, x, to, o.age)
    BY <1>2, <1>4, <1>5, <2>2, FetchedIs
  <2>. QED  BY <1>0, <2>3
<1>7. PICK E : E = D \cup {FieldAt(to, f) : f \in Field}
  OBVIOUS
<1>8. Whole(m, to_free + 1, roots, rs, E)
  <2>1. D # {}
    BY <1>2
  <2>2. to = <<tog, to_free + 1>>
    BY <1>0
  <2>3. Whole(m, to_free + 1, roots, rs, D \cup {FieldAt(to, f) : f \in Field})
    <3>1. /\ Whole(mem, to_free, roots, rs, D) /\ D # {} /\ x \in FromSpace /\ ~mem[x].copied
          /\ to_free < Room /\ to = <<tog, to_free + 1>> /\ IsFetched(m, mem, x, to, o.age)
      BY <1>1, <1>3, <1>4, <1>6, <2>1, <2>2
    <3>. QED  BY ONLY <3>1, FetchedYoung
  <2>. QED  BY <1>7, <2>3
<1>9. HeldAt(m, roots, Loc) = x /\ \A f \in Field : Loc # FieldAt(to, f)
  <2>1. to[2] > to_free
    BY <1>3, <1>5
  <2>. QED  BY <1>2, <1>3, <1>5, <1>6, <2>1, CallStays
<1>10. m[x].forwarding = to /\ Loc \in E /\ to \in There
  BY <1>2, <1>4, <1>5, <1>6, <1>7 DEF IsFetched, There
<1>11. Left(m, roots, Loc, to, mem', roots')
  BY <1>1 DEF Write, Left
<1>12. Whole(mem', to_free + 1, roots', rs, E \ {Loc})
  BY <1>4, <1>5, <1>8, <1>9, <1>10, <1>11, CallOver
<1>13. /\ FieldsOf(to) \in Seq(Location) /\ IsInjective(FieldsOf(to))
       /\ ToSet(FieldsOf(to)) = {FieldAt(to, f) : f \in Field}
  <2>1. IsFiniteSet({FieldAt(to, f) : f \in Field})
    BY FieldsFinite
  <2>2. PICK F : F = {FieldAt(to, f) : f \in Field}
    OBVIOUS
  <2>3. FieldsOf(to) = SetToSeq(F) /\ IsFiniteSet(F) /\ F \subseteq Location
    BY <1>5, <2>1, <2>2 DEF FieldsOf, Location
  <2>4. SetToSeq(F) \in Seq(F) /\ IsInjective(SetToSeq(F)) /\ ToSet(SetToSeq(F)) = F
    BY <2>3, SetToSeqIs
  <2>. QED  BY <2>2, <2>3, <2>4, SeqMonotonic
<1>14. PICK s, t : s = FieldsOf(to) /\ t = Tail(todo)
  OBVIOUS
<1>15. /\ s \in Seq(Location) /\ t \in Seq(Location) /\ todo' = s \o t
       /\ ToSet(s) = {FieldAt(to, f) : f \in Field} /\ ToSet(t) = D \ {Loc}
       /\ IsInjective(s) /\ IsInjective(t)
  BY <1>1, <1>2, <1>13, <1>14
<1>16. ToSet(s \o t) = E \ {Loc}
  <2>1. ToSet(s \o t) = ToSet(s) \cup ToSet(t)
    BY <1>15, ToSetConcat
  <2>. QED  BY <1>7, <1>9, <1>15, <2>1
<1>17. Queued'
  <2>1. \A f \in Field : FieldAt(to, f) \notin D
    <3>. SUFFICES ASSUME NEW f \in Field, NEW l \in D, l = FieldAt(to, f)  PROVE FALSE
      OBVIOUS
    <3>1. l # FieldAt(to, f)
      <4>1. PICK y : y = HeldAt(mem, roots, l)
        OBVIOUS
      <4>2. CASE \E n \in DOMAIN roots : l = RootAt(n)
        BY <4>2, LocationsAre
      <4>3. CASE \E a \in ToSpace \cup Old, g \in Field :
                   l = FieldAt(a, g) /\ (a \in ToSpace => a[2] <= to_free)
        <5>1. PICK a \in ToSpace \cup Old, g \in Field :
                 l = FieldAt(a, g) /\ (a \in ToSpace => a[2] <= to_free)
          BY <4>3
        <5>2. a = to
          BY <5>1, LocationsAre
        <5>3. to[2] <= to_free
          BY <1>5, <5>1, <5>2
        <5>. QED  BY <1>3, <1>5, <5>3
      <4>. QED  BY <1>3, <4>2, <4>3, CallPlace
    <3>. QED  BY <3>1
  <2>2. ToSet(s) \cap ToSet(t) = {}
    BY <1>15, <2>1
  <2>3. IsInjective(s \o t) /\ s \o t \in Seq(Location)
    BY <1>15, <2>2, ConcatInjective, ToSetConcat
  <2>. QED  BY <1>15, <2>3 DEF Queued
<1>18. Whole(mem, to_free, roots, rs, ToSet(todo))'
  <2>1. Whole(mem', to_free', roots', rs', E \ {Loc}) /\ E \ {Loc} = ToSet(todo')
    BY <1>1, <1>12, <1>15, <1>16
  <2>. QED  BY <1>1, <2>1, FrameWhole
<1>. QED  BY <1>17, <1>18 DEF GenInv

(* promote, with the collection of the old space that it may begin with.   *)
LEMMA PromoteStep == GenInv /\ lost = "no" /\ promote => lost' # "no" \/ GenInv'
<1>. SUFFICES ASSUME GenInv, lost = "no", promote, lost' = "no"  PROVE GenInv'
  OBVIOUS
<1>. DEFINE D == ToSet(todo)
<1>0. PICK m, to :
         /\ m \in {IF FreeOld = {} THEN Swept ELSE mem} /\ to \in Old /\ m[to] = EMPTY
         /\ Fresh /\ mem[Ptr].age >= AGE_MAX
         /\ Write([m EXCEPT ![to] = mem[Ptr], ![Ptr].copied = TRUE, ![Ptr].forwarding = to], to)
         /\ rs' = IF PointsToYoung(Ptr) THEN Append(rs, [ptr |-> to, header |-> FALSE]) ELSE rs
         /\ todo' = Tail(todo) /\ lost' = LostBy(m) /\ to_free' = to_free /\ Frame
  BY DEF promote, CopyFrame, Frame
<1>1. PICK x, o, e : x = Ptr /\ o = mem[x] /\ e = Fetched(m, x, to, o)
  OBVIOUS
<1>2. /\ Calls /\ x \in Young /\ ~mem[x].copied /\ mem[x].age >= AGE_MAX
      /\ Write(e, to)
  BY <1>0, <1>1 DEF Fresh, Copied, Fetched
<1>3. /\ Loc \in D /\ x = HeldAt(mem, roots, Loc) /\ x \in Here /\ todo \in Seq(Location)
      /\ Tail(todo) \in Seq(Location) /\ IsInjective(Tail(todo))
      /\ ToSet(Tail(todo)) = D \ {Loc} /\ Records /\ mem \in [Addr -> GenObject]
  BY <1>1, <1>2, CallIs
<1>4. Whole(mem, to_free, roots, rs, D)
  BY DEF GenInv
<1>5. Whole(m, to_free, roots, rs, D)
  <2>1. CASE m = mem
    BY <1>4, <2>1
  <2>2. CASE m = Swept
    <3>1. LostBy(Swept) = "no"
      BY <1>0, <2>2
    <3>. QED  BY <1>0, <1>4, <2>2, <3>1, SweptWhole
  <2>. QED  BY <1>0, <2>1, <2>2
<1>6. x \in FromSpace /\ x \in Addr /\ x # NULL /\ x \notin Old
  BY <1>2, <1>3, SpacesAre DEF Here, Records
<1>7. \A a \in Addr : m[a] = mem[a] \/ (a \in Old /\ m[a] = EMPTY)
  BY <1>0 DEF Swept
<1>8. m[x] = mem[x] /\ ~m[x].copied /\ m[x].age >= AGE_MAX /\ m \in [Addr -> GenObject]
  BY <1>2, <1>5, <1>6, <1>7 DEF Whole, Shapes
<1>9. to \in Old /\ m[to] = EMPTY /\ to \in Addr /\ to # NULL /\ to # x /\ to \notin ToSpace
  BY <1>0, <1>3, <1>6, SpacesAre DEF Records
<1>10. x = HeldAt(m, roots, Loc)
  <2>1. CASE \E n \in DOMAIN roots : Loc = RootAt(n)
    BY <1>3, <2>1, LocationsAre DEF HeldAt
  <2>2. CASE \E a \in ToSpace \cup Old, f \in Field : Loc = FieldAt(a, f) /\ (a \in Old => m[a].age > 0)
    <3>1. PICK a \in ToSpace \cup Old, f \in Field : Loc = FieldAt(a, f) /\ (a \in Old => m[a].age > 0)
      BY <2>2
    <3>2. m[a] = mem[a]
      <4>1. EMPTY.age = 0
        BY DEF EMPTY
      <4>2. a \in Addr
        BY <1>3, SpacesAre DEF Records
      <4>. QED  BY <1>7, <3>1, <4>1, <4>2
    <3>. QED  BY <1>3, <3>1, <3>2, LocationsAre DEF HeldAt
  <2>. QED  BY <1>3, <1>5, <2>1, <2>2, CallPlace
<1>11. IsFetched(e, m, x, to, o.age) /\ o.age \in Nat \ {0}
  <2>1. m[x] \in GenObject /\ m[x].forwarding = NULL /\ ~m[x].remembered
    BY <1>5, <1>6, <1>8 DEF Whole, Copies, Entries
  <2>2. /\ o \in GenObject /\ o.value = m[x].value /\ o.field = m[x].field
        /\ ~o.copied /\ o.forwarding = NULL /\ ~o.remembered
    BY <1>1, <1>8, <2>1 DEF GenObject
  <2>3. IsFetched(Fetched(m, x, to, o), m, x, to, o.age)
    BY <1>6, <1>8, <1>9, <2>2, FetchedIs
  <2>4. o.age \in Nat /\ o.age >= AGE_MAX /\ AGE_MAX \in Nat \ {0}
    BY <1>1, <1>2, <2>2, GenerationalAssumption DEF GenObject
  <2>. QED  BY <1>1, <2>3, <2>4
<1>12. PICK r2 : r2 = rs'
  OBVIOUS
<1>13. Remembers(rs, r2, m, x, to)
  BY <1>0, <1>1, <1>8, <1>12 DEF Remembers, PointsToYoung, NewEntry
<1>14. Whole(e, to_free, roots, r2, D)
  <2>1. D # {} /\ x \in FromSpace /\ ~m[x].copied /\ to \in Old /\ m[to] = EMPTY
    BY <1>3, <1>6, <1>8, <1>9
  <2>. HIDE DEF D
  <2>. QED  BY <1>5, <1>11, <1>13, <2>1, FetchedOld
<1>15. HeldAt(e, roots, Loc) = x
  BY <1>3, <1>5, <1>9, <1>10, <1>11, CallStays
<1>16. e[x].forwarding = to /\ to \in There
  BY <1>6, <1>9, <1>11 DEF IsFetched, There
<1>17. Left(e, roots, Loc, to, mem', roots')
  BY <1>2 DEF Write, Left
<1>18. Whole(mem', to_free, roots', r2, D \ {Loc})
  BY <1>3, <1>6, <1>9, <1>14, <1>15, <1>16, <1>17, CallOver
<1>19. Whole(mem, to_free, roots, rs, ToSet(todo))'
  <2>1. Whole(mem', to_free', roots', rs', D \ {Loc}) /\ D \ {Loc} = ToSet(todo')
    BY <1>0, <1>3, <1>12, <1>18
  <2>. QED  BY <1>0, <2>1, FrameWhole
<1>20. Queued'
  BY <1>0, <1>3 DEF Queued
<1>. QED  BY <1>19, <1>20 DEF GenInv

(***************************************************************************)
(* The steps between the calls.                                            *)
(***************************************************************************)
(* The invariant of the state as it is.                                    *)
LEMMA WholeNow ==
  ASSUME GenInv
  PROVE  /\ Shapes(mem, to_free, roots, rs, ToSet(todo)) /\ Phases(to_free, roots, rs, ToSet(todo))
         /\ Pointers(mem, roots, ToSet(todo)) /\ OldPointers(mem, rs, ToSet(todo)) /\ Copies(mem)
         /\ Blanks(mem, to_free) /\ Entries(mem, rs) /\ LiveSet(mem, roots) /\ Records
         /\ mem \in [Addr -> GenObject] /\ to_free \in Nat
         /\ roots \in Seq(Addr) /\ DOMAIN roots = 1 .. Len(roots) /\ Len(roots) \in Nat
         /\ rs \in Seq(RsEntry) /\ DOMAIN rs = 1 .. Len(rs) /\ Len(rs) \in Nat
         /\ \A j \in DOMAIN rs : rs[j] \in RsEntry /\ rs[j].ptr \in Old
         /\ i \in Nat \ {0} /\ entered \in BOOLEAN
         /\ (todo = <<>> => ToSet(todo) = {})
<1>1. \A j \in DOMAIN rs : rs[j] \in RsEntry
  BY ElementOfSeq DEF GenInv, Whole, Shapes
<1>2. \A j \in DOMAIN rs : rs[j].ptr \in Old
  BY <1>1 DEF RsEntry
<1>. QED  BY <1>1, <1>2, ToSetEmpty DEF GenInv, Whole, Shapes, Phases

(* minor_gc begins: the roots are to be looked at.                         *)
LEMMA MinorStep == GenInv /\ minor_gc => GenInv'
<1>. SUFFICES ASSUME GenInv, minor_gc  PROVE GenInv'
  OBVIOUS
<1>1. /\ pc = "program" /\ pc' = "roots" /\ to_free' = 0
      /\ todo' = [n \in DOMAIN roots |-> RootAt(n)]
      /\ new_free' = new_free /\ fromg' = fromg /\ mem' = mem /\ roots' = roots /\ rs' = rs
      /\ i' = i /\ entered' = entered /\ stored' = stored
  BY DEF minor_gc, Operates
<1>. USE WholeNow, SpacesSame
<1>2. ToSet(todo) = {} /\ to_free = 0 /\ i = 1 /\ ~entered
  BY <1>1 DEF Phases
<1>3. /\ todo' \in Seq(Location) /\ IsInjective(todo')
      /\ ToSet(todo') = {RootAt(n) : n \in DOMAIN roots}
  <2>1. PICK t : t = [n \in 1 .. Len(roots) |-> RootAt(n)]
    OBVIOUS
  <2>2. \A n \in 1 .. Len(roots) : RootAt(n) \in Location
    BY DEF Location
  <2>3. t \in Seq(Location)
    BY <2>1, <2>2
  <2>4. IsInjective(t) /\ ToSet(t) = {RootAt(n) : n \in 1 .. Len(roots)}
    BY <2>1, LocationsAre DEF IsInjective, ToSet
  <2>. QED  BY <1>1, <2>1, <2>3, <2>4
<1>4. PICK D : D = ToSet(todo)'
  OBVIOUS
<1>5. D \in SUBSET Location /\ \A l \in D : \E n \in DOMAIN roots : l = RootAt(n)
  BY <1>3, <1>4 DEF Location
<1>6. (\A n \in DOMAIN roots : RootAt(n) \in D) /\ \A a, f : FieldAt(a, f) \notin D
  BY <1>3, <1>4, LocationsAre
<1>7. Shapes(mem, to_free, roots, rs, ToSet(todo))'
  BY <1>1, <1>2, <1>4, <1>5 DEF Shapes
<1>8. Phases(to_free, roots, rs, ToSet(todo))'
  <2>1. \A l \in D : LeftOver(l, to_free, roots, rs)'
    BY <1>1, <1>5 DEF LeftOver
  <2>. QED  BY <1>1, <1>2, <1>4, <2>1 DEF Phases
<1>9. Pointers(mem, roots, ToSet(todo))'
  <2>1. \A a \in FromSpace, f \in Field : mem[a].field[f] \in Here
    BY DEF Pointers
  <2>2. \A a \in ToSpace, f \in Field : mem[a].field[f] \in There
    BY <1>2 DEF Pointers
  <2>3. \A n \in DOMAIN roots : roots[n] \in FromSpace \cup Old
    BY <1>1 DEF Pointers
  <2>. QED  BY <1>1, <1>4, <1>6, <2>1, <2>2, <2>3 DEF Pointers
<1>10. OldPointers(mem, rs, ToSet(todo))'
  BY <1>1 DEF OldPointers, Unseen, Seen
<1>11. Copies(mem)' /\ Blanks(mem, to_free)'
  BY <1>1, <1>2 DEF Copies, Blanks
<1>12. Entries(mem, rs)' /\ LiveSet(mem, roots)' /\ Records'
  BY <1>1 DEF Entries, LiveSet, Records
<1>. QED  BY <1>3, <1>7, <1>8, <1>9, <1>10, <1>11, <1>12 DEF GenInv, Whole, Queued

(* The roots are done; update_reference begins.                            *)
LEMMA RootsDoneStep == GenInv /\ RootsDone => GenInv'
<1>. SUFFICES ASSUME GenInv, RootsDone  PROVE GenInv'
  OBVIOUS
<1>1. /\ pc = "roots" /\ todo = <<>> /\ pc' = "update" /\ i' = 1 /\ todo' = todo
      /\ new_free' = new_free /\ fromg' = fromg /\ mem' = mem /\ roots' = roots /\ rs' = rs
      /\ to_free' = to_free /\ entered' = entered /\ stored' = stored
  BY DEF RootsDone, heapvars
<1>. USE WholeNow, SpacesSame
<1>2. ToSet(todo) = {} /\ ToSet(todo)' = {} /\ ~entered
  BY <1>1 DEF Phases
<1>3. Shapes(mem, to_free, roots, rs, ToSet(todo))'
  BY <1>1, <1>2 DEF Shapes
<1>4. Phases(to_free, roots, rs, ToSet(todo))'
  BY <1>1, <1>2 DEF Phases
<1>5. Pointers(mem, roots, ToSet(todo))'
  BY <1>1, <1>2 DEF Pointers
<1>6. OldPointers(mem, rs, ToSet(todo))'
  <2>1. \A j \in DOMAIN rs : \A f \in Field : Unseen(rs, j, f, ToSet(todo))'
    BY <1>1, <1>2 DEF Unseen
  <2>2. \A j \in DOMAIN rs : \A f \in Field : ~Seen(rs, j, f, ToSet(todo))
    BY <1>1 DEF Seen
  <2>. QED  BY <1>1, <2>1, <2>2 DEF OldPointers
<1>7. Copies(mem)' /\ Blanks(mem, to_free)'
  BY <1>1 DEF Copies, Blanks
<1>8. Entries(mem, rs)' /\ LiveSet(mem, roots)' /\ Records'
  BY <1>1 DEF Entries, LiveSet, Records
<1>9. Queued'
  BY <1>1 DEF Queued, GenInv
<1>. QED  BY <1>3, <1>4, <1>5, <1>6, <1>7, <1>8, <1>9 DEF GenInv, Whole

(* update_reference comes to an entry that promote made.                   *)
LEMMA ScanStep == GenInv /\ ScanEntry => GenInv'
<1>. SUFFICES ASSUME GenInv, ScanEntry  PROVE GenInv'
  OBVIOUS
<1>1. /\ pc = "update" /\ todo = <<>> /\ pc' = pc /\ i' = i /\ i <= Len(rs) /\ ~entered /\ entered'
      /\ todo' = (IF rs[i].header THEN <<>> ELSE FieldsOf(rs[i].ptr))
      /\ new_free' = new_free /\ fromg' = fromg /\ mem' = mem /\ roots' = roots /\ rs' = rs
      /\ to_free' = to_free /\ stored' = stored
  BY DEF ScanEntry, heapvars, Updates, Entry
<1>. USE WholeNow, SpacesSame
<1>2. ToSet(todo) = {}
  BY <1>1
<1>3. PICK b \in Old : b = rs[i].ptr
  BY <1>1
<1>4. b \notin ToSpace /\ b \in Addr
  BY SpacesAre DEF Records
<1>5. PICK D : D = ToSet(todo')
  OBVIOUS
<1>6. /\ D = (IF rs[i].header THEN {} ELSE {FieldAt(b, f) : f \in Field})
      /\ todo' \in Seq(Location) /\ IsInjective(todo')
  <2>1. CASE rs[i].header
    BY <1>1, <1>5, <2>1, ToSetEmpty DEF IsInjective
  <2>2. CASE ~rs[i].header
    <3>1. IsFiniteSet({FieldAt(b, f) : f \in Field})
      BY FieldsFinite
    <3>2. PICK F : F = {FieldAt(b, f) : f \in Field}
      OBVIOUS
    <3>3. todo' = SetToSeq(F) /\ IsFiniteSet(F) /\ F \subseteq Location
      BY <1>1, <1>3, <1>4, <2>2, <3>1, <3>2 DEF FieldsOf, Location
    <3>4. SetToSeq(F) \in Seq(F) /\ IsInjective(SetToSeq(F)) /\ ToSet(SetToSeq(F)) = F
      BY <3>3, SetToSeqIs
    <3>5. SetToSeq(F) \in Seq(Location)
      BY <3>3, <3>4, SeqMonotonic
    <3>. QED  BY <1>5, <2>2, <3>2, <3>3, <3>4, <3>5
  <2>. QED  BY <2>1, <2>2
<1>7. /\ \A n : RootAt(n) \notin D
      /\ \A a \in ToSpace, f \in Field : FieldAt(a, f) \notin D
      /\ D # {} => ~rs[i].header
      /\ \A l \in D : \E f \in Field : l = FieldAt(b, f)
      /\ ~rs[i].header => \A f \in Field : FieldAt(b, f) \in D
  BY <1>4, <1>6, LocationsAre
<1>8. Shapes(mem, to_free, roots, rs, ToSet(todo))'
  BY <1>1, <1>4, <1>5, <1>7 DEF Shapes, Location
<1>9. Phases(to_free, roots, rs, ToSet(todo))'
  <2>1. \A l \in D : LeftOver(l, to_free, roots, rs)'
    BY <1>1, <1>3, <1>7 DEF LeftOver
  <2>. QED  BY <1>1, <1>5, <2>1 DEF Phases
<1>10. Pointers(mem, roots, ToSet(todo))'
  BY <1>1, <1>2, <1>5, <1>7 DEF Pointers
<1>11. OldPointers(mem, rs, ToSet(todo))'
  <2>1. \A j \in DOMAIN rs, f \in Field : Unseen(rs, j, f, ToSet(todo)) => Unseen(rs, j, f, ToSet(todo))'
    BY <1>1, <1>3, <1>5, <1>7 DEF Unseen
  <2>2. \A j \in DOMAIN rs, f \in Field : Seen(rs, j, f, ToSet(todo)) => Seen(rs, j, f, ToSet(todo))'
    BY <1>1 DEF Seen
  <2>. QED  BY <1>1, <2>1, <2>2 DEF OldPointers
<1>12. Copies(mem)' /\ Blanks(mem, to_free)'
  BY <1>1 DEF Copies, Blanks
<1>13. Entries(mem, rs)' /\ LiveSet(mem, roots)' /\ Records'
  BY <1>1 DEF Entries, LiveSet, Records
<1>. QED  BY <1>6, <1>8, <1>9, <1>10, <1>11, <1>12, <1>13 DEF GenInv, Whole, Queued

(* An entry stays if its object still points to a young one.               *)
LEMMA KeepStep == GenInv /\ KeepEntry => GenInv'
<1>. SUFFICES ASSUME GenInv, KeepEntry  PROVE GenInv'
  OBVIOUS
<1>1. /\ pc = "update" /\ todo = <<>> /\ pc' = pc /\ i' = i + 1 /\ i <= Len(rs) /\ entered /\ ~entered'
      /\ entered' \in BOOLEAN /\ todo' = todo /\ ~rs[i].header
      /\ new_free' = new_free /\ fromg' = fromg /\ mem' = mem /\ roots' = roots /\ rs' = rs
      /\ to_free' = to_free /\ stored' = stored
  BY DEF KeepEntry, heapvars, Updates, Entry, HasNewObj
<1>. USE WholeNow, SpacesSame
<1>2. ToSet(todo) = {} /\ ToSet(todo)' = {}
  BY <1>1
<1>3. Shapes(mem, to_free, roots, rs, ToSet(todo))'
  BY <1>1, <1>2 DEF Shapes
<1>4. Phases(to_free, roots, rs, ToSet(todo))'
  BY <1>1, <1>2 DEF Phases
<1>5. Pointers(mem, roots, ToSet(todo))'
  BY <1>1, <1>2 DEF Pointers
<1>6. OldPointers(mem, rs, ToSet(todo))'
  <2>1. ASSUME NEW j \in DOMAIN rs, NEW f \in Field
        PROVE  /\ Unseen(rs, j, f, ToSet(todo)) => Unseen(rs, j, f, ToSet(todo))'
               /\ Seen(rs, j, f, ToSet(todo)) => Seen(rs, j, f, ToSet(todo))'
    <3>1. j \in Nat /\ i \in Nat
      OBVIOUS
    <3>2. Unseen(rs, j, f, ToSet(todo)) => j > i
      BY <1>1, <1>2 DEF Unseen
    <3>3. j > i => Unseen(rs, j, f, ToSet(todo))'
      BY <1>1, <3>1 DEF Unseen
    <3>4. Seen(rs, j, f, ToSet(todo)) => Seen(rs, j, f, ToSet(todo))'
      BY <1>1, <3>1 DEF Seen
    <3>. QED  BY <3>2, <3>3, <3>4
  <2>. QED  BY <1>1, <2>1 DEF OldPointers
<1>7. Copies(mem)' /\ Blanks(mem, to_free)'
  BY <1>1 DEF Copies, Blanks
<1>8. Entries(mem, rs)' /\ LiveSet(mem, roots)' /\ Records'
  BY <1>1 DEF Entries, LiveSet, Records
<1>9. Queued'
  BY <1>1 DEF Queued, GenInv
<1>. QED  BY <1>3, <1>4, <1>5, <1>6, <1>7, <1>8, <1>9 DEF GenInv, Whole

(* major_gc, called by the program.                                        *)
LEMMA MajorStep == GenInv /\ major_gc => lost' # "no" \/ GenInv'
<1>. SUFFICES ASSUME GenInv, major_gc, lost' = "no"  PROVE GenInv'
  OBVIOUS
<1>1. /\ lost = "no" /\ mem' = Swept /\ LostBy(Swept) = "no" /\ todo' = todo
      /\ to_free' = to_free /\ roots' = roots /\ rs' = rs /\ Frame
  BY DEF major_gc, Operates, Frame
<1>2. Whole(mem, to_free, roots, rs, ToSet(todo))
  BY DEF GenInv
<1>3. PICK e : e = Swept
  OBVIOUS
<1>4. Whole(e, to_free, roots, rs, ToSet(todo))
  BY <1>1, <1>2, <1>3, SweptWhole
<1>5. Whole(mem, to_free, roots, rs, ToSet(todo))'
  <2>1. Whole(mem', to_free', roots', rs', ToSet(todo)) /\ ToSet(todo) = ToSet(todo')
    BY <1>1, <1>3, <1>4
  <2>. QED  BY <1>1, <2>1, FrameWhole
<1>. QED  BY <1>1, <1>5 DEF GenInv, Queued

(* remove_from_rs: nothing young is left, the entry goes.                  *)
LEMMA DropStep == GenInv /\ lost = "no" /\ DropEntry => lost' # "no" \/ GenInv'
<1>. SUFFICES ASSUME GenInv, lost = "no", DropEntry, lost' = "no"  PROVE GenInv'
  OBVIOUS
<1>. USE WholeNow, SpacesSame
<1>0. PICK b \in Old : b = rs[i].ptr
  BY DEF DropEntry
<1>. DEFINE L == Len(rs)
<1>1. /\ pc = "update" /\ todo = <<>> /\ pc' = pc /\ i' = i + 1 /\ i \in 1 .. L /\ entered /\ ~entered'
      /\ entered' \in BOOLEAN /\ todo' = todo /\ ~rs[i].header /\ ~PointsToYoung(b)
      /\ rs' = (IF i = L THEN Front(rs) ELSE [Front(rs) EXCEPT ![i] = Last(rs)])
      /\ mem' = [mem EXCEPT ![b].remembered = FALSE]
      /\ i < L => ~PointsToYoung(rs[L].ptr)
      /\ new_free' = new_free /\ fromg' = fromg /\ roots' = roots
      /\ to_free' = to_free /\ stored' = stored
  <2>1. /\ pc = "update" /\ todo = <<>> /\ pc' = pc /\ i' = i + 1 /\ i <= L /\ entered /\ entered' = FALSE
        /\ todo' = todo /\ ~HasNewObj(rs[i])
        /\ rs' = (IF i = L THEN Front(rs) ELSE [Front(rs) EXCEPT ![i] = Last(rs)])
        /\ mem' = (IF rs[i].header THEN mem ELSE [mem EXCEPT ![rs[i].ptr].remembered = FALSE])
        /\ ~Overlooks
        /\ new_free' = new_free /\ fromg' = fromg /\ roots' = roots
        /\ to_free' = to_free /\ stored' = stored
    BY DEF DropEntry, Updates, Entry
  <2>2. ~rs[i].header /\ (i < L => ~PointsToYoung(rs[L].ptr))
    BY <2>1 DEF Overlooks, Entry, Last
  <2>3. ~PointsToYoung(b)
    BY <1>0, <2>1, <2>2 DEF HasNewObj
  <2>4. i \in 1 .. L
    BY <2>1
  <2>. QED  BY <1>0, <2>1, <2>2, <2>3, <2>4
<1>2. ToSet(todo) = {} /\ ToSet(todo)' = {}
  BY <1>1
<1>3. PICK m : m = mem'
  OBVIOUS
<1>4. /\ m \in [Addr -> GenObject]
      /\ \A a \in Addr : /\ m[a].value = mem[a].value /\ m[a].age = mem[a].age
                         /\ m[a].field = mem[a].field /\ m[a].copied = mem[a].copied
                         /\ m[a].forwarding = mem[a].forwarding
                         /\ m[a].remembered <=> a # b /\ mem[a].remembered
                         /\ a # b => m[a] = mem[a]
  <2>1. PICK o : o = [mem[b] EXCEPT !.remembered = FALSE]
    OBVIOUS
  <2>2. b \in Addr /\ mem[b] \in GenObject
    BY DEF Addr
  <2>3. /\ o \in GenObject /\ o.value = mem[b].value /\ o.age = mem[b].age
        /\ o.field = mem[b].field /\ o.copied = mem[b].copied /\ o.forwarding = mem[b].forwarding
        /\ ~o.remembered
    BY <2>1, <2>2 DEF GenObject
  <2>4. m = [mem EXCEPT ![b] = o]
    BY <1>1, <1>3, <2>1
  <2>5. \A a \in Addr : m[a] = IF a = b THEN o ELSE mem[a]
    BY <2>4
  <2>. QED  BY <2>2, <2>3, <2>4, <2>5
<1>5. PICK r : r = rs'
  OBVIOUS
<1>6. /\ r \in Seq(RsEntry) /\ DOMAIN r = 1 .. L - 1 /\ Len(r) = L - 1
      /\ \A j \in 1 .. L - 1 : r[j] = rs[IF j = i THEN L ELSE j]
  <2>1. rs # <<>>
    BY <1>1
  <2>2. PICK q, x : q = Front(rs) /\ x = rs[L]
    OBVIOUS
  <2>3. q \in Seq(RsEntry) /\ Len(q) = L - 1 /\ x \in RsEntry
    <3>1. Last(rs) = x
      BY <2>2 DEF Last
    <3>2. rs \in Seq(RsEntry)
      OBVIOUS
    <3>. QED  BY ONLY <2>1, <2>2, <3>1, <3>2, LastOfList
  <2>4. \A j \in 1 .. L - 1 : q[j] = rs[j]
    BY <1>1, <2>2 DEF Front
  <2>5. r = IF i = L THEN q ELSE [q EXCEPT ![i] = x]
    BY <1>1, <1>5, <2>2 DEF Last
  <2>6. DOMAIN q = 1 .. L - 1
    BY <2>3
  <2>7. CASE i = L
    BY <2>3, <2>4, <2>5, <2>6, <2>7
  <2>8. CASE i # L
    <3>1. i \in 1 .. L - 1
      BY <1>1, <2>8
    <3>2. r = [q EXCEPT ![i] = x]
      BY <2>5, <2>8
    <3>3. r \in Seq(RsEntry) /\ Len(r) = L - 1 /\ DOMAIN r = 1 .. L - 1
      BY <2>3, <2>6, <3>1, <3>2, ExceptSeq
    <3>4. \A j \in 1 .. L - 1 : r[j] = IF j = i THEN x ELSE q[j]
      BY <2>6, <3>1, <3>2
    <3>. QED  BY <2>2, <2>4, <3>3, <3>4
  <2>. QED  BY <2>7, <2>8
<1>7. Shapes(mem, to_free, roots, rs, ToSet(todo))'
  BY <1>1, <1>2, <1>3, <1>4, <1>5, <1>6 DEF Shapes
<1>8. Phases(to_free, roots, rs, ToSet(todo))'
  BY <1>1, <1>2 DEF Phases
<1>. HIDE DEF L
<1>9. FromSpace \cup ToSpace \cup Old \subseteq Addr /\ L \in Nat
  BY SpacesAre DEF Records, L
<1>10. Pointers(mem, roots, ToSet(todo))'
  <2>1. \A a \in FromSpace, f \in Field : m[a].field[f] \in Here
    BY <1>4, <1>9 DEF Pointers
  <2>2. \A a \in ToSpace, f \in Field : m[a].field[f] \in There
    BY <1>2, <1>4, <1>9 DEF Pointers
  <2>3. \A n \in DOMAIN roots : roots[n] \in ToSpace \cup Old
    BY <1>1, <1>2 DEF Pointers
  <2>. QED  BY <1>1, <1>2, <1>3, <2>1, <2>2, <2>3 DEF Pointers
<1>11. OldPointers(mem, rs, ToSet(todo))'
  <2>1. ASSUME NEW a \in Old, NEW f \in Field
        PROVE  /\ m[a].field[f] \in FromSpace => \E j \in DOMAIN r : r[j].ptr = a /\ j > i
               /\ m[a].field[f] \in ToSpace => \E j \in DOMAIN r : r[j].ptr = a /\ ~r[j].header /\ j < i
    <3>1. m[a].field[f] = mem[a].field[f] /\ FromSpace \cup ToSpace = Young
      BY <1>4, <1>9, SpacesAre DEF Records
    <3>2. m[a].field[f] \in Young => PointsToYoung(a)
      BY <3>1 DEF PointsToYoung
    <3>3. ASSUME m[a].field[f] \in FromSpace
          PROVE  \E j \in DOMAIN r : r[j].ptr = a /\ j > i
      <4>1. PICK j \in DOMAIN rs : rs[j].ptr = a /\ Unseen(rs, j, f, ToSet(todo))
        BY <3>1, <3>3 DEF OldPointers
      <4>2. j > i
        BY <1>1, <1>2, <4>1 DEF Unseen
      <4>3. j # L
        BY <1>1, <3>1, <3>2, <3>3, <4>1, <4>2
      <4>4. j \in 1 .. L - 1 /\ j # i
        BY <1>9, <4>2, <4>3 DEF L
      <4>. QED  BY <1>6, <4>1, <4>2, <4>4
    <3>4. ASSUME m[a].field[f] \in ToSpace
          PROVE  \E j \in DOMAIN r : r[j].ptr = a /\ ~r[j].header /\ j < i
      <4>1. PICK j \in DOMAIN rs : rs[j].ptr = a /\ Seen(rs, j, f, ToSet(todo))
        BY <3>1, <3>4 DEF OldPointers
      <4>2. j # i
        BY <1>0, <1>1, <3>1, <3>2, <3>4, <4>1
      <4>3. j < i /\ ~rs[j].header
        BY <4>1, <4>2 DEF Seen
      <4>4. j \in 1 .. L - 1
        BY <1>1, <1>9, <4>3 DEF L
      <4>. QED  BY <1>6, <4>1, <4>2, <4>3, <4>4
    <3>. QED  BY <3>3, <3>4
  <2>2. ASSUME NEW j \in DOMAIN r, NEW f \in Field
        PROVE  /\ j > i => Unseen(rs, j, f, ToSet(todo))'
               /\ j < i /\ ~r[j].header => Seen(rs, j, f, ToSet(todo))'
    <3>1. j \in Nat /\ i \in Nat
      BY <1>6, <1>9
    <3>. QED  BY <1>1, <1>2, <1>5, <3>1 DEF Unseen, Seen
  <2>3. ASSUME NEW a \in Old, NEW f \in Field
        PROVE  /\ m[a].field[f] \in FromSpace =>
                     \E j \in DOMAIN r : r[j].ptr = a /\ Unseen(rs, j, f, ToSet(todo))'
               /\ m[a].field[f] \in ToSpace =>
                     \E j \in DOMAIN r : r[j].ptr = a /\ Seen(rs, j, f, ToSet(todo))'
    <3>1. m[a].field[f] \in FromSpace => \E j \in DOMAIN r : r[j].ptr = a /\ Unseen(rs, j, f, ToSet(todo))'
      BY ONLY <2>1, <2>2
    <3>2. m[a].field[f] \in ToSpace => \E j \in DOMAIN r : r[j].ptr = a /\ Seen(rs, j, f, ToSet(todo))'
      BY ONLY <2>1, <2>2
    <3>. QED  BY ONLY <3>1, <3>2
  <2>4. FromSpace' = FromSpace /\ ToSpace' = ToSpace
    BY <1>1
  <2>. QED  BY ONLY <1>3, <1>5, <2>3, <2>4 DEF OldPointers, Old
<1>12. Copies(mem)'
  <2>1. Copies(m)
    BY <1>4 DEF Copies
  <2>. QED  BY <1>1, <1>3, <2>1 DEF Copies
<1>13. Blanks(mem, to_free)'
  <2>1. m[b].age > 0
    <3>1. i \in DOMAIN rs
      BY <1>1 DEF L
    <3>2. mem[b].age > 0
      BY <1>0, <1>1, <3>1 DEF Entries
    <3>. QED  BY <1>4, <1>9, <3>2
  <2>2. \A a \in ToSpace : a \in Addr /\ a # b
    BY SpacesAre DEF Records
  <2>3. \A a \in ToSpace : a[2] > to_free => m[a] = EMPTY
    BY <1>4, <2>2 DEF Blanks
  <2>4. \A a \in Old : m[a] = EMPTY \/ m[a].age > 0
    BY <1>4, <1>9, <2>1 DEF Blanks
  <2>. QED  BY <1>1, <1>3, <2>3, <2>4 DEF Blanks
<1>14. Entries(mem, rs)'
  <2>1. ASSUME NEW a \in Addr, m[a].remembered  PROVE a \in Old /\ \E j \in DOMAIN r : r[j].ptr = a
    <3>1. a # b /\ mem[a].remembered
      BY <1>4, <2>1
    <3>2. PICK j \in DOMAIN rs : rs[j].ptr = a
      BY <3>1 DEF Entries
    <3>3. j # i
      BY <1>0, <3>1, <3>2
    <3>4. CASE j = L
      <4>1. i \in 1 .. L - 1
        BY <1>1, <1>9, <3>3, <3>4
      <4>2. r[i].ptr = a
        BY <1>6, <3>2, <3>4, <4>1
      <4>. QED  BY <1>6, <3>1, <4>1, <4>2 DEF Entries
    <3>5. CASE j # L
      <4>1. j \in 1 .. L - 1
        BY <1>9, <3>5 DEF L
      <4>. QED  BY <1>6, <3>1, <3>2, <3>3, <4>1 DEF Entries
    <3>. QED  BY <3>4, <3>5
  <2>2. \A j \in DOMAIN r : \E k \in DOMAIN rs : k = (IF j = i THEN L ELSE j) /\ r[j] = rs[k]
    BY <1>6, <1>9 DEF L
  <2>3. ASSUME NEW j \in DOMAIN r, ~r[j].header  PROVE m[r[j].ptr].age > 0
    <3>1. PICK k \in DOMAIN rs : r[j] = rs[k]
      BY <2>2
    <3>. QED  BY <1>4, <1>9, <2>3, <3>1 DEF Entries
  <2>4. ASSUME NEW j \in DOMAIN r, NEW k \in DOMAIN r, ~r[j].header, ~r[k].header, r[j].ptr = r[k].ptr
        PROVE  j = k
    <3>1. PICK j2 \in DOMAIN rs : j2 = (IF j = i THEN L ELSE j) /\ r[j] = rs[j2]
      BY <2>2
    <3>2. PICK k2 \in DOMAIN rs : k2 = (IF k = i THEN L ELSE k) /\ r[k] = rs[k2]
      BY <2>2
    <3>3. j2 = k2
      BY <2>4, <3>1, <3>2 DEF Entries
    <3>4. j \in 1 .. L - 1 /\ k \in 1 .. L - 1
      BY <1>6
    <3>5. j # L /\ k # L
      BY <1>9, <3>4
    <3>. QED  BY <3>1, <3>2, <3>3, <3>5
  <2>. QED  BY <1>1, <1>3, <1>5, <2>1, <2>3, <2>4 DEF Entries
<1>15. LiveSet(mem, roots)'
  <2>1. PICK S \in SUBSET Addr : Reaches(S, mem, roots) /\ Tells(S, mem, stored)
    BY DEF LiveSet
  <2>2. \A a \in S : a \in Addr
    OBVIOUS
  <2>3. Reaches(S, m, roots)
    BY <1>4, <2>1, <2>2 DEF Reaches
  <2>4. Tells(S, m, stored)
    <3>1. \A a \in S : m[a].value = mem[a].value /\ m[a].forwarding = mem[a].forwarding /\ m[a].field = mem[a].field
      BY <1>4, <2>2
    <3>2. \A p \in S \cup {NULL} : ValueHeld(m, p) = ValueHeld(mem, p)
      BY <3>1 DEF ValueHeld
    <3>3. \A a \in S : mem[a].forwarding \in S \cup {NULL} /\ \A f \in Field : mem[a].field[f] \in S \cup {NULL}
      BY <2>1 DEF Reaches
    <3>. QED  BY <2>1, <3>1, <3>2, <3>3 DEF Tells
  <2>5. Names(m, roots, stored)
    <3>1. \A n \in DOMAIN roots : m[roots[n]].value = mem[roots[n]].value
      BY <1>4
    <3>. QED  BY <3>1 DEF LiveSet, Names
  <2>. QED  BY <1>1, <1>3, <2>3, <2>4, <2>5 DEF LiveSet
<1>16. Records' /\ Queued'
  BY <1>1 DEF Records, Queued, GenInv
<1>. QED  BY <1>7, <1>8, <1>10, <1>11, <1>12, <1>13, <1>14, <1>15, <1>16 DEF GenInv, Whole

(* The end: the from-space is empty and the survivor spaces swap.          *)
LEMMA FlipStep == GenInv /\ Flip => GenInv'
<1>. SUFFICES ASSUME GenInv, Flip  PROVE GenInv'
  OBVIOUS
<1>. USE WholeNow
<1>1. /\ pc = "update" /\ todo = <<>> /\ i > Len(rs) /\ pc' = "program"
      /\ mem' = [a \in Addr |-> IF a[1] \in {"new", fromg} THEN EMPTY ELSE mem[a]]
      /\ new_free' = 0 /\ fromg' = tog /\ to_free' = 0 /\ i' = 1
      /\ roots' = roots /\ rs' = rs /\ todo' = todo /\ entered' = entered /\ stored' = stored
  BY DEF Flip, Updates
<1>2. ToSet(todo) = {} /\ ToSet(todo)' = {} /\ ~entered
  BY <1>1 DEF Phases
<1>3. PICK m, F, T : m = mem' /\ F = FromSpace' /\ T = ToSpace'
  OBVIOUS
<1>4. /\ fromg \in {"s1", "s2"} /\ fromg' \in {"s1", "s2"} /\ tog' = fromg
      /\ tog \in {"s1", "s2"} /\ tog # fromg /\ NULL \notin Addr
      /\ FromSpace \cup ToSpace = Young /\ FromSpace \cap ToSpace = {}
      /\ Young \cap Old = {} /\ Young \cup Old = Addr
      /\ \A a \in ToSpace : a[1] = tog
      /\ \A a \in Old : a[1] = "old"
      /\ \A a \in FromSpace : a[1] \in {"new", fromg}
  <2>1. fromg \in {"s1", "s2"}
    BY DEF Records
  <2>2. \A a \in ToSpace : a[1] = tog
    BY DEF ToSpace
  <2>. QED  BY <1>1, <2>1, <2>2, SpacesAre DEF tog
<1>5. F = {a \in Young : a[1] # fromg} /\ T = {a \in Young : a[1] = fromg}
  BY <1>3, <1>4 DEF FromSpace, ToSpace
<1>6. ToSpace \subseteq F /\ T \subseteq FromSpace /\ F \cup T = Young
  BY <1>4, <1>5
<1>7. \A a \in Addr : m[a] = IF a \in FromSpace THEN EMPTY ELSE mem[a]
  BY <1>1, <1>3, <1>4
<1>8. EMPTY \in GenObject
  <2>1. [f \in Field |-> NULL] \in [Field -> Addr \cup {NULL}]
    OBVIOUS
  <2>. QED  BY <2>1 DEF EMPTY, GenObject
<1>9. m \in [Addr -> GenObject]
  <2>1. \A a \in Addr : (IF a[1] \in {"new", fromg} THEN EMPTY ELSE mem[a]) \in GenObject
    BY <1>8
  <2>. QED  BY <1>1, <1>3, <2>1
<1>10. /\ \A f \in Field : EMPTY.field[f] = NULL
       /\ EMPTY.value = 0 /\ EMPTY.age = 0 /\ ~EMPTY.copied /\ ~EMPTY.remembered
       /\ EMPTY.forwarding = NULL
  BY DEF EMPTY
<1>11. /\ \A a \in ToSpace, f \in Field : mem[a].field[f] \in ToSpace \cup Old \cup {NULL}
       /\ \A n \in DOMAIN roots : roots[n] \in ToSpace \cup Old
  BY <1>1, <1>2 DEF Pointers, There
<1>12. \A a \in Old, f \in Field :
          /\ mem[a].field[f] \in ToSpace \cup Old \cup {NULL}
          /\ mem[a].field[f] \in ToSpace => \E j \in DOMAIN rs : rs[j].ptr = a
  <2>. TAKE a \in Old, f \in Field
  <2>1. mem[a].field[f] \notin FromSpace
    <3>. SUFFICES ASSUME mem[a].field[f] \in FromSpace  PROVE FALSE
      OBVIOUS
    <3>1. PICK j \in DOMAIN rs : Unseen(rs, j, f, ToSet(todo))
      BY DEF OldPointers
    <3>2. j >= i
      BY <1>1, <3>1 DEF Unseen
    <3>. QED  BY <1>1, <3>2
  <2>2. a \in Addr
    BY <1>4
  <2>3. mem[a].field[f] \in Addr \cup {NULL}
    BY <2>2 DEF GenObject
  <2>4. mem[a].field[f] \in ToSpace => \E j \in DOMAIN rs : rs[j].ptr = a
    BY DEF OldPointers
  <2>. QED  BY <1>4, <2>1, <2>3, <2>4
<1>13. \A a \in ToSpace \cup Old : a \in Addr /\ a \notin FromSpace /\ m[a] = mem[a]
  BY <1>4, <1>7
<1>14. Shapes(mem, to_free, roots, rs, ToSet(todo))'
  <2>1. 0 \in 0 .. Room
    BY GenerationalAssumption
  <2>. QED  BY <1>1, <1>2, <1>3, <1>9, <2>1 DEF Shapes
<1>15. Phases(to_free, roots, rs, ToSet(todo))'
  BY <1>1, <1>2 DEF Phases
<1>16. Pointers(mem, roots, ToSet(todo))'
  <2>1. Here' = F \cup Old \cup {NULL} /\ There' = T \cup Old \cup {NULL}
    BY <1>3 DEF Here, There
  <2>2. \A a \in F, f \in Field : m[a].field[f] \in F \cup Old \cup {NULL}
    <3>. TAKE a \in F, f \in Field
    <3>1. a \in ToSpace \/ a \in FromSpace
      BY <1>4, <1>5
    <3>2. CASE a \in ToSpace
      BY <1>6, <1>11, <1>13, <3>2
    <3>3. CASE a \in FromSpace
      BY <1>4, <1>7, <1>10, <3>3
    <3>. QED  BY <3>1, <3>2, <3>3
  <2>3. \A a \in T, f \in Field : m[a].field[f] = NULL
    BY <1>4, <1>6, <1>7, <1>10
  <2>4. \A n \in DOMAIN roots : roots[n] \in F \cup Old
    BY <1>6, <1>11
  <2>5. \A a \in T, f \in Field : m[a].field[f] \in T \cup Old \cup {NULL}
    BY <2>3
  <2>6. \A a, f : FieldAt(a, f) \notin ToSet(todo)'
    BY <1>2
  <2>7. roots' = roots /\ pc' = "program"
    BY <1>1
  <2>. QED  BY ONLY <1>3, <2>1, <2>2, <2>4, <2>5, <2>6, <2>7 DEF Pointers, Old
<1>17. OldPointers(mem, rs, ToSet(todo))'
  <2>1. \A a \in Old, f \in Field :
           /\ m[a].field[f] \notin T
           /\ m[a].field[f] \in F => \E j \in DOMAIN rs : rs[j].ptr = a
    <3>. TAKE a \in Old, f \in Field
    <3>1. m[a].field[f] \in ToSpace \cup Old \cup {NULL} /\ m[a].field[f] = mem[a].field[f]
      BY <1>12, <1>13
    <3>2. T \cap (ToSpace \cup Old \cup {NULL}) = {} /\ F \cap (Old \cup {NULL}) = {}
      BY <1>4, <1>5, <1>6
    <3>. QED  BY <1>12, <3>1, <3>2
  <2>2. \A j \in DOMAIN rs, f \in Field : Unseen(rs, j, f, ToSet(todo))'
    BY <1>1 DEF Unseen
  <2>3. rs' = rs
    BY <1>1
  <2>. QED  BY ONLY <1>3, <2>1, <2>2, <2>3 DEF OldPointers, Old
<1>18. Copies(mem)'
  <2>1. \A a \in Addr : m[a].value # 0 => a \notin FromSpace /\ m[a] = mem[a]
    BY <1>7, <1>10
  <2>2. \A a \in Addr : ~m[a].copied /\ m[a].forwarding = NULL
    BY <1>7, <1>10 DEF Copies
  <2>3. \A a \in Addr : a \notin FromSpace => ~mem[a].copied
    BY DEF Copies
  <2>4. \A a, b \in Addr : (m[a].value # 0 /\ m[a].value = m[b].value) => a = b
    BY <2>1, <2>3 DEF Copies
  <2>5. \A a \in Addr : m[a].value <= Len(stored.link)
    <3>1. 0 <= Len(stored.link)
      BY DEF Records
    <3>. QED  BY <1>7, <1>10, <3>1 DEF Copies
  <2>. QED  BY <1>1, <1>3, <2>2, <2>4, <2>5 DEF Copies
<1>19. Blanks(mem, to_free)'
  <2>1. \A a \in T : m[a] = EMPTY
    BY <1>4, <1>6, <1>7
  <2>2. \A k \in 1 .. Room : m[<<"new", k>>] = EMPTY
    BY <1>4, <1>7, SpacesAre
  <2>3. \A a \in Old : m[a] = EMPTY \/ m[a].age > 0
    BY <1>13 DEF Blanks
  <2>4. 0 \in 0 .. Room
    BY GenerationalAssumption
  <2>. QED  BY <1>1, <1>3, <2>1, <2>2, <2>3, <2>4 DEF Blanks
<1>20. Entries(mem, rs)'
  <2>1. \A a \in Addr : m[a].remembered => mem[a].remembered
    BY <1>7, <1>10
  <2>2. \A j \in DOMAIN rs : m[rs[j].ptr] = mem[rs[j].ptr]
    BY <1>13
  <2>3. Entries(mem, rs)
    OBVIOUS
  <2>4. PICK e : e = mem'
    OBVIOUS
  <2>5. (\A a \in Addr : e[a].remembered => mem[a].remembered) /\ \A j \in DOMAIN rs : e[rs[j].ptr] = mem[rs[j].ptr]
    BY <1>3, <2>1, <2>2, <2>4
  <2>6. Entries(e, rs)
    BY ONLY <2>3, <2>5 DEF Entries
  <2>. QED  BY <1>1, <2>4, <2>6
<1>21. LiveSet(mem, roots)'
  <2>1. PICK S \in SUBSET Addr : Reaches(S, mem, roots) /\ Tells(S, mem, stored)
    BY DEF LiveSet
  <2>2. PICK Q : Q = S \cap (ToSpace \cup Old)
    OBVIOUS
  <2>3. \A a \in Q : a \in S /\ a \in Addr /\ m[a] = mem[a] /\ m[a].forwarding = NULL
    BY <1>13, <2>2 DEF Copies
  <2>4. \A n \in DOMAIN roots : roots[n] \in Q
    BY <1>11, <2>1, <2>2 DEF Reaches
  <2>5. \A a \in Q, f \in Field : m[a].field[f] \in Q \cup {NULL}
    <3>. TAKE a \in Q, f \in Field
    <3>1. m[a].field[f] \in S \cup {NULL}
      BY <2>1, <2>3 DEF Reaches
    <3>2. m[a].field[f] \in ToSpace \cup Old \cup {NULL}
      BY <1>11, <1>12, <2>2, <2>3
    <3>. QED  BY <2>2, <3>1, <3>2
  <2>6. Reaches(Q, m, roots)
    BY <2>3, <2>4, <2>5 DEF Reaches
  <2>7. \A p \in Q \cup {NULL} : ValueHeld(m, p) = ValueHeld(mem, p)
    BY <2>3 DEF ValueHeld
  <2>8. Tells(Q, m, stored)
    <3>1. \A a \in Q : m[a].value # 0
      BY <2>1, <2>3 DEF Tells
    <3>2. ASSUME NEW a \in Q, NEW f \in Field  PROVE stored.link[m[a].value][f] = ValueHeld(m, m[a].field[f])
      <4>1. stored.link[mem[a].value][f] = ValueHeld(mem, mem[a].field[f])
        BY <2>1, <2>3 DEF Tells
      <4>. QED  BY <2>3, <2>5, <2>7, <4>1
    <3>. QED  BY <2>3, <3>1, <3>2 DEF Tells
  <2>9. Names(m, roots, stored)
    BY <2>3, <2>4 DEF LiveSet, Names
  <2>10. LiveSet(m, roots)
    <3>1. Q \in SUBSET Addr
      BY <2>3
    <3>. QED  BY <2>6, <2>8, <2>9, <3>1 DEF LiveSet
  <2>. QED  BY <1>1, <1>3, <2>10 DEF LiveSet
<1>22. Records' /\ Queued'
  BY <1>1, <1>4 DEF Records, Queued, GenInv
<1>. QED  BY <1>14, <1>15, <1>16, <1>17, <1>18, <1>19, <1>20, <1>21, <1>22 DEF GenInv, Whole

(***************************************************************************)
(* The program: the invariant between the collections.                     *)
(***************************************************************************)
(* A heap m, roots ro and a remembered set r that show the program what it *)
(* stored, nm and lk, in the objects S.                                    *)
Calm(m, nf, ro, r, nm, lk, S) ==
    /\ m \in [Addr -> GenObject] /\ nf \in 0 .. Room /\ ro \in Seq(Addr) /\ r \in Seq(RsEntry)
    /\ nm = [n \in DOMAIN ro |-> m[ro[n]].value] /\ lk \in Seq([Field -> Nat])
    /\ S \in SUBSET Addr /\ Reaches(S, m, ro) /\ Tells(S, m, [name |-> nm, link |-> lk])
    /\ \A a \in Addr, f \in Field : m[a].field[f] \in Here
    /\ \A n \in DOMAIN ro : ro[n] \in FromSpace \cup Old
    /\ \A a \in Old, f \in Field : m[a].field[f] \in FromSpace => \E j \in DOMAIN r : r[j].ptr = a
    /\ \A a \in Addr : ~m[a].copied /\ m[a].forwarding = NULL /\ m[a].value <= Len(lk)
    /\ \A a, b \in Addr : (m[a].value # 0 /\ m[a].value = m[b].value) => a = b
    /\ \A a \in ToSpace : m[a] = EMPTY
    /\ \A k \in 1 .. Room : k > nf => m[<<"new", k>>] = EMPTY
    /\ \A a \in Old : m[a] = EMPTY \/ m[a].age > 0
    /\ Entries(m, r)

(* Between collections the invariant says no less than Calm.               *)
LEMMA CalmNow ==
  ASSUME GenInv, pc = "program"
  PROVE  /\ \E S : /\ Calm(mem, new_free, roots, rs, stored.name, stored.link, S)
                   /\ Reachable \subseteq S
         /\ todo = <<>> /\ i = 1 /\ ~entered /\ to_free = 0
         /\ fromg \in {"s1", "s2"} /\ stored = [name |-> stored.name, link |-> stored.link]
<1>. USE WholeNow
<1>0. /\ todo = <<>> /\ i = 1 /\ ~entered /\ to_free = 0 /\ ToSet(todo) = {}
  <2>1. ToSet(todo) = {}
    BY DEF Phases
  <2>2. todo = <<>>
    <3>. SUFFICES ASSUME todo # <<>>  PROVE FALSE
      OBVIOUS
    <3>1. todo \in Seq(Location)
      BY DEF GenInv, Queued
    <3>2. ToSet(todo) = {Head(todo)} \cup ToSet(Tail(todo))
      BY ONLY <3>1, todo # <<>>, HeadOfList
    <3>. QED  BY <2>1, <3>2
  <2>. QED  BY <2>1, <2>2 DEF Phases
<1>1. /\ fromg \in {"s1", "s2"} /\ stored = [name |-> stored.name, link |-> stored.link]
      /\ stored.link \in Seq([Field -> Nat])
  BY DEF Records
<1>2. PICK S \in SUBSET Addr : Reaches(S, mem, roots) /\ Tells(S, mem, stored)
  BY DEF LiveSet
<1>3. Reachable \subseteq S
  <2>1. NULL \notin Addr
    BY <1>1, SpacesAre
  <2>. QED  BY <1>2, <2>1, ReachableIs
<1>4. \A a \in ToSpace : mem[a] = EMPTY
  <2>1. \A a \in ToSpace : a[2] > 0
    BY <1>1, SpacesAre
  <2>. QED  BY <1>0, <2>1 DEF Blanks
<1>5. \A a \in Addr, f \in Field : mem[a].field[f] \in Here
  <2>. TAKE a \in Addr, f \in Field
  <2>1. CASE a \in FromSpace
    BY <2>1 DEF Pointers
  <2>2. CASE a \in ToSpace
    <3>1. mem[a].field[f] = NULL
      BY <1>4, <2>2 DEF EMPTY
    <3>. QED  BY <3>1 DEF Here
  <2>3. CASE a \in Old
    <3>1. mem[a].field[f] \notin ToSpace
      BY <2>3 DEF OldPointers, Seen
    <3>2. mem[a].field[f] \in Addr \cup {NULL}
      BY DEF GenObject
    <3>. QED  BY <1>1, <3>1, <3>2, SpacesAre DEF Here
  <2>. QED  BY <1>1, <2>1, <2>2, <2>3, SpacesAre
<1>6. \A n \in DOMAIN roots : roots[n] \in FromSpace \cup Old
  BY DEF Pointers
<1>7. \A a \in Old, f \in Field : mem[a].field[f] \in FromSpace => \E j \in DOMAIN rs : rs[j].ptr = a
  BY DEF OldPointers
<1>8. \A a \in Addr : ~mem[a].copied /\ mem[a].forwarding = NULL /\ mem[a].value <= Len(stored.link)
  BY DEF Copies
<1>9. \A a, b \in Addr : (mem[a].value # 0 /\ mem[a].value = mem[b].value) => a = b
  BY <1>8 DEF Copies
<1>10. /\ new_free \in 0 .. Room
       /\ \A k \in 1 .. Room : k > new_free => mem[<<"new", k>>] = EMPTY
       /\ \A a \in Old : mem[a] = EMPTY \/ mem[a].age > 0
  BY DEF Blanks
<1>11. stored.name = [n \in DOMAIN roots |-> mem[roots[n]].value]
  BY DEF LiveSet, Names
<1>12. Tells(S, mem, [name |-> stored.name, link |-> stored.link])
  BY <1>1, <1>2
<1>13. Calm(mem, new_free, roots, rs, stored.name, stored.link, S)
  BY <1>1, <1>2, <1>4, <1>5, <1>6, <1>7, <1>8, <1>9, <1>10, <1>11, <1>12 DEF Calm
<1>. QED  BY <1>0, <1>1, <1>3, <1>13

(* And no more.                                                            *)
LEMMA CalmNext ==
  ASSUME pc' = "program", i' = 1, entered' = FALSE, to_free' = 0, todo' = <<>>,
         fromg' = fromg, fromg \in {"s1", "s2"}, NEW S, NEW nm, NEW lk,
         stored' = [name |-> nm, link |-> lk],
         Calm(mem', new_free', roots', rs', nm, lk, S)
  PROVE  GenInv'
<1>. USE SpacesSame
<1>1. PICK m, ro, r : m = mem' /\ ro = roots' /\ r = rs'
  OBVIOUS
<1>2. Calm(m, new_free', ro, r, nm, lk, S)
  BY <1>1
<1>3. ToSet(todo)' = {} /\ Queued'
  BY ToSetEmpty DEF Queued, IsInjective
<1>4. Shapes(mem, to_free, roots, rs, ToSet(todo))'
  <2>1. 0 \in 0 .. Room
    BY GenerationalAssumption
  <2>. QED  BY <1>1, <1>2, <1>3, <2>1 DEF Calm, Shapes
<1>5. Phases(to_free, roots, rs, ToSet(todo))'
  <2>1. ToSet(todo)' = {} /\ pc' = "program" /\ i' = 1 /\ to_free' = 0
    BY <1>3
  <2>2. entered' \in BOOLEAN /\ ~entered'
    OBVIOUS
  <2>. QED  BY ONLY <2>1, <2>2 DEF Phases
<1>6. NULL \notin Addr /\ FromSpace \subseteq Addr /\ ToSpace \subseteq Addr /\ Old \subseteq Addr
      /\ FromSpace \cap ToSpace = {} /\ ToSpace \cap Old = {} /\ NULL \notin ToSpace
  BY SpacesAre
<1>7. Pointers(mem, roots, ToSet(todo))'
  <2>1. \A a \in FromSpace, f \in Field : m[a].field[f] \in Here
    BY <1>2, <1>6 DEF Calm
  <2>2. \A a \in ToSpace, f \in Field : m[a].field[f] \in There
    BY <1>2 DEF Calm, EMPTY, There
  <2>3. \A n \in DOMAIN ro : ro[n] \in FromSpace \cup Old
    BY <1>2 DEF Calm
  <2>. QED  BY <1>1, <1>3, <2>1, <2>2, <2>3 DEF Pointers
<1>8. OldPointers(mem, rs, ToSet(todo))'
  <2>1. \A a \in Old, f \in Field :
          /\ m[a].field[f] \in FromSpace => \E j \in DOMAIN r : r[j].ptr = a
          /\ m[a].field[f] \notin ToSpace
    BY <1>2, <1>6 DEF Calm, Here
  <2>2. \A j \in DOMAIN r, f \in Field : Unseen(rs, j, f, ToSet(todo))'
    BY DEF Unseen
  <2>. QED  BY <1>1, <2>1, <2>2 DEF OldPointers
<1>9. Copies(mem)'
  BY <1>1, <1>2 DEF Calm, Copies
<1>10. Blanks(mem, to_free)'
  BY <1>1, <1>2 DEF Calm, Blanks
<1>11. Entries(mem, rs)'
  BY <1>1, <1>2 DEF Calm, Entries
<1>12. LiveSet(mem, roots)'
  BY <1>1, <1>2 DEF Calm, LiveSet, Names
<1>13. Records'
  BY <1>2 DEF Calm, Records
<1>. QED  BY <1>3, <1>4, <1>5, <1>7, <1>8, <1>9, <1>10, <1>11, <1>12, <1>13 DEF GenInv, Whole

(* What write_barrier does to the heap, rs and the links.                  *)
Stores(m, r, lk, a, f, v, e, r2, lk2) ==
    /\ e = [m EXCEPT ![a].field[f] = v, ![a].remembered = @ \/ NeedsEntry(m, a, v)]
    /\ r2 = IF NeedsEntry(m, a, v) THEN Append(r, [ptr |-> a, header |-> TRUE]) ELSE r
    /\ lk2 = [lk EXCEPT ![m[a].value][f] = ValueHeld(m, v)]

(* write_barrier's assignment.                                             *)
LEMMA CalmAssigned ==
  ASSUME NEW m, NEW nf, NEW ro, NEW r, NEW nm, NEW lk, NEW S, Calm(m, nf, ro, r, nm, lk, S),
         fromg \in {"s1", "s2"}, NEW a \in S, NEW f \in Field, NEW v \in S \cup {NULL},
         NEW e, NEW r2, NEW lk2, Stores(m, r, lk, a, f, v, e, r2, lk2)
  PROVE  Calm(e, nf, ro, r2, nm, lk2, S)
<1>. USE DEF Calm, Stores
<1>1. /\ m \in [Addr -> GenObject] /\ S \subseteq Addr /\ a \in Addr /\ m[a] \in GenObject
      /\ v \in Addr \cup {NULL} /\ NeedsEntry(m, a, v) \in BOOLEAN
      /\ r \in Seq(RsEntry) /\ Len(r) \in Nat /\ DOMAIN r = 1 .. Len(r)
      /\ NULL \notin Addr /\ ToSpace \subseteq Addr /\ Old \subseteq Addr
  BY SpacesAre DEF NeedsEntry
<1>2. PICK d : d = NeedsEntry(m, a, v)
  OBVIOUS
<1>3. PICK o : o = [m[a] EXCEPT !.field[f] = v, !.remembered = @ \/ d]
  OBVIOUS
<1>4. /\ o \in GenObject /\ o.value = m[a].value /\ o.age = m[a].age /\ o.copied = m[a].copied
      /\ o.forwarding = m[a].forwarding /\ (o.remembered <=> m[a].remembered \/ d)
      /\ \A g \in Field : o.field[g] = IF g = f THEN v ELSE m[a].field[g]
  <2>1. PICK h : h = [m[a].field EXCEPT ![f] = v]
    OBVIOUS
  <2>2. h \in [Field -> Addr \cup {NULL}] /\ \A g \in Field : h[g] = IF g = f THEN v ELSE m[a].field[g]
    BY <1>1, <2>1 DEF GenObject
  <2>3. PICK q : q = (m[a].remembered \/ d)
    OBVIOUS
  <2>4. q \in BOOLEAN
    BY <1>1, <1>2, <2>3 DEF GenObject
  <2>5. o = [m[a] EXCEPT !.field = h, !.remembered = q]
    BY <1>1, <1>3, <2>1, <2>3 DEF GenObject
  <2>. HIDE <1>3, <2>1
  <2>. QED  BY <1>1, <2>2, <2>3, <2>4, <2>5 DEF GenObject
<1>5. e = [m EXCEPT ![a] = o]
  BY <1>1, <1>2, <1>3 DEF NeedsEntry
<1>6. e \in [Addr -> GenObject] /\ \A c \in Addr : e[c] = IF c = a THEN o ELSE m[c]
  <2>1. m \in [Addr -> GenObject] /\ a \in Addr /\ o \in GenObject
    BY <1>1, <1>4
  <2>. QED  BY ONLY <1>5, <2>1
<1>7. \A c \in Addr : /\ e[c].value = m[c].value /\ e[c].age = m[c].age
                      /\ e[c].copied = m[c].copied /\ e[c].forwarding = m[c].forwarding
                      /\ (e[c].remembered <=> m[c].remembered \/ (c = a /\ d))
  BY <1>4, <1>6
<1>8. \A c \in Addr, g \in Field : e[c].field[g] = IF c = a /\ g = f THEN v ELSE m[c].field[g]
  <2>. TAKE c \in Addr, g \in Field
  <2>1. CASE c = a
    BY ONLY <1>4, <1>6, <2>1, c \in Addr, g \in Field
  <2>2. CASE c # a
    BY ONLY <1>6, <2>2, c \in Addr
  <2>. QED  BY <2>1, <2>2
<1>9. \A c \in S : m[c].value # 0
  BY DEF Tells
<1>10. EMPTY.value = 0 /\ EMPTY.field[f] = NULL
  BY DEF EMPTY
<1>11. \A c \in S : c \in Addr /\ m[c] # EMPTY /\ c \notin ToSpace
  BY <1>1, <1>9, <1>10
<1>12. v \in Here
  BY <1>1, <1>11, SpacesAre DEF Here
<1>13. /\ r2 \in Seq(RsEntry) /\ DOMAIN r2 = 1 .. Len(r2) /\ Len(r2) \in {Len(r), Len(r) + 1}
       /\ \A j \in DOMAIN r : j \in DOMAIN r2 /\ r2[j] = r[j]
       /\ \A j \in DOMAIN r2 : j \in DOMAIN r \/ (r2[j].ptr = a /\ r2[j].header)
       /\ d => Len(r) + 1 \in DOMAIN r2 /\ r2[Len(r) + 1].ptr = a
  <2>1. CASE d
    <3>1. PICK q : q = [ptr |-> a, header |-> TRUE]
      OBVIOUS
    <3>2. q \in RsEntry /\ q.ptr = a /\ q.header
      BY <1>2, <2>1, <3>1 DEF NeedsEntry, RsEntry
    <3>3. r2 = Append(r, q)
      BY <1>2, <2>1, <3>1
    <3>4. /\ r2 \in Seq(RsEntry) /\ Len(r2) = Len(r) + 1
          /\ \A j \in 1 .. Len(r) : r2[j] = r[j]
          /\ r2[Len(r) + 1] = q
      BY ONLY <1>1, <3>2, <3>3, AppendProperties
    <3>. QED  BY <1>1, <3>2, <3>4
  <2>2. CASE ~d
    BY <1>1, <1>2, <2>2
  <2>. QED  BY <2>1, <2>2
<1>14. m[a].value \in 1 .. Len(lk) /\ Len(lk) \in Nat /\ ValueHeld(m, v) \in Nat
  <2>1. m[a].value \in Nat /\ m[a].value # 0 /\ m[a].value <= Len(lk) /\ Len(lk) \in Nat
    BY <1>1, <1>9 DEF GenObject
  <2>2. ValueHeld(m, v) \in Nat
    BY <1>1 DEF ValueHeld, GenObject
  <2>. QED  BY <2>1, <2>2
<1>15. /\ lk2 \in Seq([Field -> Nat]) /\ Len(lk2) = Len(lk)
       /\ \A k \in 1 .. Len(lk), g \in Field :
             lk2[k][g] = IF k = m[a].value /\ g = f THEN ValueHeld(m, v) ELSE lk[k][g]
  <2>1. PICK k, w : k = m[a].value /\ w = ValueHeld(m, v)
    OBVIOUS
  <2>2. k \in 1 .. Len(lk) /\ w \in Nat /\ lk[k] \in [Field -> Nat]
    BY <1>14, <2>1, ElementOfSeq
  <2>3. PICK h : h = [lk[k] EXCEPT ![f] = w]
    OBVIOUS
  <2>4. h \in [Field -> Nat] /\ \A g \in Field : h[g] = IF g = f THEN w ELSE lk[k][g]
    BY <2>2, <2>3
  <2>5. lk2 = [lk EXCEPT ![k] = h]
    BY <2>1, <2>3
  <2>6. lk2 \in Seq([Field -> Nat]) /\ Len(lk2) = Len(lk)
    <3>1. lk \in Seq([Field -> Nat])
      OBVIOUS
    <3>. QED  BY ONLY <2>2, <2>4, <2>5, <3>1, ExceptSeq
  <2>7. \A j \in 1 .. Len(lk) : lk2[j] = IF j = k THEN h ELSE lk[j]
    <3>1. DOMAIN lk = 1 .. Len(lk)
      OBVIOUS
    <3>. QED  BY ONLY <2>2, <2>5, <3>1
  <2>8. \A j \in 1 .. Len(lk), g \in Field : lk2[j][g] = IF j = k /\ g = f THEN w ELSE lk[j][g]
    BY ONLY <2>4, <2>7
  <2>. QED  BY ONLY <2>1, <2>6, <2>8
<1>16. Reaches(S, e, ro)
  BY <1>1, <1>7, <1>8 DEF Reaches
<1>17. Tells(S, e, [name |-> nm, link |-> lk2])
  <2>1. \A c \in S : e[c].value # 0 /\ e[c].forwarding = NULL
    BY <1>7, <1>9, <1>11
  <2>2. \A p \in S \cup {NULL} : ValueHeld(e, p) = ValueHeld(m, p)
    BY <1>7, <1>11 DEF ValueHeld
  <2>3. ASSUME NEW c \in S, NEW g \in Field  PROVE lk2[e[c].value][g] = ValueHeld(e, e[c].field[g])
    <3>1. m[c].value \in 1 .. Len(lk) /\ e[c].value = m[c].value
      <4>1. m[c].value \in Nat /\ m[c].value # 0 /\ m[c].value <= Len(lk)
        BY <1>1, <1>9, <1>11 DEF GenObject
      <4>2. m[c].value \in 1 .. Len(lk)
        BY ONLY <1>14, <4>1
      <4>. QED  BY <1>7, <1>11, <4>2
    <3>2. CASE c = a /\ g = f
      <4>1. e[c].field[g] = v /\ lk2[m[c].value][g] = ValueHeld(m, v)
        BY <1>8, <1>11, <1>15, <3>1, <3>2
      <4>. QED  BY <2>2, <3>1, <4>1
    <3>3. CASE ~(c = a /\ g = f)
      <4>1. lk2[m[c].value][g] = lk[m[c].value][g]
        <5>1. c # a => m[c].value # m[a].value
          BY <1>1, <1>9, <1>11
        <5>. QED  BY <1>15, <3>1, <3>3, <5>1
      <4>2. lk[m[c].value][g] = ValueHeld(m, m[c].field[g])
        BY DEF Tells
      <4>3. e[c].field[g] = m[c].field[g] /\ m[c].field[g] \in S \cup {NULL}
        BY <1>8, <1>11, <3>3 DEF Reaches
      <4>. QED  BY <2>2, <3>1, <4>1, <4>2, <4>3
    <3>. QED  BY <3>2, <3>3
  <2>. QED  BY <2>1, <2>3 DEF Tells
<1>18. nm = [n \in DOMAIN ro |-> e[ro[n]].value]
  <2>1. \A n \in DOMAIN ro : e[ro[n]].value = m[ro[n]].value
    BY <1>7, <1>11 DEF Reaches
  <2>. QED  BY <2>1
<1>19. \A c \in Old, g \in Field : e[c].field[g] \in FromSpace => \E j \in DOMAIN r2 : r2[j].ptr = c
  <2>. SUFFICES ASSUME NEW c \in Old, NEW g \in Field, e[c].field[g] \in FromSpace
               PROVE  \E j \in DOMAIN r2 : r2[j].ptr = c
    OBVIOUS
  <2>1. CASE c = a /\ g = f
    <3>1. v \in FromSpace /\ v \notin Old
      BY <1>1, <1>8, <2>1, SpacesAre
    <3>2. CASE m[a].remembered
      <4>1. \E j \in DOMAIN r : r[j].ptr = a
        BY <1>1, <3>2 DEF Entries
      <4>. QED  BY <1>13, <2>1, <4>1
    <3>3. CASE ~m[a].remembered
      <4>1. d
        BY <1>2, <2>1, <3>1, <3>3 DEF NeedsEntry
      <4>. QED  BY <1>13, <2>1, <4>1
    <3>. QED  BY <3>2, <3>3
  <2>2. CASE ~(c = a /\ g = f)
    <3>1. m[c].field[g] \in FromSpace
      BY <1>1, <1>8, <2>2
    <3>2. \E j \in DOMAIN r : r[j].ptr = c
      BY <3>1
    <3>. QED  BY <1>13, <3>2
  <2>. QED  BY <2>1, <2>2
<1>20. Entries(e, r2)
  <2>1. ASSUME NEW c \in Addr, e[c].remembered  PROVE c \in Old /\ \E j \in DOMAIN r2 : r2[j].ptr = c
    <3>1. CASE m[c].remembered
      BY <1>13, <3>1 DEF Entries
    <3>2. CASE ~m[c].remembered
      BY <1>2, <1>7, <1>13, <2>1, <3>2 DEF NeedsEntry
    <3>. QED  BY <3>1, <3>2
  <2>2. \A j \in DOMAIN r : r[j].ptr \in Addr
    <3>1. \A j \in DOMAIN r : r[j] \in RsEntry
      BY <1>1, ElementOfSeq
    <3>. QED  BY <1>1, <3>1 DEF RsEntry
  <2>3. \A j \in DOMAIN r2 : ~r2[j].header => j \in DOMAIN r /\ r2[j] = r[j]
    BY <1>13
  <2>4. \A j \in DOMAIN r2 : ~r2[j].header => e[r2[j].ptr].age > 0
    BY <1>7, <2>2, <2>3 DEF Entries
  <2>5. \A j, k \in DOMAIN r2 : ~r2[j].header /\ ~r2[k].header /\ r2[j].ptr = r2[k].ptr => j = k
    <3>1. \A j, k \in DOMAIN r : ~r[j].header /\ ~r[k].header /\ r[j].ptr = r[k].ptr => j = k
      BY DEF Entries
    <3>. QED  BY ONLY <2>3, <3>1
  <2>. QED  BY ONLY <2>1, <2>4, <2>5 DEF Entries
<1>21. \A c \in ToSpace : e[c] = EMPTY
  BY <1>1, <1>6, <1>11
<1>22. \A k \in 1 .. Room : k > nf => e[<<"new", k>>] = EMPTY
  <2>1. \A k \in 1 .. Room : <<"new", k>> \in Addr
    BY SpacesAre
  <2>. QED  BY <1>6, <1>11, <2>1
<1>23. \A c \in Old : e[c] = EMPTY \/ e[c].age > 0
  <2>. TAKE c \in Old
  <2>1. CASE c = a
    BY <1>1, <1>7, <1>11, <2>1
  <2>2. CASE c # a
    BY <1>1, <1>6, <2>2
  <2>. QED  BY <2>1, <2>2
<1>24. \A c \in Addr, g \in Field : e[c].field[g] \in Here
  BY <1>8, <1>12
<1>25. /\ \A c \in Addr : ~e[c].copied /\ e[c].forwarding = NULL /\ e[c].value <= Len(lk2)
       /\ \A c, b \in Addr : (e[c].value # 0 /\ e[c].value = e[b].value) => c = b
  BY <1>7, <1>15
<1>26. nf \in 0 .. Room /\ ro \in Seq(Addr) /\ S \in SUBSET Addr
       /\ \A n \in DOMAIN ro : ro[n] \in FromSpace \cup Old
  OBVIOUS
<1>. QED  BY ONLY <1>6, <1>13, <1>15, <1>16, <1>17, <1>18, <1>19, <1>20, <1>21, <1>22, <1>23, <1>24, <1>25, <1>26 DEF Calm

(* A new object in the nursery, to which nothing refers yet.               *)
LEMMA CalmBorn ==
  ASSUME NEW m, NEW nf, NEW ro, NEW r, NEW nm, NEW lk, NEW S, Calm(m, nf, ro, r, nm, lk, S),
         fromg \in {"s1", "s2"}, nf < Room, NEW x, x = <<"new", nf + 1>>,
         NEW e, e = [m EXCEPT ![x] = [EMPTY EXCEPT !.value = Len(lk) + 1]],
         NEW lk2, lk2 = Append(lk, [f \in Field |-> 0])
  PROVE  Calm(e, nf + 1, ro, r, nm, lk2, S \cup {x}) /\ x \in FromSpace
<1>. USE DEF Calm
<1>1. /\ m \in [Addr -> GenObject] /\ S \subseteq Addr /\ nf \in Nat /\ nf + 1 \in 1 .. Room
      /\ nf + 1 > nf /\ NULL \notin Addr /\ ToSpace \subseteq Addr /\ Old \subseteq Addr
      /\ Len(lk) \in Nat /\ ro \in Seq(Addr) /\ DOMAIN ro = 1 .. Len(ro)
  BY SpacesAre, GenerationalAssumption
<1>2. x \in FromSpace /\ x \in Addr /\ x \notin ToSpace /\ x \notin Old /\ m[x] = EMPTY
  BY <1>1, SpacesAre
<1>3. PICK o : o = [EMPTY EXCEPT !.value = Len(lk) + 1]
  OBVIOUS
<1>4. /\ o \in GenObject /\ o.value = Len(lk) + 1 /\ o.age = 0 /\ ~o.copied /\ ~o.remembered
      /\ o.forwarding = NULL /\ \A f \in Field : o.field[f] = NULL
  <2>1. PICK h : h = [f \in Field |-> NULL]
    OBVIOUS
  <2>2. h \in [Field -> Addr \cup {NULL}] /\ \A f \in Field : h[f] = NULL
    BY <2>1
  <2>3. o = [value |-> Len(lk) + 1, age |-> 0, copied |-> FALSE, remembered |-> FALSE,
             forwarding |-> NULL, field |-> h]
    BY <1>3, <2>1 DEF EMPTY
  <2>. HIDE <1>3, <2>1
  <2>. QED  BY <1>1, <2>2, <2>3 DEF GenObject
<1>5. e \in [Addr -> GenObject] /\ \A c \in Addr : e[c] = IF c = x THEN o ELSE m[c]
  BY <1>1, <1>2, <1>3, <1>4
<1>6. \A c \in S : m[c].value # 0 /\ m[c].value \in 1 .. Len(lk) /\ c # x /\ c \in Addr
  <2>. TAKE c \in S
  <2>1. m[c].value # 0 /\ c \in Addr
    BY <1>1 DEF Tells
  <2>2. m[c].value \in Nat /\ m[c].value <= Len(lk)
    BY <1>1, <2>1 DEF GenObject
  <2>3. EMPTY.value = 0
    BY DEF EMPTY
  <2>. QED  BY <1>1, <1>2, <2>1, <2>2, <2>3
<1>7. /\ lk2 \in Seq([Field -> Nat]) /\ Len(lk2) = Len(lk) + 1
      /\ \A k \in 1 .. Len(lk) : lk2[k] = lk[k]
      /\ \A f \in Field : lk2[Len(lk) + 1][f] = 0
  <2>1. PICK h : h = [f \in Field |-> 0]
    OBVIOUS
  <2>2. h \in [Field -> Nat] /\ lk2 = Append(lk, h) /\ lk \in Seq([Field -> Nat]) /\ \A f \in Field : h[f] = 0
    BY <2>1
  <2>3. /\ lk2 \in Seq([Field -> Nat]) /\ Len(lk2) = Len(lk) + 1
        /\ \A k \in 1 .. Len(lk) : lk2[k] = lk[k]
        /\ lk2[Len(lk) + 1] = h
    BY ONLY <2>2, AppendProperties
  <2>. QED  BY <2>2, <2>3
<1>8. PICK Q : Q = S \cup {x}
  OBVIOUS
<1>9. Reaches(Q, e, ro)
  <2>1. \A n \in DOMAIN ro : ro[n] \in Q
    BY <1>8 DEF Reaches
  <2>2. \A c \in Q : e[c].forwarding \in Q \cup {NULL}
    BY <1>2, <1>4, <1>5, <1>6, <1>8
  <2>3. \A c \in Q, f \in Field : e[c].field[f] \in Q \cup {NULL}
    <3>. TAKE c \in Q, f \in Field
    <3>1. CASE c = x
      BY <1>2, <1>4, <1>5, <3>1
    <3>2. CASE c # x
      <4>1. c \in S /\ e[c] = m[c]
        BY <1>5, <1>6, <1>8, <3>2
      <4>2. m[c].field[f] \in S \cup {NULL}
        BY <4>1 DEF Reaches
      <4>. QED  BY ONLY <1>8, <4>1, <4>2
    <3>. QED  BY <3>1, <3>2
  <2>. QED  BY <2>1, <2>2, <2>3 DEF Reaches
<1>10. Tells(Q, e, [name |-> nm, link |-> lk2])
  <2>1. \A c \in Q : e[c].value # 0 /\ e[c].forwarding = NULL
    <3>. TAKE c \in Q
    <3>1. CASE c = x
      <4>1. Len(lk) + 1 # 0
        BY ONLY <1>1
      <4>. QED  BY <1>2, <1>4, <1>5, <3>1, <4>1
    <3>2. CASE c # x
      <4>1. c \in S /\ e[c] = m[c] /\ c \in Addr /\ m[c].value # 0
        BY <1>5, <1>6, <1>8, <3>2
      <4>. QED  BY <4>1
    <3>. QED  BY <3>1, <3>2
  <2>2. \A p \in S \cup {NULL} : ValueHeld(e, p) = ValueHeld(m, p)
    BY <1>5, <1>6 DEF ValueHeld
  <2>3. ASSUME NEW c \in Q, NEW f \in Field  PROVE lk2[e[c].value][f] = ValueHeld(e, e[c].field[f])
    <3>1. CASE c = x
      <4>1. e[c].value = Len(lk) + 1 /\ e[c].field[f] = NULL
        BY ONLY <1>2, <1>4, <1>5, <3>1, f \in Field
      <4>2. ValueHeld(e, NULL) = 0
        BY DEF ValueHeld
      <4>. QED  BY ONLY <1>7, <4>1, <4>2, f \in Field
    <3>2. CASE c # x
      <4>1. c \in S /\ e[c] = m[c] /\ m[c].field[f] \in S \cup {NULL}
        BY <1>1, <1>5, <1>8, <3>2 DEF Reaches
      <4>2. lk[m[c].value][f] = ValueHeld(m, m[c].field[f])
        BY <4>1 DEF Tells
      <4>3. lk2[m[c].value] = lk[m[c].value]
        BY <1>6, <1>7, <4>1
      <4>. QED  BY <2>2, <4>1, <4>2, <4>3
    <3>. QED  BY <3>1, <3>2
  <2>. QED  BY <2>1, <2>3 DEF Tells
<1>11. nm = [n \in DOMAIN ro |-> e[ro[n]].value]
  <2>1. \A n \in DOMAIN ro : e[ro[n]].value = m[ro[n]].value
    BY <1>5, <1>6 DEF Reaches
  <2>. QED  BY <2>1
<1>12. \A c \in Addr, f \in Field : e[c].field[f] \in Here
  BY <1>4, <1>5 DEF Here
<1>13. \A c \in Old, f \in Field : e[c].field[f] \in FromSpace => \E j \in DOMAIN r : r[j].ptr = c
  BY <1>1, <1>2, <1>5
<1>14. \A c \in Addr : ~e[c].copied /\ e[c].forwarding = NULL /\ e[c].value <= Len(lk2)
  <2>. TAKE c \in Addr
  <2>1. CASE c = x
    BY <1>1, <1>4, <1>5, <1>7, <2>1
  <2>2. CASE c # x
    <3>1. m[c].value \in Nat /\ m[c].value <= Len(lk)
      BY <1>1 DEF GenObject
    <3>. QED  BY <1>1, <1>5, <1>7, <2>2, <3>1
  <2>. QED  BY <2>1, <2>2
<1>15. \A c, b \in Addr : (e[c].value # 0 /\ e[c].value = e[b].value) => c = b
  <2>1. \A c \in Addr : c # x => e[c] = m[c] /\ m[c].value # Len(lk) + 1
    <3>. TAKE c \in Addr
    <3>1. m[c].value \in Nat /\ m[c].value <= Len(lk)
      BY <1>1 DEF GenObject
    <3>. QED  BY <1>1, <1>5, <3>1
  <2>2. e[x].value = Len(lk) + 1
    BY <1>2, <1>4, <1>5
  <2>. QED  BY <2>1, <2>2
<1>16. /\ \A c \in ToSpace : e[c] = EMPTY
       /\ \A c \in Old : e[c] = EMPTY \/ e[c].age > 0
  BY <1>1, <1>2, <1>5
<1>17. \A k \in 1 .. Room : k > nf + 1 => e[<<"new", k>>] = EMPTY
  <2>. TAKE k \in 1 .. Room
  <2>1. <<"new", k>> \in Addr
    BY SpacesAre
  <2>2. k > nf + 1 => k > nf /\ k # nf + 1
    BY <1>1
  <2>. QED  BY <1>5, <2>1, <2>2
<1>18. Entries(e, r)
  <2>1. \A c \in Addr : e[c].remembered => m[c].remembered
    BY <1>4, <1>5
  <2>2. \A j \in DOMAIN r : r[j].ptr \in Old
    <3>1. \A j \in DOMAIN r : r[j] \in RsEntry
      BY ElementOfSeq
    <3>. QED  BY <3>1 DEF RsEntry
  <2>3. \A j \in DOMAIN r : e[r[j].ptr] = m[r[j].ptr]
    <3>1. \A j \in DOMAIN r : r[j].ptr # x /\ r[j].ptr \in Addr
      BY ONLY <1>1, <1>2, <2>2
    <3>. QED  BY ONLY <1>5, <3>1
  <2>. QED  BY <2>1, <2>3 DEF Entries
<1>19. Q \in SUBSET Addr /\ nf + 1 \in 0 .. Room
  BY ONLY <1>1, <1>2, <1>8
<1>. QED  BY <1>2, <1>5, <1>7, <1>8, <1>9, <1>10, <1>11, <1>12, <1>13, <1>14, <1>15, <1>16, <1>17, <1>18, <1>19

(* A variable for it.                                                      *)
LEMMA CalmRooted ==
  ASSUME NEW m, NEW nf, NEW ro, NEW r, NEW nm, NEW lk, NEW S, Calm(m, nf, ro, r, nm, lk, S),
         NEW x \in S, x \in FromSpace
  PROVE  Calm(m, nf, Append(ro, x), r, Append(nm, m[x].value), lk, S)
<1>. USE DEF Calm
<1>1. PICK ro2, nm2, w : ro2 = Append(ro, x) /\ nm2 = Append(nm, w) /\ w = m[x].value
  OBVIOUS
<1>2. x \in Addr /\ ro \in Seq(Addr) /\ Len(ro) \in Nat /\ DOMAIN ro = 1 .. Len(ro)
  OBVIOUS
<1>3. /\ ro2 \in Seq(Addr) /\ Len(ro2) = Len(ro) + 1 /\ DOMAIN ro2 = 1 .. Len(ro) + 1
      /\ \A k \in 1 .. Len(ro) : ro2[k] = ro[k]
      /\ ro2[Len(ro) + 1] = x
  BY ONLY <1>1, <1>2, AppendProperties
<1>4. nm \in [1 .. Len(ro) -> Nat] /\ w \in Nat
  <2>1. \A n \in DOMAIN ro : m[ro[n]].value \in Nat
    BY <1>2 DEF GenObject
  <2>2. w \in Nat
    BY <1>1, <1>2 DEF GenObject
  <2>. QED  BY <1>2, <2>1, <2>2
<1>5. nm \in Seq(Nat) /\ Len(nm) = Len(ro)
  BY <1>2, <1>4
<1>6. /\ nm2 \in Seq(Nat) /\ Len(nm2) = Len(ro) + 1
      /\ \A k \in 1 .. Len(ro) : nm2[k] = nm[k]
      /\ nm2[Len(ro) + 1] = w
  BY ONLY <1>1, <1>4, <1>5, AppendProperties
<1>7. \A n \in 1 .. Len(ro) + 1 : n \in 1 .. Len(ro) \/ n = Len(ro) + 1
  BY <1>2
<1>8. nm2 = [n \in DOMAIN ro2 |-> m[ro2[n]].value]
  <2>1. nm2 = [n \in 1 .. Len(ro) + 1 |-> nm2[n]]
    BY <1>6
  <2>2. \A n \in 1 .. Len(ro) + 1 : nm2[n] = m[ro2[n]].value
    BY <1>1, <1>2, <1>3, <1>6, <1>7
  <2>3. nm2 = [n \in 1 .. Len(ro) + 1 |-> m[ro2[n]].value]
    BY <2>1, <2>2, Zenon
  <2>. QED  BY <1>3, <2>3
<1>9. \A n \in DOMAIN ro2 : ro2[n] \in S /\ ro2[n] \in FromSpace \cup Old
  BY <1>2, <1>3, <1>7 DEF Reaches
<1>10. Reaches(S, m, ro2) /\ Tells(S, m, [name |-> nm2, link |-> lk])
  BY <1>9 DEF Reaches, Tells
<1>. QED  BY <1>1, <1>3, <1>8, <1>9, <1>10

(* write_barrier.                                                          *)
LEMMA BarrierStep == GenInv /\ write_barrier => GenInv'
<1>. SUFFICES ASSUME GenInv, write_barrier  PROVE GenInv'
  OBVIOUS
<1>1. PICK a \in Reachable, f \in Field, v \in Reachable \cup {NULL} :
         /\ Operates /\ Assign(mem, a, f, v)
         /\ stored' = [stored EXCEPT !.link[mem[a].value][f] = ValueAt(v)]
         /\ new_free' = new_free /\ roots' = roots /\ UNCHANGED Outside
  BY DEF write_barrier
<1>2. /\ pc = "program" /\ pc' = pc /\ todo' = todo /\ i' = i /\ entered' = entered
      /\ fromg' = fromg /\ to_free' = to_free
  BY <1>1 DEF Outside, Operates
<1>3. /\ todo = <<>> /\ i = 1 /\ ~entered /\ entered \in BOOLEAN /\ to_free = 0
      /\ fromg \in {"s1", "s2"} /\ stored = [name |-> stored.name, link |-> stored.link]
  BY <1>2, CalmNow, WholeNow
<1>4. PICK S, nm, lk : /\ Calm(mem, new_free, roots, rs, nm, lk, S)
                       /\ Reachable \subseteq S /\ nm = stored.name /\ lk = stored.link
  BY <1>2, CalmNow
<1>5. PICK e, r, lk2 : /\ e = [mem EXCEPT ![a].field[f] = v, ![a].remembered = @ \/ NeedsEntry(mem, a, v)]
                       /\ r = IF NeedsEntry(mem, a, v) THEN Append(rs, [ptr |-> a, header |-> TRUE]) ELSE rs
                       /\ lk2 = [lk EXCEPT ![mem[a].value][f] = ValueHeld(mem, v)]
  OBVIOUS
<1>6. Calm(e, new_free, roots, r, nm, lk2, S)
  <2>1. a \in S /\ v \in S \cup {NULL}
    BY <1>4
  <2>2. PICK m, nf, ro, rr : m = mem /\ nf = new_free /\ ro = roots /\ rr = rs
    OBVIOUS
  <2>3. /\ Calm(m, nf, ro, rr, nm, lk, S) /\ fromg \in {"s1", "s2"} /\ a \in S /\ f \in Field
        /\ v \in S \cup {NULL}
        /\ Stores(m, rr, lk, a, f, v, e, r, lk2)
    BY <1>3, <1>4, <1>5, <2>1, <2>2 DEF Stores
  <2>4. Calm(e, nf, ro, r, nm, lk2, S)
    BY ONLY <2>3, CalmAssigned
  <2>. QED  BY <2>2, <2>4
<1>7. mem' = e /\ rs' = r
  BY <1>1, <1>5 DEF Assign
<1>8. stored' = [name |-> nm, link |-> lk2]
  <2>1. ValueAt(v) = ValueHeld(mem, v)
    BY DEF ValueAt, ValueHeld
  <2>2. PICK k, w : k = mem[a].value /\ w = ValueHeld(mem, v)
    OBVIOUS
  <2>3. stored' = [stored EXCEPT !.link = [stored.link EXCEPT ![k][f] = w]]
    BY <1>1, <1>3, <2>1, <2>2
  <2>. QED  BY <1>3, <1>4, <1>5, <2>2, <2>3
<1>. QED  BY <1>1, <1>2, <1>3, <1>6, <1>7, <1>8, CalmNext

(* One element changed and one added, in either order.                     *)
LEMMA ExceptAppend ==
  ASSUME NEW T, NEW s \in Seq(T), NEW k \in 1 .. Len(s), NEW h \in T, NEW x \in T
  PROVE  Append([s EXCEPT ![k] = h], x) = [Append(s, x) EXCEPT ![k] = h]
<1>1. PICK q, t, u : q = [s EXCEPT ![k] = h] /\ t = Append(s, x) /\ u = [t EXCEPT ![k] = h]
  OBVIOUS
<1>2. q \in Seq(T) /\ Len(q) = Len(s) /\ \A j \in 1 .. Len(s) : q[j] = IF j = k THEN h ELSE s[j]
  BY <1>1, ExceptSeq
<1>3. /\ t \in Seq(T) /\ Len(t) = Len(s) + 1 /\ t[Len(s) + 1] = x
      /\ \A j \in 1 .. Len(s) : t[j] = s[j]
  BY ONLY <1>1, AppendProperties, s \in Seq(T), x \in T
<1>4. PICK p : p = Append(q, x)
  OBVIOUS
<1>5. /\ p \in Seq(T) /\ Len(p) = Len(s) + 1 /\ p[Len(s) + 1] = x
      /\ \A j \in 1 .. Len(s) : p[j] = q[j]
  <2>1. /\ p \in Seq(T) /\ Len(p) = Len(q) + 1 /\ p[Len(q) + 1] = x
        /\ \A j \in 1 .. Len(q) : p[j] = q[j]
    BY ONLY <1>2, <1>4, AppendProperties, x \in T
  <2>. QED  BY <1>2, <2>1
<1>6. k \in 1 .. Len(t) /\ Len(s) \in Nat /\ DOMAIN t = 1 .. Len(s) + 1
  BY <1>3
<1>7. u \in Seq(T) /\ Len(u) = Len(s) + 1 /\ \A j \in 1 .. Len(s) + 1 : u[j] = IF j = k THEN h ELSE t[j]
  BY <1>1, <1>3, <1>6, ExceptSeq
<1>8. \A j \in 1 .. Len(s) + 1 : p[j] = u[j]
  <2>. TAKE j \in 1 .. Len(s) + 1
  <2>1. CASE j \in 1 .. Len(s)
    BY <1>2, <1>3, <1>5, <1>7, <2>1
  <2>2. CASE j = Len(s) + 1
    BY <1>3, <1>5, <1>6, <1>7, <2>2
  <2>. QED  BY <1>6, <2>1, <2>2
<1>9. p = u
  BY <1>5, <1>7, <1>8, SeqEqual
<1>. QED  BY <1>1, <1>4, <1>9

(* minor_malloc.                                                           *)
LEMMA NewObjectStep == GenInv /\ minor_malloc => GenInv'
<1>. SUFFICES ASSUME GenInv, minor_malloc  PROVE GenInv'
  OBVIOUS
<1>0. PICK x, v, none : x = <<"new", new_free + 1>> /\ v = Len(stored.link) + 1 /\ none = [f \in Field |-> 0]
  OBVIOUS
<1>00. PICK m : m = [mem EXCEPT ![x] = [EMPTY EXCEPT !.value = v]]
  OBVIOUS
<1>1. /\ x = <<"new", new_free + 1>> /\ v = Len(stored.link) + 1
      /\ m = [mem EXCEPT ![x] = [EMPTY EXCEPT !.value = v]] /\ none = [f \in Field |-> 0]
      /\ Operates /\ new_free < Room /\ new_free' = new_free + 1 /\ UNCHANGED Outside
      /\ \/ /\ roots' = Append(roots, x) /\ mem' = m /\ rs' = rs
            /\ stored' = [name |-> Append(stored.name, v), link |-> Append(stored.link, none)]
         \/ \E a \in Reachable, f \in Field :
            /\ Assign(m, a, f, x) /\ roots' = roots
            /\ stored' = [stored EXCEPT !.link = Append([@ EXCEPT ![mem[a].value][f] = v], none)]
  BY <1>0, <1>00 DEF minor_malloc
<1>2. /\ pc = "program" /\ pc' = pc /\ todo' = todo /\ i' = i /\ entered' = entered
      /\ fromg' = fromg /\ to_free' = to_free
  BY <1>1 DEF Outside, Operates
<1>3. /\ todo = <<>> /\ i = 1 /\ ~entered /\ entered \in BOOLEAN /\ to_free = 0
      /\ fromg \in {"s1", "s2"} /\ stored = [name |-> stored.name, link |-> stored.link]
  BY <1>2, CalmNow, WholeNow
<1>4. PICK S, nm, lk : /\ Calm(mem, new_free, roots, rs, nm, lk, S)
                       /\ Reachable \subseteq S /\ nm = stored.name /\ lk = stored.link
  BY <1>2, CalmNow
<1>5. PICK lk1 : lk1 = Append(lk, none)
  OBVIOUS
<1>6. Calm(m, new_free + 1, roots, rs, nm, lk1, S \cup {x}) /\ x \in FromSpace
  <2>1. m = [mem EXCEPT ![x] = [EMPTY EXCEPT !.value = Len(lk) + 1]] /\ lk1 = Append(lk, [f \in Field |-> 0])
    BY <1>1, <1>4, <1>5
  <2>. QED  BY <1>1, <1>3, <1>4, <2>1, CalmBorn
<1>7. m[x].value = v /\ x \in Addr /\ \A a \in S : a \in Addr /\ a # x /\ m[a] = mem[a]
  <2>1. mem \in [Addr -> GenObject] /\ x \in Addr /\ S \subseteq Addr /\ mem[x] = EMPTY
    <3>1. new_free + 1 \in 1 .. Room /\ new_free + 1 > new_free
      <4>1. new_free \in Nat /\ new_free < Room /\ Room \in Nat
        BY <1>1, <1>4, GenerationalAssumption DEF Calm
      <4>. QED  BY ONLY <4>1
    <3>2. x \in Addr
      BY <1>3, <1>6, SpacesAre
    <3>. QED  BY <1>1, <1>4, <3>1, <3>2 DEF Calm
  <2>2. m[x].value = v
    BY <1>1, <2>1 DEF EMPTY
  <2>3. \A a \in S : mem[a].value # 0
    BY <1>4 DEF Calm, Tells
  <2>4. \A a \in S : a # x
    BY <2>1, <2>3 DEF EMPTY
  <2>. QED  BY <1>1, <2>1, <2>2, <2>4
<1>8. CASE /\ roots' = Append(roots, x) /\ mem' = m /\ rs' = rs
           /\ stored' = [name |-> Append(stored.name, v), link |-> Append(stored.link, none)]
  <2>1. Calm(m, new_free + 1, Append(roots, x), rs, Append(nm, v), lk1, S \cup {x})
    <3>1. x \in S \cup {x}
      OBVIOUS
    <3>2. PICK Q : Q = S \cup {x}
      OBVIOUS
    <3>3. Calm(m, new_free + 1, roots, rs, nm, lk1, Q) /\ x \in Q /\ x \in FromSpace
      BY <1>6, <3>1, <3>2
    <3>4. Calm(m, new_free + 1, Append(roots, x), rs, Append(nm, m[x].value), lk1, Q)
      BY <3>3, CalmRooted
    <3>. QED  BY <1>7, <3>2, <3>4
  <2>2. PICK nm2, Q : nm2 = Append(nm, v) /\ Q = S \cup {x}
    OBVIOUS
  <2>3. Calm(mem', new_free', roots', rs', nm2, lk1, Q) /\ stored' = [name |-> nm2, link |-> lk1]
    BY <1>1, <1>4, <1>5, <1>8, <2>1, <2>2
  <2>. QED  BY <1>2, <1>3, <2>3, CalmNext
<1>9. CASE \E a \in Reachable, f \in Field :
             /\ Assign(m, a, f, x) /\ roots' = roots
             /\ stored' = [stored EXCEPT !.link = Append([@ EXCEPT ![mem[a].value][f] = v], none)]
  <2>1. PICK a \in Reachable, f \in Field :
             /\ Assign(m, a, f, x) /\ roots' = roots
             /\ stored' = [stored EXCEPT !.link = Append([@ EXCEPT ![mem[a].value][f] = v], none)]
    BY <1>9
  <2>2. PICK Q : Q = S \cup {x}
    OBVIOUS
  <2>3. a \in Q /\ x \in Q \cup {NULL} /\ a \in S /\ m[a].value = mem[a].value
    BY <1>4, <1>7, <2>2
  <2>4. PICK e, r, lk2 : /\ e = [m EXCEPT ![a].field[f] = x, ![a].remembered = @ \/ NeedsEntry(m, a, x)]
                         /\ r = IF NeedsEntry(m, a, x) THEN Append(rs, [ptr |-> a, header |-> TRUE]) ELSE rs
                         /\ lk2 = [lk1 EXCEPT ![m[a].value][f] = ValueHeld(m, x)]
    OBVIOUS
  <2>5. Calm(m, new_free + 1, roots, rs, nm, lk1, Q)
    BY <1>6, <2>2
  <2>6. Calm(e, new_free + 1, roots, r, nm, lk2, Q)
    <3>1. PICK nf, ro, rr : nf = new_free + 1 /\ ro = roots /\ rr = rs
      OBVIOUS
    <3>2. /\ Calm(m, nf, ro, rr, nm, lk1, Q) /\ fromg \in {"s1", "s2"} /\ a \in Q /\ f \in Field
          /\ x \in Q \cup {NULL}
          /\ Stores(m, rr, lk1, a, f, x, e, r, lk2)
      BY <1>3, <2>3, <2>4, <2>5, <3>1 DEF Stores
    <3>3. Calm(e, nf, ro, r, nm, lk2, Q)
      BY ONLY <3>2, CalmAssigned
    <3>. QED  BY <3>1, <3>3
  <2>7. mem' = e /\ rs' = r
    BY <2>1, <2>4 DEF Assign
  <2>8. PICK k, h : k = mem[a].value /\ h = [lk[k] EXCEPT ![f] = v]
    OBVIOUS
  <2>9. /\ lk \in Seq([Field -> Nat]) /\ k \in 1 .. Len(lk) /\ Len(lk) \in Nat
        /\ h \in [Field -> Nat] /\ none \in [Field -> Nat]
    <3>1. lk \in Seq([Field -> Nat]) /\ mem \in [Addr -> GenObject] /\ mem[a].value <= Len(lk) /\ mem[a].value # 0
      BY <1>4, <1>7, <2>3 DEF Calm, Tells
    <3>2. k \in Nat /\ Len(lk) \in Nat
      BY <1>7, <2>3, <2>8, <3>1 DEF GenObject
    <3>3. k \in 1 .. Len(lk)
      BY <2>8, <3>1, <3>2
    <3>4. lk[k] \in [Field -> Nat] /\ v \in Nat
      <4>1. lk[k] \in [Field -> Nat]
        BY ONLY <3>1, <3>3, ElementOfSeq
      <4>2. v \in Nat
        BY ONLY <1>1, <1>4, <3>2
      <4>. QED  BY ONLY <4>1, <4>2
    <3>. QED  BY <1>1, <2>8, <3>1, <3>2, <3>3, <3>4
  <2>10. ValueHeld(m, x) = v
    <3>1. x # NULL
      BY <1>3, <1>7, SpacesAre
    <3>. QED  BY <1>7, <3>1 DEF ValueHeld
  <2>11. lk2 = Append([lk EXCEPT ![k] = h], none)
    <3>1. lk1[k] = lk[k]
      BY ONLY <1>5, <2>9, AppendProperties
    <3>2. lk2 = [lk1 EXCEPT ![k] = h]
      BY <2>3, <2>4, <2>8, <2>10, <3>1
    <3>3. Append([lk EXCEPT ![k] = h], none) = [Append(lk, none) EXCEPT ![k] = h]
      <4>1. PICK z : z = none
        OBVIOUS
      <4>2. lk \in Seq([Field -> Nat]) /\ k \in 1 .. Len(lk) /\ h \in [Field -> Nat] /\ z \in [Field -> Nat]
        BY ONLY <2>9, <4>1
      <4>3. Append([lk EXCEPT ![k] = h], z) = [Append(lk, z) EXCEPT ![k] = h]
        BY ONLY <4>2, ExceptAppend
      <4>. QED  BY ONLY <4>1, <4>3
    <3>. QED  BY ONLY <1>5, <3>2, <3>3
  <2>12. stored' = [name |-> nm, link |-> lk2]
    <3>1. [lk EXCEPT ![k][f] = v] = [lk EXCEPT ![k] = h]
      BY <2>8
    <3>2. stored' = [stored EXCEPT !.link = Append([stored.link EXCEPT ![k][f] = v], none)]
      BY <1>3, <2>1, <2>8
    <3>. QED  BY <1>3, <1>4, <2>11, <3>1, <3>2
  <2>. QED  BY <1>1, <1>2, <1>3, <2>1, <2>6, <2>7, <2>12, CalmNext
<1>. QED  BY <1>1, <1>8, <1>9

(***************************************************************************)
(* The theorems.                                                           *)
(***************************************************************************)
(* The inductive invariant: it is given up only with an object the roots   *)
(* reach, or when the old space is full.                                   *)
Survives == lost = "no" /\ pc # "abort" => GenInv

(* It holds at the start.                                                  *)
LEMMA GenInit == Init => GenInv
<1>. SUFFICES ASSUME Init  PROVE GenInv
  OBVIOUS
<1>1. /\ mem = [a \in Addr |-> EMPTY] /\ new_free = 0 /\ fromg = "s1" /\ to_free = 0
      /\ roots = <<>> /\ rs = <<>> /\ pc = "program" /\ todo = <<>> /\ i = 1
      /\ entered = FALSE /\ stored = [name |-> <<>>, link |-> <<>>]
  BY DEF Init
<1>2. /\ EMPTY \in GenObject /\ \A f \in Field : EMPTY.field[f] = NULL
      /\ EMPTY.value = 0 /\ ~EMPTY.copied /\ ~EMPTY.remembered /\ EMPTY.forwarding = NULL
  <2>1. [f \in Field |-> NULL] \in [Field -> Addr \cup {NULL}]
    OBVIOUS
  <2>. QED  BY <2>1 DEF EMPTY, GenObject
<1>3. mem \in [Addr -> GenObject] /\ \A a \in Addr : mem[a] = EMPTY
  BY <1>1, <1>2
<1>4. 0 \in 0 .. Room /\ ToSet(todo) = {}
  BY <1>1, GenerationalAssumption, ToSetEmpty
<1>5. /\ FromSpace \subseteq Addr /\ ToSpace \subseteq Addr /\ Old \subseteq Addr /\ NULL \notin Addr
      /\ NULL \notin FromSpace \cup ToSpace
      /\ \A k \in 1 .. Room : <<"new", k>> \in Addr
  BY <1>1, SpacesAre
<1>6. Shapes(mem, to_free, roots, rs, ToSet(todo)) /\ Phases(to_free, roots, rs, ToSet(todo))
  <2>1. <<>> \in Seq(Addr) /\ <<>> \in Seq(RsEntry)
    OBVIOUS
  <2>2. Shapes(mem, to_free, roots, rs, ToSet(todo))
    BY ONLY <1>1, <1>3, <1>4, <2>1 DEF Shapes
  <2>3. Phases(to_free, roots, rs, ToSet(todo))
    <3>1. entered \in BOOLEAN /\ ~entered
      BY <1>1
    <3>. QED  BY ONLY <1>1, <1>4, <3>1 DEF Phases
  <2>. QED  BY <2>2, <2>3
<1>7. Pointers(mem, roots, ToSet(todo)) /\ OldPointers(mem, rs, ToSet(todo))
  <2>1. \A a \in Addr, f \in Field : mem[a].field[f] = NULL
    BY <1>2, <1>3
  <2>2. DOMAIN roots = {}
    BY <1>1
  <2>. QED  BY <1>4, <1>5, <2>1, <2>2 DEF Pointers, OldPointers, Here, There
<1>8. Copies(mem) /\ Blanks(mem, to_free) /\ Entries(mem, rs)
  <2>1. Len(stored.link) = 0 /\ DOMAIN rs = {}
    BY <1>1
  <2>2. Copies(mem)
    BY <1>2, <1>3, <2>1 DEF Copies
  <2>3. Blanks(mem, to_free)
    BY <1>1, <1>3, <1>4, <1>5 DEF Blanks
  <2>4. Entries(mem, rs)
    BY <1>2, <1>3, <2>1 DEF Entries
  <2>. QED  BY <2>2, <2>3, <2>4
<1>9. LiveSet(mem, roots)
  <2>1. DOMAIN roots = {} /\ stored.name = <<>>
    BY <1>1
  <2>2. Reaches({}, mem, roots) /\ Tells({}, mem, stored)
    BY <2>1 DEF Reaches, Tells
  <2>3. Names(mem, roots, stored)
    BY <2>1 DEF Names
  <2>. QED  BY <2>2, <2>3 DEF LiveSet
<1>10. Records /\ Queued
  BY <1>1 DEF Records, Queued, IsInjective
<1>. QED  BY <1>6, <1>7, <1>8, <1>9, <1>10 DEF GenInv, Whole

(* Every step keeps it.                                                    *)
LEMMA SurvivesSteps == Survives /\ [Next]_vars => Survives'
<1>. SUFFICES ASSUME Survives, [Next]_vars, lost' = "no", pc' # "abort"  PROVE GenInv'
  BY DEF Survives
<1>. USE DEF Survives
<1>1. CASE minor_malloc
  <2>1. lost = "no" /\ pc # "abort"
    BY <1>1 DEF minor_malloc, Operates
  <2>. QED  BY <1>1, <2>1, NewObjectStep
<1>2. CASE write_barrier
  <2>1. lost = "no" /\ pc # "abort"
    BY <1>2 DEF write_barrier, Operates
  <2>. QED  BY <1>2, <2>1, BarrierStep
<1>3. CASE major_gc
  <2>1. lost = "no" /\ pc # "abort"
    BY <1>3 DEF major_gc, Operates
  <2>. QED  BY <1>3, <2>1, MajorStep
<1>4. CASE minor_gc
  <2>1. lost = "no" /\ pc # "abort"
    BY <1>4 DEF minor_gc, Operates
  <2>. QED  BY <1>4, <2>1, MinorStep
<1>5. CASE NotYoung
  <2>1. lost = "no" /\ pc # "abort"
    BY <1>5 DEF NotYoung, Calls
  <2>. QED  BY <1>5, <2>1, NotYoungStep
<1>6. CASE IsCopied
  <2>1. lost = "no" /\ pc # "abort"
    BY <1>6 DEF IsCopied, Calls
  <2>. QED  BY <1>6, <2>1, IsCopiedStep
<1>7. CASE gc_copy
  <2>1. lost = "no" /\ pc # "abort"
    BY <1>7 DEF gc_copy, Fresh, Calls
  <2>. QED  BY <1>7, <2>1, CopyStep
<1>8. CASE promote
  <2>1. pc # "abort" /\ lost = "no"
    BY <1>8 DEF promote, Fresh, Calls, LostBy
  <2>. QED  BY <1>8, <2>1, PromoteStep
<1>9. CASE Abort
  BY <1>9 DEF Abort
<1>10. CASE RootsDone
  <2>1. lost = "no" /\ pc # "abort"
    BY <1>10 DEF RootsDone
  <2>. QED  BY <1>10, <2>1, RootsDoneStep
<1>11. CASE ScanEntry
  <2>1. lost = "no" /\ pc # "abort"
    BY <1>11 DEF ScanEntry, Updates
  <2>. QED  BY <1>11, <2>1, ScanStep
<1>12. CASE KeepEntry
  <2>1. lost = "no" /\ pc # "abort"
    BY <1>12 DEF KeepEntry, Updates
  <2>. QED  BY <1>12, <2>1, KeepStep
<1>13. CASE DropEntry
  <2>1. lost = "no" /\ pc # "abort"
    BY <1>13 DEF DropEntry, Updates
  <2>. QED  BY <1>13, <2>1, DropStep
<1>14. CASE Flip
  <2>1. lost = "no" /\ pc # "abort"
    BY <1>14 DEF Flip, Updates
  <2>. QED  BY <1>14, <2>1, FlipStep
<1>15. CASE UNCHANGED vars
  <2>1. /\ mem' = mem /\ new_free' = new_free /\ fromg' = fromg /\ to_free' = to_free
        /\ roots' = roots /\ rs' = rs /\ pc' = pc /\ todo' = todo /\ i' = i
        /\ entered' = entered /\ stored' = stored /\ lost' = lost
    BY <1>15 DEF vars
  <2>2. Whole(mem, to_free, roots, rs, ToSet(todo))'
    <3>1. Frame /\ Whole(mem', to_free', roots', rs', ToSet(todo')) /\ ToSet(todo) = ToSet(todo')
      BY <2>1 DEF Frame, GenInv
    <3>. QED  BY <3>1, FrameWhole
  <2>. QED  BY <2>1, <2>2 DEF GenInv, Queued
<1>. QED
  BY <1>1, <1>2, <1>3, <1>4, <1>5, <1>6, <1>7, <1>8, <1>9, <1>10, <1>11, <1>12, <1>13, <1>14, <1>15
     DEF Next, Program, Copying, Updating

LEMMA AlwaysSurvives == Spec => []Survives
<1>1. Init => Survives
  BY GenInit DEF Survives
<1>. QED  BY <1>1, SurvivesSteps, PTL DEF Spec

(* Minor collections, promotions and the collections of the old space that *)
(* promotions cause (generational.c, mark_sweep.c) keep what the roots     *)
(* reach: until one of the two losses of the code occurs, the program      *)
(* finds every object and every pointer as it stored them.  The old space  *)
(* takes one or two objects (GenerationalAssumption), also below; all else *)
(* is of any size.                                                         *)
THEOREM GenerationalReachableKept == Spec => []ReachableKept
<1>1. Survives => ReachableKept
  <2>. SUFFICES ASSUME GenInv, pc = "program", lost = "no"  PROVE Faithful
    BY DEF Survives, ReachableKept, Resting
  <2>1. PICK S, nm, lk : /\ Calm(mem, new_free, roots, rs, nm, lk, S)
                         /\ Reachable \subseteq S /\ nm = stored.name /\ lk = stored.link
    BY CalmNow
  <2>2. NULL \notin Addr
    BY CalmNow, SpacesAre
  <2>3. \A p : ValueAt(p) = ValueHeld(mem, p)
    BY DEF ValueAt, ValueHeld
  <2>4. stored.name = [n \in DOMAIN roots |-> ValueAt(roots[n])]
    <3>1. roots \in Seq(Addr) /\ DOMAIN roots = 1 .. Len(roots)
      BY <2>1 DEF Calm
    <3>2. \A n \in DOMAIN roots : ValueAt(roots[n]) = mem[roots[n]].value
      BY <2>2, <3>1 DEF ValueAt
    <3>3. stored.name = [n \in DOMAIN roots |-> mem[roots[n]].value]
      BY <2>1 DEF Calm
    <3>. QED  BY <3>2, <3>3
  <2>5. \A a \in Reachable : mem[a].value # 0
    BY <2>1 DEF Calm, Tells
  <2>6. \A a \in Reachable, f \in Field : ValueAt(mem[a].field[f]) = stored.link[mem[a].value][f]
    BY <2>1, <2>3 DEF Calm, Tells
  <2>. QED  BY <2>4, <2>5, <2>6 DEF Faithful
<1>. QED  BY <1>1, AlwaysSurvives, PTL

(* write_barrier, promote and update_reference keep every old object that  *)
(* points to a young one in rs, so that the next minor_gc does not leave   *)
(* it a pointer into a cleared space.                                      *)
THEOREM OldPointersRemembered == Spec => []OldToYoungRemembered
<1>1. Survives => OldToYoungRemembered
  <2>. SUFFICES ASSUME GenInv, pc = "program", lost = "no", NEW a \in Old, PointsToYoung(a)
               PROVE  \E e \in ToSet(rs) : e.ptr = a
    BY DEF Survives, OldToYoungRemembered, Resting
  <2>1. PICK f \in Field : mem[a].field[f] \in Young
    BY DEF PointsToYoung
  <2>2. PICK j \in DOMAIN rs : rs[j].ptr = a
    <3>1. OldPointers(mem, rs, ToSet(todo)) /\ FromSpace \cup ToSpace = Young
      BY WholeNow, SpacesAre DEF Records
    <3>. QED  BY <2>1, <3>1 DEF OldPointers
  <2>. QED  BY <2>2 DEF ToSet
<1>. QED  BY <1>1, AlwaysSurvives, PTL

(* gc_copy and promote make one copy of a shared object in a collection,   *)
(* and none is left behind in a survivor space.                            *)
THEOREM CopiedOnce == Spec => []OneCopy
<1>1. Survives => OneCopy
  <2>. SUFFICES ASSUME GenInv, pc = "program", lost = "no"
               PROVE  \A a, b \in Addr : mem[a].value # 0 /\ mem[a].value = mem[b].value => a = b
    BY DEF Survives, OneCopy, Resting
  <2>1. PICK S, nm, lk : Calm(mem, new_free, roots, rs, nm, lk, S)
    BY CalmNow
  <2>. QED  BY <2>1 DEF Calm
<1>. QED  BY <1>1, AlwaysSurvives, PTL
=============================================================================
