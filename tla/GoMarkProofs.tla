---------------------------- MODULE GoMarkProofs ----------------------------
(***************************************************************************)
(* Proofs about the mark phase of gc-golang: the work buffers are never    *)
(* shared or lost, no marked object is forgotten, and under which          *)
(* condition gcDrain marks exactly what the program reaches.               *)
(***************************************************************************)
EXTENDS GoMark, BasicLemmas

(***************************************************************************)
(* Spans and objects.                                                      *)
(***************************************************************************)
LEMMA TableIsItself == \A f : Table(f) = f
BY DEF Table

LEMMA Division ==
  ASSUME NEW x \in Nat, NEW k \in Nat \ {0}
  PROVE  /\ x \div k \in Nat
         /\ (x \div k) * k \in Nat /\ (x \div k) * k <= x /\ x < (x \div k) * k + k
OBVIOUS

LEMMA DivisionUnique ==
  ASSUME NEW i \in Nat, NEW k \in Nat \ {0}, NEW d \in Nat, d < k
  PROVE  (i * k + d) \div k = i
OBVIOUS

LEMMA Bounds == /\ Capacity \in Nat \ {0} /\ PerSpan \in Nat \ {0} /\ MaxSpans \in Nat \ {0}
BY MarkAssumption

LEMMA SpanTyped ==
  ASSUME NEW s \in Spans
  PROVE  /\ s.startaddr \in Nat /\ s.elemsize \in Nat \ {0} /\ s.nelems \in Nat
         /\ Limit(s) = s.startaddr + s.elemsize * s.nelems /\ Limit(s) \in Nat
<1>1. s \in [startaddr : Nat, elemsize : Nat \ {0}, nelems : Nat, noscan : BOOLEAN]
  BY MarkAssumption
<1>2. s.startaddr \in Nat /\ s.elemsize \in Nat \ {0} /\ s.nelems \in Nat
  BY <1>1
<1>. QED  BY <1>2 DEF Limit

LEMMA AddrTyped == Addr \subseteq Nat \ {0}
<1>1. Addr \subseteq Nat
  BY SpanTyped DEF Addr
<1>. QED  BY <1>1, MarkAssumption DEF NULL

LEMMA SpanOfAddr ==
  ASSUME NEW p \in Addr
  PROVE  /\ SpanOf[p] \in Spans /\ p \in Nat
         /\ SpanOf[p].startaddr <= p /\ p < Limit(SpanOf[p])
         /\ \A s \in Spans : s.startaddr <= p /\ p < Limit(s) => s = SpanOf[p]
<1>1. p \in Nat
  BY AddrTyped
<1>2. SpanOf[p] = CHOOSE s \in Spans : p \in s.startaddr .. Limit(s) - 1
  BY TableIsItself DEF SpanOf
<1>3. \E s \in Spans : p \in s.startaddr .. Limit(s) - 1
  BY DEF Addr
<1>4. SpanOf[p] \in Spans /\ p \in SpanOf[p].startaddr .. Limit(SpanOf[p]) - 1
  BY <1>2, <1>3
<1>5. SpanOf[p].startaddr <= p /\ p < Limit(SpanOf[p])
  BY <1>1, <1>4, SpanTyped
<1>6. ASSUME NEW s \in Spans, s.startaddr <= p, p < Limit(s)
      PROVE  s = SpanOf[p]
  <2>1. s # SpanOf[p] =>
          Limit(s) <= SpanOf[p].startaddr \/ Limit(SpanOf[p]) <= s.startaddr
    BY <1>4, MarkAssumption
  <2>. QED  BY <1>1, <1>4, <1>5, <1>6, <2>1, SpanTyped
<1>. QED  BY <1>1, <1>4, <1>5, <1>6

(* A word of a span belongs to the object whose base is below it, at a     *)
(* distance less than the size of the span's objects.                      *)
LEMMA BaseOfAddr ==
  ASSUME NEW p \in Addr
  PROVE  /\ Index[p] \in Nat
         /\ BaseOf[p] = SpanOf[p].startaddr + Index[p] * SpanOf[p].elemsize
         /\ BaseOf[p] \in Addr /\ SpanOf[BaseOf[p]] = SpanOf[p]
         /\ BaseOf[p] <= p /\ p < BaseOf[p] + SpanOf[p].elemsize
<1>. DEFINE s == SpanOf[p]
            k == s.elemsize
            x == p - s.startaddr
<1>1. /\ s \in Spans /\ p \in Nat /\ s.startaddr \in Nat /\ k \in Nat \ {0}
      /\ s.startaddr <= p /\ p < Limit(s) /\ Limit(s) \in Nat
  BY SpanOfAddr, SpanTyped
<1>2. Index[p] = x \div k
  BY TableIsItself DEF Index
<1>3. BaseOf[p] = s.startaddr + Index[p] * k
  BY TableIsItself DEF BaseOf, ObjectAt
<1>4. x \in Nat
  BY <1>1
<1>5. /\ x \div k \in Nat
      /\ (x \div k) * k \in Nat /\ (x \div k) * k <= x /\ x < (x \div k) * k + k
  BY <1>1, <1>4, Division
<1>6. BaseOf[p] \in Nat /\ BaseOf[p] <= p /\ p < BaseOf[p] + k /\ s.startaddr <= BaseOf[p]
  <2>. DEFINE m == (x \div k) * k
  <2>1. BaseOf[p] = s.startaddr + m
    BY <1>2, <1>3
  <2>2. m \in Nat /\ m <= x /\ x < m + k
    BY <1>5
  <2>. HIDE DEF m
  <2>. QED  BY <1>1, <2>1, <2>2
<1>7. BaseOf[p] \in Addr
  <2>1. BaseOf[p] \in s.startaddr .. Limit(s) - 1
    BY <1>1, <1>6
  <2>. QED  BY <1>1, <2>1 DEF Addr
<1>8. SpanOf[BaseOf[p]] = s
  BY <1>1, <1>6, <1>7, SpanOfAddr
<1>. QED  BY <1>2, <1>3, <1>5, <1>6, <1>7, <1>8

LEMMA SameObject ==
  ASSUME NEW p \in Addr, NEW a \in Nat, BaseOf[p] <= a, a < BaseOf[p] + SpanOf[p].elemsize
  PROVE  a \in Addr /\ SpanOf[a] = SpanOf[p] /\ BaseOf[a] = BaseOf[p]
<1>. DEFINE s == SpanOf[p]
            k == s.elemsize
            i == Index[p]
            n == s.nelems
<1>1. /\ s \in Spans /\ p \in Nat /\ s.startaddr \in Nat /\ k \in Nat \ {0} /\ n \in Nat
      /\ s.startaddr <= p /\ p < Limit(s) /\ Limit(s) = s.startaddr + k * n
  BY SpanOfAddr, SpanTyped
<1>2. /\ i \in Nat /\ BaseOf[p] = s.startaddr + i * k /\ BaseOf[p] <= p
  BY BaseOfAddr
<1>3. i < n
  <2>1. i * k < k * n
    <3>1. i * k \in Int /\ k * n \in Int
      BY <1>1, <1>2
    <3>2. s.startaddr + i * k < s.startaddr + k * n
      BY <1>1, <1>2, <3>1, AddrTyped, BaseOfAddr
    <3>. QED  BY <1>1, <3>1, <3>2
  <2>2. i >= n => i * k >= n * k
    BY <1>1, <1>2
  <2>. QED  BY <1>1, <1>2, <2>1, <2>2
<1>4. i * k + k <= k * n
  BY <1>1, <1>2, <1>3
<1>5. PICK d \in Nat : d < k /\ a = s.startaddr + i * k + d
  <2>1. a - BaseOf[p] \in Nat /\ a - BaseOf[p] < k /\ a = BaseOf[p] + (a - BaseOf[p])
    BY <1>1, BaseOfAddr, AddrTyped
  <2>. QED  BY <1>2, <2>1
<1>6. i * k \in Nat /\ k * n \in Nat
  BY <1>1, <1>2
<1>7. s.startaddr <= a /\ a < Limit(s)
  BY <1>1, <1>4, <1>5, <1>6
<1>8. a \in Addr
  <2>1. a \in s.startaddr .. Limit(s) - 1
    BY <1>1, <1>7, SpanTyped
  <2>. QED  BY <1>1, <2>1 DEF Addr
<1>9. SpanOf[a] = s
  BY <1>1, <1>7, <1>8, SpanOfAddr
<1>10. Index[a] = i
  <2>1. Index[a] = (a - s.startaddr) \div k
    BY <1>8, <1>9, TableIsItself DEF Index
  <2>2. a - s.startaddr = i * k + d
    BY <1>1, <1>5, <1>6
  <2>. QED  BY <1>1, <1>2, <1>5, <2>1, <2>2, DivisionUnique
<1>11. BaseOf[a] = s.startaddr + i * k
  BY <1>8, <1>9, <1>10, BaseOfAddr
<1>. QED  BY <1>2, <1>8, <1>9, <1>11

LEMMA Objects ==
  /\ Object \subseteq Addr /\ NULL \notin Object
  /\ \A o \in Object : BaseOf[o] = o /\ findObject(o) = o /\ o \in Words[o]
  /\ \A p \in Addr : BaseOf[p] \in Object /\ findObject(p) = BaseOf[p] /\ findObject(p) # NULL
  /\ \A p : p \notin Addr => findObject(p) = NULL
  /\ \A o \in Object : \A a : a \in Words[o] <=> a \in Addr /\ BaseOf[a] = o
  /\ findObject(NULL) = NULL
<1>1. \A p \in Addr : BaseOf[p] \in Object
  BY DEF Object
<1>2. Object \subseteq Addr
  BY BaseOfAddr DEF Object
<1>3. \A p \in Addr : BaseOf[BaseOf[p]] = BaseOf[p]
  <2>. TAKE p \in Addr
  <2>1. BaseOf[p] \in Nat /\ SpanOf[p].elemsize \in Nat \ {0}
    BY BaseOfAddr, AddrTyped, SpanOfAddr, SpanTyped
  <2>2. BaseOf[p] < BaseOf[p] + SpanOf[p].elemsize
    BY <2>1
  <2>. QED  BY <2>1, <2>2, SameObject
<1>4. \A o \in Object : BaseOf[o] = o
  BY <1>3 DEF Object
<1>5. NULL \notin Addr
  BY MarkAssumption
<1>6. \A o \in Object : \A a : a \in Words[o] <=> a \in Addr /\ BaseOf[a] = o
  BY TableIsItself DEF Words
<1>7. \A p : findObject(p) = IF p \in Addr THEN BaseOf[p] ELSE NULL
  BY DEF findObject
<1>. QED  BY <1>1, <1>2, <1>4, <1>5, <1>6, <1>7

LEMMA AddrFinite == IsFiniteSet(Addr) /\ IsFiniteSet(Object)
<1>. DEFINE F == {s.startaddr .. Limit(s) - 1 : s \in Spans}
            f == [s \in Spans |-> s.startaddr .. Limit(s) - 1]
<1>1. IsFiniteSet(F)
  <2>1. IsFiniteSet(Spans)
    BY MarkAssumption
  <2>2. f \in Surjection(Spans, F)
    BY DEF Surjection
  <2>. QED  BY <2>1, <2>2, FS_Surjection
<1>2. \A S \in F : IsFiniteSet(S)
  BY SpanTyped, FS_Interval
<1>3. IsFiniteSet(UNION F)
  BY <1>1, <1>2, FS_UNION
<1>. QED  BY <1>3, Objects, FS_Subset DEF Addr

(***************************************************************************)
(* The work buffers.  M holds the buffers in the hands of the collector.   *)
(***************************************************************************)
WorkType == [obj : [Buffer -> Seq(Addr)], empty : Seq(Buffer), full : Seq(Buffer),
             wbuf1 : Nat, wbuf2 : Nat, nspans : 0 .. MaxSpans, ok : BOOLEAN]

Cut(g) == 1 .. g.nspans * PerSpan
Lists(g, M) ==
  /\ ToSet(g.empty) \cup ToSet(g.full) \cup M \subseteq Cut(g)
  /\ IsInjective(g.empty \o g.full)
  /\ M \cap ToSet(g.empty \o g.full) = {}
  /\ \A b \in ToSet(g.empty) : g.obj[b] = <<>>
  /\ \A b \in ToSet(g.full) : Len(g.obj[b]) = Capacity
  /\ \A b \in M : Len(g.obj[b]) <= Capacity
  /\ \A b \in Buffer \ Cut(g) : g.obj[b] = <<>>
WorkIn(g, M) == UNION {ToSet(g.obj[b]) : b \in M \cup ToSet(g.full)}

LEMMA CutGrows ==
  ASSUME NEW n \in Nat, n < MaxSpans
  PROVE  /\ n * PerSpan \in Nat /\ (n + 1) * PerSpan = n * PerSpan + PerSpan
         /\ (n + 1) * PerSpan <= PerSpan * MaxSpans
         /\ PerSpan * MaxSpans \in Nat
<1>1. n * PerSpan \in Nat /\ (n + 1) * PerSpan = n * PerSpan + PerSpan
  BY Bounds
<1>2. PerSpan * MaxSpans \in Nat /\ (n + 1) * PerSpan <= PerSpan * MaxSpans
  BY Bounds
<1>. QED  BY <1>1, <1>2

LEMMA CutInside ==
  ASSUME NEW n \in 0 .. MaxSpans
  PROVE  n * PerSpan \in Nat /\ n * PerSpan <= PerSpan * MaxSpans
BY Bounds

LEMMA WorkTyped ==
  ASSUME NEW g \in WorkType
  PROVE  /\ g.obj \in [Buffer -> Seq(Addr)] /\ g.empty \in Seq(Buffer) /\ g.full \in Seq(Buffer)
         /\ g.wbuf1 \in Nat /\ g.wbuf2 \in Nat
         /\ g.nspans \in 0 .. MaxSpans /\ g.nspans \in Nat
BY Bounds DEF WorkType

LEMMA CutTyped == ASSUME NEW g \in WorkType PROVE Cut(g) \subseteq Buffer
<1>1. g.nspans * PerSpan \in Nat /\ g.nspans * PerSpan <= PerSpan * MaxSpans
  BY WorkTyped, CutInside
<1>2. PerSpan * MaxSpans \in Nat
  BY Bounds
<1>. QED  BY <1>1, <1>2 DEF Cut, Buffer

LEMMA OthersOfSpan ==
  ASSUME NEW n \in Nat, n < MaxSpans
  PROVE  /\ OthersOf(n) \in Seq(Buffer) /\ IsInjective(OthersOf(n))
         /\ ToSet(OthersOf(n)) \subseteq n * PerSpan + 2 .. (n + 1) * PerSpan
<1>. DEFINE c == n * PerSpan
            s == OthersOf(n)
<1>1. c \in Nat /\ PerSpan \in Nat \ {0} /\ PerSpan * MaxSpans \in Nat
  BY CutGrows, Bounds
<1>2. (n + 1) * PerSpan = c + PerSpan /\ c + PerSpan <= PerSpan * MaxSpans
  BY CutGrows
<1>3. s = [i \in 1 .. PerSpan - 1 |-> c + PerSpan + 1 - i]
  BY <1>2 DEF OthersOf
<1>. HIDE DEF c, s
<1>4. \A i \in 1 .. PerSpan - 1 : s[i] = c + PerSpan + 1 - i /\ s[i] \in c + 2 .. c + PerSpan
  BY <1>1, <1>3
<1>5. c + 2 .. c + PerSpan \subseteq Buffer
  BY <1>1, <1>2 DEF Buffer
<1>6. s \in [1 .. PerSpan - 1 -> Buffer]
  BY <1>3, <1>4, <1>5
<1>7. s \in Seq(Buffer) /\ DOMAIN s = 1 .. PerSpan - 1
  BY <1>1, <1>6
<1>8. IsInjective(s)
  BY <1>1, <1>4, <1>7 DEF IsInjective
<1>9. ToSet(s) \subseteq c + 2 .. c + PerSpan
  BY <1>4, <1>7 DEF ToSet
<1>. QED  BY <1>2, <1>7, <1>8, <1>9 DEF c, s

LEMMA Pushed ==
  ASSUME NEW S, NEW l \in Seq(S), NEW b \in S
  PROVE  /\ lf_push(l, b) \in Seq(S) /\ ToSet(lf_push(l, b)) = {b} \cup ToSet(l)
         /\ IsInjective(lf_push(l, b)) <=> IsInjective(l) /\ b \notin ToSet(l)
<1>. DEFINE one == <<b>>
<1>1. one \in Seq(S)
  OBVIOUS
<1>2. ToSet(one) = {b} /\ IsInjective(one)
  BY ToSetOne
<1>. HIDE DEF one
<1>3. /\ one \o l \in Seq(S)
      /\ ToSet(one \o l) = {b} \cup ToSet(l)
  BY <1>1, <1>2, ToSetConcat
<1>4. IsInjective(one \o l) <=> IsInjective(l) /\ {b} \cap ToSet(l) = {}
  BY <1>1, <1>2, ConcatInjective
<1>. QED  BY <1>3, <1>4 DEF lf_push, one

LEMMA Popped ==
  ASSUME NEW S, NEW l \in Seq(S)
  PROVE  /\ lf_pop(l) \in Seq(S) /\ ToSet(lf_pop(l)) \subseteq ToSet(l)
         /\ IsInjective(l) => IsInjective(lf_pop(l))
         /\ l # <<>> => /\ Head(l) \in S /\ ToSet(l) = {Head(l)} \cup ToSet(lf_pop(l))
                        /\ IsInjective(l) => Head(l) \notin ToSet(lf_pop(l))
<1>1. CASE l = <<>>
  BY <1>1 DEF lf_pop
<1>2. CASE l # <<>>
  <2>1. lf_pop(l) = Tail(l)
    BY <1>2 DEF lf_pop
  <2>2. /\ Head(l) \in S /\ Tail(l) \in Seq(S)
        /\ ToSet(l) = {Head(l)} \cup ToSet(Tail(l))
        /\ IsInjective(l) => IsInjective(Tail(l)) /\ Head(l) \notin ToSet(Tail(l))
    BY <1>2, HeadOfList
  <2>. QED  BY <1>2, <2>1, <2>2
<1>. QED  BY <1>1, <1>2

(* Two lists on which no buffer stands twice.                              *)
LEMMA TwoLists ==
  ASSUME NEW S, NEW k \in Seq(S), NEW l \in Seq(S)
  PROVE  /\ ToSet(k \o l) = ToSet(k) \cup ToSet(l)
         /\ IsInjective(k \o l) <=>
              IsInjective(k) /\ IsInjective(l) /\ ToSet(k) \cap ToSet(l) = {}
BY ToSetConcat, ConcatInjective

LEMMA getemptyFields ==
  ASSUME NEW g \in WorkType, NEW r, r = getempty(g)
  PROVE  /\ r \in WorkType
         /\ r.obj = g.obj /\ r.full = g.full /\ r.wbuf1 = g.wbuf1 /\ r.wbuf2 = g.wbuf2
         /\ r.ok => /\ g.ok /\ g.nspans < MaxSpans /\ r.nspans = g.nspans + 1
                    /\ r.empty = OthersOf(g.nspans) \o lf_pop(g.empty)
         /\ g.ok /\ g.nspans < MaxSpans /\ (g.empty # <<>> => g.obj[Head(g.empty)] = <<>>)
              => r.ok
<1>1. MaxSpans \in Nat
  BY Bounds
<1>2. lf_pop(g.empty) \in Seq(Buffer)
  BY HeadOfList DEF lf_pop, WorkType
<1>3. g.nspans < MaxSpans => OthersOf(g.nspans) \o lf_pop(g.empty) \in Seq(Buffer)
  BY <1>1, <1>2, OthersOfSpan, ToSetConcat DEF WorkType
<1>. HIDE DEF Buffer
<1>4. r.empty \in Seq(Buffer) /\ r.nspans \in 0 .. MaxSpans /\ r.ok \in BOOLEAN
  BY <1>1, <1>3 DEF getempty, WorkType
<1>5. /\ r.obj = g.obj /\ r.full = g.full /\ r.wbuf1 = g.wbuf1 /\ r.wbuf2 = g.wbuf2
  BY DEF getempty, WorkType
<1>6. r = [obj |-> r.obj, empty |-> r.empty, full |-> r.full, wbuf1 |-> r.wbuf1,
           wbuf2 |-> r.wbuf2, nspans |-> r.nspans, ok |-> r.ok]
  BY DEF getempty, WorkType
<1>7. r \in WorkType
  BY <1>4, <1>5, <1>6 DEF WorkType
<1>8. r.ok => /\ g.ok /\ g.nspans < MaxSpans /\ r.nspans = g.nspans + 1
              /\ r.empty = OthersOf(g.nspans) \o lf_pop(g.empty)
  BY DEF getempty, WorkType
<1>9. g.ok /\ g.nspans < MaxSpans /\ (g.empty # <<>> => g.obj[Head(g.empty)] = <<>>) => r.ok
  BY DEF getempty, WorkType
<1>. QED  BY <1>5, <1>7, <1>8, <1>9

(* The granted buffer is new and empty, and nobody holds it.               *)
LEMMA getemptyLists ==
  ASSUME NEW g \in WorkType, NEW M, Lists(g, M), NEW r, r = getempty(g), r.ok
  PROVE  /\ Granted(g) \in Buffer \ (M \cup ToSet(g.full)) /\ r.obj[Granted(g)] = <<>>
         /\ Lists(r, M \cup {Granted(g)})
<1>. DEFINE n == Granted(g)
            c == g.nspans * PerSpan
            others == OthersOf(g.nspans)
            rest == lf_pop(g.empty)
<1>1. /\ r \in WorkType
      /\ r.obj = g.obj /\ r.full = g.full
      /\ g.nspans < MaxSpans /\ r.nspans = g.nspans + 1
      /\ r.empty = others \o rest
  BY getemptyFields
<1>2. /\ c \in Nat /\ (g.nspans + 1) * PerSpan = c + PerSpan /\ c + PerSpan <= PerSpan * MaxSpans
      /\ PerSpan * MaxSpans \in Nat /\ PerSpan \in Nat \ {0}
  BY <1>1, WorkTyped, CutGrows, Bounds
<1>3. Cut(g) = 1 .. c /\ Cut(r) = 1 .. c + PerSpan /\ n = c + 1 /\ Buffer = 1 .. PerSpan * MaxSpans
  BY <1>1, <1>2 DEF Cut, Granted, Buffer
<1>4. /\ others \in Seq(Buffer) /\ IsInjective(others)
      /\ ToSet(others) \subseteq c + 2 .. c + PerSpan
  BY <1>1, <1>2, WorkTyped, OthersOfSpan
<1>5. g.empty \in Seq(Buffer) /\ g.full \in Seq(Buffer)
  BY WorkTyped
<1>6. /\ rest \in Seq(Buffer) /\ ToSet(rest) \subseteq ToSet(g.empty)
      /\ IsInjective(g.empty) => IsInjective(rest)
  BY <1>5, Popped
<1>7. /\ IsInjective(g.empty) /\ IsInjective(g.full) /\ ToSet(g.empty) \cap ToSet(g.full) = {}
      /\ ToSet(g.empty \o g.full) = ToSet(g.empty) \cup ToSet(g.full)
  BY <1>5, TwoLists DEF Lists
<1>8. /\ r.empty \in Seq(Buffer)
      /\ ToSet(r.empty) = ToSet(others) \cup ToSet(rest)
  BY <1>1, <1>4, <1>6, ToSetConcat
<1>. HIDE DEF c, n, others, rest
<1>9. ToSet(others) \cap Cut(g) = {} /\ n \notin Cut(g) /\ n \notin ToSet(others)
  BY <1>2, <1>3, <1>4
<1>10. IsInjective(r.empty)
  <2>1. ToSet(others) \cap ToSet(rest) = {}
    BY <1>6, <1>9 DEF Lists
  <2>. QED  BY <1>1, <1>4, <1>6, <1>7, <2>1, TwoLists
<1>11. /\ IsInjective(r.empty \o r.full)
       /\ ToSet(r.empty \o r.full) = ToSet(others) \cup ToSet(rest) \cup ToSet(g.full)
  <2>1. ToSet(r.empty) \cap ToSet(r.full) = {}
    BY <1>1, <1>6, <1>7, <1>8, <1>9 DEF Lists
  <2>2. r.full \in Seq(Buffer) /\ r.full = g.full
    BY <1>1, <1>5
  <2>. QED  BY <1>7, <1>8, <1>10, <2>1, <2>2, TwoLists
<1>12. Cut(g) \subseteq Cut(r) /\ n \in Cut(r) /\ ToSet(others) \subseteq Cut(r) /\ Cut(r) \subseteq Buffer
  BY <1>2, <1>3, <1>4
<1>13. g.obj[n] = <<>> /\ \A b \in ToSet(others) : g.obj[b] = <<>>
  BY <1>9, <1>12 DEF Lists
<1>14. ToSet(r.empty) \cup ToSet(r.full) \cup (M \cup {n}) \subseteq Cut(r)
  BY <1>1, <1>6, <1>8, <1>12 DEF Lists
<1>15. (M \cup {n}) \cap ToSet(r.empty \o r.full) = {}
  BY <1>6, <1>7, <1>9, <1>11 DEF Lists
<1>16. \A b \in ToSet(r.empty) : r.obj[b] = <<>>
  BY <1>1, <1>6, <1>8, <1>13 DEF Lists
<1>17. \A b \in M \cup {n} : Len(r.obj[b]) <= Capacity
  <2>1. Len(<<>>) <= Capacity
    BY Bounds
  <2>. QED  BY <1>1, <1>13, <2>1 DEF Lists
<1>18. \A b \in Buffer \ Cut(r) : r.obj[b] = <<>>
  BY <1>1, <1>12 DEF Lists
<1>19. Lists(r, M \cup {n})
  BY <1>1, <1>11, <1>14, <1>15, <1>16, <1>17, <1>18 DEF Lists
<1>. QED  BY <1>1, <1>9, <1>12, <1>13, <1>19 DEF n, Lists

LEMMA FewerHeld == ASSUME NEW g, NEW M, NEW K \in SUBSET M, Lists(g, M) PROVE Lists(g, K)
BY DEF Lists

(* A buffer moves between a list and the collector's hands.                *)
LEMMA PushedEmpty ==
  ASSUME NEW g \in WorkType, NEW M, Lists(g, M), NEW b \in M, g.obj[b] = <<>>,
         NEW r \in WorkType, r.obj = g.obj, r.full = g.full, r.nspans = g.nspans,
         r.empty = lf_push(g.empty, b)
  PROVE  Lists(r, M \ {b})
<1>1. b \in Buffer
  BY CutTyped DEF Lists
<1>2. <<b>> \in Seq(Buffer) /\ g.empty \in Seq(Buffer) /\ g.full \in Seq(Buffer)
  BY <1>1 DEF WorkType
<1>3. r.empty \in Seq(Buffer) /\ ToSet(r.empty) = {b} \cup ToSet(g.empty)
  BY <1>1, <1>2, Pushed
<1>4. /\ IsInjective(g.empty) /\ IsInjective(g.full) /\ ToSet(g.empty) \cap ToSet(g.full) = {}
      /\ ToSet(g.empty \o g.full) = ToSet(g.empty) \cup ToSet(g.full)
  BY <1>2, TwoLists DEF Lists
<1>5. IsInjective(r.empty)
  BY <1>1, <1>2, <1>4, Pushed DEF Lists
<1>6. /\ IsInjective(r.empty \o r.full)
      /\ ToSet(r.empty \o r.full) = {b} \cup ToSet(g.empty) \cup ToSet(g.full)
  <2>1. ToSet(r.empty) \cap ToSet(r.full) = {}
    BY <1>3, <1>4 DEF Lists
  <2>. QED  BY <1>2, <1>3, <1>4, <1>5, <2>1, TwoLists
<1>7. Cut(r) = Cut(g)
  BY DEF Cut
<1>. QED  BY <1>3, <1>4, <1>6, <1>7 DEF Lists

LEMMA PushedFull ==
  ASSUME NEW g \in WorkType, NEW M, Lists(g, M), NEW b \in M, Len(g.obj[b]) = Capacity,
         NEW r \in WorkType, r.obj = g.obj, r.empty = g.empty, r.nspans = g.nspans,
         r.full = lf_push(g.full, b)
  PROVE  Lists(r, M \ {b}) /\ ToSet(r.full) = {b} \cup ToSet(g.full)
<1>1. b \in Buffer
  BY CutTyped DEF Lists
<1>2. <<b>> \in Seq(Buffer) /\ g.empty \in Seq(Buffer) /\ g.full \in Seq(Buffer)
  BY <1>1 DEF WorkType
<1>3. r.full \in Seq(Buffer) /\ ToSet(r.full) = {b} \cup ToSet(g.full)
  BY <1>1, <1>2, Pushed
<1>4. /\ IsInjective(g.empty) /\ IsInjective(g.full) /\ ToSet(g.empty) \cap ToSet(g.full) = {}
      /\ ToSet(g.empty \o g.full) = ToSet(g.empty) \cup ToSet(g.full)
  BY <1>2, TwoLists DEF Lists
<1>5. IsInjective(r.full)
  BY <1>1, <1>2, <1>4, Pushed DEF Lists
<1>6. /\ IsInjective(r.empty \o r.full)
      /\ ToSet(r.empty \o r.full) = {b} \cup ToSet(g.empty) \cup ToSet(g.full)
  <2>1. ToSet(r.empty) \cap ToSet(r.full) = {}
    BY <1>3, <1>4 DEF Lists
  <2>. QED  BY <1>2, <1>3, <1>4, <1>5, <2>1, TwoLists
<1>7. Cut(r) = Cut(g)
  BY DEF Cut
<1>. QED  BY <1>3, <1>4, <1>6, <1>7 DEF Lists

LEMMA PoppedFull ==
  ASSUME NEW g \in WorkType, NEW M, Lists(g, M), g.full # <<>>,
         NEW r, r.obj = g.obj, r.empty = g.empty, r.nspans = g.nspans, r.full = lf_pop(g.full)
  PROVE  /\ Head(g.full) \in Buffer \ M /\ Len(g.obj[Head(g.full)]) = Capacity
         /\ Lists(r, M \cup {Head(g.full)})
         /\ ToSet(g.full) = {Head(g.full)} \cup ToSet(r.full)
<1>. DEFINE h == Head(g.full)
<1>1. g.empty \in Seq(Buffer) /\ g.full \in Seq(Buffer)
  BY DEF WorkType
<1>2. /\ h \in Buffer /\ r.full \in Seq(Buffer)
      /\ ToSet(g.full) = {h} \cup ToSet(r.full)
      /\ IsInjective(g.full) => IsInjective(r.full) /\ h \notin ToSet(r.full)
  BY <1>1, Popped
<1>3. /\ IsInjective(g.empty) /\ IsInjective(g.full) /\ ToSet(g.empty) \cap ToSet(g.full) = {}
      /\ ToSet(g.empty \o g.full) = ToSet(g.empty) \cup ToSet(g.full)
  BY <1>1, TwoLists DEF Lists
<1>4. /\ IsInjective(r.empty \o r.full)
      /\ ToSet(r.empty \o r.full) = ToSet(g.empty) \cup ToSet(r.full)
  <2>1. ToSet(r.empty) \cap ToSet(r.full) = {}
    BY <1>2, <1>3 DEF Lists
  <2>. QED  BY <1>1, <1>2, <1>3, <2>1, TwoLists
<1>5. Cut(r) = Cut(g)
  BY DEF Cut
<1>6. Len(g.obj[h]) = Capacity /\ h \notin M
  BY <1>2, <1>3 DEF Lists
<1>. HIDE DEF h
<1>7. Lists(r, M \cup {h})
  <2>1. Capacity <= Capacity
    BY Bounds
  <2>. QED  BY <1>2, <1>3, <1>4, <1>5, <1>6, <2>1 DEF Lists
<1>. QED  BY <1>2, <1>6, <1>7 DEF h

(* The collector holds two buffers.                                        *)
Held(g)  == {g.wbuf1, g.wbuf2}
Ready(g) == g \in WorkType /\ Lists(g, Held(g)) /\ g.wbuf1 # g.wbuf2
Work(g)  == WorkIn(g, Held(g))

LEMMA InWork ==
  ASSUME NEW g, NEW x
  PROVE  x \in Work(g) <=> \E b \in Held(g) \cup ToSet(g.full) : x \in ToSet(g.obj[b])
BY DEF Work, WorkIn

LEMMA HeldTyped ==
  ASSUME NEW g, Ready(g)
  PROVE  /\ g.wbuf1 \in Buffer /\ g.wbuf2 \in Buffer
         /\ g.obj[g.wbuf1] \in Seq(Addr) /\ g.obj[g.wbuf2] \in Seq(Addr)
BY CutTyped, WorkTyped DEF Ready, Lists, Held

LEMMA InitWorks ==
  ASSUME NEW g \in WorkType, Lists(g, {}), g.full = <<>>, NEW r, r = gcwork_init(g), r.ok
  PROVE  Ready(r) /\ r.full = <<>> /\ Work(r) = {}
<1>. DEFINE one == [getempty(g) EXCEPT !.wbuf1 = Granted(g)]
            two == getempty(one)
<1>1. getempty(g) \in WorkType /\ getempty(g).full = g.full
  BY getemptyFields
<1>2. Granted(g) \in Nat
  BY WorkTyped, Bounds DEF Granted
<1>3. /\ one \in WorkType /\ one.full = g.full /\ one.wbuf1 = Granted(g)
      /\ one.obj = getempty(g).obj /\ one.empty = getempty(g).empty
      /\ one.nspans = getempty(g).nspans /\ one.ok = getempty(g).ok
  BY <1>1, <1>2 DEF WorkType
<1>4. r = [two EXCEPT !.wbuf2 = Granted(one)]
  BY <1>3 DEF gcwork_init
<1>. HIDE DEF one
<1>5. /\ two \in WorkType /\ two.obj = one.obj /\ two.full = one.full /\ two.wbuf1 = one.wbuf1
      /\ two.ok => one.ok
  BY <1>3, getemptyFields
<1>6. Granted(one) \in Nat
  BY <1>3, WorkTyped, Bounds DEF Granted
<1>. HIDE DEF two
<1>7. /\ r \in WorkType /\ r.full = two.full /\ r.wbuf1 = two.wbuf1 /\ r.wbuf2 = Granted(one)
      /\ r.obj = two.obj /\ r.empty = two.empty /\ r.nspans = two.nspans /\ r.ok = two.ok
  BY <1>4, <1>5, <1>6 DEF WorkType
<1>8. getempty(g).ok /\ one.ok /\ two.ok
  BY <1>3, <1>5, <1>7
<1>9. Lists(getempty(g), {Granted(g)}) /\ getempty(g).obj[Granted(g)] = <<>>
  <2>1. Lists(getempty(g), {} \cup {Granted(g)})
    BY <1>8, getemptyLists
  <2>. QED  BY <1>8, <2>1, getemptyLists
<1>10. Lists(one, {Granted(g)})
  BY <1>1, <1>3, <1>9 DEF Lists, Cut
<1>11. /\ Granted(one) \notin {Granted(g)} /\ two.obj[Granted(one)] = <<>>
       /\ Lists(two, {Granted(g)} \cup {Granted(one)})
  BY <1>3, <1>8, <1>10, getemptyLists DEF two
<1>12. r.wbuf1 = Granted(g) /\ r.wbuf1 # r.wbuf2 /\ Held(r) = {Granted(g)} \cup {Granted(one)}
  BY <1>3, <1>5, <1>7, <1>11 DEF Held
<1>13. Lists(r, Held(r))
  BY <1>7, <1>11, <1>12 DEF Lists, Cut
<1>14. r.full = <<>>
  BY <1>3, <1>5, <1>7
<1>15. r.obj[r.wbuf1] = <<>> /\ r.obj[r.wbuf2] = <<>>
  BY <1>3, <1>5, <1>7, <1>9, <1>11
<1>16. Work(r) = {}
  <2>1. \A b \in Held(r) \cup ToSet(r.full) : ToSet(r.obj[b]) = {}
    BY <1>14, <1>15, ToSetEmpty DEF Held
  <2>. QED  BY <2>1, InWork
<1>. QED  BY <1>7, <1>12, <1>13, <1>14, <1>16 DEF Ready

LEMMA SwapReady ==
  ASSUME NEW g, Ready(g)
  PROVE  /\ Ready(Swap(g)) /\ Swap(g).obj = g.obj /\ Swap(g).full = g.full
         /\ Swap(g).empty = g.empty /\ Swap(g).nspans = g.nspans /\ Swap(g).ok = g.ok
         /\ Swap(g).wbuf1 = g.wbuf2 /\ Swap(g).wbuf2 = g.wbuf1
         /\ Work(Swap(g)) = Work(g)
<1>. DEFINE r == Swap(g)
<1>1. /\ r \in WorkType /\ r.obj = g.obj /\ r.full = g.full
      /\ r.empty = g.empty /\ r.nspans = g.nspans /\ r.ok = g.ok
      /\ r.wbuf1 = g.wbuf2 /\ r.wbuf2 = g.wbuf1
  BY DEF Swap, Ready, WorkType
<1>. HIDE DEF r
<1>2. Held(r) = Held(g)
  BY <1>1 DEF Held
<1>3. Lists(r, Held(r))
  BY <1>1, <1>2 DEF Ready, Lists, Cut
<1>4. Work(r) = Work(g)
  BY <1>1, <1>2 DEF Work, WorkIn
<1>. QED  BY <1>1, <1>3, <1>4 DEF Ready, r

LEMMA AppendReady ==
  ASSUME NEW g, Ready(g), g.ok, ~IsFull(g, g.wbuf1), NEW p \in Addr, NEW r, r = Append1(g, p)
  PROVE  Ready(r) /\ r.ok /\ Work(r) = Work(g) \cup {p}
<1>. DEFINE b == g.wbuf1
            q == Append(g.obj[b], p)
<1>1. r = [g EXCEPT !.obj[b] = q]
  BY DEF Append1
<1>2. /\ b \in Buffer /\ g.obj[b] \in Seq(Addr) /\ g \in WorkType
  BY HeldTyped DEF Ready
<1>3. q \in Seq(Addr) /\ Len(q) = Len(g.obj[b]) + 1 /\ ToSet(q) = ToSet(g.obj[b]) \cup {p}
  BY <1>2, ToSetAppend
<1>. HIDE DEF q
<1>4. /\ r \in WorkType /\ r.obj = [g.obj EXCEPT ![b] = q] /\ r.full = g.full /\ r.empty = g.empty
      /\ r.nspans = g.nspans /\ r.wbuf1 = g.wbuf1 /\ r.wbuf2 = g.wbuf2 /\ r.ok = g.ok
  BY <1>1, <1>2, <1>3 DEF WorkType
<1>5. b \in Held(g) /\ b \notin ToSet(g.empty) /\ b \notin ToSet(g.full) /\ b \in Cut(g)
      /\ ToSet(g.empty \o g.full) = ToSet(g.empty) \cup ToSet(g.full)
  BY <1>2, WorkTyped, TwoLists DEF Ready, Held, Lists
<1>6. Len(q) <= Capacity
  <2>1. Len(g.obj[b]) \in Nat /\ Len(g.obj[b]) <= Capacity /\ Len(g.obj[b]) # Capacity
    BY <1>2, <1>5 DEF Ready, Lists, IsFull
  <2>. QED  BY <1>3, <2>1, Bounds
<1>7. /\ r.obj[b] = q /\ \A c \in Buffer : c # b => r.obj[c] = g.obj[c]
  BY <1>2, <1>4, WorkTyped
<1>8. Held(r) = Held(g) /\ Cut(r) = Cut(g) /\ Cut(g) \subseteq Buffer
  BY <1>2, <1>4, CutTyped DEF Held, Cut
<1>9. Lists(r, Held(r))
  BY <1>4, <1>5, <1>6, <1>7, <1>8 DEF Ready, Lists
<1>10. Work(r) = Work(g) \cup {p}
  <2>1. Held(g) \cup ToSet(g.full) \subseteq Buffer
    BY <1>8 DEF Ready, Lists
  <2>2. \A c \in Held(g) \cup ToSet(g.full) :
          ToSet(r.obj[c]) = IF c = b THEN ToSet(g.obj[c]) \cup {p} ELSE ToSet(g.obj[c])
    BY <1>3, <1>7, <2>1
  <2>3. ASSUME NEW x
        PROVE  x \in Work(r) <=> x \in Work(g) \/ x = p
    <3>. DEFINE K == Held(g) \cup ToSet(g.full)
    <3>1. x \in Work(r) <=> \E c \in K : x \in ToSet(r.obj[c])
      BY <1>4, <1>8, InWork
    <3>2. x \in Work(g) <=> \E c \in K : x \in ToSet(g.obj[c])
      BY InWork
    <3>3. b \in K
      BY <1>5
    <3>. HIDE DEF K
    <3>4. \A c \in K : x \in ToSet(r.obj[c]) <=> x \in ToSet(g.obj[c]) \/ (c = b /\ x = p)
      BY <2>2 DEF K
    <3>. QED  BY <3>1, <3>2, <3>3, <3>4
  <2>. QED  BY <2>3
<1>. QED  BY <1>4, <1>9, <1>10 DEF Ready

LEMMA FlushReady ==
  ASSUME NEW g, Ready(g), IsFull(g, g.wbuf1), NEW r, r = Flush(g), r.ok
  PROVE  Ready(r) /\ ~IsFull(r, r.wbuf1) /\ Work(r) = Work(g)
<1>. DEFINE e == getempty(g)
            n == Granted(g)
            b == g.wbuf1
            f == [e EXCEPT !.full = lf_push(g.full, b)]
<1>1. /\ e \in WorkType /\ e.obj = g.obj /\ e.full = g.full
      /\ e.wbuf1 = b /\ e.wbuf2 = g.wbuf2
  BY getemptyFields DEF Ready
<1>2. b \in Buffer /\ n \in Nat
  <2>1. b \in Buffer
    BY HeldTyped
  <2>2. n \in Nat
    <3>1. g \in WorkType
      BY DEF Ready
    <3>2. g.nspans \in Nat /\ PerSpan \in Nat
      BY <3>1, WorkTyped, Bounds
    <3>. QED  BY <3>2 DEF Granted
  <2>. QED  BY <2>1, <2>2
<1>3. lf_push(g.full, b) \in Seq(Buffer) /\ ToSet(lf_push(g.full, b)) = {b} \cup ToSet(g.full)
  BY <1>2, WorkTyped, Pushed DEF Ready
<1>4. r = [e EXCEPT !.full = lf_push(g.full, b), !.wbuf1 = n]
  BY <1>1 DEF Flush, WorkType
<1>. HIDE DEF e, n
<1>5. /\ r \in WorkType /\ r.obj = e.obj /\ r.empty = e.empty /\ r.nspans = e.nspans /\ r.ok = e.ok
      /\ r.full = lf_push(g.full, b) /\ r.wbuf1 = n /\ r.wbuf2 = g.wbuf2
  BY <1>1, <1>2, <1>3, <1>4 DEF WorkType
<1>6. /\ f \in WorkType /\ f.obj = e.obj /\ f.empty = e.empty /\ f.nspans = e.nspans
      /\ f.full = lf_push(g.full, b)
  BY <1>1, <1>2, <1>3 DEF WorkType
<1>7. /\ n \notin Held(g) /\ n \notin ToSet(g.full) /\ e.obj[n] = <<>>
      /\ Lists(e, Held(g) \cup {n})
  BY <1>5, getemptyLists DEF Ready, e, n
<1>. HIDE DEF f
<1>8. Lists(f, (Held(g) \cup {n}) \ {b})
  <2>1. Len(e.obj[b]) = Capacity /\ b \in Held(g) \cup {n}
    BY <1>1 DEF IsFull, Held
  <2>2. f.full = lf_push(e.full, b)
    BY <1>1, <1>6
  <2>. QED  BY <1>1, <1>6, <1>7, <2>1, <2>2, PushedFull
<1>9. Held(r) = (Held(g) \cup {n}) \ {b} /\ Held(r) = {n, g.wbuf2} /\ r.wbuf1 # r.wbuf2
  BY <1>5, <1>7 DEF Held, Ready
<1>10. Lists(r, Held(r))
  BY <1>5, <1>6, <1>8, <1>9 DEF Lists, Cut
<1>11. Work(r) = Work(g)
  <2>1. ASSUME NEW x
        PROVE  x \in Work(r) <=> x \in Work(g)
    <3>1. ToSet(r.obj[n]) = {}
      BY <1>5, <1>7, ToSetEmpty
    <3>2. Held(r) \cup ToSet(r.full) = {n} \cup (Held(g) \cup ToSet(g.full))
      BY <1>3, <1>5, <1>9 DEF Held
    <3>3. r.obj = g.obj
      BY <1>1, <1>5
    <3>. DEFINE K == Held(g) \cup ToSet(g.full)
    <3>4. x \in Work(r) <=> \E c \in {n} \cup K : x \in ToSet(r.obj[c])
      BY <3>2, InWork
    <3>5. x \in Work(g) <=> \E c \in K : x \in ToSet(g.obj[c])
      BY InWork
    <3>. QED  BY <3>1, <3>3, <3>4, <3>5
  <2>. QED  BY <2>1
<1>12. ~IsFull(r, r.wbuf1)
  <2>1. Len(<<>>) # Capacity
    BY Bounds
  <2>. QED  BY <1>5, <1>7, <2>1 DEF IsFull
<1>. QED  BY <1>5, <1>9, <1>10, <1>11, <1>12 DEF Ready

(* gcwork_put adds the object to the work and nothing else.                *)
LEMMA PutReady ==
  ASSUME NEW g, Ready(g), g.ok, NEW p \in Addr, NEW r, r = gcwork_put(g, p), r.ok
  PROVE  Ready(r) /\ Work(r) = Work(g) \cup {p}
<1>1. CASE ~IsFull(g, g.wbuf1)
  BY <1>1, AppendReady DEF gcwork_put
<1>2. CASE IsFull(g, g.wbuf1)
  <2>. DEFINE s == Swap(g)
  <2>1. Ready(s) /\ s.ok /\ Work(s) = Work(g)
    BY SwapReady
  <2>2. r = Append1(IF IsFull(s, s.wbuf1) THEN Flush(s) ELSE s, p)
    BY <1>2 DEF gcwork_put
  <2>. HIDE DEF s
  <2>3. CASE ~IsFull(s, s.wbuf1)
    BY <2>1, <2>2, <2>3, AppendReady
  <2>4. CASE IsFull(s, s.wbuf1)
    <3>. DEFINE f == Flush(s)
    <3>1. r = Append1(f, p)
      BY <2>2, <2>4
    <3>2. f.ok
      BY <3>1 DEF Append1
    <3>3. Ready(f) /\ ~IsFull(f, f.wbuf1) /\ Work(f) = Work(s)
      BY <2>1, <2>4, <3>2, FlushReady
    <3>. HIDE DEF f
    <3>. QED  BY <2>1, <3>1, <3>2, <3>3, AppendReady
  <2>. QED  BY <2>3, <2>4
<1>. QED  BY <1>1, <1>2

LEMMA RefillReady ==
  ASSUME NEW g, Ready(g), g.ok, IsEmpty(g, g.wbuf1), NEW r, r = RefillFrom(g)
  PROVE  /\ Ready(r) /\ r.ok /\ Work(r) = Work(g)
         /\ IsEmpty(r, r.wbuf1) => r = g /\ g.full = <<>>
<1>1. CASE g.full = <<>>
  BY <1>1 DEF RefillFrom
<1>2. CASE g.full # <<>>
  <2>. DEFINE h == Head(g.full)
              b == g.wbuf1
              e == [g EXCEPT !.empty = lf_push(g.empty, b)]
  <2>1. r = [TakeFull(g) EXCEPT !.empty = lf_push(TakeFull(g).empty, g.wbuf1), !.wbuf1 = h]
    BY <1>2 DEF RefillFrom
  <2>2. /\ b \in Buffer /\ g \in WorkType /\ g.empty \in Seq(Buffer) /\ g.full \in Seq(Buffer)
    BY HeldTyped, WorkTyped DEF Ready
  <2>3. lf_push(g.empty, b) \in Seq(Buffer) /\ lf_pop(g.full) \in Seq(Buffer)
    BY <2>2, Pushed, Popped
  <2>4. /\ e \in WorkType /\ e.obj = g.obj /\ e.full = g.full /\ e.nspans = g.nspans
        /\ e.empty = lf_push(g.empty, b)
    BY <2>2, <2>3 DEF WorkType
  <2>. HIDE DEF e
  <2>5. Lists(e, Held(g) \ {b})
    <3>1. g.obj[b] = <<>> /\ b \in Held(g)
      BY DEF IsEmpty, Held
    <3>. QED  BY <2>2, <2>4, <3>1, PushedEmpty DEF Ready
  <2>6. h \in Buffer /\ h \in Nat
    <3>1. h \in Buffer
      BY <1>2, <2>2, Popped
    <3>2. PerSpan * MaxSpans \in Nat
      BY Bounds
    <3>. QED  BY <3>1, <3>2 DEF Buffer
  <2>7. /\ r \in WorkType /\ r.obj = g.obj /\ r.nspans = g.nspans
        /\ r.empty = lf_push(g.empty, b) /\ r.full = lf_pop(g.full)
        /\ r.wbuf1 = h /\ r.wbuf2 = g.wbuf2
        /\ r.ok <=> g.ok /\ g.obj[h] # <<>>
    <3>. HIDE DEF h
    <3>. QED  BY <2>1, <2>2, <2>3, <2>6 DEF TakeFull, WorkType, h
  <2>8. /\ h \notin Held(g) \ {b} /\ Len(g.obj[h]) = Capacity
        /\ Lists(r, (Held(g) \ {b}) \cup {h})
        /\ ToSet(g.full) = {h} \cup ToSet(r.full)
    <3>1. /\ e.full # <<>> /\ Head(e.full) = h
          /\ r.obj = e.obj /\ r.empty = e.empty /\ r.nspans = e.nspans /\ r.full = lf_pop(e.full)
      BY <1>2, <2>4, <2>7
    <3>. HIDE DEF h, b
    <3>2. /\ Head(e.full) \in Buffer \ (Held(g) \ {b}) /\ Len(e.obj[Head(e.full)]) = Capacity
          /\ Lists(r, (Held(g) \ {b}) \cup {Head(e.full)})
          /\ ToSet(e.full) = {Head(e.full)} \cup ToSet(r.full)
      BY <2>4, <2>5, <3>1, PoppedFull
    <3>. QED  BY <2>4, <3>1, <3>2
  <2>9. g.obj[h] # <<>>
    BY <2>8, Bounds
  <2>10. g.obj[b] = <<>>
    BY DEF IsEmpty
  <2>11. Held(g) \ {b} = {g.wbuf2} /\ Held(r) = {h, g.wbuf2} /\ r.wbuf1 # r.wbuf2
    BY <2>7, <2>8 DEF Held, Ready
  <2>12. Ready(r)
    <3>1. Held(r) = (Held(g) \ {b}) \cup {h}
      BY <2>11
    <3>. QED  BY <2>7, <2>8, <2>11, <3>1 DEF Ready
  <2>13. Work(r) = Work(g)
    <3>1. ASSUME NEW x
          PROVE  x \in Work(r) <=> x \in Work(g)
      <4>. DEFINE K == Held(r) \cup ToSet(r.full)
      <4>1. Held(g) \cup ToSet(g.full) = {b} \cup K
        BY <2>8, <2>11 DEF Held
      <4>2. ToSet(g.obj[b]) = {}
        BY <2>10, ToSetEmpty
      <4>3. x \in Work(r) <=> \E c \in K : x \in ToSet(r.obj[c])
        BY InWork
      <4>4. x \in Work(g) <=> \E c \in {b} \cup K : x \in ToSet(g.obj[c])
        BY <4>1, InWork
      <4>5. r.obj = g.obj
        BY <2>7
      <4>. HIDE DEF K
      <4>. QED  BY <4>2, <4>3, <4>4, <4>5
    <3>. QED  BY <3>1
  <2>14. r.ok /\ ~IsEmpty(r, r.wbuf1)
    BY <2>7, <2>9 DEF IsEmpty
  <2>. QED  BY <2>12, <2>13, <2>14
<1>. QED  BY <1>1, <1>2

(* gcwork_tryGet loses no work, and finds none only if there is none.      *)
LEMMA TryGetReady ==
  ASSUME NEW g, Ready(g), g.ok, NEW r, r = gcwork_tryGet(g)
  PROVE  /\ Ready(r) /\ r.ok /\ Work(r) = Work(g)
         /\ IsEmpty(r, r.wbuf1) => Work(r) = {} /\ r.full = <<>>
<1>1. CASE ~IsEmpty(g, g.wbuf1)
  BY <1>1 DEF gcwork_tryGet
<1>2. CASE IsEmpty(g, g.wbuf1)
  <2>. DEFINE s == Swap(g)
  <2>1. Ready(s) /\ s.ok /\ Work(s) = Work(g) /\ s.wbuf2 = g.wbuf1 /\ s.obj = g.obj
    BY SwapReady
  <2>2. r = IF IsEmpty(s, s.wbuf1) THEN RefillFrom(s) ELSE s
    BY <1>2 DEF gcwork_tryGet
  <2>. HIDE DEF s
  <2>3. CASE ~IsEmpty(s, s.wbuf1)
    BY <2>1, <2>2, <2>3
  <2>4. CASE IsEmpty(s, s.wbuf1)
    <3>1. /\ Ready(r) /\ r.ok /\ Work(r) = Work(s)
          /\ IsEmpty(r, r.wbuf1) => r = s /\ s.full = <<>>
      BY <2>1, <2>2, <2>4, RefillReady
    <3>2. s.full = <<>> => Work(s) = {}
      <4>1. s.obj[s.wbuf1] = <<>> /\ s.obj[s.wbuf2] = <<>>
        BY <1>2, <2>1, <2>4 DEF IsEmpty
      <4>2. s.full = <<>> => \A b \in Held(s) \cup ToSet(s.full) : ToSet(s.obj[b]) = {}
        BY <4>1, ToSetEmpty DEF Held
      <4>. QED  BY <4>2, InWork
    <3>. QED  BY <2>1, <3>1, <3>2
  <2>. QED  BY <2>3, <2>4
<1>. QED  BY <1>1, <1>2

(* gcDrain takes an object from the first buffer.                          *)
LEMMA PopReady ==
  ASSUME NEW g, Ready(g), NEW p \in Addr, NEW q \in Seq(Addr),
         Len(q) = Len(g.obj[g.wbuf1]) - 1, ToSet(g.obj[g.wbuf1]) = ToSet(q) \cup {p},
         NEW r \in WorkType, r.obj[g.wbuf1] = q,
         \A c \in Buffer : c # g.wbuf1 => r.obj[c] = g.obj[c],
         r.full = g.full, r.empty = g.empty, r.nspans = g.nspans, r.wbuf1 = g.wbuf1, r.wbuf2 = g.wbuf2
  PROVE  Ready(r) /\ Work(g) = Work(r) \cup {p}
<1>. DEFINE b == g.wbuf1
<1>1. b \in Buffer /\ g.obj[b] \in Seq(Addr) /\ g \in WorkType
  BY HeldTyped DEF Ready
<1>2. Len(q) = Len(g.obj[b]) - 1 /\ ToSet(g.obj[b]) = ToSet(q) \cup {p}
  OBVIOUS
<1>4. /\ r \in WorkType /\ r.full = g.full /\ r.empty = g.empty
      /\ r.nspans = g.nspans /\ r.wbuf1 = g.wbuf1 /\ r.wbuf2 = g.wbuf2
  OBVIOUS
<1>5. b \in Held(g) /\ b \notin ToSet(g.empty) /\ b \notin ToSet(g.full) /\ b \in Cut(g)
      /\ ToSet(g.empty \o g.full) = ToSet(g.empty) \cup ToSet(g.full)
  BY <1>1, WorkTyped, TwoLists DEF Ready, Held, Lists
<1>6. Len(q) <= Capacity
  <2>1. Len(g.obj[b]) \in Nat /\ Len(g.obj[b]) <= Capacity
    BY <1>1, <1>5 DEF Ready, Lists
  <2>. QED  BY <1>2, <2>1, Bounds
<1>7. /\ r.obj[b] = q /\ \A c \in Buffer : c # b => r.obj[c] = g.obj[c]
  OBVIOUS
<1>8. Held(r) = Held(g) /\ Cut(r) = Cut(g) /\ Cut(g) \subseteq Buffer
  BY <1>1, <1>4, CutTyped DEF Held, Cut
<1>9. Lists(r, Held(r))
  BY <1>4, <1>5, <1>6, <1>7, <1>8 DEF Ready, Lists
<1>10. Work(g) = Work(r) \cup {p}
  <2>1. Held(g) \cup ToSet(g.full) \subseteq Buffer
    BY <1>8 DEF Ready, Lists
  <2>2. \A c \in Held(g) \cup ToSet(g.full) :
          ToSet(g.obj[c]) = IF c = b THEN ToSet(r.obj[c]) \cup {p} ELSE ToSet(r.obj[c])
    BY <1>2, <1>7, <2>1
  <2>3. ASSUME NEW x
        PROVE  x \in Work(g) <=> x \in Work(r) \/ x = p
    <3>. DEFINE K == Held(g) \cup ToSet(g.full)
    <3>1. x \in Work(r) <=> \E c \in K : x \in ToSet(r.obj[c])
      BY <1>4, <1>8, InWork
    <3>2. x \in Work(g) <=> \E c \in K : x \in ToSet(g.obj[c])
      BY InWork
    <3>3. b \in K
      BY <1>5
    <3>. HIDE DEF K
    <3>4. \A c \in K : x \in ToSet(g.obj[c]) <=> x \in ToSet(r.obj[c]) \/ (c = b /\ x = p)
      BY <2>2 DEF K
    <3>. QED  BY <3>1, <3>2, <3>3, <3>4
  <2>. QED  BY <2>3
<1>. QED  BY <1>4, <1>9, <1>10 DEF Ready

(***************************************************************************)
(* What the program reaches.                                               *)
(***************************************************************************)
ProgramTyped == word \in [Addr -> Addr \cup {NULL}] /\ stack \in Seq(Object)
StackObjects == ObjectsIn(ToSet(stack))
Step == [Y \in SUBSET Object |-> UNION {Links(o) : o \in Y}]
Reaches(r) == r = [n \in 0 .. Cardinality(Object) |->
                     IF n = 0 THEN StackObjects ELSE UNION {Links(o) : o \in r[n - 1]}]

LEMMA ReachableSame ==
  ASSUME word' = word, stack' = stack
  PROVE  Reachable' = Reachable /\ \A o : Links(o)' = Links(o)
BY DEF Reachable, Links

LEMMA ObjectsInTyped ==
  /\ \A S : ObjectsIn(S) \subseteq Object
  /\ \A S, o : o \in ObjectsIn(S) <=> o # NULL /\ \E p \in S : findObject(p) = o
<1>1. \A S, o : o \in ObjectsIn(S) <=> o # NULL /\ \E p \in S : findObject(p) = o
  BY DEF ObjectsIn
<1>2. \A p : findObject(p) \in Object \cup {NULL}
  BY Objects
<1>. QED  BY <1>1, <1>2

LEMMA LinksTyped ==
  \A o \in Object : Links(o) \in SUBSET Object /\ o \in Links(o)
BY ObjectsInTyped DEF Links

LEMMA ReachableIterates ==
  /\ Iterates([n \in 0 .. Cardinality(Object) |-> (CHOOSE r : Reaches(r))[n]],
              StackObjects, Step, Cardinality(Object))
  /\ Reachable = (CHOOSE r : Reaches(r))[Cardinality(Object)]
<1>. DEFINE N == Cardinality(Object)
            r == CHOOSE r : Reaches(r)
<1>1. N \in Nat
  BY AddrFinite, FS_CardinalityType
<1>2. StackObjects \in SUBSET Object
  BY ObjectsInTyped DEF StackObjects
<1>3. /\ Step \in [SUBSET Object -> SUBSET Object]
      /\ \A Y \in SUBSET Object : Step[Y] = UNION {Links(o) : o \in Y}
  BY LinksTyped DEF Step
<1>. HIDE DEF N
<1>4. PICK g \in [0 .. N -> SUBSET Object] : Iterates(g, StackObjects, Step, N)
  BY <1>1, <1>2, <1>3, IterationExists
<1>5. Reaches(g)
  <2>1. \A n \in 0 .. N : g[n] = IF n = 0 THEN StackObjects ELSE Step[g[n - 1]]
    BY <1>4 DEF Iterates
  <2>2. \A n \in 0 .. N : n # 0 => g[n - 1] \in SUBSET Object
    BY <1>1
  <2>3. \A n \in 0 .. N :
          g[n] = IF n = 0 THEN StackObjects ELSE UNION {Links(o) : o \in g[n - 1]}
    BY <1>3, <2>1, <2>2
  <2>. QED  BY <2>3 DEF Reaches, N
<1>6. Reaches(r)
  BY <1>5
<1>. HIDE DEF r
<1>7. \A n \in 0 .. N : r[n] = IF n = 0 THEN StackObjects ELSE UNION {Links(o) : o \in r[n - 1]}
  BY <1>6 DEF Reaches, N
<1>8. \A n \in 0 .. N : r[n] \in SUBSET Object
  <2>. DEFINE S == {n \in Nat : n <= N => r[n] \in SUBSET Object}
  <2>1. 0 \in S
    <3>1. r[0] = StackObjects
      <4>1. 0 \in 0 .. N
        BY <1>1
      <4>. QED  BY <1>7, <4>1, Zenon
    <3>. QED  BY <1>2, <3>1
  <2>2. ASSUME NEW n \in Nat, n \in S  PROVE n + 1 \in S
    <3>1. CASE n + 1 <= N
      <4>1. r[n] \in SUBSET Object /\ n + 1 \in 0 .. N /\ n + 1 # 0 /\ (n + 1) - 1 = n
        BY <1>1, <2>2, <3>1
      <4>2. r[n + 1] = UNION {Links(o) : o \in r[n]}
        BY <1>7, <4>1
      <4>3. r[n + 1] \in SUBSET Object
        BY <4>1, <4>2, LinksTyped
      <4>. QED  BY <4>3
    <3>2. CASE ~(n + 1 <= N)
      BY <3>2
    <3>. QED  BY <3>1, <3>2
  <2>. HIDE DEF S
  <2>3. Nat \subseteq S
    BY <2>1, <2>2, NatSetInduction
  <2>. QED  BY <1>1, <2>3 DEF S
<1>9. Iterates([n \in 0 .. N |-> r[n]], StackObjects, Step, N)
  <2>. DEFINE h == [n \in 0 .. N |-> r[n]]
  <2>1. \A n \in 0 .. N : n # 0 => n - 1 \in 0 .. N
    BY <1>1
  <2>2. \A n \in 0 .. N : h[n] = IF n = 0 THEN StackObjects ELSE Step[h[n - 1]]
    BY <1>3, <1>7, <1>8, <2>1
  <2>. QED  BY <2>2 DEF Iterates
<1>10. Reachable = r[N]
  BY DEF Reachable, Reaches, StackObjects, r, N
<1>. QED  BY <1>9, <1>10 DEF r, N

(* It is closed under pointers, and the least such set.                    *)
LEMMA ReachableClosed ==
  /\ Reachable \in SUBSET Object /\ StackObjects \subseteq Reachable
  /\ \A o \in Reachable : Links(o) \subseteq Reachable
<1>. DEFINE N == Cardinality(Object)
            r == CHOOSE r : Reaches(r)
            g == [n \in 0 .. N |-> r[n]]
<1>1. N \in Nat /\ IsFiniteSet(Object)
  BY AddrFinite, FS_CardinalityType
<1>2. StackObjects \in SUBSET Object
  BY ObjectsInTyped DEF StackObjects
<1>3. /\ Step \in [SUBSET Object -> SUBSET Object]
      /\ \A Y \in SUBSET Object : Step[Y] = UNION {Links(o) : o \in Y}
  BY LinksTyped DEF Step
<1>4. \A Y \in SUBSET Object : Y \subseteq Step[Y]
  BY <1>3, LinksTyped
<1>5. Iterates(g, StackObjects, Step, N) /\ Reachable = r[N]
  BY ReachableIterates
<1>6. g[N] = r[N]
  BY <1>1
<1>. HIDE DEF g, r, N
<1>7. g[N] \in SUBSET Object /\ StackObjects \subseteq g[N] /\ Step[g[N]] = g[N]
  <2>1. N >= Cardinality(Object)
    BY <1>1 DEF N
  <2>2. Inflates(Step, Object)
    BY <1>3, <1>4 DEF Inflates
  <2>. QED  BY <1>1, <1>2, <1>5, <2>1, <2>2, IterationRests
<1>8. Reachable = UNION {Links(o) : o \in Reachable}
  BY <1>3, <1>5, <1>6, <1>7
<1>. QED  BY <1>5, <1>6, <1>7, <1>8

LEMMA ReachableLeast ==
  ASSUME NEW X, StackObjects \subseteq X, \A o \in X \cap Object : Links(o) \subseteq X
  PROVE  Reachable \subseteq X
<1>. DEFINE N == Cardinality(Object)
            r == CHOOSE r : Reaches(r)
            g == [n \in 0 .. N |-> r[n]]
            Z == X \cap Object
<1>1. N \in Nat
  BY AddrFinite, FS_CardinalityType
<1>2. StackObjects \subseteq Z
  BY ObjectsInTyped DEF StackObjects
<1>3. \A Y \in SUBSET Z : Step[Y] \subseteq Z
  <2>1. \A Y \in SUBSET Z : Step[Y] = UNION {Links(o) : o \in Y}
    BY DEF Step
  <2>2. \A o \in Z : Links(o) \subseteq Z
    BY LinksTyped
  <2>. QED  BY <2>1, <2>2
<1>4. Iterates(g, StackObjects, Step, N) /\ Reachable = r[N]
  BY ReachableIterates
<1>5. g[N] = r[N]
  BY <1>1
<1>. HIDE DEF g, r, N, Z
<1>6. g[N] \subseteq Z
  BY <1>1, <1>2, <1>3, <1>4, IterationStays
<1>. QED  BY <1>4, <1>5, <1>6 DEF Z

(***************************************************************************)
(* What a scan comes across.                                               *)
(***************************************************************************)
LEMMA PointersOf ==
  ASSUME NEW s \in Seq(Addr \cup {NULL})
  PROVE  Pointers(s) \in Seq(Addr) /\ ToSet(Pointers(s)) = ToSet(s) \cap Addr
<1>. DEFINE N == Len(s)
            D == Seq(Addr)
            one(n) == IF findObject(s[n]) = NULL THEN <<>> ELSE <<s[n]>>
            F == [n \in Nat |-> [q \in D |-> IF n \in 1 .. N THEN q \o one(n) ELSE q]]
            Found(f) == f = [n \in 0 .. N |-> IF n = 0 THEN <<>> ELSE f[n - 1] \o one(n)]
            f == CHOOSE f : Found(f)
<1>1. N \in Nat /\ \A n \in 1 .. N : s[n] \in Addr \cup {NULL}
  OBVIOUS
<1>2. \A n \in 1 .. N : /\ one(n) \in D
                        /\ ToSet(one(n)) = {s[n]} \cap Addr
  <2>. TAKE n \in 1 .. N
  <2>1. CASE s[n] \in Addr
    <3>1. findObject(s[n]) # NULL
      BY <2>1, Objects
    <3>2. one(n) = <<s[n]>>
      BY <3>1
    <3>. QED  BY <2>1, <3>2, ToSetOne
  <2>2. CASE s[n] \notin Addr
    <3>1. findObject(s[n]) = NULL
      BY <2>2, Objects
    <3>2. one(n) = <<>>
      BY <3>1
    <3>. QED  BY <2>2, <3>2, ToSetEmpty
  <2>. QED  BY <2>1, <2>2
<1>. HIDE DEF N, one
<1>3. \A n \in 1 .. N, q \in D : q \o one(n) \in D
  BY <1>2
<1>4. F \in [Nat -> [D -> D]]
  BY <1>3
<1>5. PICK g \in [0 .. N -> D] : Recurses(g, <<>>, F, N)
  <2>1. <<>> \in D
    OBVIOUS
  <2>. HIDE DEF F, D
  <2>. QED  BY <1>1, <1>4, <2>1, RecursionExists
<1>6. Found(g)
  <2>1. \A n \in 0 .. N : g[n] = IF n = 0 THEN <<>> ELSE F[n][g[n - 1]]
    BY <1>5 DEF Recurses
  <2>2. \A n \in 0 .. N : n # 0 => n \in Nat /\ n \in 1 .. N /\ g[n - 1] \in D
    BY <1>1
  <2>3. \A n \in 1 .. N, q \in D : F[n][q] = q \o one(n)
    BY <1>1
  <2>. HIDE DEF F, D
  <2>4. \A n \in 0 .. N : g[n] = IF n = 0 THEN <<>> ELSE g[n - 1] \o one(n)
    BY <2>1, <2>2, <2>3
  <2>. QED  BY <2>4
<1>7. Found(f)
  BY <1>6
<1>8. Pointers(s) = f[N]
  BY DEF Pointers, N, one
<1>. HIDE DEF f
<1>9. f[0] = <<>> /\ \A n \in 1 .. N : f[n] = f[n - 1] \o one(n)
  <2>1. \A n \in 0 .. N : f[n] = IF n = 0 THEN <<>> ELSE f[n - 1] \o one(n)
    BY <1>7
  <2>2. 0 \in 0 .. N /\ \A n \in 1 .. N : n \in 0 .. N /\ n # 0
    BY <1>1
  <2>. QED  BY <2>1, <2>2, Zenon
<1>. DEFINE S == {n \in Nat : n <= N => /\ f[n] \in D
                                        /\ ToSet(f[n]) = {s[i] : i \in 1 .. n} \cap Addr}
<1>10. 0 \in S
  <2>1. {s[i] : i \in 1 .. 0} = {}
    OBVIOUS
  <2>2. <<>> \in D
    OBVIOUS
  <2>. QED  BY <1>9, <2>1, <2>2, ToSetEmpty
<1>11. ASSUME NEW n \in Nat, n \in S  PROVE n + 1 \in S
  <2>1. CASE n + 1 <= N
    <3>1. n + 1 \in 1 .. N /\ (n + 1) - 1 = n /\ n <= N
      BY <1>1, <2>1
    <3>2. f[n + 1] = f[n] \o one(n + 1)
      BY <1>9, <3>1
    <3>3. f[n] \in D /\ ToSet(f[n]) = {s[i] : i \in 1 .. n} \cap Addr
      BY <1>11, <3>1
    <3>4. f[n + 1] \in D /\ ToSet(f[n + 1]) = ToSet(f[n]) \cup ToSet(one(n + 1))
      BY <1>2, <3>1, <3>2, <3>3, ToSetConcat
    <3>5. 1 .. n + 1 = (1 .. n) \cup {n + 1}
      OBVIOUS
    <3>6. ToSet(f[n + 1]) = {s[i] : i \in 1 .. n + 1} \cap Addr
      BY <1>2, <3>1, <3>3, <3>4, <3>5
    <3>. QED  BY <3>4, <3>6
  <2>2. CASE ~(n + 1 <= N)
    BY <2>2
  <2>. QED  BY <2>1, <2>2
<1>. HIDE DEF S
<1>12. N \in S
  BY <1>1, <1>10, <1>11, NatSetInduction
<1>13. {s[i] : i \in 1 .. N} = ToSet(s)
  BY DEF ToSet, N
<1>. QED  BY <1>1, <1>8, <1>12, <1>13 DEF S

LEMMA ScanRangeOf ==
  ASSUME ProgramTyped, NEW p \in Addr
  PROVE  /\ ScanRange(p) \in Seq(Addr \cup {NULL})
         /\ \A a \in Words[BaseOf[p]] : word[a] \in ToSet(ScanRange(p))
         /\ p \in Object => ToSet(ScanRange(p)) \subseteq {word[a] : a \in Words[p]}
<1>. DEFINE o == BaseOf[p]
            k == SpanOf[p].elemsize
            s == ScanRange(p)
            L == p - o + k
<1>1. /\ p \in Nat /\ o \in Nat /\ k \in Nat \ {0} /\ o <= p /\ p < o + k
      /\ o \in Object /\ o \in Addr
  BY BaseOfAddr, AddrTyped, SpanOfAddr, SpanTyped, Objects
<1>2. s = [i \in 1 .. L |-> Read(o + i - 1)]
  BY DEF ScanRange
<1>3. \A a : Read(a) \in Addr \cup {NULL}
  BY DEF Read, ProgramTyped
<1>. HIDE DEF o, k
<1>4. L \in Nat /\ k <= L
  BY <1>1
<1>. HIDE DEF s, L
<1>5. s \in Seq(Addr \cup {NULL}) /\ DOMAIN s = 1 .. L
  <2>1. s \in [1 .. L -> Addr \cup {NULL}]
    BY <1>2, <1>3
  <2>. QED  BY <1>4, <2>1
<1>6. ASSUME NEW a \in Words[o]
      PROVE  word[a] \in ToSet(s)
  <2>1. a \in Addr /\ BaseOf[a] = o
    BY <1>1, Objects
  <2>2. SpanOf[a] = SpanOf[p]
    BY <1>1, <2>1, BaseOfAddr DEF o
  <2>3. a \in Nat /\ o <= a /\ a < o + k
    BY <2>1, <2>2, BaseOfAddr, AddrTyped DEF k
  <2>4. a - o + 1 \in 1 .. L /\ o + (a - o + 1) - 1 = a
    BY <1>1, <1>4, <2>3
  <2>5. s[a - o + 1] = word[a]
    BY <1>2, <2>1, <2>4 DEF Read
  <2>. QED  BY <1>5, <2>4, <2>5 DEF ToSet
<1>7. ASSUME p \in Object, NEW i \in 1 .. L
      PROVE  \E a \in Words[p] : s[i] = word[a]
  <2>1. p = o
    BY <1>7, Objects DEF o
  <2>2. L = k
    BY <1>1, <2>1 DEF L
  <2>. DEFINE a == o + i - 1
  <2>3. a \in Nat /\ o <= a /\ a < o + k
    BY <1>1, <2>2
  <2>. HIDE DEF a
  <2>4. a \in Addr /\ BaseOf[a] = o
    BY <2>3, SameObject DEF o, k
  <2>5. a \in Words[p]
    BY <1>1, <2>1, <2>4, Objects
  <2>6. s[i] = word[a]
    BY <1>2, <2>4 DEF Read, a
  <2>. QED  BY <2>5, <2>6
<1>8. p \in Object => ToSet(s) \subseteq {word[a] : a \in Words[p]}
  BY <1>5, <1>7 DEF ToSet
<1>. QED  BY <1>5, <1>6, <1>8 DEF s, o

(***************************************************************************)
(* The inductive invariant.  A thread that has thrown takes no step.       *)
(***************************************************************************)
Passes(m, o) == {o, FirstOfByte[o]} \cap m # {}

Typed ==
  /\ ProgramTyped
  /\ alloc \subseteq Object /\ marks \subseteq alloc /\ scanned \subseteq Object
  /\ todo \in Seq(Addr) /\ w \in WorkType /\ w.ok

(* Nothing of a cycle is left over.                                        *)
BetweenCycles ==
  /\ Lists(w, {}) /\ w.full = <<>> /\ w.wbuf1 = NOBUF /\ w.wbuf2 = NOBUF
  /\ marks = {} /\ scanned = {} /\ todo = <<>>

(* A marked object is scanned or among the work; what a scan or the stack  *)
(* led to is marked, passes for marked, or is still to be looked at.       *)
Tracked ==
  /\ marks \cap Scannable \subseteq scanned \cup ObjectsIn(Work(w))
  /\ ObjectsIn(Work(w)) \subseteq marks \cap Scannable
  /\ scanned \subseteq marks \cap Scannable
  /\ \A o \in scanned : \A a \in Words[o] :
       word[a] # NULL /\ word[a] \notin ToSet(todo) => Passes(marks, findObject(word[a]))
  /\ \A o \in StackObjects : o \notin ToSet(todo) => Passes(marks, o)

(* Without pointers to the inside of objects, only what is reached is come *)
(* across.                                                                 *)
Confined ==
  /\ ToSet(todo) \subseteq Reachable /\ marks \subseteq Reachable
  /\ Work(w) \subseteq Object

InCycle == Ready(w) /\ Work(w) \subseteq Addr /\ Tracked /\ (NoInterior => Confined)
Finished == Work(w) = {} /\ w.full = <<>> /\ todo = <<>>

IInv ==
  /\ pc \in {"program", "drain", "done", "throw"}
  /\ pc # "throw" => Typed
  /\ pc = "program" => BetweenCycles
  /\ Marking => InCycle
  /\ pc = "done" => Finished

LEMMA InitHolds == Init => IInv
<1>. SUFFICES ASSUME Init PROVE IInv
  OBVIOUS
<1>1. /\ word = [a \in Addr |-> NULL] /\ stack = <<>> /\ alloc = {} /\ marks = {} /\ scanned = {}
      /\ todo = <<>> /\ w = NoWork /\ pc = "program"
  BY DEF Init
<1>2. MaxSpans \in Nat
  BY Bounds
<1>3. w \in WorkType /\ w.ok /\ w.obj = [b \in Buffer |-> <<>>] /\ w.full = <<>> /\ w.empty = <<>>
      /\ w.wbuf1 = NOBUF /\ w.wbuf2 = NOBUF
  BY <1>1, <1>2 DEF NoWork, WorkType, NOBUF
<1>4. Lists(w, {})
  <2>1. <<>> \in Seq(Buffer) /\ <<>> \o <<>> = <<>> /\ IsInjective(<<>>)
    BY DEF IsInjective
  <2>. QED  BY <1>3, <2>1, ToSetEmpty DEF Lists
<1>5. Typed
  BY <1>1, <1>3 DEF Typed, ProgramTyped
<1>6. BetweenCycles
  BY <1>1, <1>3, <1>4 DEF BetweenCycles
<1>. QED  BY <1>1, <1>5, <1>6 DEF IInv, Marking

LEMMA ObjectAtPlace ==
  ASSUME NEW s \in Spans, NEW i \in Nat, i < s.nelems
  PROVE  ObjectAt(s, i) \in Object
<1>. DEFINE k == s.elemsize
            n == s.nelems
            o == s.startaddr + i * k
<1>1. /\ s.startaddr \in Nat /\ k \in Nat \ {0} /\ n \in Nat
      /\ Limit(s) = s.startaddr + k * n /\ Limit(s) \in Nat
  BY SpanTyped
<1>2. i * k \in Nat /\ i * k + k <= k * n /\ k * n \in Nat
  BY <1>1
<1>3. o \in Nat /\ s.startaddr <= o /\ o < Limit(s)
  BY <1>1, <1>2
<1>4. o \in Addr
  <2>1. o \in s.startaddr .. Limit(s) - 1
    BY <1>1, <1>3
  <2>. QED  BY <2>1 DEF Addr
<1>5. SpanOf[o] = s
  BY <1>3, <1>4, SpanOfAddr
<1>6. Index[o] = i
  <2>1. Index[o] = (o - s.startaddr) \div k
    BY <1>4, <1>5, TableIsItself DEF Index
  <2>2. o - s.startaddr = i * k + 0
    BY <1>1, <1>2
  <2>3. (i * k + 0) \div k = i
    BY <1>1, DivisionUnique
  <2>. QED  BY <2>1, <2>2, <2>3
<1>7. BaseOf[o] = o
  BY <1>4, <1>5, <1>6, BaseOfAddr
<1>. QED  BY <1>4, <1>7, Objects DEF ObjectAt

LEMMA RemoveAtTyped ==
  ASSUME NEW S, NEW s \in Seq(S), NEW i \in 1 .. Len(s)
  PROVE  RemoveAt(s, i) \in Seq(S)
<1>1. SubSeq(s, 1, i - 1) \in Seq(S) /\ SubSeq(s, i + 1, Len(s)) \in Seq(S)
  <2>1. /\ 1 \in Int /\ i - 1 \in Int /\ i + 1 \in Int /\ Len(s) \in Int
        /\ \A j \in 1 .. i - 1 : s[j] \in S
        /\ \A j \in i + 1 .. Len(s) : s[j] \in S
    OBVIOUS
  <2>. QED  BY <2>1, SubSeqProperties
<1>. QED  BY <1>1 DEF RemoveAt

(* The program moves pointers to objects only.                             *)
LEMMA ProgramKeeps ==
  ASSUME IInv, Program
  PROVE  IInv'
<1>1. /\ pc = "program" /\ pc' = pc /\ marks' = marks /\ scanned' = scanned /\ todo' = todo /\ w' = w
  BY DEF Program, mallocgc, Forget, Store, Operates
<1>2. Typed /\ BetweenCycles
  BY <1>1 DEF IInv
<1>3. ProgramTyped' /\ (alloc \subseteq alloc' /\ alloc' \subseteq Object)
  <2>1. CASE mallocgc
    <3>1. PICK s \in Spans :
            /\ FreeIndexes(s) # {}
            /\ LET o == ObjectAt(s, Min(FreeIndexes(s)))
                   zeroed == [a \in Addr |-> IF a \in Words[o] THEN NULL ELSE word[a]]
               IN /\ alloc' = alloc \cup {o}
                  /\ \/ Len(stack) < MaxStack /\ stack' = Append(stack, o) /\ word' = zeroed
                     \/ \E a \in Fields : word' = [zeroed EXCEPT ![a] = o] /\ UNCHANGED stack
      BY <2>1 DEF mallocgc
    <3>. DEFINE o == ObjectAt(s, Min(FreeIndexes(s)))
                zeroed == [a \in Addr |-> IF a \in Words[o] THEN NULL ELSE word[a]]
    <3>2. o \in Object
      <4>1. FreeIndexes(s) \in SUBSET Nat /\ \A i \in FreeIndexes(s) : i < s.nelems
        BY SpanTyped DEF FreeIndexes
      <4>2. Min(FreeIndexes(s)) \in FreeIndexes(s)
        BY <3>1, <4>1, NatMin
      <4>. QED  BY <4>1, <4>2, ObjectAtPlace
    <3>3. zeroed \in [Addr -> Addr \cup {NULL}]
      BY <1>2 DEF Typed, ProgramTyped
    <3>4. /\ alloc' = alloc \cup {o}
          /\ \/ stack' = Append(stack, o) /\ word' = zeroed
             \/ \E a \in Fields : word' = [zeroed EXCEPT ![a] = o] /\ stack' = stack
      BY <3>1
    <3>. HIDE DEF o, zeroed
    <3>5. word' \in [Addr -> Addr \cup {NULL}] /\ stack' \in Seq(Object)
      <4>1. stack \in Seq(Object) /\ Append(stack, o) \in Seq(Object)
        BY <1>2, <3>2 DEF Typed, ProgramTyped
      <4>2. \A a : [zeroed EXCEPT ![a] = o] \in [Addr -> Addr \cup {NULL}]
        BY <3>2, <3>3, Objects
      <4>. QED  BY <3>3, <3>4, <4>1, <4>2
    <3>. QED  BY <1>2, <3>2, <3>4, <3>5 DEF Typed, ProgramTyped
  <2>2. CASE Forget
    <3>1. PICK i \in 1 .. Len(stack) :
            stack' = RemoveAt(stack, i) /\ word' = word /\ alloc' = alloc
      BY <2>2 DEF Forget
    <3>. QED  BY <1>2, <3>1, RemoveAtTyped DEF Typed, ProgramTyped
  <2>3. CASE Store
    <3>0. PICK a \in Fields, o \in Reachable : \E p \in Words[o] :
            word' = [word EXCEPT ![a] = p] /\ stack' = stack /\ alloc' = alloc
      BY <2>3 DEF Store
    <3>1. PICK p \in Words[o] :
            word' = [word EXCEPT ![a] = p] /\ stack' = stack /\ alloc' = alloc
      BY <3>0
    <3>2. p \in Addr
      BY ReachableClosed, Objects
    <3>. QED  BY <1>2, <3>1, <3>2 DEF Typed, ProgramTyped
  <2>. QED  BY <2>1, <2>2, <2>3 DEF Program
<1>4. Typed'
  BY <1>1, <1>2, <1>3 DEF Typed
<1>5. BetweenCycles'
  BY <1>1, <1>2 DEF BetweenCycles
<1>. QED  BY <1>1, <1>4, <1>5 DEF IInv, Marking

LEMMA SweepKeeps ==
  ASSUME IInv, Sweep
  PROVE  IInv'
<1>1. /\ pc = "done" /\ pc' = "program" /\ alloc' = alloc \cap marks /\ marks' = {} /\ scanned' = {}
      /\ w' = [w EXCEPT !.wbuf1 = NOBUF, !.wbuf2 = NOBUF]
      /\ word' = word /\ stack' = stack /\ todo' = todo
  BY DEF Sweep
<1>2. Typed /\ InCycle /\ Finished
  BY <1>1 DEF IInv, Marking
<1>3. w \in WorkType
  BY <1>2 DEF Typed
<1>4. /\ w' \in WorkType /\ w'.obj = w.obj /\ w'.empty = w.empty /\ w'.full = w.full
      /\ w'.nspans = w.nspans /\ w'.ok = w.ok /\ w'.wbuf1 = NOBUF /\ w'.wbuf2 = NOBUF
  <2>1. NOBUF \in Nat
    BY DEF NOBUF
  <2>. QED  BY <1>1, <1>3, <2>1 DEF WorkType
<1>5. Lists(w, {})
  BY <1>2 DEF InCycle, Ready, Lists
<1>6. Lists(w, {})'
  BY <1>4, <1>5 DEF Lists, Cut
<1>7. Typed'
  BY <1>1, <1>2, <1>4 DEF Typed, ProgramTyped
<1>8. BetweenCycles'
  BY <1>1, <1>2, <1>4, <1>6 DEF BetweenCycles, Finished
<1>. QED  BY <1>1, <1>7, <1>8 DEF IInv, Marking

LEMMA StackIsObjects ==
  ASSUME ProgramTyped
  PROVE  StackScan = stack /\ ToSet(stack) = StackObjects /\ stack \in Seq(Addr)
<1>1. stack \in Seq(Object) /\ Len(stack) \in Nat /\ DOMAIN stack = 1 .. Len(stack)
  BY DEF ProgramTyped
<1>2. \A i \in DOMAIN stack : stack[i] \in Object /\ findObject(stack[i]) = stack[i]
  BY <1>1, Objects
<1>3. StackScan = stack
  <2>1. StackScan = [i \in DOMAIN stack |-> stack[i]]
    BY <1>2 DEF StackScan
  <2>. QED  BY <1>1, <2>1
<1>4. \A o : o \in ToSet(stack) <=> o \in StackObjects
  BY <1>1, <1>2, Objects, ObjectsInTyped, ToSetSeq DEF StackObjects
<1>5. stack \in Seq(Addr)
  BY <1>1, Objects
<1>. QED  BY <1>3, <1>4, <1>5

LEMMA gcStartKeeps ==
  ASSUME IInv, gcStart
  PROVE  IInv'
<1>1. /\ pc = "program" /\ w' = gcwork_init(w) /\ pc' = IF w'.ok THEN "drain" ELSE "throw"
      /\ todo' = StackScan
      /\ word' = word /\ stack' = stack /\ alloc' = alloc /\ marks' = marks /\ scanned' = scanned
  BY DEF gcStart
<1>2. Typed /\ BetweenCycles
  BY <1>1 DEF IInv
<1>3. CASE ~w'.ok
  BY <1>1, <1>3 DEF IInv, Marking
<1>4. CASE w'.ok
  <2>1. pc' = "drain"
    BY <1>1, <1>4
  <2>2. Ready(w') /\ Work(w') = {}
    BY <1>1, <1>2, <1>4, InitWorks DEF Typed, BetweenCycles
  <2>3. todo' = stack /\ ToSet(stack) = StackObjects /\ stack \in Seq(Addr)
    BY <1>1, <1>2, StackIsObjects DEF Typed
  <2>4. Typed'
    BY <1>1, <1>2, <1>4, <2>2, <2>3 DEF Typed, ProgramTyped, Ready
  <2>5. ObjectsIn(Work(w')) = {}
    BY <2>2 DEF ObjectsIn
  <2>6. StackObjects' = StackObjects /\ Reachable' = Reachable
    BY <1>1, ReachableSame DEF StackObjects
  <2>7. Tracked'
    BY <1>1, <1>2, <2>3, <2>5, <2>6 DEF Tracked, BetweenCycles
  <2>8. Confined'
    BY <1>1, <1>2, <2>2, <2>3, <2>6, ReachableClosed DEF Confined, BetweenCycles
  <2>. QED  BY <2>1, <2>2, <2>4, <2>7, <2>8 DEF IInv, Marking, InCycle
<1>. QED  BY <1>3, <1>4

(* Head(todo) is looked at: its object, if not marked, is marked and       *)
(* queued, else it passes for marked already.                              *)
LEMMA greyobjectKeeps ==
  ASSUME IInv, greyobject
  PROVE  IInv'
<1>. DEFINE p == Head(todo)
            o == findObject(p)
            marking == o \in alloc /\ ~MarkedAlready(o)
<1>1. /\ pc = "drain" /\ todo # <<>> /\ todo' = Tail(todo)
      /\ marks' = IF marking THEN marks \cup {o} ELSE marks
      /\ w' = IF marking /\ o \in Scannable THEN gcwork_put(w, p) ELSE w
      /\ pc' = IF o \in alloc /\ w'.ok THEN "drain" ELSE "throw"
      /\ word' = word /\ stack' = stack /\ alloc' = alloc /\ scanned' = scanned
  BY DEF greyobject
<1>2. Typed /\ InCycle
  BY <1>1 DEF IInv, Marking
<1>3. CASE ~(o \in alloc /\ w'.ok)
  BY <1>1, <1>3 DEF IInv, Marking
<1>4. CASE o \in alloc /\ w'.ok
  <2>1. pc' = "drain"
    BY <1>1, <1>4
  <2>2. p \in Addr /\ todo' \in Seq(Addr) /\ ToSet(todo) = {p} \cup ToSet(todo')
    BY <1>1, <1>2, HeadOfList DEF Typed
  <2>3. o \in Object /\ o # NULL
    BY <2>2, Objects
  <2>. HIDE DEF p, o
  <2>4. /\ Ready(w')
        /\ Work(w') = Work(w) \cup IF marking /\ o \in Scannable THEN {p} ELSE {}
    BY <1>1, <1>2, <1>4, <2>2, PutReady DEF Typed, InCycle
  <2>5. ObjectsIn(Work(w')) = ObjectsIn(Work(w)) \cup IF marking /\ o \in Scannable THEN {o} ELSE {}
    BY <2>3, <2>4 DEF ObjectsIn, o
  <2>6. marks \subseteq marks' /\ Passes(marks', o)
    BY <1>1, <1>4 DEF Passes, MarkedAlready
  <2>7. \A q : Passes(marks, q) => Passes(marks', q)
    BY <2>6 DEF Passes
  <2>8. Typed'
    BY <1>1, <1>2, <1>4, <2>2, <2>3, <2>4 DEF Typed, ProgramTyped, Ready
  <2>9. StackObjects' = StackObjects /\ Reachable' = Reachable /\ NoInterior' = NoInterior
    BY <1>1, ReachableSame DEF StackObjects, NoInterior
  <2>10. \A a : word[a] \in ToSet(todo) /\ word[a] \notin ToSet(todo') => findObject(word[a]) = o
    BY <2>2 DEF o
  <2>11. Tracked'
    <3>1. /\ marks' \cap Scannable \subseteq scanned' \cup ObjectsIn(Work(w'))
          /\ ObjectsIn(Work(w')) \subseteq marks' \cap Scannable
          /\ scanned' \subseteq marks' \cap Scannable
      BY <1>1, <1>2, <2>5, <2>6 DEF InCycle, Tracked
    <3>2. ASSUME NEW x \in scanned', NEW a \in Words[x], word[a] # NULL, word[a] \notin ToSet(todo')
          PROVE  Passes(marks', findObject(word[a]))
      <4>1. CASE word[a] \in ToSet(todo)
        BY <2>6, <2>10, <3>2, <4>1
      <4>2. CASE word[a] \notin ToSet(todo)
        BY <1>1, <1>2, <2>7, <3>2, <4>2 DEF InCycle, Tracked
      <4>. QED  BY <4>1, <4>2
    <3>3. ASSUME NEW x \in StackObjects, x \notin ToSet(todo')
          PROVE  Passes(marks', x)
      <4>1. CASE x = p
        <5>1. x \in Object
          BY ObjectsInTyped DEF StackObjects
        <5>2. x = o
          BY <4>1, <5>1, Objects DEF o
        <5>. QED  BY <2>6, <5>2
      <4>2. CASE x # p
        BY <1>2, <2>2, <2>7, <3>3, <4>2 DEF InCycle, Tracked
      <4>. QED  BY <4>1, <4>2
    <3>. QED  BY <1>1, <2>9, <3>1, <3>2, <3>3 DEF Tracked
  <2>12. NoInterior => Confined'
    <3>. SUFFICES ASSUME NoInterior PROVE Confined'
      OBVIOUS
    <3>1. Confined
      BY <1>2 DEF InCycle
    <3>2. p \in Reachable
      BY <2>2, <3>1 DEF Confined
    <3>3. p \in Object
      BY <3>2, ReachableClosed
    <3>4. o = p
      BY <3>3, Objects DEF o
    <3>. QED  BY <1>1, <2>2, <2>4, <2>9, <3>1, <3>2, <3>3, <3>4 DEF Confined
  <2>13. Work(w') \subseteq Addr
    BY <1>2, <2>2, <2>4 DEF InCycle
  <2>. QED  BY <2>1, <2>4, <2>8, <2>9, <2>11, <2>12, <2>13 DEF IInv, Marking, InCycle
<1>. QED  BY <1>3, <1>4

(* gcDrain finds no work, or scans the object of the pointer it takes.     *)
LEMMA gcDrainKeeps ==
  ASSUME IInv, gcDrain
  PROVE  IInv'
<1>. DEFINE g == gcwork_tryGet(w)
            l == g.obj[g.wbuf1]
            p == Last(l)
            o == BaseOf[p]
<1>1. /\ pc = "drain" /\ todo = <<>>
      /\ word' = word /\ stack' = stack /\ alloc' = alloc /\ marks' = marks
  BY DEF gcDrain
<1>2. Typed /\ InCycle
  BY <1>1 DEF IInv, Marking
<1>3. /\ Ready(g) /\ g.ok /\ Work(g) = Work(w)
      /\ IsEmpty(g, g.wbuf1) => Work(g) = {} /\ g.full = <<>>
  BY <1>2, TryGetReady DEF Typed, InCycle
<1>4. StackObjects' = StackObjects /\ Reachable' = Reachable /\ NoInterior' = NoInterior
  BY <1>1, ReachableSame DEF StackObjects, NoInterior
<1>5. CASE IsEmpty(g, g.wbuf1)
  <2>1. w' = g /\ pc' = "done" /\ todo' = todo /\ scanned' = scanned
    BY <1>5 DEF gcDrain
  <2>. HIDE DEF g
  <2>2. Work(w') = Work(w) /\ Work(w') = {} /\ w'.full = <<>> /\ Ready(w') /\ w'.ok
    BY <1>3, <1>5, <2>1
  <2>3. Typed'
    BY <1>1, <1>2, <2>1, <2>2 DEF Typed, ProgramTyped, Ready
  <2>4. Tracked'
    BY <1>1, <1>2, <1>4, <2>1, <2>2 DEF InCycle, Tracked
  <2>5. NoInterior => Confined'
    BY <1>1, <1>2, <1>4, <2>1, <2>2 DEF InCycle, Confined
  <2>6. Finished'
    BY <1>1, <2>1, <2>2 DEF Finished
  <2>. QED  BY <1>2, <1>4, <2>1, <2>2, <2>3, <2>4, <2>5, <2>6 DEF IInv, Marking, InCycle
<1>6. CASE ~IsEmpty(g, g.wbuf1)
  <2>1. /\ w' = [g EXCEPT !.obj[g.wbuf1] = Front(l)]
        /\ todo' = Pointers(ScanRange(p)) /\ scanned' = scanned \cup {o}
        /\ pc' = "drain"
    BY <1>3, <1>6 DEF gcDrain
  <2>2. l \in Seq(Addr) /\ l # <<>>
    BY <1>3, <1>6, HeldTyped DEF IsEmpty
  <2>3. /\ p \in Addr /\ Front(l) \in Seq(Addr) /\ Len(Front(l)) = Len(l) - 1
        /\ ToSet(l) = ToSet(Front(l)) \cup {p}
    <3>. HIDE DEF l
    <3>. QED  BY <2>2, LastOfList
  <2>4. Ready(w') /\ w'.ok = g.ok /\ Work(g) = Work(w') \cup {p}
    <3>. DEFINE b == g.wbuf1
                q == Front(l)
    <3>1. g \in WorkType /\ b \in Buffer
      BY <1>3, HeldTyped DEF Ready
    <3>2. q \in Seq(Addr) /\ w' = [g EXCEPT !.obj[b] = q]
      BY <2>1, <2>3
    <3>. HIDE DEF p, q, g
    <3>3. /\ w' \in WorkType /\ w'.obj = [g.obj EXCEPT ![b] = q] /\ w'.full = g.full
          /\ w'.empty = g.empty /\ w'.nspans = g.nspans
          /\ w'.wbuf1 = g.wbuf1 /\ w'.wbuf2 = g.wbuf2 /\ w'.ok = g.ok
      BY <3>1, <3>2 DEF WorkType
    <3>4. Len(q) = Len(g.obj[g.wbuf1]) - 1 /\ ToSet(g.obj[g.wbuf1]) = ToSet(q) \cup {p}
      BY <2>3 DEF q
    <3>5. w'.obj[g.wbuf1] = q /\ \A c \in Buffer : c # g.wbuf1 => w'.obj[c] = g.obj[c]
      BY <3>1, <3>3, WorkTyped
    <3>6. /\ w' \in WorkType /\ w'.full = g.full /\ w'.empty = g.empty /\ w'.nspans = g.nspans
          /\ w'.wbuf1 = g.wbuf1 /\ w'.wbuf2 = g.wbuf2 /\ w'.ok = g.ok
      BY <3>3
    <3>7. p \in Addr /\ q \in Seq(Addr)
      BY <2>3, <3>2
    <3>. QED  BY <1>3, <3>4, <3>5, <3>6, <3>7, PopReady
  <2>. HIDE DEF g, l, p
  <2>5. /\ o \in Object /\ findObject(p) = o /\ o # NULL
    BY <2>3, Objects
  <2>6. ObjectsIn(Work(w)) = ObjectsIn(Work(w')) \cup {o}
    BY <1>3, <2>4, <2>5 DEF ObjectsIn
  <2>. DEFINE s == ScanRange(p)
  <2>7. /\ s \in Seq(Addr \cup {NULL})
        /\ \A a \in Words[o] : word[a] \in ToSet(s)
        /\ p \in Object => ToSet(s) \subseteq {word[a] : a \in Words[p]}
    BY <1>2, <2>3, ScanRangeOf DEF Typed
  <2>. HIDE DEF s, o
  <2>8. todo' \in Seq(Addr) /\ ToSet(todo') = ToSet(s) \cap Addr
    BY <2>1, <2>7, PointersOf DEF s
  <2>9. Typed'
    BY <1>1, <1>2, <1>3, <2>1, <2>4, <2>5, <2>8 DEF Typed, ProgramTyped, Ready
  <2>10. o \in marks \cap Scannable
    BY <1>2, <2>6 DEF InCycle, Tracked
  <2>11. Tracked'
    <3>1. /\ marks' \cap Scannable \subseteq scanned' \cup ObjectsIn(Work(w'))
          /\ ObjectsIn(Work(w')) \subseteq marks' \cap Scannable
          /\ scanned' \subseteq marks' \cap Scannable
      BY <1>1, <1>2, <2>1, <2>6, <2>10 DEF InCycle, Tracked
    <3>2. ToSet(todo) = {}
      BY <1>1, ToSetEmpty
    <3>3. ASSUME NEW x \in scanned', NEW a \in Words[x], word[a] # NULL, word[a] \notin ToSet(todo')
          PROVE  Passes(marks', findObject(word[a]))
      <4>1. CASE x = o
        <5>1. a \in Addr
          BY <2>5, <4>1, Objects
        <5>2. word[a] \in Addr /\ word[a] \in ToSet(s)
          BY <1>2, <2>7, <3>3, <4>1, <5>1 DEF Typed, ProgramTyped
        <5>. QED  BY <2>8, <3>3, <5>2
      <4>2. CASE x # o
        BY <1>1, <1>2, <2>1, <3>2, <3>3, <4>2 DEF InCycle, Tracked
      <4>. QED  BY <4>1, <4>2
    <3>4. \A x \in StackObjects : Passes(marks, x)
      BY <1>2, <3>2 DEF InCycle, Tracked
    <3>. QED  BY <1>1, <1>4, <3>1, <3>3, <3>4 DEF Tracked
  <2>12. NoInterior => Confined'
    <3>. SUFFICES ASSUME NoInterior PROVE Confined'
      OBVIOUS
    <3>1. Confined
      BY <1>2 DEF InCycle
    <3>2. p \in Object /\ o = p
      BY <1>3, <2>4, <3>1, Objects DEF Confined, o
    <3>3. p \in Reachable \cap Scannable
      BY <2>10, <3>1, <3>2 DEF Confined
    <3>4. ToSet(todo') \subseteq Reachable
      <4>. SUFFICES ASSUME NEW x \in ToSet(todo') PROVE x \in Reachable
        OBVIOUS
      <4>1. PICK a \in Words[p] : x = word[a]
        BY <2>7, <2>8, <3>2
      <4>2. x \in Addr /\ x \in Object \cup {NULL}
        BY <2>8, <3>3, <4>1 DEF NoInterior
      <4>3. x \in Object /\ findObject(x) = x
        BY <4>2, Objects
      <4>4. x \in Links(p)
        BY <3>3, <4>1, <4>3, Objects DEF Links, ObjectsIn
      <4>. QED  BY <3>3, <4>4, ReachableClosed
    <3>. QED  BY <1>1, <1>3, <1>4, <2>4, <3>1, <3>4 DEF Confined
  <2>13. Work(w') \subseteq Addr
    BY <1>2, <1>3, <2>4 DEF InCycle
  <2>. QED  BY <2>1, <2>4, <2>9, <1>4, <2>11, <2>12, <2>13 DEF IInv, Marking, InCycle
<1>. QED  BY <1>5, <1>6

LEMMA Idle ==
  ASSUME IInv, UNCHANGED vars
  PROVE  IInv'
<1>1. /\ word' = word /\ stack' = stack /\ alloc' = alloc /\ marks' = marks /\ scanned' = scanned
      /\ todo' = todo /\ w' = w /\ pc' = pc
  BY DEF vars
<1>2. StackObjects' = StackObjects /\ Reachable' = Reachable /\ NoInterior' = NoInterior
  BY <1>1, ReachableSame DEF StackObjects, NoInterior
<1>3. /\ Typed' = Typed /\ BetweenCycles' = BetweenCycles /\ Tracked' = Tracked
      /\ Confined' = Confined /\ Finished' = Finished
  BY <1>1, <1>2 DEF Typed, ProgramTyped, BetweenCycles, Tracked, Confined, Finished
<1>4. InCycle' = InCycle
  BY <1>1, <1>2, <1>3 DEF InCycle
<1>. QED  BY <1>1, <1>3, <1>4 DEF IInv, Marking

THEOREM Invariant == Spec => []IInv
<1>1. Init => IInv
  BY InitHolds
<1>2. IInv /\ [Next]_vars => IInv'
  BY ProgramKeeps, SweepKeeps, gcStartKeeps, greyobjectKeeps, gcDrainKeeps, Idle
     DEF Next, Collector
<1>. QED  BY <1>1, <1>2, PTL DEF Spec

(***************************************************************************)
(* What the runs check.                                                    *)
(***************************************************************************)
LEMMA QueuedIsWork ==
  ASSUME IInv, pc # "throw"
  PROVE  Queued = IF Marking THEN Work(w) ELSE {}
<1>1. CASE Marking
  <2>1. Ready(w)
    BY <1>1 DEF IInv, InCycle
  <2>2. w.wbuf1 # NOBUF /\ w.wbuf2 # NOBUF
    BY <2>1, HeldTyped, Bounds DEF Buffer, NOBUF
  <2>3. Mine = Held(w)
    BY <2>2 DEF Mine, Held
  <2>. QED  BY <1>1, <2>3 DEF Queued, Work, WorkIn
<1>2. CASE ~Marking
  <2>1. BetweenCycles
    BY <1>2 DEF IInv, Marking
  <2>2. Mine \cup ToSet(w.full) = {}
    BY <2>1, ToSetEmpty DEF Mine, BetweenCycles
  <2>. QED  BY <1>2, <2>2 DEF Queued
<1>. QED  BY <1>1, <1>2

(* The work buffers are exact: none is on two lists or on a list and in    *)
(* the collector's hands, full and empty ones are on their list, and no    *)
(* work is left over at the end of a cycle, for any number of buffers of   *)
(* any capacity (gc_work.c).                                               *)
THEOREM BuffersAreExact == Spec => []BuffersExact
<1>1. IInv => BuffersExact
  <2>. SUFFICES ASSUME IInv, pc # "throw"
                PROVE  /\ IsInjective(w.empty \o w.full)
                       /\ Mine \cap ToSet(w.empty \o w.full) = {}
                       /\ Marking => Cardinality(Mine) = 2
                       /\ \A b \in ToSet(w.empty) : w.obj[b] = <<>>
                       /\ \A b \in ToSet(w.full)  : Len(w.obj[b]) = Capacity
                       /\ \A b \in Mine : Len(w.obj[b]) <= Capacity
                       /\ pc \in {"program", "done"} => Queued = {} /\ w.full = <<>>
    BY DEF BuffersExact
  <2>1. CASE Marking
    <3>1. Ready(w) /\ (pc = "done" => Finished)
      BY <2>1 DEF IInv, InCycle
    <3>2. Mine = {w.wbuf1, w.wbuf2} /\ w.wbuf1 # w.wbuf2
      <4>1. w.wbuf1 # NOBUF /\ w.wbuf2 # NOBUF
        BY <3>1, HeldTyped, Bounds DEF Buffer, NOBUF
      <4>. QED  BY <3>1, <4>1 DEF Mine, Ready
    <3>3. Cardinality(Mine) = 2
      <4>1. IsFiniteSet({w.wbuf1}) /\ Cardinality({w.wbuf1}) = 1
        BY FS_Singleton
      <4>2. Cardinality({w.wbuf1} \cup {w.wbuf2}) = 2
        BY <3>2, <4>1, FS_AddElement
      <4>3. Mine = {w.wbuf1} \cup {w.wbuf2}
        BY <3>2
      <4>. QED  BY <4>2, <4>3
    <3>4. Lists(w, Mine)
      BY <3>1, <3>2 DEF Ready, Held
    <3>5. pc \in {"program", "done"} => Queued = {} /\ w.full = <<>>
      BY <2>1, <3>1, QueuedIsWork DEF Marking, Finished
    <3>. QED  BY <3>3, <3>4, <3>5 DEF Lists
  <2>2. CASE ~Marking
    <3>1. BetweenCycles
      BY <2>2 DEF IInv, Marking
    <3>2. Mine = {}
      BY <3>1 DEF Mine, BetweenCycles
    <3>. QED  BY <2>2, <3>1, <3>2, QueuedIsWork DEF BetweenCycles, Lists
  <2>. QED  BY <2>1, <2>2
<1>. QED  BY <1>1, Invariant, PTL

(* gcDrain forgets no marked object, and all that a scanned object points  *)
(* to is marked or passes for marked (drain.c, scanstack.c).               *)
THEOREM MarkedAreScanned == Spec => []MarkedScanned
<1>1. IInv => MarkedScanned
  <2>. SUFFICES ASSUME IInv, Marking PROVE MarkedScanned
    BY DEF MarkedScanned
  <2>1. Typed /\ Tracked /\ Queued = Work(w)
    BY QueuedIsWork DEF IInv, InCycle, Marking
  <2>. QED  BY <2>1 DEF MarkedScanned, Tracked, Passes
<1>. QED  BY <1>1, Invariant, PTL

(* When gcDrain is done, the mark bits are exactly what the program        *)
(* reaches if greyobject's test of a mark byte is right for the program,   *)
(* and nothing it reaches is missed if each is the first of its byte, even *)
(* with pointers to the inside of objects.                                 *)
THEOREM DrainIsExact == Spec => []DrainExact
<1>1. IInv => DrainExact
  <2>. SUFFICES ASSUME IInv, pc = "done"
                PROVE  /\ Sparse /\ NoInterior => marks = Reachable
                       /\ FirstsOnly => Reachable \subseteq marks
    BY DEF DrainExact
  <2>1. Typed /\ InCycle /\ Finished
    BY DEF IInv, Marking
  <2>2. ToSet(todo) = {} /\ ObjectsIn(Work(w)) = {}
    BY <2>1, ToSetEmpty DEF Finished, ObjectsIn
  <2>3. ASSUME \A o \in Reachable : Passes(marks, o) => o \in marks
        PROVE  Reachable \subseteq marks
    <3>. DEFINE X == marks \cap Reachable
    <3>1. StackObjects \subseteq X
      BY <2>1, <2>2, <2>3, ReachableClosed DEF InCycle, Tracked
    <3>2. ASSUME NEW o \in X \cap Object
          PROVE  Links(o) \subseteq X
      <4>. SUFFICES ASSUME NEW q \in Links(o), q # o PROVE q \in X
        BY <3>2
      <4>1. q \in Reachable
        BY <3>2, ReachableClosed
      <4>2. o \in Scannable /\ q \in ObjectsIn({word[a] : a \in Words[o]})
        BY DEF Links
      <4>3. PICK a \in Words[o] : q = findObject(word[a]) /\ q # NULL
        BY <4>2, ObjectsInTyped
      <4>4. word[a] # NULL
        BY <4>3, Objects
      <4>5. o \in scanned
        BY <2>1, <2>2, <4>2 DEF InCycle, Tracked
      <4>6. Passes(marks, q)
        BY <2>1, <2>2, <4>3, <4>4, <4>5 DEF InCycle, Tracked
      <4>. QED  BY <2>3, <4>1, <4>6
    <3>. HIDE DEF X
    <3>3. Reachable \subseteq X
      BY <3>1, <3>2, ReachableLeast
    <3>. QED  BY <3>3 DEF X
  <2>4. FirstsOnly => Reachable \subseteq marks
    BY <2>3 DEF FirstsOnly, Passes
  <2>5. ASSUME Sparse, NoInterior PROVE marks = Reachable
    <3>1. marks \subseteq Reachable
      BY <2>1, <2>5 DEF InCycle, Confined
    <3>2. \A o \in Reachable : Passes(marks, o) => o \in marks
      BY <2>5, <3>1 DEF Sparse, Passes
    <3>. QED  BY <2>3, <3>1, <3>2
  <2>. QED  BY <2>4, <2>5
<1>. QED  BY <1>1, Invariant, PTL
=============================================================================
