--------------------------- MODULE MarkSweepProofs ---------------------------
(***************************************************************************)
(* Proofs about the mark-sweep collector under a client with pointers to   *)
(* the start of its objects, which divide the heap and never fill it       *)
(* (SlackClient): for heaps, objects and sets of roots of any size a       *)
(* collection keeps exactly what the roots reach, in a heap whose blocks   *)
(* and free list agree.                                                    *)
(***************************************************************************)
EXTENDS MarkSweep, GcHeapProofs

(* The objects are the blocks A of heap h: of the one size there is,       *)
(* flagged, and something else is free.                                    *)
Objects(h, A) ==
    /\ h \in HeapRecords
    /\ A \in SUBSET Addr
    /\ Flagged(h.hdr) = A
    /\ \A b \in A : h.hdr[b].size = ObjSize
    /\ \E N, B \in SUBSET Addr :
          /\ Well(h, N, B, ObjSize)
          /\ h.heaps # <<>> => N # {}
          /\ B \ N = A

(* The words of an object and the pointers to objects.                     *)
Words(b) == b + 1 .. (b + ObjSize) - 1
Starts(A) == {b + 1 : b \in A}

(* Objects are apart, and in the memory.                                   *)
Apart(A) ==
    /\ A \in SUBSET Addr
    /\ \A b \in A : b + ObjSize <= MaxAddr + 1
    /\ \A b, c \in A : b < c => b + ObjSize <= c

(* The words outside objects are clear and no word dangles.                *)
Pointing(w, A) ==
    /\ w \in [Addr -> Addr \cup {NULL}]
    /\ \A a \in Addr : w[a] # NULL => w[a] \in Starts(A) /\ \E b \in A : a \in Words(b)

Held(rs, l, A) ==
    /\ rs \in Seq(Starts(A)) /\ Len(rs) <= MaxRoots
    /\ l \in Starts(A) \cup {NULL}

(* The inductive invariant.                                                *)
Sane(h, w, rs, l) == \E A \in SUBSET Addr : Objects(h, A) /\ Pointing(w, A) /\ Held(rs, l, A)
IInv == Sane(heap, word, roots, local)

LEMMA ObjectSize ==
  ObjSize \in Nat /\ ObjSize > 1 /\ ObjSize \in Nat \ {0} /\ MaxRoots \in Nat /\ Reserve \in Nat
BY MarkSweepAssumption

(* Two walks that start alike and step alike.                              *)
InStep(f, g, N) == f[0] = g[0] /\ \A k \in 1 .. N : f[k - 1] = g[k - 1] => f[k] = g[k]

LEMMA SameWalk ==
  ASSUME NEW N \in Nat, NEW f, NEW g, InStep(f, g, N)
  PROVE  \A k \in 0 .. N : f[k] = g[k]
<1>. DEFINE S == {k \in Nat : k <= N => f[k] = g[k]}
<1>1. 0 \in S
  BY DEF InStep
<1>2. ASSUME NEW k \in Nat, k \in S  PROVE k + 1 \in S
  <2>. SUFFICES ASSUME k + 1 <= N  PROVE f[k + 1] = g[k + 1]
    BY DEF S
  <2>1. k + 1 \in 1 .. N /\ (k + 1) - 1 = k /\ f[k] = g[k]
    BY <1>2
  <2>. QED  BY <2>1 DEF InStep
<1>. HIDE DEF S
<1>3. Nat \subseteq S
  BY <1>1, <1>2, NatSetInduction
<1>. QED  BY <1>3 DEF S

(***************************************************************************)
(* The objects of a heap.                                                  *)
(***************************************************************************)
LEMMA ObjectsApart ==
  ASSUME NEW h, NEW A, Objects(h, A)
  PROVE  Apart(A)
<1>1. PICK N, B \in SUBSET Addr : Well(h, N, B, ObjSize) /\ B \ N = A
  BY DEF Objects
<1>2. HeapsOK(h.heaps) /\ Tiles(B, Sizes(h.hdr), h.heaps, ObjSize)
  BY <1>1 DEF Well, Good
<1>3. \A b \in A : b \in B /\ Sizes(h.hdr)[b] = ObjSize
  BY <1>1 DEF Objects, Sizes
<1>4. \A b \in A : b + ObjSize <= MaxAddr + 1
  <2>. TAKE b \in A
  <2>1. b \in B /\ Sizes(h.hdr)[b] = ObjSize
    BY <1>3
  <2>2. b + Sizes(h.hdr)[b] <= MaxAddr + 1
    BY <1>2, <2>1, TileEnds
  <2>. QED  BY <2>1, <2>2
<1>5. \A b, c \in A : b < c => b + ObjSize <= c
  BY <1>2, <1>3 DEF Tiles
<1>. QED  BY <1>4, <1>5 DEF Apart, Objects

(* A word belongs to one object.                                           *)
LEMMA WordsApart ==
  ASSUME NEW A, Apart(A)
  PROVE  /\ \A b \in A : b \in Nat /\ b + 1 \in Words(b) /\ Words(b) \subseteq Addr
         /\ \A b, c \in A : Words(b) \cap Words(c) # {} => b = c
         /\ \A b \in A : b + 1 \in Addr /\ b + 1 # NULL
<1>1. \A b \in A : b \in Nat /\ b >= 1
  BY Constants DEF Apart, Addr
<1>2. \A b \in A : b + 1 \in Words(b)
  BY <1>1, ObjectSize DEF Words
<1>3. \A b \in A : Words(b) \subseteq Addr
  BY <1>1, ObjectSize, Constants DEF Apart, Words, Addr
<1>4. ASSUME NEW b \in A, NEW c \in A, NEW a \in Words(b), a \in Words(c)  PROVE b = c
  <2>1. b < a /\ a < b + ObjSize /\ c < a /\ a < c + ObjSize /\ a \in Int
    BY <1>1, <1>4, ObjectSize DEF Words
  <2>2. b < c => b + ObjSize <= c
    BY DEF Apart
  <2>3. c < b => c + ObjSize <= b
    BY DEF Apart
  <2>. QED  BY <1>1, <2>1, <2>2, <2>3, ObjectSize
<1>5. \A b \in A : b + 1 \in Addr /\ b + 1 # NULL
  BY <1>2, <1>3, Constants
<1>. QED  BY <1>1, <1>2, <1>3, <1>4, <1>5

(* is_pointer_to_heap and get_header find the object of a word.            *)
Finds(at, A) ==
    /\ \A b \in A : \A a \in Words(b) : at[a] = b
    /\ \A a \in NULL .. MaxAddr : at[a] # NULL => at[a] \in A /\ a \in Words(at[a])

LEMMA TargetFinds ==
  ASSUME NEW h, NEW A, Objects(h, A)
  PROVE  /\ Allocated(h) = A
         /\ \A b \in A : Body(h, b) = Words(b) /\ NEXT_HEADER(h, b) = b + ObjSize
         /\ Finds(Target(h), A)
         /\ Target(h) = [a \in NULL .. MaxAddr |-> Target(h)[a]]
<1>1. PICK N, B \in SUBSET Addr : Well(h, N, B, ObjSize) /\ B \ N = A
  BY DEF Objects
<1>2. /\ h.hdr \in [Addr -> Header] /\ HeapsOK(h.heaps)
      /\ Tiles(B, Sizes(h.hdr), h.heaps, ObjSize)
  BY <1>1 DEF Well, Good
<1>3. Blocks(h) = B
  BY <1>2, BlocksOf
<1>4. Allocated(h) = A
  <2>1. \A b \in B : b \in A <=> h.hdr[b].flags # {}
    BY DEF Objects, Flagged
  <2>2. \A b \in B : h.hdr[b].flags # {} <=> "ALLOC" \in h.hdr[b].flags
    <3>. TAKE b \in B
    <3>1. h.hdr[b].flags \in SUBSET {"ALLOC"}
      BY <1>2, HeaderTyped
    <3>. QED  BY <3>1
  <2>3. A \subseteq B
    BY <1>1
  <2>. QED  BY <1>3, <2>1, <2>2, <2>3 DEF Allocated
<1>5. \A b \in A : Body(h, b) = Words(b) /\ NEXT_HEADER(h, b) = b + ObjSize
  <2>1. \A b \in A : h.hdr[b].size = ObjSize
    BY DEF Objects
  <2>. TAKE b \in A
  <2>2. NEXT_HEADER(h, b) = b + ObjSize
    BY <2>1 DEF NEXT_HEADER
  <2>3. Body(h, b) = Words(b)
    BY <2>2, Zenon DEF Body, Words, HEADER_SIZE
  <2>. QED  BY <2>2, <2>3
<1>6. Target(h) = [a \in NULL .. MaxAddr |->
                     LET C == {b \in A : a \in Words(b)}
                     IN IF C = {} THEN NULL ELSE CHOOSE b \in C : TRUE]
  <2>1. \A a : {b \in A : a \in Body(h, b)} = {b \in A : a \in Words(b)}
    BY <1>5
  <2>2. Target(h) = [a \in NULL .. MaxAddr |->
                       LET C == {b \in A : a \in Body(h, b)}
                       IN IF C = {} THEN NULL ELSE CHOOSE b \in C : TRUE]
    BY <1>4 DEF Target
  <2>. QED  BY <2>1, <2>2, Zenon
<1>. DEFINE at == Target(h)
<1>7. \A a \in NULL .. MaxAddr :
         /\ {b \in A : a \in Words(b)} = {} => at[a] = NULL
         /\ {b \in A : a \in Words(b)} # {} => at[a] \in {b \in A : a \in Words(b)}
  BY <1>6
<1>8. Apart(A)
  BY ObjectsApart
<1>. HIDE DEF at
<1>9. ASSUME NEW b \in A, NEW a \in Words(b)  PROVE at[a] = b
  <2>1. a \in NULL .. MaxAddr
    BY <1>8, WordsApart, Constants DEF Addr
  <2>2. at[a] \in A /\ a \in Words(at[a])
    BY <1>7, <2>1
  <2>. QED  BY <1>8, <2>2, WordsApart
<1>10. Finds(at, A)
  BY <1>7, <1>9 DEF Finds
<1>. QED  BY <1>4, <1>5, <1>6, <1>10 DEF at

(***************************************************************************)
(* What the roots reach.                                                   *)
(***************************************************************************)
(* A set of objects that holds those of the pointers P and, with an        *)
(* object, those its words point to; and the least one.                    *)
Closes(R, w, at, P, A) ==
    /\ R \in SUBSET A
    /\ \A p \in P : at[p] # NULL => at[p] \in R
    /\ \A b \in R : \A a \in Words(b) : at[w[a]] # NULL => at[w[a]] \in R

Least(R, w, at, P, A) ==
    /\ Closes(R, w, at, P, A)
    /\ \A X \in SUBSET A : Closes(X, w, at, P, A) => R \subseteq X

LEMMA LeastIsOne ==
  ASSUME NEW w, NEW at, NEW P, NEW A, NEW R, NEW Q,
         Least(R, w, at, P, A), Least(Q, w, at, P, A)
  PROVE  R = Q
<1>1. R \in SUBSET A /\ Q \in SUBSET A /\ Closes(R, w, at, P, A) /\ Closes(Q, w, at, P, A)
  BY DEF Least, Closes
<1>. QED  BY <1>1 DEF Least

LEMMA ReachLeast ==
  ASSUME NEW A, Objects(heap, A), Pointing(word, A), NEW S, S \in SUBSET (NULL .. MaxAddr)
  PROVE  Least(Reach(S), word, Target(heap), S, A)
<1>. DEFINE at == Target(heap)
            A0 == {at[p] : p \in S} \ {NULL}
            F == [B \in SUBSET A |-> B \cup Pointees(at, B)]
            Walk(f) == f = [k \in 0 .. MaxAddr |->
                              IF k = 0 THEN A0 ELSE f[k - 1] \cup Pointees(at, f[k - 1])]
            f == CHOOSE f : Walk(f)
<1>1. /\ Finds(at, A) /\ A \in SUBSET Addr /\ Apart(A)
      /\ \A b \in A : Body(heap, b) = Words(b)
  BY TargetFinds, ObjectsApart DEF Objects
<1>2. \A b \in A : \A a \in Words(b) : a \in Addr /\ word[a] \in NULL .. MaxAddr
  BY <1>1, WordsApart, Constants DEF Pointing, Addr
<1>3. Reach(S) = f[MaxAddr]
  BY DEF Reach
<1>. HIDE DEF f, at
<1>4. A0 \in SUBSET A
  BY <1>1 DEF Finds
<1>5. ASSUME NEW B \in SUBSET A
      PROVE  Pointees(at, B) = {at[word[a]] : a \in UNION {Words(b) : b \in B}} \ {NULL}
  <2>1. {Body(heap, b) : b \in B} = {Words(b) : b \in B}
    BY <1>1
  <2>. QED  BY <2>1, Zenon DEF Pointees
<1>6. ASSUME NEW B \in SUBSET A  PROVE Pointees(at, B) \in SUBSET A
  BY <1>1, <1>2, <1>5 DEF Finds
<1>7. F \in [SUBSET A -> SUBSET A]
  BY <1>6
<1>8. PICK g \in [0 .. MaxAddr -> SUBSET A] : Iterates(g, A0, F, MaxAddr)
  <2>. HIDE DEF F, A0
  <2>. QED  BY <1>4, <1>7, Constants, IterationExists
<1>9. Walk(g)
  <2>1. \A n \in 0 .. MaxAddr : g[n] = IF n = 0 THEN A0 ELSE F[g[n - 1]]
    BY <1>8 DEF Iterates
  <2>2. \A n \in 0 .. MaxAddr : n # 0 => g[n - 1] \in SUBSET A
    BY Constants
  <2>3. \A B \in SUBSET A : F[B] = B \cup Pointees(at, B)
    OBVIOUS
  <2>. HIDE DEF F, A0
  <2>. QED  BY <2>1, <2>2, <2>3
<1>10. PICK u : u = f
  OBVIOUS
<1>11. Walk(u)
  BY <1>9, <1>10 DEF f
<1>12. u[MaxAddr] = g[MaxAddr]
  <2>1. \A k \in 0 .. MaxAddr : u[k] = IF k = 0 THEN A0 ELSE u[k - 1] \cup Pointees(at, u[k - 1])
    BY <1>11
  <2>2. \A k \in 0 .. MaxAddr : g[k] = IF k = 0 THEN A0 ELSE g[k - 1] \cup Pointees(at, g[k - 1])
    BY <1>9
  <2>. HIDE DEF A0
  <2>3. 0 \in 0 .. MaxAddr /\ \A k \in 1 .. MaxAddr : k \in 0 .. MaxAddr /\ k # 0
    BY Constants
  <2>4. u[0] = g[0] /\ \A k \in 1 .. MaxAddr : u[k - 1] = g[k - 1] => u[k] = g[k]
    BY <2>1, <2>2, <2>3, Zenon
  <2>. HIDE DEF F
  <2>5. \A k \in 0 .. MaxAddr : u[k] = g[k]
    <3>1. MaxAddr \in Nat
      BY Constants
    <3>2. InStep(u, g, MaxAddr)
      BY <2>4 DEF InStep
    <3>. QED  BY <3>1, <3>2, SameWalk
  <2>. QED  BY <2>5, Constants
<1>13. Inflates(F, A)
  <2>1. \A B \in SUBSET A : B \subseteq F[B]
    OBVIOUS
  <2>. QED  BY <1>7, <2>1 DEF Inflates
<1>. DEFINE R == g[MaxAddr]
<1>14. R \in SUBSET A /\ A0 \subseteq R /\ F[R] = R
  <2>1. IsFiniteSet(A) /\ MaxAddr >= Cardinality(A)
    BY <1>1, AddrFinite, FS_CardinalityType, Constants
  <2>. HIDE DEF F, A0
  <2>. QED  BY <1>4, <1>8, <1>13, <2>1, Constants, IterationRests
<1>15. Pointees(at, R) \subseteq R
  <2>. HIDE DEF A0, R
  <2>1. F[R] = R \cup Pointees(at, R)
    BY <1>14
  <2>. QED  BY <1>14, <2>1
<1>16. Closes(R, word, at, S, A)
  <2>. HIDE DEF F, R
  <2>1. \A p \in S : at[p] # NULL => at[p] \in R
    BY <1>14
  <2>2. \A b \in R : \A a \in Words(b) : at[word[a]] # NULL => at[word[a]] \in R
    BY <1>5, <1>14, <1>15
  <2>. QED  BY <1>14, <2>1, <2>2 DEF Closes
<1>17. ASSUME NEW X \in SUBSET A, Closes(X, word, at, S, A)  PROVE R \subseteq X
  <2>1. A0 \subseteq X
    BY <1>17 DEF Closes
  <2>2. \A Y \in SUBSET X : F[Y] \subseteq X
    <3>. TAKE Y \in SUBSET X
    <3>1. Pointees(at, Y) \subseteq X
      BY <1>5, <1>17 DEF Closes
    <3>. HIDE DEF A0
    <3>2. F[Y] = Y \cup Pointees(at, Y)
      OBVIOUS
    <3>. QED  BY <3>1, <3>2
  <2>. HIDE DEF F, A0
  <2>3. \A n \in 0 .. MaxAddr : g[n] \subseteq X
    BY <1>8, <2>1, <2>2, Constants, IterationStays
  <2>. QED  BY <2>3, Constants
<1>. QED  BY <1>3, <1>10, <1>12, <1>16, <1>17 DEF Least, at

(***************************************************************************)
(* gc_mark.                                                                *)
(***************************************************************************)
States(A) == [marked : SUBSET A, todo : Seq(Starts(A) \cup {NULL})]

(* What gc_mark reads of object b.                                         *)
Contents(w, b) == {w[a] : a \in Words(b)}

(* A pointer is popped; when it is the first to its object, the object is  *)
(* marked and its words are pushed.                                        *)
Skips(s, s2, at) ==
    /\ s2.marked = s.marked
    /\ Len(s2.todo) = Len(s.todo) - 1
    /\ \E p \in ToSet(s.todo) : /\ at[p] = NULL \/ at[p] \in s.marked
                                /\ ToSet(s.todo) = {p} \cup ToSet(s2.todo)

Scans(s, s2, w, at) ==
    \E p \in ToSet(s.todo) : \E Q \in SUBSET ToSet(s.todo) :
       /\ at[p] # NULL /\ at[p] \notin s.marked
       /\ s2.marked = s.marked \cup {at[p]}
       /\ Len(s2.todo) = Len(s.todo) - 1 + (ObjSize - 1)
       /\ ToSet(s.todo) = {p} \cup Q
       /\ ToSet(s2.todo) = Q \cup Contents(w, at[p])

LEMMA WordsScanned ==
  ASSUME NEW A, Apart(A), NEW h, \A b \in A : NEXT_HEADER(h, b) = b + ObjSize,
         Pointing(word, A), NEW b \in A
  PROVE  /\ Scanned(h, b, b + 1) \in Seq(Starts(A) \cup {NULL})
         /\ Len(Scanned(h, b, b + 1)) = ObjSize - 1
         /\ ToSet(Scanned(h, b, b + 1)) = Contents(word, b)
<1>. DEFINE n == ObjSize - 1
            u == [i \in 1 .. n |-> word[(b + 1) + i - 1]]
<1>1. b \in Nat /\ n \in Nat /\ Words(b) \subseteq Addr
  BY ObjectSize, WordsApart
<1>2. (b + ObjSize) - (b + 1) = n
  BY <1>1, ObjectSize
<1>3. Scanned(h, b, b + 1) = u
  BY <1>2 DEF Scanned
<1>. HIDE DEF n
<1>4. \A i \in 1 .. n : (b + 1) + i - 1 \in Words(b)
  BY <1>1, ObjectSize DEF Words, n
<1>5. \A a \in Words(b) : a - b \in 1 .. n /\ (b + 1) + (a - b) - 1 = a
  BY <1>1, ObjectSize DEF Words, n
<1>6. \A a \in Words(b) : word[a] \in Starts(A) \cup {NULL}
  BY <1>1 DEF Pointing
<1>7. \A i \in 1 .. n : u[i] \in Starts(A) \cup {NULL}
  BY <1>4, <1>6
<1>8. u \in Seq(Starts(A) \cup {NULL}) /\ Len(u) = n /\ DOMAIN u = 1 .. n
  BY <1>1, <1>7
<1>9. ToSet(u) = Contents(word, b)
  <2>1. \A i \in 1 .. n : u[i] = word[(b + 1) + i - 1]
    OBVIOUS
  <2>2. \A a \in Words(b) : word[a] = u[a - b]
    BY <1>5
  <2>. HIDE DEF u
  <2>3. ToSet(u) \subseteq Contents(word, b)
    BY <1>4, <1>8, <2>1 DEF ToSet, Contents
  <2>4. Contents(word, b) \subseteq ToSet(u)
    BY <1>5, <1>8, <2>2 DEF ToSet, Contents
  <2>. QED  BY <2>3, <2>4
<1>. QED  BY <1>3, <1>8, <1>9 DEF n

LEMMA MarkSteps ==
  ASSUME NEW A, Apart(A), NEW h, \A b \in A : NEXT_HEADER(h, b) = b + ObjSize,
         Pointing(word, A), NEW at, Finds(at, A), NEW s \in States(A)
  PROVE  /\ MarkStep(h, at, s) \in States(A)
         /\ s.todo = <<>> => MarkStep(h, at, s) = s
         /\ s.todo # <<>> => \/ Skips(s, MarkStep(h, at, s), at)
                             \/ Scans(s, MarkStep(h, at, s), word, at)
<1>1. s.marked \in SUBSET A /\ s.todo \in Seq(Starts(A) \cup {NULL})
  BY DEF States
<1>2. CASE s.todo = <<>>
  BY <1>2 DEF MarkStep
<1>3. CASE s.todo # <<>>
  <2>. DEFINE p == Head(s.todo)
              q == Tail(s.todo)
              u == Scanned(h, at[p], p)
  <2>1. /\ p \in Starts(A) \cup {NULL} /\ q \in Seq(Starts(A) \cup {NULL})
        /\ ToSet(s.todo) = {p} \cup ToSet(q)
    BY <1>1, <1>3, HeadOfList
  <2>2. Len(q) = Len(s.todo) - 1 /\ Len(s.todo) \in Nat
    BY <1>1, <1>3, HeadTailProperties
  <2>3. MarkStep(h, at, s) = IF at[p] # NULL /\ at[p] \notin s.marked
                             THEN [marked |-> s.marked \cup {at[p]}, todo |-> u \o q]
                             ELSE [marked |-> s.marked, todo |-> q]
    BY <1>3 DEF MarkStep
  <2>. HIDE DEF p, q, u
  <2>4. CASE ~(at[p] # NULL /\ at[p] \notin s.marked)
    <3>1. PICK m : m = MarkStep(h, at, s)
      OBVIOUS
    <3>2. m = [marked |-> s.marked, todo |-> q]
      BY <2>3, <2>4, <3>1
    <3>3. m.marked = s.marked /\ m.todo = q /\ m \in States(A)
      BY <1>1, <2>1, <3>2 DEF States
    <3>4. Skips(s, m, at)
      BY <2>1, <2>2, <2>4, <3>3 DEF Skips
    <3>. QED  BY <1>3, <3>1, <3>3, <3>4
  <2>5. CASE at[p] # NULL /\ at[p] \notin s.marked
    <3>1. p \in NULL .. MaxAddr
      BY <2>1, WordsApart, Constants DEF Starts, Addr
    <3>2. at[p] \in A /\ p = at[p] + 1
      <4>1. at[p] \in A /\ p \in Words(at[p])
        BY <2>5, <3>1 DEF Finds
      <4>2. PICK b \in A : p = b + 1
        <5>1. p # NULL
          BY <4>1, WordsApart, Constants
        <5>. QED  BY <2>1, <5>1 DEF Starts
      <4>3. b = at[p]
        BY <4>1, <4>2, WordsApart
      <4>. QED  BY <4>1, <4>2, <4>3
    <3>3. /\ u \in Seq(Starts(A) \cup {NULL}) /\ Len(u) = ObjSize - 1
          /\ ToSet(u) = Contents(word, at[p])
      <4>1. PICK b \in A : b = at[p]
        BY <3>2
      <4>2. u = Scanned(h, b, b + 1)
        BY <3>2, <4>1 DEF u
      <4>. QED  BY <4>1, <4>2, WordsScanned
    <3>4. /\ u \o q \in Seq(Starts(A) \cup {NULL}) /\ ToSet(u \o q) = ToSet(u) \cup ToSet(q)
          /\ Len(u \o q) = Len(u) + Len(q)
      <4>. DEFINE X == Starts(A) \cup {NULL}
      <4>. HIDE DEF X
      <4>1. u \in Seq(X) /\ q \in Seq(X)
        BY <2>1, <3>3 DEF X
      <4>2. u \o q \in Seq(X) /\ ToSet(u \o q) = ToSet(u) \cup ToSet(q)
        BY <4>1, ToSetConcat
      <4>3. Len(u \o q) = Len(u) + Len(q)
        BY <4>1, ConcatProperties
      <4>. QED  BY <4>2, <4>3 DEF X
    <3>5. PICK m : m = MarkStep(h, at, s)
      OBVIOUS
    <3>6. m = [marked |-> s.marked \cup {at[p]}, todo |-> u \o q]
      BY <2>3, <2>5, <3>5
    <3>7. m.marked = s.marked \cup {at[p]} /\ m.todo = u \o q /\ m \in States(A)
      BY <1>1, <3>2, <3>4, <3>6 DEF States
    <3>8. Len(m.todo) = Len(s.todo) - 1 + (ObjSize - 1)
      BY <2>2, <3>3, <3>4, <3>7, ObjectSize
    <3>9. ToSet(m.todo) = ToSet(q) \cup Contents(word, at[p])
      BY <3>3, <3>4, <3>7
    <3>10. Scans(s, m, word, at)
      BY <2>1, <2>5, <3>7, <3>8, <3>9 DEF Scans
    <3>. QED  BY <1>3, <3>5, <3>7, <3>10
  <2>. QED  BY <2>4, <2>5
<1>. QED  BY <1>2, <1>3

(* The words of the objects that are not in M.                             *)
Space(A, M) == UNION {Words(b) : b \in A \ M}

LEMMA SpaceShrinks ==
  ASSUME NEW A, Apart(A), NEW M \in SUBSET A
  PROVE  /\ Cardinality(Space(A, M)) \in Nat /\ Cardinality(Space(A, M)) <= MaxAddr
         /\ \A b \in A \ M : Cardinality(Space(A, M)) = Cardinality(Space(A, M \cup {b})) + (ObjSize - 1)
<1>1. \A b \in A : b \in Nat /\ Words(b) \subseteq Addr
  BY WordsApart
<1>2. \A X \in SUBSET A : Space(A, X) \in SUBSET Addr
  BY <1>1 DEF Space
<1>3. \A X \in SUBSET A : /\ IsFiniteSet(Space(A, X)) /\ Cardinality(Space(A, X)) \in Nat
                          /\ Cardinality(Space(A, X)) <= MaxAddr
  BY <1>2, AddrFinite, FS_CardinalityType
<1>4. ASSUME NEW b \in A \ M
      PROVE  Cardinality(Space(A, M)) = Cardinality(Space(A, M \cup {b})) + (ObjSize - 1)
  <2>. DEFINE X == Space(A, M \cup {b})
              Y == Words(b)
  <2>1. Space(A, M) = X \cup Y
    BY <1>4 DEF Space
  <2>2. X \cap Y = {}
    <3>1. \A c \in A \ (M \cup {b}) : Words(c) \cap Words(b) = {}
      BY <1>4, WordsApart
    <3>. QED  BY <3>1 DEF Space
  <2>3. IsFiniteSet(X) /\ Cardinality(X) \in Nat
    <3>1. M \cup {b} \in SUBSET A
      BY <1>4
    <3>. QED  BY <1>3, <3>1
  <2>4. IsFiniteSet(Y) /\ Cardinality(Y) = ObjSize - 1
    <3>1. b + 1 \in Int /\ (b + ObjSize) - 1 \in Int /\ ~(b + 1 > (b + ObjSize) - 1)
          /\ (b + ObjSize) - 1 - (b + 1) + 1 = ObjSize - 1
      BY <1>1, <1>4, ObjectSize
    <3>2. IsFiniteSet(b + 1 .. (b + ObjSize) - 1)
          /\ Cardinality(b + 1 .. (b + ObjSize) - 1) = (b + ObjSize) - 1 - (b + 1) + 1
      BY <3>1, FS_Interval
    <3>. QED  BY <3>1, <3>2 DEF Words
  <2>. HIDE DEF X, Y
  <2>5. Cardinality(X \cup Y) = Cardinality(X) + Cardinality(Y) - Cardinality(X \cap Y)
    BY <2>3, <2>4, FS_Union
  <2>6. Cardinality(X \cap Y) = 0
    BY <2>2, FS_EmptySet
  <2>7. Cardinality(X \cup Y) = Cardinality(X) + (ObjSize - 1)
    BY <2>3, <2>4, <2>5, <2>6, ObjectSize
  <2>. QED  BY <2>1, <2>7 DEF X
<1>. QED  BY <1>3, <1>4

(* What holds of every state of the walk, for every set X that has what    *)
(* the pointers P reach.                                                   *)
Marking(s, w, at, P, A, X) ==
    /\ s \in States(A)
    /\ s.marked \subseteq X
    /\ \A p \in ToSet(s.todo) : at[p] # NULL => at[p] \in X
    /\ \A p \in P : at[p] # NULL => at[p] \in s.marked \/ p \in ToSet(s.todo)
    /\ \A b \in s.marked : \A f \in Contents(w, b) :
          at[f] # NULL => at[f] \in s.marked \/ f \in ToSet(s.todo)

(* The steps the walk still needs.                                         *)
Left(s, A) == Len(s.todo) + Cardinality(Space(A, s.marked))

LEMMA MarkingGoesOn ==
  ASSUME NEW A, Apart(A), NEW h, \A b \in A : NEXT_HEADER(h, b) = b + ObjSize,
         Pointing(word, A), NEW at, Finds(at, A), NEW P,
         NEW X \in SUBSET A, Closes(X, word, at, P, A),
         NEW s, Marking(s, word, at, P, A, X), NEW m, m = MarkStep(h, at, s)
  PROVE  /\ Marking(m, word, at, P, A, X)
         /\ s.todo = <<>> => m = s
         /\ s.todo # <<>> => Left(m, A) = Left(s, A) - 1
<1>1. /\ s \in States(A) /\ s.marked \in SUBSET A /\ s.todo \in Seq(Starts(A) \cup {NULL})
      /\ Len(s.todo) \in Nat
  BY DEF Marking, States
<1>2. /\ m \in States(A)
      /\ s.todo = <<>> => m = s
      /\ s.todo # <<>> => Skips(s, m, at) \/ Scans(s, m, word, at)
  BY <1>1, MarkSteps
<1>3. Cardinality(Space(A, s.marked)) \in Nat
  BY <1>1, SpaceShrinks
<1>4. CASE s.todo = <<>>
  BY <1>2, <1>4
<1>5. CASE s.todo # <<>> /\ Skips(s, m, at)
  <2>1. Marking(m, word, at, P, A, X)
    BY <1>2, <1>5 DEF Skips, Marking
  <2>2. Left(m, A) = Left(s, A) - 1
    BY <1>1, <1>3, <1>5 DEF Left, Skips
  <2>. QED  BY <1>5, <2>1, <2>2
<1>6. CASE s.todo # <<>> /\ Scans(s, m, word, at)
  <2>1. PICK p \in ToSet(s.todo), Q \in SUBSET ToSet(s.todo) :
           /\ at[p] # NULL /\ at[p] \notin s.marked
           /\ m.marked = s.marked \cup {at[p]}
           /\ Len(m.todo) = Len(s.todo) - 1 + (ObjSize - 1)
           /\ ToSet(s.todo) = {p} \cup Q
           /\ ToSet(m.todo) = Q \cup Contents(word, at[p])
    BY <1>6 DEF Scans
  <2>2. at[p] \in X /\ at[p] \in A \ s.marked
    BY <2>1 DEF Marking
  <2>3. \A f \in Contents(word, at[p]) : at[f] # NULL => at[f] \in X
    BY <2>2 DEF Closes, Contents
  <2>4. Marking(m, word, at, P, A, X)
    BY <1>2, <2>1, <2>2, <2>3 DEF Marking
  <2>5. Cardinality(Space(A, s.marked)) = Cardinality(Space(A, m.marked)) + (ObjSize - 1)
    BY <1>1, <2>1, <2>2, SpaceShrinks
  <2>6. Cardinality(Space(A, m.marked)) \in Nat
    <3>1. m.marked \in SUBSET A
      BY <1>2 DEF States
    <3>. QED  BY <3>1, SpaceShrinks
  <2>7. Left(m, A) = Left(s, A) - 1
    BY <1>1, <1>3, <2>1, <2>5, <2>6, ObjectSize DEF Left
  <2>. QED  BY <1>6, <2>4, <2>7
<1>. QED  BY <1>2, <1>4, <1>5, <1>6

LEMMA MarkLeast ==
  ASSUME NEW A, Apart(A), NEW h, \A b \in A : NEXT_HEADER(h, b) = b + ObjSize,
         Pointing(word, A), NEW at, Finds(at, A), NEW ptrs \in Seq(Starts(A) \cup {NULL})
  PROVE  Least(gc_mark(h, at, ptrs), word, at, ToSet(ptrs), A)
<1>. DEFINE D == States(A)
            S0 == [marked |-> {}, todo |-> ptrs]
            V == Visits(ptrs)
            P == ToSet(ptrs)
            F == [s \in D |-> MarkStep(h, at, s)]
            Walk(f) == f = [k \in 0 .. V |-> IF k = 0 THEN S0 ELSE MarkStep(h, at, f[k - 1])]
            f == CHOOSE f : Walk(f)
<1>1. gc_mark(h, at, ptrs) = f[V].marked
  BY DEF gc_mark
<1>2. V \in Nat /\ V = MaxAddr + Len(ptrs) /\ Len(ptrs) \in Nat
  BY Constants DEF Visits
<1>3. S0 \in D /\ S0.marked = {} /\ S0.todo = ptrs
  BY DEF States
<1>. HIDE DEF f, D, S0, V, P
<1>4. F \in [D -> D]
  BY MarkSteps DEF D
<1>5. PICK g \in [0 .. V -> D] : Iterates(g, S0, F, V)
  <2>. HIDE DEF F
  <2>. QED  BY <1>2, <1>3, <1>4, IterationExists
<1>6. Walk(g)
  <2>1. \A n \in 0 .. V : g[n] = IF n = 0 THEN S0 ELSE F[g[n - 1]]
    BY <1>5 DEF Iterates
  <2>2. \A n \in 0 .. V : n # 0 => g[n - 1] \in D
    BY <1>2
  <2>3. \A s \in D : F[s] = MarkStep(h, at, s)
    OBVIOUS
  <2>. HIDE DEF F
  <2>. QED  BY <2>1, <2>2, <2>3
<1>. HIDE DEF F
<1>7. PICK u : u = f
  OBVIOUS
<1>8. Walk(u)
  BY <1>6, <1>7 DEF f
<1>9. 0 \in 0 .. V /\ \A k \in 1 .. V : k \in 0 .. V /\ k # 0
  BY <1>2
<1>10. g[0] = S0 /\ \A k \in 1 .. V : g[k] = MarkStep(h, at, g[k - 1])
  <2>1. \A k \in 0 .. V : g[k] = IF k = 0 THEN S0 ELSE MarkStep(h, at, g[k - 1])
    BY <1>6
  <2>. QED  BY <1>9, <2>1, Zenon
<1>11. u[0] = S0 /\ \A k \in 1 .. V : u[k] = MarkStep(h, at, u[k - 1])
  <2>1. \A k \in 0 .. V : u[k] = IF k = 0 THEN S0 ELSE MarkStep(h, at, u[k - 1])
    BY <1>8
  <2>. QED  BY <1>9, <2>1, Zenon
<1>12. u[V] = g[V]
  <2>1. InStep(u, g, V)
    BY <1>10, <1>11 DEF InStep
  <2>2. \A k \in 0 .. V : u[k] = g[k]
    BY <1>2, <2>1, SameWalk
  <2>. QED  BY <1>2, <2>2
<1>13. ASSUME NEW X \in SUBSET A, Closes(X, word, at, P, A)
       PROVE  /\ Marking(g[V], word, at, P, A, X)
              /\ g[V].todo = <<>>
  <2>. DEFINE T == {k \in Nat : k <= V => /\ Marking(g[k], word, at, P, A, X)
                                          /\ g[k].todo = <<>> \/ Left(g[k], A) <= V - k}
  <2>1. 0 \in T
    <3>1. Marking(S0, word, at, P, A, X)
      <4>1. S0 \in States(A) /\ S0.marked = {} /\ ToSet(S0.todo) = P
        BY <1>3 DEF D, P
      <4>2. \A p \in P : at[p] # NULL => at[p] \in X
        BY <1>13 DEF Closes
      <4>. QED  BY <4>1, <4>2 DEF Marking
    <3>2. Left(S0, A) <= V
      <4>1. Cardinality(Space(A, {})) \in Nat /\ Cardinality(Space(A, {})) <= MaxAddr
        BY SpaceShrinks
      <4>. QED  BY <1>2, <1>3, <4>1, Constants DEF Left
    <3>3. Left(S0, A) <= V - 0
      BY <1>2, <3>2
    <3>. QED  BY <1>10, <3>1, <3>3
  <2>2. ASSUME NEW k \in Nat, k \in T  PROVE k + 1 \in T
    <3>. SUFFICES ASSUME k + 1 <= V
                  PROVE  /\ Marking(g[k + 1], word, at, P, A, X)
                         /\ g[k + 1].todo = <<>> \/ Left(g[k + 1], A) <= V - (k + 1)
      BY DEF T
    <3>1. /\ Marking(g[k], word, at, P, A, X)
          /\ g[k].todo = <<>> \/ Left(g[k], A) <= V - k
      BY <1>2, <2>2
    <3>2. g[k + 1] = MarkStep(h, at, g[k])
      <4>1. k + 1 \in 1 .. V /\ (k + 1) - 1 = k
        BY <1>2
      <4>. QED  BY <1>10, <4>1
    <3>3. /\ Marking(g[k + 1], word, at, P, A, X)
          /\ g[k].todo = <<>> => g[k + 1] = g[k]
          /\ g[k].todo # <<>> => Left(g[k + 1], A) = Left(g[k], A) - 1
      BY <1>13, <3>1, <3>2, MarkingGoesOn
    <3>4. Left(g[k], A) \in Nat
      <4>1. g[k].marked \in SUBSET A /\ Len(g[k].todo) \in Nat
        BY <3>1 DEF Marking, States
      <4>2. Cardinality(Space(A, g[k].marked)) \in Nat
        BY <4>1, SpaceShrinks
      <4>. QED  BY <4>1, <4>2 DEF Left
    <3>. QED  BY <1>2, <3>1, <3>3, <3>4
  <2>. HIDE DEF T
  <2>3. Nat \subseteq T
    BY <2>1, <2>2, NatSetInduction
  <2>4. /\ Marking(g[V], word, at, P, A, X)
        /\ g[V].todo = <<>> \/ Left(g[V], A) <= 0
    BY <1>2, <2>3 DEF T
  <2>5. g[V].todo = <<>>
    <3>1. g[V].marked \in SUBSET A /\ g[V].todo \in Seq(Starts(A) \cup {NULL})
      BY <2>4 DEF Marking, States
    <3>2. Cardinality(Space(A, g[V].marked)) \in Nat
      BY <3>1, SpaceShrinks
    <3>3. Len(g[V].todo) \in Nat /\ (Len(g[V].todo) = 0 => g[V].todo = <<>>)
      BY <3>1, EmptySeq
    <3>. QED  BY <2>4, <3>2, <3>3 DEF Left
  <2>. QED  BY <2>4, <2>5
<1>. DEFINE M == g[V].marked
<1>14. Closes(A, word, at, P, A)
  <2>1. \A p \in P : p \in NULL .. MaxAddr
    <3>1. P \subseteq Starts(A) \cup {NULL}
      BY ToSetSeq DEF P
    <3>2. Starts(A) \cup {NULL} \subseteq NULL .. MaxAddr
      BY WordsApart, Constants DEF Starts, Addr
    <3>. QED  BY <3>1, <3>2
  <2>2. \A b \in A : \A a \in Words(b) : word[a] \in NULL .. MaxAddr
    BY WordsApart, Constants DEF Pointing, Addr
  <2>. QED  BY <2>1, <2>2 DEF Closes, Finds
<1>15. ASSUME NEW X \in SUBSET A, Closes(X, word, at, P, A)
       PROVE  M \subseteq X /\ Closes(M, word, at, P, A)
  <2>1. /\ Marking(g[V], word, at, P, A, X)
        /\ g[V].todo = <<>>
    BY <1>13, <1>15
  <2>2. ToSet(g[V].todo) = {}
    BY <2>1, ToSetEmpty
  <2>3. \A b \in M : \A a \in Words(b) : at[word[a]] # NULL => at[word[a]] \in M
    BY <2>1, <2>2 DEF Marking, Contents
  <2>. QED  BY <2>1, <2>2, <2>3 DEF Marking, Closes, States
<1>16. Least(M, word, at, P, A)
  BY <1>14, <1>15 DEF Least
<1>. QED  BY <1>1, <1>7, <1>12, <1>16 DEF P

(***************************************************************************)
(* gc_sweep.                                                               *)
(***************************************************************************)
LEMMA WellRecord ==
  ASSUME NEW h, NEW N, NEW B, NEW r, Well(h, N, B, r)
  PROVE  /\ h \in HeapRecords /\ HeapsOK(h.heaps) /\ h.hdr \in [Addr -> Header]
         /\ Tiles(B, Sizes(h.hdr), h.heaps, r) /\ Blocks(h) = B
         /\ \A b \in B : h.hdr[b].size = Sizes(h.hdr)[b]
<1>1. /\ h = [free_list |-> h.free_list, heaps |-> h.heaps, hdr |-> h.hdr]
      /\ h.hdr \in [Addr -> Header] /\ HeapsOK(h.heaps)
      /\ Tiles(B, Sizes(h.hdr), h.heaps, r) /\ ListOf(h.free_list, Links(h.hdr), N)
  BY DEF Well, Good
<1>2. h.free_list \in Addr \cup {NULL}
  BY <1>1 DEF ListOf
<1>3. h.heaps \in Seq([slot : Addr, size : 1 .. MaxAddr])
  BY <1>1 DEF HeapsOK
<1>4. h \in HeapRecords
  BY <1>1, <1>2, <1>3 DEF HeapRecords
<1>5. Blocks(h) = B
  BY <1>1, BlocksOf
<1>6. \A b \in B : h.hdr[b].size = Sizes(h.hdr)[b]
  BY <1>1 DEF Sizes, Tiles
<1>. QED  BY <1>1, <1>4, <1>5, <1>6

LEMMA OneHeap ==
  ASSUME NEW hs, HeapsOK(hs), NEW i \in 1 .. Len(hs), NEW j \in 1 .. Len(hs), NEW p \in Nat,
         hs[i].slot <= p, p <= End(hs[i]), hs[j].slot <= p, p <= End(hs[j])
  PROVE  i = j
<1>1. hs[i].slot \in Nat /\ hs[j].slot \in Nat /\ End(hs[i]) \in Nat /\ End(hs[j]) \in Nat
  BY HeapTyped
<1>2. i < j => End(hs[i]) < hs[j].slot
  BY DEF HeapsOK
<1>3. j < i => End(hs[j]) < hs[i].slot
  BY DEF HeapsOK
<1>. QED  BY <1>1, <1>2, <1>3

(* The walk goes on from the header at p, at a block or at the heap's end. *)
LEMMA Advance ==
  ASSUME NEW h, NEW N, NEW B, Well(h, N, B, ObjSize),
         NEW i \in 1 .. Len(h.heaps), NEW p \in Nat, EndsWith(p, h.hdr, B),
         h.heaps[i].slot <= p, p < End(h.heaps[i]), NEW q, q = p + h.hdr[p].size
  PROVE  /\ q \in Nat /\ p < q /\ q <= End(h.heaps[i])
         /\ q = End(h.heaps[i]) \/ q \in B
         /\ \A b \in B : b \in Nat /\ ~(p < b /\ b < q)
<1>. DEFINE sz == Sizes(h.hdr)
            hs == h.heaps
<1>1. HeapsOK(hs) /\ Tiles(B, sz, hs, ObjSize) /\ \A b \in B : h.hdr[b].size = sz[b]
  BY WellRecord
<1>. HIDE DEF sz
<1>2. PICK c \in B : c <= p /\ c + sz[c] = q
  BY <1>1 DEF EndsWith
<1>3. \A b \in B : b \in Nat /\ sz[b] \in Nat
  BY <1>1, TileTyped
<1>4. PICK j \in 1 .. Len(hs) : InHeap(c, hs[j], sz, B)
  BY <1>1 DEF Tiles
<1>5. hs[j].slot <= c /\ q <= End(hs[j]) /\ (q = End(hs[j]) \/ q \in B)
  BY <1>2, <1>4 DEF InHeap
<1>6. h.hdr[p].size > 0 /\ q \in Nat
  BY <1>2, <1>3 DEF EndsWith
<1>7. h.hdr[p].size \in Nat
  <2>1. hs[i].slot \in 1 .. MaxAddr /\ End(hs[i]) <= MaxAddr + 1 /\ End(hs[i]) \in Nat
    BY <1>1, HeapTyped
  <2>2. p \in Addr
    BY <2>1, Constants DEF Addr
  <2>3. h.hdr \in [Addr -> Header]
    BY WellRecord
  <2>. QED  BY <2>2, <2>3, HeaderTyped
<1>8. p < q
  BY <1>6, <1>7
<1>9. j = i
  <2>1. hs[i].slot \in Nat /\ hs[j].slot \in Nat /\ End(hs[i]) \in Nat /\ End(hs[j]) \in Nat
    BY <1>1, HeapTyped
  <2>2. c \in Nat /\ hs[j].slot <= c /\ c <= p
    BY <1>2, <1>3, <1>5
  <2>3. hs[j].slot <= p
    BY <2>1, <2>2
  <2>4. p <= End(hs[j])
    BY <1>5, <1>6, <1>8, <2>1
  <2>5. p <= End(hs[i])
    BY <1>6, <1>8, <2>1
  <2>. QED  BY <1>1, <2>3, <2>4, <2>5, OneHeap
<1>10. ASSUME NEW b \in B, p < b, b < q  PROVE FALSE
  <2>1. c < b
    BY <1>2, <1>3, <1>10
  <2>2. c + sz[c] <= b
    BY <1>1, <2>1 DEF Tiles
  <2>. QED  BY <1>2, <1>3, <1>6, <1>10, <2>2
<1>. QED  BY <1>3, <1>5, <1>6, <1>8, <1>9, <1>10

(* The objects left when the walk of the heap that begins at from has come *)
(* to the address to.                                                      *)
Kept(A, M, from, to) == {b \in A : b \in M \/ b < from \/ b >= to}

LEMMA KeptOn ==
  ASSUME NEW A \in SUBSET Addr, NEW M, NEW from \in Nat, NEW p \in Nat, NEW q \in Nat,
         from <= p, p < q, NEW K,
         K = IF p \in M THEN Kept(A, M, from, p) ELSE Kept(A, M, from, p) \ {p},
         \A b \in K : ~(p < b /\ b < q)
  PROVE  K = Kept(A, M, from, q)
<1>1. \A b \in A : b \in Nat
  BY Constants
<1>2. ASSUME NEW b \in K  PROVE b \in Kept(A, M, from, q)
  <2>1. b \in A /\ (b \in M \/ b < from \/ b >= p) /\ (b = p => b \in M)
    BY <1>2 DEF Kept
  <2>. QED  BY <1>1, <1>2, <2>1 DEF Kept
<1>3. ASSUME NEW b \in Kept(A, M, from, q)  PROVE b \in K
  <2>1. b \in A /\ (b \in M \/ b < from \/ b >= q)
    BY DEF Kept
  <2>2. b \in Kept(A, M, from, p)
    BY <1>1, <2>1 DEF Kept
  <2>3. b = p => b \in M
    BY <1>1, <2>1
  <2>. QED  BY <2>2, <2>3
<1>. QED  BY <1>2, <1>3

Sweeping(s, hs, A, M, i) ==
    /\ s \in [heap : HeapRecords, p : Nat]
    /\ s.heap.heaps = hs
    /\ hs[i].slot <= s.p /\ s.p <= End(hs[i])
    /\ Objects(s.heap, Kept(A, M, hs[i].slot, s.p))
    /\ s.p = End(hs[i]) \/ s.p \in Blocks(s.heap)

LEMMA SweepGoesOn ==
  ASSUME NEW hs, NEW i \in 1 .. Len(hs), NEW A \in SUBSET Addr, NEW M,
         NEW s, Sweeping(s, hs, A, M, i), NEW m, m = SweepStep(s, M, End(hs[i]))
  PROVE  /\ Sweeping(m, hs, A, M, i)
         /\ s.p < End(hs[i]) => m.p > s.p
         /\ s.p = End(hs[i]) => m = s
<1>. DEFINE h == s.heap
            p == s.p
            e == End(hs[i])
            from == hs[i].slot
            K == Kept(A, M, from, p)
<1>1. /\ s \in [heap : HeapRecords, p : Nat] /\ h.heaps = hs /\ from <= p /\ p <= e /\ p \in Nat
      /\ Objects(h, K)
      /\ p = e \/ p \in Blocks(h)
  BY DEF Sweeping
<1>2. PICK N, B \in SUBSET Addr : /\ Well(h, N, B, ObjSize) /\ B \ N = K
                                  /\ h.heaps # <<>> => N # {}
  BY <1>1 DEF Objects
<1>3. /\ HeapsOK(hs) /\ h.hdr \in [Addr -> Header] /\ Tiles(B, Sizes(h.hdr), hs, ObjSize)
      /\ Blocks(h) = B /\ \A b \in B : h.hdr[b].size = Sizes(h.hdr)[b]
  BY <1>1, <1>2, WellRecord
<1>4. /\ from \in Nat /\ e \in Nat /\ N # {}
      /\ Flagged(h.hdr) = K /\ \A b \in K : h.hdr[b].size = ObjSize
  BY <1>1, <1>2, <1>3, HeapTyped DEF Objects
<1>5. CASE p >= e
  <2>1. p = e
    BY <1>1, <1>4, <1>5
  <2>2. m = s
    BY <1>5 DEF SweepStep
  <2>. QED  BY <2>1, <2>2
<1>6. CASE ~(p >= e)
  <2>1. p < e /\ p # e /\ p \in B
    BY <1>1, <1>3, <1>4, <1>6
  <2>. DEFINE g == IF h.hdr[p].flags = {"ALLOC"} /\ p \notin M THEN gc_free(h, p) ELSE h
              q == NEXT_HEADER(g, p)
              K2 == IF p \in M THEN K ELSE K \ {p}
  <2>2. m = [heap |-> g, p |-> q]
    BY <1>6 DEF SweepStep
  <2>3. h.hdr[p].flags = {"ALLOC"} <=> p \in K
    <3>1. p \in Addr /\ h.hdr[p].flags \in SUBSET {"ALLOC"}
      BY <1>3, <2>1, HeaderTyped
    <3>2. p \in K <=> h.hdr[p].flags # {}
      BY <1>4, <3>1 DEF Flagged
    <3>. QED  BY <3>1, <3>2
  <2>. HIDE DEF h, p, e, from, K, g, q
  <2>4. /\ g.heaps = hs
        /\ Flagged(g.hdr) = K2
        /\ \E N2, B2 \in SUBSET Addr :
              /\ Well(g, N2, B2, ObjSize)
              /\ N2 # {} /\ B2 \ N2 = K2
              /\ \A b \in K2 : g.hdr[b].size = ObjSize
              /\ EndsWith(p, g.hdr, B2)
    <3>1. CASE p \in K /\ p \notin M
      <4>1. g = gc_free(h, p) /\ K2 = K \ {p}
        BY <2>3, <3>1 DEF g
      <4>2. g.heaps = h.heaps /\ FreedAt(h, g, p, K \ {p}, ObjSize)
        <5>1. p \in B \ N
          BY <1>2, <3>1
        <5>. QED  BY <1>2, <1>4, <4>1, <5>1, FreeKeeps, ObjectSize
      <4>3. Flagged(h.hdr) \ (p .. (p + h.hdr[p].size - 1)) = K2
        <5>1. h.hdr[p].size = ObjSize /\ Sizes(h.hdr)[p] = ObjSize
          BY <1>3, <1>4, <2>1, <3>1
        <5>2. \A b \in K : b \in B /\ b \in Nat
          BY <1>2, Constants
        <5>3. \A b \in K : b > p => p + ObjSize <= b
          <6>1. \A b \in B : p < b => p + Sizes(h.hdr)[p] <= b
            BY <1>3, <2>1 DEF Tiles
          <6>. QED  BY <1>1, <5>1, <5>2, <6>1
        <5>4. \A b \in K : b \in p .. (p + ObjSize - 1) <=> b = p
          BY <1>1, <5>2, <5>3, ObjectSize
        <5>. QED  BY <1>4, <4>1, <5>1, <5>4
      <4>4. /\ Flagged(g.hdr) = K2
            /\ \E N2, B2 \in SUBSET Addr :
                  /\ Well(g, N2, B2, ObjSize)
                  /\ N2 # {} /\ B2 \ N2 = K2
                  /\ \A b \in K2 : g.hdr[b].size = h.hdr[b].size
                  /\ EndsWith(p, g.hdr, B2)
        BY <4>1, <4>2, <4>3 DEF FreedAt
      <4>5. \A b \in K2 : h.hdr[b].size = ObjSize
        BY <1>4, <4>1
      <4>. QED  BY <1>1, <4>2, <4>4, <4>5 DEF h
    <3>2. CASE ~(p \in K /\ p \notin M)
      <4>1. g = h /\ K2 = K
        BY <2>3, <3>2 DEF g
      <4>2. EndsWith(p, h.hdr, B)
        <5>1. h.hdr[p].size > 0 /\ h.hdr[p].size \in Nat
          BY <1>3, <2>1, TileTyped
        <5>2. p <= p
          BY <1>1
        <5>. QED  BY <2>1, <5>1, <5>2 DEF EndsWith
      <4>. QED  BY <1>1, <1>2, <1>4, <4>1, <4>2 DEF h
    <3>. QED  BY <3>1, <3>2
  <2>5. PICK N2, B2 \in SUBSET Addr :
              /\ Well(g, N2, B2, ObjSize)
              /\ N2 # {} /\ B2 \ N2 = K2
              /\ \A b \in K2 : g.hdr[b].size = ObjSize
              /\ EndsWith(p, g.hdr, B2)
    BY <2>4
  <2>6. /\ q \in Nat /\ p < q /\ q <= e
        /\ q = e \/ q \in B2
        /\ \A b \in B2 : b \in Nat /\ ~(p < b /\ b < q)
    <3>1. q = p + g.hdr[p].size
      BY DEF q, NEXT_HEADER
    <3>2. i \in 1 .. Len(g.heaps) /\ g.heaps[i].slot <= p /\ p < End(g.heaps[i]) /\ p \in Nat
      BY <1>1, <2>1, <2>4 DEF e, from, p
    <3>3. /\ q \in Nat /\ p < q /\ q <= End(g.heaps[i])
          /\ q = End(g.heaps[i]) \/ q \in B2
          /\ \A b \in B2 : b \in Nat /\ ~(p < b /\ b < q)
      BY <2>5, <3>1, <3>2, Advance
    <3>. QED  BY <2>4, <3>3 DEF e
  <2>7. K2 = Kept(A, M, from, q)
    <3>1. \A b \in K2 : ~(p < b /\ b < q)
      BY <2>5, <2>6
    <3>2. K2 = IF p \in M THEN Kept(A, M, from, p) ELSE Kept(A, M, from, p) \ {p}
      BY DEF K
    <3>3. p \in Nat /\ from \in Nat /\ from <= p
      BY <1>1, <1>4 DEF p, from
    <3>. HIDE DEF K2
    <3>. QED  BY <2>6, <3>1, <3>2, <3>3, KeptOn
  <2>8. Objects(g, Kept(A, M, from, q)) /\ Blocks(g) = B2 /\ g \in HeapRecords
    <3>1. g \in HeapRecords /\ Blocks(g) = B2 /\ K2 \in SUBSET Addr
      BY <2>5, WellRecord
    <3>. HIDE DEF K2
    <3>2. Objects(g, K2)
      BY <2>4, <2>5, <3>1 DEF Objects
    <3>. QED  BY <2>7, <3>1, <3>2
  <2>9. m \in [heap : HeapRecords, p : Nat] /\ m.heap = g /\ m.p = q
    BY <2>2, <2>6, <2>8
  <2>10. from <= q
    BY <1>1, <1>4, <2>6 DEF from, p
  <2>11. Sweeping(m, hs, A, M, i)
    BY <2>4, <2>6, <2>8, <2>9, <2>10 DEF Sweeping, e, from
  <2>. QED  BY <1>1, <2>1, <2>6, <2>9, <2>11 DEF p, e
<1>. QED  BY <1>5, <1>6

(* gc_sweep of one heap.                                                   *)
LEMMA HeapSwept ==
  ASSUME NEW h, NEW A, Objects(h, A), NEW i \in 1 .. Len(h.heaps), NEW M,
         NEW from, from = h.heaps[i].slot, NEW to, to = End(h.heaps[i])
  PROVE  /\ SweepHeap(h, M, from, to).heaps = h.heaps
         /\ Objects(SweepHeap(h, M, from, to), Kept(A, M, from, to))
<1>. DEFINE hs == h.heaps
            D == {s \in [heap : HeapRecords, p : Nat] : Sweeping(s, hs, A, M, i)}
            S0 == [heap |-> h, p |-> from]
            F == [s \in D |-> SweepStep(s, M, to)]
            Walk(f) == f = [k \in 0 .. MaxAddr |-> IF k = 0 THEN S0 ELSE SweepStep(f[k - 1], M, to)]
            f == CHOOSE f : Walk(f)
<1>1. SweepHeap(h, M, from, to) = f[MaxAddr].heap
  BY DEF SweepHeap
<1>2. PICK N, B \in SUBSET Addr : Well(h, N, B, ObjSize) /\ B \ N = A
  BY DEF Objects
<1>3. /\ h \in HeapRecords /\ HeapsOK(hs) /\ Tiles(B, Sizes(h.hdr), hs, ObjSize) /\ Blocks(h) = B
      /\ A \in SUBSET Addr
  BY <1>2, WellRecord
<1>4. /\ from \in Nat /\ to \in Nat /\ from < to /\ from \in B /\ to <= MaxAddr + 1 /\ from >= 1
  <2>1. /\ hs[i].slot \in 1 .. MaxAddr /\ End(hs[i]) <= MaxAddr + 1
        /\ hs[i].slot \in Nat /\ End(hs[i]) \in Nat /\ hs[i].slot < End(hs[i])
    BY <1>3, HeapTyped
  <2>2. hs[i].slot \in B
    BY <1>3 DEF Tiles
  <2>. QED  BY <2>1, <2>2
<1>5. S0 \in D
  <2>1. Kept(A, M, from, from) = A
    <3>1. \A b \in A : b \in Nat
      BY <1>3, Constants
    <3>. QED  BY <1>4, <3>1 DEF Kept
  <2>2. S0 \in [heap : HeapRecords, p : Nat] /\ S0.heap = h /\ S0.p = from
    BY <1>3, <1>4
  <2>. HIDE DEF S0
  <2>3. Sweeping(S0, hs, A, M, i)
    BY <1>3, <1>4, <2>1, <2>2 DEF Sweeping
  <2>. QED  BY <2>2, <2>3
<1>6. ASSUME NEW s \in D
      PROVE  /\ SweepStep(s, M, to) \in D
             /\ s.p < to => SweepStep(s, M, to).p > s.p
             /\ s.p = to => SweepStep(s, M, to) = s
  <2>1. PICK m : m = SweepStep(s, M, to)
    OBVIOUS
  <2>2. /\ Sweeping(m, hs, A, M, i)
        /\ s.p < to => m.p > s.p
        /\ s.p = to => m = s
    BY <1>3, <2>1, SweepGoesOn
  <2>3. m \in D
    BY <2>2 DEF Sweeping
  <2>. QED  BY <2>1, <2>2, <2>3
<1>7. \A s \in D : s.p \in Nat /\ from <= s.p /\ s.p <= to
  BY DEF Sweeping
<1>8. \A s \in D : /\ s.heap.heaps = hs
                   /\ Objects(s.heap, Kept(A, M, from, s.p))
  BY DEF Sweeping
<1>. HIDE DEF f, D, S0
<1>9. F \in [D -> D]
  BY <1>6
<1>10. PICK g \in [0 .. MaxAddr -> D] : Iterates(g, S0, F, MaxAddr)
  <2>. HIDE DEF F
  <2>. QED  BY <1>5, <1>9, Constants, IterationExists
<1>11. Walk(g)
  <2>1. \A n \in 0 .. MaxAddr : g[n] = IF n = 0 THEN S0 ELSE F[g[n - 1]]
    BY <1>10 DEF Iterates
  <2>2. \A n \in 0 .. MaxAddr : n # 0 => g[n - 1] \in D
    BY Constants
  <2>3. \A s \in D : F[s] = SweepStep(s, M, to)
    OBVIOUS
  <2>. HIDE DEF F
  <2>. QED  BY <2>1, <2>2, <2>3
<1>. HIDE DEF F
<1>12. PICK u : u = f
  OBVIOUS
<1>13. Walk(u)
  BY <1>11, <1>12 DEF f
<1>14. 0 \in 0 .. MaxAddr /\ \A k \in 1 .. MaxAddr : k \in 0 .. MaxAddr /\ k # 0
  BY Constants
<1>15. g[0] = S0 /\ \A k \in 1 .. MaxAddr : g[k] = SweepStep(g[k - 1], M, to)
  <2>1. \A k \in 0 .. MaxAddr : g[k] = IF k = 0 THEN S0 ELSE SweepStep(g[k - 1], M, to)
    BY <1>11
  <2>. QED  BY <1>14, <2>1, Zenon
<1>16. u[0] = S0 /\ \A k \in 1 .. MaxAddr : u[k] = SweepStep(u[k - 1], M, to)
  <2>1. \A k \in 0 .. MaxAddr : u[k] = IF k = 0 THEN S0 ELSE SweepStep(u[k - 1], M, to)
    BY <1>13
  <2>. QED  BY <1>14, <2>1, Zenon
<1>17. u[MaxAddr] = g[MaxAddr]
  <2>1. InStep(u, g, MaxAddr)
    BY <1>15, <1>16 DEF InStep
  <2>2. MaxAddr \in Nat
    BY Constants
  <2>3. \A k \in 0 .. MaxAddr : u[k] = g[k]
    BY <2>1, <2>2, SameWalk
  <2>. QED  BY <2>2, <2>3
<1>18. g[MaxAddr].p = to
  <2>. DEFINE T == {k \in Nat : k <= MaxAddr => g[k].p = to \/ g[k].p >= from + k}
  <2>1. 0 \in T
    BY <1>4, <1>5, <1>7, <1>15
  <2>2. ASSUME NEW k \in Nat, k \in T  PROVE k + 1 \in T
    <3>. SUFFICES ASSUME k + 1 <= MaxAddr
                  PROVE  g[k + 1].p = to \/ g[k + 1].p >= from + (k + 1)
      BY DEF T
    <3>1. /\ g[k] \in D /\ g[k + 1] \in D /\ g[k + 1] = SweepStep(g[k], M, to)
          /\ g[k].p = to \/ g[k].p >= from + k
      <4>1. k + 1 \in 1 .. MaxAddr /\ (k + 1) - 1 = k /\ k \in 0 .. MaxAddr
            /\ k + 1 \in 0 .. MaxAddr /\ k <= MaxAddr
        BY Constants
      <4>. QED  BY <1>15, <2>2, <4>1
    <3>2. /\ g[k].p < to => g[k + 1].p > g[k].p
          /\ g[k].p = to => g[k + 1] = g[k]
          /\ g[k].p \in Nat /\ g[k].p <= to /\ g[k + 1].p \in Nat
      BY <1>6, <1>7, <3>1
    <3>3. ASSUME NEW a \in Nat, NEW b \in Nat, a = to \/ a >= from + k, a <= to,
                 a < to => b > a, a = to => b = a
          PROVE  b = to \/ b >= from + (k + 1)
      BY <1>4, <3>3
    <3>4. g[k].p = to => g[k + 1].p = g[k].p
      BY <3>2
    <3>. QED  BY <3>1, <3>2, <3>3, <3>4
  <2>. HIDE DEF T
  <2>3. Nat \subseteq T
    BY <2>1, <2>2, NatSetInduction
  <2>4. g[MaxAddr].p = to \/ g[MaxAddr].p >= from + MaxAddr
    BY <2>3, Constants DEF T
  <2>5. g[MaxAddr].p \in Nat /\ g[MaxAddr].p <= to
    BY <1>7, Constants
  <2>. QED  BY <1>4, <2>4, <2>5, Constants
<1>19. g[MaxAddr].heap.heaps = hs /\ Objects(g[MaxAddr].heap, Kept(A, M, from, to))
  BY <1>8, <1>18, Constants
<1>. QED  BY <1>1, <1>12, <1>17, <1>19

(* gc_sweep: of the objects A the marked ones stay.                        *)
LEMMA HeapsSwept ==
  ASSUME NEW h, NEW A, Objects(h, A), NEW M
  PROVE  /\ gc_sweep(h, M).heaps = h.heaps
         /\ Objects(gc_sweep(h, M), A \cap M)
<1>. DEFINE hs == h.heaps
            L == Len(hs)
            D == {k \in HeapRecords : k.heaps = hs /\ \E X \in SUBSET Addr : Objects(k, X)}
            step(i, k) == SweepHeap(k, M, hs[i].slot, hs[i].slot + hs[i].size)
            F == [n \in Nat |-> [k \in D |-> IF n \in 1 .. L THEN step(n, k) ELSE k]]
            Walk(f) == f = [n \in 0 .. L |-> IF n = 0 THEN h ELSE step(n, f[n - 1])]
            f == CHOOSE f : Walk(f)
            Rest(n) == {b \in A : b \in M \/ \A j \in 1 .. n : b < hs[j].slot \/ b >= End(hs[j])}
<1>1. gc_sweep(h, M) = f[L]
  BY DEF gc_sweep, SweepHeaps
<1>2. PICK N, B \in SUBSET Addr : Well(h, N, B, ObjSize) /\ B \ N = A
  BY DEF Objects
<1>3. /\ h \in HeapRecords /\ HeapsOK(hs) /\ Tiles(B, Sizes(h.hdr), hs, ObjSize)
      /\ A \in SUBSET Addr /\ A \subseteq B /\ L \in Nat
  <2>1. h \in HeapRecords /\ HeapsOK(hs) /\ Tiles(B, Sizes(h.hdr), hs, ObjSize)
    BY <1>2, WellRecord
  <2>2. hs \in Seq([slot : Addr, size : 1 .. MaxAddr])
    BY <2>1 DEF HeapsOK
  <2>3. L \in Nat
    BY <2>2, LenProperties
  <2>. QED  BY <1>2, <2>1, <2>3
<1>4. ASSUME NEW n \in 1 .. L, NEW k, k.heaps = hs, NEW X, Objects(k, X)
      PROVE  /\ step(n, k).heaps = hs /\ step(n, k) \in HeapRecords
             /\ Objects(step(n, k), Kept(X, M, hs[n].slot, End(hs[n])))
  <2>1. step(n, k) = SweepHeap(k, M, hs[n].slot, End(hs[n])) /\ n \in 1 .. Len(k.heaps)
    BY <1>4 DEF End
  <2>2. /\ SweepHeap(k, M, hs[n].slot, End(hs[n])).heaps = k.heaps
        /\ Objects(SweepHeap(k, M, hs[n].slot, End(hs[n])), Kept(X, M, hs[n].slot, End(hs[n])))
    BY <1>4, <2>1, HeapSwept
  <2>. QED  BY <1>4, <2>1, <2>2 DEF Objects
<1>. HIDE DEF f, step, L
<1>5. h \in D
  BY <1>3 DEF Objects
<1>6. ASSUME NEW n \in 1 .. L, NEW k \in D  PROVE step(n, k) \in D
  <2>1. PICK X \in SUBSET Addr : Objects(k, X) /\ k.heaps = hs
    OBVIOUS
  <2>2. Kept(X, M, hs[n].slot, End(hs[n])) \in SUBSET Addr
    BY DEF Kept
  <2>3. /\ step(n, k).heaps = hs /\ step(n, k) \in HeapRecords
        /\ Objects(step(n, k), Kept(X, M, hs[n].slot, End(hs[n])))
    BY <1>4, <2>1
  <2>. QED  BY <2>2, <2>3
<1>. HIDE DEF D
<1>7. F \in [Nat -> [D -> D]]
  BY <1>6
<1>8. PICK g \in [0 .. L -> D] : Recurses(g, h, F, L)
  <2>. HIDE DEF F
  <2>. QED  BY <1>3, <1>5, <1>7, RecursionExists
<1>9. Walk(g)
  <2>1. \A n \in 0 .. L : g[n] = IF n = 0 THEN h ELSE F[n][g[n - 1]]
    BY <1>8 DEF Recurses
  <2>2. \A n \in 0 .. L : n # 0 => n \in Nat /\ n \in 1 .. L /\ g[n - 1] \in D
    BY <1>3
  <2>3. \A n \in Nat, k \in D : n \in 1 .. L => F[n][k] = step(n, k)
    OBVIOUS
  <2>. HIDE DEF F
  <2>. QED  BY <2>1, <2>2, <2>3
<1>. HIDE DEF F
<1>10. PICK u : u = f
  OBVIOUS
<1>11. Walk(u)
  BY <1>9, <1>10 DEF f
<1>12. 0 \in 0 .. L /\ \A n \in 1 .. L : n \in 0 .. L /\ n # 0
  BY <1>3
<1>13. u[0] = h /\ \A n \in 1 .. L : u[n] = step(n, u[n - 1])
  <2>1. \A n \in 0 .. L : u[n] = IF n = 0 THEN h ELSE step(n, u[n - 1])
    BY <1>11
  <2>. QED  BY <1>12, <2>1, Zenon
<1>14. \A n \in Nat : n <= L => u[n].heaps = hs /\ Objects(u[n], Rest(n))
  <2>. DEFINE T == {n \in Nat : n <= L => u[n].heaps = hs /\ Objects(u[n], Rest(n))}
  <2>1. 0 \in T
    <3>1. Rest(0) = A
      OBVIOUS
    <3>. QED  BY <1>13, <3>1
  <2>2. ASSUME NEW n \in Nat, n \in T  PROVE n + 1 \in T
    <3>. SUFFICES ASSUME n + 1 <= L
                  PROVE  u[n + 1].heaps = hs /\ Objects(u[n + 1], Rest(n + 1))
      BY DEF T
    <3>1. n + 1 \in 1 .. L /\ (n + 1) - 1 = n /\ u[n].heaps = hs /\ Objects(u[n], Rest(n))
      BY <1>3, <2>2
    <3>2. u[n + 1] = step(n + 1, u[n])
      BY <1>13, <3>1
    <3>3. Kept(Rest(n), M, hs[n + 1].slot, End(hs[n + 1])) = Rest(n + 1)
      <4>1. 1 .. n + 1 = (1 .. n) \cup {n + 1}
        OBVIOUS
      <4>. QED  BY <4>1 DEF Kept
    <3>. HIDE DEF Rest
    <3>4. /\ step(n + 1, u[n]).heaps = hs
          /\ Objects(step(n + 1, u[n]), Kept(Rest(n), M, hs[n + 1].slot, End(hs[n + 1])))
      BY <1>4, <3>1
    <3>. QED  BY <3>2, <3>3, <3>4
  <2>. HIDE DEF T
  <2>3. Nat \subseteq T
    BY <2>1, <2>2, NatSetInduction
  <2>. QED  BY <2>3 DEF T
<1>15. Rest(L) = A \cap M
  <2>1. ASSUME NEW b \in A
        PROVE  \E j \in 1 .. L : ~(b < hs[j].slot \/ b >= End(hs[j]))
    <3>1. PICK j \in 1 .. L : InHeap(b, hs[j], Sizes(h.hdr), B)
      BY <1>3 DEF Tiles, L
    <3>2. b \in Nat /\ Sizes(h.hdr)[b] \in Nat /\ Sizes(h.hdr)[b] > 0
      BY <1>3, TileTyped
    <3>3. hs[j].slot \in Nat /\ End(hs[j]) \in Nat
      BY <1>3, HeapTyped DEF L
    <3>. QED  BY <3>1, <3>2, <3>3 DEF InHeap
  <2>. QED  BY <2>1
<1>16. u[L].heaps = hs /\ Objects(u[L], A \cap M)
  <2>1. u[L].heaps = hs /\ Objects(u[L], Rest(L))
    <3>. HIDE DEF Rest
    <3>1. L \in Nat /\ L <= L
      BY <1>3
    <3>. QED  BY <1>14, <3>1
  <2>. HIDE DEF Rest
  <2>. QED  BY <1>15, <2>1
<1>. QED  BY <1>1, <1>10, <1>16

(***************************************************************************)
(* A collection.                                                           *)
(***************************************************************************)
LEMMA PointerTargets ==
  ASSUME NEW A, Apart(A), NEW at, Finds(at, A), NEW p \in Starts(A)
  PROVE  at[p] \in A /\ p = at[p] + 1 /\ at[p] # NULL /\ p \in Addr
<1>1. PICK b \in A : p = b + 1
  BY DEF Starts
<1>2. p \in Words(b) /\ p \in Addr
  BY <1>1, WordsApart
<1>3. at[p] = b
  BY <1>2 DEF Finds
<1>4. b # NULL
  BY Constants DEF Apart
<1>. QED  BY <1>1, <1>2, <1>3, <1>4

LEMMA Collected ==
  ASSUME NEW A, Objects(heap, A), Pointing(word, A), Held(roots, local, A)
  PROVE  /\ Objects(gc(heap), Rooted) /\ gc(heap).heaps = heap.heaps
         /\ Rooted \in SUBSET A
         /\ Least(Rooted, word, Target(heap), ToSet(roots), A)
<1>. DEFINE at == Target(heap)
            P == ToSet(roots)
            M == gc_mark(heap, at, roots)
<1>1. /\ Apart(A) /\ Finds(at, A) /\ \A b \in A : NEXT_HEADER(heap, b) = b + ObjSize
  BY ObjectsApart, TargetFinds
<1>2. roots \in Seq(Starts(A)) /\ roots \in Seq(Starts(A) \cup {NULL})
  BY DEF Held
<1>3. P \in SUBSET (NULL .. MaxAddr)
  <2>1. P \subseteq Starts(A)
    BY <1>2, ToSetSeq
  <2>2. \A p \in Starts(A) : p \in Addr
    BY <1>1, PointerTargets
  <2>. QED  BY <2>1, <2>2, Constants DEF Addr
<1>4. gc(heap) = gc_sweep(heap, M)
  BY DEF gc
<1>5. Rooted = Reach(P)
  BY DEF Rooted
<1>. HIDE DEF at, P, M
<1>6. Least(Reach(P), word, at, P, A)
  BY <1>3, ReachLeast DEF at
<1>7. Least(M, word, at, P, A)
  BY <1>1, <1>2, MarkLeast DEF M, P
<1>8. M = Rooted /\ Rooted \in SUBSET A
  BY <1>5, <1>6, <1>7, LeastIsOne DEF Least, Closes
<1>9. gc_sweep(heap, M).heaps = heap.heaps /\ Objects(gc_sweep(heap, M), A \cap M)
  BY HeapsSwept
<1>10. A \cap M = Rooted
  BY <1>8
<1>. QED  BY <1>4, <1>5, <1>6, <1>8, <1>9, <1>10 DEF at, P

(* What a collection wipes.                                                *)
LEMMA WipedWords ==
  ASSUME NEW h, NEW R, Objects(h, R), word \in [Addr -> Addr \cup {NULL}]
  PROVE  /\ Wiped(h) \in [Addr -> Addr \cup {NULL}]
         /\ \A b \in R : \A a \in Words(b) : Wiped(h)[a] = word[a]
         /\ \A a \in Addr : Wiped(h)[a] # NULL =>
               Wiped(h)[a] = word[a] /\ \E b \in R : a \in Words(b)
<1>. DEFINE at == Target(h)
            w == [a \in Addr |-> IF at[a] # NULL THEN word[a] ELSE NULL]
<1>1. Finds(at, R) /\ Apart(R)
  BY TargetFinds, ObjectsApart
<1>2. Wiped(h) = w
  BY DEF Wiped
<1>. HIDE DEF at
<1>3. \A b \in R : \A a \in Words(b) : a \in Addr /\ at[a] # NULL
  <2>1. \A b \in R : b # NULL
    BY <1>1, Constants DEF Apart
  <2>2. \A b \in R : Words(b) \subseteq Addr
    BY <1>1, WordsApart
  <2>. QED  BY <1>1, <2>1, <2>2 DEF Finds
<1>4. \A a \in Addr : at[a] # NULL => \E b \in R : a \in Words(b)
  <2>1. \A a \in Addr : a \in NULL .. MaxAddr
    BY Constants DEF Addr
  <2>. QED  BY <1>1, <2>1 DEF Finds
<1>. QED  BY <1>2, <1>3, <1>4

(* After a collection the objects left point to one another.               *)
LEMMA CollectedSane ==
  ASSUME NEW A, Objects(heap, A), Pointing(word, A), Held(roots, local, A),
         NEW h, h = gc(heap),
         NEW l, l = IF Target(h)[local] # NULL THEN local ELSE NULL
  PROVE  Sane(h, Wiped(h), roots, l)
<1>. DEFINE at == Target(heap)
            R == Rooted
            w == Wiped(h)
<1>1. /\ Objects(h, R) /\ R \in SUBSET A
      /\ Closes(R, word, at, ToSet(roots), A)
  BY Collected DEF Least
<1>2. Apart(A) /\ Finds(at, A) /\ Finds(Target(h), R) /\ R \in SUBSET Addr
  BY <1>1, ObjectsApart, TargetFinds DEF Apart
<1>3. /\ w \in [Addr -> Addr \cup {NULL}]
      /\ \A a \in Addr : w[a] # NULL => w[a] = word[a] /\ \E b \in R : a \in Words(b)
  BY <1>1, WipedWords DEF Pointing
<1>. HIDE DEF at, R, w
<1>4. ASSUME NEW a \in Addr, w[a] # NULL  PROVE w[a] \in Starts(R)
  <2>1. PICK b \in R : a \in Words(b)
    BY <1>3, <1>4
  <2>2. w[a] = word[a] /\ word[a] \in Starts(A)
    BY <1>3, <1>4 DEF Pointing
  <2>3. at[word[a]] # NULL /\ word[a] = at[word[a]] + 1
    BY <1>2, <2>2, PointerTargets
  <2>4. at[word[a]] \in R
    BY <1>1, <2>1, <2>3 DEF Closes
  <2>. QED  BY <2>2, <2>3, <2>4 DEF Starts
<1>5. Pointing(w, R)
  BY <1>3, <1>4 DEF Pointing
<1>6. roots \in Seq(Starts(R)) /\ Len(roots) <= MaxRoots
  <2>1. roots \in Seq(Starts(A)) /\ Len(roots) <= MaxRoots
    BY DEF Held
  <2>2. ASSUME NEW i \in 1 .. Len(roots)  PROVE roots[i] \in Starts(R)
    <3>1. roots[i] \in Starts(A) /\ roots[i] \in ToSet(roots)
      BY <2>1 DEF ToSet
    <3>2. at[roots[i]] # NULL /\ roots[i] = at[roots[i]] + 1
      BY <1>2, <3>1, PointerTargets
    <3>3. at[roots[i]] \in R
      BY <1>1, <3>1, <3>2 DEF Closes
    <3>. QED  BY <3>2, <3>3 DEF Starts
  <2>. QED  BY <2>1, <2>2
<1>7. l \in Starts(R) \cup {NULL}
  <2>. SUFFICES ASSUME Target(h)[local] # NULL, local # NULL, l = local
                PROVE  local \in Starts(R)
    OBVIOUS
  <2>1. local \in Starts(A)
    BY DEF Held
  <2>2. PICK c \in A : local = c + 1
    BY <2>1 DEF Starts
  <2>3. local \in Words(c) /\ local \in NULL .. MaxAddr
    BY <1>2, <2>2, WordsApart, Constants DEF Addr
  <2>4. PICK b \in R : local \in Words(b)
    BY <1>2, <2>3 DEF Finds
  <2>5. b = c
    BY <1>1, <1>2, <2>3, <2>4, WordsApart
  <2>. QED  BY <2>2, <2>5 DEF Starts
<1>8. Held(roots, l, R)
  BY <1>6, <1>7 DEF Held
<1>9. \E X \in SUBSET Addr : Objects(h, X) /\ Pointing(w, X) /\ Held(roots, l, X)
  BY <1>1, <1>2, <1>5, <1>8
<1>. QED  BY <1>9 DEF Sane, w

(***************************************************************************)
(* A request.                                                              *)
(***************************************************************************)
LEMMA PointingMore ==
  ASSUME NEW A, NEW X, A \subseteq X, NEW w, NEW rs, NEW l, Pointing(w, A), Held(rs, l, A)
  PROVE  Pointing(w, X) /\ Held(rs, l, X)
<1>1. Starts(A) \subseteq Starts(X)
  BY DEF Starts
<1>2. Pointing(w, X)
  BY <1>1 DEF Pointing
<1>3. rs \in Seq(Starts(X))
  BY <1>1 DEF Held
<1>. QED  BY <1>1, <1>2, <1>3 DEF Held

(* The units of the objects A.                                             *)
Extents(A) == UNION {b .. (b + ObjSize) - 1 : b \in A}

LEMMA RoomIs ==
  ASSUME NEW A, Objects(heap, A)
  PROVE  Taken = Extents(A) /\ Extents(A) \in SUBSET Addr /\ Units(heap) \in SUBSET Addr
<1>1. Allocated(heap) = A /\ \A b \in A : NEXT_HEADER(heap, b) = b + ObjSize
  BY TargetFinds
<1>2. {b .. NEXT_HEADER(heap, b) - 1 : b \in A} = {b .. (b + ObjSize) - 1 : b \in A}
  BY <1>1
<1>3. Taken = Extents(A)
  BY <1>1, <1>2, Zenon DEF Taken, Extents
<1>4. Apart(A)
  BY ObjectsApart
<1>5. \A b \in A : b .. (b + ObjSize) - 1 \subseteq Addr
  <2>1. \A b \in A : b \in 1 .. MaxAddr /\ b + ObjSize <= MaxAddr + 1
    BY <1>4 DEF Apart, Addr
  <2>. QED  BY <2>1, ObjectSize, Constants DEF Addr
<1>6. Extents(A) \in SUBSET Addr
  BY <1>5 DEF Extents
<1>7. Units(heap) \in SUBSET Addr
  <2>1. PICK N, B \in SUBSET Addr : Well(heap, N, B, ObjSize)
    BY DEF Objects
  <2>. QED  BY <2>1, WellRecord, UnitsTyped
<1>. QED  BY <1>3, <1>6, <1>7

(* The head of the list becomes an object, and something stays free.       *)
LEMMA ObjectAdded ==
  ASSUME NEW h, NEW A, NEW N \in SUBSET Addr, NEW B \in SUBSET Addr,
         Well(h, N, B, ObjSize), N # {}, B \ N = A, Flagged(h.hdr) = A,
         \A b \in A : h.hdr[b].size = ObjSize, Extents(A) \in SUBSET Addr,
         \/ h.hdr[h.free_list].size > ObjSize
         \/ Cardinality(Extents(A)) + ObjSize < Cardinality(Units(h)),
         NEW res, res = TakeFirstFit(h, ObjSize)
  PROVE  res.ptr \in Addr /\ Objects(res.heap, A \cup {res.ptr})
<1>. DEFINE p == res.ptr
            k == res.heap
            X == A \cup {p}
<1>1. Handed(h, res, N, B, ObjSize)
  BY ObjectSize, TakeKeeps
<1>2. /\ k.heaps = h.heaps /\ p \in N /\ p = h.free_list /\ k.hdr[p].size = ObjSize
      /\ Flagged(k.hdr) = X
      /\ \E N2, B2 \in SUBSET Addr :
            /\ Well(k, N2, B2, ObjSize)
            /\ B2 \ N2 = X
            /\ h.hdr[p].size > ObjSize => N2 # {}
            /\ \A b \in A : k.hdr[b].size = h.hdr[b].size
  BY <1>1 DEF Handed
<1>3. PICK N2, B2 \in SUBSET Addr :
            /\ Well(k, N2, B2, ObjSize)
            /\ B2 \ N2 = X
            /\ h.hdr[p].size > ObjSize => N2 # {}
            /\ \A b \in A : k.hdr[b].size = h.hdr[b].size
  BY <1>2
<1>4. p \in Addr /\ p \in Nat
  BY <1>2, Constants
<1>. HIDE DEF p, k
<1>5. \A b \in X : k.hdr[b].size = ObjSize
  BY <1>2, <1>3
<1>6. N2 # {}
  <2>. SUFFICES ASSUME N2 = {}  PROVE FALSE
    OBVIOUS
  <2>1. Cardinality(Extents(A)) + ObjSize < Cardinality(Units(h))
    BY <1>2, <1>3
  <2>2. ASSUME NEW u \in Units(k)  PROVE u \in Extents(A) \cup (p .. (p + ObjSize - 1))
    <3>1. PICK b \in B2 : b <= u /\ u < b + Sizes(k.hdr)[b]
      BY <1>3, UnitInBlock
    <3>2. b \in X /\ b \in Nat
      BY <1>3, <3>1, Constants
    <3>3. Sizes(k.hdr)[b] = ObjSize
      <4>1. k.hdr[b].size = Sizes(k.hdr)[b]
        BY <1>3, WellRecord
      <4>. QED  BY <1>5, <3>2, <4>1
    <3>4. u \in Nat
      <4>1. Units(k) \in SUBSET Addr
        BY <1>3, WellRecord, UnitsTyped
      <4>. QED  BY <4>1, Constants
    <3>5. u \in b .. (b + ObjSize) - 1 /\ (b + ObjSize) - 1 = b + ObjSize - 1
      BY <3>1, <3>2, <3>3, <3>4, ObjectSize
    <3>. QED  BY <3>2, <3>5 DEF Extents
  <2>3. Units(k) = Units(h)
    BY <1>2 DEF Units
  <2>4. Units(h) \subseteq Extents(A) \cup (p .. (p + ObjSize - 1))
    BY <2>2, <2>3
  <2>5. /\ Cardinality(Units(h)) <= Cardinality(Extents(A)) + ObjSize
        /\ Cardinality(Extents(A)) \in Nat /\ Cardinality(Units(h)) \in Nat
    BY <1>4, <2>4, ObjectSize, UnionBound
  <2>. QED  BY <2>1, <2>5, ObjectSize
<1>7. k \in HeapRecords /\ X \in SUBSET Addr
  BY <1>3, WellRecord
<1>8. Objects(k, X)
  BY <1>2, <1>3, <1>5, <1>6, <1>7 DEF Objects
<1>. QED  BY <1>4, <1>8 DEF p, k

LEMMA SlackFacts ==
  ASSUME SlackClient
  PROVE  /\ ~Interior /\ Reserve > 0 /\ TINY_HEAP_SIZE > ObjSize
         /\ Multiple(TINY_HEAP_SIZE, ObjSize)
BY ObjectSize, Constants, MultipleMod DEF SlackClient

LEMMA MallocSane ==
  ASSUME SlackClient, NEW A, Objects(heap, A), Pointing(word, A), Held(roots, local, A), Malloc
  PROVE  IInv'
<1>. DEFINE r == ObjSize
            full == Fits(heap, r) = {}
            h1 == IF full THEN gc(heap) ELSE heap
            res == gc_malloc(heap, h1, TRUE, r)
<1>1. /\ heap.heaps = <<>> \/ Reserve = 0 \/ Room >= r + Reserve
      /\ Fits(h1, r) = {} => HasRoom(h1, r)
      /\ heap' = res.heap
      /\ word' = IF full THEN Wiped(h1) ELSE word
      /\ local' = res.ptr + HEADER_SIZE
      /\ roots' = roots
  BY DEF Malloc
<1>2. PICK N, B \in SUBSET Addr : /\ Well(heap, N, B, r) /\ B \ N = A
                                  /\ heap.heaps # <<>> => N # {}
  BY DEF Objects
<1>3. Fits(heap, r) # {} <=> N # {}
  BY <1>2, ObjectSize, FitsFirst
<1>4. ASSUME NEW w, NEW X, Objects(res.heap, X \cup {res.ptr}), res.ptr \in Addr,
             Pointing(w, X), Held(roots, NULL, X), word' = w
      PROVE  IInv'
  <2>1. PICK Y : Y = X \cup {res.ptr}
    OBVIOUS
  <2>2. PICK k : k = res.heap
    OBVIOUS
  <2>3. local' \in Starts(Y)
    BY <1>1, <2>1 DEF Starts, HEADER_SIZE
  <2>4. X \subseteq Y /\ Objects(k, Y) /\ Y \in SUBSET Addr
    BY <1>4, <2>1, <2>2 DEF Objects
  <2>5. Pointing(w, Y) /\ Held(roots, NULL, Y)
    BY <1>4, <2>4, PointingMore
  <2>6. Held(roots, local', Y)
    BY <2>3, <2>5 DEF Held
  <2>7. Sane(k, w, roots, local')
    BY <2>4, <2>5, <2>6 DEF Sane
  <2>8. heap' = k /\ word' = w /\ roots' = roots
    BY <1>1, <1>4, <2>2
  <2>. QED  BY <2>7, <2>8 DEF IInv
<1>5. \A X : Held(roots, local, X) => Held(roots, NULL, X)
  BY DEF Held
<1>6. CASE heap.heaps # <<>>
  <2>1. ~full /\ N # {}
    BY <1>2, <1>3, <1>6
  <2>2. res = TakeFirstFit(heap, r) /\ word' = word
    BY <1>1, <2>1 DEF gc_malloc
  <2>3. /\ Taken = Extents(A) /\ Extents(A) \in SUBSET Addr /\ Units(heap) \in SUBSET Addr
    BY RoomIs
  <2>4. Cardinality(Extents(A)) + r < Cardinality(Units(heap))
    <3>1. Cardinality(Extents(A)) \in Nat /\ Cardinality(Units(heap)) \in Nat
      BY <2>3, AddrFinite, FS_CardinalityType
    <3>2. Room = Cardinality(Units(heap)) - Cardinality(Extents(A))
      BY <2>3 DEF Room
    <3>3. Room >= r + Reserve /\ Reserve > 0
      BY <1>1, <1>6, SlackFacts
    <3>. QED  BY <3>1, <3>2, <3>3, ObjectSize
  <2>5. Flagged(heap.hdr) = A /\ \A b \in A : heap.hdr[b].size = r
    BY DEF Objects
  <2>. HIDE DEF res
  <2>6. res.ptr \in Addr /\ Objects(res.heap, A \cup {res.ptr})
    BY <1>2, <2>1, <2>2, <2>3, <2>4, <2>5, ObjectAdded
  <2>. QED  BY <1>4, <1>5, <2>2, <2>6
<1>7. CASE heap.heaps = <<>>
  <2>1. N = {} /\ B = {} /\ A = {}
    BY <1>2, <1>7, NoHeaps
  <2>2. full /\ h1 = gc(heap) /\ word' = Wiped(h1)
    BY <1>1, <1>3, <2>1
  <2>3. Objects(h1, {}) /\ h1.heaps = <<>>
    <3>1. Objects(gc(heap), Rooted) /\ gc(heap).heaps = heap.heaps /\ Rooted \in SUBSET A
      BY Collected
    <3>2. Rooted = {}
      BY <2>1, <3>1
    <3>. QED  BY <1>7, <2>2, <3>1, <3>2
  <2>. DEFINE n == TINY_HEAP_SIZE
              h2 == AddFree(NewHeap(h1, n), Brk(h1))
  <2>. HIDE DEF full
  <2>4. res = IF Fits(heap, r) # {} THEN TakeFirstFit(heap, r)
              ELSE IF Fits(h1, r) # {} THEN TakeFirstFit(h1, r)
              ELSE IF Fits(gc_grow(h1, r), r) # {} THEN TakeFirstFit(gc_grow(h1, r), r)
              ELSE [ptr |-> NULL, heap |-> gc_grow(h1, r)]
    <3>. HIDE DEF h1
    <3>. QED  BY <1>3, <2>1, Zenon DEF gc_malloc
  <2>. HIDE DEF h1, res
  <2>5. PICK N1, B1 \in SUBSET Addr : Well(h1, N1, B1, r) /\ B1 \ N1 = {}
    BY <2>3 DEF Objects
  <2>6. N1 = {} /\ B1 = {}
    BY <2>3, <2>5, NoHeaps
  <2>7. Well(h1, {}, {}, r)
    BY <2>5, <2>6
  <2>8. Fits(h1, r) = {}
    BY <2>7, ObjectSize, FitsFirst
  <2>9. HeapSize(r) = n /\ n \in Nat \ {0} /\ n > r /\ Multiple(n, r)
    BY Constants, SlackFacts DEF HeapSize
  <2>10. Brk(h1) = 1 /\ Brk(h1) + n <= MaxAddr + 1
    <3>1. Brk(h1) = 1
      BY <2>3 DEF Brk
    <3>2. Brk(h1) + n - 1 <= MaxAddr
      BY <1>1, <2>8, <2>9 DEF HasRoom
    <3>. QED  BY <2>9, <3>1, <3>2, Constants
  <2>11. gc_grow(h1, r) = h2
    BY <2>9 DEF gc_grow
  <2>12. Added(h1, h2, n, {}, {}, r)
    <3>1. PICK k : k = h2
      OBVIOUS
    <3>2. k = AddFree(NewHeap(h1, n), Brk(h1))
      BY <3>1
    <3>. HIDE DEF h2, n
    <3>3. Added(h1, k, n, {}, {}, r)
      BY <2>7, <2>9, <2>10, <3>2, ObjectSize, HeapAdded
    <3>. QED  BY <3>1, <3>3
  <2>. HIDE DEF h2, n
  <2>13. /\ HasFree(h1, h2, {}, r) /\ h2.hdr[h2.free_list].size > r
         /\ Flagged(h2.hdr) = {}
    <3>1. /\ HasFree(h1, h2, {} \ {}, r) /\ h2.hdr[h2.free_list].size = n
          /\ Flagged(h2.hdr) = Flagged(h1.hdr) \ {Brk(h1)}
      BY <2>12 DEF Added
    <3>2. Flagged(h1.hdr) = {}
      BY <2>3 DEF Objects
    <3>3. {} \ {} = {}
      OBVIOUS
    <3>. QED  BY <2>9, <3>1, <3>2, <3>3
  <2>14. PICK N2, B2 \in SUBSET Addr : Well(h2, N2, B2, r) /\ N2 # {} /\ B2 \ N2 = {}
    BY <2>13 DEF HasFree
  <2>15. res = TakeFirstFit(h2, r)
    <3>1. Fits(h2, r) # {}
      BY <2>14, ObjectSize, FitsFirst
    <3>. QED  BY <1>3, <2>1, <2>4, <2>8, <2>11, <3>1
  <2>16. Extents({}) \in SUBSET Addr
    BY DEF Extents
  <2>17. res.ptr \in Addr /\ Objects(res.heap, {} \cup {res.ptr})
    <3>1. PICK X : X = {}
      OBVIOUS
    <3>2. res.ptr \in Addr /\ Objects(res.heap, X \cup {res.ptr})
      BY <2>13, <2>14, <2>15, <2>16, <3>1, ObjectAdded
    <3>. QED  BY <3>1, <3>2
  <2>18. Pointing(Wiped(h1), {})
    <3>1. /\ Wiped(h1) \in [Addr -> Addr \cup {NULL}]
          /\ \A a \in Addr : Wiped(h1)[a] # NULL => \E b \in {} : a \in Words(b)
      BY <2>3, WipedWords DEF Pointing
    <3>. QED  BY <3>1 DEF Pointing
  <2>19. Held(roots, NULL, {})
    BY <1>5, <2>1
  <2>. QED  BY <1>4, <2>2, <2>17, <2>18, <2>19
<1>. QED  BY <1>6, <1>7

(***************************************************************************)
(* The invariant.                                                          *)
(***************************************************************************)
LEMMA InitInvariant == Init => IInv
<1>. SUFFICES ASSUME Init  PROVE Sane(heap, word, roots, local)
  BY DEF IInv
<1>1. /\ EmptyHeap \in Fresh(ObjSize) /\ EmptyHeap.heaps = <<>>
      /\ Well(EmptyHeap, {}, {}, ObjSize)
  BY ObjectSize, FreshEmpty
<1>2. Flagged(EmptyHeap.hdr) = {}
  BY DEF EmptyHeap, Blank, Flagged
<1>3. EmptyHeap \in HeapRecords
  BY <1>1 DEF Fresh
<1>4. Objects(EmptyHeap, {})
  <2>1. \E N, B \in SUBSET Addr : /\ Well(EmptyHeap, N, B, ObjSize)
                                  /\ EmptyHeap.heaps # <<>> => N # {}
                                  /\ B \ N = {}
    BY <1>1
  <2>. QED  BY <1>2, <1>3, <2>1 DEF Objects
<1>5. Pointing(word, {})
  BY Constants DEF Init, Pointing
<1>6. Held(roots, local, {})
  BY ObjectSize DEF Init, Held
<1>7. \E A \in SUBSET Addr : Objects(heap, A) /\ Pointing(word, A) /\ Held(roots, local, A)
  BY <1>4, <1>5, <1>6 DEF Init
<1>. QED  BY <1>7 DEF Sane

LEMMA GcSane ==
  ASSUME NEW A, Objects(heap, A), Pointing(word, A), Held(roots, local, A), Gc
  PROVE  IInv'
<1>1. PICK h : h = gc(heap)
  OBVIOUS
<1>2. PICK l : l = IF Target(h)[local] # NULL THEN local ELSE NULL
  OBVIOUS
<1>3. Sane(h, Wiped(h), roots, l)
  BY <1>1, <1>2, CollectedSane
<1>4. heap' = gc(heap) /\ word' = Wiped(heap') /\ roots' = roots
      /\ local' = IF Target(heap')[local] # NULL THEN local ELSE NULL
  BY DEF Gc
<1>5. heap' = h /\ word' = Wiped(h) /\ local' = l /\ roots' = roots
  BY <1>1, <1>2, <1>4
<1>. QED  BY <1>3, <1>5 DEF IInv

LEMMA ReachObjects ==
  ASSUME NEW A, Objects(heap, A), Pointing(word, A), Held(roots, local, A)
  PROVE  Usable \in SUBSET A
<1>1. Apart(A) /\ Finds(Target(heap), A)
  BY ObjectsApart, TargetFinds
<1>2. ToSet(roots) \cup {local} \in SUBSET (NULL .. MaxAddr)
  <2>1. ToSet(roots) \subseteq Starts(A) /\ local \in Starts(A) \cup {NULL}
    BY ToSetSeq DEF Held
  <2>2. \A p \in Starts(A) : p \in Addr
    BY <1>1, PointerTargets
  <2>. QED  BY <2>1, <2>2, Constants DEF Addr
<1>3. Least(Reach(ToSet(roots) \cup {local}), word, Target(heap), ToSet(roots) \cup {local}, A)
  BY <1>2, ReachLeast
<1>. QED  BY <1>3 DEF Least, Closes, Usable

LEMMA AddRootSane ==
  ASSUME SlackClient, NEW A, Objects(heap, A), Pointing(word, A), Held(roots, local, A), AddRoot
  PROVE  IInv'
<1>1. /\ local # NULL /\ Len(roots) < MaxRoots
      /\ \E ptr \in Pointers(Target(heap)[local]) : roots' = Append(roots, ptr)
      /\ heap' = heap /\ word' = word /\ local' = local
  BY DEF AddRoot
<1>2. local \in Starts(A) /\ roots \in Seq(Starts(A))
  BY <1>1 DEF Held
<1>3. Apart(A) /\ Finds(Target(heap), A)
  BY ObjectsApart, TargetFinds
<1>4. Pointers(Target(heap)[local]) = {Target(heap)[local] + 1}
  BY SlackFacts DEF Pointers, HEADER_SIZE
<1>5. local = Target(heap)[local] + 1
  BY <1>2, <1>3, PointerTargets
<1>6. roots' = Append(roots, local)
  BY <1>1, <1>4, <1>5
<1>7. PICK rs : rs = Append(roots, local)
  OBVIOUS
<1>8. Held(rs, local, A)
  <2>1. rs \in Seq(Starts(A)) /\ Len(rs) = Len(roots) + 1 /\ Len(roots) \in Nat
    BY <1>2, <1>7, AppendProperties, LenProperties
  <2>. QED  BY <1>1, <1>2, <2>1, ObjectSize DEF Held
<1>9. Sane(heap, word, rs, local)
  BY <1>8 DEF Sane, Objects
<1>. QED  BY <1>1, <1>6, <1>7, <1>9 DEF IInv

LEMMA StoreSane ==
  ASSUME SlackClient, NEW A, Objects(heap, A), Pointing(word, A), Held(roots, local, A), Store
  PROVE  IInv'
<1>1. PICK a \in UNION {Body(heap, b) : b \in Usable},
           ptr \in {NULL} \cup UNION {Pointers(b) : b \in Usable} :
        word' = [word EXCEPT ![a] = ptr]
  BY DEF Store
<1>2. heap' = heap /\ roots' = roots /\ local' = local
  BY DEF Store
<1>3. Usable \in SUBSET A
  BY ReachObjects
<1>4. Apart(A) /\ \A b \in A : Body(heap, b) = Words(b)
  BY ObjectsApart, TargetFinds
<1>5. PICK c \in A : a \in Words(c)
  BY <1>1, <1>3, <1>4
<1>6. a \in Addr
  BY <1>4, <1>5, WordsApart
<1>7. ptr \in {NULL} \cup Starts(A)
  <2>1. \A b \in A : Pointers(b) = {b + 1}
    BY SlackFacts DEF Pointers, HEADER_SIZE
  <2>. QED  BY <1>1, <1>3, <2>1 DEF Starts
<1>8. ptr \in Addr \cup {NULL}
  BY <1>4, <1>7, WordsApart DEF Starts
<1>9. PICK w : w = [word EXCEPT ![a] = ptr]
  OBVIOUS
<1>10. w \in [Addr -> Addr \cup {NULL}] /\ w[a] = ptr /\ \A d \in Addr : d # a => w[d] = word[d]
  BY <1>6, <1>8, <1>9 DEF Pointing
<1>11. Pointing(w, A)
  BY <1>5, <1>7, <1>10 DEF Pointing
<1>12. Sane(heap, w, roots, local)
  BY <1>11 DEF Sane, Objects
<1>. QED  BY <1>1, <1>2, <1>9, <1>12 DEF IInv

LEMMA NextInvariant ==
  ASSUME SlackClient, IInv, [Next]_vars
  PROVE  IInv'
<1>1. PICK A \in SUBSET Addr : Objects(heap, A) /\ Pointing(word, A) /\ Held(roots, local, A)
  BY DEF IInv, Sane
<1>2. CASE Malloc
  BY <1>1, <1>2, MallocSane
<1>3. CASE Gc
  BY <1>1, <1>3, GcSane
<1>4. CASE AddRoot
  BY <1>1, <1>4, AddRootSane
<1>5. CASE Store
  BY <1>1, <1>5, StoreSane
<1>6. CASE UNCHANGED vars
  BY <1>6 DEF vars, IInv
<1>. QED  BY <1>2, <1>3, <1>4, <1>5, <1>6 DEF Next

LEMMA Invariant ==
  ASSUME SlackClient
  PROVE  Spec => []IInv
<1>1. Init => IInv
  BY InitInvariant
<1>2. IInv /\ [Next]_vars => IInv'
  BY NextInvariant
<1>. QED  BY <1>1, <1>2, PTL DEF Spec

(***************************************************************************)
(* What the invariant says.                                                *)
(***************************************************************************)
LEMMA IntactFacts == IInv => HeapIntact
<1>. SUFFICES ASSUME IInv  PROVE HeapIntact
  OBVIOUS
<1>1. PICK A \in SUBSET Addr : Objects(heap, A) /\ Pointing(word, A) /\ Held(roots, local, A)
  BY DEF IInv, Sane
<1>2. PICK N, B \in SUBSET Addr : Well(heap, N, B, ObjSize) /\ B \ N = A
  BY <1>1 DEF Objects
<1>3. /\ heap.hdr \in [Addr -> Header] /\ HeapsOK(heap.heaps)
      /\ Tiles(B, Sizes(heap.hdr), heap.heaps, ObjSize)
      /\ ListOf(heap.free_list, Links(heap.hdr), N) /\ N \subseteq B
  BY <1>2 DEF Well, Good
<1>4. Apart(A) /\ Allocated(heap) = A
  BY <1>1, ObjectsApart, TargetFinds
<1>5. TypeOK
  <2>1. heap.free_list \in Addr \cup {NULL}
    BY <1>3 DEF ListOf
  <2>2. heap.heaps \in Seq([slot : Addr, size : 1 .. MaxAddr])
    BY <1>3 DEF HeapsOK
  <2>3. Starts(A) \subseteq Addr
    BY <1>4, WordsApart DEF Starts
  <2>4. roots \in Seq(Addr) /\ Len(roots) <= MaxRoots /\ local \in Addr \cup {NULL}
    BY <1>1, <2>3 DEF Held
  <2>5. word \in [Addr -> Addr \cup {NULL}]
    BY <1>1 DEF Pointing
  <2>. QED  BY <1>3, <2>1, <2>2, <2>4, <2>5 DEF TypeOK, Header
<1>6. Blocks(heap) = B /\ \A i \in DOMAIN heap.heaps : ChainEnds(heap, i)
  BY <1>3, BlocksOf
<1>7. Nodes(heap) = N /\ ~Endless(heap)
  BY <1>3, NodesOf
<1>8. N = B \ A
  BY <1>2, <1>3
<1>. QED  BY <1>4, <1>5, <1>6, <1>7, <1>8 DEF HeapIntact

LEMMA RootedFacts ==
  ASSUME NEW A, Objects(heap, A), Pointing(word, A), Held(roots, local, A)
  PROVE  Rooted \in SUBSET A /\ \A b \in Rooted : Body(heap, b) = Words(b)
<1>1. Rooted \in SUBSET A
  BY Collected
<1>2. \A b \in A : Body(heap, b) = Words(b)
  BY TargetFinds
<1>. QED  BY <1>1, <1>2

LEMMA DanglingFacts == IInv => NoDanglingPointer
<1>. SUFFICES ASSUME IInv  PROVE NoDanglingPointer
  OBVIOUS
<1>1. PICK A \in SUBSET Addr : Objects(heap, A) /\ Pointing(word, A) /\ Held(roots, local, A)
  BY DEF IInv, Sane
<1>2. Apart(A) /\ Finds(Target(heap), A)
  BY <1>1, ObjectsApart, TargetFinds
<1>3. \A p \in Starts(A) : Target(heap)[p] # NULL
  BY <1>2, PointerTargets
<1>4. \A i \in DOMAIN roots : roots[i] \in Starts(A)
  BY <1>1 DEF Held
<1>5. \A b \in Rooted : \A a \in Body(heap, b) : word[a] # NULL => word[a] \in Starts(A)
  <2>1. \A b \in Rooted : Body(heap, b) \subseteq Addr
    BY <1>1, <1>2, RootedFacts, WordsApart
  <2>. QED  BY <1>1, <2>1 DEF Pointing
<1>. QED  BY <1>3, <1>4, <1>5 DEF NoDanglingPointer

LEMMA ExactFacts == IInv => GcExact
<1>. SUFFICES ASSUME IInv  PROVE GcExact
  OBVIOUS
<1>1. PICK A \in SUBSET Addr : Objects(heap, A) /\ Pointing(word, A) /\ Held(roots, local, A)
  BY DEF IInv, Sane
<1>2. PICK h : h = gc(heap)
  OBVIOUS
<1>3. Objects(h, Rooted)
  BY <1>1, <1>2, Collected
<1>4. Allocated(h) = Rooted
  BY <1>3, TargetFinds
<1>5. \A b \in Rooted : \A a \in Body(heap, b) : Wiped(h)[a] = word[a]
  <2>1. \A b \in Rooted : \A a \in Words(b) : Wiped(h)[a] = word[a]
    BY <1>1, <1>3, WipedWords DEF Pointing
  <2>. QED  BY <1>1, <2>1, RootedFacts
<1>. QED  BY <1>2, <1>4, <1>5 DEF GcExact

(* Whatever order gc_sweep frees the blocks in, the heap stays a chain of  *)
(* blocks of which the free ones are the free list (mark_sweep.c:44-72,    *)
(* gc.c:174-226).                                                          *)
THEOREM HeapStaysIntact ==
  ASSUME SlackClient
  PROVE  Spec => []HeapIntact
<1>1. Spec => []IInv
  BY Invariant
<1>. QED  BY <1>1, IntactFacts, PTL

(* No root and no word of an object that the roots reach points at freed   *)
(* memory, however the client interleaves its assignments with collections *)
(* (mark_sweep.c:9-40).                                                    *)
THEOREM NothingDangles ==
  ASSUME SlackClient
  PROVE  Spec => []NoDanglingPointer
<1>1. Spec => []IInv
  BY Invariant
<1>. QED  BY <1>1, DanglingFacts, PTL

(* A collection frees what the roots do not reach, all of it, and leaves   *)
(* the words of the rest alone (mark_sweep.c:76-83).                       *)
THEOREM CollectionIsExact ==
  ASSUME SlackClient
  PROVE  Spec => []GcExact
<1>1. Spec => []IInv
  BY Invariant
<1>. QED  BY <1>1, ExactFacts, PTL
=============================================================================
