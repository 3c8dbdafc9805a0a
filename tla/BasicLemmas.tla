---------------------------- MODULE BasicLemmas -----------------------------
(***************************************************************************)
(* Facts about numbers, iterations and sequences that the proofs of the    *)
(* components cite.  Reachability in the modules is an iteration: a        *)
(* function of 0 .. N that starts at a set A and applies F once per step   *)
(* (gc_mark of the collectors is such a walk).  Induction over the numbers *)
(* is over a set of numbers, which needs no operator as a parameter.       *)
(***************************************************************************)
EXTENDS Integers, FiniteSets, SequencesExt, FiniteSetTheorems, SequenceTheorems, TLAPS

LEMMA NatSetInduction ==
  ASSUME NEW S, 0 \in S, \A n \in Nat : n \in S => n + 1 \in S
  PROVE  Nat \subseteq S
<1>. DEFINE R == StrictSubsetOrdering(Nat)
            T == {0 .. n : n \in Nat \ S}
<1>. SUFFICES ASSUME NEW m \in Nat, m \notin S  PROVE FALSE
  OBVIOUS
<1>1. T \subseteq FiniteSubsetsOf(Nat) /\ T # {}
  <2>1. \A n \in Nat : IsFiniteSet(0 .. n) /\ 0 .. n \subseteq Nat
    BY FS_Interval
  <2>. QED  BY <2>1 DEF FiniteSubsetsOf
<1>2. PICK U \in T : \A V \in T : ~ (<<V, U>> \in R)
  <2>. HIDE DEF T, R
  <2>1. IsWellFoundedOn(R, FiniteSubsetsOf(Nat))
    BY FS_StrictSubsetOrderingWellFounded DEF R
  <2>. QED  BY <1>1, <2>1, WFMin
<1>3. PICK n \in Nat \ S : U = 0 .. n
  BY <1>2
<1>4. n - 1 \in Nat \ S
  BY <1>3
<1>5. 0 .. n - 1 \in T /\ <<0 .. n - 1, 0 .. n>> \in R
  BY <1>4 DEF StrictSubsetOrdering
<1>. QED  BY <1>2, <1>3, <1>5

LEMMA NatMin ==
  ASSUME NEW S \in SUBSET Nat, S # {}
  PROVE  /\ Min(S) \in S
         /\ \A n \in S : Min(S) <= n
<1>. DEFINE Above == {n \in Nat : \A m \in S : n <= m}
<1>1. \E n \in S : \A m \in S : n <= m
  <2>. SUFFICES ASSUME \A n \in S : \E m \in S : ~(n <= m)  PROVE FALSE
    OBVIOUS
  <2>1. 0 \in Above
    OBVIOUS
  <2>2. \A n \in Nat : n \in Above => n + 1 \in Above
    OBVIOUS
  <2>. HIDE DEF Above
  <2>3. Nat \subseteq Above
    BY <2>1, <2>2, NatSetInduction
  <2>4. PICK n \in S : TRUE
    OBVIOUS
  <2>5. n + 1 \in Above
    BY <2>3
  <2>. QED  BY <2>4, <2>5 DEF Above
<1>. QED  BY <1>1 DEF Min

(* g starts at A and applies F[n] in step n.                               *)
Recurses(g, A, F, N) == g = [n \in 0 .. N |-> IF n = 0 THEN A ELSE F[n][g[n - 1]]]

LEMMA RecursionExists ==
  ASSUME NEW D, NEW A \in D, NEW F \in [Nat -> [D -> D]], NEW N \in Nat
  PROVE  \E g \in [0 .. N -> D] : Recurses(g, A, F, N)
<1>. DEFINE S == {n \in Nat : \E g \in [0 .. n -> D] : Recurses(g, A, F, n)}
<1>1. 0 \in S
  <2>1. Recurses([n \in 0 .. 0 |-> A], A, F, 0) /\ [n \in 0 .. 0 |-> A] \in [0 .. 0 -> D]
    BY DEF Recurses
  <2>. QED  BY <2>1
<1>2. ASSUME NEW n \in Nat, n \in S  PROVE n + 1 \in S
  <2>1. PICK g \in [0 .. n -> D] : Recurses(g, A, F, n)
    BY <1>2
  <2>. DEFINE h == [k \in 0 .. n + 1 |-> IF k = n + 1 THEN F[n + 1][g[n]] ELSE g[k]]
  <2>2. h \in [0 .. n + 1 -> D]
    BY <2>1
  <2>3. ASSUME NEW k \in 0 .. n + 1  PROVE h[k] = IF k = 0 THEN A ELSE F[k][h[k - 1]]
    <3>1. CASE k = n + 1
      <4>1. k # 0 /\ k - 1 = n /\ n # n + 1 /\ n \in 0 .. n + 1
        BY <3>1
      <4>. QED  BY <3>1, <4>1
    <3>2. CASE k # n + 1
      <4>1. k \in 0 .. n /\ (k # 0 => k - 1 \in 0 .. n + 1 /\ k - 1 # n + 1)
        BY <3>2
      <4>2. g[k] = IF k = 0 THEN A ELSE F[k][g[k - 1]]
        BY <2>1, <4>1 DEF Recurses
      <4>. QED  BY <3>2, <4>1, <4>2
    <3>. QED  BY <3>1, <3>2
  <2>4. Recurses(h, A, F, n + 1)
    BY <2>2, <2>3 DEF Recurses
  <2>. QED  BY <2>2, <2>4
<1>. HIDE DEF S
<1>3. Nat \subseteq S
  BY <1>1, <1>2, NatSetInduction
<1>. QED  BY <1>3 DEF S

(* g applies F to A step by step.                                          *)
Iterates(g, A, F, N) == g = [n \in 0 .. N |-> IF n = 0 THEN A ELSE F[g[n - 1]]]

LEMMA IterationExists ==
  ASSUME NEW D, NEW A \in D, NEW F \in [D -> D], NEW N \in Nat
  PROVE  \E g \in [0 .. N -> D] : Iterates(g, A, F, N)
<1>1. PICK g \in [0 .. N -> D] : Recurses(g, A, [n \in Nat |-> F], N)
  BY RecursionExists
<1>2. \A n \in 0 .. N : g[n] = IF n = 0 THEN A ELSE F[g[n - 1]]
  BY <1>1 DEF Recurses
<1>. QED  BY <1>1, <1>2 DEF Iterates

(* What A and F do not leave, the iteration does not leave.                *)
LEMMA IterationStays ==
  ASSUME NEW A, NEW F, NEW N \in Nat, NEW g, Iterates(g, A, F, N),
         NEW X, A \subseteq X, \A Y \in SUBSET X : F[Y] \subseteq X
  PROVE  \A n \in 0 .. N : g[n] \subseteq X
<1>. DEFINE S == {n \in Nat : n <= N => g[n] \subseteq X}
<1>1. 0 \in S
  BY DEF Iterates
<1>2. ASSUME NEW n \in Nat, n \in S, n + 1 <= N  PROVE g[n + 1] \subseteq X
  <2>1. g[n] \in SUBSET X
    BY <1>2
  <2>2. g[n + 1] = F[g[n]]
    BY <1>2 DEF Iterates
  <2>. QED  BY <2>1, <2>2
<1>3. \A n \in Nat : n \in S => n + 1 \in S
  BY <1>2
<1>. HIDE DEF S
<1>4. Nat \subseteq S
  BY <1>1, <1>3, NatSetInduction
<1>. QED  BY <1>4 DEF S

(* F only adds elements of a finite set: after Cardinality(S) steps or     *)
(* earlier it adds no more.                                                *)
Inflates(F, S) ==
    /\ F \in [SUBSET S -> SUBSET S]
    /\ \A Y \in SUBSET S : Y \subseteq F[Y]

LEMMA IterationRests ==
  ASSUME NEW S, NEW A, NEW F, NEW N, NEW g, Iterates(g, A, F, N), Inflates(F, S),
         IsFiniteSet(S), A \in SUBSET S, N \in Nat, N >= Cardinality(S)
  PROVE  /\ g[N] \in SUBSET S /\ A \subseteq g[N]
         /\ F[g[N]] = g[N]
<1>. USE DEF Inflates
<1>1. \A n \in 0 .. N : g[n] \in SUBSET S /\ IsFiniteSet(g[n]) /\ Cardinality(g[n]) \in Nat
  <2>1. \A n \in 0 .. N : g[n] \subseteq S
    BY IterationStays
  <2>. QED  BY <2>1, FS_Subset, FS_CardinalityType
<1>2. \A n \in 1 .. N : g[n] = F[g[n - 1]]
  BY DEF Iterates
<1>. DEFINE P(n) == A \subseteq g[n] /\ (F[g[n]] = g[n] \/ Cardinality(g[n]) >= n)
            T == {n \in Nat : n <= N => P(n)}
<1>3. 0 \in T
  <2>1. g[0] = A
    BY DEF Iterates
  <2>. QED  BY <1>1, <2>1
<1>4. ASSUME NEW n \in Nat, n \in T, n + 1 <= N
      PROVE  P(n + 1)
  <2>1. g[n + 1] = F[g[n]] /\ g[n] \in SUBSET S /\ g[n + 1] \in SUBSET S
    BY <1>1, <1>2, <1>4
  <2>2. g[n] \subseteq g[n + 1]
    BY <2>1
  <2>3. CASE F[g[n]] = g[n]
    BY <1>4, <2>1, <2>3
  <2>4. CASE F[g[n]] # g[n]
    <3>1. Cardinality(g[n]) >= n
      BY <1>4, <2>4
    <3>2. Cardinality(g[n]) <= Cardinality(g[n + 1]) /\ Cardinality(g[n]) # Cardinality(g[n + 1])
      BY <1>1, <1>4, <2>1, <2>2, <2>4, FS_Subset
    <3>. QED  BY <1>1, <1>4, <2>2, <3>1, <3>2
  <2>. QED  BY <2>3, <2>4
<1>5. \A n \in Nat : n \in T => n + 1 \in T
  BY <1>4
<1>. HIDE DEF T
<1>6. N \in T
  BY <1>3, <1>5, NatSetInduction
<1>7. A \subseteq g[N] /\ (F[g[N]] = g[N] \/ Cardinality(g[N]) >= N)
  BY <1>6 DEF T
<1>8. CASE Cardinality(g[N]) >= N
  <2>1. Cardinality(S) \in Nat
    BY FS_CardinalityType
  <2>2. Cardinality(g[N]) <= Cardinality(S)
    BY <1>1, FS_Subset
  <2>3. Cardinality(g[N]) = Cardinality(S)
    BY <1>1, <1>8, <2>1, <2>2
  <2>4. g[N] = S
    BY <1>1, <2>3, FS_Subset
  <2>5. F[S] \in SUBSET S /\ S \subseteq F[S]
    OBVIOUS
  <2>. QED  BY <1>1, <1>7, <2>4, <2>5
<1>. QED  BY <1>1, <1>7, <1>8

-----------------------------------------------------------------------------
(* Sequences as lists without repetition.                                  *)
LEMMA ToSetEmpty == ToSet(<<>>) = {}
  BY DEF ToSet

LEMMA ToSetOne == ASSUME NEW e PROVE ToSet(<<e>>) = {e} /\ IsInjective(<<e>>)
  BY DEF ToSet, IsInjective

LEMMA ToSetSeq == ASSUME NEW S, NEW s \in Seq(S) PROVE ToSet(s) \subseteq S
  BY DEF ToSet

LEMMA ToSetConcat ==
  ASSUME NEW S, NEW s \in Seq(S), NEW t \in Seq(S)
  PROVE  /\ s \o t \in Seq(S)
         /\ ToSet(s \o t) = ToSet(s) \cup ToSet(t)
<1>. DEFINE L == Len(s)
            M == Len(t)
            u == s \o t
<1>1. /\ u \in Seq(S) /\ L \in Nat /\ M \in Nat /\ Len(u) = L + M
      /\ \A i \in 1 .. L + M : u[i] = IF i <= L THEN s[i] ELSE t[i - L]
  BY ConcatProperties
<1>2. \A i \in 1 .. L : u[i] = s[i]
  BY <1>1
<1>3. \A i \in 1 .. M : L + i \in 1 .. L + M /\ u[L + i] = t[i]
  BY <1>1
<1>4. \A i \in 1 .. L + M : i \in 1 .. L \/ \E j \in 1 .. M : i = L + j
  <2>. SUFFICES ASSUME NEW i \in 1 .. L + M, i \notin 1 .. L  PROVE \E j \in 1 .. M : i = L + j
    OBVIOUS
  <2>1. i - L \in 1 .. M /\ i = L + (i - L)
    BY <1>1
  <2>. QED  BY <2>1
<1>5. DOMAIN u = 1 .. L + M /\ DOMAIN s = 1 .. L /\ DOMAIN t = 1 .. M
  BY <1>1
<1>. HIDE DEF L, M, u
<1>6. ToSet(u) = ToSet(s) \cup ToSet(t)
  <2>1. \A i \in 1 .. L + M : u[i] \in ToSet(s) \cup ToSet(t)
    BY <1>2, <1>3, <1>4, <1>5 DEF ToSet
  <2>2. \A i \in 1 .. L : i \in 1 .. L + M /\ s[i] = u[i]
    BY <1>1, <1>2
  <2>3. ToSet(s) \subseteq ToSet(u)
    BY <1>5, <2>2 DEF ToSet
  <2>4. ToSet(t) \subseteq ToSet(u)
    BY <1>3, <1>5 DEF ToSet
  <2>. QED  BY <1>5, <2>1, <2>3, <2>4 DEF ToSet
<1>. QED  BY <1>1, <1>6 DEF u

LEMMA ConcatInjective ==
  ASSUME NEW S, NEW s \in Seq(S), NEW t \in Seq(S)
  PROVE  IsInjective(s \o t) <=>
           IsInjective(s) /\ IsInjective(t) /\ ToSet(s) \cap ToSet(t) = {}
<1>. DEFINE L == Len(s)
            M == Len(t)
            u == s \o t
<1>1. /\ u \in Seq(S) /\ L \in Nat /\ M \in Nat /\ Len(u) = L + M
      /\ \A i \in 1 .. L + M : u[i] = IF i <= L THEN s[i] ELSE t[i - L]
  BY ConcatProperties
<1>2. DOMAIN u = 1 .. L + M /\ DOMAIN s = 1 .. L /\ DOMAIN t = 1 .. M
  BY <1>1
<1>. HIDE DEF L, M, u
<1>3. \A i \in 1 .. L : u[i] = s[i]
  BY <1>1
<1>4. \A i \in 1 .. M : L + i \in 1 .. L + M /\ u[L + i] = t[i]
  BY <1>1
<1>5. \A i \in 1 .. L + M : i \in 1 .. L \/ \E j \in 1 .. M : i = L + j
  <2>. SUFFICES ASSUME NEW i \in 1 .. L + M, i \notin 1 .. L  PROVE \E j \in 1 .. M : i = L + j
    OBVIOUS
  <2>1. i - L \in 1 .. M /\ i = L + (i - L)
    BY <1>1
  <2>. QED  BY <2>1
<1>6. ASSUME IsInjective(u)
      PROVE  IsInjective(s) /\ IsInjective(t) /\ ToSet(s) \cap ToSet(t) = {}
  <2>0. \A i, j \in 1 .. L + M : u[i] = u[j] => i = j
    BY <1>2, <1>6 DEF IsInjective
  <2>1. IsInjective(s)
    <3>1. \A i \in 1 .. L : i \in 1 .. L + M
      BY <1>1
    <3>. QED  BY <1>2, <1>3, <2>0, <3>1 DEF IsInjective
  <2>2. IsInjective(t)
    <3>1. ASSUME NEW i \in 1 .. M, NEW j \in 1 .. M, t[i] = t[j]  PROVE i = j
      <4>1. L + i = L + j
        BY <1>4, <2>0, <3>1
      <4>. QED  BY <1>1, <4>1
    <3>. QED  BY <1>2, <3>1 DEF IsInjective
  <2>3. ASSUME NEW i \in 1 .. L, NEW j \in 1 .. M, s[i] = t[j]  PROVE FALSE
    <3>1. i \in 1 .. L + M /\ i # L + j
      BY <1>1
    <3>. QED  BY <1>3, <1>4, <2>0, <2>3, <3>1
  <2>. QED  BY <1>2, <2>1, <2>2, <2>3 DEF ToSet
<1>7. ASSUME IsInjective(s), IsInjective(t), ToSet(s) \cap ToSet(t) = {}
      PROVE  IsInjective(u)
  <2>1. \A i \in 1 .. L, j \in 1 .. M : s[i] # t[j]
    BY <1>2, <1>7 DEF ToSet
  <2>2. \A i, j \in 1 .. L : s[i] = s[j] => i = j
    BY <1>2, <1>7 DEF IsInjective
  <2>3. \A i, j \in 1 .. M : t[i] = t[j] => i = j
    BY <1>2, <1>7 DEF IsInjective
  <2>4. ASSUME NEW i \in 1 .. L + M, NEW j \in 1 .. L + M, u[i] = u[j]  PROVE i = j
    BY <1>3, <1>4, <1>5, <2>1, <2>2, <2>3, <2>4
  <2>. QED  BY <1>2, <2>4 DEF IsInjective
<1>. QED  BY <1>6, <1>7 DEF u

LEMMA HeadOfList ==
  ASSUME NEW S, NEW s \in Seq(S), s # <<>>
  PROVE  /\ s = <<Head(s)>> \o Tail(s)
         /\ Head(s) \in S /\ Tail(s) \in Seq(S)
         /\ ToSet(s) = {Head(s)} \cup ToSet(Tail(s))
         /\ IsInjective(s) => IsInjective(Tail(s)) /\ Head(s) \notin ToSet(Tail(s))
<1>1. s = <<Head(s)>> \o Tail(s) /\ Head(s) \in S /\ Tail(s) \in Seq(S)
  OBVIOUS
<1>2. PICK u : u = <<Head(s)>>
  OBVIOUS
<1>3. u \in Seq(S)
  BY <1>1, <1>2
<1>4. ToSet(u) = {Head(s)}
  BY <1>2, ToSetOne
<1>5. PICK t : t = Tail(s)
  OBVIOUS
<1>6. t \in Seq(S) /\ s = u \o t
  BY <1>1, <1>2, <1>5
<1>7. ToSet(u \o t) = ToSet(u) \cup ToSet(t)
  BY <1>3, <1>6, ToSetConcat
<1>8. IsInjective(u \o t) => IsInjective(t) /\ ToSet(u) \cap ToSet(t) = {}
  BY <1>3, <1>6, ConcatInjective
<1>. QED  BY <1>1, <1>4, <1>5, <1>6, <1>7, <1>8

LEMMA LastOfList ==
  ASSUME NEW S, NEW s \in Seq(S), s # <<>>
  PROVE  /\ Last(s) \in S /\ Front(s) \in Seq(S)
         /\ Len(Front(s)) = Len(s) - 1
         /\ ToSet(s) = ToSet(Front(s)) \cup {Last(s)}
<1>0. Len(s) \in Nat \ {0} /\ \A i \in 1 .. Len(s) : s[i] \in S
  BY EmptySeq, ElementOfSeq
<1>1. Last(s) \in S
  BY <1>0 DEF Last
<1>2. Front(s) \in Seq(S) /\ Len(Front(s)) = Len(s) - 1
  <2>1. \A i \in 1 .. Len(s) - 1 : s[i] \in S
    BY <1>0
  <2>2. /\ SubSeq(s, 1, Len(s) - 1) \in Seq(S)
        /\ Len(SubSeq(s, 1, Len(s) - 1)) = IF 1 <= Len(s) - 1 THEN (Len(s) - 1) - 1 + 1 ELSE 0
    <3>1. 1 \in Int /\ Len(s) - 1 \in Int
      BY <1>0
    <3>. QED  BY <2>1, <3>1, SubSeqProperties
  <2>3. Len(SubSeq(s, 1, Len(s) - 1)) = Len(s) - 1
    <3>1. ASSUME NEW n \in Nat \ {0}, NEW l, l = IF 1 <= n - 1 THEN (n - 1) - 1 + 1 ELSE 0
          PROVE  l = n - 1
      BY <3>1
    <3>2. Len(s) \in Nat \ {0}
      BY <1>0
    <3>. QED  BY <2>2, <3>1, <3>2, Zenon
  <2>4. Front(s) = SubSeq(s, 1, Len(s) - 1)
    BY DEF Front
  <2>. QED  BY <2>2, <2>3, <2>4, Zenon
<1>3. s = Front(s) \o <<Last(s)>>
  <2>1. SubSeq(s, 1, Len(s)) = SubSeq(s, 1, Len(s) - 1) \o <<s[Len(s)]>>
    BY <1>0, SubSeqRecursiveSecond
  <2>. QED  BY <2>1, SubSeqFull DEF Front, Last
<1>4. PICK u : u = <<Last(s)>>
  OBVIOUS
<1>5. u \in Seq(S)
  BY <1>1, <1>4
<1>6. ToSet(Front(s) \o u) = ToSet(Front(s)) \cup ToSet(u)
  BY <1>2, <1>5, ToSetConcat
<1>7. ToSet(u) = {Last(s)}
  BY <1>4, ToSetOne
<1>8. s = Front(s) \o u
  BY <1>3, <1>4
<1>. QED  BY <1>1, <1>2, <1>6, <1>7, <1>8

LEMMA ToSetAppend ==
  ASSUME NEW S, NEW s \in Seq(S), NEW e \in S
  PROVE  /\ Append(s, e) \in Seq(S) /\ Len(Append(s, e)) = Len(s) + 1
         /\ ToSet(Append(s, e)) = ToSet(s) \cup {e}
<1>1. Append(s, e) = s \o <<e>> /\ <<e>> \in Seq(S)
  BY AppendIsConcat
<1>2. PICK u : u = <<e>>
  OBVIOUS
<1>3. u \in Seq(S) /\ Append(s, e) = s \o u
  BY <1>1, <1>2
<1>4. ToSet(s \o u) = ToSet(s) \cup ToSet(u)
  BY <1>3, ToSetConcat
<1>5. ToSet(u) = {e}
  BY <1>2, ToSetOne
<1>. QED  BY <1>3, <1>4, <1>5, AppendProperties

LEMMA ContainsIs ==
  ASSUME NEW S, NEW s \in Seq(S), NEW e
  PROVE  Contains(s, e) <=> e \in ToSet(s)
BY DEF Contains, ToSet

LEMMA NoneInEmptyList ==
  ASSUME NEW S, NEW s \in Seq(S)
  PROVE  s = <<>> <=> ToSet(s) = {}
<1>1. s # <<>> => s[1] \in ToSet(s)
  BY EmptySeq DEF ToSet
<1>. QED  BY <1>1, ToSetEmpty

LEMMA AppendToList ==
  ASSUME NEW S, NEW s \in Seq(S), NEW e \in S, IsInjective(s), e \notin ToSet(s)
  PROVE  /\ Append(s, e) \in Seq(S) /\ IsInjective(Append(s, e))
         /\ ToSet(Append(s, e)) = ToSet(s) \cup {e}
<1>. DEFINE t == <<e>>
<1>1. Append(s, e) = s \o t /\ t \in Seq(S) /\ ToSet(t) = {e} /\ IsInjective(t)
  BY AppendIsConcat, ToSetOne
<1>. HIDE DEF t
<1>2. IsInjective(s \o t)
  BY <1>1, ConcatInjective
<1>3. Append(s, e) \in Seq(S) /\ ToSet(Append(s, e)) = ToSet(s) \cup {e}
  BY ToSetAppend
<1>. QED  BY <1>1, <1>2, <1>3

LEMMA PushOnList ==
  ASSUME NEW S, NEW s \in Seq(S), NEW e \in S, IsInjective(s), e \notin ToSet(s)
  PROVE  /\ <<e>> \o s \in Seq(S) /\ IsInjective(<<e>> \o s)
         /\ ToSet(<<e>> \o s) = ToSet(s) \cup {e}
<1>. DEFINE t == <<e>>
<1>1. t \in Seq(S) /\ ToSet(t) = {e} /\ IsInjective(t)
  BY ToSetOne
<1>. HIDE DEF t
<1>2. IsInjective(t \o s)
  BY <1>1, ConcatInjective
<1>3. ToSet(t \o s) = ToSet(s) \cup {e} /\ t \o s \in Seq(S)
  BY <1>1, ToSetConcat
<1>. QED  BY <1>2, <1>3 DEF t

LEMMA PopOfList ==
  ASSUME NEW S, NEW s \in Seq(S), s # <<>>, IsInjective(s)
  PROVE  /\ Last(s) \in ToSet(s) /\ Last(s) \in S
         /\ Front(s) \in Seq(S) /\ IsInjective(Front(s))
         /\ ToSet(Front(s)) = ToSet(s) \ {Last(s)}
<1>0. Len(s) \in Nat \ {0} /\ \A i \in 1 .. Len(s) : s[i] \in S
  BY EmptySeq, ElementOfSeq
<1>1. /\ Last(s) \in S /\ Front(s) \in Seq(S)
      /\ ToSet(s) = ToSet(Front(s)) \cup {Last(s)}
  BY LastOfList
<1>2. s = Front(s) \o <<Last(s)>>
  <2>1. SubSeq(s, 1, Len(s)) = SubSeq(s, 1, Len(s) - 1) \o <<s[Len(s)]>>
    BY <1>0, SubSeqRecursiveSecond
  <2>. QED  BY <2>1, SubSeqFull DEF Front, Last
<1>3. <<Last(s)>> \in Seq(S)
  BY <1>1
<1>4. IsInjective(Front(s)) /\ ToSet(Front(s)) \cap ToSet(<<Last(s)>>) = {}
  <2>1. IsInjective(Front(s) \o <<Last(s)>>)
    BY <1>2
  <2>. QED  BY <1>1, <1>3, <2>1, ConcatInjective
<1>. QED  BY <1>1, <1>4, ToSetOne

(* mSpanList_remove and the like: the element goes, the others stay.       *)
LEMMA RemoveFromList ==
  ASSUME NEW S, NEW s \in Seq(S), IsInjective(s), NEW e
  PROVE  /\ RemoveFirst(s, e) \in Seq(S) /\ IsInjective(RemoveFirst(s, e))
         /\ ToSet(RemoveFirst(s, e)) = ToSet(s) \ {e}
<1>1. CASE e \notin ToSet(s)
  <2>1. ~\E i \in 1 .. Len(s) : s[i] = e
    BY <1>1 DEF ToSet
  <2>2. RemoveFirst(s, e) = s
    BY <2>1 DEF RemoveFirst
  <2>. QED  BY <1>1, <2>2
<1>2. CASE e \in ToSet(s)
  <2>. DEFINE I == {i \in 1 .. Len(s) : s[i] = e}
              i == Min(I)
              p == SubSeq(s, 1, i - 1)
              q == SubSeq(s, i + 1, Len(s))
  <2>1. /\ \E k \in 1 .. Len(s) : s[k] = e
        /\ I # {} /\ I \in SUBSET Nat /\ Len(s) \in Nat /\ \A k \in 1 .. Len(s) : s[k] \in S
    BY <1>2, ElementOfSeq DEF ToSet
  <2>2. i \in I
    <3>. HIDE DEF I
    <3>. QED  BY <2>1, NatMin
  <2>3. i \in 1 .. Len(s) /\ s[i] = e /\ e \in S
    BY <2>1, <2>2
  <2>4. RemoveFirst(s, e) = p \o q
    BY <2>1 DEF RemoveFirst, SelectInSeq, RemoveAt
  <2>. HIDE DEF i, I
  <2>5. p \in Seq(S) /\ q \in Seq(S)
    <3>1. \A k \in 1 .. i - 1 : s[k] \in S
      BY <2>1, <2>3
    <3>2. \A k \in i + 1 .. Len(s) : s[k] \in S
      BY <2>1, <2>3
    <3>3. 1 \in Int /\ i - 1 \in Int /\ i + 1 \in Int /\ Len(s) \in Int
      BY <2>1, <2>3
    <3>. QED  BY <3>1, <3>2, <3>3, SubSeqProperties
  <2>6. s = p \o (<<e>> \o q)
    <3>1. SubSeq(s, i, Len(s)) = <<s[i]>> \o q
      BY <2>1, <2>3, SubSeqRecursiveFirst
    <3>2. SubSeq(s, 1, i - 1) \o SubSeq(s, i, Len(s)) = SubSeq(s, 1, Len(s))
      <4>1. /\ 1 \in 1 .. Len(s) + 1 /\ i - 1 \in 1 - 1 .. Len(s) /\ Len(s) \in i - 1 .. Len(s)
            /\ (i - 1) + 1 = i
        BY <2>1, <2>3
      <4>2. SubSeq(s, 1, i - 1) \o SubSeq(s, (i - 1) + 1, Len(s)) = SubSeq(s, 1, Len(s))
        BY <4>1, ConcatAdjacentSubSeq
      <4>. QED  BY <4>1, <4>2
    <3>. QED  BY <2>3, <3>1, <3>2, SubSeqFull
  <2>. HIDE DEF p, q
  <2>. DEFINE t == <<e>>
  <2>7. t \in Seq(S) /\ ToSet(t) = {e} /\ IsInjective(t) /\ s = p \o (t \o q)
    BY <2>3, <2>6, ToSetOne
  <2>. HIDE DEF t
  <2>8. /\ ToSet(s) = ToSet(p) \cup ({e} \cup ToSet(q))
        /\ IsInjective(p) /\ IsInjective(t \o q) /\ ToSet(p) \cap ({e} \cup ToSet(q)) = {}
    <3>1. t \o q \in Seq(S) /\ ToSet(t \o q) = {e} \cup ToSet(q)
      BY <2>5, <2>7, ToSetConcat
    <3>. DEFINE tq == t \o q
    <3>2. tq \in Seq(S) /\ ToSet(tq) = {e} \cup ToSet(q) /\ s = p \o tq
      BY <2>7, <3>1
    <3>. HIDE DEF tq
    <3>3. ToSet(s) = ToSet(p) \cup ToSet(tq)
      BY <2>5, <3>2, ToSetConcat
    <3>4. IsInjective(p) /\ IsInjective(tq) /\ ToSet(p) \cap ToSet(tq) = {}
      BY <2>5, <3>2, ConcatInjective
    <3>. QED  BY <3>2, <3>3, <3>4 DEF tq
  <2>9. IsInjective(q) /\ e \notin ToSet(q)
    BY <2>5, <2>7, <2>8, ConcatInjective
  <2>10. IsInjective(p \o q) /\ ToSet(p \o q) = ToSet(p) \cup ToSet(q) /\ p \o q \in Seq(S)
    BY <2>5, <2>8, <2>9, ToSetConcat, ConcatInjective
  <2>. QED  BY <2>4, <2>8, <2>9, <2>10
<1>. QED  BY <1>1, <1>2

(* A set as a list of its elements.                                        *)
LEMMA SetToSeqIs ==
  ASSUME NEW S, IsFiniteSet(S)
  PROVE  /\ SetToSeq(S) \in Seq(S) /\ IsInjective(SetToSeq(S))
         /\ ToSet(SetToSeq(S)) = S
<1>. DEFINE n == Cardinality(S)
<1>1. n \in Nat /\ \E f \in [1 .. n -> S] : IsInjective(f)
  <2>1. n \in Nat /\ ExistsBijection(1 .. n, S)
    BY FS_CardinalityType
  <2>. QED  BY <2>1 DEF ExistsBijection, Bijection, Injection
<1>2. SetToSeq(S) \in [1 .. n -> S] /\ IsInjective(SetToSeq(S))
  BY <1>1 DEF SetToSeq
<1>3. PICK f : f = SetToSeq(S)
  OBVIOUS
<1>. HIDE DEF n
<1>4. f \in [1 .. n -> S] /\ IsInjective(f) /\ f \in Seq(S)
  BY <1>1, <1>2, <1>3
<1>5. f \in [1 .. n -> ToSet(f)] /\ ToSet(f) \subseteq S
  BY <1>4 DEF ToSet
<1>6. f \in Bijection(1 .. n, ToSet(f))
  BY <1>4, <1>5 DEF Bijection, Injection, Surjection, ToSet
<1>7. Cardinality(ToSet(f)) = n
  BY <1>1, <1>6, FS_CountingElements DEF ExistsBijection
<1>8. ToSet(f) = S
  BY <1>5, <1>7, FS_Subset DEF n
<1>. QED  BY <1>3, <1>4, <1>8
=============================================================================
