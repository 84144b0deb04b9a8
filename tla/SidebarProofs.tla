--------------------------- MODULE SidebarProofs ----------------------------
(***************************************************************************)
(* Proofs about Sidebar for all answers of a server whose feeds and whose  *)
(* categories have different ids, and every set of heights.                *)
(***************************************************************************)
EXTENDS Sidebar, TLAPS, WellFoundedInduction, SequenceTheorems, FiniteSetTheorems

-----------------------------------------------------------------------------
(* Selections.                                                             *)

\* A set of indices of a list has a least element.
LEMMA LeastIndex ==
    ASSUME NEW S \in SUBSET Nat, S # {}
    PROVE  \E i \in S : \A j \in S : i <= j
<1> DEFINE Less == {p \in Nat \X Nat : p[1] < p[2]}
<1>1. IsWellFoundedOn(Less, Nat)
  <2>1. OpToRel(<, Nat) = Less
    BY DEF OpToRel
  <2> QED BY <2>1, NatLessThanWellFounded
<1> HIDE DEF Less
<1>2. PICK i \in S : \A j \in S : ~ (<<j, i>> \in Less)
    BY <1>1, WFMin
<1>3. ASSUME NEW j \in S, ~ (i <= j)
      PROVE  FALSE
  <2>1. <<j, i>> \in {p \in Nat \X Nat : p[1] < p[2]}
    BY <1>3
  <2> QED BY <1>2, <2>1 DEF Less
<1> QED BY <1>3

\* And a greatest one: the least distance to the end of the list.
LEMMA GreatestIndex ==
    ASSUME NEW n \in Nat, NEW S \in SUBSET (0 .. n - 1), S # {}
    PROVE  \E i \in S : \A j \in S : j <= i
<1> DEFINE T == {n - 1 - i : i \in S}
<1>1. T \in SUBSET Nat /\ T # {}
    OBVIOUS
<1>2. PICK t \in T : \A u \in T : t <= u
    BY <1>1, LeastIndex
<1>3. PICK i \in S : t = n - 1 - i
    OBVIOUS
<1>4. ASSUME NEW j \in S
      PROVE  j <= i
  <2>1. n - 1 - j \in T
    OBVIOUS
  <2> QED BY <1>2, <1>3, <2>1
<1> QED BY <1>4

\* A selection is finite, and so is what comes before an index.
LEMMA SelectionIsFinite ==
    ASSUME NEW n \in Nat, NEW I \in SUBSET Nat, \A k \in I : k <= n, NEW i
    PROVE  /\ IsFiniteSet(I) /\ Cardinality(I) \in Nat
           /\ IsFiniteSet({j \in I : j < i}) /\ Before(I, i) \in Nat
<1>1. IsFiniteSet(I)
    BY FS_BoundedSetOfNaturals
<1>2. IsFiniteSet({j \in I : j < i})
    BY <1>1, FS_Subset
<1> QED BY <1>1, <1>2, FS_CardinalityType DEF Before

\* An index has one more before it than any that comes before it.
LEMMA BeforeGrows ==
    ASSUME NEW n \in Nat, NEW I \in SUBSET Nat, \A k \in I : k <= n, NEW i \in I, NEW j \in Int, i < j
    PROVE  Before(I, i) < Before(I, j)
<1> DEFINE S == {k \in I : k < i}
           T == {k \in I : k < j}
<1>1. i \in Int /\ \A k \in I : k \in Int
    OBVIOUS
<1>2. S \subseteq T /\ i \in T /\ i \notin S
  <2>1. \A k \in I : k < i => k < j
    BY <1>1
  <2>2. ~ (i < i)
    BY <1>1
  <2> QED BY <2>1, <2>2
<1>3. IsFiniteSet(T) /\ IsFiniteSet(S)
    BY SelectionIsFinite
<1>4. Before(I, i) = Cardinality(S) /\ Before(I, j) = Cardinality(T)
    BY DEF Before
<1> HIDE DEF S, T
<1>5. S # T /\ S \in SUBSET T
    BY <1>2
<1>6. Cardinality(S) \in Nat /\ Cardinality(T) \in Nat
    BY <1>3, FS_CardinalityType
<1>7. Cardinality(S) <= Cardinality(T) /\ Cardinality(S) # Cardinality(T)
    BY <1>3, <1>5, FS_Subset
<1> QED BY <1>4, <1>6, <1>7

\* Some index has any number before it that is less than how many there are:
\* no two indices have the same number before them, so every number is taken.
LEMMA RankExists ==
    ASSUME NEW n \in Nat, NEW I \in SUBSET Nat, \A k \in I : k <= n, NEW p \in 0 .. Cardinality(I) - 1
    PROVE  \E i \in I : Before(I, i) = p
<1> DEFINE rank == [i \in I |-> Before(I, i)]
           Ranks == 0 .. Cardinality(I) - 1
<1>1. /\ IsFiniteSet(I) /\ Cardinality(I) \in Nat
      /\ \A i \in I : i \in Int /\ i <= n /\ Before(I, i) \in Nat
  <2>1. IsFiniteSet(I) /\ Cardinality(I) \in Nat /\ \A i \in I : Before(I, i) \in Nat
    BY SelectionIsFinite
  <2> QED BY <2>1
<1>2. Before(I, n + 1) = Cardinality(I)
  <2>1. \A j \in I : j < n + 1
    OBVIOUS
  <2>2. {j \in I : j < n + 1} = I
    BY <2>1
  <2> QED BY <2>2 DEF Before
<1>3. \A i \in I : Before(I, i) < Cardinality(I)
  <2> TAKE i \in I
  <2>1. n + 1 \in Int /\ i < n + 1
    BY <1>1
  <2> QED BY <1>2, <2>1, BeforeGrows
<1>4. \A i, j \in I : Before(I, i) = Before(I, j) => i = j
  <2> TAKE i, j \in I
  <2>1. (i < j => Before(I, i) < Before(I, j)) /\ (j < i => Before(I, j) < Before(I, i))
    BY <1>1, BeforeGrows
  <2> QED BY <1>1, <2>1
<1>5. IsFiniteSet(Ranks) /\ Cardinality(Ranks) = Cardinality(I)
    BY <1>1, FS_Interval
<1>6. rank \in Injection(I, Ranks)
  <2>1. \A i \in I : Before(I, i) \in Ranks
    BY <1>1, <1>3
  <2> HIDE DEF Ranks
  <2> QED BY <1>4, <2>1 DEF Injection, IsInjective
<1>7. rank \in Surjection(I, Ranks)
  <2> HIDE DEF rank, Ranks
  <2> QED BY <1>5, <1>6, FS_Injection
<1>8. \E i \in I : rank[i] = p
  <2>1. p \in Ranks
    OBVIOUS
  <2> HIDE DEF rank, Ranks
  <2> QED BY <1>7, <2>1 DEF Surjection
<1> QED BY <1>8

\* What Nth says: the indices of a selection, in their order.
LEMMA NthIsIndex ==
    ASSUME NEW n \in Nat, NEW I \in SUBSET Nat, \A k \in I : k <= n, NEW k \in 1 .. Cardinality(I)
    PROVE  Nth(I, k) \in I /\ Before(I, Nth(I, k)) = k - 1
<1>1. k - 1 \in 0 .. Cardinality(I) - 1
  <2>1. Cardinality(I) \in Nat
    BY SelectionIsFinite
  <2> QED BY <2>1
<1>2. \E i \in I : Before(I, i) = k - 1
    BY <1>1, RankExists
<1> QED BY <1>2 DEF Nth

\* None is left out.
LEMMA EveryIndexIsNth ==
    ASSUME NEW n \in Nat, NEW I \in SUBSET Nat, \A k \in I : k <= n, NEW i \in I
    PROVE  \E k \in 1 .. Cardinality(I) : Nth(I, k) = i
<1> DEFINE k == Before(I, i) + 1
<1>1. i \in Int /\ i <= n /\ n + 1 \in Int
    OBVIOUS
<1>2. Before(I, i) \in Nat /\ Cardinality(I) \in Nat
    BY SelectionIsFinite
<1>3. Before(I, i) < Before(I, n + 1)
    BY <1>1, BeforeGrows
<1>4. Before(I, n + 1) = Cardinality(I)
  <2>1. \A j \in I : j < n + 1
    OBVIOUS
  <2>2. {j \in I : j < n + 1} = I
    BY <2>1
  <2> QED BY <2>2 DEF Before
<1>5. k \in 1 .. Cardinality(I)
    BY <1>2, <1>3, <1>4
<1>6. Nth(I, k) \in I /\ Before(I, Nth(I, k)) = Before(I, i)
  <2>1. Nth(I, k) \in I /\ Before(I, Nth(I, k)) = k - 1
    BY <1>5, NthIsIndex
  <2> QED BY <1>2, <2>1
<1>7. Nth(I, k) = i
  <2> DEFINE j == Nth(I, k)
  <2>1. j \in I /\ i \in I /\ Before(I, j) = Before(I, i)
    BY <1>6
  <2>2. Before(I, j) \in Int
    BY <1>2, <2>1
  <2> HIDE DEF j
  <2>3. i \in Int /\ j \in Int
    BY <2>1
  <2>4. i < j => Before(I, i) < Before(I, j)
    BY <2>1, <2>3, BeforeGrows
  <2>5. j < i => Before(I, j) < Before(I, i)
    BY <2>1, <2>3, BeforeGrows
  <2>6. j = i
    BY <2>1, <2>2, <2>3, <2>4, <2>5
  <2> QED BY <2>6 DEF j
<1> QED BY <1>5, <1>7

\* A subsequence has a place for every index of the selection, and no other.
LEMMA SubsequencePlaces ==
    ASSUME NEW T, NEW s \in Seq(T), NEW I \in SUBSET (DOMAIN s)
    PROVE  /\ Subsequence(s, I) \in Seq(T)
           /\ Len(Subsequence(s, I)) = Cardinality(I)
           /\ \A k \in 1 .. Cardinality(I) :
                 Nth(I, k) \in I /\ Subsequence(s, I)[k] = s[Nth(I, k)]
           /\ \A k, m \in 1 .. Cardinality(I) : Nth(I, k) = Nth(I, m) => k = m
           /\ \A i \in I : \E k \in 1 .. Cardinality(I) : Nth(I, k) = i
<1>1. /\ Len(s) \in Nat /\ I \in SUBSET (1 .. Len(s))
      /\ I \in SUBSET Nat /\ \A k \in I : k <= Len(s)
    BY LenProperties
<1>2. Cardinality(I) \in Nat
    BY <1>1, SelectionIsFinite
<1>3. \A k \in 1 .. Cardinality(I) : Nth(I, k) \in I /\ Before(I, Nth(I, k)) = k - 1
    BY <1>1, NthIsIndex
<1>4. \A k \in 1 .. Cardinality(I) : s[Nth(I, k)] \in T
  <2> TAKE k \in 1 .. Cardinality(I)
  <2>1. Nth(I, k) \in 1 .. Len(s)
    BY <1>1, <1>3
  <2> QED BY <2>1, ElementOfSeq
<1>5. Subsequence(s, I) \in Seq(T) /\ Len(Subsequence(s, I)) = Cardinality(I)
    BY <1>2, <1>4, IsASeq DEF Subsequence
<1>6. \A k, m \in 1 .. Cardinality(I) : Nth(I, k) = Nth(I, m) => k = m
    BY <1>2, <1>3
<1>7. \A i \in I : \E k \in 1 .. Cardinality(I) : Nth(I, k) = i
    BY <1>1, EveryIndexIsNth
<1> QED BY <1>3, <1>5, <1>6, <1>7 DEF Subsequence

-----------------------------------------------------------------------------
(* Sequences one after the other.                                          *)

\* The definition of FlattenSeq: f[i] is the first i sequences, one after the
\* other.
Flattens(f, ss, n) ==
    f = [i \in 1 .. n |-> IF i = 1 THEN ss[i] ELSE f[i - 1] \o ss[i]]

LEMMA FlattensExists ==
    ASSUME NEW T, NEW ss \in Seq(Seq(T)), NEW n \in 1 .. Len(ss)
    PROVE  \E f : Flattens(f, ss, n) /\ \A i \in 1 .. n : f[i] \in Seq(T)
<1> DEFINE Ok(m) == \E f : Flattens(f, ss, m) /\ \A i \in 1 .. m : f[i] \in Seq(T)
           S == {m \in 1 .. Len(ss) : ~Ok(m)}
<1>1. Len(ss) \in Nat /\ \A i \in 1 .. Len(ss) : ss[i] \in Seq(T)
    BY LenProperties, ElementOfSeq
<1>2. ASSUME NEW m \in S, \A k \in S : m <= k
      PROVE  FALSE
  <2>1. m \in 1 .. Len(ss) /\ ~Ok(m)
    OBVIOUS
  <2>2. CASE m = 1
    <3> DEFINE f == [i \in 1 .. 1 |-> ss[1]]
    <3>1. f = [i \in 1 .. 1 |-> IF i = 1 THEN ss[i] ELSE f[i - 1] \o ss[i]]
      OBVIOUS
    <3>2. \A i \in 1 .. 1 : f[i] \in Seq(T)
      BY <1>1, <2>1
    <3> HIDE DEF f
    <3>3. Ok(1)
      BY <3>1, <3>2 DEF Flattens
    <3> QED BY <2>1, <2>2, <3>3
  <2>3. CASE m # 1
    <3>1. m - 1 \in 1 .. Len(ss) /\ m \in Int
      BY <1>1, <2>1, <2>3
    <3>2. m - 1 \notin S
      <4>1. ~ (m <= m - 1)
        BY <3>1
      <4> HIDE DEF S
      <4> QED BY <1>2, <4>1
    <3>3. PICK g : Flattens(g, ss, m - 1) /\ \A i \in 1 .. m - 1 : g[i] \in Seq(T)
      BY <3>1, <3>2
    <3> HIDE DEF S, Ok
    <3> DEFINE f == [i \in 1 .. m |-> IF i = m THEN g[m - 1] \o ss[m] ELSE g[i]]
    <3>4. \A i \in 1 .. m : f[i] \in Seq(T)
      <4>1. g[m - 1] \o ss[m] \in Seq(T)
        BY <1>1, <2>1, <3>1, <3>3, ConcatProperties
      <4>2. \A i \in 1 .. m : i # m => i \in 1 .. m - 1
        BY <3>1
      <4> QED BY <3>3, <4>1, <4>2
    <3>5. \A i \in 1 .. m : f[i] = IF i = 1 THEN ss[i] ELSE f[i - 1] \o ss[i]
      <4> TAKE i \in 1 .. m
      <4>1. CASE i = m
        <5>1. m - 1 \in 1 .. m /\ m - 1 # m
          BY <2>3, <3>1
        <5> QED BY <2>3, <4>1, <5>1
      <4>2. CASE i # m
        <5>1. i \in 1 .. m - 1
          BY <3>1, <4>2
        <5>2. g[i] = IF i = 1 THEN ss[i] ELSE g[i - 1] \o ss[i]
          BY <3>3, <5>1 DEF Flattens
        <5>3. i # 1 => i - 1 \in 1 .. m /\ i - 1 # m
          BY <3>1, <4>2
        <5> QED BY <4>2, <5>2, <5>3
      <4> QED BY <4>1, <4>2
    <3>6. f = [i \in 1 .. m |-> f[i]]
      OBVIOUS
    <3> HIDE DEF f
    <3>7. Flattens(f, ss, m)
      BY <3>5, <3>6 DEF Flattens
    <3>8. Ok(m)
      BY <3>4, <3>7 DEF Ok
    <3> QED BY <2>1, <3>8
  <2> QED BY <2>2, <2>3
<1>3. S \in SUBSET Nat
    OBVIOUS
<1> HIDE DEF S
<1>4. S = {}
    BY <1>2, <1>3, LeastIndex
<1> QED BY <1>4 DEF S

\* Where the i-th sequence starts.
Offset(f, i) == IF i = 1 THEN 0 ELSE Len(f[i - 1])

\* The elements of the first n sequences have places in f[n], and it has no
\* other places.
FlatPlaces(f, ss, n) ==
    /\ \A i \in 1 .. n :
          /\ Offset(f, i) \in Nat
          /\ Offset(f, i) + Len(ss[i]) <= Len(f[n])
          /\ \A k \in 1 .. Len(ss[i]) : f[n][Offset(f, i) + k] = ss[i][k]
    /\ \A p \in 1 .. Len(f[n]) :
          \E i \in 1 .. n : \E k \in 1 .. Len(ss[i]) : p = Offset(f, i) + k

\* A place of an earlier part is one of the parts that follow it, too.
LEMMA WithinFirst ==
    ASSUME NEW offset \in Nat, NEW len \in Nat, NEW first \in Nat, NEW second \in Nat,
           offset + len <= first, NEW k \in 1 .. len
    PROVE  offset + k \in 1 .. first + second /\ offset + k <= first
OBVIOUS

LEMMA FlattensPlaces ==
    ASSUME NEW T, NEW ss \in Seq(Seq(T)), NEW f, Flattens(f, ss, Len(ss)),
           NEW n \in 1 .. Len(ss)
    PROVE  f[n] \in Seq(T) /\ FlatPlaces(f, ss, n)
<1> DEFINE Places(m) ==
              \A i \in 1 .. m :
                 /\ Offset(f, i) \in Nat
                 /\ Offset(f, i) + Len(ss[i]) <= Len(f[m])
                 /\ \A k \in 1 .. Len(ss[i]) : f[m][Offset(f, i) + k] = ss[i][k]
           Found(m) ==
              \A p \in 1 .. Len(f[m]) :
                 \E i \in 1 .. m : \E k \in 1 .. Len(ss[i]) : p = Offset(f, i) + k
           Ok(m) == f[m] \in Seq(T) /\ Places(m) /\ Found(m)
           S == {m \in 1 .. Len(ss) : ~Ok(m)}
<1>1. /\ Len(ss) \in Nat
      /\ \A i \in 1 .. Len(ss) : ss[i] \in Seq(T) /\ Len(ss[i]) \in Nat
    BY LenProperties, ElementOfSeq
<1>2. \A i \in 1 .. Len(ss) : f[i] = IF i = 1 THEN ss[i] ELSE f[i - 1] \o ss[i]
    BY DEF Flattens
<1>3. ASSUME NEW m \in S, \A k \in S : m <= k
      PROVE  FALSE
  <2>1. m \in 1 .. Len(ss) /\ ~Ok(m)
    OBVIOUS
  <2>2. CASE m = 1
    <3>1. f[1] = ss[1] /\ ss[1] \in Seq(T) /\ Len(ss[1]) \in Nat
      BY <1>1, <1>2, <2>1, <2>2
    <3>2. Places(1)
      BY <3>1 DEF Offset
    <3>3. Found(1)
      BY <3>1 DEF Offset
    <3> QED BY <2>1, <2>2, <3>1, <3>2, <3>3
  <2>3. CASE m # 1
    <3>1. m - 1 \in 1 .. Len(ss) /\ m \in Int /\ m \in 1 .. Len(ss)
      BY <1>1, <2>1, <2>3
    <3>2. m - 1 \notin S
      <4>1. ~ (m <= m - 1)
        BY <3>1
      <4> HIDE DEF S
      <4> QED BY <1>3, <4>1
    <3>3. Ok(m - 1)
      BY <3>1, <3>2
    <3> HIDE DEF S
    <3> DEFINE g == f[m - 1]
               s == ss[m]
    <3>4. /\ g \in Seq(T) /\ Len(g) \in Nat /\ s \in Seq(T) /\ Len(s) \in Nat
          /\ f[m] = g \o s
      BY <1>1, <1>2, <2>3, <3>1, <3>3, LenProperties
    <3>9. g = f[m - 1] /\ s = ss[m]
      OBVIOUS
    <3> HIDE DEF g, s
    <3>5. /\ f[m] \in Seq(T) /\ Len(f[m]) = Len(g) + Len(s)
          /\ \A p \in 1 .. Len(g) + Len(s) :
                f[m][p] = IF p <= Len(g) THEN g[p] ELSE s[p - Len(g)]
      BY <3>4, ConcatProperties
    <3>6. Offset(f, m) = Len(g)
      BY <2>3, <3>9 DEF Offset
    <3>7. Places(m)
      <4> SUFFICES ASSUME NEW i \in 1 .. m
                   PROVE  /\ Offset(f, i) \in Nat
                          /\ Offset(f, i) + Len(ss[i]) <= Len(f[m])
                          /\ \A k \in 1 .. Len(ss[i]) : f[m][Offset(f, i) + k] = ss[i][k]
        OBVIOUS
      <4>1. CASE i = m
        <5>1. \A k \in 1 .. Len(s) : f[m][Len(g) + k] = s[k]
          <6> TAKE k \in 1 .. Len(s)
          <6>1. Len(g) + k \in 1 .. Len(g) + Len(s) /\ ~ (Len(g) + k <= Len(g))
                /\ (Len(g) + k) - Len(g) = k
            BY <3>4
          <6> QED BY <3>5, <6>1
        <5>2. Offset(f, i) = Len(g) /\ ss[i] = s
          BY <3>6, <3>9, <4>1
        <5>3. Len(g) + Len(s) <= Len(f[m])
          BY <3>4, <3>5
        <5> QED BY <3>4, <5>1, <5>2, <5>3
      <4>2. CASE i # m
        <5>1. i \in 1 .. m - 1 /\ i \in 1 .. Len(ss)
          BY <1>1, <3>1, <4>2
        <5>2. /\ Offset(f, i) \in Nat
              /\ Offset(f, i) + Len(ss[i]) <= Len(g)
              /\ \A k \in 1 .. Len(ss[i]) : g[Offset(f, i) + k] = ss[i][k]
          BY <3>3, <3>9, <5>1
        <5>3. Len(ss[i]) \in Nat
          BY <1>1, <5>1
        <5>4. \A k \in 1 .. Len(ss[i]) : f[m][Offset(f, i) + k] = g[Offset(f, i) + k]
          <6> TAKE k \in 1 .. Len(ss[i])
          <6>1. Offset(f, i) + k \in 1 .. Len(g) + Len(s) /\ Offset(f, i) + k <= Len(g)
            BY <3>4, <5>2, <5>3, WithinFirst
          <6> QED BY <3>5, <6>1
        <5>5. Offset(f, i) + Len(ss[i]) <= Len(f[m])
          BY <3>4, <3>5, <5>2, <5>3
        <5> QED BY <5>2, <5>4, <5>5
      <4> QED BY <4>1, <4>2
    <3>8. Found(m)
      <4> SUFFICES ASSUME NEW p \in 1 .. Len(f[m])
                   PROVE  \E i \in 1 .. m : \E k \in 1 .. Len(ss[i]) : p = Offset(f, i) + k
        OBVIOUS
      <4>1. p \in Int /\ 1 <= p /\ p <= Len(g) + Len(s)
        BY <3>4, <3>5
      <4>2. CASE p <= Len(g)
        <5>1. p \in 1 .. Len(g)
          BY <3>4, <4>1, <4>2
        <5>2. PICK i \in 1 .. m - 1 : \E k \in 1 .. Len(ss[i]) : p = Offset(f, i) + k
          BY <3>3, <3>9, <5>1
        <5>3. i \in 1 .. m
          BY <3>1
        <5> QED BY <5>2, <5>3
      <4>3. CASE ~ (p <= Len(g))
        <5>1. p - Len(g) \in 1 .. Len(s)
          BY <3>4, <4>1, <4>3
        <5>2. p = Len(g) + (p - Len(g))
          BY <3>4, <4>1
        <5>3. m \in 1 .. m
          BY <3>1
        <5> QED BY <3>6, <3>9, <5>1, <5>2, <5>3
      <4> QED BY <4>2, <4>3
    <3> QED BY <2>1, <3>5, <3>7, <3>8
  <2> QED BY <2>2, <2>3
<1>4. S \in SUBSET Nat
    OBVIOUS
<1>5. S = {}
  <2> HIDE DEF S
  <2> QED BY <1>3, <1>4, LeastIndex
<1>6. Ok(n)
    BY <1>5
<1> QED BY <1>6 DEF FlatPlaces

\* off[i] elements come before those of the i-th sequence.
IsOffsets(off, ss) ==
    /\ off \in [1 .. Len(ss) -> Nat]
    /\ Len(ss) > 0 => off[1] = 0
    /\ \A i \in 1 .. Len(ss) : \A k \in 1 .. Len(ss[i]) :
          /\ off[i] + k \in 1 .. Len(FlattenSeq(ss))
          /\ FlattenSeq(ss)[off[i] + k] = ss[i][k]
    /\ \A p \in 1 .. Len(FlattenSeq(ss)) :
          \E i \in 1 .. Len(ss) : \E k \in 1 .. Len(ss[i]) : p = off[i] + k

\* FlattenSeq has a place for every element of every sequence, and no other.
LEMMA FlattenSeqPlaces ==
    ASSUME NEW T, NEW ss \in Seq(Seq(T))
    PROVE  FlattenSeq(ss) \in Seq(T) /\ \E off : IsOffsets(off, ss)
<1>1. Len(ss) \in Nat
    BY LenProperties
<1>2. CASE Len(ss) = 0
  <2>1. ss = <<>>
    BY <1>2, EmptySeq
  <2>2. FlattenSeq(ss) = <<>>
    BY <1>2, <2>1 DEF FlattenSeq
  <2>3. FlattenSeq(ss) \in Seq(T) /\ Len(FlattenSeq(ss)) = 0
    BY <2>2, EmptySeq
  <2>4. [i \in 1 .. Len(ss) |-> 0] \in [1 .. Len(ss) -> Nat]
    OBVIOUS
  <2>5. IsOffsets([i \in 1 .. Len(ss) |-> 0], ss)
    BY <1>2, <2>3, <2>4 DEF IsOffsets
  <2> QED BY <2>3, <2>5
<1>3. CASE Len(ss) # 0
  <2> DEFINE n == Len(ss)
             f == CHOOSE f : Flattens(f, ss, n)
             flat == f[n]
             off == [i \in 1 .. n |-> Offset(f, i)]
  <2>1. n \in 1 .. n
    BY <1>1, <1>3
  <2>2. Flattens(f, ss, n)
    BY <2>1, FlattensExists
  <2>3. FlattenSeq(ss) = flat
    BY <1>3 DEF FlattenSeq, Flattens
  <2> HIDE DEF f
  <2>4. /\ flat \in Seq(T)
        /\ \A i \in 1 .. n :
              /\ Offset(f, i) \in Nat
              /\ Offset(f, i) + Len(ss[i]) <= Len(flat)
              /\ \A k \in 1 .. Len(ss[i]) : flat[Offset(f, i) + k] = ss[i][k]
        /\ \A p \in 1 .. Len(flat) :
              \E i \in 1 .. n : \E k \in 1 .. Len(ss[i]) : p = Offset(f, i) + k
  <3>1. f[n] \in Seq(T) /\ FlatPlaces(f, ss, n)
    BY <2>1, <2>2, FlattensPlaces
  <3> QED BY <3>1 DEF FlatPlaces
  <2> HIDE DEF flat
  <2>5. off \in [1 .. n -> Nat] /\ \A i \in 1 .. n : off[i] = Offset(f, i)
    BY <2>4
  <2>6. off[1] = 0
    BY <1>1, <1>3, <2>5 DEF Offset
  <2> HIDE DEF off
  <2>7. \A i \in 1 .. n : \A k \in 1 .. Len(ss[i]) :
           off[i] + k \in 1 .. Len(flat) /\ flat[off[i] + k] = ss[i][k]
    <3> TAKE i \in 1 .. n
    <3> TAKE k \in 1 .. Len(ss[i])
    <3>1. ss[i] \in Seq(T)
      BY ElementOfSeq
    <3>2. Len(ss[i]) \in Nat /\ Len(flat) \in Nat
      BY <2>4, <3>1, LenProperties
    <3>3. off[i] \in Nat /\ off[i] + Len(ss[i]) <= Len(flat)
      BY <2>4, <2>5
    <3>4. flat[off[i] + k] = ss[i][k]
      BY <2>4, <2>5
    <3> QED BY <3>2, <3>3, <3>4
  <2>8. \A p \in 1 .. Len(flat) : \E i \in 1 .. n : \E k \in 1 .. Len(ss[i]) : p = off[i] + k
    BY <2>4, <2>5
  <2>9. IsOffsets(off, ss)
    BY <2>3, <2>5, <2>6, <2>7, <2>8, Zenon DEF IsOffsets
  <2> QED BY <2>3, <2>4, <2>9
<1> QED BY <1>2, <1>3

-----------------------------------------------------------------------------
(* The list that a load builds.                                            *)

\* Items that are made of records of the answers.
LEMMA EntriesAreItems ==
    ASSUME NEW source \in Sources, NEW R, NEW rs \in Seq(R),
           \A r \in R : r.id \in Int /\ r.unread \in Nat
    PROVE  /\ Entries(source, rs) \in Seq(Item)
           /\ Len(Entries(source, rs)) = Len(rs)
           /\ \A k \in 1 .. Len(rs) : Entries(source, rs)[k] = Entry(source, rs[k])
<1>1. Len(rs) \in Nat
    BY LenProperties
<1>2. \A k \in 1 .. Len(rs) : Entry(source, rs[k]) \in Item
  <2> TAKE k \in 1 .. Len(rs)
  <2>1. rs[k] \in R
    BY ElementOfSeq
  <2> QED BY <2>1 DEF Entry, Item
<1> QED BY <1>1, <1>2 DEF Entries

LEMMA SectionIsItem == Section \in Item /\ Section.source = "section"
    BY DEF Section, Item, Sources

\* A section shows the feeds that were picked for it, below a header.
Shown(source, feeds, I) == Headed(Entries(source, Subsequence(feeds, I)))

LEMMA SectionPlaces ==
    ASSUME NEW source \in Sources, NEW feeds \in Seq(Feed), NEW I \in SUBSET (DOMAIN feeds)
    PROVE  /\ Shown(source, feeds, I) \in Seq(Item)
           /\ Shown(source, feeds, I) # <<>> =>
                 Len(Shown(source, feeds, I)) > 1 /\ Shown(source, feeds, I)[1] = Section
           /\ \A p \in 1 .. Len(Shown(source, feeds, I)) :
                 p = 1 \/ \E k \in 1 .. Cardinality(I) : p = k + 1
           /\ \A k \in 1 .. Cardinality(I) :
                 /\ k + 1 \in 1 .. Len(Shown(source, feeds, I))
                 /\ Shown(source, feeds, I)[k + 1] = Entry(source, feeds[Nth(I, k)])
<1> DEFINE sub == Subsequence(feeds, I)
           es == Entries(source, sub)
<1>1. /\ sub \in Seq(Feed) /\ Len(sub) = Cardinality(I)
      /\ \A k \in 1 .. Cardinality(I) : sub[k] = feeds[Nth(I, k)]
    BY SubsequencePlaces
<1> HIDE DEF sub
<1>2. \A r \in Feed : r.id \in Int /\ r.unread \in Nat
    BY DEF Feed
<1>3. /\ es \in Seq(Item) /\ Len(es) = Len(sub)
      /\ \A k \in 1 .. Len(sub) : es[k] = Entry(source, sub[k])
    BY <1>1, <1>2, EntriesAreItems
<1>4. Len(sub) \in Nat
    BY <1>1, LenProperties
<1>5. Shown(source, feeds, I) = IF es = <<>> THEN <<>> ELSE <<Section>> \o es
    BY DEF Shown, Headed, sub
<1> HIDE DEF es
<1>6. CASE es = <<>>
  <2>1. Len(es) = 0 /\ Cardinality(I) = 0
    BY <1>1, <1>3, <1>6, EmptySeq
  <2> QED BY <1>3, <1>5, <1>6, <2>1, EmptySeq
<1>7. CASE es # <<>>
  <2> DEFINE h == <<Section>>
  <2>1. h \in Seq(Item) /\ Len(h) = 1 /\ h[1] = Section
    BY SectionIsItem
  <2> HIDE DEF h
  <2>2. /\ h \o es \in Seq(Item) /\ Len(h \o es) = 1 + Len(es)
        /\ \A p \in 1 .. 1 + Len(es) : (h \o es)[p] = IF p <= 1 THEN h[p] ELSE es[p - 1]
    <3>1. /\ h \o es \in Seq(Item) /\ Len(h \o es) = Len(h) + Len(es)
          /\ \A p \in 1 .. Len(h) + Len(es) :
                (h \o es)[p] = IF p <= Len(h) THEN h[p] ELSE es[p - Len(h)]
      BY <1>3, <2>1, ConcatProperties
    <3> QED BY <2>1, <3>1
  <2> DEFINE s == h \o es
  <2>3. Shown(source, feeds, I) = s
    BY <1>5, <1>7 DEF h
  <2>4. /\ s \in Seq(Item) /\ Len(s) = 1 + Len(es)
        /\ \A p \in 1 .. 1 + Len(es) : s[p] = IF p <= 1 THEN h[p] ELSE es[p - 1]
    BY <2>2
  <2> HIDE DEF s
  <2>5. Len(es) \in Nat /\ Len(es) > 0 /\ Len(es) = Cardinality(I)
    BY <1>1, <1>3, <1>4, <1>7, EmptySeq
  <2>6. Len(s) > 1 /\ s[1] = Section
    BY <2>1, <2>4, <2>5
  <2>7. \A p \in 1 .. Len(s) : p = 1 \/ \E k \in 1 .. Cardinality(I) : p = k + 1
    <3> TAKE p \in 1 .. Len(s)
    <3>1. p = 1 \/ (p - 1 \in 1 .. Cardinality(I) /\ p = (p - 1) + 1)
      BY <2>4, <2>5
    <3> QED BY <3>1
  <2>8. \A k \in 1 .. Cardinality(I) :
           k + 1 \in 1 .. Len(s) /\ s[k + 1] = Entry(source, feeds[Nth(I, k)])
    <3> TAKE k \in 1 .. Cardinality(I)
    <3>1. k \in 1 .. Len(es) /\ k + 1 \in 1 .. 1 + Len(es) /\ ~ (k + 1 <= 1) /\ (k + 1) - 1 = k
      BY <2>5
    <3>2. s[k + 1] = es[k]
      BY <2>4, <3>1
    <3> QED BY <1>1, <1>3, <2>4, <3>1, <3>2
  <2> QED BY <2>3, <2>4, <2>6, <2>7, <2>8
<1> QED BY <1>6, <1>7

\* The categories that get a block, and how many.
Shelf(a) == Subsequence(a.cats, Ordinary(a.cats))

\* The block of a category is its own item and those of its feeds.
LEMMA BlockPlaces ==
    ASSUME NEW c \in Category, NEW feeds \in Seq(Feed)
    PROVE  /\ CategoryBlock(c, feeds) \in Seq(Item)
           /\ Len(CategoryBlock(c, feeds)) = Cardinality(FeedsOf(c, feeds)) + 1
           /\ Cardinality(FeedsOf(c, feeds)) \in Nat
           /\ CategoryBlock(c, feeds)[1] = Entry("category", c)
           /\ \A k \in 1 .. Cardinality(FeedsOf(c, feeds)) :
                 CategoryBlock(c, feeds)[k + 1] = Entry("feed", feeds[Nth(FeedsOf(c, feeds), k)])
<1> DEFINE I == FeedsOf(c, feeds)
           sub == Subsequence(feeds, I)
           es == Entries("feed", sub)
           h == <<Entry("category", c)>>
<1>1. I \in SUBSET (DOMAIN feeds)
    BY DEF FeedsOf
<1>2. CategoryBlock(c, feeds) = h \o es
    BY DEF CategoryBlock
<1> HIDE DEF I
<1>3. /\ sub \in Seq(Feed) /\ Len(sub) = Cardinality(I)
      /\ \A k \in 1 .. Cardinality(I) : sub[k] = feeds[Nth(I, k)]
    BY <1>1, SubsequencePlaces
<1> HIDE DEF sub
<1>4. \A r \in Feed : r.id \in Int /\ r.unread \in Nat
    BY DEF Feed
<1>5. /\ es \in Seq(Item) /\ Len(es) = Len(sub)
      /\ \A k \in 1 .. Len(sub) : es[k] = Entry("feed", sub[k])
    BY <1>3, <1>4, EntriesAreItems DEF Sources
<1>6. Len(sub) \in Nat
    BY <1>3, LenProperties
<1> HIDE DEF es
<1>7. h \in Seq(Item) /\ Len(h) = 1 /\ h[1] = Entry("category", c)
    BY DEF Entry, Category, Item, Sources
<1> HIDE DEF h
<1>8. /\ h \o es \in Seq(Item) /\ Len(h \o es) = 1 + Len(es)
      /\ \A p \in 1 .. 1 + Len(es) : (h \o es)[p] = IF p <= 1 THEN h[p] ELSE es[p - 1]
  <2>1. /\ h \o es \in Seq(Item) /\ Len(h \o es) = Len(h) + Len(es)
        /\ \A p \in 1 .. Len(h) + Len(es) :
              (h \o es)[p] = IF p <= Len(h) THEN h[p] ELSE es[p - Len(h)]
    <3>1. h \in Seq(Item) /\ es \in Seq(Item)
      BY <1>5, <1>7
    <3> QED BY <3>1, ConcatProperties
  <2> QED BY <1>7, <2>1
<1>9. \A k \in 1 .. Cardinality(I) : (h \o es)[k + 1] = Entry("feed", feeds[Nth(I, k)])
  <2> TAKE k \in 1 .. Cardinality(I)
  <2>1. k \in 1 .. Len(es) /\ k + 1 \in 1 .. 1 + Len(es) /\ ~ (k + 1 <= 1) /\ (k + 1) - 1 = k
    BY <1>3, <1>5, <1>6
  <2>2. (h \o es)[k + 1] = es[k]
    BY <1>8, <2>1
  <2> QED BY <1>3, <1>5, <2>1, <2>2
<1>10. (h \o es)[1] = h[1]
  <2>1. 1 \in 1 .. 1 + Len(es)
    BY <1>5, <1>6
  <2> QED BY <1>8, <2>1
<1>11. Len(h \o es) = Cardinality(I) + 1 /\ Cardinality(I) \in Nat
  <2> HIDE DEF h, es
  <2> QED BY <1>3, <1>5, <1>6, <1>8
<1> QED BY <1>2, <1>7, <1>8, <1>9, <1>10, <1>11 DEF I

\* The blocks of the categories, which have an id from 0 on.
LEMMA BlocksPlaces ==
    ASSUME NEW a \in Answer
    PROVE  /\ a.cats \in Seq(Category) /\ a.feeds \in Seq(Feed)
           /\ Len(Shelf(a)) \in Nat
           /\ \A i \in 1 .. Len(Shelf(a)) :
                 /\ Shelf(a)[i] \in Category /\ Shelf(a)[i].id >= 0
                 /\ CategoryBlocks(a)[i] = CategoryBlock(Shelf(a)[i], a.feeds)
           /\ \A i, j \in 1 .. Len(Shelf(a)) : Shelf(a)[i].id = Shelf(a)[j].id => i = j
           /\ \A m \in DOMAIN a.cats :
                 a.cats[m].id >= 0 => \E i \in 1 .. Len(Shelf(a)) : Shelf(a)[i] = a.cats[m]
           /\ CategoryBlocks(a) \in Seq(Seq(Item))
           /\ Len(CategoryBlocks(a)) = Len(Shelf(a))
<1> DEFINE I == Ordinary(a.cats)
<1>1. a.cats \in Seq(Category) /\ a.feeds \in Seq(Feed)
    BY DEF Answer
<1>2. I \in SUBSET (DOMAIN a.cats)
    BY DEF Ordinary
<1>3. \A m \in DOMAIN a.cats : m \in I <=> a.cats[m].id >= 0
    BY DEF Ordinary
<1>4. Shelf(a) = Subsequence(a.cats, I)
    BY DEF Shelf
<1> HIDE DEF I
<1>5. /\ Shelf(a) \in Seq(Category)
      /\ Len(Shelf(a)) = Cardinality(I)
      /\ \A k \in 1 .. Cardinality(I) : Nth(I, k) \in I /\ Shelf(a)[k] = a.cats[Nth(I, k)]
      /\ \A k, m \in 1 .. Cardinality(I) : Nth(I, k) = Nth(I, m) => k = m
      /\ \A i \in I : \E k \in 1 .. Cardinality(I) : Nth(I, k) = i
    BY <1>1, <1>2, <1>4, SubsequencePlaces
<1>6. Len(Shelf(a)) \in Nat /\ \A i \in 1 .. Len(Shelf(a)) : Shelf(a)[i] \in Category
    BY <1>5, LenProperties, ElementOfSeq
<1>7. \A i \in 1 .. Len(Shelf(a)) : Shelf(a)[i].id >= 0
    BY <1>2, <1>3, <1>5
<1>8. ASSUME NEW i \in 1 .. Len(Shelf(a)), NEW j \in 1 .. Len(Shelf(a)),
             Shelf(a)[i].id = Shelf(a)[j].id
      PROVE  i = j
  <2>1. Nth(I, i) \in DOMAIN a.cats /\ Nth(I, j) \in DOMAIN a.cats
    BY <1>2, <1>5
  <2>2. Nth(I, i) = Nth(I, j)
    BY <1>5, <1>8, <2>1 DEF Answer
  <2> QED BY <1>5, <2>2
<1>9. \A m \in DOMAIN a.cats :
         a.cats[m].id >= 0 => \E i \in 1 .. Len(Shelf(a)) : Shelf(a)[i] = a.cats[m]
    BY <1>3, <1>5
<1>10. CategoryBlocks(a) = [i \in 1 .. Len(Shelf(a)) |-> CategoryBlock(Shelf(a)[i], a.feeds)]
    BY DEF CategoryBlocks, Shelf
<1>11. \A i \in 1 .. Len(Shelf(a)) : CategoryBlock(Shelf(a)[i], a.feeds) \in Seq(Item)
    BY <1>1, <1>6, BlockPlaces
<1>12. CategoryBlocks(a) \in Seq(Seq(Item)) /\ Len(CategoryBlocks(a)) = Len(Shelf(a))
    BY <1>6, <1>10, <1>11
<1> QED BY <1>1, <1>6, <1>7, <1>8, <1>9, <1>10, <1>12

VirtualPart(a) == Shown("virtual", a.feeds, Virtuals(a.feeds))
LabelPart(a) == Shown("label", a.feeds, LabelFeeds(a.feeds))
FeedPart(a) == FlattenSeq(CategoryBlocks(a))
Base(a) == Len(VirtualPart(a)) + Len(LabelPart(a)) + 1

\* What off[i] is: the block of the i-th category comes after that many items.
Starts(off, a) ==
    /\ \A i \in 1 .. Len(Shelf(a)) :
          /\ off[i] \in Nat
          /\ off[i] + 1 \in 1 .. Len(FeedPart(a))
          /\ FeedPart(a)[off[i] + 1] = Entry("category", Shelf(a)[i])
          /\ \A k \in 1 .. Cardinality(FeedsOf(Shelf(a)[i], a.feeds)) :
                /\ off[i] + k + 1 \in 1 .. Len(FeedPart(a))
                /\ FeedPart(a)[off[i] + k + 1]
                     = Entry("feed", a.feeds[Nth(FeedsOf(Shelf(a)[i], a.feeds), k)])
    /\ \A p \in 1 .. Len(FeedPart(a)) :
          \E i \in 1 .. Len(Shelf(a)) :
             \/ p = off[i] + 1
             \/ \E k \in 1 .. Cardinality(FeedsOf(Shelf(a)[i], a.feeds)) : p = off[i] + k + 1
    /\ FeedPart(a) # <<>> => FeedPart(a)[1].source = "category"

LEMMA FeedPartPlaces ==
    ASSUME NEW a \in Answer
    PROVE  FeedPart(a) \in Seq(Item) /\ \E off : Starts(off, a)
<1> DEFINE n == Len(Shelf(a))
           ss == CategoryBlocks(a)
           F == FeedPart(a)
           N(i) == Cardinality(FeedsOf(Shelf(a)[i], a.feeds))
           E(i, k) == Entry("feed", a.feeds[Nth(FeedsOf(Shelf(a)[i], a.feeds), k)])
<1>1. n \in Nat /\ ss \in Seq(Seq(Item)) /\ Len(ss) = n
    BY BlocksPlaces
<1>2. \A i \in 1 .. n :
         /\ N(i) \in Nat
         /\ Len(ss[i]) = N(i) + 1
         /\ ss[i][1] = Entry("category", Shelf(a)[i])
         /\ \A k \in 1 .. N(i) : ss[i][k + 1] = E(i, k)
  <2> TAKE i \in 1 .. n
  <2>1. Shelf(a)[i] \in Category /\ a.feeds \in Seq(Feed)
        /\ ss[i] = CategoryBlock(Shelf(a)[i], a.feeds)
    BY BlocksPlaces
  <2> QED BY <2>1, BlockPlaces
<1>3. F = FlattenSeq(ss)
    BY DEF FeedPart
<1> HIDE DEF n, ss, F, N, E
<1>4. F \in Seq(Item)
    BY <1>1, <1>3, FlattenSeqPlaces
<1>5. PICK off : IsOffsets(off, ss)
    BY <1>1, <1>3, FlattenSeqPlaces
<1>6. /\ off \in [1 .. n -> Nat]
      /\ n > 0 => off[1] = 0
      /\ \A i \in 1 .. n : \A k \in 1 .. Len(ss[i]) :
            off[i] + k \in 1 .. Len(F) /\ F[off[i] + k] = ss[i][k]
      /\ \A p \in 1 .. Len(F) : \E i \in 1 .. n : \E k \in 1 .. Len(ss[i]) : p = off[i] + k
    BY <1>1, <1>3, <1>5 DEF IsOffsets
<1>7. ASSUME NEW i \in 1 .. n
      PROVE  /\ off[i] \in Nat
             /\ off[i] + 1 \in 1 .. Len(F)
             /\ F[off[i] + 1] = Entry("category", Shelf(a)[i])
             /\ \A k \in 1 .. N(i) : off[i] + k + 1 \in 1 .. Len(F) /\ F[off[i] + k + 1] = E(i, k)
  <2>1. N(i) \in Nat /\ Len(ss[i]) = N(i) + 1 /\ off[i] \in Nat
    BY <1>2, <1>6
  <2>2. 1 \in 1 .. Len(ss[i])
    BY <2>1
  <2>3. off[i] + 1 \in 1 .. Len(F) /\ F[off[i] + 1] = Entry("category", Shelf(a)[i])
    BY <1>2, <1>6, <2>2
  <2>4. ASSUME NEW k \in 1 .. N(i)
        PROVE  off[i] + k + 1 \in 1 .. Len(F) /\ F[off[i] + k + 1] = E(i, k)
    <3>1. k + 1 \in 1 .. Len(ss[i]) /\ off[i] + k + 1 = off[i] + (k + 1)
      BY <2>1
    <3>2. off[i] + (k + 1) \in 1 .. Len(F) /\ F[off[i] + (k + 1)] = ss[i][k + 1]
      BY <1>6, <3>1
    <3>3. ss[i][k + 1] = E(i, k)
      BY <1>2
    <3> QED BY <3>1, <3>2, <3>3
  <2> QED BY <2>1, <2>3, <2>4
<1>8. ASSUME NEW p \in 1 .. Len(F)
      PROVE  \E i \in 1 .. n : p = off[i] + 1 \/ \E k \in 1 .. N(i) : p = off[i] + k + 1
  <2>1. PICK i \in 1 .. n : \E k \in 1 .. Len(ss[i]) : p = off[i] + k
    BY <1>6
  <2>2. PICK k \in 1 .. Len(ss[i]) : p = off[i] + k
    BY <2>1
  <2>3. N(i) \in Nat /\ Len(ss[i]) = N(i) + 1 /\ off[i] \in Nat
    BY <1>2, <1>6
  <2>4. CASE k = 1
    BY <2>2, <2>4
  <2>5. CASE k # 1
    <3>1. k - 1 \in 1 .. N(i) /\ p = off[i] + (k - 1) + 1
      BY <2>2, <2>3, <2>5
    <3> QED BY <3>1
  <2> QED BY <2>4, <2>5
<1>9. F # <<>> => F[1].source = "category"
  <2> SUFFICES ASSUME F # <<>> PROVE F[1].source = "category"
    OBVIOUS
  <2>1. Len(F) \in Nat /\ Len(F) > 0
    BY <1>4, EmptySeq
  <2>2. 1 \in 1 .. Len(F)
    BY <2>1
  <2>3. PICK i \in 1 .. n : TRUE
    BY <1>8, <2>2
  <2>4. 1 \in 1 .. n /\ n > 0
    BY <1>1
  <2>5. F[off[1] + 1] = Entry("category", Shelf(a)[1]) /\ off[1] = 0
    BY <1>6, <1>7, <2>4
  <2> QED BY <2>5 DEF Entry
<1>10. Starts(off, a)
    BY <1>7, <1>8, <1>9 DEF Starts, n, F, N, E
<1> QED BY <1>4, <1>10 DEF F

\* The list is made of these parts, with a header before the last.
LEMMA ItemsParts ==
    ASSUME NEW a \in Answer
    PROVE  /\ Items(a) \in Seq(Item)
           /\ VirtualPart(a) \in Seq(Item) /\ Len(VirtualPart(a)) \in Nat
           /\ LabelPart(a) \in Seq(Item) /\ Len(LabelPart(a)) \in Nat
           /\ FeedPart(a) \in Seq(Item) /\ Len(FeedPart(a)) \in Nat
           /\ Base(a) = Len(VirtualPart(a)) + Len(LabelPart(a)) + 1
           /\ Len(Items(a)) = Base(a) + Len(FeedPart(a))
           /\ \A p \in 1 .. Len(VirtualPart(a)) : Items(a)[p] = VirtualPart(a)[p]
           /\ \A p \in 1 .. Len(LabelPart(a)) :
                 Items(a)[Len(VirtualPart(a)) + p] = LabelPart(a)[p]
           /\ Items(a)[Base(a)] = Section
           /\ \A p \in 1 .. Len(FeedPart(a)) : Items(a)[Base(a) + p] = FeedPart(a)[p]
<1> DEFINE V == VirtualPart(a)
           L == LabelPart(a)
           F == FeedPart(a)
           h == <<Section>>
<1>1. V \in Seq(Item) /\ L \in Seq(Item)
  <2>1. a.feeds \in Seq(Feed)
    BY BlocksPlaces
  <2>2. Virtuals(a.feeds) \in SUBSET (DOMAIN a.feeds) /\ LabelFeeds(a.feeds) \in SUBSET (DOMAIN a.feeds)
    BY DEF Virtuals, LabelFeeds
  <2> QED BY <2>1, <2>2, SectionPlaces DEF VirtualPart, LabelPart, Sources
<1>2. F \in Seq(Item)
    BY FeedPartPlaces
<1>3. h \in Seq(Item) /\ Len(h) = 1 /\ h[1] = Section
    BY SectionIsItem
<1>4. Items(a) = ((V \o L) \o h) \o F
    BY DEF Items, VirtualPart, LabelPart, FeedPart, Shown
<1>5. Base(a) = Len(V) + Len(L) + 1
    BY DEF Base
<1> HIDE DEF V, L, F, h
<1>6. Len(V) \in Nat /\ Len(L) \in Nat /\ Len(F) \in Nat
    BY <1>1, <1>2, LenProperties
<1> DEFINE vl == V \o L
           vlh == vl \o h
<1>7. /\ vl \in Seq(Item) /\ Len(vl) = Len(V) + Len(L)
      /\ \A p \in 1 .. Len(V) + Len(L) : vl[p] = IF p <= Len(V) THEN V[p] ELSE L[p - Len(V)]
    BY <1>1, ConcatProperties
<1> HIDE DEF vl
<1>8. /\ vlh \in Seq(Item) /\ Len(vlh) = Len(vl) + Len(h)
      /\ \A p \in 1 .. Len(vl) + Len(h) : vlh[p] = IF p <= Len(vl) THEN vl[p] ELSE h[p - Len(vl)]
  <2>1. vl \in Seq(Item) /\ h \in Seq(Item)
    BY <1>3, <1>7
  <2> QED BY <2>1, ConcatProperties
<1> HIDE DEF vlh
<1> DEFINE all == vlh \o F
<1>9. /\ all \in Seq(Item) /\ Len(all) = Len(vlh) + Len(F)
      /\ \A p \in 1 .. Len(vlh) + Len(F) : all[p] = IF p <= Len(vlh) THEN vlh[p] ELSE F[p - Len(vlh)]
  <2>1. vlh \in Seq(Item) /\ F \in Seq(Item)
    BY <1>2, <1>8
  <2> QED BY <2>1, ConcatProperties
<1>10. Items(a) = all
    BY <1>4 DEF vl, vlh
<1> HIDE DEF all
<1> DEFINE nV == Len(V)
           nL == Len(L)
           nF == Len(F)
<1>11. nV \in Nat /\ nL \in Nat /\ nF \in Nat /\ Len(vlh) = nV + nL + 1 /\ Len(vl) = nV + nL
       /\ Len(h) = 1
    BY <1>3, <1>6, <1>7, <1>8
<1> HIDE DEF nV, nL, nF
<1>12. \A p \in 1 .. nV : all[p] = V[p]
  <2> TAKE p \in 1 .. nV
  <2>1. p \in 1 .. Len(V) + Len(L) /\ p <= Len(V) /\ p \in 1 .. Len(vl) + Len(h) /\ p <= Len(vl)
        /\ p \in 1 .. Len(vlh) + Len(F) /\ p <= Len(vlh)
    BY <1>3, <1>11 DEF nV, nL, nF
  <2> QED BY <1>7, <1>8, <1>9, <2>1
<1>13. \A p \in 1 .. nL : all[nV + p] = L[p]
  <2> TAKE p \in 1 .. nL
  <2> DEFINE q == nV + p
  <2>1. q \in 1 .. Len(V) + Len(L) /\ ~ (q <= Len(V)) /\ q - Len(V) = p
        /\ q \in 1 .. Len(vl) + Len(h) /\ q <= Len(vl)
        /\ q \in 1 .. Len(vlh) + Len(F) /\ q <= Len(vlh)
    BY <1>3, <1>11 DEF nV, nL, nF
  <2> HIDE DEF q
  <2>2. vl[q] = L[p]
    BY <1>7, <2>1
  <2>3. vlh[q] = vl[q] /\ all[q] = vlh[q]
    BY <1>8, <1>9, <2>1
  <2> QED BY <2>2, <2>3 DEF q
<1>14. all[nV + nL + 1] = Section
  <2> DEFINE q == nV + nL + 1
  <2>1. ~ (q <= Len(vl)) /\ q - Len(vl) = 1 /\ q \in 1 .. Len(vl) + Len(h)
        /\ q \in 1 .. Len(vlh) + Len(F) /\ q <= Len(vlh)
    BY <1>3, <1>11 DEF nF
  <2> HIDE DEF q
  <2>2. vlh[q] = h[1] /\ all[q] = vlh[q]
    BY <1>8, <1>9, <2>1
  <2> QED BY <1>3, <2>2 DEF q
<1>15. \A p \in 1 .. nF : all[nV + nL + 1 + p] = F[p]
  <2> TAKE p \in 1 .. nF
  <2> DEFINE q == nV + nL + 1 + p
  <2>1. ~ (q <= Len(vlh)) /\ q - Len(vlh) = p /\ q \in 1 .. Len(vlh) + Len(F)
    BY <1>11 DEF nF
  <2> HIDE DEF q
  <2>2. all[q] = F[p]
    BY <1>9, <2>1
  <2> QED BY <2>2 DEF q
<1>16. Base(a) = nV + nL + 1 /\ Len(all) = Base(a) + nF
    BY <1>5, <1>9, <1>11 DEF nV, nL, nF
<1> QED BY <1>1, <1>2, <1>5, <1>6, <1>9, <1>10, <1>12, <1>13, <1>14, <1>15, <1>16
    DEF nV, nL, nF, V, L, F

\* The list starts with a header, and an entry that is always visible comes
\* next.
WellFormed(list) ==
    /\ list \in Seq(Item)
    /\ list # <<>>
    /\ list[1].source = "section"
    /\ Len(list) > 1 => list[2].source \in {"virtual", "label", "category"}

LEMMA PartsOfSections ==
    ASSUME NEW a \in Answer
    PROVE  /\ VirtualPart(a) # <<>> =>
                 Len(VirtualPart(a)) > 1 /\ VirtualPart(a)[1] = Section
           /\ \A p \in 1 .. Len(VirtualPart(a)) :
                 p = 1 \/ \E k \in 1 .. Cardinality(Virtuals(a.feeds)) : p = k + 1
           /\ \A k \in 1 .. Cardinality(Virtuals(a.feeds)) :
                 /\ k + 1 \in 1 .. Len(VirtualPart(a))
                 /\ VirtualPart(a)[k + 1] = Entry("virtual", a.feeds[Nth(Virtuals(a.feeds), k)])
           /\ LabelPart(a) # <<>> =>
                 Len(LabelPart(a)) > 1 /\ LabelPart(a)[1] = Section
           /\ \A p \in 1 .. Len(LabelPart(a)) :
                 p = 1 \/ \E k \in 1 .. Cardinality(LabelFeeds(a.feeds)) : p = k + 1
           /\ \A k \in 1 .. Cardinality(LabelFeeds(a.feeds)) :
                 /\ k + 1 \in 1 .. Len(LabelPart(a))
                 /\ LabelPart(a)[k + 1] = Entry("label", a.feeds[Nth(LabelFeeds(a.feeds), k)])
<1>1. a.feeds \in Seq(Feed)
    BY BlocksPlaces
<1>2. /\ Virtuals(a.feeds) \in SUBSET (DOMAIN a.feeds)
      /\ LabelFeeds(a.feeds) \in SUBSET (DOMAIN a.feeds)
    BY DEF Virtuals, LabelFeeds
<1>3. "virtual" \in Sources /\ "label" \in Sources
    BY DEF Sources
<1> QED BY <1>1, <1>2, <1>3, SectionPlaces DEF VirtualPart, LabelPart

LEMMA ItemsWellFormed ==
    ASSUME NEW a \in Answer
    PROVE  WellFormed(Items(a))
<1> DEFINE V == VirtualPart(a)
           L == LabelPart(a)
           F == FeedPart(a)
           all == Items(a)
<1>1. /\ all \in Seq(Item)
      /\ V \in Seq(Item) /\ Len(V) \in Nat
      /\ L \in Seq(Item) /\ Len(L) \in Nat
      /\ F \in Seq(Item) /\ Len(F) \in Nat
      /\ Len(all) = Len(V) + Len(L) + 1 + Len(F)
      /\ \A p \in 1 .. Len(V) : all[p] = V[p]
      /\ \A p \in 1 .. Len(L) : all[Len(V) + p] = L[p]
      /\ all[Len(V) + Len(L) + 1] = Section
      /\ \A p \in 1 .. Len(F) : all[Len(V) + Len(L) + 1 + p] = F[p]
    BY ItemsParts DEF Base
<1>2. /\ V # <<>> => Len(V) > 1 /\ V[1] = Section
      /\ \A p \in 1 .. Len(V) : p = 1 \/ \E k \in 1 .. Cardinality(Virtuals(a.feeds)) : p = k + 1
      /\ L # <<>> => Len(L) > 1 /\ L[1] = Section
      /\ \A p \in 1 .. Len(L) : p = 1 \/ \E k \in 1 .. Cardinality(LabelFeeds(a.feeds)) : p = k + 1
    BY PartsOfSections
<1>3. \A p \in 1 .. Len(V) : p # 1 => V[p].source = "virtual"
  <2> SUFFICES ASSUME NEW p \in 1 .. Len(V), p # 1 PROVE V[p].source = "virtual"
    OBVIOUS
  <2>1. PICK k \in 1 .. Cardinality(Virtuals(a.feeds)) : p = k + 1
    BY <1>2
  <2>2. V[k + 1] = Entry("virtual", a.feeds[Nth(Virtuals(a.feeds), k)])
    BY PartsOfSections
  <2> QED BY <2>1, <2>2 DEF Entry
<1>4. \A p \in 1 .. Len(L) : p # 1 => L[p].source = "label"
  <2> SUFFICES ASSUME NEW p \in 1 .. Len(L), p # 1 PROVE L[p].source = "label"
    OBVIOUS
  <2>1. PICK k \in 1 .. Cardinality(LabelFeeds(a.feeds)) : p = k + 1
    BY <1>2
  <2>2. L[k + 1] = Entry("label", a.feeds[Nth(LabelFeeds(a.feeds), k)])
    BY PartsOfSections
  <2> QED BY <2>1, <2>2 DEF Entry
<1>5. F # <<>> => F[1].source = "category"
    BY FeedPartPlaces DEF Starts
<1> HIDE DEF V, L, F, all
<1>6. all # <<>> /\ Len(all) >= 1
    BY <1>1, EmptySeq
<1>7. Section.source = "section"
    BY DEF Section
<1>8. CASE V # <<>>
  <2>1. 1 \in 1 .. Len(V) /\ 2 \in 1 .. Len(V) /\ Len(V) > 1
    BY <1>1, <1>2, <1>8
  <2>2. all[1] = V[1] /\ all[2] = V[2]
    BY <1>1, <2>1
  <2>3. V[1] = Section /\ V[2].source = "virtual"
    BY <1>2, <1>3, <1>8, <2>1
  <2> QED BY <1>1, <1>6, <1>7, <2>2, <2>3 DEF WellFormed, all
<1>9. CASE V = <<>> /\ L # <<>>
  <2>1. Len(V) = 0
    BY <1>9, EmptySeq
  <2>2. 1 \in 1 .. Len(L) /\ 2 \in 1 .. Len(L) /\ Len(V) + 1 = 1 /\ Len(V) + 2 = 2
    BY <1>1, <1>2, <1>9, <2>1
  <2>3. all[Len(V) + 1] = L[1] /\ all[Len(V) + 2] = L[2]
    BY <1>1, <2>2
  <2>4. L[1] = Section /\ L[2].source = "label"
    BY <1>2, <1>4, <1>9, <2>2
  <2>5. all[1].source = "section" /\ all[2].source = "label"
    BY <1>7, <2>2, <2>3, <2>4
  <2> QED BY <1>1, <1>6, <2>5 DEF WellFormed, all
<1>10. CASE V = <<>> /\ L = <<>>
  <2>1. Len(V) = 0 /\ Len(L) = 0 /\ Len(V) + Len(L) + 1 = 1
    BY <1>10, EmptySeq
  <2>2. all[1] = Section
    BY <1>1, <2>1
  <2>3. ASSUME Len(all) > 1 PROVE all[2].source = "category"
    <3>1. Len(F) > 0 /\ 1 \in 1 .. Len(F) /\ F # <<>> /\ Len(V) + Len(L) + 1 + 1 = 2
      BY <1>1, <2>1, <2>3, EmptySeq
    <3>2. all[Len(V) + Len(L) + 1 + 1] = F[1]
      BY <1>1, <3>1
    <3> QED BY <1>5, <3>1, <3>2
  <2> QED BY <1>1, <1>6, <1>7, <2>2, <2>3 DEF WellFormed, all
<1> QED BY <1>8, <1>9, <1>10

\* Item p of the list is the one of feed m of the answer: among the virtual
\* feeds, the labels, or the feeds of the i-th category.
VirtualAt(a, p, m) ==
    \E k \in 1 .. Cardinality(Virtuals(a.feeds)) : Nth(Virtuals(a.feeds), k) = m /\ p = k + 1
LabelAt(a, p, m) ==
    \E k \in 1 .. Cardinality(LabelFeeds(a.feeds)) :
       Nth(LabelFeeds(a.feeds), k) = m /\ p = Len(VirtualPart(a)) + (k + 1)
FeedAt(a, off, i, p, m) ==
    \E k \in 1 .. Cardinality(FeedsOf(Shelf(a)[i], a.feeds)) :
       Nth(FeedsOf(Shelf(a)[i], a.feeds), k) = m /\ p = Base(a) + (off[i] + k + 1)
ShowsFeed(a, off, p, m) ==
    \/ VirtualAt(a, p, m)
    \/ LabelAt(a, p, m)
    \/ \E i \in 1 .. Len(Shelf(a)) : FeedAt(a, off, i, p, m)

\* Which list a feed was picked for says what feed it is.
LEMMA KindOfShown ==
    ASSUME NEW a \in Answer, NEW off, NEW p, NEW m
    PROVE  /\ VirtualAt(a, p, m) => m \in DOMAIN a.feeds /\ IsVirtual(a.feeds[m])
           /\ LabelAt(a, p, m) => m \in DOMAIN a.feeds /\ a.feeds[m].cat = Labels
           /\ \A i \in 1 .. Len(Shelf(a)) :
                 FeedAt(a, off, i, p, m) =>
                    m \in DOMAIN a.feeds /\ a.feeds[m].cat = Shelf(a)[i].id /\ a.feeds[m].id > 0
<1>1. a.feeds \in Seq(Feed)
    BY BlocksPlaces
<1>2. ASSUME VirtualAt(a, p, m)
      PROVE  m \in DOMAIN a.feeds /\ IsVirtual(a.feeds[m])
  <2>1. Virtuals(a.feeds) \in SUBSET (DOMAIN a.feeds)
    BY DEF Virtuals
  <2>2. m \in Virtuals(a.feeds)
    BY <1>1, <1>2, <2>1, SubsequencePlaces DEF VirtualAt
  <2> QED BY <2>2 DEF Virtuals
<1>3. ASSUME LabelAt(a, p, m)
      PROVE  m \in DOMAIN a.feeds /\ a.feeds[m].cat = Labels
  <2>1. LabelFeeds(a.feeds) \in SUBSET (DOMAIN a.feeds)
    BY DEF LabelFeeds
  <2>2. m \in LabelFeeds(a.feeds)
    BY <1>1, <1>3, <2>1, SubsequencePlaces DEF LabelAt
  <2> QED BY <2>2 DEF LabelFeeds
<1>4. ASSUME NEW i \in 1 .. Len(Shelf(a)), FeedAt(a, off, i, p, m)
      PROVE  m \in DOMAIN a.feeds /\ a.feeds[m].cat = Shelf(a)[i].id /\ a.feeds[m].id > 0
  <2>1. FeedsOf(Shelf(a)[i], a.feeds) \in SUBSET (DOMAIN a.feeds)
    BY DEF FeedsOf
  <2>2. m \in FeedsOf(Shelf(a)[i], a.feeds)
    BY <1>1, <1>4, <2>1, SubsequencePlaces DEF FeedAt
  <2> QED BY <2>2 DEF FeedsOf, IsFeedOf
<1> QED BY <1>2, <1>3, <1>4

\* A category with a block is one of the answer.
LEMMA ShelfIsAnswered ==
    ASSUME NEW a \in Answer, NEW i \in 1 .. Len(Shelf(a))
    PROVE  \E n \in 1 .. Len(a.cats) : a.cats[n] = Shelf(a)[i]
<1>1. a.cats \in Seq(Category)
    BY BlocksPlaces
<1>2. Ordinary(a.cats) \in SUBSET (DOMAIN a.cats)
    BY DEF Ordinary
<1>3. Shelf(a) = Subsequence(a.cats, Ordinary(a.cats))
    BY DEF Shelf
<1>4. /\ Shelf(a)[i] = a.cats[Nth(Ordinary(a.cats), i)]
      /\ Nth(Ordinary(a.cats), i) \in DOMAIN a.cats
    BY <1>1, <1>2, <1>3, SubsequencePlaces
<1> QED BY <1>1, <1>4, LenProperties

\* A feed that has an item was answered, and its item is its own.
LEMMA ShownIsAnswered ==
    ASSUME NEW a \in Answer, NEW off, Starts(off, a), NEW p, NEW m, ShowsFeed(a, off, p, m)
    PROVE  /\ m \in DOMAIN a.feeds /\ Answered(a, a.feeds[m])
           /\ p \in 1 .. Len(Items(a))
           /\ Items(a)[p].source \notin {"section", "category"}
           /\ Items(a)[p].id = a.feeds[m].id
<1>1. a.feeds \in Seq(Feed) /\ a.cats \in Seq(Category)
    BY BlocksPlaces
<1> DEFINE nV == Len(VirtualPart(a))
           nL == Len(LabelPart(a))
           nF == Len(FeedPart(a))
           b == Base(a)
           all == Items(a)
<1>2. /\ nV \in Nat /\ nL \in Nat /\ nF \in Nat /\ b = nV + nL + 1
      /\ Len(all) = b + nF
      /\ \A q \in 1 .. nV : all[q] = VirtualPart(a)[q]
      /\ \A q \in 1 .. nL : all[nV + q] = LabelPart(a)[q]
      /\ \A q \in 1 .. nF : all[b + q] = FeedPart(a)[q]
    BY ItemsParts
<1> HIDE DEF nV, nL, nF, b, all
<1>3. CASE VirtualAt(a, p, m)
  <2>1. PICK k \in 1 .. Cardinality(Virtuals(a.feeds)) : Nth(Virtuals(a.feeds), k) = m /\ p = k + 1
    BY <1>3 DEF VirtualAt
  <2>2. m \in DOMAIN a.feeds /\ IsVirtual(a.feeds[m])
    BY <1>3, KindOfShown
  <2>3. p \in 1 .. nV /\ VirtualPart(a)[p] = Entry("virtual", a.feeds[m])
    BY <2>1, PartsOfSections DEF nV
  <2>4. p \in 1 .. Len(all) /\ all[p] = Entry("virtual", a.feeds[m])
    BY <1>2, <2>3
  <2>5. Answered(a, a.feeds[m])
    BY <2>2 DEF Answered, IsVirtual
  <2> QED BY <2>2, <2>4, <2>5 DEF Entry, all
<1>4. CASE LabelAt(a, p, m)
  <2>1. PICK k \in 1 .. Cardinality(LabelFeeds(a.feeds)) :
            Nth(LabelFeeds(a.feeds), k) = m /\ p = nV + (k + 1)
    BY <1>4 DEF LabelAt, nV
  <2>2. m \in DOMAIN a.feeds /\ a.feeds[m].cat = Labels
    BY <1>4, KindOfShown
  <2>3. k + 1 \in 1 .. nL /\ LabelPart(a)[k + 1] = Entry("label", a.feeds[m])
    BY <2>1, PartsOfSections DEF nL
  <2>4. p \in 1 .. Len(all) /\ all[p] = Entry("label", a.feeds[m])
    BY <1>2, <2>1, <2>3
  <2>5. Answered(a, a.feeds[m])
    BY <2>2 DEF Answered
  <2> QED BY <2>2, <2>4, <2>5 DEF Entry, all
<1>5. ASSUME NEW i \in 1 .. Len(Shelf(a)), FeedAt(a, off, i, p, m)
      PROVE  /\ m \in DOMAIN a.feeds /\ Answered(a, a.feeds[m])
             /\ p \in 1 .. Len(all)
             /\ all[p].source \notin {"section", "category"}
             /\ all[p].id = a.feeds[m].id
  <2> DEFINE c == Shelf(a)[i]
             I == FeedsOf(c, a.feeds)
  <2>1. PICK k \in 1 .. Cardinality(I) : Nth(I, k) = m /\ p = b + (off[i] + k + 1)
    BY <1>5 DEF FeedAt, b
  <2>2. m \in DOMAIN a.feeds /\ a.feeds[m].cat = c.id /\ a.feeds[m].id > 0
    BY <1>5, KindOfShown
  <2>3. off[i] + k + 1 \in 1 .. nF /\ FeedPart(a)[off[i] + k + 1] = Entry("feed", a.feeds[m])
    BY <2>1 DEF Starts, nF
  <2> DEFINE r == off[i] + k + 1
  <2>4. p = b + r /\ r \in 1 .. nF /\ FeedPart(a)[r] = Entry("feed", a.feeds[m])
    BY <2>1, <2>3
  <2> HIDE DEF r
  <2>5. b + r \in 1 .. Len(all) /\ all[b + r] = FeedPart(a)[r]
    BY <1>2, <2>4
  <2>6. p \in 1 .. Len(all) /\ all[p] = Entry("feed", a.feeds[m])
    BY <2>4, <2>5
  <2>7. Answered(a, a.feeds[m])
    BY <2>2, ShelfIsAnswered DEF Answered
  <2> QED BY <2>2, <2>6, <2>7 DEF Entry
<1> QED BY <1>3, <1>4, <1>5 DEF ShowsFeed, all

\* Every entry is the item of a feed.
LEMMA EntryIsShown ==
    ASSUME NEW a \in Answer, NEW off, Starts(off, a), NEW p \in 1 .. Len(Items(a)),
           Items(a)[p].source \notin {"section", "category"}
    PROVE  \E m : ShowsFeed(a, off, p, m)
<1> DEFINE nV == Len(VirtualPart(a))
           nL == Len(LabelPart(a))
           nF == Len(FeedPart(a))
           b == Base(a)
           all == Items(a)
<1>1. /\ nV \in Nat /\ nL \in Nat /\ nF \in Nat /\ b = nV + nL + 1
      /\ Len(all) = b + nF
      /\ \A q \in 1 .. nV : all[q] = VirtualPart(a)[q]
      /\ \A q \in 1 .. nL : all[nV + q] = LabelPart(a)[q]
      /\ all[b] = Section
      /\ \A q \in 1 .. nF : all[b + q] = FeedPart(a)[q]
    BY ItemsParts
<1>2. p \in 1 .. Len(all) /\ all[p].source \notin {"section", "category"}
    OBVIOUS
<1>3. Section.source = "section"
    BY DEF Section
<1> HIDE DEF nV, nL, nF, b, all
<1>4. CASE p <= nV
  <2>1. p \in 1 .. nV /\ VirtualPart(a)[p] = all[p]
    BY <1>1, <1>2, <1>4
  <2>2. p # 1
    <3>1. p = 1 => VirtualPart(a) # <<>>
      BY <2>1, EmptySeq DEF nV
    <3> QED BY <1>2, <1>3, <2>1, <3>1, PartsOfSections
  <2>3. \E k \in 1 .. Cardinality(Virtuals(a.feeds)) : p = k + 1
    BY <2>1, <2>2, PartsOfSections DEF nV
  <2>4. VirtualAt(a, p, Nth(Virtuals(a.feeds), p - 1))
    <3>1. PICK k \in 1 .. Cardinality(Virtuals(a.feeds)) : p = k + 1
      BY <2>3
    <3>2. p - 1 = k
      BY <3>1
    <3> QED BY <3>1, <3>2 DEF VirtualAt
  <2> QED BY <2>4 DEF ShowsFeed
<1>5. CASE nV < p /\ p <= nV + nL
  <2> DEFINE q == p - nV
  <2>1. q \in 1 .. nL /\ LabelPart(a)[q] = all[p] /\ p = nV + q
    <3>1. q \in 1 .. nL /\ p = nV + q
      BY <1>1, <1>2, <1>5
    <3> HIDE DEF q
    <3> QED BY <1>1, <3>1
  <2> HIDE DEF q
  <2>2. q # 1
    <3>1. q = 1 => LabelPart(a) # <<>>
      BY <2>1, EmptySeq DEF nL
    <3> QED BY <1>2, <1>3, <2>1, <3>1, PartsOfSections
  <2>3. PICK k \in 1 .. Cardinality(LabelFeeds(a.feeds)) : q = k + 1
    BY <2>1, <2>2, PartsOfSections DEF nL
  <2>4. LabelAt(a, p, Nth(LabelFeeds(a.feeds), k))
    BY <2>1, <2>3 DEF LabelAt, nV
  <2> QED BY <2>4 DEF ShowsFeed
<1>6. CASE p = b
    BY <1>1, <1>2, <1>3, <1>6
<1>7. CASE p > b
  <2> DEFINE q == p - b
  <2>1. q \in 1 .. nF /\ FeedPart(a)[q] = all[p] /\ p = b + q
    <3>1. q \in 1 .. nF /\ p = b + q
      BY <1>1, <1>2, <1>7
    <3> HIDE DEF q
    <3> QED BY <1>1, <3>1
  <2> HIDE DEF q
  <2>2. PICK i \in 1 .. Len(Shelf(a)) :
            \/ q = off[i] + 1
            \/ \E k \in 1 .. Cardinality(FeedsOf(Shelf(a)[i], a.feeds)) : q = off[i] + k + 1
    BY <2>1 DEF Starts, nF
  <2>3. q # off[i] + 1
    <3>1. FeedPart(a)[off[i] + 1].source = "category"
      <4>1. FeedPart(a)[off[i] + 1] = Entry("category", Shelf(a)[i])
        BY DEF Starts
      <4> QED BY <4>1 DEF Entry
    <3> QED BY <1>2, <2>1, <3>1
  <2>4. PICK k \in 1 .. Cardinality(FeedsOf(Shelf(a)[i], a.feeds)) : q = off[i] + k + 1
    BY <2>2, <2>3
  <2>5. FeedAt(a, off, i, p, Nth(FeedsOf(Shelf(a)[i], a.feeds), k))
    BY <2>1, <2>4 DEF FeedAt, b
  <2> QED BY <2>5 DEF ShowsFeed
<1> QED BY <1>1, <1>2, <1>4, <1>5, <1>6, <1>7

\* A feed has one item: no feed is picked for two lists, or twice for one.
LEMMA ShownOnce ==
    ASSUME NEW a \in Answer, NEW off, NEW m, NEW p, NEW q,
           ShowsFeed(a, off, p, m), ShowsFeed(a, off, q, m)
    PROVE  p = q
<1>1. a.feeds \in Seq(Feed)
    BY BlocksPlaces
<1>2. \A i \in 1 .. Len(Shelf(a)) : Shelf(a)[i].id \in Int /\ Shelf(a)[i].id >= 0
    BY BlocksPlaces DEF Category
<1>3. m \in DOMAIN a.feeds => a.feeds[m].id \in Int /\ a.feeds[m].cat \in Int
  <2> SUFFICES ASSUME m \in DOMAIN a.feeds PROVE a.feeds[m] \in Feed
    BY DEF Feed
  <2> QED BY <1>1, LenProperties, ElementOfSeq
<1> DEFINE virtual == m \in DOMAIN a.feeds /\ IsVirtual(a.feeds[m])
           label == m \in DOMAIN a.feeds /\ a.feeds[m].cat = Labels
           ordinary == m \in DOMAIN a.feeds /\ a.feeds[m].cat >= 0 /\ a.feeds[m].id > 0
<1>4. \A r : VirtualAt(a, r, m) => virtual
    BY KindOfShown
<1>5. \A r : LabelAt(a, r, m) => label
    BY KindOfShown
<1>6. \A r : \A i \in 1 .. Len(Shelf(a)) : FeedAt(a, off, i, r, m) => ordinary
    BY <1>2, KindOfShown
<1>7. ~ (virtual /\ label) /\ ~ (virtual /\ ordinary) /\ ~ (label /\ ordinary)
    BY <1>3 DEF IsVirtual, VirtualFeeds, Special, Labels
<1> HIDE DEF virtual, label, ordinary
<1>8. CASE VirtualAt(a, p, m)
  <2>1. VirtualAt(a, q, m)
    BY <1>4, <1>5, <1>6, <1>7, <1>8 DEF ShowsFeed
  <2>2. Virtuals(a.feeds) \in SUBSET (DOMAIN a.feeds)
    BY DEF Virtuals
  <2>3. \A k, n \in 1 .. Cardinality(Virtuals(a.feeds)) :
           Nth(Virtuals(a.feeds), k) = Nth(Virtuals(a.feeds), n) => k = n
    BY <1>1, <2>2, SubsequencePlaces
  <2> QED BY <1>8, <2>1, <2>3 DEF VirtualAt
<1>9. CASE LabelAt(a, p, m)
  <2>1. LabelAt(a, q, m)
    BY <1>4, <1>5, <1>6, <1>7, <1>9 DEF ShowsFeed
  <2>2. LabelFeeds(a.feeds) \in SUBSET (DOMAIN a.feeds)
    BY DEF LabelFeeds
  <2>3. \A k, n \in 1 .. Cardinality(LabelFeeds(a.feeds)) :
           Nth(LabelFeeds(a.feeds), k) = Nth(LabelFeeds(a.feeds), n) => k = n
    BY <1>1, <2>2, SubsequencePlaces
  <2> QED BY <1>9, <2>1, <2>3 DEF LabelAt
<1>10. ASSUME NEW i \in 1 .. Len(Shelf(a)), FeedAt(a, off, i, p, m)
       PROVE  p = q
  <2>1. PICK j \in 1 .. Len(Shelf(a)) : FeedAt(a, off, j, q, m)
    BY <1>4, <1>5, <1>6, <1>7, <1>10 DEF ShowsFeed
  <2>2. Shelf(a)[i].id = Shelf(a)[j].id
    BY <1>10, <2>1, KindOfShown
  <2>3. i = j
    BY <2>2, BlocksPlaces
  <2> DEFINE I == FeedsOf(Shelf(a)[i], a.feeds)
  <2>4. I \in SUBSET (DOMAIN a.feeds)
    BY DEF FeedsOf
  <2>5. \A k, n \in 1 .. Cardinality(I) : Nth(I, k) = Nth(I, n) => k = n
    BY <1>1, <2>4, SubsequencePlaces
  <2> QED BY <1>10, <2>1, <2>3, <2>5 DEF FeedAt
<1> QED BY <1>8, <1>9, <1>10 DEF ShowsFeed

\* Every feed that was answered has an item.
LEMMA AnsweredIsShown ==
    ASSUME NEW a \in Answer, NEW off, NEW m \in DOMAIN a.feeds, Answered(a, a.feeds[m])
    PROVE  \E p : ShowsFeed(a, off, p, m)
<1>1. a.feeds \in Seq(Feed) /\ a.cats \in Seq(Category)
    BY BlocksPlaces
<1> DEFINE f == a.feeds[m]
<1>2. CASE IsVirtual(f)
  <2>1. Virtuals(a.feeds) \in SUBSET (DOMAIN a.feeds) /\ m \in Virtuals(a.feeds)
    BY <1>2 DEF Virtuals
  <2>2. PICK k \in 1 .. Cardinality(Virtuals(a.feeds)) : Nth(Virtuals(a.feeds), k) = m
    BY <1>1, <2>1, SubsequencePlaces
  <2>3. VirtualAt(a, k + 1, m)
    BY <2>2 DEF VirtualAt
  <2> QED BY <2>3 DEF ShowsFeed
<1>3. CASE f.cat = Labels
  <2>1. LabelFeeds(a.feeds) \in SUBSET (DOMAIN a.feeds) /\ m \in LabelFeeds(a.feeds)
    BY <1>3 DEF LabelFeeds
  <2>2. PICK k \in 1 .. Cardinality(LabelFeeds(a.feeds)) : Nth(LabelFeeds(a.feeds), k) = m
    BY <1>1, <2>1, SubsequencePlaces
  <2>3. LabelAt(a, Len(VirtualPart(a)) + (k + 1), m)
    BY <2>2 DEF LabelAt
  <2> QED BY <2>3 DEF ShowsFeed
<1>4. CASE ~IsVirtual(f) /\ f.cat # Labels
  <2>1. PICK n \in 1 .. Len(a.cats) : f.id > 0 /\ a.cats[n].id = f.cat
    BY <1>4 DEF Answered, IsVirtual
  <2>2. n \in DOMAIN a.cats /\ a.cats[n].id \in Int /\ a.cats[n].id >= Labels
    <3>1. a.cats[n] \in Category /\ n \in DOMAIN a.cats
      BY <1>1, ElementOfSeq, LenProperties
    <3> QED BY <3>1 DEF Category, Answer
  <2>3. a.cats[n].id >= 0
    BY <1>4, <2>1, <2>2 DEF IsVirtual, Special, Labels
  <2>4. PICK i \in 1 .. Len(Shelf(a)) : Shelf(a)[i] = a.cats[n]
    BY <2>2, <2>3, BlocksPlaces
  <2> DEFINE I == FeedsOf(Shelf(a)[i], a.feeds)
  <2>5. I \in SUBSET (DOMAIN a.feeds) /\ m \in I
    BY <2>1, <2>4 DEF FeedsOf, IsFeedOf
  <2>6. PICK k \in 1 .. Cardinality(I) : Nth(I, k) = m
    BY <1>1, <2>5, SubsequencePlaces
  <2>7. FeedAt(a, off, i, Base(a) + (off[i] + k + 1), m)
    BY <2>6 DEF FeedAt
  <2> QED BY <2>7 DEF ShowsFeed
<1> QED BY <1>2, <1>3, <1>4

\* Where an item is between those of a category and of one of its feeds.
LEMMA WithinBlock ==
    ASSUME NEW b \in Int, NEW o \in Int, NEW k \in Int, NEW r \in Int, NEW n \in Int,
           r \in (b + (o + 1)) + 1 .. b + (o + k + 1), k <= n
    PROVE  \E j \in 1 .. n : r = b + (o + j + 1)
<1>1. r - b - o - 1 \in 1 .. n /\ r = b + (o + (r - b - o - 1) + 1)
    OBVIOUS
<1> QED BY <1>1

\* The item of a feed below a category has that category's item above it, with
\* nothing but feeds between the two.
LEMMA OwnCategoryAbove ==
    ASSUME NEW a \in Answer, NEW off, Starts(off, a), NEW p, NEW m, ShowsFeed(a, off, p, m),
           Items(a)[p].source = "feed"
    PROVE  \E q \in 1 .. Len(Items(a)) :
              /\ q < p
              /\ Items(a)[q].source = "category" /\ Items(a)[q].id = a.feeds[m].cat
              /\ \A r \in q + 1 .. p : Items(a)[r].source = "feed"
<1> DEFINE nV == Len(VirtualPart(a))
           nL == Len(LabelPart(a))
           nF == Len(FeedPart(a))
           b == Base(a)
           all == Items(a)
<1>1. /\ nV \in Nat /\ nL \in Nat /\ nF \in Nat /\ b = nV + nL + 1
      /\ Len(all) = b + nF
      /\ \A q \in 1 .. nV : all[q] = VirtualPart(a)[q]
      /\ \A q \in 1 .. nL : all[nV + q] = LabelPart(a)[q]
      /\ \A q \in 1 .. nF : all[b + q] = FeedPart(a)[q]
    BY ItemsParts
<1>2. all[p].source = "feed"
    OBVIOUS
<1> HIDE DEF nV, nL, nF, b, all
<1>3. ~VirtualAt(a, p, m)
  <2> SUFFICES ASSUME VirtualAt(a, p, m) PROVE FALSE
    OBVIOUS
  <2>1. p \in 1 .. nV /\ VirtualPart(a)[p] = Entry("virtual", a.feeds[m])
    BY PartsOfSections DEF VirtualAt, nV
  <2> QED BY <1>1, <1>2, <2>1 DEF Entry
<1>4. ~LabelAt(a, p, m)
  <2> SUFFICES ASSUME LabelAt(a, p, m) PROVE FALSE
    OBVIOUS
  <2>1. PICK k \in 1 .. Cardinality(LabelFeeds(a.feeds)) :
            Nth(LabelFeeds(a.feeds), k) = m /\ p = nV + (k + 1)
    BY DEF LabelAt, nV
  <2>2. k + 1 \in 1 .. nL /\ LabelPart(a)[k + 1] = Entry("label", a.feeds[m])
    BY <2>1, PartsOfSections DEF nL
  <2> QED BY <1>1, <1>2, <2>1, <2>2 DEF Entry
<1>5. PICK i \in 1 .. Len(Shelf(a)) : FeedAt(a, off, i, p, m)
    BY <1>3, <1>4 DEF ShowsFeed
<1>6. PICK N \in Nat : N = Cardinality(FeedsOf(Shelf(a)[i], a.feeds))
    BY BlocksPlaces, BlockPlaces
<1>7. PICK k \in 1 .. N : p = b + (off[i] + k + 1)
    BY <1>5, <1>6 DEF FeedAt, b
<1>8. /\ off[i] \in Nat
      /\ off[i] + 1 \in 1 .. nF
      /\ FeedPart(a)[off[i] + 1] = Entry("category", Shelf(a)[i])
    BY DEF Starts, nF
<1>9. \A n \in 1 .. N :
         off[i] + n + 1 \in 1 .. nF /\ FeedPart(a)[off[i] + n + 1].source = "feed"
  <2> TAKE n \in 1 .. N
  <2>1. /\ off[i] + n + 1 \in 1 .. nF
        /\ FeedPart(a)[off[i] + n + 1] = Entry("feed", a.feeds[Nth(FeedsOf(Shelf(a)[i], a.feeds), n)])
    BY <1>6 DEF Starts, nF
  <2> QED BY <2>1 DEF Entry
<1> DEFINE q == b + (off[i] + 1)
<1>10. q \in 1 .. Len(all) /\ q < p
  <2>1. b \in Nat /\ nF \in Nat /\ Len(all) = b + nF
    BY <1>1
  <2>2. k \in Nat /\ k > 0
    BY <1>7
  <2>3. off[i] \in Nat /\ off[i] + 1 \in 1 .. nF
    BY <1>8
  <2>4. q \in 1 .. Len(all)
    BY <2>1, <2>3
  <2>5. p = b + (off[i] + k + 1)
    BY <1>7
  <2>6. \A o \in Nat : b + (o + 1) < b + (o + k + 1)
    BY <2>1, <2>2
  <2> QED BY <2>3, <2>4, <2>5, <2>6
<1>11. all[q].source = "category" /\ all[q].id = a.feeds[m].cat
  <2>1. all[q] = Entry("category", Shelf(a)[i])
    BY <1>1, <1>8
  <2>2. a.feeds[m].cat = Shelf(a)[i].id
    BY <1>5, KindOfShown
  <2> QED BY <2>1, <2>2 DEF Entry
<1>12. ASSUME NEW r \in q + 1 .. p
       PROVE  all[r].source = "feed"
  <2>1. PICK n \in 1 .. N : r = b + (off[i] + n + 1)
    <3>1. b \in Int /\ off[i] \in Int
      BY <1>1, <1>8
    <3>2. k \in Int /\ N \in Int /\ k <= N /\ p = b + (off[i] + k + 1)
      BY <1>7
    <3>3. r \in (b + (off[i] + 1)) + 1 .. b + (off[i] + k + 1)
      BY <3>2
    <3>4. \A o \in Int : r \in (b + (o + 1)) + 1 .. b + (o + k + 1)
                         => \E n \in 1 .. N : r = b + (o + n + 1)
      <4> TAKE o \in Int
      <4> HAVE r \in (b + (o + 1)) + 1 .. b + (o + k + 1)
      <4>1. r \in Int
        BY <3>1, <3>2
      <4> QED BY <3>1, <3>2, <4>1, WithinBlock
    <3> QED BY <3>1, <3>3, <3>4
  <2>2. all[r] = FeedPart(a)[off[i] + n + 1]
    BY <1>1, <1>9, <2>1
  <2> QED BY <1>9, <2>1, <2>2
<1> HIDE DEF q
<1> QED BY <1>10, <1>11, <1>12 DEF all

-----------------------------------------------------------------------------
(* The list.                                                               *)

\* A list starts with a header, so that no feed is without a category.
HeaderFirst == items # <<>> => items[1].source = "section"

\* An item of the list is an item.
LEMMA AtIsItem ==
    ASSUME items \in Seq(Item), NEW i \in Indices
    PROVE  At(i) \in Item
<1>1. Len(items) \in Nat
    BY LenProperties
<1>2. i + 1 \in 1 .. Len(items)
    BY <1>1 DEF Indices
<1> QED BY <1>2, ElementOfSeq DEF At

\* The entries that can be selected are indices, the first and the last of
\* them among them.
LEMMA EndsOfSelectable ==
    ASSUME items \in Seq(Item), Selectable # {}
    PROVE  /\ (CHOOSE i \in Selectable : \A j \in Selectable : i <= j) \in Selectable
           /\ (CHOOSE i \in Selectable : \A j \in Selectable : j <= i) \in Selectable
<1>1. Len(items) \in Nat
    BY LenProperties
<1>2. Selectable \in SUBSET (0 .. Len(items) - 1)
    BY DEF Selectable, Indices
<1>3. \E i \in Selectable : \A j \in Selectable : i <= j
    BY <1>1, <1>2, LeastIndex
<1>4. \E i \in Selectable : \A j \in Selectable : j <= i
    BY <1>1, <1>2, GreatestIndex
<1> QED BY <1>3, <1>4

\* clamp_top yields an index or -1.
LEMMA ClampTopIsInt ==
    ASSUME items \in Seq(Item), top \in Int, NEW s \in Int
    PROVE  ClampTop(s) \in Int
<1>1. Len(items) \in Nat
    BY LenProperties
<1>2. Indices \subseteq Int
    BY <1>1 DEF Indices
<1>3. ASSUME NEW pos
      PROVE  ItemAtVisible(pos) \in Int
  <2>1. CASE \E i \in Indices : Visible(i) /\ VisiblePos(i) = pos
    <3>1. (CHOOSE i \in Indices : Visible(i) /\ VisiblePos(i) = pos) \in Indices
      BY <2>1
    <3> QED BY <2>1, <3>1, <1>2 DEF ItemAtVisible
  <2>2. CASE ~ \E i \in Indices : Visible(i) /\ VisiblePos(i) = pos
    BY <2>2, <1>1 DEF ItemAtVisible
  <2> QED BY <2>1, <2>2
<1>4. ItemAtVisible(VisiblePos(s) - rows + 1) \in Int
    BY <1>3
<1> QED BY <1>4 DEF ClampTop

\* A well-formed list starts with a header, so that the first entry, if there
\* is one, is the second item, which is never folded away.
LEMMA FirstEntryIsSecond ==
    ASSUME NEW list, WellFormed(list)
    PROVE  /\ Len(list) > 1 => FirstEntry(list) = 1
           /\ ~ (Len(list) > 1) => FirstEntry(list) = -1
<1>1. /\ Len(list) \in Nat /\ Len(list) >= 1
      /\ list[1].source = "section"
    BY LenProperties, EmptySeq DEF WellFormed
<1>2. CASE Len(list) > 1
  <2> DEFINE First(i) == /\ list[i].source # "section"
                         /\ \A j \in 1 .. i - 1 : list[j].source = "section"
  <2>1. 2 \in 1 .. Len(list) /\ list[2].source # "section"
    BY <1>1, <1>2 DEF WellFormed
  <2>2. First(2)
    BY <1>1, <2>1
  <2>3. ASSUME NEW i \in 1 .. Len(list), First(i)
        PROVE  i = 2
    <3>1. i # 1
      BY <1>1, <2>3
    <3>2. ~ (i > 2)
      BY <1>1, <2>1, <2>3
    <3> QED BY <1>1, <3>1, <3>2
  <2>4. (CHOOSE i \in 1 .. Len(list) : First(i)) = 2
    BY <2>1, <2>2, <2>3
  <2>5. FirstEntry(list) = (CHOOSE i \in 1 .. Len(list) : First(i)) - 1
    BY <2>1 DEF FirstEntry
  <2> QED BY <1>2, <2>4, <2>5
<1>3. CASE ~ (Len(list) > 1)
  <2>1. ~ \E i \in 1 .. Len(list) : list[i].source # "section"
    BY <1>1, <1>3
  <2> QED BY <1>3, <2>1 DEF FirstEntry
<1> QED BY <1>2, <1>3

\* Below a header every item has an owner: the last item that is not a feed.
LEMMA OwnerExists ==
    ASSUME items \in Seq(Item), HeaderFirst, NEW i \in Indices
    PROVE  \E j \in 0 .. i :
              At(j).source # "feed" /\ \A k \in j + 1 .. i : At(k).source = "feed"
<1> DEFINE S == {j \in 0 .. i : At(j).source # "feed"}
<1>1. /\ Len(items) \in Nat /\ i \in 0 .. Len(items) - 1
      /\ items # <<>>
    BY LenProperties, EmptySeq DEF Indices
<1>2. i + 1 \in Nat /\ S \in SUBSET (0 .. (i + 1) - 1)
    BY <1>1
<1>3. 0 \in S
    BY <1>1 DEF HeaderFirst, At
<1>4. PICK j \in S : \A k \in S : k <= j
    BY <1>2, <1>3, GreatestIndex
<1>5. \A k \in j + 1 .. i : At(k).source = "feed"
  <2> SUFFICES ASSUME NEW k \in j + 1 .. i, At(k).source # "feed"
               PROVE  FALSE
    OBVIOUS
  <2>1. k \in 0 .. i /\ k > j /\ j \in Int
    BY <1>1, <1>2
  <2>2. k \in S
    BY <2>1
  <2> QED BY <1>4, <2>1, <2>2
<1> QED BY <1>4, <1>5

LEMMA OwnerIsIndex ==
    ASSUME items \in Seq(Item), HeaderFirst, NEW i \in Indices
    PROVE  Owner(i) \in Indices
<1>1. Len(items) \in Nat /\ i \in 0 .. Len(items) - 1
    BY LenProperties DEF Indices
<1>2. Owner(i) \in 0 .. i
    BY OwnerExists DEF Owner
<1> QED BY <1>1, <1>2 DEF Indices

-----------------------------------------------------------------------------
(* The invariant.                                                          *)

Inv == TypeOK /\ SelectionIsEntry /\ HeaderFirst

\* A load selects an entry.
LEMMA LoadKeepsInv ==
    ASSUME Inv, NEW a \in Answers, Load(a)
    PROVE  Inv'
<1>1. WellFormed(Items(a))
    BY AnswersAssumption, ItemsWellFormed
<1>2. /\ items' = Items(a) /\ items' \in Seq(Item)
      /\ Len(items') \in Nat /\ Len(items') >= 1
      /\ items'[1].source = "section"
      /\ Len(items') > 1 => items'[2].source \in {"virtual", "label", "category"}
    BY <1>1, LenProperties, EmptySeq DEF Load, WellFormed
<1>3. /\ Len(items') > 1 => sel' = 1
      /\ ~ (Len(items') > 1) => sel' = -1
    BY <1>1, <1>2, FirstEntryIsSecond DEF Load
<1>4. TypeOK'
    BY <1>2, <1>3 DEF Inv, TypeOK, Load
<1>5. SelectionIsEntry'
    BY <1>2, <1>3 DEF SelectionIsEntry, Indices, At, Visible
<1>6. HeaderFirst'
    BY <1>2 DEF HeaderFirst
<1> QED BY <1>4, <1>5, <1>6 DEF Inv

\* A movement ends on an entry it has passed or, at the end, where it was.
LEMMA MoveKeepsInv ==
    ASSUME Inv, NEW delta \in Int, Move(delta)
    PROVE  Inv'
<1>1. sel' \in Selectable
  <2>1. CASE sel' \in Ahead(delta)
    BY <2>1 DEF Ahead
  <2>2. CASE sel' = sel
    BY <2>2 DEF Inv, TypeOK, SelectionIsEntry, Move, Selectable
  <2> QED BY <2>1, <2>2 DEF Move, MoveTargets
<1>2. sel' \in Int
  <2>1. Len(items) \in Nat
    BY LenProperties DEF Inv, TypeOK
  <2> QED BY <1>1, <2>1 DEF Selectable, Indices
<1>3. TypeOK'
    BY <1>2, ClampTopIsInt DEF Inv, TypeOK, Move
<1>4. SelectionIsEntry'
    BY <1>1 DEF SelectionIsEntry, Selectable, Move, Indices, At, Visible, Owner
<1>5. HeaderFirst'
    BY DEF Inv, HeaderFirst, Move
<1> QED BY <1>3, <1>4, <1>5 DEF Inv

\* g and G go to the first and to the last entry, if there is any.
LEMMA EndsKeepInv ==
    ASSUME Inv, Home \/ End
    PROVE  Inv'
<1>1. items \in Seq(Item) /\ Len(items) \in Nat /\ items' = items
    BY LenProperties DEF Inv, TypeOK, Home, End
<1>2. \/ Selectable = {} /\ sel' = sel
      \/ sel' \in Selectable
    BY <1>1, EndsOfSelectable DEF Home, End
<1>3. sel' \in Int
    BY <1>1, <1>2 DEF Inv, TypeOK, Selectable, Indices
<1>4. top' \in Int
    BY <1>1, <1>3, ClampTopIsInt DEF Inv, TypeOK, Home, End
<1>5. TypeOK'
    BY <1>1, <1>3, <1>4 DEF Inv, TypeOK, Home, End
<1>6. SelectionIsEntry'
    BY <1>1, <1>2 DEF Inv, SelectionIsEntry, Selectable, Indices, At, Visible, Owner
<1>7. HeaderFirst'
    BY <1>1 DEF Inv, HeaderFirst
<1> QED BY <1>5, <1>6, <1>7 DEF Inv

\* A category is folded while it is selected, so the selection is not among
\* the feeds that the folding hides.
LEMMA FoldKeepsInv ==
    ASSUME Inv, Fold
    PROVE  Inv'
<1>1. /\ items \in Seq(Item) /\ Len(items) \in Nat
      /\ sel \in 0 .. Len(items) - 1 /\ sel + 1 \in 1 .. Len(items)
      /\ items[sel + 1] \in Item /\ items[sel + 1].source = "category"
    BY LenProperties, AtIsItem DEF Inv, TypeOK, Fold, Indices, At
<1> DEFINE e == ~ items[sel + 1].expanded
<1>2. items' = [items EXCEPT ![sel + 1] = [@ EXCEPT !.expanded = e]]
    BY Zenon DEF Fold
<1>3. e \in BOOLEAN
    OBVIOUS
<1> HIDE DEF e
<1>4. /\ items' \in Seq(Item) /\ Len(items') = Len(items)
      /\ items'[sel + 1].source = "category"
  <2>1. [items[sel + 1] EXCEPT !.expanded = e] \in Item
    BY <1>1, <1>3 DEF Item
  <2>2. [items[sel + 1] EXCEPT !.expanded = e].source = "category"
    BY <1>1 DEF Item
  <2> QED BY <1>1, <1>2, <2>1, <2>2, ExceptSeq
<1>5. TypeOK'
    BY <1>4 DEF Inv, TypeOK, Fold
<1>6. SelectionIsEntry'
    BY <1>1, <1>4 DEF SelectionIsEntry, Fold, Indices, At, Visible
<1>7. HeaderFirst'
  <2>1. items # <<>> /\ items[1].source = "section" /\ 1 \in 1 .. Len(items)
    BY <1>1, EmptySeq DEF Inv, HeaderFirst
  <2>2. sel + 1 # 1
    BY <1>1, <2>1
  <2>3. items'[1] = items[1]
    BY <1>1, <1>2, <2>1, <2>2
  <2> QED BY <2>1, <2>3 DEF HeaderFirst
<1> QED BY <1>5, <1>6, <1>7 DEF Inv

\* A count changes neither what an item is nor what is folded.
LEMMA BumpKeepsInv ==
    ASSUME Inv, NEW delta \in {1, -1}, Bump(delta)
    PROVE  Inv'
<1>1. PICK n \in Indices :
          items' = [items EXCEPT ![n + 1].unread = Counted(@, delta)]
    BY DEF Bump
<1>2. /\ items \in Seq(Item) /\ Len(items) \in Nat
      /\ n + 1 \in 1 .. Len(items) /\ items[n + 1] \in Item
    BY LenProperties, AtIsItem DEF Inv, TypeOK, Indices, At
<1>3. Counted(items[n + 1].unread, delta) \in Nat
    BY <1>2 DEF Item, Counted
<1>4. [items[n + 1] EXCEPT !.unread = Counted(@, delta)] \in Item
    BY <1>2, <1>3 DEF Item
<1>5. items' \in Seq(Item) /\ Len(items') = Len(items)
    BY <1>1, <1>2, <1>4, ExceptSeq
<1>6. /\ Indices' = Indices
      /\ \A i \in Indices : At(i)'.source = At(i).source /\ At(i)'.expanded = At(i).expanded
  <2>1. Indices' = Indices
    BY <1>5 DEF Indices
  <2>2. ASSUME NEW i \in Indices
        PROVE  At(i)'.source = At(i).source /\ At(i)'.expanded = At(i).expanded
    <3>1. i + 1 \in DOMAIN items /\ At(i)' = items'[i + 1]
      BY <1>2 DEF Indices, At
    <3>2. CASE i = n
      <4>1. At(i)' = [items[n + 1] EXCEPT !.unread = Counted(@, delta)]
        BY <1>1, <3>1, <3>2
      <4> QED BY <1>2, <3>2, <4>1 DEF Item, At
    <3>3. CASE i # n
      <4>1. i + 1 # n + 1
        BY <3>3 DEF Indices
      <4> QED BY <1>1, <3>1, <4>1 DEF At
    <3> QED BY <3>2, <3>3
  <2> QED BY <2>1, <2>2
<1>7. TypeOK'
    BY <1>5 DEF Inv, TypeOK, Bump
<1>8. ASSUME NEW i \in Indices
      PROVE  Visible(i)' = Visible(i)
  <2>1. i \in 0 .. Len(items) - 1
    BY DEF Indices
  <2>2. \A k \in 0 .. i : k \in Indices
    BY <1>2, <2>1 DEF Indices
  <2>3. \A k \in 0 .. i : At(k)'.source = At(k).source
    BY <1>6, <2>2
  <2>4. \A j \in 0 .. i :
            (/\ At(j)'.source # "feed"
             /\ \A k \in j + 1 .. i : At(k)'.source = "feed")
        <=> (/\ At(j).source # "feed"
             /\ \A k \in j + 1 .. i : At(k).source = "feed")
    <3> SUFFICES ASSUME NEW j \in 0 .. i
                 PROVE  \A k \in j + 1 .. i : At(k)'.source = At(k).source
      BY <2>3
    <3>1. \A k \in j + 1 .. i : k \in 0 .. i
      BY <2>1
    <3> QED BY <2>3, <3>1
  <2>5. Owner(i)' = Owner(i)
    BY <2>4 DEF Owner
  <2>6. Owner(i) \in Indices
    BY <1>2, OwnerIsIndex DEF Inv
  <2>7. At(Owner(i))'.expanded = At(Owner(i)).expanded
    BY <1>6, <2>5, <2>6
  <2> QED BY <1>6, <2>5, <2>7 DEF Visible
<1>9. SelectionIsEntry'
  <2>1. sel' = sel /\ items # <<>>
    BY <1>2, EmptySeq DEF Bump
  <2>2. CASE sel \in Indices /\ At(sel).source # "section" /\ Visible(sel)
    <3>1. Visible(sel)' /\ At(sel)'.source # "section" /\ sel \in Indices'
      BY <1>6, <1>8, <2>1, <2>2
    <3> QED BY <2>1, <3>1 DEF SelectionIsEntry, Visible, Owner, At
  <2>3. CASE sel = -1 /\ \A i \in Indices : At(i).source = "section"
    BY <1>6, <2>1, <2>3 DEF SelectionIsEntry, At
  <2> QED BY <2>1, <2>2, <2>3 DEF Inv, SelectionIsEntry
<1>10. HeaderFirst'
  <2>1. items # <<>> /\ 0 \in Indices
    BY <1>2, EmptySeq DEF Indices
  <2>2. At(0)'.source = At(0).source
    BY <1>6, <2>1
  <2> QED BY <2>1, <2>2 DEF Inv, HeaderFirst, At
<1> QED BY <1>7, <1>9, <1>10 DEF Inv

LEMMA NextKeepsInv == Inv /\ [Next]_vars => Inv'
<1> SUFFICES ASSUME Inv, [Next]_vars PROVE Inv'
    OBVIOUS
<1>1. ASSUME NEW a \in Answers, Load(a) PROVE Inv'
    BY <1>1, LoadKeepsInv
<1>2. CASE LoadFails
    BY <1>2, EmptySeq DEF Inv, TypeOK, SelectionIsEntry, HeaderFirst, LoadFails
<1>3. CASE Down \/ Up \/ PageDown \/ PageUp
  <2>1. rows \in Int
    BY RowCountsAssumption DEF Inv, TypeOK
  <2> QED BY <1>3, <2>1, MoveKeepsInv DEF Down, Up, PageDown, PageUp
<1>4. CASE Home \/ End
    BY <1>4, EndsKeepInv
<1>5. CASE Fold
    BY <1>5, FoldKeepsInv
<1>6. CASE Open
  <2>1. At(sel).id \in Int
    BY <1>6, AtIsItem DEF Inv, TypeOK, Open, Item
  <2> QED BY <1>6, <2>1 DEF Inv, TypeOK, SelectionIsEntry, HeaderFirst, Open, Indices, At, Visible, Owner
<1>7. ASSUME NEW delta \in {1, -1}, Bump(delta) PROVE Inv'
    BY <1>7, BumpKeepsInv
<1>8. ASSUME NEW r \in RowCounts, Resize(r) PROVE Inv'
    BY <1>8 DEF Inv, TypeOK, SelectionIsEntry, HeaderFirst, Resize, Indices, At, Visible, Owner
<1>9. CASE UNCHANGED vars
    BY <1>9 DEF Inv, TypeOK, SelectionIsEntry, HeaderFirst, vars, Indices, At, Visible, Owner
<1> QED BY <1>1, <1>2, <1>3, <1>4, <1>5, <1>6, <1>7, <1>8, <1>9 DEF Next

\* The list is the one that was loaded, but for counts and what is folded.
Shape ==
    items # <<>> =>
        /\ Len(items) = Len(Items(answer))
        /\ \A k \in 1 .. Len(items) :
              items[k].source = Items(answer)[k].source /\ items[k].id = Items(answer)[k].id

\* A step that changes the count or the fold of one item keeps the others, and
\* what the items are.
LEMMA FoldOrBumpChangesOne ==
    ASSUME items \in Seq(Item), Fold \/ \E delta \in {1, -1} : Bump(delta)
    PROVE  /\ items # <<>> /\ items' # <<>> /\ Len(items') = Len(items)
           /\ answer' = answer /\ sel' = sel /\ top' = top /\ rows' = rows /\ placed' = placed
           /\ \A k \in 1 .. Len(items) :
                 items'[k].source = items[k].source /\ items'[k].id = items[k].id
           /\ \A k \in 1 .. Len(items) :
                 (Fold /\ k = sel + 1) \/ items'[k].expanded = items[k].expanded
<1>1. Len(items) \in Nat
    BY LenProperties
<1>2. CASE Fold
  <2>1. sel + 1 \in 1 .. Len(items) /\ items[sel + 1] \in Item
    BY <1>1, <1>2, AtIsItem DEF Fold, Indices, At
  <2> DEFINE e == ~ items[sel + 1].expanded
             it == [items[sel + 1] EXCEPT !.expanded = e]
  <2>2. items' = [items EXCEPT ![sel + 1] = it]
    BY <1>2, Zenon DEF Fold
  <2>3. e \in BOOLEAN
    OBVIOUS
  <2> HIDE DEF e
  <2>4. it \in Item /\ it.source = items[sel + 1].source /\ it.id = items[sel + 1].id
    BY <2>1, <2>3 DEF Item
  <2> HIDE DEF it
  <2>5. /\ items' \in Seq(Item) /\ Len(items') = Len(items)
        /\ \A k \in 1 .. Len(items) : items'[k] = IF k = sel + 1 THEN it ELSE items[k]
    BY <2>1, <2>2, <2>4, ExceptSeq
  <2>6. items # <<>> /\ items' # <<>>
    BY <2>1, <2>5, EmptySeq
  <2> QED BY <1>2, <2>4, <2>5, <2>6 DEF Fold
<1>3. ASSUME NEW delta \in {1, -1}, Bump(delta)
      PROVE  /\ items # <<>> /\ items' # <<>> /\ Len(items') = Len(items)
             /\ answer' = answer /\ sel' = sel /\ top' = top /\ rows' = rows /\ placed' = placed
             /\ \A k \in 1 .. Len(items) :
                   /\ items'[k].source = items[k].source /\ items'[k].id = items[k].id
                   /\ items'[k].expanded = items[k].expanded
  <2>1. PICK n \in Indices : items' = [items EXCEPT ![n + 1].unread = Counted(@, delta)]
    BY <1>3 DEF Bump
  <2> DEFINE it == [items[n + 1] EXCEPT !.unread = Counted(@, delta)]
  <2>2. n + 1 \in 1 .. Len(items) /\ items[n + 1] \in Item
    BY <1>1, AtIsItem DEF Indices, At
  <2>3. Counted(items[n + 1].unread, delta) \in Nat
    BY <2>2 DEF Item, Counted
  <2>4. /\ it \in Item /\ it.source = items[n + 1].source /\ it.id = items[n + 1].id
        /\ it.expanded = items[n + 1].expanded
    BY <2>2, <2>3 DEF Item
  <2>5. items' = [items EXCEPT ![n + 1] = it]
    BY <2>1
  <2> HIDE DEF it
  <2>6. /\ items' \in Seq(Item) /\ Len(items') = Len(items)
        /\ \A k \in 1 .. Len(items) : items'[k] = IF k = n + 1 THEN it ELSE items[k]
    BY <2>2, <2>4, <2>5, ExceptSeq
  <2>7. items # <<>> /\ items' # <<>>
    BY <2>2, <2>6, EmptySeq
  <2>8. answer' = answer /\ sel' = sel /\ top' = top /\ rows' = rows /\ placed' = placed
    BY <1>3 DEF Bump
  <2> QED BY <2>4, <2>6, <2>7, <2>8
<1> QED BY <1>2, <1>3

LEMMA NextKeepsShape ==
    ASSUME TypeOK, Shape, [Next]_vars
    PROVE  Shape'
<1>1. CASE items' = items /\ answer' = answer
    BY <1>1 DEF Shape
<1>2. ASSUME NEW a \in Answers, Load(a) PROVE Shape'
    BY <1>2 DEF Load, Shape
<1>3. CASE LoadFails
    BY <1>3 DEF LoadFails, Shape
<1>4. CASE Fold \/ \E delta \in {1, -1} : Bump(delta)
  <2>1. /\ items # <<>> /\ Len(items') = Len(items) /\ answer' = answer
        /\ \A k \in 1 .. Len(items) :
              items'[k].source = items[k].source /\ items'[k].id = items[k].id
    BY <1>4, FoldOrBumpChangesOne DEF TypeOK
  <2> QED BY <2>1 DEF Shape
<1>5. CASE UNCHANGED vars
    BY <1>1, <1>5 DEF vars
<1>6. CASE Down \/ Up \/ PageDown \/ PageUp
    BY <1>1, <1>6 DEF Down, Up, PageDown, PageUp, Move
<1>7. CASE Home \/ End \/ Open
    BY <1>1, <1>7 DEF Home, End, Open
<1>8. CASE \E r \in RowCounts : Resize(r)
    BY <1>1, <1>8 DEF Resize
<1> QED BY <1>2, <1>3, <1>4, <1>5, <1>6, <1>7, <1>8 DEF Next

\* A list that was loaded starts as every list does that a load builds.
LEMMA ShapeStart ==
    ASSUME TypeOK, Shape, items # <<>>
    PROVE  /\ items[1].source = "section"
           /\ Len(items) > 1 => items[2].source \in {"virtual", "label", "category"}
<1>1. WellFormed(Items(answer))
    BY AnswersAssumption, ItemsWellFormed DEF TypeOK
<1>2. Len(items) \in Nat /\ Len(items) > 0
    BY EmptySeq DEF TypeOK
<1>3. 1 \in 1 .. Len(items) /\ (Len(items) > 1 => 2 \in 1 .. Len(items))
    BY <1>2
<1> QED BY <1>1, <1>2, <1>3 DEF Shape, WellFormed

LEMMA Invariance == Spec => []Inv
<1>1. Init => Inv
    BY EmptySeq DEF Init, Inv, TypeOK, SelectionIsEntry, HeaderFirst
<1> QED BY <1>1, NextKeepsInv, PTL DEF Spec

\* Type correctness for every answer of the server and every height; above
\* all, the unread counts never fall below zero.
THEOREM TypeCorrect == Spec => []TypeOK
<1>1. Inv => TypeOK
    BY DEF Inv
<1> QED BY <1>1, Invariance, PTL

\* Whatever is loaded, lost, moved and folded, the selection is an entry on
\* display, or there is none.
THEOREM SelectionAlwaysEntry == Spec => []SelectionIsEntry
<1>1. Inv => SelectionIsEntry
    BY DEF Inv
<1> QED BY <1>1, Invariance, PTL

-----------------------------------------------------------------------------
(* The window.                                                             *)

\* The rows that are on display, by index.
Displayed == {j \in Indices : Visible(j)}

LEMMA RowsAreIndices ==
    ASSUME items \in Seq(Item)
    PROVE  /\ Len(items) \in Nat
           /\ Displayed \in SUBSET Nat /\ \A k \in Displayed : k <= Len(items)
           /\ \A i : VisiblePos(i) = Before(Displayed, i) /\ VisiblePos(i) \in Nat
<1>1. Len(items) \in Nat
    BY LenProperties
<1>2. Displayed \in SUBSET Nat /\ \A k \in Displayed : k <= Len(items)
    BY <1>1 DEF Displayed, Indices
<1>3. ASSUME NEW i
      PROVE  VisiblePos(i) = Before(Displayed, i) /\ VisiblePos(i) \in Nat
  <2>1. {j \in Indices : j < i /\ Visible(j)} = {j \in Displayed : j < i}
    BY DEF Displayed
  <2>2. VisiblePos(i) = Before(Displayed, i)
    BY <2>1 DEF VisiblePos, Before
  <2>3. Before(Displayed, i) \in Nat
    BY <1>1, <1>2, SelectionIsFinite
  <2> QED BY <2>2, <2>3
<1> QED BY <1>1, <1>2, <1>3

\* A row on display is above every later index.
LEMMA RowAbove ==
    ASSUME items \in Seq(Item), NEW i \in Indices, Visible(i), NEW j \in Int, i < j
    PROVE  VisiblePos(i) < VisiblePos(j)
<1>1. i \in Displayed
    BY DEF Displayed
<1> QED BY <1>1, RowsAreIndices, BeforeGrows

\* item_at_visible finds the row it is asked for above one on display.
LEMMA ItemAtVisibleFinds ==
    ASSUME items \in Seq(Item), NEW s \in Indices, Visible(s), NEW p \in 0 .. VisiblePos(s)
    PROVE  VisiblePos(ItemAtVisible(p)) = p
<1>1. /\ Len(items) \in Nat
      /\ Displayed \in SUBSET Nat /\ \A k \in Displayed : k <= Len(items)
      /\ \A i : VisiblePos(i) = Before(Displayed, i) /\ VisiblePos(i) \in Nat
    BY RowsAreIndices
<1>2. IsFiniteSet(Displayed) /\ Cardinality(Displayed) \in Nat
    BY <1>1, SelectionIsFinite
<1>3. VisiblePos(s) < Cardinality(Displayed)
  <2>1. s \in Int /\ s < Len(items)
    BY <1>1 DEF Indices
  <2>2. VisiblePos(s) < VisiblePos(Len(items))
    BY <1>1, <2>1, RowAbove
  <2>3. \A j \in Displayed : j < Len(items)
    BY <1>1 DEF Displayed, Indices
  <2>4. {j \in Displayed : j < Len(items)} = Displayed
    BY <2>3
  <2> QED BY <1>1, <2>2, <2>4 DEF Before
<1>4. p \in 0 .. Cardinality(Displayed) - 1
    BY <1>1, <1>2, <1>3
<1>5. \E i \in Displayed : Before(Displayed, i) = p
    BY <1>1, <1>4, RankExists
<1>6. \E i \in Indices : Visible(i) /\ VisiblePos(i) = p
    BY <1>1, <1>5 DEF Displayed
<1> QED BY <1>6 DEF ItemAtVisible

\* A window from t on has an index s on it.
OnScreen(s, t) == VisiblePos(t) <= VisiblePos(s) /\ VisiblePos(s) < VisiblePos(t) + rows

\* Wherever the window was, clamp_top leaves the selection on it.
LEMMA ClampTopFollows ==
    ASSUME items \in Seq(Item), rows \in Nat, rows > 1, NEW s \in Indices, Visible(s)
    PROVE  OnScreen(s, ClampTop(s))
<1>1. \A i : VisiblePos(i) \in Nat
    BY RowsAreIndices
<1>2. CASE VisiblePos(s) < VisiblePos(top)
    BY <1>1, <1>2 DEF ClampTop, OnScreen
<1>3. CASE ~ (VisiblePos(s) < VisiblePos(top)) /\ VisiblePos(s) >= VisiblePos(top) + rows
  <2> DEFINE p == VisiblePos(s) - rows + 1
  <2>1. p \in 0 .. VisiblePos(s)
    BY <1>1, <1>3
  <2>2. VisiblePos(ItemAtVisible(p)) = p
    BY <2>1, ItemAtVisibleFinds
  <2>3. ClampTop(s) = ItemAtVisible(p)
    BY <1>3 DEF ClampTop
  <2>4. VisiblePos(ClampTop(s)) = VisiblePos(s) - rows + 1
    BY <2>2, <2>3
  <2> HIDE DEF p
  <2> QED BY <1>1, <2>4 DEF OnScreen
<1>4. CASE ~ (VisiblePos(s) < VisiblePos(top)) /\ ~ (VisiblePos(s) >= VisiblePos(top) + rows)
  <2>1. ClampTop(s) = top
    BY <1>4 DEF ClampTop
  <2> QED BY <1>1, <1>4, <2>1 DEF OnScreen
<1> QED BY <1>2, <1>3, <1>4

\* The header and the first entry are the first two rows.
LEMMA FirstRows ==
    ASSUME items \in Seq(Item), Len(items) > 1, items[1].source = "section",
           items[2].source \in {"virtual", "label", "category"}, rows \in Nat, rows > 1
    PROVE  OnScreen(1, 0)
<1>1. Len(items) \in Nat
    BY LenProperties
<1>2. At(0).source = "section" /\ 0 \in Indices
    BY <1>1 DEF At, Indices
<1>3. {j \in Indices : j < 0 /\ Visible(j)} = {}
    BY <1>1 DEF Indices
<1>4. {j \in Indices : j < 1 /\ Visible(j)} = {0}
  <2>1. \A j \in Indices : j < 1 <=> j = 0
    BY <1>1 DEF Indices
  <2>2. Visible(0)
    BY <1>2 DEF Visible
  <2> QED BY <1>2, <2>1, <2>2
<1>5. VisiblePos(0) = 0 /\ VisiblePos(1) = 1
    BY <1>3, <1>4, FS_EmptySet, FS_Singleton DEF VisiblePos
<1> QED BY <1>5 DEF OnScreen

\* With the same items every index is on the same row.
LEMMA SameItemsSameRows ==
    ASSUME items' = items
    PROVE  /\ VisiblePos(top)' = VisiblePos(top')
           /\ VisiblePos(sel)' = VisiblePos(sel')
BY DEF VisiblePos, Indices, Visible, Owner, At

\* An item is a row as long as it is the same item and, for a feed, its
\* category is neither folded nor unfolded.
LEMMA OwnerKept ==
    ASSUME items \in Seq(Item), HeaderFirst, Len(items') = Len(items),
           \A k \in 1 .. Len(items) : items'[k].source = items[k].source,
           NEW i \in Indices
    PROVE  /\ Owner(i) \in 0 .. i /\ Owner(i) \in Indices /\ At(Owner(i)).source # "feed"
           /\ Owner(i)' = Owner(i)
<1>1. Len(items) \in Nat /\ i \in 0 .. Len(items) - 1
    BY LenProperties DEF Indices
<1>2. \A k \in 0 .. i : k + 1 \in 1 .. Len(items)
    BY <1>1
<1>3. \A k \in 0 .. i : At(k)'.source = At(k).source
    BY <1>2 DEF At
<1>4. \A j \in 0 .. i :
          (/\ At(j)'.source # "feed"
           /\ \A k \in j + 1 .. i : At(k)'.source = "feed")
      <=> (/\ At(j).source # "feed"
           /\ \A k \in j + 1 .. i : At(k).source = "feed")
  <2> SUFFICES ASSUME NEW j \in 0 .. i
               PROVE  \A k \in j + 1 .. i : At(k)'.source = At(k).source
    BY <1>3
  <2>1. \A k \in j + 1 .. i : k \in 0 .. i
    BY <1>1
  <2> QED BY <1>3, <2>1
<1>5. Owner(i)' = Owner(i)
    BY <1>4 DEF Owner
<1>6. \E j \in 0 .. i : At(j).source # "feed" /\ \A k \in j + 1 .. i : At(k).source = "feed"
    BY OwnerExists
<1>7. Owner(i) \in 0 .. i /\ At(Owner(i)).source # "feed"
    BY <1>6 DEF Owner
<1>8. Owner(i) \in Indices
    BY <1>1, <1>7 DEF Indices
<1> QED BY <1>5, <1>7, <1>8

\* Up to the selection, folding and counting keep what is on display: what a
\* category hides comes after it.
LEMMA RowsAboveKept ==
    ASSUME Inv, Fold \/ \E delta \in {1, -1} : Bump(delta), NEW i \in Indices,
           Fold => i <= sel
    PROVE  i \in Indices' /\ Visible(i)' = Visible(i)
<1>1. items \in Seq(Item) /\ HeaderFirst
    BY DEF Inv, TypeOK
<1>2. /\ Len(items') = Len(items)
      /\ \A k \in 1 .. Len(items) : items'[k].source = items[k].source
      /\ \A k \in 1 .. Len(items) : (Fold /\ k = sel + 1) \/ items'[k].expanded = items[k].expanded
    BY <1>1, FoldOrBumpChangesOne
<1>3. /\ Owner(i) \in 0 .. i /\ Owner(i) \in Indices /\ At(Owner(i)).source # "feed"
      /\ Owner(i)' = Owner(i)
    BY <1>1, <1>2, OwnerKept
<1>4. Len(items) \in Nat /\ i \in 0 .. Len(items) - 1
    BY <1>1, LenProperties DEF Indices
<1>5. Indices' = Indices /\ At(i)'.source = At(i).source
    BY <1>2, <1>4 DEF Indices, At
<1>6. CASE At(i).source # "feed"
    BY <1>5, <1>6 DEF Visible
<1>7. CASE At(i).source = "feed"
  <2>1. Owner(i) # i /\ Owner(i) \in Int /\ i \in Int
    BY <1>3, <1>4, <1>7
  <2>2. ~ (Fold /\ Owner(i) + 1 = sel + 1)
    <3>1. sel \in Int
      BY DEF Inv, TypeOK
    <3>2. Owner(i) < i
      BY <1>3, <2>1
    <3> QED BY <2>1, <3>1, <3>2
  <2>3. Owner(i) + 1 \in 1 .. Len(items)
    BY <1>3, <1>4, <2>1
  <2>4. At(Owner(i))'.expanded = At(Owner(i)).expanded
    BY <1>2, <1>3, <2>2, <2>3 DEF At
  <2> QED BY <1>3, <1>5, <2>4 DEF Visible
<1> QED BY <1>5, <1>6, <1>7

\* So the rows above the selection stay what they were, and so does the row
\* that the window starts with, which is one of them.
LEMMA FoldOrBumpKeepsScreen ==
    ASSUME Inv, SelectionOnScreen, Fold \/ \E delta \in {1, -1} : Bump(delta)
    PROVE  SelectionOnScreen'
<1>1. items \in Seq(Item) /\ sel \in Int /\ top \in Int
    BY DEF Inv, TypeOK
<1>2. items # <<>> /\ Len(items') = Len(items)
      /\ sel' = sel /\ top' = top /\ rows' = rows /\ placed' = placed
    BY <1>1, FoldOrBumpChangesOne
<1>3. Indices' = Indices
    BY <1>2 DEF Indices
<1>4. ASSUME NEW x \in Int, Fold => x <= sel
      PROVE  {j \in Indices' : j < x /\ Visible(j)'} = {j \in Indices : j < x /\ Visible(j)}
  <2>1. ASSUME NEW j \in Indices, j < x PROVE Visible(j)' = Visible(j)
    <3>1. j \in Int
      BY <1>1, LenProperties DEF Indices
    <3>2. Fold => j <= sel
      BY <1>1, <1>4, <2>1, <3>1
    <3> QED BY <3>2, RowsAboveKept
  <2> QED BY <1>3, <2>1
<1> SUFFICES ASSUME placed, rows > 1, sel # -1
             PROVE  VisiblePos(top)' <= VisiblePos(sel)'
                    /\ VisiblePos(sel)' < VisiblePos(top)' + rows
    BY <1>2 DEF SelectionOnScreen
<1>5. OnScreen(sel, top)
    BY <1>2 DEF SelectionOnScreen, OnScreen
<1>6. Fold => top <= sel
  <2> SUFFICES ASSUME Fold, ~ (top <= sel) PROVE FALSE
    OBVIOUS
  <2>1. sel \in Indices /\ Visible(sel)
    BY <1>2 DEF Inv, SelectionIsEntry
  <2>2. sel < top
    BY <1>1
  <2>3. VisiblePos(sel) < VisiblePos(top)
    BY <1>1, <2>1, <2>2, RowAbove
  <2> QED BY <1>1, <1>5, <2>3, RowsAreIndices DEF OnScreen
<1>7. VisiblePos(sel)' = VisiblePos(sel)
  <2>1. Fold => sel <= sel
    BY <1>1
  <2> QED BY <1>1, <1>2, <1>4, <2>1 DEF VisiblePos
<1>8. VisiblePos(top)' = VisiblePos(top)
    BY <1>1, <1>2, <1>4, <1>6 DEF VisiblePos
<1> QED BY <1>5, <1>7, <1>8 DEF OnScreen

\* The keys that place the selection place it on the window.
LEMMA MovementKeepsScreen ==
    ASSUME Inv, Shape, Inv',
           Home \/ End \/ \E delta \in Int : Move(delta)
    PROVE  SelectionOnScreen'
<1>1. items' = items /\ rows' = rows /\ items \in Seq(Item) /\ rows \in Nat
    BY RowCountsAssumption DEF Inv, TypeOK, Home, End, Move
<1> SUFFICES ASSUME rows > 1, items # <<>>, sel' # -1
             PROVE  OnScreen(sel', top')
    BY <1>1, SameItemsSameRows DEF SelectionOnScreen, OnScreen
<1>2. sel' \in Indices /\ At(sel').source # "section" /\ Visible(sel')
    BY <1>1 DEF Inv, SelectionIsEntry, Indices, At, Visible, Owner
<1>3. CASE End \/ \E delta \in Int : Move(delta)
  <2>1. top' = ClampTop(sel')
    BY <1>3 DEF End, Move
  <2> QED BY <1>1, <1>2, <2>1, ClampTopFollows
<1>4. CASE Home
  <2>1. top' = 0
    BY <1>4 DEF Home
  <2>2. /\ Len(items) \in Nat /\ items[1].source = "section"
        /\ Len(items) > 1 => items[2].source \in {"virtual", "label", "category"}
    BY <1>1, LenProperties, ShapeStart DEF Inv
  <2>3. sel' # 0 /\ sel' \in 0 .. Len(items) - 1
    BY <1>2, <2>2 DEF At, Indices
  <2>4. Len(items) > 1
    BY <2>2, <2>3
  <2>5. 1 \in Selectable
    BY <2>2, <2>4 DEF Selectable, Indices, At, Visible
  <2>6. sel' = CHOOSE i \in Selectable : \A j \in Selectable : i <= j
    BY <1>4, <2>5 DEF Home
  <2>7. /\ \A j \in Selectable : sel' <= j
        /\ sel' \in Selectable
    <3>1. Selectable \in SUBSET Nat
      BY <2>2 DEF Selectable, Indices
    <3>2. \E i \in Selectable : \A j \in Selectable : i <= j
      BY <2>5, <3>1, LeastIndex
    <3> QED BY <2>6, <3>2
  <2>8. sel' = 1
    BY <2>2, <2>3, <2>5, <2>7
  <2> QED BY <1>1, <2>1, <2>2, <2>4, <2>8, FirstRows
<1> QED BY <1>3, <1>4

\* A load selects the first entry and shows the list from its start.
LEMMA LoadKeepsScreen ==
    ASSUME Inv, NEW a \in Answers, Load(a)
    PROVE  SelectionOnScreen'
<1>1. WellFormed(Items(a))
    BY AnswersAssumption, ItemsWellFormed
<1>2. /\ items' = Items(a) /\ items' \in Seq(Item) /\ Len(items') \in Nat
      /\ items'[1].source = "section"
      /\ Len(items') > 1 => items'[2].source \in {"virtual", "label", "category"}
      /\ top' = 0 /\ rows' = rows /\ rows \in Nat
    BY <1>1, LenProperties, RowCountsAssumption DEF Load, WellFormed, Inv, TypeOK
<1>3. /\ Len(items') > 1 => sel' = 1
      /\ ~ (Len(items') > 1) => sel' = -1
    BY <1>1, <1>2, FirstEntryIsSecond DEF Load
<1> SUFFICES ASSUME rows > 1, sel' # -1
             PROVE  VisiblePos(top)' <= VisiblePos(sel)'
                    /\ VisiblePos(sel)' < VisiblePos(top)' + rows
    BY <1>2 DEF SelectionOnScreen
<1>4. Len(items') > 1 /\ sel' = 1
    BY <1>3
<1>5. At(0)'.source = "section" /\ 0 \in Indices'
    BY <1>2, <1>4 DEF At, Indices
<1>6. {j \in Indices' : j < 0 /\ Visible(j)'} = {}
    BY <1>2 DEF Indices
<1>7. {j \in Indices' : j < 1 /\ Visible(j)'} = {0}
  <2>1. \A j \in Indices' : j < 1 <=> j = 0
    BY <1>2 DEF Indices
  <2>2. Visible(0)'
    BY <1>5 DEF Visible
  <2> QED BY <1>5, <2>1, <2>2
<1>8. VisiblePos(top)' = 0 /\ VisiblePos(sel)' = 1
  <2>1. /\ VisiblePos(top)' = Cardinality({j \in Indices' : j < 0 /\ Visible(j)'})
        /\ VisiblePos(sel)' = Cardinality({j \in Indices' : j < 1 /\ Visible(j)'})
    BY <1>2, <1>4 DEF VisiblePos
  <2>2. Cardinality({}) = 0 /\ Cardinality({0}) = 1
    BY FS_EmptySet, FS_Singleton
  <2> QED BY <1>6, <1>7, <2>1, <2>2
<1> QED BY <1>2, <1>8

LEMMA NextKeepsScreen ==
    ASSUME Inv, Shape, Inv', SelectionOnScreen, [Next]_vars
    PROVE  SelectionOnScreen'
<1>1. ASSUME NEW a \in Answers, Load(a) PROVE SelectionOnScreen'
    BY <1>1, LoadKeepsScreen
<1>2. CASE LoadFails
    BY <1>2 DEF LoadFails, SelectionOnScreen
<1>3. CASE Down \/ Up \/ PageDown \/ PageUp
  <2>1. rows \in Int
    BY RowCountsAssumption DEF Inv, TypeOK
  <2>2. \E delta \in Int : Move(delta)
    BY <1>3, <2>1 DEF Down, Up, PageDown, PageUp
  <2> QED BY <2>2, MovementKeepsScreen
<1>4. CASE Home \/ End
    BY <1>4, MovementKeepsScreen
<1>5. CASE Fold \/ \E delta \in {1, -1} : Bump(delta)
    BY <1>5, FoldOrBumpKeepsScreen
<1>6. CASE Open
    BY <1>6, SameItemsSameRows DEF Open, SelectionOnScreen
<1>7. ASSUME NEW r \in RowCounts, Resize(r) PROVE SelectionOnScreen'
    BY <1>7, SameItemsSameRows DEF Resize, SelectionOnScreen
<1>8. CASE UNCHANGED vars
    BY <1>8, SameItemsSameRows DEF vars, SelectionOnScreen
<1> QED BY <1>1, <1>2, <1>3, <1>4, <1>5, <1>6, <1>7, <1>8 DEF Next

\* As long as the pane keeps its height, the selected entry is inside the
\* window, however the list has been loaded, moved in and folded.
THEOREM SelectionAlwaysOnScreen == Spec => []SelectionOnScreen
<1>1. Init => Shape /\ SelectionOnScreen
    BY DEF Init, Shape, SelectionOnScreen
<1>2. Inv /\ Shape /\ SelectionOnScreen /\ Inv' /\ [Next]_vars => Shape' /\ SelectionOnScreen'
    BY NextKeepsShape, NextKeepsScreen DEF Inv
<1> QED BY <1>1, <1>2, Invariance, PTL DEF Spec

-----------------------------------------------------------------------------
(* What is shown.                                                          *)

\* What the list shows of the answer, by index.
LEMMA ShapeAt ==
    ASSUME TypeOK, Shape, items # <<>>
    PROVE  /\ Len(items) \in Nat /\ Len(Items(answer)) = Len(items)
           /\ \A i \in Indices :
                 /\ i \in Int /\ i + 1 \in 1 .. Len(items)
                 /\ At(i).source = Items(answer)[i + 1].source
                 /\ At(i).id = Items(answer)[i + 1].id
<1>1. Len(items) \in Nat
    BY LenProperties DEF TypeOK
<1>2. \A i \in Indices : i \in Int /\ i + 1 \in 1 .. Len(items)
    BY <1>1 DEF Indices
<1> QED BY <1>1, <1>2 DEF Shape, At

LEMMA ShapeShowsEveryFeedOnce ==
    ASSUME TypeOK, Shape
    PROVE  ShowsEveryFeedOnce
<1> SUFFICES ASSUME items # <<>> PROVE ShowsEveryFeedOnce
    BY DEF ShowsEveryFeedOnce
<1> DEFINE all == Items(answer)
<1>1. answer \in Answer
    BY AnswersAssumption DEF TypeOK
<1>2. PICK off : Starts(off, answer)
    BY <1>1, FeedPartPlaces
<1>3. /\ Len(items) \in Nat /\ Len(all) = Len(items)
      /\ \A i \in Indices :
            /\ i \in Int /\ i + 1 \in 1 .. Len(items)
            /\ At(i).source = all[i + 1].source /\ At(i).id = all[i + 1].id
    BY ShapeAt
<1> HIDE DEF all
<1>4. ASSUME NEW i \in Indices, At(i).source \notin {"section", "category"}
      PROVE  \E m \in DOMAIN answer.feeds :
                /\ ShowsFeed(answer, off, i + 1, m)
                /\ Answered(answer, answer.feeds[m])
                /\ answer.feeds[m].id = At(i).id
  <2>1. i + 1 \in 1 .. Len(Items(answer)) /\ Items(answer)[i + 1].source \notin {"section", "category"}
    BY <1>3, <1>4 DEF all
  <2>2. PICK m : ShowsFeed(answer, off, i + 1, m)
    BY <1>1, <1>2, <2>1, EntryIsShown
  <2>3. /\ m \in DOMAIN answer.feeds /\ Answered(answer, answer.feeds[m])
        /\ Items(answer)[i + 1].id = answer.feeds[m].id
    BY <1>1, <1>2, <2>2, ShownIsAnswered
  <2> QED BY <1>3, <2>2, <2>3 DEF all
<1>5. DOMAIN answer.feeds = 1 .. Len(answer.feeds)
    BY <1>1, BlocksPlaces, LenProperties
<1>6. ASSUME NEW n \in 1 .. Len(answer.feeds)
      PROVE  LET f == answer.feeds[n]
                 shown == {i \in Indices : At(i).source \notin {"section", "category"}
                                             /\ At(i).id = f.id}
             IN  /\ Cardinality(shown) = IF Answered(answer, f) THEN 1 ELSE 0
                 /\ \A i \in shown : At(i).source = "feed" => At(Owner(i)).id = f.cat
  <2> DEFINE f == answer.feeds[n]
             shown == {i \in Indices : At(i).source \notin {"section", "category"}
                                         /\ At(i).id = f.id}
  <2>1. ASSUME NEW i \in shown
        PROVE  ShowsFeed(answer, off, i + 1, n) /\ Answered(answer, f)
    <3>1. PICK m \in DOMAIN answer.feeds :
             /\ ShowsFeed(answer, off, i + 1, m)
             /\ Answered(answer, answer.feeds[m])
             /\ answer.feeds[m].id = At(i).id
      BY <1>4
    <3>2. m = n
      BY <1>1, <1>5, <3>1 DEF Answer
    <3> QED BY <3>1, <3>2
  <2>2. ASSUME Answered(answer, f) PROVE Cardinality(shown) = 1
    <3>1. PICK p : ShowsFeed(answer, off, p, n)
      BY <1>1, <1>5, <2>2, AnsweredIsShown
    <3>2. /\ p \in 1 .. Len(Items(answer))
          /\ Items(answer)[p].source \notin {"section", "category"}
          /\ Items(answer)[p].id = answer.feeds[n].id
      BY <1>1, <1>2, <3>1, ShownIsAnswered
    <3>3. p - 1 \in Indices /\ (p - 1) + 1 = p
      BY <1>3, <3>2 DEF Indices, all
    <3>4. p - 1 \in shown
      BY <1>3, <3>2, <3>3 DEF all
    <3>5. ASSUME NEW i \in shown PROVE i = p - 1
      <4>1. i + 1 = p
        BY <1>1, <2>1, <3>1, ShownOnce
      <4>2. i \in Int
        BY <1>3
      <4> QED BY <4>1, <4>2
    <3> HIDE DEF shown
    <3>6. shown = {p - 1}
      BY <3>4, <3>5
    <3> QED BY <3>6, FS_Singleton
  <2>3. ASSUME ~Answered(answer, f) PROVE Cardinality(shown) = 0
    <3> HIDE DEF shown
    <3>1. shown = {}
      BY <2>1, <2>3
    <3> QED BY <3>1, FS_EmptySet
  <2>4. ASSUME NEW i \in shown, At(i).source = "feed"
        PROVE  At(Owner(i)).id = f.cat
    <3>1. i \in Indices /\ i \in Int /\ i + 1 \in 1 .. Len(items)
          /\ Items(answer)[i + 1].source = "feed"
      BY <1>3, <2>4 DEF all
    <3>2. PICK q \in 1 .. Len(Items(answer)) :
             /\ q < i + 1
             /\ Items(answer)[q].source = "category" /\ Items(answer)[q].id = answer.feeds[n].cat
             /\ \A r \in q + 1 .. i + 1 : Items(answer)[r].source = "feed"
      BY <1>1, <1>2, <2>1, <2>4, <3>1, OwnCategoryAbove
    <3>3. q - 1 \in Indices /\ q - 1 \in 0 .. i /\ (q - 1) + 1 = q
      BY <1>3, <3>1, <3>2 DEF Indices, all
    <3>4. At(q - 1).source = "category" /\ At(q - 1).id = f.cat
      BY <1>3, <3>2, <3>3 DEF all
    <3>5. \A k \in q .. i : At(k).source = "feed"
      <4> TAKE k \in q .. i
      <4>1. k \in Indices /\ k + 1 \in q + 1 .. i + 1
        BY <1>3, <3>1, <3>2 DEF Indices, all
      <4> QED BY <1>3, <3>2, <4>1 DEF all
    <3>6. Owner(i) = q - 1
      <4> DEFINE Owns(j) == At(j).source # "feed" /\ \A k \in j + 1 .. i : At(k).source = "feed"
      <4>1. Owns(q - 1)
        BY <3>3, <3>4, <3>5
      <4>2. ASSUME NEW j \in 0 .. i, Owns(j) PROVE j = q - 1
        <5>1. j \in Int /\ q \in Int /\ i \in Int
          BY <3>1, <3>2
        <5>2. ~ (j >= q)
          BY <3>5, <4>2, <5>1
        <5>3. ~ (j < q - 1)
          <6> SUFFICES ASSUME j < q - 1 PROVE FALSE
            OBVIOUS
          <6>1. q - 1 \in j + 1 .. i
            BY <3>3, <5>1
          <6> QED BY <3>4, <4>2, <6>1
        <5> QED BY <5>1, <5>2, <5>3
      <4>3. (CHOOSE j \in 0 .. i : Owns(j)) = q - 1
        <5> HIDE DEF Owns
        <5> QED BY <3>3, <4>1, <4>2
      <4> QED BY <4>3 DEF Owner
    <3> QED BY <3>4, <3>6
  <2> QED BY <2>2, <2>3, <2>4
<1>7. ASSUME NEW i \in Indices, At(i).source \notin {"section", "category"}
      PROVE  \E n \in 1 .. Len(answer.feeds) : answer.feeds[n].id = At(i).id
    BY <1>4, <1>5, <1>7
<1> QED BY <1>6, <1>7 DEF ShowsEveryFeedOnce

\* Whatever the server answers, every feed of it, but for those the property says
\* are missing, is in the sidebar once, below its own category, and nothing else is.
THEOREM AlwaysShowsEveryFeedOnce == Spec => []ShowsEveryFeedOnce
<1>1. Init => Shape
    BY DEF Init, Shape
<1>2. Inv /\ Shape /\ [Next]_vars => Shape'
    BY NextKeepsShape DEF Inv
<1>3. Inv /\ Shape => ShowsEveryFeedOnce
    BY ShapeShowsEveryFeedOnce DEF Inv
<1> QED BY <1>1, <1>2, <1>3, Invariance, PTL DEF Spec
=============================================================================
