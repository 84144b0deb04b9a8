---------------------------- MODULE ReaderProofs ----------------------------
(***************************************************************************)
(* Proofs about the copies of the flags, for any articles, entries         *)
(* and page size: their types; that opening an article never makes one     *)
(* unread; that what is shown as the server holds it stays so; that the    *)
(* count of the loaded entry moves with the server's; and that paging      *)
(* lists each article of an entry that no flag selects once.               *)
(***************************************************************************)
EXTENDS Reader, TLAPS, WellFoundedInduction, FiniteSetTheorems, SequenceTheorems

-----------------------------------------------------------------------------
(* The newest articles of a set.                                           *)

\* A set of natural numbers that is not empty has a least one.
LEMMA LeastExists ==
    ASSUME NEW T \in SUBSET Nat, T # {}
    PROVE  \E x \in T : \A y \in T : x <= y
  <1>1. IsWellFoundedOn(OpToRel(<, Nat), Nat)
    BY NatLessThanWellFounded
  <1>2. PICK x \in T : \A y \in T : ~(<<y, x>> \in OpToRel(<, Nat))
    BY <1>1, WFMin
  <1>3. \A y \in T : ~(y < x)
    BY <1>2 DEF OpToRel
  <1> QED
    BY <1>3

\* So has a finite set of articles: the one with the fewest below it.
LEMMA OldestExists ==
    ASSUME NEW S \in SUBSET Int, IsFiniteSet(S), S # {}
    PROVE  \E a \in S : \A c \in S : a <= c
  <1> DEFINE Below(a) == {c \in S : c < a}
  <1>1. \A a \in S : IsFiniteSet(Below(a)) /\ Cardinality(Below(a)) \in Nat
    <2> TAKE a \in S
    <2>1. Below(a) \in SUBSET S
      OBVIOUS
    <2> QED
      BY <2>1, FS_Subset, FS_CardinalityType
  <1> DEFINE T == {Cardinality(Below(a)) : a \in S}
  <1>2. PICK x \in T : \A y \in T : x <= y
    <2>1. T \in SUBSET Nat /\ T # {}
      BY <1>1
    <2> QED
      BY <2>1, LeastExists
  <1>3. PICK a \in S : x = Cardinality(Below(a))
    OBVIOUS
  <1>4. ASSUME NEW c \in S, c < a
        PROVE  FALSE
    <2>1. Below(c) \in SUBSET Below(a) /\ c \in Below(a) /\ c \notin Below(c)
      <3>1. \A e \in S : e \in Int
        OBVIOUS
      <3>2. \A e \in S : e < c => e < a
        BY <1>4, <3>1
      <3>3. ~(c < c)
        BY <3>1
      <3> QED
        BY <1>4, <3>2, <3>3
    <2>2. Below(c) # Below(a)
      BY <2>1
    <2>3. Cardinality(Below(c)) <= Cardinality(Below(a))
      <3> HIDE DEF Below
      <3> QED
        BY <1>1, <2>1, FS_Subset
    <2>4. Cardinality(Below(a)) # Cardinality(Below(c))
      <3> HIDE DEF Below
      <3> QED
        BY <1>1, <2>1, <2>2, FS_Subset
    <2>5. x <= Cardinality(Below(c))
      BY <1>2
    <2>6. Cardinality(Below(c)) \in Nat /\ Cardinality(Below(a)) \in Nat
      BY <1>1
    <2> HIDE DEF Below
    <2> QED
      BY <1>3, <2>3, <2>4, <2>5, <2>6
  <1> QED
    BY <1>4

\* A finite set of at least n articles has one with n - 1 newer ones: the
\* newest of those that have no fewer.
LEMMA NewestExists ==
    ASSUME NEW S \in SUBSET Articles, NEW n \in 1 .. Cardinality(S)
    PROVE  /\ Newest(S, n) \in S
           /\ Cardinality({b \in S : b > Newest(S, n)}) = n - 1
  <1> DEFINE Newer(a) == {b \in S : b > a}
             T == {a \in S : Cardinality(Newer(a)) >= n - 1}
  <1>1. S \in SUBSET Int /\ IsFiniteSet(S) /\ Cardinality(S) \in Nat
    BY ArticlesAssumption, FS_Subset, FS_CardinalityType
  <1>2. \A a \in S : IsFiniteSet(Newer(a)) /\ Cardinality(Newer(a)) \in Nat
    <2> TAKE a \in S
    <2>1. Newer(a) \in SUBSET S
      OBVIOUS
    <2> QED
      BY <1>1, <2>1, FS_Subset, FS_CardinalityType
  <1>3. T # {}
    <2>1. S # {}
      BY <1>1, FS_EmptySet
    <2>2. PICK a \in S : \A c \in S : a <= c
      BY <1>1, <2>1, OldestExists
    <2>3. Newer(a) = S \ {a}
      <3>1. \A e \in S : e > a <=> e # a
        BY <1>1, <2>2
      <3> QED
        BY <3>1
    <2>4. Cardinality(S \ {a}) = Cardinality(S) - 1
      BY <1>1, FS_RemoveElement
    <2>5. Cardinality(Newer(a)) = Cardinality(S) - 1
      BY <2>3, <2>4
    <2> HIDE DEF Newer
    <2>6. Cardinality(Newer(a)) >= n - 1
      BY <1>1, <2>5
    <2> QED
      BY <2>6
  <1> DEFINE Sizes == {Cardinality(Newer(a)) : a \in T}
  <1>4. PICK x \in Sizes : \A y \in Sizes : x <= y
    <2>1. Sizes \in SUBSET Nat /\ Sizes # {}
      BY <1>2, <1>3
    <2> QED
      BY <2>1, LeastExists
  <1>5. PICK a \in T : x = Cardinality(Newer(a))
    OBVIOUS
  <1>6. ASSUME Cardinality(Newer(a)) # n - 1
        PROVE  FALSE
    <2>1. Cardinality(Newer(a)) \in Nat /\ Cardinality(Newer(a)) > n - 1 /\ n - 1 >= 0
      <3>1. Cardinality(Newer(a)) >= n - 1 /\ Cardinality(Newer(a)) \in Nat
        BY <1>2, <1>5
      <3> HIDE DEF Newer
      <3> QED
        BY <1>6, <3>1
    <2>2. Newer(a) # {}
      <3> HIDE DEF Newer
      <3> QED
        BY <2>1, FS_EmptySet
    <2>3. Newer(a) \in SUBSET Int
      BY <1>1
    <2>4. PICK b \in Newer(a) : \A c \in Newer(a) : b <= c
      BY <1>2, <1>5, <2>2, <2>3, OldestExists
    <2>5. Newer(b) = Newer(a) \ {b} /\ b \in S
      <3>1. \A e \in S : e \in Int
        BY <1>1
      <3>2. a \in S /\ b \in S /\ b > a
        BY <1>5, <2>4
      <3>3. \A e \in S : e > b <=> e > a /\ e # b
        BY <2>4, <3>1, <3>2
      <3> QED
        BY <3>2, <3>3
    <2>6. Cardinality(Newer(b)) = Cardinality(Newer(a)) - 1
      <3>1. IsFiniteSet(Newer(a))
        BY <1>2, <1>5
      <3> HIDE DEF Newer
      <3> QED
        BY <2>4, <2>5, <3>1, FS_RemoveElement
    <2>7. b \in T
      <3> HIDE DEF Newer
      <3> QED
        BY <2>1, <2>5, <2>6
    <2>8. x <= Cardinality(Newer(b))
      BY <1>4, <2>7
    <2> HIDE DEF Newer
    <2> QED
      BY <1>5, <2>1, <2>6, <2>8
  <1>7. \E s \in S : Cardinality({b \in S : b > s}) = n - 1
    BY <1>5, <1>6
  <1> QED
    BY <1>7 DEF Newest

\* No two places of a listing have the same article, and each has one.
LEMMA NewestOnce ==
    ASSUME NEW S \in SUBSET Articles, NEW i \in 1 .. Cardinality(S), NEW j \in 1 .. Cardinality(S),
           Newest(S, i) = Newest(S, j)
    PROVE  i = j
  <1>1. i - 1 = j - 1
    BY NewestExists
  <1>2. Cardinality(S) \in Nat
    BY ArticlesAssumption, FS_Subset, FS_CardinalityType
  <1> QED
    BY <1>1, <1>2

LEMMA NewestAll ==
    ASSUME NEW S \in SUBSET Articles, NEW a \in S
    PROVE  \E i \in 1 .. Cardinality(S) : Newest(S, i) = a
  <1> DEFINE N == Cardinality(S)
             place == [i \in 1 .. N |-> Newest(S, i)]
  <1>1. IsFiniteSet(S) /\ N \in Nat
    BY ArticlesAssumption, FS_Subset, FS_CardinalityType
  <1>2. \A i \in 1 .. N : place[i] = Newest(S, i) /\ place[i] \in S
    BY NewestExists
  <1>3. \A i, j \in 1 .. N : place[i] = place[j] => i = j
    BY NewestOnce
  <1>4. place \in [1 .. N -> S]
    BY <1>2
  <1>5. Cardinality(1 .. N) = N
    BY <1>1, FS_Interval
  <1> HIDE DEF place
  <1>6. place \in Injection(1 .. N, S)
    BY <1>3, <1>4 DEF Injection, IsInjective
  <1>7. place \in Surjection(1 .. N, S)
    BY <1>1, <1>5, <1>6, FS_Injection
  <1>8. PICK i \in 1 .. N : place[i] = a
    BY <1>7 DEF Surjection
  <1> QED
    BY <1>2, <1>8

-----------------------------------------------------------------------------
(* Pages, counts and rows.                                                 *)

LEMMA MembersAreFinite ==
    ASSUME NEW CONSTANT f \in Sources
    PROVE  Members[f] \in SUBSET Articles /\ Cardinality(Members[f]) \in Nat
  <1>1. Members[f] \in SUBSET Articles
    BY MembersAssumption
  <1> QED
    BY <1>1, ArticlesAssumption, FS_Subset, FS_CardinalityType

LEMMA ViewIsFinite ==
    ASSUME NEW f \in Sources, NEW v
    PROVE  /\ InView(f, v) \in SUBSET Articles
           /\ Cardinality(InView(f, v)) \in Nat
  <1>1. InView(f, v) \in SUBSET Articles
    BY MembersAssumption DEF InView, Held
  <1> QED
    BY <1>1, ArticlesAssumption, FS_Subset, FS_CardinalityType

LEMMA PageType ==
    ASSUME NEW f \in Sources, NEW v, NEW skip \in Nat, srv \in [Articles -> SUBSET Fields]
    PROVE  /\ Page(f, v, skip) \in Seq(Headline)
           /\ \A i \in 1 .. Len(Page(f, v, skip)) :
                 /\ Page(f, v, skip)[i].id \in Members[f]
                 /\ Page(f, v, skip)[i].flags = srv[Page(f, v, skip)[i].id]
  <1> DEFINE S == InView(f, v)
             left == Cardinality(S) - skip
             n == IF left <= 0 THEN 0 ELSE IF left < Limit THEN left ELSE Limit
             row(i) == [id |-> Newest(S, skip + i), flags |-> srv[Newest(S, skip + i)]]
  <1>1. S \in SUBSET Articles /\ Cardinality(S) \in Nat /\ S \in SUBSET Members[f]
    BY ViewIsFinite DEF InView, Held
  <1>2. n \in Nat /\ \A i \in 1 .. n : skip + i \in 1 .. Cardinality(S)
    <2> HIDE DEF S
    <2> QED
      BY <1>1, LimitAssumption
  <1>3. \A i \in 1 .. n :
           row(i) \in Headline /\ row(i).flags = srv[row(i).id] /\ row(i).id \in Members[f]
    <2> HIDE DEF S, n
    <2> TAKE i \in 1 .. n
    <2>1. Newest(S, skip + i) \in Articles /\ Newest(S, skip + i) \in Members[f]
      BY <1>1, <1>2, NewestExists
    <2> QED
      BY <2>1 DEF Headline
  <1>4. Page(f, v, skip) = [i \in 1 .. n |-> row(i)]
    BY DEF Page
  <1> HIDE DEF n, row
  <1>5. Len(Page(f, v, skip)) = n
    BY <1>2, <1>4
  <1> QED
    BY <1>2, <1>3, <1>4, <1>5

LEMMA CountType ==
    ASSUME NEW CONSTANT S \in SUBSET Articles
    PROVE  UnreadIn(S) \in Nat /\ UnreadIn(S)' \in Nat
  <1>1. /\ {a \in S : "unread" \in srv[a]} \in SUBSET Articles
        /\ {a \in S : "unread" \in srv'[a]} \in SUBSET Articles
    OBVIOUS
  <1> QED
    BY <1>1, ArticlesAssumption, FS_Subset, FS_CardinalityType DEF UnreadIn

LEMMA CountsType == Counts \in [Sources -> Nat] /\ Counts' \in [Sources -> Nat]
  <1>1. ASSUME NEW S \in SUBSET Articles PROVE Cardinality(S) \in Nat
    BY ArticlesAssumption, FS_Subset, FS_CardinalityType
  <1>2. ASSUME NEW f \in Sources
        PROVE  /\ {a \in {b \in Members[f] : srv[b] \in Selects[f]} : "unread" \in srv[a]} \in SUBSET Articles
               /\ {a \in {b \in Members[f] : srv'[b] \in Selects[f]} : "unread" \in srv'[a]} \in SUBSET Articles
    BY MembersAssumption
  <1> QED
    BY <1>1, <1>2 DEF Counts, UnreadIn, Held

LEMMA FirstRowIsRow ==
    ASSUME NEW list \in Seq(Headline), NEW a, Rows(list, a) # {}
    PROVE  /\ FirstRow(list, a) \in Rows(list, a)
           /\ \A j \in Rows(list, a) : FirstRow(list, a) <= j
  <1>1. Rows(list, a) \in SUBSET Nat
    BY DEF Rows
  <1>2. \E i \in Rows(list, a) : \A j \in Rows(list, a) : i <= j
    BY <1>1, LeastExists
  <1> QED
    BY <1>2 DEF FirstRow

LEMMA AppliedIsHeadline ==
    ASSUME NEW h \in Headline, NEW field \in Fields, NEW mode
    PROVE  /\ ApplyField(h, field, mode) \in Headline
           /\ ApplyField(h, field, mode).id = h.id
           /\ ApplyField(h, field, mode).flags = Apply(h.flags, field, mode)
  <1>1. h.flags \in SUBSET Fields
    BY DEF Headline
  <1>2. Apply(h.flags, field, mode) \in SUBSET Fields
    BY <1>1 DEF Apply
  <1> QED
    BY <1>2 DEF Headline, ApplyField

LEMMA MirrorType ==
    ASSUME NEW list \in Seq(Headline), NEW a, NEW field \in Fields, NEW mode
    PROVE  Mirror(list, a, field, mode) \in Seq(Headline) /\ Len(Mirror(list, a, field, mode)) = Len(list)
  <1>1. CASE Rows(list, a) = {}
    BY <1>1 DEF Mirror
  <1>2. CASE Rows(list, a) # {}
    <2> DEFINE r == FirstRow(list, a)
    <2>1. r \in 1 .. Len(list)
      BY <1>2, FirstRowIsRow DEF Rows
    <2>2. ApplyField(list[r], field, mode) \in Headline
      BY <2>1, AppliedIsHeadline
    <2>3. Mirror(list, a, field, mode) = [list EXCEPT ![r] = ApplyField(list[r], field, mode)]
      BY <1>2 DEF Mirror
    <2> HIDE DEF r
    <2> QED
      BY <2>1, <2>2, <2>3
  <1> QED
    BY <1>1, <1>2

LEMMA BumpType ==
    ASSUME NEW before, NEW after, side \in [Sources -> Nat] \cup {NoItems}
    PROVE  Bump(before, after) \in [Sources -> Nat] \cup {NoItems}
  <1>1. CASE cur \notin DOMAIN side
    BY <1>1 DEF Bump
  <1>2. CASE cur \in DOMAIN side
    <2>1. side \in [Sources -> Nat] /\ cur \in Sources
      BY <1>2 DEF NoItems
    <2> DEFINE g == FirstWithId(cur)
               n == IF "unread" \in after.flags THEN side[g] + 1
                    ELSE IF side[g] > 0 THEN side[g] - 1 ELSE 0
    <2>2. Bump(before, after) = side \/ Bump(before, after) = [side EXCEPT ![g] = n]
      BY DEF Bump
    <2> HIDE DEF g
    <2>3. g \in Sources => n \in Nat
      BY <2>1
    <2> HIDE DEF n
    <2>4. [side EXCEPT ![g] = n] \in [Sources -> Nat]
      BY <2>1, <2>3
    <2> QED
      BY <2>1, <2>2, <2>4
  <1> QED
    BY <1>1, <1>2

-----------------------------------------------------------------------------
(* mutate.                                                                 *)

\* Changing a flag leaves the rows what articles they are.
SameRows == Len(heads') = Len(heads) /\ \A i \in 1 .. Len(heads) : heads'[i].id = heads[i].id

LEMMA MirrorRows ==
    ASSUME NEW list \in Seq(Headline), NEW a, NEW field \in Fields, NEW mode
    PROVE  \A i \in 1 .. Len(list) :
              Mirror(list, a, field, mode)[i] =
                 IF Rows(list, a) # {} /\ i = FirstRow(list, a)
                 THEN ApplyField(list[i], field, mode) ELSE list[i]
  <1>1. CASE Rows(list, a) = {}
    BY <1>1 DEF Mirror
  <1>2. CASE Rows(list, a) # {}
    <2>1. FirstRow(list, a) \in 1 .. Len(list)
      BY <1>2, FirstRowIsRow DEF Rows
    <2> QED
      BY <1>2, <2>1 DEF Mirror
  <1> QED
    BY <1>1, <1>2

\* The target, and the list once the target has the change.
InList(pane, copy) == pane # "article" \/ copy = NoArticle
Target(pane, copy) == IF InList(pane, copy) THEN Current ELSE copy
Touched(pane, copy, field, mode) ==
    IF InList(pane, copy) THEN [heads EXCEPT ![sel + 1] = ApplyField(@, field, mode)] ELSE heads

LEMMA TargetType ==
    ASSUME TypeOK, NEW pane, NEW copy \in Headline \cup {NoArticle}, NEW field \in Fields, NEW mode,
           heads # <<>> \/ ~InList(pane, copy)
    PROVE  /\ Target(pane, copy) \in Headline
           /\ Touched(pane, copy, field, mode) \in Seq(Headline)
           /\ Len(Touched(pane, copy, field, mode)) = Len(heads)
           /\ InList(pane, copy) => sel + 1 \in 1 .. Len(heads)
           /\ \A i \in 1 .. Len(heads) :
                 Touched(pane, copy, field, mode)[i] =
                    IF InList(pane, copy) /\ i = sel + 1
                    THEN ApplyField(heads[i], field, mode) ELSE heads[i]
  <1>0. heads \in Seq(Headline) /\ sel \in Nat
    BY DEF TypeOK
  <1>1. CASE InList(pane, copy)
    <2>1. sel + 1 \in 1 .. Len(heads)
      <3>1. heads # <<>>
        BY <1>1
      <3>2. sel < Len(heads)
        BY <3>1 DEF TypeOK
      <3> QED
        BY <1>0, <3>2
    <2>2. Current \in Headline
      BY <1>0, <2>1 DEF Current
    <2>3. ApplyField(heads[sel + 1], field, mode) \in Headline
      BY <2>2, AppliedIsHeadline DEF Current
    <2>4. Touched(pane, copy, field, mode) = [heads EXCEPT ![sel + 1] = ApplyField(heads[sel + 1], field, mode)]
      BY <1>1 DEF Touched
    <2>5. /\ Touched(pane, copy, field, mode) \in Seq(Headline)
          /\ Len(Touched(pane, copy, field, mode)) = Len(heads)
      BY <1>0, <2>1, <2>3, <2>4
    <2>6. \A i \in 1 .. Len(heads) :
             Touched(pane, copy, field, mode)[i] =
                IF i = sel + 1 THEN ApplyField(heads[i], field, mode) ELSE heads[i]
      BY <1>0, <2>1, <2>4
    <2> QED
      BY <1>1, <2>1, <2>2, <2>5, <2>6 DEF Target
  <1>2. CASE ~InList(pane, copy)
    <2>1. copy \in Headline
      BY <1>2 DEF InList
    <2> QED
      BY <1>0, <1>2, <2>1 DEF Target, Touched
  <1> QED
    BY <1>1, <1>2

\* What mutate does, answered or not.
LEMMA MutateMeaning ==
    ASSUME NEW pane, NEW copy, NEW field, NEW mode, NEW outcome,
           Mutate(pane, copy, field, mode, outcome)
    PROVE  LET h == Target(pane, copy) IN
           \/ /\ outcome = "ok"
              /\ srv' = [srv EXCEPT ![h.id] = Apply(@, field, mode)]
              /\ heads' = Mirror(Touched(pane, copy, field, mode), h.id, field, mode)
              /\ art' = IF copy # NoArticle /\ copy.id = h.id
                        THEN ApplyField(copy, field, mode) ELSE copy
              /\ side' = IF field = "unread"
                         THEN Bump(h, IF InList(pane, copy) THEN heads'[sel + 1] ELSE art') ELSE side
              /\ counters' \in {counters, UnreadIn(Articles)'}
              /\ status' = "ok"
           \/ /\ outcome # "ok"
              /\ srv' = IF outcome = "lost" THEN [srv EXCEPT ![h.id] = Apply(@, field, mode)] ELSE srv
              /\ art' = copy
              /\ status' = "error"
              /\ UNCHANGED <<heads, side, counters>>
  BY Zenon DEF Mutate, MutateOk, MutateFails, Target, Touched, InList

LEMMA MutateTypes ==
    ASSUME TypeOK, NEW pane, NEW copy \in Headline \cup {NoArticle}, NEW field \in Fields, NEW mode,
           NEW outcome, heads # <<>> \/ ~InList(pane, copy),
           Mutate(pane, copy, field, mode, outcome)
    PROVE  /\ srv' \in [Articles -> SUBSET Fields]
           /\ heads' \in Seq(Headline)
           /\ SameRows
           /\ art' \in Headline \cup {NoArticle}
           /\ side' \in [Sources -> Nat] \cup {NoItems}
           /\ counters' \in Nat
           /\ status' \in {"ok", "error"}
  <1> DEFINE h == Target(pane, copy)
             touched == Touched(pane, copy, field, mode)
  <1>0. /\ srv \in [Articles -> SUBSET Fields] /\ heads \in Seq(Headline)
        /\ side \in [Sources -> Nat] \cup {NoItems} /\ counters \in Nat
    BY DEF TypeOK
  <1>1. /\ h \in Headline /\ h.id \in Articles
        /\ touched \in Seq(Headline) /\ Len(touched) = Len(heads)
    BY TargetType DEF Headline
  <1>2. [srv EXCEPT ![h.id] = Apply(@, field, mode)] \in [Articles -> SUBSET Fields]
    <2>1. \A fl \in SUBSET Fields : Apply(fl, field, mode) \in SUBSET Fields
      BY DEF Apply
    <2> HIDE DEF h
    <2> QED
      BY <1>0, <1>1, <2>1
  <1>3. \A i \in 1 .. Len(heads) : touched[i] \in Headline /\ touched[i].id = heads[i].id
    <2>1. \A i \in 1 .. Len(heads) : heads[i] \in Headline
      BY <1>0
    <2>0. \A i \in 1 .. Len(heads) :
             touched[i] = IF InList(pane, copy) /\ i = sel + 1
                          THEN ApplyField(heads[i], field, mode) ELSE heads[i]
      BY Zenon, TargetType
    <2> HIDE DEF touched
    <2>2. \A i \in 1 .. Len(heads) :
             touched[i] = heads[i] \/ touched[i] = ApplyField(heads[i], field, mode)
      BY <2>0
    <2> QED
      BY <2>1, <2>2, AppliedIsHeadline
  <1>4. CASE outcome = "ok"
    <2>1. /\ srv' = [srv EXCEPT ![h.id] = Apply(@, field, mode)]
          /\ heads' = Mirror(touched, h.id, field, mode)
          /\ art' = IF copy # NoArticle /\ copy.id = h.id
                    THEN ApplyField(copy, field, mode) ELSE copy
          /\ side' = IF field = "unread"
                     THEN Bump(h, IF InList(pane, copy) THEN heads'[sel + 1] ELSE art') ELSE side
          /\ counters' \in {counters, UnreadIn(Articles)'}
          /\ status' = "ok"
      BY <1>4, MutateMeaning
    <2> HIDE DEF h, touched
    <2>2. heads' \in Seq(Headline) /\ Len(heads') = Len(heads)
      BY <1>1, <2>1, MirrorType
    <2>3. \A i \in 1 .. Len(heads) : heads'[i].id = heads[i].id
      <3> TAKE i \in 1 .. Len(heads)
      <3>1. \A j \in 1 .. Len(touched) :
               Mirror(touched, h.id, field, mode)[j] =
                  IF Rows(touched, h.id) # {} /\ j = FirstRow(touched, h.id)
                  THEN ApplyField(touched[j], field, mode) ELSE touched[j]
        BY <1>1, MirrorRows
      <3>2. heads'[i] = touched[i] \/ heads'[i] = ApplyField(touched[i], field, mode)
        BY <1>1, <2>1, <3>1
      <3> QED
        BY <1>3, <3>2, AppliedIsHeadline
    <2>4. art' \in Headline \cup {NoArticle}
      BY <2>1, AppliedIsHeadline
    <2>5. side' \in [Sources -> Nat] \cup {NoItems}
      BY <1>0, <2>1, BumpType
    <2>6. counters' \in Nat
      BY <1>0, <2>1, CountType
    <2> QED
      BY <1>2, <2>1, <2>2, <2>3, <2>4, <2>5, <2>6 DEF SameRows
  <1>5. CASE outcome # "ok"
    <2>1. /\ srv' = IF outcome = "lost" THEN [srv EXCEPT ![h.id] = Apply(@, field, mode)] ELSE srv
          /\ art' = copy
          /\ status' = "error"
          /\ UNCHANGED <<heads, side, counters>>
      BY <1>5, MutateMeaning
    <2> QED
      BY <1>0, <1>2, <2>1 DEF SameRows
  <1> QED
    BY <1>4, <1>5

-----------------------------------------------------------------------------
(* Type correctness.                                                       *)

\* Nothing is shown before an entry is loaded, and the rows are of that entry.
RowsBelong ==
    /\ cur = NoSource => heads = <<>> /\ art = NoArticle
    /\ cur # NoSource => \A i \in 1 .. Len(heads) : heads[i].id \in Members[cur]

Inv == TypeOK /\ RowsBelong

\* headlines_load
LEMMA ListLoaded ==
    ASSUME TypeOK, NEW f \in Sources, NEW v, NEW ok \in BOOLEAN, LoadList(f, v, ok)
    PROVE  /\ heads' \in Seq(Headline)
           /\ \A i \in 1 .. Len(heads') :
                 heads'[i].id \in Members[f] /\ heads'[i].flags = srv[heads'[i].id]
           /\ hasMore' \in BOOLEAN
           /\ sel' \in Nat
           /\ heads' # <<>> => sel' < Len(heads')
  <1>1. CASE ~ok
    <2>1. heads' = <<>> /\ hasMore' = FALSE /\ sel' = 0
      BY <1>1 DEF LoadList
    <2>2. heads' \in Seq(Headline) /\ Len(heads') = 0
      BY <2>1
    <2>3. 1 .. Len(heads') = {}
      BY <2>2
    <2> QED
      BY <2>1, <2>2, <2>3
  <1>2. CASE ok
    <2> DEFINE page == Page(f, v, 0)
               new == {i \in 1 .. Len(page) : "unread" \in page[i].flags}
    <2>1. /\ page \in Seq(Headline)
          /\ \A i \in 1 .. Len(page) : page[i].id \in Members[f] /\ page[i].flags = srv[page[i].id]
      BY PageType DEF TypeOK
    <2>2. /\ heads' = page
          /\ hasMore' = (Len(page) >= Limit)
          /\ sel' = IF new = {} THEN 0 ELSE (CHOOSE i \in new : \A j \in new : i <= j) - 1
      BY <1>2 DEF LoadList
    <2>3. new \in SUBSET Nat /\ new \subseteq 1 .. Len(page)
      <3> HIDE DEF page
      <3> QED
        BY <2>1
    <2>4. new # {} => (CHOOSE i \in new : \A j \in new : i <= j) \in new
      <3> HIDE DEF new
      <3> QED
        BY <2>3, LeastExists
    <2>5. sel' \in Nat /\ (page # <<>> => sel' < Len(page))
      <3>1. CASE new = {}
        BY <2>1, <2>2, <3>1
      <3>2. CASE new # {}
        <4>1. PICK k \in 1 .. Len(page) : sel' = k - 1
          <5> HIDE DEF new, page
          <5> QED
            BY <2>2, <2>3, <2>4, <3>2
        <4>2. Len(page) \in Nat
          BY <2>1
        <4> HIDE DEF page
        <4> QED
          BY <4>1, <4>2
      <3> QED
        BY <3>1, <3>2
    <2>6. hasMore' \in BOOLEAN
      BY <2>2
    <2> HIDE DEF page
    <2> QED
      BY <2>1, <2>2, <2>5, <2>6
  <1> QED
    BY <1>1, <1>2

LEMMA SideLoaded ==
    ASSUME NEW ok \in BOOLEAN, LoadSide(ok)
    PROVE  side' \in [Sources -> Nat] \cup {NoItems}
  BY CountsType DEF LoadSide

LEMMA AnsweredType ==
    ASSUME TypeOK, heads # <<>>
    PROVE  /\ Current \in Headline
           /\ sel + 1 \in 1 .. Len(heads)
           /\ Answered(Current.id) \in Headline
           /\ Answered(Current.id).id = Current.id
           /\ Answered(Current.id).flags = srv[Current.id]
           /\ Answered(Current.id) # NoArticle
  <1>1. heads \in Seq(Headline) /\ sel \in Nat /\ sel < Len(heads)
    BY DEF TypeOK
  <1>2. Current \in Headline /\ sel + 1 \in 1 .. Len(heads)
    BY <1>1 DEF Current
  <1>3. Current.id \in Articles /\ srv \in [Articles -> SUBSET Fields]
    BY <1>2 DEF Headline, TypeOK
  <1>4. Answered(Current.id) \in Headline
    BY <1>3 DEF Answered, Headline
  <1> QED
    BY <1>2, <1>4, NoArticleAssumption DEF Answered

\* mark_read: the article that was answered is shown, and may be marked.
LEMMA MarkReadTypes ==
    ASSUME TypeOK, heads # <<>>, NEW pane, NEW outcome,
           MarkRead(pane, Answered(Current.id), outcome)
    PROVE  /\ srv' \in [Articles -> SUBSET Fields]
           /\ heads' \in Seq(Headline)
           /\ SameRows
           /\ art' \in Headline \cup {NoArticle}
           /\ side' \in [Sources -> Nat] \cup {NoItems}
           /\ counters' \in Nat
           /\ status' \in {"ok", "error"}
  <1>1. Answered(Current.id) \in Headline
    BY AnsweredType
  <1>2. CASE "unread" \in Current.flags
    <2>1. Mutate(pane, Answered(Current.id), "unread", "false", outcome)
      BY <1>2 DEF MarkRead
    <2> QED
      BY <1>1, <2>1, MutateTypes, FieldsAssumption
  <1>3. CASE "unread" \notin Current.flags
    BY <1>1, <1>3 DEF MarkRead, TypeOK, SameRows
  <1> QED
    BY <1>2, <1>3

\* A change to one headline keeps the invariant.
LEMMA ChangeInv ==
    ASSUME Inv, cur # NoSource,
           srv' \in [Articles -> SUBSET Fields], heads' \in Seq(Headline), SameRows,
           art' \in Headline \cup {NoArticle}, side' \in [Sources -> Nat] \cup {NoItems},
           counters' \in Nat, status' \in {"ok", "error"},
           UNCHANGED <<hasMore, sel, cur, view>>, focus' \in {"feeds", "headlines", "article"}
    PROVE  Inv'
  <1>1. heads # <<>> => sel < Len(heads)
    BY DEF Inv, TypeOK
  <1>2. heads' # <<>> => heads # <<>>
    BY DEF SameRows, Inv, TypeOK
  <1>3. TypeOK'
    BY <1>1, <1>2 DEF Inv, TypeOK, SameRows
  <1>4. RowsBelong'
    BY DEF Inv, RowsBelong, SameRows
  <1> QED
    BY <1>3, <1>4 DEF Inv

LEMMA HeadlineKeyInv == ASSUME Inv, HeadlineKey PROVE Inv'
  <1>0. TypeOK /\ RowsBelong
    BY DEF Inv
  <1>1. CASE ToggleNothing
    BY <1>0, <1>1 DEF ToggleNothing, TypeOK, RowsBelong, Inv
  <1>2. ASSUME NEW field \in Fields, NEW o \in Outcomes, ToggleInList(field, o) PROVE Inv'
    <2>1. cur # NoSource /\ art \in Headline \cup {NoArticle} /\ focus' \in {"feeds", "headlines", "article"}
      BY <1>0, <1>2 DEF ToggleInList, RowsBelong, TypeOK
    <2> QED
      BY <1>0, <1>2, <2>1, MutateTypes, ChangeInv DEF ToggleInList
  <1>3. ASSUME NEW field \in Fields, NEW o \in Outcomes, ToggleInArticle(field, o) PROVE Inv'
    <2>1. cur # NoSource /\ art \in Headline \cup {NoArticle} /\ focus' \in {"feeds", "headlines", "article"}
      BY <1>0, <1>3 DEF ToggleInArticle, RowsBelong, TypeOK
    <2>2. ~InList("article", art)
      BY <1>3 DEF ToggleInArticle, InList
    <2> QED
      BY <1>0, <1>3, <2>1, <2>2, MutateTypes, ChangeInv DEF ToggleInArticle
  <1>4. ASSUME NEW o \in Outcomes, OpenArticle(o) \/ PeekArticle(o) PROVE Inv'
    <2>1. /\ heads # <<>> /\ cur # NoSource
          /\ focus' \in {"feeds", "headlines", "article"}
          /\ UNCHANGED <<hasMore, sel, cur, view>>
          /\ \E pane \in {"article", "headlines"} : MarkRead(pane, Answered(Current.id), o)
      BY <1>0, <1>4 DEF OpenArticle, PeekArticle, RowsBelong, TypeOK
    <2> QED
      BY <1>0, <2>1, MarkReadTypes, ChangeInv
  <1>5. CASE OpenFails
    <2>1. cur # NoSource
      BY <1>0, <1>5 DEF OpenFails, RowsBelong
    <2> QED
      BY <1>0, <1>5, <2>1 DEF OpenFails, ArticleFails, TypeOK, RowsBelong, Inv
  <1> QED
    BY <1>1, <1>2, <1>3, <1>4, <1>5 DEF HeadlineKey

LEMMA ReloadInv ==
    ASSUME Inv, NEW f \in Sources, NEW v \in Views, NEW ok \in BOOLEAN, LoadList(f, v, ok),
           cur' = f, view' = v, UNCHANGED <<srv, art, counters>>,
           side' \in [Sources -> Nat] \cup {NoItems},
           focus' \in {"feeds", "headlines", "article"}, status' \in {"ok", "error"}
    PROVE  Inv'
  <1>1. /\ heads' \in Seq(Headline)
        /\ \A i \in 1 .. Len(heads') : heads'[i].id \in Members[f]
        /\ hasMore' \in BOOLEAN
        /\ sel' \in Nat
        /\ heads' # <<>> => sel' < Len(heads')
    BY ListLoaded DEF Inv
  <1>2. TypeOK'
    BY <1>1 DEF Inv, TypeOK
  <1>3. RowsBelong'
    BY <1>1, SourcesAssumption DEF RowsBelong
  <1> QED
    BY <1>2, <1>3 DEF Inv

\* Movement past the end appends a page.
LEMMA MoveInv == ASSUME Inv, Move PROVE Inv'
  <1>0. TypeOK /\ RowsBelong /\ cur # NoSource /\ heads # <<>> /\ cur \in Sources
    BY DEF Move, Inv, RowsBelong, TypeOK
  <1>1. /\ UNCHANGED <<srv, cur, view, art, side, counters, focus>>
        /\ heads \in Seq(Headline) /\ Len(heads) \in Nat
    BY <1>0 DEF Move, TypeOK
  <1> DEFINE page == Page(cur, view, Len(heads))
  <1>2. page \in Seq(Headline) /\ \A i \in 1 .. Len(page) : page[i].id \in Members[cur]
    BY <1>0, <1>1, PageType DEF TypeOK
  <1>3. CASE heads' = heads \o page /\ hasMore' = (Len(heads') - Len(heads) >= Limit)
               /\ sel' \in 0 .. Len(heads') - 1 /\ status' = "ok"
    <2> HIDE DEF page
    <2>1. heads' \in Seq(Headline) /\ \A i \in 1 .. Len(heads') : heads'[i].id \in Members[cur]
      <3>1. \A i \in 1 .. Len(heads) : heads[i].id \in Members[cur]
        BY <1>0 DEF RowsBelong
      <3> QED
        BY <1>1, <1>2, <1>3, <3>1
    <2>2. sel' \in Nat /\ sel' < Len(heads')
      BY <1>3, <2>1
    <2>3. hasMore' \in BOOLEAN
      BY <1>3
    <2>4. TypeOK'
      BY <1>0, <1>1, <1>3, <2>1, <2>2, <2>3 DEF TypeOK
    <2>5. RowsBelong'
      BY <1>0, <1>1, <2>1 DEF RowsBelong
    <2> QED
      BY <2>4, <2>5 DEF Inv
  <1>4. CASE UNCHANGED <<heads, hasMore>> /\ sel' \in 0 .. Len(heads) - 1 /\ status' \in {status, "error"}
    <2>1. sel' \in Nat /\ sel' < Len(heads)
      BY <1>1, <1>4
    <2>2. TypeOK'
      BY <1>0, <1>1, <1>4, <2>1 DEF TypeOK
    <2>3. RowsBelong'
      BY <1>0, <1>1, <1>4 DEF RowsBelong
    <2> QED
      BY <2>2, <2>3 DEF Inv
  <1> QED
    BY <1>3, <1>4 DEF Move, NextPage

LEMMA LoadKeyInv == ASSUME Inv, LoadKey PROVE Inv'
  <1>0. TypeOK /\ RowsBelong /\ side \in [Sources -> Nat] \cup {NoItems} /\ view \in Views
    BY DEF Inv, TypeOK
  <1>1. ASSUME NEW f \in Sources, NEW ok \in BOOLEAN, OpenFeed(f, ok) PROVE Inv'
    <2>1. /\ LoadList(f, view, ok) /\ cur' = f /\ UNCHANGED <<srv, view, art, side, counters>>
          /\ focus' \in {"feeds", "headlines", "article"} /\ status' \in {"ok", "error"}
      BY <1>0, <1>1 DEF OpenFeed, TypeOK
    <2> QED
      BY <1>0, <2>1, ReloadInv
  <1>2. ASSUME NEW v \in Views, NEW ok \in BOOLEAN, Reload(v, ok), view' = v,
               UNCHANGED <<srv, cur, art, counters, focus>>,
               side' \in [Sources -> Nat] \cup {NoItems}, status' = "ok"
        PROVE  Inv'
    <2>1. CASE cur = NoSource
      <3>1. UNCHANGED listVars
        BY <1>2, <2>1 DEF Reload
      <3> QED
        BY <1>0, <1>2, <3>1 DEF listVars, TypeOK, RowsBelong, Inv
    <2>2. CASE cur # NoSource
      <3>1. LoadList(cur, v, ok) /\ cur \in Sources
        BY <1>0, <1>2, <2>2 DEF Reload, TypeOK
      <3>2. focus' \in {"feeds", "headlines", "article"}
        BY <1>0, <1>2 DEF TypeOK
      <3> QED
        BY <1>2, <3>1, <3>2, ReloadInv
    <2> QED
      BY <2>1, <2>2
  <1>3. ASSUME NEW v \in Views, NEW ok \in BOOLEAN, ChangeView(v, ok) PROVE Inv'
    BY <1>0, <1>2, <1>3 DEF ChangeView
  <1>4. ASSUME NEW okSide \in BOOLEAN, NEW okList \in BOOLEAN, Refresh(okSide, okList) PROVE Inv'
    <2>1. side' \in [Sources -> Nat] \cup {NoItems}
      BY <1>4, SideLoaded DEF Refresh
    <2> QED
      BY <1>0, <1>2, <1>4, <2>1 DEF Refresh
  <1> QED
    BY <1>1, <1>3, <1>4, MoveInv DEF LoadKey

LEMMA AllReadType ==
    ASSUME TypeOK, NEW S
    PROVE  AllRead(S) \in [Articles -> SUBSET Fields]
  BY DEF AllRead, TypeOK

LEMMA ReadIsHeadline ==
    ASSUME NEW h \in Headline
    PROVE  Read(h) \in Headline /\ Read(h).id = h.id /\ Read(h).flags = h.flags \ {"unread"}
  BY DEF Headline, Read

LEMMA CatchUpInv == ASSUME Inv, CatchUpKey PROVE Inv'
  <1>0. TypeOK /\ RowsBelong /\ heads \in Seq(Headline)
    BY DEF Inv, TypeOK
  <1>1. ASSUME NEW f \in Sources \cup {NoSource}, NEW ok \in BOOLEAN, CatchUp(f, ok) PROVE Inv'
    <2>1. srv' \in [Articles -> SUBSET Fields] /\ side' \in [Sources -> Nat] \cup {NoItems}
      BY <1>0, <1>1, AllReadType, SideLoaded DEF CatchUp
    <2>2. heads' \in Seq(Headline) /\ SameRows
      <3>1. \A i \in 1 .. Len(heads) : Read(heads[i]) \in Headline /\ Read(heads[i]).id = heads[i].id
        BY <1>0, ReadIsHeadline
      <3>2. heads' = [i \in 1 .. Len(heads) |-> Read(heads[i])]
        BY <1>0, <1>1 DEF CatchUp, RowsAfterCatchUp
      <3> QED
        BY <1>0, <3>1, <3>2 DEF SameRows
    <2>3. art' \in Headline \cup {NoArticle} /\ (art = NoArticle => art' = NoArticle)
      BY <1>0, <1>1, ReadIsHeadline DEF CatchUp, TypeOK
    <2>4. UNCHANGED <<hasMore, sel, cur, view, counters, focus>> /\ status' = "ok"
      BY <1>1 DEF CatchUp
    <2>5. CASE cur = NoSource
      <3>1. heads = <<>> /\ art = NoArticle
        BY <1>0, <2>5 DEF RowsBelong
      <3>2. art' = NoArticle
        BY <2>3, <3>1
      <3>3. Len(heads') = 0
        BY <2>2, <3>1 DEF SameRows
      <3>4. heads' = <<>>
        BY <2>2, <3>3, EmptySeq
      <3> QED
        BY <1>0, <2>1, <2>2, <2>3, <2>4, <2>5, <3>2, <3>4 DEF Inv, TypeOK, RowsBelong
    <2>6. CASE cur # NoSource
      BY <1>0, <2>1, <2>2, <2>3, <2>4, <2>6, ChangeInv DEF TypeOK
    <2> QED
      BY <2>5, <2>6
  <1>2. ASSUME NEW f \in Sources \cup {NoSource}, NEW o, CatchUpFails(f, o) PROVE Inv'
    <2>1. srv' \in [Articles -> SUBSET Fields]
      BY <1>0, <1>2, AllReadType DEF CatchUpFails, TypeOK
    <2> QED
      BY <1>0, <1>2, <2>1 DEF CatchUpFails, TypeOK, RowsBelong, Inv
  <1> QED
    BY <1>1, <1>2 DEF CatchUpKey

LEMMA InitInv == Init => Inv
  <1> SUFFICES ASSUME Init PROVE Inv
    OBVIOUS
  <1>1. side \in [Sources -> Nat] \cup {NoItems} /\ counters \in Nat
    BY CountsType, CountType DEF Init
  <1>2. <<>> \in Seq(Headline)
    OBVIOUS
  <1> QED
    BY <1>1, <1>2, ViewsAssumption DEF Init, Inv, TypeOK, RowsBelong

LEMMA NextInv == Inv /\ [Next]_vars => Inv'
  <1> SUFFICES ASSUME Inv, [Next]_vars PROVE Inv'
    OBVIOUS
  <1>1. ASSUME NEW p \in {"feeds", "headlines", "article"}, MoveFocus(p) PROVE Inv'
    BY <1>1 DEF MoveFocus, Inv, TypeOK, RowsBelong
  <1>2. ASSUME NEW a \in Articles, NEW field \in Fields, OtherClient(a, field) PROVE Inv'
    <2>1. srv' \in [Articles -> SUBSET Fields]
      BY <1>2 DEF OtherClient, Apply, Inv, TypeOK
    <2> QED
      BY <1>2, <2>1 DEF OtherClient, Inv, TypeOK, RowsBelong
  <1>3. CASE UNCHANGED vars
    BY <1>3 DEF vars, Inv, TypeOK, RowsBelong
  <1> QED
    BY <1>1, <1>2, <1>3, HeadlineKeyInv, LoadKeyInv, CatchUpInv DEF Next

LEMMA Invariance == Spec => []Inv
  BY InitInv, NextInv, PTL DEF Spec

\* Every copy has its type, the counts never fall below zero, and the
\* selection is a row of the list, whatever the key, its outcome and another
\* client do: the types of mutate, the loads, paging and catch-up.
THEOREM TypeCorrect == Spec => []TypeOK
  <1>1. Inv => TypeOK
    BY DEF Inv
  <1> QED
    BY <1>1, Invariance, PTL

-----------------------------------------------------------------------------
(* Opening an article.                                                     *)

\* mark_read clears the flag of one article, or changes nothing.
LEMMA MarkReadClears ==
    ASSUME TypeOK, heads # <<>>, NEW pane, NEW o, MarkRead(pane, Answered(Current.id), o)
    PROVE  \A a \in Articles : srv'[a] = srv[a] \/ srv'[a] = srv[a] \ {"unread"}
  <1> DEFINE h == Target(pane, Answered(Current.id))
  <1>1. CASE "unread" \notin Current.flags
    BY <1>1 DEF MarkRead
  <1>2. CASE "unread" \in Current.flags
    <2>1. Mutate(pane, Answered(Current.id), "unread", "false", o)
      BY <1>2 DEF MarkRead
    <2>2. srv' = srv \/ srv' = [srv EXCEPT ![h.id] = Apply(@, "unread", "false")]
      BY <2>1, MutateMeaning
    <2>3. \A flags : Apply(flags, "unread", "false") = flags \ {"unread"}
      BY DEF Apply
    <2> HIDE DEF h
    <2> QED
      BY <2>2, <2>3 DEF TypeOK
  <1> QED
    BY <1>1, <1>2

\* Opening an article or peeking at it never makes an article unread on the
\* server, whatever the age of the row: mark_read sets, it does not toggle.
THEOREM OpeningKeepsRead == Spec => OpeningNeverMarksUnread
  <1>1. ASSUME Inv, NEW o \in Outcomes, OpenArticle(o) \/ PeekArticle(o), NEW a \in Articles,
               "unread" \in srv'[a]
        PROVE  "unread" \in srv[a]
    <2>1. /\ TypeOK /\ heads # <<>>
          /\ \E pane \in {"article", "headlines"} : MarkRead(pane, Answered(Current.id), o)
      BY <1>1 DEF OpenArticle, PeekArticle, Inv
    <2> QED
      BY <1>1, <2>1, MarkReadClears
  <1> DEFINE Keeps == \/ \A a \in Articles : "unread" \in srv'[a] => "unread" \in srv[a]
                      \/ ~ \E o \in Outcomes : OpenArticle(o) \/ PeekArticle(o)
  <1>2. Inv /\ [Next]_vars => [Keeps]_vars
    BY <1>1
  <1>3. OpeningNeverMarksUnread <=> [][Keeps]_vars
    BY DEF OpeningNeverMarksUnread
  <1> HIDE DEF Keeps
  <1> QED
    BY <1>2, <1>3, Invariance, PTL DEF Spec

-----------------------------------------------------------------------------
(* The display.                                                            *)

LEMMA SameIds ==
    ASSUME NEW l, NEW m, Len(l) = Len(m), \A i \in 1 .. Len(l) : l[i].id = m[i].id, NEW a
    PROVE  Rows(l, a) = Rows(m, a) /\ FirstRow(l, a) = FirstRow(m, a)
  <1>1. Rows(l, a) = Rows(m, a)
    BY DEF Rows
  <1> QED
    BY <1>1 DEF FirstRow

\* mutate moves the rows, the open article and the server together, unless
\* a toggle reaches its row twice.
LEMMA MutateAgrees ==
    ASSUME TypeOK, NEW pane, NEW copy \in Headline \cup {NoArticle}, NEW field \in Fields,
           NEW mode \in {"toggle", "false"}, NEW o \in {"ok", "fails"},
           heads # <<>> \/ ~InList(pane, copy), Mutate(pane, copy, field, mode, o),
           mode = "toggle" /\ o = "ok" => ~InList(pane, copy),
           NEW a \in Articles, RowAgrees(a),
           copy # NoArticle => (copy.id = a => copy.flags = srv[a])
    PROVE  Agrees(a)'
  <1> DEFINE h == Target(pane, copy)
             touched == Touched(pane, copy, field, mode)
             r == FirstRow(heads, a)
  <1>0. srv \in [Articles -> SUBSET Fields] /\ heads \in Seq(Headline)
    BY DEF TypeOK
  <1>1. CASE o = "fails"
    <2>1. srv' = srv /\ art' = copy /\ heads' = heads
      BY <1>1, MutateMeaning
    <2> QED
      BY <2>1 DEF Agrees, RowAgrees, ArticleAgrees
  <1>2. CASE o = "ok"
    <2>1. /\ srv' = [srv EXCEPT ![h.id] = Apply(@, field, mode)]
          /\ heads' = Mirror(touched, h.id, field, mode)
          /\ art' = IF copy # NoArticle /\ copy.id = h.id
                    THEN ApplyField(copy, field, mode) ELSE copy
      BY <1>2, MutateMeaning
    <2>2. srv'[a] = IF a = h.id THEN Apply(srv[a], field, mode) ELSE srv[a]
      <3> HIDE DEF h, touched
      <3> QED
        BY <1>0, <2>1
    <2>3. ArticleAgrees(a)'
      <3> HIDE DEF h, touched
      <3> QED
        BY <2>1, <2>2, AppliedIsHeadline DEF ArticleAgrees
    <2>4. /\ touched \in Seq(Headline) /\ Len(touched) = Len(heads)
          /\ h \in Headline
          /\ InList(pane, copy) => h = heads[sel + 1]
          /\ \A i \in 1 .. Len(heads) :
                touched[i] = IF InList(pane, copy) /\ i = sel + 1
                             THEN ApplyField(heads[i], field, mode) ELSE heads[i]
      BY TargetType DEF Target, Current
    <2>5. \A i \in 1 .. Len(heads) :
             /\ heads[i] \in Headline /\ touched[i] \in Headline
             /\ touched[i].id = heads[i].id
      <3> HIDE DEF touched, h
      <3>1. \A i \in 1 .. Len(heads) : heads[i] \in Headline
        BY <1>0
      <3> QED
        BY <2>4, <3>1, AppliedIsHeadline
    <2>6. Rows(touched, h.id) = Rows(heads, h.id) /\ FirstRow(touched, h.id) = FirstRow(heads, h.id)
      <3> HIDE DEF touched, h
      <3> QED
        BY <2>4, <2>5, SameIds
    <2>7. \A i \in 1 .. Len(heads) :
             heads'[i] = IF Rows(heads, h.id) # {} /\ i = FirstRow(heads, h.id)
                         THEN ApplyField(touched[i], field, mode) ELSE touched[i]
      <3> HIDE DEF touched, h
      <3>1. \A i \in 1 .. Len(touched) :
               Mirror(touched, h.id, field, mode)[i] =
                  IF Rows(touched, h.id) # {} /\ i = FirstRow(touched, h.id)
                  THEN ApplyField(touched[i], field, mode) ELSE touched[i]
        BY <2>4, MirrorRows
      <3> QED
        BY <2>1, <2>4, <2>6, <3>1
    <2>8. Rows(heads', a) = Rows(heads, a) /\ FirstRow(heads', a) = r
      <3>1. SameRows
        BY MutateTypes
      <3> QED
        BY <3>1, SameIds DEF SameRows
    <2>9. ASSUME Rows(heads, a) # {} PROVE heads'[r].flags = srv'[a]
      <3>1. r \in 1 .. Len(heads) /\ heads[r].id = a /\ heads[r].flags = srv[a]
        BY <1>0, <2>9, FirstRowIsRow DEF Rows, RowAgrees
      <3> HIDE DEF touched, h, r
      <3>2. CASE a # h.id
        <4>1. touched[r] = heads[r]
          BY <2>4, <3>1, <3>2
        <4>2. Rows(heads, h.id) # {} => FirstRow(heads, h.id) # r
          <5>1. Rows(heads, h.id) # {} => heads[FirstRow(heads, h.id)].id = h.id
            BY <1>0, FirstRowIsRow DEF Rows
          <5> QED
            BY <3>1, <3>2, <5>1
        <4> QED
          BY <2>2, <2>7, <3>1, <3>2, <4>1, <4>2
      <3>3. CASE a = h.id
        <4>1. heads'[r] = ApplyField(touched[r], field, mode)
          BY <2>7, <2>9, <3>1, <3>3 DEF r
        <4>2. heads'[r].flags = Apply(touched[r].flags, field, mode)
          BY <2>5, <3>1, <4>1, AppliedIsHeadline
        <4>3. CASE ~InList(pane, copy)
          BY <2>2, <2>4, <3>1, <3>3, <4>2, <4>3
        <4>4. CASE mode = "false"
          <5>1. touched[r].flags = srv[a] \/ touched[r].flags = Apply(srv[a], field, mode)
            BY <2>4, <2>5, <3>1, AppliedIsHeadline
          <5> QED
            BY <2>2, <3>3, <4>2, <4>4, <5>1 DEF Apply
        <4> QED
          BY <1>2, <4>3, <4>4
      <3> QED
        BY <3>2, <3>3
    <2> HIDE DEF r
    <2>10. RowAgrees(a)'
      BY <2>8, <2>9 DEF RowAgrees
    <2> QED
      BY <2>3, <2>10 DEF Agrees
  <1> QED
    BY <1>1, <1>2

LEMMA HeadlineKeyAgrees ==
    ASSUME Inv, HeadlineKey, ~AnswerLost, ~ToggledInList, NEW a \in Articles, Agrees(a)
    PROVE  Agrees(a)'
  <1>0. TypeOK /\ RowAgrees(a) /\ ArticleAgrees(a) /\ art \in Headline \cup {NoArticle}
    BY DEF Inv, Agrees, TypeOK
  <1>1. CASE ToggleNothing
    BY <1>0, <1>1 DEF ToggleNothing, Agrees, RowAgrees, ArticleAgrees
  <1>2. ASSUME NEW field \in Fields, NEW o \in Outcomes, ToggleInList(field, o) PROVE Agrees(a)'
    <2>1. o = "fails"
      BY <1>2 DEF AnswerLost, ToggledInList, Outcomes
    <2> QED
      BY <1>0, <1>2, <2>1, MutateAgrees DEF ToggleInList, ArticleAgrees
  <1>3. ASSUME NEW field \in Fields, NEW o \in Outcomes, ToggleInArticle(field, o) PROVE Agrees(a)'
    <2>1. o \in {"ok", "fails"}
      BY <1>3 DEF AnswerLost, Outcomes
    <2>2. ~InList("article", art)
      BY <1>3 DEF ToggleInArticle, InList
    <2> QED
      BY <1>0, <1>3, <2>1, <2>2, MutateAgrees DEF ToggleInArticle, ArticleAgrees
  <1>4. ASSUME NEW o \in Outcomes, OpenArticle(o) \/ PeekArticle(o) PROVE Agrees(a)'
    <2>1. o \in {"ok", "fails"}
      BY <1>4 DEF AnswerLost, Outcomes
    <2>2. /\ heads # <<>>
          /\ \E pane \in {"article", "headlines"} : MarkRead(pane, Answered(Current.id), o)
      BY <1>4 DEF OpenArticle, PeekArticle
    <2>3. PICK pane \in {"article", "headlines"} : MarkRead(pane, Answered(Current.id), o)
      BY <2>2
    <2>4. /\ Answered(Current.id) \in Headline
          /\ Answered(Current.id).id = a => Answered(Current.id).flags = srv[a]
      BY <1>0, <2>2, AnsweredType
    <2>5. CASE "unread" \in Current.flags
      <3>1. Mutate(pane, Answered(Current.id), "unread", "false", o)
        BY <2>3, <2>5 DEF MarkRead
      <3> QED
        BY <1>0, <2>1, <2>2, <2>4, <3>1, MutateAgrees, FieldsAssumption
    <2>6. CASE "unread" \notin Current.flags
      <3>1. art' = Answered(Current.id) /\ UNCHANGED <<srv, heads>>
        BY <2>3, <2>6 DEF MarkRead
      <3> QED
        BY <1>0, <2>4, <3>1 DEF Agrees, RowAgrees, ArticleAgrees
    <2> QED
      BY <2>5, <2>6
  <1>5. CASE OpenFails
    BY <1>0, <1>5 DEF OpenFails, ArticleFails, Agrees, RowAgrees, ArticleAgrees
  <1> QED
    BY <1>1, <1>2, <1>3, <1>4, <1>5 DEF HeadlineKey

\* Rows that have just been read agree.
LEMMA LoadedAgrees ==
    ASSUME heads' \in Seq(Headline), \A i \in 1 .. Len(heads') : heads'[i].flags = srv[heads'[i].id],
           UNCHANGED <<srv, art>>, NEW a \in Articles, Agrees(a)
    PROVE  Agrees(a)'
  <1>1. ASSUME Rows(heads', a) # {} PROVE heads'[FirstRow(heads', a)].flags = srv[a]
    <2>1. FirstRow(heads', a) \in Rows(heads', a)
      BY <1>1, FirstRowIsRow
    <2> QED
      BY <2>1 DEF Rows
  <1> QED
    BY <1>1 DEF Agrees, RowAgrees, ArticleAgrees

\* A page that is appended leaves the first row of an article where it is.
LEMMA MoveAgrees == ASSUME Inv, Move, NEW a \in Articles, Agrees(a) PROVE Agrees(a)'
  <1>0. TypeOK /\ cur \in Sources /\ heads \in Seq(Headline) /\ RowAgrees(a)
    BY DEF Move, Inv, RowsBelong, TypeOK, Agrees
  <1>1. UNCHANGED <<srv, art>>
    BY DEF Move
  <1> DEFINE page == Page(cur, view, Len(heads))
  <1>2. page \in Seq(Headline) /\ \A i \in 1 .. Len(page) : page[i].flags = srv[page[i].id]
    BY <1>0, PageType DEF TypeOK
  <1>3. CASE heads' = heads
    BY <1>1, <1>3 DEF Agrees, RowAgrees, ArticleAgrees
  <1>4. CASE heads' = heads \o page
    <2> HIDE DEF page
    <2>1. /\ heads' \in Seq(Headline) /\ Len(heads) \in Nat /\ Len(heads) <= Len(heads')
          /\ \A i \in 1 .. Len(heads) : heads'[i] = heads[i]
          /\ \A i \in 1 .. Len(heads') :
                i \notin 1 .. Len(heads) => heads'[i].flags = srv[heads'[i].id]
      <3>1. page \in Seq(Headline) /\ heads \in Seq(Headline)
        BY <1>0, <1>2
      <3>2. heads \o page \in Seq(Headline) /\ Len(heads) \in Nat /\ Len(page) \in Nat
            /\ Len(heads \o page) = Len(heads) + Len(page)
        BY <3>1
      <3>3. ASSUME NEW i \in 1 .. Len(heads) PROVE heads'[i] = heads[i]
        <4>1. (heads \o page)[i] = heads[i]
          BY <3>1, <3>2
        <4> QED
          BY <1>4, <4>1
      <3>4. ASSUME NEW i \in 1 .. Len(heads'), i \notin 1 .. Len(heads)
            PROVE  heads'[i].flags = srv[heads'[i].id]
        <4>1. i \in 1 .. (Len(heads) + Len(page))
          BY <1>4, <3>2
        <4>2. i - Len(heads) \in 1 .. Len(page) /\ i > Len(heads)
          BY <3>2, <3>4, <4>1
        <4>3. (heads \o page)[i] = page[i - Len(heads)]
          BY <3>1, <3>2, <4>1, <4>2
        <4> QED
          BY <1>2, <1>4, <4>2, <4>3
      <3> QED
        BY <1>4, <3>2, <3>3, <3>4
    <2>2. ASSUME Rows(heads', a) # {} PROVE heads'[FirstRow(heads', a)].flags = srv[a]
      <3> DEFINE r == FirstRow(heads', a)
      <3>1. r \in 1 .. Len(heads') /\ heads'[r].id = a /\ \A j \in Rows(heads', a) : r <= j
        BY <2>1, <2>2, FirstRowIsRow DEF Rows
      <3> HIDE DEF r
      <3>2. CASE r \notin 1 .. Len(heads)
        BY <2>1, <3>1, <3>2 DEF r
      <3>3. CASE r \in 1 .. Len(heads)
        <4>1. r \in Rows(heads, a)
          BY <2>1, <3>1, <3>3 DEF Rows
        <4>2. FirstRow(heads, a) \in Rows(heads, a) /\ FirstRow(heads, a) <= r
          BY <1>0, <4>1, FirstRowIsRow
        <4>3. FirstRow(heads, a) \in Rows(heads', a)
          BY <2>1, <4>2 DEF Rows
        <4>4. r <= FirstRow(heads, a) /\ r \in Nat /\ FirstRow(heads, a) \in Nat
          BY <3>1, <3>3, <4>2, <4>3 DEF Rows
        <4>5. r = FirstRow(heads, a)
          BY <4>2, <4>4
        <4>6. heads[FirstRow(heads, a)].flags = srv[a]
          BY <1>0, <4>1 DEF RowAgrees
        <4> QED
          BY <2>1, <3>3, <4>5, <4>6 DEF r
      <3> QED
        BY <3>2, <3>3
    <2> QED
      BY <1>1, <2>2 DEF Agrees, RowAgrees, ArticleAgrees
  <1> QED
    BY <1>3, <1>4 DEF Move, NextPage

LEMMA LoadKeyAgrees == ASSUME Inv, LoadKey, NEW a \in Articles, Agrees(a) PROVE Agrees(a)'
  <1>0. TypeOK /\ cur \in Sources \cup {NoSource}
    BY DEF Inv, TypeOK
  <1>1. ASSUME NEW f \in Sources, NEW v, NEW ok \in BOOLEAN, LoadList(f, v, ok), UNCHANGED <<srv, art>>
        PROVE  Agrees(a)'
    BY <1>0, <1>1, ListLoaded, LoadedAgrees
  <1>2. ASSUME NEW v, NEW ok \in BOOLEAN, Reload(v, ok), UNCHANGED <<srv, art>>
        PROVE  Agrees(a)'
    <2>1. CASE cur = NoSource
      BY <1>2, <2>1 DEF Reload, listVars, Agrees, RowAgrees, ArticleAgrees
    <2>2. CASE cur # NoSource
      BY <1>0, <1>1, <1>2, <2>2 DEF Reload
    <2> QED
      BY <2>1, <2>2
  <1>3. ASSUME NEW f \in Sources, NEW ok \in BOOLEAN, OpenFeed(f, ok) PROVE Agrees(a)'
    BY <1>1, <1>3 DEF OpenFeed
  <1>4. ASSUME NEW v \in Views, NEW ok \in BOOLEAN, ChangeView(v, ok) PROVE Agrees(a)'
    BY <1>2, <1>4 DEF ChangeView
  <1>5. ASSUME NEW okSide \in BOOLEAN, NEW okList \in BOOLEAN, Refresh(okSide, okList) PROVE Agrees(a)'
    BY <1>2, <1>5 DEF Refresh
  <1> QED
    BY <1>3, <1>4, <1>5, MoveAgrees DEF LoadKey

\* A catch-up marks all rows and, on the server, those of its entry.
LEMMA CatchUpAgrees ==
    ASSUME Inv, CatchUpKey, ~AnswerLost, ~CaughtUpElsewhere, NEW a \in Articles, Agrees(a)
    PROVE  Agrees(a)'
  <1>0. TypeOK /\ RowsBelong /\ heads \in Seq(Headline) /\ RowAgrees(a) /\ ArticleAgrees(a)
    BY DEF Inv, TypeOK, Agrees
  <1>1. ASSUME NEW f \in Sources \cup {NoSource}, NEW ok \in BOOLEAN, CatchUp(f, ok) PROVE Agrees(a)'
    <2>1. /\ heads' = [i \in 1 .. Len(heads) |-> Read(heads[i])]
          /\ art' = IF art = NoArticle THEN art ELSE Read(art)
          /\ srv'[a] = IF a \in CatchUpScope(f) THEN srv[a] \ {"unread"} ELSE srv[a]
      BY <1>0, <1>1 DEF CatchUp, RowsAfterCatchUp, AllRead
    <2>2. \A i \in 1 .. Len(heads) : Read(heads[i]).id = heads[i].id
                                     /\ Read(heads[i]).flags = heads[i].flags \ {"unread"}
      BY <1>0, ReadIsHeadline
    <2>3. art # NoArticle => Read(art).id = art.id /\ Read(art).flags = art.flags \ {"unread"}
                             /\ Read(art) # NoArticle
      BY <1>0, ReadIsHeadline, NoArticleAssumption DEF TypeOK
    <2>4. Rows(heads', a) = Rows(heads, a) /\ FirstRow(heads', a) = FirstRow(heads, a)
      <3>1. Len(heads') = Len(heads) /\ \A i \in 1 .. Len(heads) : heads'[i].id = heads[i].id
        BY <1>0, <2>1, <2>2
      <3> QED
        BY <3>1, SameIds
    <2>5. a \in CatchUpScope(f) \/ (Rows(heads, a) = {} /\ (art # NoArticle => art.id # a))
      <3>1. CASE f = NoSource
        <4>1. cur = NoSource
          BY <1>0, <1>1, <3>1, SourcesAssumption DEF CatchUp, CatchUpTarget, TypeOK, NoItems
        <4> QED
          BY <1>0, <4>1 DEF RowsBelong, Rows
      <3>2. CASE f \in Sources
        <4>1. f # NoSource
          BY <3>2, SourcesAssumption
        <4> QED
          BY <1>1, <3>2, <4>1 DEF CaughtUpElsewhere, CatchUpScope
      <3> QED
        BY <3>1, <3>2
    <2>6. RowAgrees(a)'
      <3>1. ASSUME Rows(heads, a) # {} PROVE heads'[FirstRow(heads, a)].flags = srv'[a]
        <4>1. FirstRow(heads, a) \in 1 .. Len(heads) /\ heads[FirstRow(heads, a)].flags = srv[a]
          BY <1>0, <3>1, FirstRowIsRow DEF Rows, RowAgrees
        <4> QED
          BY <2>1, <2>2, <2>5, <3>1, <4>1
      <3> QED
        BY <2>4, <3>1 DEF RowAgrees
    <2>7. ArticleAgrees(a)'
      BY <1>0, <2>1, <2>3, <2>5 DEF ArticleAgrees
    <2> QED
      BY <2>6, <2>7 DEF Agrees
  <1>2. ASSUME NEW f \in Sources \cup {NoSource}, NEW o \in {"fails", "lost"}, CatchUpFails(f, o)
        PROVE  Agrees(a)'
    <2>1. o = "fails"
      BY <1>2 DEF AnswerLost
    <2> QED
      BY <1>2, <2>1 DEF CatchUpFails, Agrees, RowAgrees, ArticleAgrees
  <1> QED
    BY <1>1, <1>2 DEF CatchUpKey

\* An article that is shown as the server holds it is so after any key, with
\* the exceptions the property names: the row, the open article and the server
\* move together through mutate, mark_read, the loads, paging and catch-up.
THEOREM DisplayAlwaysExact == Spec => DisplayStaysExact
  <1> DEFINE Exact == \/ \A a \in Articles : Agrees(a) => Agrees(a)'
                      \/ Changed \/ AnswerLost \/ ToggledInList \/ CaughtUpElsewhere
  <1>1. ASSUME Inv, [Next]_vars, ~Changed, ~AnswerLost, ~ToggledInList, ~CaughtUpElsewhere,
               NEW a \in Articles, Agrees(a)
        PROVE  Agrees(a)'
    <2>1. CASE UNCHANGED <<srv, heads, art>>
      BY <1>1, <2>1 DEF Agrees, RowAgrees, ArticleAgrees
    <2>2. CASE HeadlineKey
      BY <1>1, <2>2, HeadlineKeyAgrees
    <2>3. CASE LoadKey
      BY <1>1, <2>3, LoadKeyAgrees
    <2>4. CASE CatchUpKey
      BY <1>1, <2>4, CatchUpAgrees
    <2>5. ASSUME NEW p, MoveFocus(p) PROVE UNCHANGED <<srv, heads, art>>
      BY <2>5 DEF MoveFocus
    <2> QED
      BY <1>1, <2>1, <2>2, <2>3, <2>4, <2>5 DEF Next, Changed, vars
  <1>2. Inv /\ [Next]_vars => [Exact]_vars
    BY <1>1
  <1>3. DisplayStaysExact <=> [][Exact]_vars
    BY DEF DisplayStaysExact
  <1> HIDE DEF Exact
  <1> QED
    BY <1>2, <1>3, Invariance, PTL DEF Spec
-----------------------------------------------------------------------------
(* The count of the loaded entry.                                          *)

\* The articles that make up an entry's count, before and after a step.
Unread(f) == {a \in Held(f) : "unread" \in srv[a]}
UnreadThen(f) == {a \in Members[f] : srv'[a] \in Selects[f] /\ "unread" \in srv'[a]}

LEMMA CountsAre ==
    ASSUME NEW CONSTANT f \in Sources
    PROVE  /\ UnreadIn(Held(f)) = Cardinality(Unread(f))
           /\ UnreadIn(Held(f))' = Cardinality(UnreadThen(f))
           /\ IsFiniteSet(Unread(f)) /\ IsFiniteSet(UnreadThen(f))
           /\ Cardinality(Unread(f)) \in Nat /\ Cardinality(UnreadThen(f)) \in Nat
  <1>1. Unread(f) \in SUBSET Articles /\ UnreadThen(f) \in SUBSET Articles
    BY MembersAssumption DEF Unread, UnreadThen, Held
  <1>2. {a \in {b \in Members[f] : srv'[b] \in Selects[f]} : "unread" \in srv'[a]} = UnreadThen(f)
    BY DEF UnreadThen
  <1>3. UnreadIn(Held(f)) = Cardinality(Unread(f)) /\ UnreadIn(Held(f))' = Cardinality(UnreadThen(f))
    BY <1>2 DEF UnreadIn, Held, Unread
  <1> QED
    BY <1>1, <1>3, ArticlesAssumption, FS_Subset, FS_CardinalityType

\* One article that enters or leaves a count moves it by one.
LEMMA UnreadMoves ==
    ASSUME NEW CONSTANT f \in Sources, NEW x \in Members[f],
           \A a \in Members[f] : a # x => srv'[a] = srv[a]
    PROVE  LET is == x \in Unread(f)
               then == x \in UnreadThen(f)
           IN  /\ (is <=> then) => Cardinality(UnreadThen(f)) = Cardinality(Unread(f))
               /\ then /\ ~is => Cardinality(UnreadThen(f)) = Cardinality(Unread(f)) + 1
               /\ is /\ ~then => /\ Cardinality(UnreadThen(f)) = Cardinality(Unread(f)) - 1
                                 /\ Cardinality(Unread(f)) > 0
  <1> DEFINE U == Unread(f)
             V == UnreadThen(f)
  <1>1. IsFiniteSet(U) /\ IsFiniteSet(V) /\ Cardinality(U) \in Nat /\ Cardinality(V) \in Nat
    BY CountsAre
  <1>2. \A a : a # x => (a \in V <=> a \in U)
    BY DEF Unread, UnreadThen, Held
  <1> HIDE DEF U, V
  <1>3. ASSUME x \in U <=> x \in V PROVE V = U
    BY <1>2, <1>3
  <1>4. ASSUME x \in V, x \notin U PROVE Cardinality(V) = Cardinality(U) + 1
    <2>1. V = U \cup {x}
      BY <1>2, <1>4
    <2> QED
      BY <1>1, <1>4, <2>1, FS_AddElement
  <1>5. ASSUME x \in U, x \notin V PROVE Cardinality(V) = Cardinality(U) - 1 /\ Cardinality(U) > 0
    <2>1. U = V \cup {x}
      BY <1>2, <1>5
    <2>2. Cardinality(U) = Cardinality(V) + 1
      BY <1>1, <1>5, <2>1, FS_AddElement
    <2> QED
      BY <1>1, <2>2
  <1> QED
    BY <1>3, <1>4, <1>5 DEF U, V

\* What bump_sidebar_unread makes of the loaded entry's count, if it finds it.
LEMMA BumpMeaning ==
    ASSUME side \in [Sources -> Nat], cur \in Sources, FirstWithId(cur) = cur, NEW before, NEW after
    PROVE  Bump(before, after)[cur] =
              IF "unread" \in before.flags <=> "unread" \in after.flags THEN side[cur]
              ELSE IF "unread" \in after.flags THEN side[cur] + 1
              ELSE IF side[cur] > 0 THEN side[cur] - 1 ELSE 0
  <1>1. CASE "unread" \in before.flags <=> "unread" \in after.flags
    BY <1>1 DEF Bump
  <1>2. CASE ~("unread" \in before.flags <=> "unread" \in after.flags)
    <2> DEFINE n == IF "unread" \in after.flags THEN side[cur] + 1
                    ELSE IF side[cur] > 0 THEN side[cur] - 1 ELSE 0
    <2>1. Bump(before, after) = [side EXCEPT ![cur] = n]
      BY <1>2 DEF Bump
    <2> HIDE DEF n
    <2>2. Bump(before, after)[cur] = n
      BY <2>1
    <2> QED
      BY <1>2, <2>2 DEF n
  <1> QED
    BY <1>1, <1>2

\* What mutate compares with the headline as it was says what the server has
\* now, unless a toggle reaches its row twice.
LEMMA MutateAfter ==
    ASSUME TypeOK, NEW pane, NEW copy \in Headline \cup {NoArticle}, NEW mode \in {"toggle", "false"},
           heads # <<>> \/ ~InList(pane, copy), Mutate(pane, copy, "unread", mode, "ok"),
           mode = "toggle" => ~InList(pane, copy)
    PROVE  LET after == IF InList(pane, copy) THEN heads'[sel + 1] ELSE art'
           IN  "unread" \in after.flags <=> "unread" \in Apply(Target(pane, copy).flags, "unread", mode)
  <1> DEFINE h == Target(pane, copy)
             touched == Touched(pane, copy, "unread", mode)
  <1>1. /\ heads' = Mirror(touched, h.id, "unread", mode)
        /\ art' = IF copy # NoArticle /\ copy.id = h.id
                  THEN ApplyField(copy, "unread", mode) ELSE copy
    BY MutateMeaning
  <1>2. CASE InList(pane, copy)
    <2>1. mode = "false"
      BY <1>2
    <2>2. /\ touched \in Seq(Headline) /\ Len(touched) = Len(heads)
          /\ sel + 1 \in 1 .. Len(heads)
          /\ heads[sel + 1] \in Headline
          /\ touched[sel + 1] = ApplyField(heads[sel + 1], "unread", mode)
      BY <1>2, TargetType, FieldsAssumption DEF Target, Current
    <2> HIDE DEF h, touched
    <2>3. touched[sel + 1] \in Headline /\ "unread" \notin touched[sel + 1].flags
      <3>1. /\ ApplyField(heads[sel + 1], "unread", mode) \in Headline
            /\ ApplyField(heads[sel + 1], "unread", mode).flags =
                  Apply(heads[sel + 1].flags, "unread", mode)
        BY <2>2, AppliedIsHeadline, FieldsAssumption
      <3> QED
        BY <2>1, <2>2, <3>1 DEF Apply
    <2>4. heads'[sel + 1] = touched[sel + 1] \/ heads'[sel + 1] = ApplyField(touched[sel + 1], "unread", mode)
      <3>1. \A i \in 1 .. Len(touched) :
               Mirror(touched, h.id, "unread", mode)[i] =
                  IF Rows(touched, h.id) # {} /\ i = FirstRow(touched, h.id)
                  THEN ApplyField(touched[i], "unread", mode) ELSE touched[i]
        BY <2>2, MirrorRows, FieldsAssumption
      <3>2. sel + 1 \in 1 .. Len(touched)
        BY <2>2
      <3> QED
        BY <1>1, <3>1, <3>2
    <2>5. "unread" \notin heads'[sel + 1].flags
      <3>1. ApplyField(touched[sel + 1], "unread", mode).flags =
               Apply(touched[sel + 1].flags, "unread", mode)
        BY <2>3, AppliedIsHeadline, FieldsAssumption
      <3>2. "unread" \notin Apply(touched[sel + 1].flags, "unread", mode)
        BY <2>1 DEF Apply
      <3> QED
        BY <2>3, <2>4, <3>1, <3>2
    <2> QED
      BY <1>2, <2>1, <2>5 DEF Apply
  <1>3. CASE ~InList(pane, copy)
    <2>1. h = copy /\ copy \in Headline /\ copy # NoArticle
      BY <1>3 DEF Target, InList
    <2> HIDE DEF h, touched
    <2>2. art' = ApplyField(copy, "unread", mode)
      BY <1>1, <2>1
    <2>3. art'.flags = Apply(copy.flags, "unread", mode)
      BY <2>1, <2>2, AppliedIsHeadline, FieldsAssumption
    <2> QED
      BY <1>3, <2>1, <2>3 DEF h
  <1> QED
    BY <1>2, <1>3

\* What mutate does to an article that counts in the loaded entry.
LEMMA TargetCounts ==
    ASSUME TypeOK, cur \in Sources, NEW x \in Articles, CountsUnread(x), NEW field \in Fields,
           NEW mode, srv' = [srv EXCEPT ![x] = Apply(@, field, mode)], ~Refiled, cur # NoSource
    PROVE  /\ x \in Members[cur]
           /\ field = "unread" => /\ x \in Unread(cur) <=> "unread" \in srv[x]
                                  /\ x \in UnreadThen(cur) <=> "unread" \in srv'[x]
           /\ field # "unread" => (x \in Unread(cur) <=> x \in UnreadThen(cur))
  <1>0. srv[x] \in SUBSET Fields /\ srv'[x] = Apply(srv[x], field, mode)
    BY DEF TypeOK
  <1>1. x \in Members[cur] /\ srv[x] \cup {"unread"} \in Selects[cur]
    BY DEF CountsUnread
  <1>2. "unread" \in srv[x] => srv[x] \cup {"unread"} = srv[x]
    OBVIOUS
  <1>3. CASE field = "unread"
    <2>1. "unread" \in srv'[x] => srv'[x] = srv[x] \cup {"unread"}
      BY <1>0, <1>3 DEF Apply
    <2> QED
      BY <1>1, <1>2, <1>3, <2>1 DEF Unread, UnreadThen, Held
  <1>4. CASE field # "unread"
    <2>1. "unread" \in srv'[x] <=> "unread" \in srv[x]
      BY <1>0, <1>4 DEF Apply
    <2>2. "unread" \in srv[x] => (srv[x] \in Selects[cur] <=> srv'[x] \in Selects[cur])
      BY <1>1, <2>1 DEF Refiled
    <2> QED
      BY <1>1, <1>4, <2>1, <2>2 DEF Unread, UnreadThen, Held
  <1> QED
    BY <1>3, <1>4

\* mutate moves the server and the count together.
LEMMA MutateCounts ==
    ASSUME TypeOK, NEW pane, NEW copy \in Headline \cup {NoArticle}, NEW field \in Fields,
           NEW mode \in {"toggle", "false"}, NEW o \in {"ok", "fails"},
           heads # <<>> \/ ~InList(pane, copy), Mutate(pane, copy, field, mode, o),
           mode = "toggle" /\ o = "ok" /\ field = "unread" => ~InList(pane, copy),
           cur' = cur, cur # NoSource, CountExact(cur), ~Refiled, ~Shadowed,
           CountsUnread(Target(pane, copy).id),
           Target(pane, copy).flags = srv[Target(pane, copy).id]
    PROVE  CountExact(cur)'
  <1> DEFINE h == Target(pane, copy)
             x == h.id
  <1>0. /\ srv \in [Articles -> SUBSET Fields] /\ cur \in Sources
        /\ side \in [Sources -> Nat] \cup {NoItems}
        /\ x \in Articles
    BY TargetType DEF TypeOK, Headline
  <1>1. CASE o = "fails"
    <2>1. srv' = srv /\ side' = side
      BY <1>1, MutateMeaning
    <2> QED
      BY <2>1 DEF CountExact, UnreadIn, Held
  <1>2. CASE o = "ok"
    <2> DEFINE after == IF InList(pane, copy) THEN heads'[sel + 1] ELSE art'
    <2>1. /\ srv' = [srv EXCEPT ![x] = Apply(@, field, mode)]
          /\ side' = IF field = "unread" THEN Bump(h, after) ELSE side
      BY <1>2, MutateMeaning
    <2>2. field = "unread" => ("unread" \in after.flags <=> "unread" \in Apply(h.flags, field, mode))
      BY <1>2, MutateAfter
    <2> HIDE DEF h, x, after
    <2>3. h.flags = srv[x] /\ CountsUnread(x)
      BY DEF h, x
    <2>4. srv'[x] = Apply(h.flags, field, mode) /\ \A a \in Articles : a # x => srv'[a] = srv[a]
      BY <1>0, <2>1, <2>3
    <2>5. /\ x \in Members[cur]
          /\ field = "unread" => /\ x \in Unread(cur) <=> "unread" \in h.flags
                                 /\ x \in UnreadThen(cur) <=> "unread" \in after.flags
          /\ field # "unread" => (x \in Unread(cur) <=> x \in UnreadThen(cur))
      BY <1>0, <2>1, <2>2, <2>3, <2>4, TargetCounts
    <2> DEFINE was == Cardinality(Unread(cur))
               is == Cardinality(UnreadThen(cur))
    <2>6. /\ was \in Nat /\ is \in Nat
          /\ UnreadIn(Held(cur)) = was /\ UnreadIn(Held(cur))' = is
          /\ (x \in Unread(cur) <=> x \in UnreadThen(cur)) => is = was
          /\ x \in UnreadThen(cur) /\ x \notin Unread(cur) => is = was + 1
          /\ x \in Unread(cur) /\ x \notin UnreadThen(cur) => is = was - 1 /\ was > 0
      <3>1. \A a \in Members[cur] : a # x => srv'[a] = srv[a]
        BY <1>0, <2>4, MembersAssumption
      <3>2. \A f \in Sources : f = cur /\ f = cur' =>
              /\ UnreadIn(Held(cur)) = Cardinality(Unread(f))
              /\ UnreadIn(Held(cur))' = Cardinality(UnreadThen(f))
        BY CountsAre
      <3> QED
        BY <1>0, <2>5, <3>1, <3>2, CountsAre, UnreadMoves
    <2> HIDE DEF was, is
    <2>7. CASE cur \notin DOMAIN side
      <3>1. side' = side
        BY <2>1, <2>7 DEF Bump
      <3> QED
        BY <2>7, <3>1 DEF CountExact
    <2>8. CASE cur \in DOMAIN side
      <3>1. side \in [Sources -> Nat] /\ side[cur] = was
        BY <1>0, <2>6, <2>8 DEF NoItems, CountExact
      <3>2. side'[cur] = is
        <4>1. CASE field # "unread"
          BY <2>1, <2>5, <2>6, <3>1, <4>1
        <4>2. CASE field = "unread" /\ ("unread" \in h.flags <=> "unread" \in after.flags)
          <5>1. side' = side
            BY <2>1, <4>2 DEF Bump
          <5> QED
            BY <2>5, <2>6, <3>1, <4>2, <5>1
        <4>3. CASE field = "unread" /\ ~("unread" \in h.flags <=> "unread" \in after.flags)
          <5>1. srv' # srv
            BY <2>2, <2>3, <2>4, <4>3
          <5>2. FirstWithId(cur) = cur
            BY <5>1 DEF Shadowed
          <5>3. side'[cur] = IF "unread" \in after.flags THEN was + 1
                             ELSE IF was > 0 THEN was - 1 ELSE 0
            BY <1>0, <2>1, <3>1, <4>3, <5>2, BumpMeaning
          <5>4. CASE "unread" \in after.flags
            BY <2>5, <2>6, <4>3, <5>3, <5>4
          <5>5. CASE "unread" \notin after.flags
            BY <2>5, <2>6, <4>3, <5>3, <5>5
          <5> QED
            BY <5>4, <5>5
        <4> QED
          BY <4>1, <4>2, <4>3
      <3> QED
        BY <2>6, <3>2 DEF CountExact
    <2> QED
      BY <2>7, <2>8
  <1> QED
    BY <1>1, <1>2

LEMMA HeadlineKeyCounts ==
    ASSUME Inv, HeadlineKey, ~AnswerLost, ~ToggleInList("unread", "ok"), ~Refiled, ~Shadowed,
           SelectionInView, CountExact(cur)
    PROVE  CountExact(cur)'
  <1>0. TypeOK /\ RowsBelong /\ art \in Headline \cup {NoArticle}
    BY DEF Inv, TypeOK
  <1>1. ASSUME UNCHANGED <<srv, side, cur>> PROVE CountExact(cur)'
    BY <1>1 DEF CountExact, UnreadIn, Held
  <1>2. CASE ToggleNothing \/ OpenFails
    BY <1>1, <1>2 DEF ToggleNothing, OpenFails, ArticleFails
  <1>3. ASSUME NEW field \in Fields, NEW o \in Outcomes, ToggleInList(field, o) PROVE CountExact(cur)'
    <2>1. o \in {"ok", "fails"} /\ ~(o = "ok" /\ field = "unread")
      BY <1>3 DEF AnswerLost, Outcomes
    <2>2. /\ Mutate(focus, art, field, "toggle", o) /\ cur' = cur
          /\ heads # <<>> /\ InList(focus, art)
      BY <1>3 DEF ToggleInList, InList
    <2>3. /\ Target(focus, art) = Current
          /\ CountsUnread(Current.id) /\ Current.flags = srv[Current.id]
      BY <2>2 DEF Target, SelectionInView
    <2>4. cur # NoSource
      BY <1>0, <2>2 DEF RowsBelong
    <2> QED
      BY <1>0, <2>1, <2>2, <2>3, <2>4, MutateCounts
  <1>4. ASSUME NEW field \in Fields, NEW o \in Outcomes, ToggleInArticle(field, o)
        PROVE  CountExact(cur)'
    <2>1. o \in {"ok", "fails"}
      BY <1>4 DEF AnswerLost, Outcomes
    <2>2. /\ Mutate("article", art, field, "toggle", o) /\ cur' = cur
          /\ art # NoArticle /\ ~InList("article", art)
      BY <1>4 DEF ToggleInArticle, InList
    <2>3. Target("article", art) = art /\ CountsUnread(art.id) /\ art.flags = srv[art.id]
      BY <2>2 DEF Target, SelectionInView
    <2>4. cur # NoSource
      BY <1>0, <2>2 DEF RowsBelong
    <2> QED
      BY <1>0, <2>1, <2>2, <2>3, <2>4, MutateCounts
  <1>5. ASSUME NEW o \in Outcomes, NEW pane \in {"article", "headlines"}, heads # <<>>, cur' = cur,
               o # "lost", MarkRead(pane, Answered(Current.id), o)
        PROVE  CountExact(cur)'
    <2>1. o \in {"ok", "fails"}
      BY <1>5 DEF Outcomes
    <2>2. /\ Current \in Headline /\ sel + 1 \in 1 .. Len(heads)
          /\ Answered(Current.id) \in Headline /\ Answered(Current.id).id = Current.id
          /\ Answered(Current.id).flags = srv[Current.id]
      BY <1>0, <1>5, AnsweredType
    <2>3. cur # NoSource /\ CountsUnread(Current.id) /\ Current.flags = srv[Current.id]
      BY <1>0, <1>5 DEF RowsBelong, SelectionInView
    <2>4. /\ Target(pane, Answered(Current.id)).id = Current.id
          /\ Target(pane, Answered(Current.id)).flags = srv[Current.id]
      BY <2>2, <2>3 DEF Target
    <2>5. CASE "unread" \in Current.flags
      <3>1. Mutate(pane, Answered(Current.id), "unread", "false", o)
        BY <1>5, <2>5 DEF MarkRead
      <3> QED
        BY <1>0, <1>5, <2>1, <2>2, <2>3, <2>4, <3>1, MutateCounts, FieldsAssumption
    <2>6. CASE "unread" \notin Current.flags
      BY <1>1, <1>5, <2>6 DEF MarkRead
    <2> QED
      BY <2>5, <2>6
  <1>6. ASSUME NEW o \in Outcomes, OpenArticle(o) \/ PeekArticle(o) PROVE CountExact(cur)'
    <2>1. o # "lost"
      BY <1>6 DEF AnswerLost
    <2>2. /\ heads # <<>> /\ cur' = cur
          /\ \E pane \in {"article", "headlines"} : MarkRead(pane, Answered(Current.id), o)
      BY <1>6 DEF OpenArticle, PeekArticle
    <2> QED
      BY <1>5, <2>1, <2>2
  <1> QED
    BY <1>2, <1>3, <1>4, <1>6 DEF HeadlineKey

\* A sidebar that has just been read has every count as the server has it.
LEMMA LoadedCounts ==
    ASSUME NEW ok \in BOOLEAN, LoadSide(ok), cur' = cur
    PROVE  CountExact(cur)'
  <1>1. CASE ok
    <2>1. side' = [f \in Sources |-> Cardinality(
                      {a \in {b \in Members[f] : srv'[b] \in Selects[f]} : "unread" \in srv'[a]})]
      BY <1>1 DEF LoadSide, Counts, UnreadIn, Held
    <2> QED
      BY <2>1 DEF CountExact, UnreadIn, Held
  <1>2. CASE ~ok
    BY <1>2 DEF LoadSide, NoItems, CountExact
  <1> QED
    BY <1>1, <1>2

\* The count of the loaded entry stays what the server would answer while its
\* articles are opened, peeked at and toggled, and through every load, for any
\* ids, places and flags that select, and with the exceptions the property names:
\* bump_sidebar_unread moves it by one when the server's moves, unless an entry
\* with the same id stands above it.
THEOREM LoadedCountAlwaysExact == Spec => LoadedCountStaysExact
  <1> DEFINE Exact == \/ SelectionInView /\ CountExact(cur) => CountExact(cur)'
                      \/ cur' # cur \/ Shadowed \/ Refiled
                      \/ Changed \/ AnswerLost \/ ToggleInList("unread", "ok")
  <1>1. ASSUME Inv, [Next]_vars, ~Changed, ~AnswerLost, ~ToggleInList("unread", "ok"),
               ~Shadowed, ~Refiled, cur' = cur, SelectionInView, CountExact(cur)
        PROVE  CountExact(cur)'
    <2>1. ASSUME UNCHANGED <<srv, side>> PROVE CountExact(cur)'
      BY <1>1, <2>1 DEF CountExact, UnreadIn, Held
    <2>2. CASE HeadlineKey
      BY <1>1, <2>2, HeadlineKeyCounts
    <2>3. CASE LoadKey
      <3>1. ASSUME NEW okSide \in BOOLEAN, NEW okList \in BOOLEAN, Refresh(okSide, okList)
            PROVE  CountExact(cur)'
        BY <1>1, <3>1, LoadedCounts DEF Refresh
      <3>2. ASSUME NEW f, NEW ok, OpenFeed(f, ok) PROVE UNCHANGED <<srv, side>>
        BY <3>2 DEF OpenFeed
      <3>3. ASSUME NEW v, NEW ok, ChangeView(v, ok) PROVE UNCHANGED <<srv, side>>
        BY <3>3 DEF ChangeView
      <3>4. Move => UNCHANGED <<srv, side>>
        BY DEF Move
      <3> QED
        BY <2>1, <2>3, <3>1, <3>2, <3>3, <3>4 DEF LoadKey
    <2>4. CASE CatchUpKey
      <3>1. ASSUME NEW f, NEW ok \in BOOLEAN, CatchUp(f, ok) PROVE CountExact(cur)'
        BY <1>1, <3>1, LoadedCounts DEF CatchUp
      <3>2. ASSUME NEW f \in Sources \cup {NoSource}, NEW o \in {"fails", "lost"}, CatchUpFails(f, o)
            PROVE  UNCHANGED <<srv, side>>
        BY <1>1, <3>2 DEF CatchUpFails, AnswerLost
      <3> QED
        BY <2>1, <2>4, <3>1, <3>2 DEF CatchUpKey
    <2>5. ASSUME NEW p, MoveFocus(p) PROVE UNCHANGED <<srv, side>>
      BY <2>5 DEF MoveFocus
    <2> QED
      BY <1>1, <2>1, <2>2, <2>3, <2>4, <2>5 DEF Next, Changed, vars
  <1>2. Inv /\ [Next]_vars => [Exact]_vars
    BY <1>1
  <1>3. LoadedCountStaysExact <=> [][Exact]_vars
    BY DEF LoadedCountStaysExact
  <1> HIDE DEF Exact
  <1> QED
    BY <1>2, <1>3, Invariance, PTL DEF Spec

-----------------------------------------------------------------------------
(* What puts the display right again.                                      *)

\* R, when both its requests are answered, puts right whatever lost answers,
\* other clients and toggles in the list have left behind: every count of the
\* sidebar and every row is then what the server has.
RefreshExact ==
    Refresh(TRUE, TRUE) => /\ \A f \in Sources : CountExact(f)'
                           /\ \A a \in Articles : RowAgrees(a)'

RefreshRepairs == [][RefreshExact]_vars

LEMMA RefreshLoads ==
    ASSUME Inv, Refresh(TRUE, TRUE)
    PROVE  /\ \A f \in Sources : CountExact(f)'
           /\ \A a \in Articles : RowAgrees(a)'
  <1>0. TypeOK /\ cur \in Sources \cup {NoSource} /\ RowsBelong
    BY DEF Inv, TypeOK
  <1>1. ASSUME NEW f \in Sources PROVE CountExact(f)'
    <2>1. side' = [g \in Sources |-> Cardinality(
                      {a \in {b \in Members[g] : srv'[b] \in Selects[g]} : "unread" \in srv'[a]})]
      BY DEF Refresh, LoadSide, Counts, UnreadIn, Held
    <2> QED
      BY <2>1 DEF CountExact, UnreadIn, Held
  <1>2. /\ heads' \in Seq(Headline)
        /\ \A i \in 1 .. Len(heads') : heads'[i].flags = srv[heads'[i].id]
    <2>1. CASE cur = NoSource
      <3>1. heads' = heads /\ heads = <<>>
        BY <1>0, <2>1 DEF Refresh, Reload, listVars, RowsBelong
      <3> QED
        BY <3>1
    <2>2. CASE cur # NoSource
      <3>1. LoadList(cur, view, TRUE) /\ cur \in Sources
        BY <1>0, <2>2 DEF Refresh, Reload
      <3> QED
        BY <1>0, <3>1, ListLoaded
    <2> QED
      BY <2>1, <2>2
  <1>3. srv' = srv
    BY DEF Refresh
  <1>4. ASSUME NEW a \in Articles, Rows(heads', a) # {}
        PROVE  heads'[FirstRow(heads', a)].flags = srv'[a]
    <2>1. FirstRow(heads', a) \in Rows(heads', a)
      BY <1>2, <1>4, FirstRowIsRow
    <2> QED
      BY <1>2, <1>3, <2>1 DEF Rows
  <1>5. ASSUME NEW a \in Articles PROVE RowAgrees(a)'
    BY <1>4 DEF RowAgrees
  <1> QED
    BY <1>1, <1>5

\* A refresh that succeeds makes the sidebar and the list exact again.
THEOREM RefreshAlwaysRepairs == Spec => RefreshRepairs
  <1>1. Inv /\ [Next]_vars => [RefreshExact]_vars
    BY RefreshLoads DEF RefreshExact
  <1> QED
    BY <1>1, Invariance, PTL DEF Spec, RefreshRepairs

-----------------------------------------------------------------------------
(* The toggle in the list.                                                 *)

\* What is wrong with r, s and p in the list, in every state and not in one
\* example only: the target of mutate is the row itself, its loop finds that row
\* again, and the second toggle undoes the first.  The server has the change, and
\* the list stays as it was.
Cancelled ==
    \A field \in Fields :
        ToggleInList(field, "ok") /\ FirstRow(heads, Current.id) = sel + 1
            => heads' = heads /\ srv'[Current.id] # srv[Current.id]

ToggleCancelsOut == [][Cancelled]_vars

LEMMA ToggledTwice ==
    ASSUME NEW h \in Headline, NEW field \in Fields
    PROVE  /\ ApplyField(ApplyField(h, field, "toggle"), field, "toggle") = h
           /\ Apply(h.flags, field, "toggle") # h.flags
  <1>1. \A F \in SUBSET Fields : /\ Apply(F, field, "toggle") # F
                                 /\ Apply(Apply(F, field, "toggle"), field, "toggle") = F
    BY DEF Apply
  <1>2. h.flags \in SUBSET Fields /\ h = [id |-> h.id, flags |-> h.flags]
    BY DEF Headline
  <1>3. \A id, F : ApplyField([id |-> id, flags |-> F], field, "toggle")
                      = [id |-> id, flags |-> Apply(F, field, "toggle")]
    BY DEF ApplyField
  <1>4. ApplyField(ApplyField(h, field, "toggle"), field, "toggle")
           = [id |-> h.id, flags |-> Apply(Apply(h.flags, field, "toggle"), field, "toggle")]
    BY Zenon, <1>2, <1>3
  <1> QED
    BY <1>1, <1>2, <1>4

LEMMA ToggleInListCancels ==
    ASSUME TypeOK, NEW field \in Fields, ToggleInList(field, "ok"),
           FirstRow(heads, Current.id) = sel + 1
    PROVE  heads' = heads /\ srv'[Current.id] # srv[Current.id]
  <1> DEFINE h == Current
             touched == Touched(focus, art, field, "toggle")
  <1>0. /\ heads \in Seq(Headline) /\ srv \in [Articles -> SUBSET Fields]
        /\ heads # <<>> /\ art \in Headline \cup {NoArticle}
    BY DEF ToggleInList, TypeOK
  <1>1. Mutate(focus, art, field, "toggle", "ok") /\ InList(focus, art)
    BY DEF ToggleInList, InList
  <1>2. /\ h \in Headline /\ sel + 1 \in 1 .. Len(heads) /\ h = heads[sel + 1] /\ h.id \in Articles
    BY <1>0, AnsweredType DEF Current, Headline
  <1>3. /\ touched \in Seq(Headline) /\ Len(touched) = Len(heads)
        /\ \A i \in 1 .. Len(heads) :
              touched[i] = IF i = sel + 1 THEN ApplyField(heads[i], field, "toggle") ELSE heads[i]
    BY <1>0, <1>1, TargetType
  <1>4. /\ heads' = Mirror(touched, h.id, field, "toggle")
        /\ srv' = [srv EXCEPT ![h.id] = Apply(@, field, "toggle")]
    BY <1>1, MutateMeaning DEF Target
  <1> HIDE DEF touched, h
  <1>5. \A i \in 1 .. Len(heads) : heads[i] \in Headline
    BY <1>0
  <1>6. \A i \in 1 .. Len(heads) : touched[i].id = heads[i].id
    BY <1>3, <1>5, AppliedIsHeadline
  <1>7. Rows(touched, h.id) = Rows(heads, h.id) /\ FirstRow(touched, h.id) = FirstRow(heads, h.id)
    BY <1>3, <1>6, SameIds
  <1>8. Rows(touched, h.id) # {} /\ FirstRow(touched, h.id) = sel + 1
    BY <1>2, <1>7 DEF Rows, h
  <1>9. \A i \in 1 .. Len(heads) :
           heads'[i] = IF i = sel + 1 THEN ApplyField(touched[i], field, "toggle") ELSE touched[i]
    BY <1>3, <1>4, <1>8, MirrorRows
  <1>10. \A i \in 1 .. Len(heads) : heads'[i] = heads[i]
    BY <1>3, <1>5, <1>9, ToggledTwice
  <1>11. heads' \in Seq(Headline) /\ Len(heads') = Len(heads)
    BY <1>2, <1>3, <1>4, MirrorType
  <1>12. heads' = heads
    BY <1>0, <1>10, <1>11, SeqEqual
  <1>13. srv'[h.id] # srv[h.id]
    <2>1. srv[h.id] \in SUBSET Fields /\ srv'[h.id] = Apply(srv[h.id], field, "toggle")
      BY <1>0, <1>2, <1>4
    <2> QED
      BY <2>1 DEF Apply
  <1> QED
    BY <1>12, <1>13 DEF h

\* A toggle in the list that the server has answered changes the server and
\* never the row, if it is the first row of its article.
THEOREM ToggleAlwaysCancelsOut == Spec => ToggleCancelsOut
  <1>1. Inv /\ [Next]_vars => [Cancelled]_vars
    BY ToggleInListCancels DEF Inv, Cancelled
  <1> QED
    BY <1>1, Invariance, PTL DEF Spec, ToggleCancelsOut

-----------------------------------------------------------------------------
(* The list is one that is read page by page, as that of Headlines is.     *)

IdsOf(list) == [i \in 1 .. Len(list) |-> list[i].id]

\* What the server would list now, newest first.
ListedIds(f, v) == [k \in 1 .. Cardinality(InView(f, v)) |-> Newest(InView(f, v), k)]
ServerIds == IF cur = NoSource THEN <<>> ELSE ListedIds(cur, view)

Paged == INSTANCE PagedList
         WITH Ids <- Articles, Sizes <- {Limit},
              server <- ServerIds, shown <- IdsOf(heads), more <- hasMore

LEMMA IdsType ==
    ASSUME NEW list \in Seq(Headline)
    PROVE  /\ IdsOf(list) \in Seq(Articles)
           /\ Len(IdsOf(list)) = Len(list)
           /\ \A i \in 1 .. Len(list) : IdsOf(list)[i] = list[i].id
  <1>1. Len(list) \in Nat /\ \A i \in 1 .. Len(list) : list[i] \in Headline
    BY LenProperties, ElementOfSeq
  <1>2. \A i \in 1 .. Len(list) : list[i].id \in Articles
    BY <1>1 DEF Headline
  <1>3. IdsOf(list) \in Seq(Articles)
    BY <1>1, <1>2, IsASeq DEF IdsOf
  <1> QED
    BY <1>1, <1>3 DEF IdsOf

LEMMA IdsEqual ==
    ASSUME NEW s \in Seq(Headline), NEW t \in Seq(Articles), Len(s) = Len(t),
           \A i \in 1 .. Len(s) : s[i].id = t[i]
    PROVE  IdsOf(s) = t
  <1>1. IdsOf(s) \in Seq(Articles) /\ Len(IdsOf(s)) = Len(t)
        /\ \A i \in 1 .. Len(IdsOf(s)) : IdsOf(s)[i] = t[i]
    BY IdsType
  <1> QED
    BY <1>1, SeqEqual

LEMMA ListedType ==
    ASSUME NEW f \in Sources, NEW v
    PROVE  /\ ListedIds(f, v) \in Seq(Articles)
           /\ Len(ListedIds(f, v)) = Cardinality(InView(f, v))
           /\ \A k \in 1 .. Cardinality(InView(f, v)) : ListedIds(f, v)[k] = Newest(InView(f, v), k)
  <1> DEFINE S == InView(f, v)
             N == Cardinality(S)
  <1>1. S \in SUBSET Articles /\ N \in Nat
    BY ViewIsFinite
  <1>2. \A k \in 1 .. N : Newest(S, k) \in Articles
    BY <1>1, NewestExists
  <1>3. ListedIds(f, v) = [k \in 1 .. N |-> Newest(S, k)]
    BY DEF ListedIds
  <1> HIDE DEF S, N
  <1>4. ListedIds(f, v) \in Seq(Articles)
    BY <1>1, <1>2, <1>3, IsASeq
  <1>5. Len(ListedIds(f, v)) = N
    BY <1>1, <1>3
  <1> QED
    BY <1>3, <1>4, <1>5 DEF S, N

LEMMA ServerIdsType == TypeOK => ServerIds \in Seq(Articles)
  <1> SUFFICES ASSUME TypeOK PROVE ServerIds \in Seq(Articles)
    OBVIOUS
  <1>1. CASE cur = NoSource
    BY <1>1, EmptySeq DEF ServerIds
  <1>2. CASE cur # NoSource
    <2>1. cur \in Sources
      BY <1>2 DEF TypeOK
    <2> QED
      BY <1>2, <2>1, ListedType DEF ServerIds
  <1> QED
    BY <1>1, <1>2

\* The ids of a page are the stretch of the listing that starts at the offset.
LEMMA IdsOfPage ==
    ASSUME NEW f \in Sources, NEW v, NEW skip \in Nat, srv \in [Articles -> SUBSET Fields]
    PROVE  IdsOf(Page(f, v, skip)) = Paged!Slice(ListedIds(f, v), skip, Limit)
  <1> DEFINE S == InView(f, v)
             N == Cardinality(S)
             left == N - skip
             n == IF left <= 0 THEN 0 ELSE IF left < Limit THEN left ELSE Limit
             m == IF skip + Limit < N THEN skip + Limit ELSE N
             ids == ListedIds(f, v)
             page == Page(f, v, skip)
  <1>1. N \in Nat /\ Limit \in Nat /\ Limit > 0
    BY ViewIsFinite, LimitAssumption
  <1>2. ids \in Seq(Articles) /\ Len(ids) = N /\ \A k \in 1 .. N : ids[k] = Newest(S, k)
    BY ListedType
  <1>3. page = [i \in 1 .. n |-> [id |-> Newest(S, skip + i), flags |-> srv[Newest(S, skip + i)]]]
    BY DEF Page
  <1>4. page \in Seq(Headline)
    BY PageType
  <1> HIDE DEF S, N, ids, page
  <1>5. n \in Nat /\ m \in Int
    BY <1>1
  <1>6. Len(page) = n /\ \A i \in 1 .. n : page[i].id = Newest(S, skip + i)
    <2> HIDE DEF n
    <2> QED
      BY <1>3, <1>5
  <1>7. (skip + 1 <= m => n = m - skip) /\ (~(skip + 1 <= m) => n = 0)
    BY <1>1
  <1>8. \A i \in skip + 1 .. m : i \in 1 .. N
    BY <1>1
  <1>9. Paged!Slice(ids, skip, Limit) = SubSeq(ids, skip + 1, m)
    BY <1>2 DEF Paged!Slice
  <1> HIDE DEF n, m
  <1>10. \A i \in skip + 1 .. m : ids[i] \in Articles
    BY <1>2, <1>8, ElementOfSeq
  <1>11. /\ SubSeq(ids, skip + 1, m) \in Seq(Articles)
         /\ Len(SubSeq(ids, skip + 1, m)) = IF skip + 1 <= m THEN m - (skip + 1) + 1 ELSE 0
         /\ \A i \in 1 .. m - (skip + 1) + 1 : SubSeq(ids, skip + 1, m)[i] = ids[skip + 1 + i - 1]
    BY <1>5, <1>10, SubSeqProperties
  <1>12. Len(SubSeq(ids, skip + 1, m)) = n
    BY <1>5, <1>7, <1>11
  <1>13. ASSUME NEW i \in 1 .. n PROVE page[i].id = SubSeq(ids, skip + 1, m)[i]
    <2>1. /\ i \in 1 .. m - (skip + 1) + 1
          /\ skip + 1 + i - 1 = skip + i /\ skip + i \in skip + 1 .. m
      BY <1>5, <1>7
    <2>2. ids[skip + i] = Newest(S, skip + i)
      BY <1>2, <1>8, <2>1
    <2> QED
      BY <1>6, <1>11, <2>1, <2>2
  <1> QED
    BY <1>4, <1>6, <1>9, <1>11, <1>12, <1>13, IdsEqual DEF ids, page

\* headlines_load opens a list, or leaves an empty one.
LEMMA LoadListOpens ==
    ASSUME TypeOK, NEW f \in Sources, NEW v, NEW ok \in BOOLEAN, LoadList(f, v, ok),
           cur' = f, view' = v, srv' = srv
    PROVE  Paged!LNext
  <1> DEFINE page == Page(f, v, 0)
  <1>0. srv \in [Articles -> SUBSET Fields] /\ f # NoSource
    BY SourcesAssumption DEF TypeOK
  <1>1. ServerIds' = ListedIds(f, v) /\ ListedIds(f, v) \in Seq(Articles)
    BY <1>0, ListedType DEF ServerIds, ListedIds, InView, Held
  <1>2. CASE ok
    <2>1. heads' = page /\ hasMore' = (Len(page) >= Limit)
      BY <1>2 DEF LoadList
    <2>2. page \in Seq(Headline) /\ IdsOf(page) = Paged!Slice(ListedIds(f, v), 0, Limit)
      BY <1>0, PageType, IdsOfPage
    <2>3. Len(IdsOf(page)) = Len(page)
      BY <2>2, IdsType
    <2> HIDE DEF page
    <2>4. IdsOf(heads)' = IdsOf(page)
      BY <2>1 DEF IdsOf
    <2>5. Paged!Open(Limit)
      BY <1>1, <2>1, <2>2, <2>3, <2>4 DEF Paged!Open
    <2> QED
      BY <2>5 DEF Paged!LNext
  <1>3. CASE ~ok
    <2>1. heads' = <<>> /\ hasMore' = FALSE
      BY <1>3 DEF LoadList
    <2>2. IdsOf(heads)' = <<>>
      BY <2>1 DEF IdsOf
    <2> QED
      BY <1>1, <2>1, <2>2 DEF Paged!OpenFails, Paged!LNext
  <1> QED
    BY <1>2, <1>3

\* A step that keeps the ids of the rows is one of the server.
LEMMA SameRowsChange ==
    ASSUME TypeOK, heads' \in Seq(Headline), ServerIds' \in Seq(Articles), SameRows, hasMore' = hasMore
    PROVE  Paged!Change
  <1>1. IdsOf(heads') = IdsOf(heads)
    BY IdsType, IdsEqual DEF TypeOK, SameRows
  <1> QED
    BY <1>1 DEF Paged!Change, IdsOf

\* A movement adds a page or none.
LEMMA MoveExtends ==
    ASSUME Inv, Move
    PROVE  [Paged!LNext]_Paged!lvars
  <1> DEFINE page == Page(cur, view, Len(heads))
  <1>0. /\ heads \in Seq(Headline) /\ Len(heads) \in Nat /\ srv \in [Articles -> SUBSET Fields]
        /\ cur \in Sources /\ cur # NoSource
    BY LenProperties DEF Move, Inv, TypeOK, RowsBelong
  <1>1. UNCHANGED <<srv, cur, view>>
    BY DEF Move
  <1>2. ServerIds' = ServerIds /\ ServerIds = ListedIds(cur, view)
    BY <1>0, <1>1 DEF ServerIds, ListedIds, InView, Held
  <1>3. page \in Seq(Headline) /\ Len(page) \in Nat
    BY <1>0, PageType, LenProperties
  <1>4. IdsOf(page) = Paged!Slice(ServerIds, Len(heads), Limit)
    BY <1>0, <1>2, IdsOfPage
  <1>5. CASE UNCHANGED <<heads, hasMore>>
    BY <1>2, <1>5 DEF Paged!lvars, IdsOf
  <1>6. CASE hasMore /\ heads' = heads \o page /\ hasMore' = (Len(heads') - Len(heads) >= Limit)
    <2> DEFINE s == IdsOf(heads)
               t == IdsOf(page)
    <2>1. /\ s \in Seq(Articles) /\ Len(s) = Len(heads) /\ t \in Seq(Articles) /\ Len(t) = Len(page)
          /\ \A i \in 1 .. Len(heads) : s[i] = heads[i].id
          /\ \A i \in 1 .. Len(page) : t[i] = page[i].id
      BY <1>0, <1>3, IdsType
    <2>0. s \in Seq(Articles) /\ t \in Seq(Articles)
      BY <2>1
    <2> HIDE DEF page, s, t
    <2>2. /\ heads \o page \in Seq(Headline)
          /\ Len(heads \o page) = Len(heads) + Len(page)
          /\ \A i \in 1 .. Len(heads) + Len(page) :
                (heads \o page)[i] = IF i <= Len(heads) THEN heads[i] ELSE page[i - Len(heads)]
      BY <1>0, <1>3, ConcatProperties
    <2>3. /\ s \o t \in Seq(Articles)
          /\ Len(s \o t) = Len(s) + Len(t)
          /\ \A i \in 1 .. Len(s) + Len(t) : (s \o t)[i] = IF i <= Len(s) THEN s[i] ELSE t[i - Len(s)]
      BY <2>0, ConcatProperties
    <2>4. ASSUME NEW i \in 1 .. Len(heads) + Len(page)
          PROVE  (heads \o page)[i].id = (s \o t)[i]
      <3>1. CASE i <= Len(heads)
        <4>1. i \in 1 .. Len(heads)
          BY <1>0, <3>1
        <4> QED
          BY <2>1, <2>2, <2>3, <3>1, <4>1
      <3>2. CASE ~(i <= Len(heads))
        <4>1. i - Len(heads) \in 1 .. Len(page)
          BY <1>0, <1>3, <3>2
        <4> QED
          BY <2>1, <2>2, <2>3, <3>2, <4>1
      <3> QED
        BY <3>1, <3>2
    <2>5. Len(s \o t) = Len(heads \o page)
      BY <2>1, <2>2, <2>3
    <2>6. IdsOf(heads \o page) = s \o t
      BY <2>2, <2>3, <2>4, <2>5, IdsEqual
    <2>7. hasMore' = (Len(t) >= Limit)
      <3>1. Len(heads') - Len(heads) = Len(t)
        BY <1>0, <1>3, <1>6, <2>1, <2>2
      <3> QED
        BY <1>6, <3>1
    <2>8. IdsOf(heads)' = s \o t
      BY <1>6, <2>6 DEF IdsOf
    <2>9. Paged!Extend(Limit)
      BY <1>2, <1>4, <1>6, <2>1, <2>7, <2>8 DEF Paged!Extend, s, t
    <2> QED
      BY <2>9 DEF Paged!LNext
  <1> QED
    BY <1>5, <1>6 DEF Move, NextPage

\* No key on one headline adds or removes a row, and no catch-up does.
LEMMA HeadlineKeyRows ==
    ASSUME Inv, HeadlineKey
    PROVE  SameRows /\ hasMore' = hasMore
  <1>0. TypeOK /\ art \in Headline \cup {NoArticle}
    BY DEF Inv, TypeOK
  <1>1. CASE ToggleNothing \/ OpenFails
    BY <1>1 DEF ToggleNothing, OpenFails, ArticleFails, SameRows
  <1>2. ASSUME NEW field \in Fields, NEW o \in Outcomes, ToggleInList(field, o)
        PROVE  SameRows /\ hasMore' = hasMore
    BY <1>0, <1>2, MutateTypes DEF ToggleInList
  <1>3. ASSUME NEW field \in Fields, NEW o \in Outcomes, ToggleInArticle(field, o)
        PROVE  SameRows /\ hasMore' = hasMore
    <2>1. ~InList("article", art)
      BY <1>3 DEF ToggleInArticle, InList
    <2> QED
      BY <1>0, <1>3, <2>1, MutateTypes DEF ToggleInArticle
  <1>4. ASSUME NEW o \in Outcomes, OpenArticle(o) \/ PeekArticle(o)
        PROVE  SameRows /\ hasMore' = hasMore
    <2>1. /\ heads # <<>> /\ hasMore' = hasMore
          /\ \E pane \in {"article", "headlines"} : MarkRead(pane, Answered(Current.id), o)
      BY <1>4 DEF OpenArticle, PeekArticle
    <2> QED
      BY <1>0, <2>1, MarkReadTypes
  <1> QED
    BY <1>1, <1>2, <1>3, <1>4 DEF HeadlineKey

LEMMA CatchUpRows ==
    ASSUME Inv, CatchUpKey
    PROVE  SameRows /\ hasMore' = hasMore
  <1>0. heads \in Seq(Headline)
    BY DEF Inv, TypeOK
  <1>1. ASSUME NEW f, NEW ok, CatchUp(f, ok)
        PROVE  SameRows /\ hasMore' = hasMore
    <2>1. heads' = [i \in 1 .. Len(heads) |-> Read(heads[i])] /\ hasMore' = hasMore
      BY <1>0, <1>1 DEF CatchUp, RowsAfterCatchUp
    <2>2. \A i \in 1 .. Len(heads) : Read(heads[i]).id = heads[i].id
      BY <1>0, ReadIsHeadline
    <2> QED
      BY <1>0, <2>1, <2>2 DEF SameRows
  <1>2. ASSUME NEW f, NEW o, CatchUpFails(f, o)
        PROVE  SameRows /\ hasMore' = hasMore
    BY <1>2 DEF CatchUpFails, SameRows
  <1> QED
    BY <1>1, <1>2 DEF CatchUpKey

\* A load, of another list or of the same again.
LEMMA LoadKeyPages ==
    ASSUME Inv, LoadKey, heads' \in Seq(Headline), ServerIds' \in Seq(Articles)
    PROVE  [Paged!LNext]_Paged!lvars
  <1>0. TypeOK /\ cur \in Sources \cup {NoSource}
    BY DEF Inv, TypeOK
  <1>1. ASSUME NEW f \in Sources, NEW ok \in BOOLEAN, OpenFeed(f, ok) PROVE Paged!LNext
    BY <1>0, <1>1, LoadListOpens DEF OpenFeed
  <1>2. ASSUME NEW v, NEW ok \in BOOLEAN, Reload(v, ok), cur' = cur, view' = v, srv' = srv
        PROVE  Paged!LNext
    <2>1. CASE cur = NoSource
      <3>1. SameRows /\ hasMore' = hasMore
        BY <1>2, <2>1 DEF Reload, listVars, SameRows
      <3> QED
        BY <1>0, <3>1, SameRowsChange DEF Paged!LNext
    <2>2. CASE cur # NoSource
      BY <1>0, <1>2, <2>2, LoadListOpens DEF Reload
    <2> QED
      BY <2>1, <2>2
  <1>3. ASSUME NEW v \in Views, NEW ok \in BOOLEAN, ChangeView(v, ok) PROVE Paged!LNext
    BY <1>2, <1>3 DEF ChangeView
  <1>4. ASSUME NEW okSide \in BOOLEAN, NEW okList \in BOOLEAN, Refresh(okSide, okList) PROVE Paged!LNext
    BY <1>2, <1>4 DEF Refresh
  <1> QED
    BY <1>1, <1>3, <1>4, MoveExtends DEF LoadKey

\* The list whose flags are shown and edited is one that is read page by page:
\* loads, views and refreshes open it, movements past its end extend it, and no
\* toggle, opening, catch-up or other client adds, removes or moves a row.
THEOREM KeepsPagingPromise == Spec => Paged!LSpec
  <1>1. Init => Paged!LInit
    <2> SUFFICES ASSUME Init PROVE Paged!LInit
      OBVIOUS
    <2>1. ServerIds \in Seq(Articles)
      BY EmptySeq DEF Init, ServerIds
    <2>2. IdsOf(heads) = <<>> /\ hasMore = FALSE
      BY DEF Init, IdsOf
    <2> QED
      BY <2>1, <2>2 DEF Paged!LInit
  <1> DEFINE Listed == ServerIds \in Seq(Articles)
  <1>2. Inv /\ [Next]_vars /\ Inv' /\ Listed' => [Paged!LNext]_Paged!lvars
    <2> SUFFICES ASSUME Inv, [Next]_vars, Inv', Listed'
                 PROVE  [Paged!LNext]_Paged!lvars
      OBVIOUS
    <2>1. TypeOK /\ heads' \in Seq(Headline) /\ ServerIds' \in Seq(Articles)
      BY DEF Inv, TypeOK
    <2>2. ASSUME SameRows, hasMore' = hasMore PROVE Paged!LNext
      BY <2>1, <2>2, SameRowsChange DEF Paged!LNext
    <2>3. CASE HeadlineKey
      BY <2>2, <2>3, HeadlineKeyRows
    <2>4. CASE LoadKey
      BY <2>1, <2>4, LoadKeyPages
    <2>5. CASE CatchUpKey
      BY <2>2, <2>5, CatchUpRows
    <2>6. ASSUME NEW p, MoveFocus(p) PROVE Paged!LNext
      BY <2>2, <2>6 DEF MoveFocus, SameRows
    <2>7. ASSUME NEW a, NEW field, OtherClient(a, field) PROVE Paged!LNext
      BY <2>2, <2>7 DEF OtherClient, SameRows
    <2>8. CASE UNCHANGED vars
      BY <2>2, <2>8 DEF vars, SameRows
    <2> QED
      BY <2>3, <2>4, <2>5, <2>6, <2>7, <2>8 DEF Next
  <1>3. Inv => Listed
    BY ServerIdsType DEF Inv
  <1> HIDE DEF Listed
  <1> QED
    BY <1>1, <1>2, <1>3, Invariance, PTL DEF Spec, Paged!LSpec

-----------------------------------------------------------------------------
(* The view of all articles of an entry that no flag selects.              *)

\* The rows are the newest articles of the entry, in order, and all of them once
\* no more are expected.  A failing load leaves no rows and expects none.
AllPaged ==
    view = "all_articles" /\ Steady =>
        /\ Len(heads) <= Cardinality(Members[cur])
        /\ \A i \in 1 .. Len(heads) : heads[i].id = Newest(Members[cur], i)
        /\ heads # <<>> /\ ~hasMore => Len(heads) = Cardinality(Members[cur])

LEMMA PageIsNewest ==
    ASSUME NEW f \in Sources, NEW skip \in Nat, skip <= Cardinality(Members[f]),
           Selects[f] = SUBSET Fields, srv \in [Articles -> SUBSET Fields]
    PROVE  LET page == Page(f, "all_articles", skip)
           IN  /\ page \in Seq(Headline) /\ Len(page) \in Nat
               /\ skip + Len(page) <= Cardinality(Members[f])
               /\ Len(page) < Limit => skip + Len(page) = Cardinality(Members[f])
               /\ \A i \in 1 .. Len(page) : page[i].id = Newest(Members[f], skip + i)
  <1> DEFINE S == Members[f]
             N == Cardinality(S)
             left == N - skip
             n == IF left <= 0 THEN 0 ELSE IF left < Limit THEN left ELSE Limit
             page == Page(f, "all_articles", skip)
  <1>1. InView(f, "all_articles") = S
    <2>1. \A a \in S : srv[a] \in Selects[f]
      BY MembersAssumption
    <2> QED
      BY <2>1 DEF InView, Held
  <1>2. N \in Nat /\ Limit \in Nat /\ skip <= N
    BY <1>1, ViewIsFinite, LimitAssumption
  <1>3. page = [i \in 1 .. n |-> [id |-> Newest(S, skip + i), flags |-> srv[Newest(S, skip + i)]]]
    BY <1>1 DEF Page
  <1>4. page \in Seq(Headline)
    BY PageType
  <1> HIDE DEF S, N, page
  <1>5. n \in Nat /\ skip + n <= N /\ (n < Limit => skip + n = N)
    BY <1>2
  <1> HIDE DEF n
  <1>6. Len(page) = n /\ \A i \in 1 .. n : page[i].id = Newest(S, skip + i)
    BY <1>3, <1>5
  <1> QED
    BY <1>4, <1>5, <1>6 DEF S, N, page

LEMMA LoadListAll ==
    ASSUME TypeOK, NEW f \in Sources, NEW v, NEW ok \in BOOLEAN, LoadList(f, v, ok),
           cur' = f, view' = v
    PROVE  AllPaged'
  <1> SUFFICES ASSUME v = "all_articles", Selects[f] = SUBSET Fields
               PROVE  /\ Len(heads') <= Cardinality(Members[f])
                      /\ \A i \in 1 .. Len(heads') : heads'[i].id = Newest(Members[f], i)
                      /\ heads' # <<>> /\ ~hasMore' => Len(heads') = Cardinality(Members[f])
    BY DEF AllPaged, Steady
  <1> DEFINE page == Page(f, "all_articles", 0)
  <1>1. Cardinality(Members[f]) \in Nat
    BY MembersAreFinite
  <1>2. CASE ok
    <2>1. heads' = page /\ hasMore' = (Len(page) >= Limit)
      BY <1>2 DEF LoadList
    <2>2. /\ Len(page) \in Nat /\ Limit \in Nat
          /\ 0 + Len(page) <= Cardinality(Members[f])
          /\ Len(page) < Limit => 0 + Len(page) = Cardinality(Members[f])
          /\ \A i \in 1 .. Len(page) : page[i].id = Newest(Members[f], 0 + i)
      BY <1>1, PageIsNewest, LimitAssumption DEF TypeOK
    <2> HIDE DEF page
    <2>3. ASSUME ~hasMore'
          PROVE  Len(page) < Limit
      <3>1. ~(Len(page) >= Limit)
        BY <2>1, <2>3
      <3>2. Len(page) \in Nat /\ Limit \in Nat
        BY <2>2
      <3> HIDE DEF page
      <3> QED
        BY <3>1, <3>2
    <2>4. \A i \in 1 .. Len(page) : 0 + i = i
      OBVIOUS
    <2> QED
      BY <1>1, <2>1, <2>2, <2>3, <2>4
  <1>3. CASE ~ok
    <2>1. heads' = <<>>
      BY <1>3 DEF LoadList
    <2>2. Len(heads') = 0 /\ 1 .. Len(heads') = {}
      BY <2>1
    <2> QED
      BY <1>1, <2>1, <2>2
  <1> QED
    BY <1>2, <1>3

\* Flags decide nothing in this view of a steady entry.
LEMMA SameRowsAll ==
    ASSUME AllPaged, TypeOK, SameRows, UNCHANGED <<hasMore, cur, view>>, heads' \in Seq(Headline)
    PROVE  AllPaged'
  <1>1. heads' # <<>> => heads # <<>>
    BY EmptySeq DEF TypeOK, SameRows
  <1> QED
    BY <1>1 DEF AllPaged, Steady, SameRows

LEMMA MoveAll ==
    ASSUME Inv, AllPaged, Move
    PROVE  AllPaged'
  <1>0. /\ heads \in Seq(Headline) /\ Len(heads) \in Nat /\ srv \in [Articles -> SUBSET Fields]
        /\ cur \in Sources /\ cur # NoSource /\ UNCHANGED <<cur, view>>
    BY LenProperties DEF Move, Inv, TypeOK, RowsBelong
  <1>1. CASE UNCHANGED <<heads, hasMore>>
    BY <1>0, <1>1 DEF AllPaged, Steady
  <1>2. CASE heads' = heads \o Page(cur, view, Len(heads))
             /\ hasMore' = (Len(heads') - Len(heads) >= Limit)
    <2> SUFFICES ASSUME view = "all_articles", Steady
                 PROVE  /\ Len(heads') <= Cardinality(Members[cur])
                        /\ \A i \in 1 .. Len(heads') : heads'[i].id = Newest(Members[cur], i)
                        /\ heads' # <<>> /\ ~hasMore' => Len(heads') = Cardinality(Members[cur])
      BY <1>0 DEF AllPaged, Steady
    <2> DEFINE page == Page(cur, "all_articles", Len(heads))
               N == Cardinality(Members[cur])
    <2>1. N \in Nat /\ Limit \in Nat
      BY <1>0, MembersAreFinite, LimitAssumption
    <2>2. Len(heads) <= N /\ \A i \in 1 .. Len(heads) : heads[i].id = Newest(Members[cur], i)
      BY <1>0 DEF AllPaged
    <2>3. /\ page \in Seq(Headline) /\ Len(page) \in Nat
          /\ Len(heads) + Len(page) <= N
          /\ Len(page) < Limit => Len(heads) + Len(page) = N
          /\ \A i \in 1 .. Len(page) : page[i].id = Newest(Members[cur], Len(heads) + i)
      BY <1>0, <2>2, PageIsNewest DEF Steady
    <2>4. heads' = heads \o page
      BY <1>2
    <2> HIDE DEF page, N
    <2>5. /\ Len(heads') = Len(heads) + Len(page)
          /\ \A i \in 1 .. Len(heads) + Len(page) :
                heads'[i] = IF i <= Len(heads) THEN heads[i] ELSE page[i - Len(heads)]
      BY <1>0, <2>3, <2>4, ConcatProperties
    <2>6. ASSUME NEW i \in 1 .. Len(heads') PROVE heads'[i].id = Newest(Members[cur], i)
      <3>1. CASE i <= Len(heads)
        <4>1. i \in 1 .. Len(heads)
          BY <1>0, <3>1
        <4> QED
          BY <1>0, <2>2, <2>3, <2>5, <3>1, <4>1
      <3>2. CASE ~(i <= Len(heads))
        <4>1. i - Len(heads) \in 1 .. Len(page) /\ Len(heads) + (i - Len(heads)) = i
          BY <1>0, <2>3, <2>5, <3>2
        <4>2. heads'[i] = page[i - Len(heads)]
          BY <2>5, <3>2
        <4> QED
          BY <2>3, <4>1, <4>2
      <3> QED
        BY <3>1, <3>2
    <2>7. ~hasMore' => Len(heads') = N
      <3>1. Len(heads') - Len(heads) = Len(page)
        BY <1>0, <2>3, <2>5
      <3>2. ~hasMore' => ~(Len(page) >= Limit)
        BY <1>2, <3>1
      <3> QED
        BY <2>1, <2>3, <2>5, <3>2
    <2> QED
      BY <2>3, <2>5, <2>6, <2>7 DEF N
  <1> QED
    BY <1>1, <1>2 DEF Move, NextPage

LEMMA LoadKeyAll ==
    ASSUME Inv, AllPaged, LoadKey
    PROVE  AllPaged'
  <1>0. TypeOK /\ cur \in Sources \cup {NoSource}
    BY DEF Inv, TypeOK
  <1>1. ASSUME NEW f \in Sources, NEW ok \in BOOLEAN, OpenFeed(f, ok) PROVE AllPaged'
    BY <1>0, <1>1, LoadListAll DEF OpenFeed
  <1>2. ASSUME NEW v, NEW ok \in BOOLEAN, Reload(v, ok), cur' = cur, view' = v
        PROVE  AllPaged'
    <2>1. CASE cur = NoSource
      BY <1>2, <2>1 DEF AllPaged, Steady
    <2>2. CASE cur # NoSource
      BY <1>0, <1>2, <2>2, LoadListAll DEF Reload
    <2> QED
      BY <2>1, <2>2
  <1>3. ASSUME NEW v \in Views, NEW ok \in BOOLEAN, ChangeView(v, ok) PROVE AllPaged'
    BY <1>2, <1>3 DEF ChangeView
  <1>4. ASSUME NEW okSide \in BOOLEAN, NEW okList \in BOOLEAN, Refresh(okSide, okList) PROVE AllPaged'
    BY <1>2, <1>4 DEF Refresh
  <1> QED
    BY <1>1, <1>3, <1>4, MoveAll DEF LoadKey

LEMMA NextAll ==
    ASSUME Inv, Inv', AllPaged, [Next]_vars
    PROVE  AllPaged'
  <1>0. TypeOK /\ heads' \in Seq(Headline)
    BY DEF Inv, TypeOK
  <1>1. ASSUME SameRows, UNCHANGED <<hasMore, cur, view>> PROVE AllPaged'
    BY <1>0, <1>1, SameRowsAll
  <1>2. CASE HeadlineKey
    <2>1. UNCHANGED <<cur, view>>
      BY <1>2 DEF HeadlineKey, ToggleNothing, ToggleInList, ToggleInArticle, OpenArticle, PeekArticle,
                  OpenFails, ArticleFails
    <2> QED
      BY <1>1, <1>2, <2>1, HeadlineKeyRows
  <1>3. CASE LoadKey
    BY <1>3, LoadKeyAll
  <1>4. CASE CatchUpKey
    <2>1. UNCHANGED <<cur, view>>
      BY <1>4 DEF CatchUpKey, CatchUp, CatchUpFails
    <2> QED
      BY <1>1, <1>4, <2>1, CatchUpRows
  <1>5. ASSUME NEW p, MoveFocus(p) PROVE AllPaged'
    BY <1>1, <1>5 DEF MoveFocus, SameRows
  <1>6. ASSUME NEW a, NEW field, OtherClient(a, field) PROVE AllPaged'
    BY <1>1, <1>6 DEF OtherClient, SameRows
  <1>7. CASE UNCHANGED vars
    BY <1>1, <1>7 DEF vars, SameRows
  <1> QED
    BY <1>2, <1>3, <1>4, <1>5, <1>6, <1>7 DEF Next

LEMMA AllPagedOnce ==
    ASSUME Inv, AllPaged
    PROVE  EveryArticleOnce
  <1> SUFFICES ASSUME view = "all_articles", Steady
               PROVE  /\ \A i, j \in 1 .. Len(heads) : heads[i].id = heads[j].id => i = j
                      /\ heads # <<>> /\ ~hasMore => \A a \in Members[cur] : Rows(heads, a) # {}
    BY DEF EveryArticleOnce
  <1> DEFINE S == Members[cur]
  <1>1. S \in SUBSET Articles /\ Cardinality(S) \in Nat /\ Len(heads) \in Nat
    <2>1. cur \in Sources /\ heads \in Seq(Headline)
      BY DEF Inv, TypeOK, Steady
    <2>2. S \in SUBSET Articles
      BY <2>1, MembersAssumption
    <2> QED
      BY <2>1, <2>2, ArticlesAssumption, FS_Subset, FS_CardinalityType, LenProperties
  <1>2. /\ Len(heads) <= Cardinality(S)
        /\ \A i \in 1 .. Len(heads) : heads[i].id = Newest(S, i)
        /\ heads # <<>> /\ ~hasMore => Len(heads) = Cardinality(S)
    BY DEF AllPaged
  <1> HIDE DEF S
  <1>3. ASSUME NEW i \in 1 .. Len(heads), NEW j \in 1 .. Len(heads), heads[i].id = heads[j].id
        PROVE  i = j
    <2>1. i \in 1 .. Cardinality(S) /\ j \in 1 .. Cardinality(S)
      BY <1>1, <1>2
    <2>2. Newest(S, i) = Newest(S, j)
      BY <1>2, <1>3
    <2> QED
      BY <1>1, <2>1, <2>2, NewestOnce
  <1>4. ASSUME heads # <<>>, ~hasMore, NEW a \in S PROVE Rows(heads, a) # {}
    <2>1. PICK i \in 1 .. Cardinality(S) : Newest(S, i) = a
      BY <1>1, NewestAll
    <2>2. i \in 1 .. Len(heads) /\ heads[i].id = a
      BY <1>2, <1>4, <2>1
    <2> QED
      BY <2>2 DEF Rows
  <1> QED
    BY <1>3, <1>4 DEF S

\* In the view of all articles of an entry that no flag selects, each article is
\* listed once, and every one of the entry when the list is complete, through any
\* keys and other clients.
THEOREM AllArticlesOnce == Spec => []EveryArticleOnce
  <1>1. Init => AllPaged
    BY DEF Init, AllPaged, Steady
  <1>2. Inv /\ Inv' /\ AllPaged /\ [Next]_vars => AllPaged'
    BY NextAll
  <1>3. Inv /\ AllPaged => EveryArticleOnce
    BY AllPagedOnce
  <1> QED
    BY <1>1, <1>2, <1>3, Invariance, PTL DEF Spec
=============================================================================
