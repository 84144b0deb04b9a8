--------------------------- MODULE ArticleProofs ----------------------------
(***************************************************************************)
(* Proofs about the article pane, for any sizes of the screen and any      *)
(* articles.                                                               *)
(***************************************************************************)
EXTENDS Article, TLAPS, WellFoundedInduction, SequenceTheorems, FiniteSetTheorems

\* The pane has a number of rows, and a width.
LEMMA RowsOfPane ==
    ASSUME NEW sz \in Sizes, NEW o \in BOOLEAN
    PROVE  /\ Geometry(sz, o).artRows \in Nat
           /\ ColumnsFor(sz, o) \in Int
<1>1. sz.rows \in Nat /\ sz.cols \in Nat
    BY SizesAssumption
<1>2. MainHeight(sz) \in Nat /\ MainHeight(sz) >= 3
    BY <1>1 DEF MainHeight, AtLeast
<1>3. HeadHeight(MainHeight(sz)) \in Nat /\ HeadHeight(MainHeight(sz)) <= MainHeight(sz) - 2
    BY <1>2 DEF HeadHeight, AtLeast, AtMost
<1>4. FeedShare(sz.cols) \in Nat
    BY <1>1 DEF FeedShare
<1>5. FeedWidth(sz.cols) \in Int
    BY <1>1, <1>4 DEF FeedWidth, AtLeast, AtMost
<1> QED
    BY <1>1, <1>2, <1>3, <1>5 DEF Geometry, ColumnsFor, AtLeast

LEMMA WidthOfText ==
    ASSUME NEW cols \in Int
    PROVE  /\ WidthFor(cols) \in Nat
           /\ WidthFor(cols) = cols - 2 \/ WidthFor(cols) = 4
BY DEF WidthFor, AtLeast

LEMMA WidthIsPositive ==
    ASSUME NEW cols \in Int
    PROVE  WidthFor(cols) \in Nat \ {0}
BY DEF WidthFor, AtLeast

-----------------------------------------------------------------------------
(* Selections, as in SidebarProofs.                                        *)

\* A set of indices of a list has a least element.
LEMMA LeastIndex ==
    ASSUME NEW S \in SUBSET Nat, S # {}
    PROVE  \E i \in S : \A j \in S : i <= j
<1> DEFINE Less == {p \in Nat \X Nat : p[1] < p[2]}
<1>1. IsWellFoundedOn(Less, Nat)
  <2>1. OpToRel(<, Nat) = Less
    BY DEF OpToRel
  <2> QED BY <2>1, NatLessThanWellFounded
<1> HIDE DEF Less
<1>2. PICK i \in S : \A j \in S : ~ (<<j, i>> \in Less)
    BY <1>1, WFMin
<1>3. ASSUME NEW j \in S, ~ (i <= j)
      PROVE  FALSE
  <2>1. <<j, i>> \in {p \in Nat \X Nat : p[1] < p[2]}
    BY <1>3
  <2> QED BY <1>2, <2>1 DEF Less
<1> QED BY <1>3

\* A selection is finite, and so is what comes before an index.
LEMMA SelectionIsFinite ==
    ASSUME NEW n \in Nat, NEW I \in SUBSET Nat, \A k \in I : k <= n, NEW i
    PROVE  /\ IsFiniteSet(I) /\ Cardinality(I) \in Nat
           /\ IsFiniteSet({j \in I : j < i}) /\ Before(I, i) \in Nat
<1>1. IsFiniteSet(I)
    BY FS_BoundedSetOfNaturals
<1>2. IsFiniteSet({j \in I : j < i})
    BY <1>1, FS_Subset
<1> QED BY <1>1, <1>2, FS_CardinalityType DEF Before

\* An index has one more before it than any that comes before it.
LEMMA BeforeGrows ==
    ASSUME NEW n \in Nat, NEW I \in SUBSET Nat, \A k \in I : k <= n, NEW i \in I, NEW j \in Int, i < j
    PROVE  Before(I, i) < Before(I, j)
<1> DEFINE S == {k \in I : k < i}
           T == {k \in I : k < j}
<1>1. i \in Int /\ \A k \in I : k \in Int
    OBVIOUS
<1>2. S \subseteq T /\ i \in T /\ i \notin S
  <2>1. \A k \in I : k < i => k < j
    BY <1>1
  <2>2. ~ (i < i)
    BY <1>1
  <2> QED BY <2>1, <2>2
<1>3. IsFiniteSet(T) /\ IsFiniteSet(S)
    BY SelectionIsFinite
<1>4. Before(I, i) = Cardinality(S) /\ Before(I, j) = Cardinality(T)
    BY DEF Before
<1> HIDE DEF S, T
<1>5. S # T /\ S \in SUBSET T
    BY <1>2
<1>6. Cardinality(S) \in Nat /\ Cardinality(T) \in Nat
    BY <1>3, FS_CardinalityType
<1>7. Cardinality(S) <= Cardinality(T) /\ Cardinality(S) # Cardinality(T)
    BY <1>3, <1>5, FS_Subset
<1> QED BY <1>4, <1>6, <1>7

\* Some index has any number before it that is less than how many there are:
\* no two indices have the same number before them, so every number is taken.
LEMMA RankExists ==
    ASSUME NEW n \in Nat, NEW I \in SUBSET Nat, \A k \in I : k <= n, NEW p \in 0 .. Cardinality(I) - 1
    PROVE  \E i \in I : Before(I, i) = p
<1> DEFINE rank == [i \in I |-> Before(I, i)]
           Ranks == 0 .. Cardinality(I) - 1
<1>1. /\ IsFiniteSet(I) /\ Cardinality(I) \in Nat
      /\ \A i \in I : i \in Int /\ i <= n /\ Before(I, i) \in Nat
  <2>1. IsFiniteSet(I) /\ Cardinality(I) \in Nat /\ \A i \in I : Before(I, i) \in Nat
    BY SelectionIsFinite
  <2> QED BY <2>1
<1>2. Before(I, n + 1) = Cardinality(I)
  <2>1. \A j \in I : j < n + 1
    OBVIOUS
  <2>2. {j \in I : j < n + 1} = I
    BY <2>1
  <2> QED BY <2>2 DEF Before
<1>3. \A i \in I : Before(I, i) < Cardinality(I)
  <2> TAKE i \in I
  <2>1. n + 1 \in Int /\ i < n + 1
    BY <1>1
  <2> QED BY <1>2, <2>1, BeforeGrows
<1>4. \A i, j \in I : Before(I, i) = Before(I, j) => i = j
  <2> TAKE i, j \in I
  <2>1. (i < j => Before(I, i) < Before(I, j)) /\ (j < i => Before(I, j) < Before(I, i))
    BY <1>1, BeforeGrows
  <2> QED BY <1>1, <2>1
<1>5. IsFiniteSet(Ranks) /\ Cardinality(Ranks) = Cardinality(I)
    BY <1>1, FS_Interval
<1>6. rank \in Injection(I, Ranks)
  <2>1. \A i \in I : Before(I, i) \in Ranks
    BY <1>1, <1>3
  <2> HIDE DEF Ranks
  <2> QED BY <1>4, <2>1 DEF Injection, IsInjective
<1>7. rank \in Surjection(I, Ranks)
  <2> HIDE DEF rank, Ranks
  <2> QED BY <1>5, <1>6, FS_Injection
<1>8. \E i \in I : rank[i] = p
  <2>1. p \in Ranks
    OBVIOUS
  <2> HIDE DEF rank, Ranks
  <2> QED BY <1>7, <2>1 DEF Surjection
<1> QED BY <1>8

\* What Nth says: the indices of a selection, in their order.
LEMMA NthIsIndex ==
    ASSUME NEW n \in Nat, NEW I \in SUBSET Nat, \A k \in I : k <= n, NEW k \in 1 .. Cardinality(I)
    PROVE  Nth(I, k) \in I /\ Before(I, Nth(I, k)) = k - 1
<1>1. k - 1 \in 0 .. Cardinality(I) - 1
  <2>1. Cardinality(I) \in Nat
    BY SelectionIsFinite
  <2> QED BY <2>1
<1>2. \E i \in I : Before(I, i) = k - 1
    BY <1>1, RankExists
<1> QED BY <1>2 DEF Nth

\* None is left out.
LEMMA EveryIndexIsNth ==
    ASSUME NEW n \in Nat, NEW I \in SUBSET Nat, \A k \in I : k <= n, NEW i \in I
    PROVE  \E k \in 1 .. Cardinality(I) : Nth(I, k) = i
<1> DEFINE k == Before(I, i) + 1
<1>1. i \in Int /\ i <= n /\ n + 1 \in Int
    OBVIOUS
<1>2. Before(I, i) \in Nat /\ Cardinality(I) \in Nat
    BY SelectionIsFinite
<1>3. Before(I, i) < Before(I, n + 1)
    BY <1>1, BeforeGrows
<1>4. Before(I, n + 1) = Cardinality(I)
  <2>1. \A j \in I : j < n + 1
    OBVIOUS
  <2>2. {j \in I : j < n + 1} = I
    BY <2>1
  <2> QED BY <2>2 DEF Before
<1>5. k \in 1 .. Cardinality(I)
    BY <1>2, <1>3, <1>4
<1>6. Nth(I, k) \in I /\ Before(I, Nth(I, k)) = Before(I, i)
  <2>1. Nth(I, k) \in I /\ Before(I, Nth(I, k)) = k - 1
    BY <1>5, NthIsIndex
  <2> QED BY <1>2, <2>1
<1>7. Nth(I, k) = i
  <2> DEFINE j == Nth(I, k)
  <2>1. j \in I /\ i \in I /\ Before(I, j) = Before(I, i)
    BY <1>6
  <2>2. Before(I, j) \in Int
    BY <1>2, <2>1
  <2> HIDE DEF j
  <2>3. i \in Int /\ j \in Int
    BY <2>1
  <2>4. i < j => Before(I, i) < Before(I, j)
    BY <2>1, <2>3, BeforeGrows
  <2>5. j < i => Before(I, j) < Before(I, i)
    BY <2>1, <2>3, BeforeGrows
  <2>6. j = i
    BY <2>1, <2>2, <2>3, <2>4, <2>5
  <2> QED BY <2>6 DEF j
<1> QED BY <1>5, <1>7

\* A subsequence has a place for every index of the selection, and no other.
LEMMA SubsequencePlaces ==
    ASSUME NEW T, NEW s \in Seq(T), NEW I \in SUBSET (DOMAIN s)
    PROVE  /\ Subsequence(s, I) \in Seq(T)
           /\ Len(Subsequence(s, I)) = Cardinality(I)
           /\ \A k \in 1 .. Cardinality(I) :
                 Nth(I, k) \in I /\ Subsequence(s, I)[k] = s[Nth(I, k)]
           /\ \A k, m \in 1 .. Cardinality(I) : Nth(I, k) = Nth(I, m) => k = m
           /\ \A i \in I : \E k \in 1 .. Cardinality(I) : Nth(I, k) = i
<1>1. /\ Len(s) \in Nat /\ I \in SUBSET (1 .. Len(s))
      /\ I \in SUBSET Nat /\ \A k \in I : k <= Len(s)
    BY LenProperties
<1>2. Cardinality(I) \in Nat
    BY <1>1, SelectionIsFinite
<1>3. \A k \in 1 .. Cardinality(I) : Nth(I, k) \in I /\ Before(I, Nth(I, k)) = k - 1
    BY <1>1, NthIsIndex
<1>4. \A k \in 1 .. Cardinality(I) : s[Nth(I, k)] \in T
  <2> TAKE k \in 1 .. Cardinality(I)
  <2>1. Nth(I, k) \in 1 .. Len(s)
    BY <1>1, <1>3
  <2> QED BY <2>1, ElementOfSeq
<1>5. Subsequence(s, I) \in Seq(T) /\ Len(Subsequence(s, I)) = Cardinality(I)
    BY <1>2, <1>4, IsASeq DEF Subsequence
<1>6. \A k, m \in 1 .. Cardinality(I) : Nth(I, k) = Nth(I, m) => k = m
    BY <1>2, <1>3
<1>7. \A i \in I : \E k \in 1 .. Cardinality(I) : Nth(I, k) = i
    BY <1>1, EveryIndexIsNth
<1> QED BY <1>3, <1>5, <1>6, <1>7 DEF Subsequence

-----------------------------------------------------------------------------
(* The links.                                                              *)

\* The array of all URLs.
LEMMA AllUrlsInOrder ==
    ASSUME NEW a \in Content
    PROVE  AllUrls(a) \in Seq(Urls)
<1>1. /\ a.link \in Seq(Urls) /\ a.comments \in Seq(Urls)
      /\ a.attachments \in Seq(Urls) /\ a.inText \in Seq(Urls)
    BY DEF Content
<1>2. \A s, t \in Seq(Urls) : s \o t \in Seq(Urls)
    BY ConcatProperties
<1> QED BY <1>1, <1>2 DEF AllUrls

\* article_rebuild lists every URL of the article, and none twice.
LEMMA EachUrlOnce ==
    ASSUME NEW a \in Content
    PROVE  /\ UrlsOf(a) \in Seq(Urls)
           /\ \A i, j \in DOMAIN UrlsOf(a) : UrlsOf(a)[i] = UrlsOf(a)[j] => i = j
           /\ \A k \in DOMAIN AllUrls(a) : \E i \in DOMAIN UrlsOf(a) : UrlsOf(a)[i] = AllUrls(a)[k]
<1> DEFINE all == AllUrls(a)
           added == AddedFor(all)
           urls == UrlsOf(a)
<1>1. all \in Seq(Urls) /\ Len(all) \in Nat /\ DOMAIN all = 1 .. Len(all)
    BY AllUrlsInOrder, LenProperties
<1>2. added \in SUBSET (DOMAIN all)
    BY DEF AddedFor
<1>3. urls = Subsequence(all, added)
    BY DEF UrlsOf
<1> HIDE DEF all, urls
<1>4. \A i, j \in added : all[i] = all[j] => i = j
  <2> SUFFICES ASSUME NEW i \in added, NEW j \in added, all[i] = all[j], i < j
               PROVE  FALSE
    BY <1>1, <1>2
  <2>1. i \in 1 .. j - 1
    BY <1>1, <1>2
  <2> QED BY <2>1 DEF AddedFor
<1>5. \A k \in DOMAIN all : \E i \in added : all[i] = all[k]
  <2> TAKE k \in DOMAIN all
  <2> DEFINE Same == {i \in DOMAIN all : all[i] = all[k]}
  <2>1. Same \in SUBSET Nat /\ Same # {}
    BY <1>1
  <2>2. PICK i \in Same : \A j \in Same : i <= j
    <3> HIDE DEF Same
    <3> QED BY <2>1, LeastIndex
  <2>3. \A j \in 1 .. i - 1 : all[j] # all[i]
    <3> SUFFICES ASSUME NEW j \in 1 .. i - 1, all[j] = all[i] PROVE FALSE
      OBVIOUS
    <3>1. j \in Same /\ j < i
      BY <1>1, <2>2
    <3> QED BY <1>1, <2>2, <3>1
  <2> QED BY <2>2, <2>3 DEF AddedFor
<1> HIDE DEF added
<1>6. /\ urls \in Seq(Urls) /\ Len(urls) = Cardinality(added)
      /\ \A k \in 1 .. Cardinality(added) : Nth(added, k) \in added /\ urls[k] = all[Nth(added, k)]
      /\ \A k, m \in 1 .. Cardinality(added) : Nth(added, k) = Nth(added, m) => k = m
      /\ \A i \in added : \E k \in 1 .. Cardinality(added) : Nth(added, k) = i
    BY <1>1, <1>2, <1>3, SubsequencePlaces
<1>7. DOMAIN urls = 1 .. Cardinality(added)
    BY <1>6, LenProperties
<1>8. \A i, j \in DOMAIN urls : urls[i] = urls[j] => i = j
    BY <1>4, <1>6, <1>7
<1>9. \A k \in DOMAIN all : \E i \in DOMAIN urls : urls[i] = all[k]
  <2> TAKE k \in DOMAIN all
  <2>1. PICK i \in added : all[i] = all[k]
    BY <1>5
  <2>2. PICK m \in 1 .. Cardinality(added) : Nth(added, m) = i
    BY <1>6
  <2> QED BY <1>6, <1>7, <2>1, <2>2
<1> QED BY <1>6, <1>8, <1>9 DEF all, urls

-----------------------------------------------------------------------------
(* The lines of a text.                                                    *)

\* A text has a line at least.
LEMMA TextHasLine ==
    ASSUME NEW n \in Nat, NEW w \in Nat \ {0}
    PROVE  Lines(n, w) \in Nat \ {0}
<1>1. (n + w - 1) \div w \in Int
    OBVIOUS
<1> QED BY <1>1 DEF Lines, AtLeast

\* The numbers up to k are k.
LEMMA FirstNumbers ==
    ASSUME NEW k \in Nat
    PROVE  IsFiniteSet(1 .. k) /\ Cardinality(1 .. k) = k
BY FS_Interval

\* Texts one below the other have a height, one line at least if there is a text.
LEMMA TextsHaveHeight ==
    ASSUME NEW texts \in Seq(Nat), NEW w \in Nat \ {0}
    PROVE  /\ IsFiniteSet(LinesOf(texts, w))
           /\ Height(texts, w) \in Nat
           /\ texts # <<>> => Height(texts, w) # 0
<1> DEFINE n == Len(texts)
           Of(i) == {i} \X (1 .. Lines(texts[i], w))
           each == [i \in 1 .. n |-> Of(i)]
           S == {Of(i) : i \in 1 .. n}
<1>1. n \in Nat /\ DOMAIN texts = 1 .. n /\ \A i \in 1 .. n : texts[i] \in Nat
    BY LenProperties, ElementOfSeq
<1>2. \A i \in 1 .. n : IsFiniteSet(Of(i))
  <2> TAKE i \in 1 .. n
  <2>0. texts[i] \in Nat
    BY <1>1
  <2>1. Lines(texts[i], w) \in Nat \ {0}
    BY <2>0, TextHasLine
  <2>2. IsFiniteSet({i})
    BY FS_Singleton
  <2>3. IsFiniteSet(1 .. Lines(texts[i], w))
    BY <2>1, FS_Interval
  <2> QED BY <2>2, <2>3, FS_Product
<1>3. IsFiniteSet(S)
  <2> HIDE DEF Of
  <2>1. each \in Surjection(1 .. n, S)
    BY DEF Surjection
  <2>2. IsFiniteSet(1 .. n)
    BY <1>1, FS_Interval
  <2> HIDE DEF each, S
  <2> QED BY <2>1, <2>2, FS_Surjection
<1>4. LinesOf(texts, w) = UNION S
    BY <1>1 DEF LinesOf
<1>5. IsFiniteSet(LinesOf(texts, w))
  <2>1. \A T \in S : IsFiniteSet(T)
    BY <1>2
  <2> HIDE DEF S
  <2> QED BY <1>3, <1>4, <2>1, FS_UNION
<1>6. ASSUME texts # <<>> PROVE LinesOf(texts, w) # {}
  <2>1. 1 \in 1 .. n
    BY <1>1, <1>6, EmptySeq
  <2>2. 1 \in 1 .. Lines(texts[1], w)
    <3>1. Lines(texts[1], w) \in Nat \ {0}
      BY <1>1, <2>1, TextHasLine
    <3> QED BY <3>1
  <2>3. <<1, 1>> \in Of(1)
    BY <2>2
  <2> QED BY <1>4, <2>1, <2>3
<1> QED BY <1>5, <1>6, FS_CardinalityType, FS_EmptySet DEF Height

\* A text is below those that come before it, and no lower than all of them.
LEMMA TextIsBelow ==
    ASSUME NEW texts \in Seq(Nat), NEW w \in Nat \ {0}, NEW i \in 1 .. Len(texts),
           NEW part \in Seq(Nat), Len(part) = i - 1, \A k \in 1 .. i - 1 : part[k] = texts[k]
    PROVE  Height(part, w) + Lines(texts[i], w) <= Height(texts, w)
<1> DEFINE P == LinesOf(part, w)
           T == {i} \X (1 .. Lines(texts[i], w))
           W == LinesOf(texts, w)
<1>1. /\ Len(texts) \in Nat /\ DOMAIN texts = 1 .. Len(texts) /\ DOMAIN part = 1 .. i - 1
      /\ texts[i] \in Nat
    BY LenProperties, ElementOfSeq
<1>2. Lines(texts[i], w) \in Nat
    BY <1>1, TextHasLine
<1>3. IsFiniteSet(P) /\ IsFiniteSet(W) /\ Cardinality(P) = Height(part, w)
      /\ Cardinality(W) = Height(texts, w) /\ Height(part, w) \in Nat /\ Height(texts, w) \in Nat
    BY TextsHaveHeight DEF Height
<1>4. IsFiniteSet(T) /\ Cardinality(T) = Lines(texts[i], w)
  <2>1. IsFiniteSet({i}) /\ Cardinality({i}) = 1
    BY FS_Singleton
  <2> DEFINE L == Lines(texts[i], w)
  <2>2. IsFiniteSet(1 .. L) /\ Cardinality(1 .. L) = L
    BY <1>2, FirstNumbers
  <2>3. IsFiniteSet(T) /\ Cardinality(T) = Cardinality({i}) * Cardinality(1 .. L)
    <3> HIDE DEF L
    <3> QED BY <2>1, <2>2, FS_Product DEF L
  <2>4. Cardinality(T) = 1 * L
    BY <2>1, <2>2, <2>3
  <2> QED BY <1>2, <2>3, <2>4
<1>5. P \subseteq W /\ T \subseteq W
  <2>1. ASSUME NEW k \in DOMAIN part
        PROVE  k \in DOMAIN texts /\ part[k] = texts[k]
    BY <1>1
  <2>2. P \subseteq W
    BY <2>1 DEF LinesOf
  <2>3. T \subseteq W
    BY <1>1 DEF LinesOf
  <2> QED BY <2>2, <2>3
<1>6. P \cap T = {}
  <2>1. \A x \in P : x[1] \in DOMAIN part
    BY DEF LinesOf
  <2>2. \A x \in T : x[1] = i
    OBVIOUS
  <2>3. i \notin DOMAIN part
    BY <1>1
  <2> QED BY <2>1, <2>2, <2>3
<1> HIDE DEF P, T, W
<1>7. Cardinality(P \cup T) = Cardinality(P) + Cardinality(T)
  <2>1. Cardinality(P \cap T) = 0
    BY <1>6, FS_EmptySet
  <2>2. Cardinality(P \cup T) = Cardinality(P) + Cardinality(T) - Cardinality(P \cap T)
    BY <1>3, <1>4, FS_Union
  <2> QED BY <1>2, <1>3, <1>4, <2>1, <2>2
<1>8. Cardinality(P \cup T) <= Cardinality(W)
    BY <1>3, <1>5, FS_Subset
<1> QED BY <1>3, <1>4, <1>7, <1>8

\* The lengths of URLs.
LEMMA CellsOfUrls ==
    ASSUME NEW urls \in Seq(Urls)
    PROVE  /\ CellsOf(urls) \in Seq(Nat) /\ Len(CellsOf(urls)) = Len(urls)
           /\ \A i \in 1 .. Len(urls) : CellsOf(urls)[i] = UrlCells[urls[i]]
                                        /\ urls[i] \in Urls /\ UrlCells[urls[i]] \in Nat
<1>1. Len(urls) \in Nat /\ DOMAIN urls = 1 .. Len(urls)
      /\ \A i \in 1 .. Len(urls) : urls[i] \in Urls
    BY LenProperties, ElementOfSeq
<1>2. \A i \in 1 .. Len(urls) : UrlCells[urls[i]] \in Nat
    BY <1>1, UrlCellsAssumption
<1>3. CellsOf(urls) = [i \in 1 .. Len(urls) |-> UrlCells[urls[i]]]
    BY <1>1 DEF CellsOf
<1> QED BY <1>1, <1>2, <1>3, IsASeq

\* The texts above the links have lengths, and there is one at least.
LEMMA TextsAreLengths ==
    ASSUME NEW a \in Content
    PROVE  Texts(a) \in Seq(Nat) /\ Texts(a) # <<>>
<1>1. /\ a.title \in Nat /\ a.meta \in Nat /\ a.labels \in Nat /\ a.body \in Nat /\ a.note \in Nat
      /\ a.link \in Seq(Urls) /\ a.attachments \in Seq(Urls)
    BY DEF Content
<1>2. \A s, t \in Seq(Nat) : s \o t \in Seq(Nat) /\ Len(s \o t) = Len(s) + Len(t)
    BY ConcatProperties
<1>3. \A n \in Nat : <<n>> \in Seq(Nat)
    OBVIOUS
<1>4. CellsOf(a.link) \in Seq(Nat) /\ CellsOf(a.attachments) \in Seq(Nat)
    BY <1>1, CellsOfUrls
<1> DEFINE head == <<a.title>> \o Blank \o <<a.meta>>
           mid == head \o CellsOf(a.link) \o If(a.labels) \o Blank \o <<a.body>>
           note == IF a.note = 0 THEN <<>> ELSE Blank \o <<5, a.note>>
           attached == IF a.attachments = <<>> THEN <<>> ELSE Blank \o <<12>> \o CellsOf(a.attachments)
<1>5. Blank \in Seq(Nat) /\ If(a.labels) \in Seq(Nat)
    BY <1>1, <1>3 DEF Blank, If
<1>6. head \in Seq(Nat) /\ Len(head) = 3
  <2> DEFINE title == <<a.title>>
             meta == <<a.meta>>
             t == title \o Blank
  <2>1. title \in Seq(Nat) /\ meta \in Seq(Nat)
    BY <1>1, <1>3
  <2>2. Len(title) = 1 /\ Len(Blank) = 1 /\ Len(meta) = 1
    BY DEF Blank
  <2>3. head = t \o meta
    OBVIOUS
  <2> HIDE DEF title, meta, head
  <2>4. t \in Seq(Nat) /\ Len(t) = Len(title) + Len(Blank)
    BY <1>2, <1>5, <2>1
  <2> HIDE DEF t
  <2>5. head \in Seq(Nat) /\ Len(head) = Len(t) + Len(meta)
    BY <1>2, <2>1, <2>3, <2>4
  <2> QED BY <2>2, <2>4, <2>5
<1>7. mid \in Seq(Nat) /\ Len(mid) # 0
  <2>1. <<a.body>> \in Seq(Nat)
    BY <1>1, <1>3
  <2> DEFINE t1 == head \o CellsOf(a.link)
             t2 == t1 \o If(a.labels)
             t3 == t2 \o Blank
  <2>2. t1 \in Seq(Nat) /\ Len(t1) = Len(head) + Len(CellsOf(a.link)) /\ Len(CellsOf(a.link)) \in Nat
    <3> HIDE DEF head
    <3> QED BY <1>2, <1>4, <1>6, LenProperties
  <2>3. t2 \in Seq(Nat) /\ Len(t2) = Len(t1) + Len(If(a.labels)) /\ Len(If(a.labels)) \in Nat
    <3> HIDE DEF t1
    <3> QED BY <1>2, <1>5, <2>2, LenProperties
  <2>4. t3 \in Seq(Nat) /\ Len(t3) = Len(t2) + Len(Blank) /\ Len(Blank) \in Nat
    <3> HIDE DEF t2
    <3> QED BY <1>2, <1>5, <2>3, LenProperties
  <2>5. mid = t3 \o <<a.body>>
    OBVIOUS
  <2> HIDE DEF t1, t2, t3, head, mid
  <2>6. mid \in Seq(Nat) /\ Len(mid) = Len(t3) + Len(<<a.body>>) /\ Len(<<a.body>>) \in Nat
    BY <1>2, <2>1, <2>4, <2>5, LenProperties
  <2> QED BY <1>6, <2>2, <2>3, <2>4, <2>6
<1>8. note \in Seq(Nat) /\ Len(note) \in Nat
  <2>1. <<5, a.note>> \in Seq(Nat) /\ <<>> \in Seq(Nat)
    BY <1>1
  <2> QED BY <1>2, <1>5, <2>1, LenProperties
<1>9. attached \in Seq(Nat) /\ Len(attached) \in Nat
  <2>1. <<12>> \in Seq(Nat) /\ <<>> \in Seq(Nat)
    BY <1>3
  <2>2. Blank \o <<12>> \in Seq(Nat)
    BY <1>2, <1>5, <2>1
  <2>3. (Blank \o <<12>>) \o CellsOf(a.attachments) \in Seq(Nat)
    BY <1>2, <1>4, <2>2
  <2> QED BY <2>1, <2>3, LenProperties
<1>10. Texts(a) = (mid \o note) \o attached
    BY DEF Texts
<1> HIDE DEF mid, note, attached
<1>11. Len(mid) \in Nat
    BY <1>7, LenProperties
<1>12. mid \o note \in Seq(Nat) /\ Len(mid \o note) = Len(mid) + Len(note)
    BY <1>2, <1>7, <1>8
<1>13. Texts(a) \in Seq(Nat) /\ Len(Texts(a)) = Len(mid \o note) + Len(attached)
    BY <1>2, <1>9, <1>10, <1>12
<1>14. Len(Texts(a)) # 0
    BY <1>7, <1>8, <1>9, <1>11, <1>12, <1>13
<1> QED BY <1>13, <1>14, EmptySeq

-----------------------------------------------------------------------------
(* The wrapped text.                                                       *)

\* A text has lines, and its links have lines of it.
WellWrapped(t) ==
    /\ t.nlines \in Nat \ {0}
    /\ t.links \in Seq(Link)
    /\ \A i \in DOMAIN t.links : t.links[i].line + t.links[i].nlines <= t.nlines

\* article_rebuild makes such a text of every article, at any width.
LEMMA ArticleIsWellWrapped ==
    ASSUME NEW a \in Content, NEW w \in Nat \ {0}
    PROVE  WellWrapped(Wrapped(a, w))
<1> DEFINE urls == UrlsOf(a)
           texts == Texts(a) \o (IF urls = <<>> THEN <<>> ELSE Blank \o <<6>>)
           above == Height(texts, w)
           cells == CellsOf(urls)
           n == Len(urls)
<1>1. urls \in Seq(Urls) /\ n \in Nat /\ DOMAIN urls = 1 .. n
    BY EachUrlOnce, LenProperties
<1>2. /\ cells \in Seq(Nat) /\ Len(cells) = n
      /\ \A i \in 1 .. n : cells[i] = UrlCells[urls[i]] /\ urls[i] \in Urls /\ UrlCells[urls[i]] \in Nat
  <2> HIDE DEF urls
  <2> QED BY <1>1, CellsOfUrls
<1>3. texts \in Seq(Nat) /\ texts # <<>>
  <2>1. Texts(a) \in Seq(Nat) /\ Texts(a) # <<>>
    BY TextsAreLengths
  <2> DEFINE heading == IF urls = <<>> THEN <<>> ELSE Blank \o <<6>>
  <2>2. heading \in Seq(Nat)
    <3>1. Blank \in Seq(Nat) /\ <<6>> \in Seq(Nat) /\ <<>> \in Seq(Nat)
      BY DEF Blank
    <3>2. Blank \o <<6>> \in Seq(Nat)
      BY <3>1, ConcatProperties
    <3> QED BY <3>1, <3>2
  <2>3. texts = Texts(a) \o heading
    OBVIOUS
  <2> HIDE DEF heading, texts
  <2>4. texts \in Seq(Nat) /\ Len(texts) = Len(Texts(a)) + Len(heading)
    BY <2>1, <2>2, <2>3, ConcatProperties
  <2>5. Len(Texts(a)) \in Nat /\ Len(Texts(a)) # 0 /\ Len(heading) \in Nat
    BY <2>1, <2>2, LenProperties, EmptySeq
  <2>6. Len(texts) # 0
    BY <2>4, <2>5
  <2> QED BY <2>4, <2>6, EmptySeq
<1> HIDE DEF urls, texts, cells, n
<1>4. above \in Nat \ {0} /\ Height(cells, w) \in Nat
    BY <1>2, <1>3, TextsHaveHeight
<1>5. ASSUME NEW i \in 1 .. n
      PROVE  /\ Height(CellsOf(SubSeq(urls, 1, i - 1)), w) \in Nat
             /\ Lines(UrlCells[urls[i]], w) \in Nat \ {0}
             /\ Height(CellsOf(SubSeq(urls, 1, i - 1)), w) + Lines(UrlCells[urls[i]], w)
                   <= Height(cells, w)
  <2> DEFINE before == SubSeq(urls, 1, i - 1)
             part == CellsOf(before)
  <2>1. /\ before \in Seq(Urls) /\ Len(before) = i - 1
        /\ \A k \in 1 .. i - 1 : before[k] = urls[k]
    BY <1>1, SubSeqProperties DEF n
  <2> HIDE DEF before
  <2>2. /\ part \in Seq(Nat) /\ Len(part) = i - 1
        /\ \A k \in 1 .. i - 1 : part[k] = UrlCells[before[k]]
    BY <2>1, CellsOfUrls
  <2> HIDE DEF part
  <2>3. \A k \in 1 .. i - 1 : part[k] = cells[k]
    BY <1>1, <1>2, <2>1, <2>2
  <2>4. i \in 1 .. Len(cells) /\ cells[i] = UrlCells[urls[i]] /\ UrlCells[urls[i]] \in Nat
    BY <1>2
  <2>5. Height(part, w) + Lines(cells[i], w) <= Height(cells, w)
    BY <1>2, <2>2, <2>3, <2>4, TextIsBelow
  <2>6. Height(part, w) \in Nat
    BY <2>2, TextsHaveHeight
  <2>7. Lines(UrlCells[urls[i]], w) \in Nat \ {0}
    BY <2>4, TextHasLine
  <2> QED BY <2>4, <2>5, <2>6, <2>7 DEF part, before
<1> DEFINE links_ == LinksBelow(above, urls, w)
<1>6. /\ DOMAIN links_ = 1 .. n
      /\ \A i \in 1 .. n :
            links_[i] = [url |-> urls[i],
                         line |-> above + Height(CellsOf(SubSeq(urls, 1, i - 1)), w),
                         nlines |-> Lines(UrlCells[urls[i]], w)]
    BY <1>1 DEF LinksBelow
<1>7. links_ = [i \in 1 .. n |-> links_[i]]
    BY <1>1 DEF LinksBelow
<1>8. Wrapped(a, w) = [nlines |-> above + Height(cells, w), links |-> links_]
    BY DEF Wrapped, urls, texts, cells
<1> HIDE DEF above, links_
<1>9. \A i \in 1 .. n : links_[i] \in Link
  <2> TAKE i \in 1 .. n
  <2>1. urls[i] \in Urls /\ above + Height(CellsOf(SubSeq(urls, 1, i - 1)), w) \in Nat
    BY <1>2, <1>4, <1>5
  <2> QED BY <1>5, <1>6, <2>1 DEF Link
<1>10. \A i \in 1 .. n : links_[i].line + links_[i].nlines <= above + Height(cells, w)
  <2> TAKE i \in 1 .. n
  <2>1. links_[i].line = above + Height(CellsOf(SubSeq(urls, 1, i - 1)), w)
        /\ links_[i].nlines = Lines(UrlCells[urls[i]], w)
    BY <1>6
  <2> QED BY <1>4, <1>5, <2>1
<1>11. links_ \in Seq(Link)
    BY <1>1, <1>7, <1>9, IsASeq
<1>12. above + Height(cells, w) \in Nat \ {0}
    BY <1>4
<1> QED BY <1>6, <1>8, <1>10, <1>11, <1>12 DEF WellWrapped

-----------------------------------------------------------------------------
(* The invariant.                                                          *)

\* The text is that of the article, at the width of the pane.
Current ==
    IF art = NoArticle
    THEN links = <<>>
    ELSE /\ wrap = WidthFor(ColumnsFor(size, only))
         /\ nlines = Wrapped(art, wrap).nlines
         /\ links = Wrapped(art, wrap).links

\* Even in a pane without rows the text is scrolled to its end and no further.
InText == scroll <= nlines

IInv == TypeOK /\ Current /\ NeverBlank /\ InText

\* What the pane knows of the text: it has lines, and the links are lines of it.
LEMMA TextHasLines ==
    ASSUME TypeOK, Current, art # NoArticle
    PROVE  /\ nlines \in Nat \ {0}
           /\ \A i \in DOMAIN links : links[i].line + links[i].nlines <= nlines
<1>1. art \in Content /\ wrap = WidthFor(ColumnsFor(size, only))
    BY ContentsAssumption DEF TypeOK, Current
<1>2. wrap \in Nat \ {0}
    BY <1>1, RowsOfPane, WidthIsPositive DEF TypeOK
<1>3. WellWrapped(Wrapped(art, wrap))
    BY <1>1, <1>2, ArticleIsWellWrapped
<1> QED BY <1>3 DEF Current, WellWrapped

LEMMA RowsOfThisPane == TypeOK => rows \in Nat
BY RowsOfPane DEF TypeOK, rows

\* The invariant of a pane without an article.
LEMMA EmptyPane ==
    ASSUME size' \in Sizes, only' \in BOOLEAN, art' = NoArticle, wrap' \in Nat, nlines' = 0,
           links' = <<>>, scroll' = 0, sel' \in {0, -1}, blind' = FALSE
    PROVE  IInv'
<1>1. links' \in Seq(Link)
    OBVIOUS
<1>2. /\ art' \in Contents \cup {NoArticle}
      /\ nlines' \in Nat /\ scroll' \in Nat
      /\ sel' \in Int /\ sel' >= -1
    OBVIOUS
<1>3. TypeOK'
    BY <1>1, <1>2 DEF TypeOK
<1> QED
    BY <1>3 DEF IInv, Current, NeverBlank, InText

\* A text that is wrapped anew is current, and its first line is shown.
LEMMA RebuildIsCurrent ==
    ASSUME NEW sz \in Sizes, NEW o \in BOOLEAN, NEW a \in Contents \cup {NoArticle},
           wrap \in Nat, size' = sz, only' = o, Rebuild(a, ColumnsFor(sz, o))
    PROVE  IInv'
<1>1. ColumnsFor(sz, o) \in Int
    BY RowsOfPane
<1>2. CASE a = NoArticle
  <2>1. /\ art' = NoArticle /\ scroll' = 0 /\ sel' = -1 /\ blind' = FALSE
        /\ nlines' = 0 /\ links' = <<>> /\ wrap' = wrap
      BY <1>2 DEF Rebuild
  <2> QED
      BY <2>1, EmptyPane
<1>3. CASE a # NoArticle
  <2>1. WellWrapped(Wrapped(a, WidthFor(ColumnsFor(sz, o))))
    <3>1. a \in Content
        BY <1>3, ContentsAssumption
    <3> QED
        BY <1>1, <3>1, WidthIsPositive, ArticleIsWellWrapped
  <2>2. WidthFor(ColumnsFor(sz, o)) \in Nat
      BY <1>1, WidthOfText
  <2>3. art' = a /\ scroll' = 0 /\ sel' = -1 /\ blind' = FALSE
      BY DEF Rebuild
  <2>4. /\ wrap' = WidthFor(ColumnsFor(sz, o))
        /\ nlines' = Wrapped(a, wrap').nlines /\ links' = Wrapped(a, wrap').links
      BY <1>3 DEF Rebuild
  <2>5. nlines' \in Nat \ {0} /\ links' \in Seq(Link)
      BY <2>1, <2>4 DEF WellWrapped
  <2>6. TypeOK'
    <3>1. Len(links') \in Nat
        BY <2>5
    <3>2. sel' \in Int /\ sel' >= -1 /\ scroll' \in Nat
        BY <2>3
    <3>3. blind' \in BOOLEAN
        BY <2>3
    <3>4. wrap' \in Nat
        BY <2>2, <2>4
    <3>5. sel' < Len(links')
        BY <2>3, <3>1
    <3> QED
        BY <2>3, <2>5, <3>2, <3>4, <3>5, <3>3 DEF TypeOK
  <2>7. Current'
      BY <1>3, <2>3, <2>4 DEF Current
  <2>8. NeverBlank'
      BY <2>3, <2>5 DEF NeverBlank
  <2>9. InText'
      BY <2>3, <2>5 DEF InText
  <2> QED
      BY <2>6, <2>7, <2>8, <2>9 DEF IInv
<1> QED
    BY <1>2, <1>3

\* Wherever the text is scrolled to, a line of it is at the top of the pane.
LEMMA ClampKeepsLine ==
    ASSUME TypeOK, Current, NEW s \in Int
    PROVE  /\ Clamp(s) \in Nat
           /\ art # NoArticle /\ rows # 0 => Clamp(s) < nlines
           /\ Clamp(s) <= nlines
<1>1. rows \in Nat /\ nlines \in Nat
    BY RowsOfThisPane DEF TypeOK
<1>2. art # NoArticle => nlines # 0
    BY TextHasLines
<1> HIDE DEF rows
<1> QED
    BY <1>1, <1>2 DEF Clamp, MaxScroll, AtLeast, AtMost

\* The link that is selected next is one of the list.
LEMMA NextSelInList ==
    ASSUME TypeOK, links # <<>>, NEW delta \in {1, -1}
    PROVE  /\ NextSel(delta) \in 0 .. Len(links) - 1
           /\ NextSel(delta) + 1 \in DOMAIN links
<1>1. Len(links) \in Nat \ {0} /\ sel \in Int /\ DOMAIN links = 1 .. Len(links)
    BY DEF TypeOK
<1> DEFINE n == Len(links)
<1>2. \A k \in Int, m \in Nat \ {0} : k % m \in 0 .. m - 1
    OBVIOUS
<1>3. sel + delta \in Int /\ n \in Nat \ {0}
    BY <1>1
<1> HIDE DEF n
<1>4. (sel + delta) % n \in 0 .. n - 1
    BY <1>2, <1>3
<1> USE DEF n
<1> QED
    BY <1>1, <1>4 DEF NextSel

LEMMA RevealIsInt ==
    ASSUME TypeOK, NEW i \in DOMAIN links
    PROVE  Reveal(links[i]) \in Int
<1>1. links[i] \in Link
    BY DEF TypeOK
<1>2. links[i].line \in Nat /\ links[i].nlines \in Nat /\ scroll \in Nat /\ rows \in Nat
    BY <1>1, RowsOfThisPane DEF TypeOK, Link
<1> QED
    BY <1>2 DEF Reveal

LEMMA InitInv == Init => IInv
<1> SUFFICES ASSUME Init PROVE IInv
    OBVIOUS
<1>1. links = <<>> /\ links \in Seq(Link)
    BY DEF Init
<1>2. /\ art \in Contents \cup {NoArticle}
      /\ wrap \in Nat /\ nlines \in Nat /\ scroll \in Nat
      /\ sel \in Int /\ sel >= -1
    BY DEF Init
<1>3. TypeOK
    BY <1>1, <1>2 DEF Init, TypeOK
<1> QED
    BY <1>3 DEF Init, IInv, Current, NeverBlank, InText

\* A movement that scrolls to a place in the text keeps the invariant.
LEMMA MovementInv ==
    ASSUME IInv, art # NoArticle, NEW s \in Int, scroll' = Clamp(s),
           blind' = (blind \/ rows = 0), UNCHANGED <<layout, text>>,
           sel' \in Int, sel' >= -1, links # <<>> => sel' < Len(links)
    PROVE  IInv'
<1>1. Clamp(s) \in Nat /\ Clamp(s) <= nlines /\ (rows # 0 => Clamp(s) < nlines)
    BY ClampKeepsLine DEF IInv
<1>2. TypeOK'
    BY <1>1 DEF IInv, TypeOK, layout, text
<1>3. Current'
    BY DEF IInv, Current, layout, text
<1>4. NeverBlank' /\ InText'
    BY <1>1 DEF NeverBlank, InText, text
<1> QED
    BY <1>2, <1>3, <1>4 DEF IInv

LEMMA ScrollInv == ASSUME IInv, NEW d \in Int, Scroll(d) PROVE IInv'
<1>1. scroll + d \in Int
    BY DEF IInv, TypeOK
<1> QED
    BY <1>1, MovementInv DEF Scroll, IInv, TypeOK

LEMMA LinkMoveInv == ASSUME IInv, NEW d \in {1, -1}, LinkMove(d) PROVE IInv'
<1>1. links # <<>> /\ art # NoArticle
    BY DEF LinkMove, IInv, Current
<1>2. sel' \in 0 .. Len(links) - 1 /\ sel' + 1 \in DOMAIN links
    BY <1>1, NextSelInList DEF LinkMove, IInv
<1>3. Reveal(links[sel' + 1]) \in Int
    BY <1>2, RevealIsInt DEF IInv
<1>4. sel' \in Int /\ sel' >= -1 /\ sel' < Len(links)
    BY <1>2 DEF IInv, TypeOK
<1> QED
    BY <1>1, <1>3, <1>4, MovementInv DEF LinkMove

LEMMA LayoutInv == ASSUME IInv, DoLayout PROVE IInv'
<1> DEFINE cols == ColumnsFor(size', only')
<1>1. cols \in Int /\ size' \in Sizes /\ only' \in BOOLEAN
    BY RowsOfPane DEF DoLayout
<1>2. CASE NeedsRewrap(cols)
    BY <1>1, <1>2, RebuildIsCurrent DEF DoLayout, IInv, TypeOK
<1>3. CASE ~NeedsRewrap(cols)
  <2>1. UNCHANGED <<text, scroll, sel, blind>>
      BY <1>3 DEF DoLayout
  <2>2. art # NoArticle => wrap = WidthFor(cols)
    <3> SUFFICES ASSUME art # NoArticle PROVE wrap = WidthFor(cols)
        OBVIOUS
    <3>1. wrap = cols - 2
        BY <1>3 DEF NeedsRewrap
    <3>2. wrap >= 4
        BY RowsOfPane DEF IInv, Current, TypeOK, WidthFor, AtLeast
    <3> QED
        BY <1>1, <3>1, <3>2 DEF WidthFor, AtLeast
  <2>3. TypeOK'
      BY <1>1, <2>1 DEF IInv, TypeOK, text
  <2>4. Current'
      BY <2>1, <2>2 DEF IInv, Current, text
  <2>5. NeverBlank' /\ InText'
      BY <2>1 DEF IInv, NeverBlank, InText, text
  <2> QED
      BY <2>3, <2>4, <2>5 DEF IInv
<1> QED
    BY <1>2, <1>3

LEMMA NextInv == IInv /\ [Next]_vars => IInv'
<1> SUFFICES ASSUME IInv, [Next]_vars PROVE IInv'
    OBVIOUS
<1>0. size \in Sizes /\ only \in BOOLEAN /\ wrap \in Nat
    BY DEF IInv, TypeOK
<1>1. ASSUME NEW a \in Contents, Load(a) PROVE IInv'
    BY <1>0, <1>1, RebuildIsCurrent DEF Load, layout
<1>2. CASE LoadFails
    BY <1>0, <1>2, EmptyPane DEF LoadFails, layout
<1>3. ASSUME NEW n \in Notes, NEW onArticle \in BOOLEAN, SetNote(n, onArticle) PROVE IInv'
  <2> DEFINE a == IF onArticle THEN [art EXCEPT !.note = n] ELSE art
  <2>1. a \in Contents \cup {NoArticle}
      BY <1>3, NotesAssumption DEF SetNote, IInv, TypeOK
  <2> QED
      BY <1>0, <1>3, <2>1, RebuildIsCurrent DEF SetNote, layout
<1>4. CASE DoLayout
    BY <1>4, LayoutInv
<1>5. CASE Down \/ Up \/ PageDown \/ PageUp
  <2>1. rows \in Int /\ -rows \in Int
      BY RowsOfThisPane DEF IInv
  <2> QED
      BY <1>5, <2>1, ScrollInv DEF Down, Up, PageDown, PageUp, Page
<1>6. CASE LinkNext \/ LinkPrev
    BY <1>6, LinkMoveInv DEF LinkNext, LinkPrev
<1>7. CASE UNCHANGED vars
    BY <1>7 DEF vars, IInv, TypeOK, Current, NeverBlank, InText
<1> QED
    BY <1>1, <1>2, <1>3, <1>4, <1>5, <1>6, <1>7 DEF Next

THEOREM Invariance == Spec => []IInv
BY InitInv, NextInv, PTL DEF Spec

-----------------------------------------------------------------------------
(* What follows.                                                           *)

\* Every variable has its type, and a selected link is one of the list.
THEOREM TypeCorrect == Spec => []TypeOK
<1>1. IInv => TypeOK
    BY DEF IInv
<1> QED
    BY <1>1, Invariance, PTL

\* The text is always that of the open article at the width of the pane.
THEOREM TextAlwaysFollowsWidth == Spec => []WrapFollowsWidth
<1>1. IInv => WrapFollowsWidth
    BY DEF IInv, Current, WrapFollowsWidth
<1> QED
    BY <1>1, Invariance, PTL

\* Every URL of the open article is in the list of links once, whatever the
\* article has and however its text is wrapped.
THEOREM LinksAlwaysListEachUrl == Spec => []LinksListEachUrl
<1>1. ASSUME IInv PROVE LinksListEachUrl
  <2> SUFFICES ASSUME art # NoArticle
               PROVE  /\ \A k \in DOMAIN AllUrls(art) : \E i \in DOMAIN links : links[i].url = AllUrls(art)[k]
                      /\ \A i, j \in DOMAIN links : links[i].url = links[j].url => i = j
    BY DEF LinksListEachUrl
  <2>1. art \in Content
    BY <1>1, ContentsAssumption DEF IInv, TypeOK
  <2>2. links = Wrapped(art, wrap).links
    BY <1>1 DEF IInv, Current
  <2>3. DOMAIN links = DOMAIN UrlsOf(art) /\ \A i \in DOMAIN links : links[i].url = UrlsOf(art)[i]
    BY <2>2 DEF Wrapped, LinksBelow
  <2> QED BY <2>1, <2>3, EachUrlOnce
<1> QED
    BY <1>1, Invariance, PTL

\* No sequence of resizes and movements scrolls all of the text out of a pane
\* that has rows.
THEOREM PaneNeverBlank == Spec => []NeverBlank
<1>1. IInv => NeverBlank
    BY DEF IInv
<1> QED
    BY <1>1, Invariance, PTL

\* Moving to a link brings it into the pane, wherever the text was scrolled to.
THEOREM LinkAlwaysRevealed == Spec => LinkRevealed
<1>1. ASSUME IInv, NEW d \in {1, -1}, LinkMove(d), rows > 0 PROVE SelectedVisible'
  <2> DEFINE l == links[sel' + 1]
  <2>1. links # <<>> /\ art # NoArticle
      BY <1>1 DEF LinkMove, IInv, Current
  <2>2. sel' + 1 \in DOMAIN links
      BY <1>1, <2>1, NextSelInList DEF LinkMove, IInv
  <2>3. l.line \in Nat /\ l.nlines \in Nat \ {0} /\ l.line + l.nlines <= nlines
    <3>1. l \in Link
        BY <1>1, <2>2 DEF IInv, TypeOK
    <3> QED
        BY <1>1, <2>1, <2>2, <3>1, TextHasLines DEF IInv, Link
  <2>4. rows \in Nat /\ nlines \in Nat /\ scroll \in Nat
      BY <1>1, RowsOfThisPane DEF IInv, TypeOK
  <2>5. scroll' = Clamp(Reveal(l)) /\ rows' = rows /\ Selected' = l
      BY <1>1 DEF LinkMove, layout, text, rows, Selected
  <2> HIDE DEF l, rows
  <2>6. /\ l.line < Clamp(Reveal(l)) + rows
        /\ Clamp(Reveal(l)) < l.line + l.nlines
        /\ l.nlines <= rows => Clamp(Reveal(l)) <= l.line
                               /\ l.line + l.nlines <= Clamp(Reveal(l)) + rows
      BY <1>1, <2>3, <2>4 DEF Clamp, MaxScroll, Reveal, AtLeast, AtMost
  <2> QED
      BY <2>5, <2>6 DEF SelectedVisible
<1>2. IInv /\ [Next]_vars => [(LinkNext \/ LinkPrev) /\ rows > 0 => SelectedVisible']_vars
    BY <1>1 DEF LinkNext, LinkPrev
<1> QED
    BY <1>2, Invariance, PTL DEF Spec, LinkRevealed

\* Paging through the text shows every line of it.
THEOREM PagingNeverSkips == Spec => PagingSkipsNothing
<1>1. ASSUME IInv, rows > 0, PageDown
      PROVE  scroll' <= scroll + rows /\ (scroll' > scroll \/ nlines <= scroll + rows)
  <2>1. rows \in Nat /\ rows > 0 /\ nlines \in Nat /\ scroll \in Nat
      BY <1>1, RowsOfThisPane DEF IInv, TypeOK
  <2>2. scroll' = Clamp(scroll + rows)
      BY <1>1 DEF PageDown, Page, Scroll
  <2> HIDE DEF rows
  <2> QED
      BY <2>1, <2>2 DEF Clamp, MaxScroll, AtLeast, AtMost
<1>2. ASSUME IInv, rows > 0, PageUp
      PROVE  scroll' >= scroll - rows /\ (scroll' < scroll \/ scroll = 0)
  <2>1. rows \in Nat /\ rows > 0 /\ nlines \in Nat /\ scroll \in Nat /\ scroll <= nlines
      BY <1>2, RowsOfThisPane DEF IInv, TypeOK, InText
  <2>2. scroll' = Clamp(scroll + (-rows))
      BY <1>2 DEF PageUp, Page, Scroll
  <2> HIDE DEF rows
  <2> QED
      BY <2>1, <2>2 DEF Clamp, MaxScroll, AtLeast, AtMost
<1>3. IInv /\ [Next]_vars =>
        [rows > 0 =>
           /\ PageDown => scroll' <= scroll + rows /\ (scroll' > scroll \/ nlines <= scroll + rows)
           /\ PageUp => scroll' >= scroll - rows /\ (scroll' < scroll \/ scroll = 0)]_vars
    BY <1>1, <1>2
<1> QED
    BY <1>3, Invariance, PTL DEF Spec, PagingSkipsNothing
=============================================================================
