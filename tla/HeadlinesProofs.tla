-------------------------- MODULE HeadlinesProofs --------------------------
(***************************************************************************)
(* Theorems of Headlines, for every set of lists, heights and page sizes.  *)
(* One inductive invariant, a conjunction of parts that need each other,   *)
(* gives the safety properties that the runs check.                        *)
(***************************************************************************)
EXTENDS Headlines, TLAPS, WellFoundedInduction, SequenceTheorems

-----------------------------------------------------------------------------
(* Lemmas about the operators of the model.                                *)

\* A non-empty set of natural numbers has a least element.
LEMMA LeastElement ==
    ASSUME NEW S \in SUBSET Nat, S # {}
    PROVE  \E i \in S : \A j \in S : i <= j
<1> DEFINE Less == {p \in Nat \X Nat : p[1] < p[2]}
<1>1. IsWellFoundedOn(Less, Nat)
  <2>1. OpToRel(<, Nat) = Less
    BY DEF OpToRel
  <2> QED BY <2>1, NatLessThanWellFounded
<1> HIDE DEF Less
<1>2. PICK i \in S : \A j \in S : ~ (<<j, i>> \in Less)
    BY <1>1, WFMin
<1>3. ASSUME NEW j \in S, ~ (i <= j)
      PROVE  FALSE
  <2>1. i \in Nat /\ j \in Nat /\ j < i
    BY <1>3
  <2>2. <<j, i>> \in {p \in Nat \X Nat : p[1] < p[2]}
    BY <2>1
  <2> QED BY <1>2, <2>2 DEF Less
<1> QED BY <1>3

\* A page is a sequence of the list's own headlines, taken from `skip' on: no
\* longer than the limit, and shorter only at the end of the list.
LEMMA PageIsSlice ==
    ASSUME NEW list \in Seq(Headline), NEW skip \in Nat, NEW n \in Nat
    PROVE  LET page == Page(list, skip, n)
           IN  /\ page \in Seq(Headline)
               /\ Len(page) \in Nat
               /\ Len(page) <= n
               /\ skip <= Len(list) => skip + Len(page) <= Len(list)
               /\ Len(page) < n => skip + Len(page) >= Len(list)
               /\ \A i \in 1 .. Len(page) : page[i] = list[skip + i]
<1> DEFINE m == IF skip + n < Len(list) THEN skip + n ELSE Len(list)
<1>1. Len(list) \in Nat
    BY LenProperties
<1>2. m \in Int
    BY <1>1
<1>3. CASE skip + 1 <= m
  <2>1. /\ SubSeq(list, skip + 1, m) \in Seq(Headline)
        /\ Len(SubSeq(list, skip + 1, m)) = m - skip
        /\ \A i \in 1 .. m - skip : SubSeq(list, skip + 1, m)[i] = list[skip + i]
    BY <1>1, <1>2, <1>3, SubSeqProperties
  <2> QED
    BY <2>1, <1>1, <1>2, <1>3 DEF Page
<1>4. CASE ~ (skip + 1 <= m)
  <2>1. SubSeq(list, skip + 1, m) = << >>
    BY <1>1, <1>2, <1>4, SubSeqEmpty
  <2> QED
    BY <2>1, <1>1, <1>2, <1>4 DEF Page
<1> QED BY <1>3, <1>4

\* Past the end of the list a page is empty.
LEMMA PagePastEnd ==
    ASSUME NEW list \in Seq(Headline), NEW skip \in Nat, NEW n \in Nat, Len(list) <= skip
    PROVE  Page(list, skip, n) = <<>>
<1> DEFINE m == IF skip + n < Len(list) THEN skip + n ELSE Len(list)
<1>1. Len(list) \in Nat /\ m \in Int /\ m < skip + 1
    BY LenProperties
<1>2. SubSeq(list, skip + 1, m) = <<>>
    BY <1>1, SubSeqEmpty
<1> QED BY <1>2 DEF Page

\* The pre-selected row is a row of the list, or 0 if it has no unread one.
LEMMA FirstUnreadIsRow ==
    ASSUME NEW list \in Seq(Headline)
    PROVE  /\ FirstUnread(list) \in Nat
           /\ FirstUnread(list) < Len(list) \/ FirstUnread(list) = 0
<1>1. Len(list) \in Nat
    BY LenProperties
<1>2. UnreadRows(list) \in SUBSET Nat
    BY <1>1 DEF UnreadRows
<1>3. CASE UnreadRows(list) = {}
    BY <1>3 DEF FirstUnread
<1>4. CASE UnreadRows(list) # {}
  <2>1. \E i \in UnreadRows(list) : \A j \in UnreadRows(list) : i <= j
    BY <1>2, <1>4, LeastElement
  <2>2. FirstUnread(list) \in UnreadRows(list)
    BY <2>1, <1>4 DEF FirstUnread
  <2> QED
    BY <2>2, <1>1 DEF UnreadRows
<1> QED BY <1>3, <1>4

\* Setting the unread flag of a headline leaves its id alone.
LEMMA FlagKeepsHeadline ==
    ASSUME NEW h \in Headline, NEW flag \in BOOLEAN
    PROVE  /\ [h EXCEPT !.unread = flag] \in Headline
           /\ [h EXCEPT !.unread = flag].id = h.id
BY DEF Headline

\* The window that follows a selection starts at or above it, at a row, and
\* ends below it when it shows any.
LEMMA WindowHoldsSelection ==
    ASSUME NEW s \in Nat, NEW t \in Nat, rows \in Int
    PROVE  /\ WindowTop(s, t) \in Nat
           /\ WindowTop(s, t) <= s
           /\ rows > 0 => s < WindowTop(s, t) + rows
BY DEF WindowTop

-----------------------------------------------------------------------------
(* The invariant.  The list can be paged exactly, the selection is a row   *)
(* of it and the window shows that row.                                    *)

Inv ==
    /\ TypeOK
    /\ SelectionInRange
    /\ SelectionVisible
    /\ PagingExact
    /\ MoreMeansProgress

\* What a request may do to the list: it keeps the invariant's parts about
\* paging, and no headline is lost.
ListStep ==
    /\ listing' \in Seq(Headline)
    /\ heads' \in Seq(Headline)
    /\ hasMore' \in BOOLEAN
    /\ limit' \in Nat
    /\ fresh' \in BOOLEAN
    /\ Len(heads) <= Len(heads')
    /\ PagingExact'
    /\ MoreMeansProgress'

\* No request: the list is what it was.
LEMMA NoFetchIsListStep ==
    ASSUME Inv, NoFetch
    PROVE  ListStep
<1>1. Len(heads) \in Nat
    BY LenProperties DEF Inv, TypeOK
<1> QED
    BY <1>1 DEF Inv, TypeOK, NoFetch, ListStep, PagingExact, MoreMeansProgress

\* headlines_load_more appends exactly the articles that follow.
LEMMA FetchMoreIsListStep ==
    ASSUME Inv, hasMore, FetchMore
    PROVE  ListStep
<1> DEFINE page == Page(listing, Len(heads), limit)
<1>1. /\ Len(heads) \in Nat
      /\ Len(listing) \in Nat
      /\ limit \in Nat
      /\ listing \in Seq(Headline)
      /\ heads \in Seq(Headline)
    BY LenProperties DEF Inv, TypeOK
<1>2. /\ page \in Seq(Headline)
      /\ Len(page) \in Nat
      /\ Len(heads) <= Len(listing) => Len(heads) + Len(page) <= Len(listing)
      /\ Len(page) < limit => Len(heads) + Len(page) >= Len(listing)
      /\ \A i \in 1 .. Len(page) : page[i] = listing[Len(heads) + i]
    BY <1>1, PageIsSlice
<1>3. /\ heads' = heads \o page
      /\ hasMore' = (Len(page) >= limit)
      /\ ~hasMore' => ~(Len(page) >= limit)
      /\ listing' = listing /\ limit' = limit /\ fresh' = fresh
    BY DEF FetchMore, IsFull
<1> HIDE DEF page
<1>4. /\ heads' \in Seq(Headline)
      /\ Len(heads') = Len(heads) + Len(page)
      /\ \A i \in 1 .. Len(heads) + Len(page) :
            heads'[i] = IF i <= Len(heads) THEN heads[i] ELSE page[i - Len(heads)]
    BY <1>1, <1>2, <1>3, ConcatProperties
<1>5. PagingExact'
  <2> SUFFICES ASSUME fresh'
               PROVE  /\ Len(heads') <= Len(listing')
                      /\ \A i \in 1 .. Len(heads') : heads'[i].id = listing'[i].id
                      /\ ~hasMore' => Len(heads') = Len(listing')
    BY DEF PagingExact
  <2>1. /\ Len(heads) <= Len(listing)
        /\ \A i \in 1 .. Len(heads) : heads[i].id = listing[i].id
    BY <1>3 DEF Inv, PagingExact
  <2>2. Len(heads') <= Len(listing')
    BY <2>1, <1>1, <1>2, <1>3, <1>4
  <2>3. ASSUME NEW i \in 1 .. Len(heads')
        PROVE  heads'[i].id = listing'[i].id
    <3>1. CASE i <= Len(heads)
      BY <3>1, <2>1, <1>1, <1>2, <1>3, <1>4
    <3>2. CASE ~ (i <= Len(heads))
      <4>1. i - Len(heads) \in 1 .. Len(page)
        BY <3>2, <1>1, <1>2, <1>4
      <4>2. heads'[i] = page[i - Len(heads)]
        BY <3>2, <1>1, <1>2, <1>4
      <4>3. page[i - Len(heads)] = listing[Len(heads) + (i - Len(heads))]
        BY <4>1, <1>2
      <4>4. Len(heads) + (i - Len(heads)) = i
        BY <1>1, <1>2, <1>4
      <4> QED BY <4>2, <4>3, <4>4, <1>3
    <3> QED BY <3>1, <3>2
  <2>4. ASSUME ~hasMore'
        PROVE  Len(heads') = Len(listing')
    <3>1. Len(page) < limit
      <4>1. ~(Len(page) >= limit)
        BY <2>4, <1>3
      <4> QED BY <4>1, <1>1, <1>2
    <3>2. listing' = listing
      BY <1>3
    <3> QED BY <3>1, <3>2, <2>1, <1>1, <1>2, <1>4
  <2> QED BY <2>2, <2>3, <2>4
<1>6. MoreMeansProgress'
  <2>1. limit > 0 /\ heads # <<>>
    BY DEF Inv, MoreMeansProgress
  <2>2. Len(heads) # 0
    BY <2>1, <1>1, EmptySeq
  <2>3. Len(heads') # 0
    BY <2>2, <1>1, <1>2, <1>4
  <2>4. heads' # <<>>
    BY <2>3, EmptySeq
  <2> QED BY <2>1, <2>4, <1>3 DEF MoreMeansProgress
<1> QED
  BY <1>1, <1>2, <1>3, <1>4, <1>5, <1>6 DEF ListStep, Inv, TypeOK

\* Selecting a row of the list brings it into the window.
LEMMA SelectKeepsWindow ==
    ASSUME Inv, NEW s \in Nat, Len(heads') \in Nat, s < Len(heads'),
           Select(s), rows' = rows
    PROVE  /\ sel' \in Int /\ top' \in Int /\ placed' \in BOOLEAN
           /\ SelectionInRange'
           /\ SelectionVisible'
<1>1. top \in Nat /\ rows \in Int
    BY DEF Inv, TypeOK, SelectionInRange
<1>2. /\ sel' = s
      /\ top' \in Nat
      /\ top' <= s
      /\ rows > 0 => s < top' + rows
    BY <1>1, WindowHoldsSelection DEF Select
<1> QED
    BY <1>1, <1>2 DEF Select, SelectionInRange, SelectionVisible

\* headlines_load: the first page is the beginning of the list, and its
\* pre-selected row is on screen because the page is no higher than the pane.
LEMMA LoadKeepsInv ==
    ASSUME Inv, NEW l \in Listings, Load(l)
    PROVE  Inv'
<1>1. /\ listing' = l /\ l \in Seq(Headline)
      /\ limit' = PageSize(rows, PageDefault)
      /\ top' = 0 /\ placed' = TRUE
      /\ rows' = rows /\ pc' = pc /\ rows \in Int
      /\ pc \in {"idle", "end"}
    BY ListingsAssumption DEF Load, Inv, TypeOK
<1>2. /\ limit' \in Nat /\ limit' > 0
      /\ rows > 0 => limit' = rows
    BY <1>1, PageDefaultAssumption DEF PageSize
<1>3. CASE LoadSucceeds(l)
  <2> DEFINE page == Page(l, 0, limit')
  <2>1. /\ page \in Seq(Headline)
        /\ Len(page) \in Nat /\ Len(l) \in Nat
        /\ Len(page) <= limit'
        /\ Len(page) <= Len(l)
        /\ Len(page) < limit' => Len(page) >= Len(l)
        /\ \A i \in 1 .. Len(page) : page[i] = l[i]
    <3>1. /\ page \in Seq(Headline)
          /\ Len(page) \in Nat
          /\ Len(page) <= limit'
          /\ 0 <= Len(l) => 0 + Len(page) <= Len(l)
          /\ Len(page) < limit' => 0 + Len(page) >= Len(l)
          /\ \A i \in 1 .. Len(page) : page[i] = l[0 + i]
      BY <1>1, <1>2, PageIsSlice
    <3>2. Len(l) \in Nat
      BY <1>1, LenProperties
    <3>3. \A i \in 1 .. Len(page) : 0 + i = i
      OBVIOUS
    <3> QED BY <3>1, <3>2, <3>3
  <2>2. /\ heads' = page
        /\ hasMore' = (Len(page) >= limit')
        /\ sel' = FirstUnread(page)
        /\ fresh' = TRUE
    BY <1>3 DEF LoadSucceeds, IsFull
  <2> HIDE DEF page
  <2>3. /\ sel' \in Nat
        /\ sel' < Len(page) \/ sel' = 0
    BY <2>1, <2>2, FirstUnreadIsRow
  <2>4. TypeOK'
    BY <1>1, <1>2, <2>1, <2>2, <2>3 DEF TypeOK
  <2>5. SelectionInRange'
    <3>1. heads' = <<>> \/ Len(heads') > 0
      BY <2>1, <2>2, EmptySeq
    <3>2. CASE heads' = <<>>
      BY <3>2, <1>1, <2>1, <2>2, <2>3, EmptySeq DEF SelectionInRange
    <3>3. CASE Len(heads') > 0
      BY <3>3, <1>1, <2>1, <2>2, <2>3 DEF SelectionInRange
    <3> QED BY <3>1, <3>2, <3>3
  <2>6. SelectionVisible'
    BY <1>1, <1>2, <2>1, <2>3 DEF SelectionVisible
  <2>7. PagingExact'
    <3>1. ASSUME ~hasMore'
          PROVE  Len(heads') = Len(listing')
      <4>1. ~(Len(page) >= limit')
        BY <3>1, <2>2
      <4> QED BY <4>1, <1>1, <1>2, <2>1, <2>2
    <3> QED BY <3>1, <1>1, <2>1, <2>2 DEF PagingExact
  <2>8. MoreMeansProgress'
    <3>1. ASSUME hasMore'
          PROVE  heads' # <<>>
      <4>1. Len(page) >= limit'
        BY <3>1, <2>2
      <4>2. Len(page) > 0
        BY <4>1, <1>2, <2>1
      <4> QED BY <4>2, <2>2, EmptySeq
    <3> QED BY <3>1, <1>2 DEF MoreMeansProgress
  <2> QED BY <2>4, <2>5, <2>6, <2>7, <2>8 DEF Inv
<1>4. CASE LoadFails
  <2>1. heads' = <<>> /\ ~hasMore' /\ sel' = 0 /\ ~fresh' /\ heads' \in Seq(Headline)
        /\ hasMore' \in BOOLEAN /\ fresh' \in BOOLEAN
    BY <1>4, EmptySeq DEF LoadFails
  <2> QED
    BY <1>1, <1>2, <2>1
    DEF Inv, TypeOK, SelectionInRange, SelectionVisible, PagingExact, MoreMeansProgress
<1> QED BY <1>3, <1>4 DEF Load

\* headlines_move: a row that is loaded, whether the key had to fetch or not.
LEMMA MoveKeepsInv ==
    ASSUME Inv, NEW delta \in Int, Move(delta)
    PROVE  Inv'
<1>1. /\ Len(heads) \in Nat /\ Len(heads) > 0
      /\ sel \in Nat /\ sel < Len(heads)
      /\ rows' = rows /\ pc' = pc /\ rows \in Int /\ pc \in {"idle", "end"}
  <2>1. heads \in Seq(Headline) /\ heads # <<>>
    BY DEF Inv, TypeOK, Move
  <2>2. Len(heads) \in Nat \ {0}
    BY <2>1, EmptySeq
  <2>3. sel \in Nat /\ sel < Len(heads)
    BY <2>1, <2>2 DEF Inv, TypeOK, SelectionInRange
  <2> QED BY <2>2, <2>3 DEF Inv, TypeOK, Move
<1>2. ASSUME ListStep, NEW s \in Nat, s < Len(heads'), Select(s)
      PROVE  Inv'
  <2>1. Len(heads') \in Nat
    BY <1>2, LenProperties DEF ListStep
  <2>2. /\ sel' \in Int /\ top' \in Int /\ placed' \in BOOLEAN
        /\ SelectionInRange'
        /\ SelectionVisible'
    BY <1>1, <1>2, <2>1, SelectKeepsWindow
  <2> QED BY <1>1, <1>2, <2>2 DEF Inv, TypeOK, ListStep
<1>3. CASE MoveInside(delta)
  <2> DEFINE idx == IF sel + delta < 0 THEN 0 ELSE sel + delta
  <2>1. NoFetch /\ idx < Len(heads) /\ Select(idx)
    BY <1>3 DEF MoveInside
  <2>2. idx \in Nat
    BY <1>1
  <2>3. ListStep /\ heads' = heads
    BY <2>1, NoFetchIsListStep DEF NoFetch
  <2> QED BY <2>1, <2>2, <2>3, <1>2
<1>4. CASE MovePastEnd(delta)
  <2> DEFINE idx == sel + delta
  <2>1. idx \in Nat /\ idx >= Len(heads)
    BY <1>1, <1>4 DEF MovePastEnd
  <2>2. CASE /\ hasMore
             /\ FetchMore
             /\ Select(IF idx < Len(heads') THEN idx ELSE LastRow(Len(heads')))
    <3>1. ListStep
      BY <2>2, FetchMoreIsListStep
    <3>2. Len(heads') \in Nat /\ Len(heads') >= Len(heads)
      BY <3>1, <1>1, LenProperties DEF ListStep
    <3> DEFINE s == IF idx < Len(heads') THEN idx ELSE LastRow(Len(heads'))
    <3>3. s \in Nat /\ s < Len(heads')
      BY <3>2, <2>1, <1>1 DEF LastRow
    <3>4. Select(s)
      BY <2>2
    <3> QED BY <3>1, <3>3, <3>4, <1>2
  <2>3. CASE NoFetch /\ UNCHANGED <<sel, top, placed>>
    BY <2>3, <1>1
    DEF NoFetch, Inv, TypeOK, SelectionInRange, SelectionVisible, PagingExact,
        MoreMeansProgress
  <2>4. CASE NoFetch /\ Select(LastRow(Len(heads)))
    <3>1. ListStep /\ heads' = heads
      BY <2>4, NoFetchIsListStep DEF NoFetch
    <3>2. LastRow(Len(heads)) \in Nat /\ LastRow(Len(heads)) < Len(heads)
      BY <1>1 DEF LastRow
    <3> QED BY <3>1, <3>2, <2>4, <1>2
  <2> QED BY <1>4, <2>2, <2>3, <2>4 DEF MovePastEnd
<1> QED BY <1>3, <1>4 DEF Move

\* headlines_end: the loop only fetches, and then the last row is selected.
LEMMA EndKeepsInv ==
    ASSUME Inv, EndBegin \/ EndStep
    PROVE  Inv'
<1>1. /\ Len(heads) \in Nat /\ heads \in Seq(Headline)
      /\ sel \in Nat /\ top \in Nat /\ top <= sel /\ rows \in Int
      /\ heads = <<>> => (Len(heads) = 0 /\ sel = 0)
      /\ heads # <<>> => (Len(heads) > 0 /\ sel < Len(heads))
  <2>1. heads \in Seq(Headline)
    BY DEF Inv, TypeOK
  <2>2. /\ Len(heads) \in Nat
        /\ heads = <<>> => Len(heads) = 0
        /\ heads # <<>> => Len(heads) > 0
    BY <2>1, EmptySeq, LenProperties
  <2> QED BY <2>1, <2>2 DEF Inv, TypeOK, SelectionInRange
<1>2. CASE EndBegin
  BY <1>2 DEF EndBegin, Inv, TypeOK, SelectionInRange, SelectionVisible,
              PagingExact, MoreMeansProgress
<1>3. CASE EndFetch
  <2>1. ListStep
    BY <1>3, FetchMoreIsListStep DEF EndFetch
  <2>2. /\ sel' = sel /\ top' = top /\ rows' = rows /\ pc' = pc
        /\ placed' = placed /\ hasMore
    BY <1>3 DEF EndFetch
  <2>3. heads # <<>>
    BY <2>2 DEF Inv, MoreMeansProgress
  <2>4. Len(heads') \in Nat /\ Len(heads) <= Len(heads')
    BY <2>1, LenProperties DEF ListStep
  <2>5. SelectionInRange'
    BY <1>1, <2>2, <2>3, <2>4 DEF SelectionInRange
  <2> QED
    BY <2>1, <2>2, <2>5 DEF Inv, TypeOK, ListStep, SelectionVisible
<1>4. CASE EndFinish
  <2>1. ListStep /\ heads' = heads
    BY <1>4, NoFetchIsListStep DEF EndFinish, NoFetch
  <2>2. rows' = rows /\ pc' = "idle" /\ placed' = TRUE
    BY <1>4 DEF EndFinish, SelectLast
  <2>3. /\ sel' \in Nat /\ top' \in Nat /\ top' <= sel'
        /\ sel' < Len(heads) \/ (heads = <<>> /\ sel' = 0)
        /\ rows > 0 => sel' < top' + rows
    BY <1>1, <1>4 DEF EndFinish, SelectLast, LastRow
  <2>4. TypeOK'
    BY <1>1, <2>1, <2>2, <2>3 DEF TypeOK, ListStep
  <2>5. SelectionInRange'
    BY <2>1, <2>3 DEF SelectionInRange
  <2>6. SelectionVisible'
    BY <2>2, <2>3 DEF SelectionVisible
  <2> QED
    BY <2>1, <2>4, <2>5, <2>6 DEF Inv, ListStep
<1> QED BY <1>2, <1>3, <1>4 DEF EndStep, EndExhausted, EndFails

\* next_unread selects a row of the list.
LEMMA NextUnreadKeepsInv ==
    ASSUME Inv, NextUnread
    PROVE  Inv'
<1>1. /\ Len(heads) \in Nat /\ Len(heads) > 0 /\ sel \in Nat
      /\ NoFetch /\ rows' = rows /\ pc' = pc
  <2>1. heads \in Seq(Headline) /\ heads # <<>>
    BY DEF Inv, TypeOK, NextUnread
  <2>2. Len(heads) \in Nat \ {0}
    BY <2>1, EmptySeq
  <2> QED BY <2>2 DEF Inv, TypeOK, SelectionInRange, NextUnread
<1>2. PICK k \in NextUnreadRows : Select((sel + 1 + k) % Len(heads))
    BY DEF NextUnread
<1>3. k \in Nat
    BY <1>1 DEF NextUnreadRows
<1> DEFINE s == (sel + 1 + k) % Len(heads)
<1>4. s \in Nat /\ s < Len(heads)
    BY <1>1, <1>3
<1>5. ListStep /\ heads' = heads
    BY <1>1, NoFetchIsListStep DEF NoFetch
<1>6. /\ sel' \in Int /\ top' \in Int /\ placed' \in BOOLEAN
      /\ SelectionInRange'
      /\ SelectionVisible'
    BY <1>1, <1>2, <1>4, <1>5, SelectKeepsWindow
<1> QED BY <1>1, <1>5, <1>6 DEF Inv, TypeOK, ListStep

\* A change of the server's list can only make the list loaded stale, and a
\* change of the flags moves no row.
LEMMA ChangeKeepsInv ==
    ASSUME Inv, NEW l \in Listings, listing' = l,
           fresh' = (fresh /\ SameIds(listing, l)),
           heads' \in Seq(Headline), Len(heads') = Len(heads),
           \A i \in 1 .. Len(heads) : heads'[i].id = heads[i].id,
           UNCHANGED <<hasMore, limit, sel, top, rows, pc, placed>>
    PROVE  Inv'
<1>1. /\ heads \in Seq(Headline) /\ l \in Seq(Headline) /\ listing \in Seq(Headline)
      /\ Len(heads) \in Nat /\ Len(listing) \in Nat
    BY ListingsAssumption, LenProperties DEF Inv, TypeOK
<1>2. heads' = <<>> <=> heads = <<>>
    BY <1>1, EmptySeq
<1>3. fresh' \in BOOLEAN
    OBVIOUS
<1>4. ASSUME fresh'
      PROVE  fresh /\ SameIds(listing, l)
    BY <1>4
<1>5. PagingExact'
  <2> SUFFICES ASSUME fresh'
               PROVE  /\ Len(heads') <= Len(listing')
                      /\ \A i \in 1 .. Len(heads') : heads'[i].id = listing'[i].id
                      /\ ~hasMore' => Len(heads') = Len(listing')
    BY DEF PagingExact
  <2>1. SameIds(listing, l) /\ fresh
    BY <1>4
  <2> QED BY <1>1, <2>1 DEF SameIds, Inv, PagingExact
<1> QED
    BY <1>1, <1>2, <1>3, <1>5
    DEF Inv, TypeOK, SelectionInRange, SelectionVisible, MoreMeansProgress

-----------------------------------------------------------------------------
(* The theorems.                                                           *)

\* The initial states satisfy the invariant: no list is loaded.
LEMMA InitInv == Init => Inv
<1> SUFFICES ASSUME Init PROVE Inv
    OBVIOUS
<1>1. /\ listing \in Seq(Headline) /\ rows \in Int
      /\ heads = <<>> /\ heads \in Seq(Headline)
    BY ListingsAssumption, RowCountsAssumption, EmptySeq DEF Init
<1>2. TypeOK
  <2>1. limit = IF rows > 0 THEN rows ELSE 0
    BY DEF Init, PageSize
  <2>2. limit \in Nat /\ sel \in Int /\ top \in Int /\ pc \in {"idle", "end"}
    BY <1>1, <2>1 DEF Init
  <2>3. hasMore \in BOOLEAN /\ fresh \in BOOLEAN /\ placed \in BOOLEAN
    BY DEF Init
  <2> QED BY <1>1, <2>2, <2>3 DEF TypeOK
<1>3. SelectionInRange /\ SelectionVisible
    BY <1>1 DEF Init, SelectionInRange, SelectionVisible
<1>4. PagingExact /\ MoreMeansProgress
    BY DEF Init, PagingExact, MoreMeansProgress
<1> QED
    BY <1>2, <1>3, <1>4 DEF Inv

\* Every step keeps the invariant.
LEMMA NextInv == Inv /\ [Next]_vars => Inv'
<1> SUFFICES ASSUME Inv, [Next]_vars PROVE Inv'
    OBVIOUS
<1>0. /\ heads \in Seq(Headline) /\ Len(heads) \in Nat /\ rows \in Int
      /\ \A j \in 1 .. Len(heads) : heads[j] \in Headline
    BY LenProperties, ElementOfSeq DEF Inv, TypeOK
<1>1. ASSUME NEW l \in Listings, Load(l) PROVE Inv'
    BY <1>1, LoadKeepsInv
<1>2. ASSUME Down \/ Up \/ PageDown \/ PageUp PROVE Inv'
    BY <1>0, <1>2, MoveKeepsInv DEF Down, Up, PageDown, PageUp
<1>3. CASE Home
  <2>1. ListStep /\ heads' = heads
    BY <1>3, NoFetchIsListStep DEF Home, NoFetch
  <2>2. heads = <<>> \/ Len(heads) > 0
    BY <1>0, EmptySeq
  <2> QED
    BY <1>0, <1>3, <2>1, <2>2
    DEF Home, Inv, TypeOK, ListStep, SelectionInRange, SelectionVisible
<1>4. CASE EndBegin \/ EndStep
    BY <1>4, EndKeepsInv
<1>5. CASE NextUnread
    BY <1>5, NextUnreadKeepsInv
<1>6. ASSUME NEW i \in 1 .. Len(heads), NEW flag \in BOOLEAN, NEW l \in Listings,
             MirrorUnread(i, flag, l)
      PROVE  Inv'
  <2>1. /\ [heads[i] EXCEPT !.unread = flag] \in Headline
        /\ [heads[i] EXCEPT !.unread = flag].id = heads[i].id
    BY <1>0, FlagKeepsHeadline
  <2>2. heads' = [heads EXCEPT ![i] = [heads[i] EXCEPT !.unread = flag]]
    BY <1>6 DEF MirrorUnread
  <2>3. /\ heads' \in Seq(Headline)
        /\ Len(heads') = Len(heads)
        /\ \A j \in 1 .. Len(heads) :
              heads'[j] = IF j = i THEN [heads[i] EXCEPT !.unread = flag] ELSE heads[j]
    BY <1>0, <2>1, <2>2, ExceptSeq
  <2>4. \A j \in 1 .. Len(heads) : heads'[j].id = heads[j].id
    BY <2>1, <2>3
  <2> QED BY <1>6, <2>3, <2>4, ChangeKeepsInv DEF MirrorUnread
<1>7. ASSUME NEW l \in Listings, CatchUp(l)
      PROVE  Inv'
  <2>1. heads' = [i \in 1 .. Len(heads) |-> [heads[i] EXCEPT !.unread = FALSE]]
    BY <1>7 DEF CatchUp
  <2>2. \A i \in 1 .. Len(heads) : /\ [heads[i] EXCEPT !.unread = FALSE] \in Headline
                                  /\ [heads[i] EXCEPT !.unread = FALSE].id = heads[i].id
    BY <1>0, FlagKeepsHeadline
  <2>3. heads' \in Seq(Headline) /\ Len(heads') = Len(heads)
    BY <1>0, <2>1, <2>2, IsASeq
  <2>4. /\ Len(heads') = Len(heads)
        /\ \A j \in 1 .. Len(heads) : heads'[j].id = heads[j].id
    BY <2>1, <2>2, <2>3
  <2> QED BY <1>7, <2>3, <2>4, ChangeKeepsInv DEF CatchUp
<1>8. ASSUME NEW r \in RowCounts, Resize(r) PROVE Inv'
  <2>1. /\ r \in Int /\ rows' = r
        /\ limit' = IF r > 0 THEN r ELSE limit
        /\ placed' \in BOOLEAN
        /\ placed' => placed /\ r = rows
        /\ UNCHANGED <<listing, heads, hasMore, sel, top, pc, fresh>>
    BY <1>8, RowCountsAssumption DEF Resize, PageSize
  <2>2. TypeOK' /\ MoreMeansProgress'
    BY <2>1 DEF Inv, TypeOK, MoreMeansProgress
  <2>3. SelectionInRange' /\ PagingExact'
    BY <2>1 DEF Inv, SelectionInRange, PagingExact
  <2>4. SelectionVisible'
    BY <2>1 DEF Inv, SelectionVisible
  <2> QED BY <2>2, <2>3, <2>4 DEF Inv
<1>9. ASSUME NEW l \in Listings, ServerChange(l) PROVE Inv'
    BY <1>0, <1>9, ChangeKeepsInv DEF ServerChange
<1>10. CASE UNCHANGED vars
    BY <1>10 DEF vars, Inv, TypeOK, SelectionInRange, SelectionVisible,
                 PagingExact, MoreMeansProgress
<1> QED
    BY <1>1, <1>2, <1>3, <1>4, <1>5, <1>6, <1>7, <1>8, <1>9, <1>10 DEF Next

\* The invariant holds of every behaviour of the list.
THEOREM Invariance == Spec => []Inv
<1> QED BY InitInv, NextInv, PTL DEF Spec

\* headline_current and the drawing loop always find the selection: it is a
\* row of the list, at or below the first visible row.
THEOREM SelectionAlwaysInRange == Spec => []SelectionInRange
<1>1. Inv => SelectionInRange
    BY DEF Inv
<1> QED BY <1>1, Invariance, PTL

\* Until the pane changes its height, the selected headline is on screen.
THEOREM SelectionAlwaysVisible == Spec => []SelectionVisible
<1>1. Inv => SelectionVisible
    BY DEF Inv
<1> QED BY <1>1, Invariance, PTL

\* headlines_load and headlines_load_more page exactly through a list that
\* holds still.
THEOREM PagingAlwaysExact == Spec => []PagingExact
<1>1. Inv => PagingExact
    BY DEF Inv
<1> QED BY <1>1, Invariance, PTL

\* The state of the list keeps its types.
THEOREM TypeCorrect == Spec => []TypeOK
<1>1. Inv => TypeOK
    BY DEF Inv
<1> QED BY <1>1, Invariance, PTL

\* More is expected only after a page that was full: headlines_load_more asks
\* with a limit that is not 0, and the loop of headlines_end gets on.
THEOREM MoreAlwaysMeansProgress == Spec => []MoreMeansProgress
<1>1. Inv => MoreMeansProgress
    BY DEF Inv
<1> QED BY <1>1, Invariance, PTL

\* Only the end of its loop takes headlines_end back to the keys.
LEMMA EndEndsWithFinish ==
    ASSUME [Next]_vars, pc = "end", pc' = "idle"
    PROVE  EndFinish
<1>1. pc' # pc
    OBVIOUS
<1>2. ~ (\E l \in Listings : Load(l)) /\ ~ Down /\ ~ Up /\ ~ PageDown /\ ~ PageUp
      /\ ~ Home /\ ~ EndBegin /\ ~ EndFetch /\ ~ NextUnread
    BY <1>1 DEF Load, Down, Up, PageDown, PageUp, Move, Home, EndBegin, EndFetch,
                NextUnread
<1>3. /\ ~ \E i \in 1 .. Len(heads), flag \in BOOLEAN, l \in Listings : MirrorUnread(i, flag, l)
      /\ ~ \E l \in Listings : CatchUp(l)
      /\ ~ \E r \in RowCounts : Resize(r)
      /\ ~ \E l \in Listings : ServerChange(l)
    BY <1>1 DEF MirrorUnread, CatchUp, Resize, ServerChange
<1>4. ~ UNCHANGED vars
    BY <1>1 DEF vars
<1> QED
    BY <1>2, <1>3, <1>4 DEF Next, EndStep, EndExhausted, EndFails

\* G ends on the last article of the server's list, when the list held still
\* and no request failed: the rows loaded are then the whole of that list.
THEOREM EndAlwaysReachesLast == Spec => EndReachesLast
<1>1. ASSUME Inv, Inv', [Next]_vars
      PROVE  (pc = "end" /\ pc' = "idle" /\ ~hasMore' /\ fresh' /\ heads # <<>>)
                => sel' = Len(listing') - 1
  <2> SUFFICES ASSUME pc = "end", pc' = "idle", ~hasMore', fresh', heads # <<>>
               PROVE  sel' = Len(listing') - 1
    OBVIOUS
  <2>1. EndFinish
    BY <1>1, EndEndsWithFinish
  <2>2. sel' = Len(heads) - 1 /\ heads' = heads
    BY <2>1 DEF EndFinish, SelectLast, LastRow, NoFetch
  <2>3. Len(heads') = Len(listing')
    BY <1>1 DEF Inv, PagingExact
  <2> QED BY <2>2, <2>3
<1>2. Inv /\ Inv' /\ [Next]_vars
         => [(pc = "end" /\ pc' = "idle" /\ ~hasMore' /\ fresh' /\ heads # <<>>)
                => sel' = Len(listing') - 1]_vars
    BY <1>1
<1> QED BY <1>2, Invariance, PTL DEF Spec, EndReachesLast

-----------------------------------------------------------------------------
(* The list is one that is read page by page.                              *)

IdsOf(list) == [i \in 1 .. Len(list) |-> list[i].id]

Paged == INSTANCE PagedList
         WITH Sizes <- Nat \ {0}, server <- IdsOf(listing), shown <- IdsOf(heads), more <- hasMore

LEMMA IdsType ==
    ASSUME NEW list \in Seq(Headline)
    PROVE  /\ IdsOf(list) \in Seq(Ids)
           /\ Len(IdsOf(list)) = Len(list)
           /\ \A i \in 1 .. Len(list) : IdsOf(list)[i] = list[i].id
<1>1. Len(list) \in Nat /\ \A i \in 1 .. Len(list) : list[i] \in Headline
    BY LenProperties, ElementOfSeq
<1>2. \A i \in 1 .. Len(list) : list[i].id \in Ids
    BY <1>1 DEF Headline
<1>3. IdsOf(list) \in Seq(Ids)
    BY <1>1, <1>2, IsASeq DEF IdsOf
<1> QED BY <1>1, <1>3 DEF IdsOf

\* Lists with the same ids, row by row.
LEMMA IdsEqual ==
    ASSUME NEW s \in Seq(Headline), NEW t \in Seq(Ids), Len(s) = Len(t),
           \A i \in 1 .. Len(s) : s[i].id = t[i]
    PROVE  IdsOf(s) = t
<1>1. IdsOf(s) \in Seq(Ids) /\ Len(IdsOf(s)) = Len(t)
      /\ \A i \in 1 .. Len(IdsOf(s)) : IdsOf(s)[i] = t[i]
    BY IdsType
<1> QED BY <1>1, SeqEqual

\* The ids of a page are a page of the ids.
LEMMA IdsOfPage ==
    ASSUME NEW list \in Seq(Headline), NEW skip \in Nat, NEW n \in Nat
    PROVE  IdsOf(Page(list, skip, n)) = Paged!Slice(IdsOf(list), skip, n)
<1> DEFINE ids == IdsOf(list)
           m == IF skip + n < Len(list) THEN skip + n ELSE Len(list)
<1>1. /\ ids \in Seq(Ids) /\ Len(ids) = Len(list) /\ Len(list) \in Nat /\ m \in Int
      /\ \A i \in 1 .. Len(list) : ids[i] = list[i].id
    BY IdsType, LenProperties
<1>2. /\ Page(list, skip, n) = SubSeq(list, skip + 1, m)
      /\ Paged!Slice(ids, skip, n) = SubSeq(ids, skip + 1, m)
    BY <1>1 DEF Page, Paged!Slice
<1>3. \A i \in skip + 1 .. m : i \in 1 .. Len(list)
    BY <1>1
<1>4. (\A i \in skip + 1 .. m : list[i] \in Headline) /\ (\A i \in skip + 1 .. m : ids[i] \in Ids)
    BY <1>1, <1>3, ElementOfSeq
<1>5. skip + 1 \in Int
    OBVIOUS
<1> HIDE DEF m, ids
<1>6. /\ SubSeq(list, skip + 1, m) \in Seq(Headline)
      /\ SubSeq(ids, skip + 1, m) \in Seq(Ids)
      /\ Len(SubSeq(list, skip + 1, m)) = Len(SubSeq(ids, skip + 1, m))
      /\ Len(SubSeq(list, skip + 1, m)) = IF skip + 1 <= m THEN m - (skip + 1) + 1 ELSE 0
    BY <1>1, <1>4, <1>5, SubSeqProperties
<1>7. ASSUME NEW i \in 1 .. Len(SubSeq(list, skip + 1, m))
      PROVE  SubSeq(list, skip + 1, m)[i].id = SubSeq(ids, skip + 1, m)[i]
  <2>1. i \in 1 .. m - (skip + 1) + 1 /\ skip + 1 + i - 1 \in skip + 1 .. m
    BY <1>1, <1>6
  <2>2. /\ SubSeq(list, skip + 1, m)[i] = list[skip + 1 + i - 1]
        /\ SubSeq(ids, skip + 1, m)[i] = ids[skip + 1 + i - 1]
    BY <1>1, <1>4, <1>5, <2>1, SubSeqProperties
  <2> QED BY <1>1, <1>3, <2>1, <2>2
<1> QED BY <1>2, <1>6, <1>7, IdsEqual DEF ids

\* headlines_load_more adds the page of ids that follows.
LEMMA FetchMoreExtends ==
    ASSUME Inv, hasMore, FetchMore
    PROVE  Paged!Extend(limit) /\ limit \in Nat \ {0}
<1> DEFINE page == Page(listing, Len(heads), limit)
<1>1. /\ listing \in Seq(Headline) /\ heads \in Seq(Headline) /\ Len(heads) \in Nat
      /\ limit \in Nat \ {0}
    BY LenProperties DEF Inv, TypeOK, MoreMeansProgress
<1>2. page \in Seq(Headline) /\ Len(page) \in Nat
    BY <1>1, PageIsSlice
<1>3. IdsOf(page) = Paged!Slice(IdsOf(listing), Len(heads), limit)
    BY <1>1, IdsOfPage
<1>4. heads' = heads \o page /\ hasMore' = (Len(page) >= limit) /\ listing' = listing
    BY DEF FetchMore, IsFull
<1> HIDE DEF page
<1>5. /\ Len(IdsOf(heads)) = Len(heads) /\ IdsOf(heads) \in Seq(Ids)
      /\ Len(IdsOf(page)) = Len(page) /\ IdsOf(page) \in Seq(Ids)
      /\ \A i \in 1 .. Len(heads) : IdsOf(heads)[i] = heads[i].id
      /\ \A i \in 1 .. Len(page) : IdsOf(page)[i] = page[i].id
    BY <1>1, <1>2, IdsType
<1>6. IdsOf(heads \o page) = IdsOf(heads) \o IdsOf(page)
  <2>1. /\ heads \o page \in Seq(Headline)
        /\ Len(heads \o page) = Len(heads) + Len(page)
        /\ \A i \in 1 .. Len(heads) + Len(page) :
              (heads \o page)[i] = IF i <= Len(heads) THEN heads[i] ELSE page[i - Len(heads)]
    BY <1>1, <1>2, ConcatProperties
  <2>2. /\ IdsOf(heads) \o IdsOf(page) \in Seq(Ids)
        /\ Len(IdsOf(heads) \o IdsOf(page)) = Len(heads) + Len(page)
        /\ \A i \in 1 .. Len(heads) + Len(page) :
              (IdsOf(heads) \o IdsOf(page))[i] =
                 IF i <= Len(heads) THEN IdsOf(heads)[i] ELSE IdsOf(page)[i - Len(heads)]
    <3> DEFINE s == IdsOf(heads)
               t == IdsOf(page)
    <3>1. s \in Seq(Ids) /\ t \in Seq(Ids) /\ Len(s) = Len(heads) /\ Len(t) = Len(page)
      BY <1>5
    <3> HIDE DEF s, t
    <3>2. /\ s \o t \in Seq(Ids)
          /\ Len(s \o t) = Len(s) + Len(t)
          /\ \A i \in 1 .. Len(s) + Len(t) : (s \o t)[i] = IF i <= Len(s) THEN s[i] ELSE t[i - Len(s)]
      BY <3>1, ConcatProperties
    <3> QED BY <3>1, <3>2 DEF s, t
  <2>3. ASSUME NEW i \in 1 .. Len(heads) + Len(page)
        PROVE  (heads \o page)[i].id = (IdsOf(heads) \o IdsOf(page))[i]
    <3>1. CASE i <= Len(heads)
      <4>1. i \in 1 .. Len(heads)
        BY <1>1, <3>1
      <4> QED BY <1>5, <2>1, <2>2, <3>1, <4>1
    <3>2. CASE ~ (i <= Len(heads))
      <4>1. i - Len(heads) \in 1 .. Len(page)
        BY <1>1, <1>2, <3>2
      <4> QED BY <1>5, <2>1, <2>2, <3>2, <4>1
    <3> QED BY <3>1, <3>2
  <2> QED BY <2>1, <2>2, <2>3, IdsEqual
<1>7. Paged!Extend(limit)
    BY <1>3, <1>4, <1>5, <1>6 DEF Paged!Extend, page
<1> QED BY <1>1, <1>7

\* A step that keeps the ids of the rows is one of the server.
LEMMA SameIdsChange ==
    ASSUME listing' \in Seq(Headline), heads \in Seq(Headline), heads' \in Seq(Headline),
           Len(heads') = Len(heads), \A i \in 1 .. Len(heads) : heads'[i].id = heads[i].id,
           hasMore' = hasMore
    PROVE  Paged!Change
<1>1. IdsOf(heads') = IdsOf(heads)
    BY IdsType, IdsEqual
<1>2. IdsOf(listing') \in Seq(Ids)
    BY IdsType
<1> QED BY <1>1, <1>2 DEF Paged!Change, IdsOf

LEMMA LoadOpens ==
    ASSUME Inv, NEW l \in Listings, Load(l)
    PROVE  Paged!LNext
<1> DEFINE page == Page(l, 0, limit')
<1>1. listing' = l /\ l \in Seq(Headline)
    BY ListingsAssumption DEF Load
<1>2. limit' \in Nat \ {0}
    BY PageDefaultAssumption DEF Load, PageSize, Inv, TypeOK
<1>3. IdsOf(l) \in Seq(Ids)
    BY <1>1, IdsType
<1>4. CASE LoadSucceeds(l)
  <2>1. heads' = page /\ hasMore' = (Len(page) >= limit')
    BY <1>4 DEF LoadSucceeds, IsFull
  <2>2. page \in Seq(Headline) /\ IdsOf(page) = Paged!Slice(IdsOf(l), 0, limit')
    BY <1>1, <1>2, PageIsSlice, IdsOfPage
  <2>3. Len(IdsOf(page)) = Len(page)
    BY <2>2, IdsType
  <2> HIDE DEF page
  <2>4. IdsOf(heads)' = IdsOf(page) /\ IdsOf(listing)' = IdsOf(l)
    BY <1>1, <2>1 DEF IdsOf
  <2>5. Paged!Open(limit')
    BY <1>3, <2>1, <2>2, <2>3, <2>4 DEF Paged!Open
  <2> QED BY <1>2, <2>5 DEF Paged!LNext
<1>5. CASE LoadFails
  <2>1. heads' = <<>> /\ hasMore' = FALSE
    BY <1>5 DEF LoadFails
  <2>2. IdsOf(heads)' = <<>> /\ IdsOf(listing)' = IdsOf(l)
    BY <1>1, <2>1 DEF IdsOf
  <2> QED BY <1>3, <2>1, <2>2 DEF Paged!OpenFails, Paged!LNext
<1> QED BY <1>4, <1>5 DEF Load

\* A movement fetches a page or none.
LEMMA MovePages ==
    ASSUME Inv, NEW delta \in Int, Move(delta)
    PROVE  [Paged!LNext]_Paged!lvars
<1>1. (hasMore /\ FetchMore) \/ NoFetch
    BY DEF Move, MoveInside, MovePastEnd
<1>2. ASSUME hasMore, FetchMore PROVE Paged!LNext
    BY <1>2, FetchMoreExtends DEF Paged!LNext
<1>3. ASSUME NoFetch PROVE UNCHANGED Paged!lvars
    BY <1>3 DEF NoFetch, Paged!lvars, IdsOf
<1> QED BY <1>1, <1>2, <1>3

\* The list that keys and handlers see is one that is read page by page: the
\* loads, the movements, the loop of G, the marks, the catch-up and the resizes
\* are steps of PagedList or change nothing of it.
THEOREM KeepsPagingPromise == Spec => Paged!LSpec
<1>1. Init => Paged!LInit
  <2> SUFFICES ASSUME Init PROVE Paged!LInit
    OBVIOUS
  <2>1. IdsOf(listing) \in Seq(Ids)
    BY ListingsAssumption, IdsType DEF Init
  <2>2. IdsOf(heads) = <<>> /\ hasMore = FALSE
    BY DEF Init, IdsOf
  <2> QED BY <2>1, <2>2 DEF Paged!LInit
<1>2. Inv /\ Inv' /\ [Next]_vars => [Paged!LNext]_Paged!lvars
  <2> SUFFICES ASSUME Inv, Inv', [Next]_vars PROVE [Paged!LNext]_Paged!lvars
    OBVIOUS
  <2>0. /\ heads \in Seq(Headline) /\ Len(heads) \in Nat /\ rows \in Int
        /\ heads' \in Seq(Headline) /\ listing' \in Seq(Headline)
        /\ \A j \in 1 .. Len(heads) : heads[j] \in Headline
    BY LenProperties, ElementOfSeq DEF Inv, TypeOK
  <2>1. ASSUME NEW l \in Listings, Load(l) PROVE Paged!LNext
    BY <2>1, LoadOpens
  <2>2. ASSUME Down \/ Up \/ PageDown \/ PageUp PROVE [Paged!LNext]_Paged!lvars
    BY <2>0, <2>2, MovePages DEF Down, Up, PageDown, PageUp
  <2>3. ASSUME Home \/ EndBegin \/ EndExhausted \/ EndFails \/ NextUnread \/ UNCHANGED vars
        PROVE  UNCHANGED Paged!lvars
    <3>1. UNCHANGED <<listing, heads, hasMore>>
      BY <2>3 DEF Home, EndBegin, EndExhausted, EndFails, EndFinish, NextUnread, NoFetch, vars
    <3> QED BY <3>1 DEF Paged!lvars, IdsOf
  <2>4. CASE EndFetch
    BY <2>4, FetchMoreExtends DEF EndFetch, Paged!LNext
  <2>5. ASSUME NEW i \in 1 .. Len(heads), NEW flag \in BOOLEAN, NEW l \in Listings,
               MirrorUnread(i, flag, l)
        PROVE  Paged!LNext
    <3>1. /\ [heads[i] EXCEPT !.unread = flag] \in Headline
          /\ [heads[i] EXCEPT !.unread = flag].id = heads[i].id
      BY <2>0, FlagKeepsHeadline
    <3>2. heads' = [heads EXCEPT ![i] = [heads[i] EXCEPT !.unread = flag]] /\ hasMore' = hasMore
      BY <2>5 DEF MirrorUnread
    <3>3. /\ Len(heads') = Len(heads)
          /\ \A j \in 1 .. Len(heads) :
                heads'[j] = IF j = i THEN [heads[i] EXCEPT !.unread = flag] ELSE heads[j]
      BY <2>0, <3>1, <3>2, ExceptSeq
    <3>4. \A j \in 1 .. Len(heads) : heads'[j].id = heads[j].id
      BY <3>1, <3>3
    <3> QED BY <2>0, <3>2, <3>3, <3>4, SameIdsChange DEF Paged!LNext
  <2>6. ASSUME NEW l \in Listings, CatchUp(l) PROVE Paged!LNext
    <3>1. heads' = [i \in 1 .. Len(heads) |-> [heads[i] EXCEPT !.unread = FALSE]] /\ hasMore' = hasMore
      BY <2>6 DEF CatchUp
    <3>2. \A i \in 1 .. Len(heads) : [heads[i] EXCEPT !.unread = FALSE].id = heads[i].id
      BY <2>0, FlagKeepsHeadline
    <3>3. Len(heads') = Len(heads)
      BY <2>0, <3>1
    <3>4. \A j \in 1 .. Len(heads) : heads'[j].id = heads[j].id
      BY <3>1, <3>2
    <3> QED BY <2>0, <3>1, <3>3, <3>4, SameIdsChange DEF Paged!LNext
  <2>7. ASSUME NEW r \in RowCounts, Resize(r) PROVE UNCHANGED Paged!lvars
    BY <2>7 DEF Resize, Paged!lvars, IdsOf
  <2>8. ASSUME NEW l \in Listings, ServerChange(l) PROVE Paged!LNext
    <3>1. heads' = heads /\ hasMore' = hasMore
      BY <2>8 DEF ServerChange
    <3> QED BY <2>0, <3>1, SameIdsChange DEF Paged!LNext
  <2> QED
    BY <2>1, <2>2, <2>3, <2>4, <2>5, <2>6, <2>7, <2>8 DEF Next, EndStep
<1> QED BY <1>1, <1>2, Invariance, PTL DEF Spec, Paged!LSpec

-----------------------------------------------------------------------------
(* A list that shrinks while it is read.                                   *)

\* Where the offset falls when rows have left the server's list - as they do in
\* the view of unread headlines when they are read -: of the loaded rows only
\* those in `kept' are still listed, and the rest of the old list follows them.
\* headlines_load_more, which asks at offset nheads, then passes over exactly as
\* many articles as have left the list, and takes the list for complete although
\* they are missing.
THEOREM ShrunkListSkips ==
    ASSUME TypeOK, FetchMore, NEW old \in Seq(Headline), NEW kept \in Seq(Headline),
           Len(heads) <= Len(old), Len(kept) <= Len(heads),
           listing = kept \o SubSeq(old, Len(heads) + 1, Len(old))
    PROVE  LET gone == Len(heads) - Len(kept)
           IN  /\ \A i \in Len(heads) + 1 .. Len(heads') : heads'[i] = old[i + gone]
               /\ ~hasMore' /\ Len(heads) + gone <= Len(old) => Len(heads') + gone = Len(old)
<1> DEFINE page == Page(listing, Len(heads), limit)
<1>1. /\ listing \in Seq(Headline) /\ heads \in Seq(Headline) /\ limit \in Nat
      /\ Len(heads) \in Nat /\ Len(kept) \in Nat /\ Len(old) \in Nat /\ Len(listing) \in Nat
    BY LenProperties DEF TypeOK
<1>2. /\ page \in Seq(Headline) /\ Len(page) \in Nat
      /\ Len(heads) <= Len(listing) => Len(heads) + Len(page) <= Len(listing)
      /\ Len(page) < limit => Len(heads) + Len(page) >= Len(listing)
      /\ \A i \in 1 .. Len(page) : page[i] = listing[Len(heads) + i]
  <2>1. /\ listing \in Seq(Headline) /\ Len(heads) \in Nat /\ limit \in Nat
    BY <1>1
  <2> QED BY Zenon, <2>1, PageIsSlice
<1> DEFINE rest == SubSeq(old, Len(heads) + 1, Len(old))
           gone == Len(heads) - Len(kept)
<1>3. heads' = heads \o page /\ hasMore' = (Len(page) >= limit)
    BY DEF FetchMore, IsFull
<1>4. /\ rest \in Seq(Headline) /\ Len(rest) = Len(old) - Len(heads)
      /\ \A i \in 1 .. Len(old) - Len(heads) : rest[i] = old[Len(heads) + i]
  <2>1. \A i \in Len(heads) + 1 .. Len(old) : old[i] \in Headline
    BY <1>1, ElementOfSeq
  <2>2. Len(heads) + 1 \in Int /\ Len(old) \in Int
    BY <1>1
  <2>3. /\ rest \in Seq(Headline)
        /\ Len(rest) = IF Len(heads) + 1 <= Len(old) THEN Len(old) - (Len(heads) + 1) + 1 ELSE 0
        /\ \A i \in 1 .. Len(old) - (Len(heads) + 1) + 1 : rest[i] = old[Len(heads) + 1 + i - 1]
    BY <2>1, <2>2, SubSeqProperties
  <2> HIDE DEF rest
  <2> QED BY <1>1, <2>3
<1>5. listing = kept \o rest
    OBVIOUS
<1> HIDE DEF page, rest
<1>6. /\ Len(listing) = Len(kept) + Len(rest)
      /\ \A i \in 1 .. Len(kept) + Len(rest) :
            listing[i] = IF i <= Len(kept) THEN kept[i] ELSE rest[i - Len(kept)]
  <2>1. kept \in Seq(Headline) /\ rest \in Seq(Headline)
    BY <1>4
  <2>2. /\ Len(kept \o rest) = Len(kept) + Len(rest)
        /\ \A i \in 1 .. Len(kept) + Len(rest) :
              (kept \o rest)[i] = IF i <= Len(kept) THEN kept[i] ELSE rest[i - Len(kept)]
    BY <2>1, ConcatProperties
  <2> QED BY <1>5, <2>2
<1>7. /\ Len(heads') = Len(heads) + Len(page)
      /\ \A i \in 1 .. Len(heads) + Len(page) :
            heads'[i] = IF i <= Len(heads) THEN heads[i] ELSE page[i - Len(heads)]
    BY <1>1, <1>2, <1>3, ConcatProperties
<1>8. gone \in Nat /\ Len(listing) + gone = Len(old)
    BY <1>1, <1>4, <1>6
<1>9. ASSUME NEW i \in Len(heads) + 1 .. Len(heads')
      PROVE  heads'[i] = old[i + gone]
  <2>1. i - Len(heads) \in 1 .. Len(page) /\ i \in 1 .. Len(heads) + Len(page) /\ ~ (i <= Len(heads))
    BY <1>1, <1>2, <1>7
  <2>2. heads'[i] = page[i - Len(heads)]
    BY <1>7, <2>1
  <2>3. page[i - Len(heads)] = listing[Len(heads) + (i - Len(heads))]
    BY <1>2, <2>1
  <2>4. Len(heads) + (i - Len(heads)) = i
    BY <1>1
  <2>5. i \in 1 .. Len(kept) + Len(rest) /\ ~ (i <= Len(kept))
    <3>1. Len(page) # 0
      BY <1>2, <2>1
    <3>2. Len(heads) <= Len(listing)
      <4>1. ~ (Len(listing) <= Len(heads))
        BY <3>1, <1>1, PagePastEnd, EmptySeq DEF page
      <4> QED BY <1>1, <4>1
    <3> QED BY <1>1, <1>2, <1>6, <2>1, <3>2
  <2>6. listing[i] = rest[i - Len(kept)]
    BY <1>6, <2>5
  <2>7. i - Len(kept) \in 1 .. Len(old) - Len(heads) /\ Len(heads) + (i - Len(kept)) = i + gone
    BY <1>1, <1>4, <2>5
  <2> QED BY <1>4, <2>2, <2>3, <2>4, <2>6, <2>7
<1>10. ASSUME ~hasMore', Len(heads) + gone <= Len(old)
       PROVE  Len(heads') + gone = Len(old)
  <2>1. Len(heads) <= Len(listing)
    BY <1>1, <1>8, <1>10
  <2>2. ~ (Len(page) >= limit)
    BY <1>3, <1>10
  <2>3. Len(heads) + Len(page) = Len(listing)
    BY <1>1, <1>2, <2>1, <2>2
  <2> QED BY <1>7, <1>8, <2>3
<1> QED BY <1>9, <1>10 DEF gone
=============================================================================
