------------------------------ MODULE Sidebar -------------------------------
(***************************************************************************)
(* The sidebar of tuituirss (src/ui/feedlist.c, with bump_sidebar_unread   *)
(* of src/ui/screen.c): the list that is built from the answers to         *)
(* getCategories and getFeeds, the selection, the window, and the folding  *)
(* of categories.                                                          *)
(*                                                                         *)
(* Selection and window are indices into the list, from 0 as in the code,  *)
(* and count the rows that are folded away.  A load replaces the list as a *)
(* whole.  What the server answers is external.                            *)
(***************************************************************************)
EXTENDS Lists, SequencesExt

CONSTANTS
    Answers,    \* what the two requests may answer, as [cats, feeds]
    RowCounts,  \* the heights ui_layout may give the pane
    MaxUnread,  \* bound: a count is followed up to here
    NoFeed      \* nothing has been loaded into the headline list

Special == -1  \* CATEGORY_SPECIAL
Labels == -2   \* CATEGORY_LABELS

\* The ids that model_is_virtual_feed knows.
VirtualFeeds == {0, -1, -2, -3, -4, -6}

Category == [id : Int, unread : Nat]
Feed == [id : Int, cat : Int, unread : Nat]
Sources == {"section", "virtual", "label", "category", "feed"}
Item == [source : Sources, id : Int, unread : Nat, expanded : BOOLEAN]

-----------------------------------------------------------------------------
(* The list feedlist_load builds.                                          *)

\* add_section, add_item
Section == [source |-> "section", id |-> 0, unread |-> 0, expanded |-> TRUE]
Entry(source, r) == [source |-> source, id |-> r.id, unread |-> r.unread, expanded |-> TRUE]
Entries(source, rs) == [i \in 1 .. Len(rs) |-> Entry(source, rs[i])]

\* A section with a header of its own, left out when it is empty.
Headed(s) == IF s = <<>> THEN <<>> ELSE <<Section>> \o s

\* Old servers answer the virtual feeds with category 0.
IsVirtual(f) == f.cat = Special \/ (f.cat = 0 /\ f.id \in VirtualFeeds)

\* Mutant: the feeds of a category are not told from virtual feeds.
IsFeedOfAny(f, c) == f.cat = c.id

\* The feeds of a category; getFeeds is not asked for nested categories, so no
\* answer is one (is_cat).
IsFeedOf(f, c) == f.cat = c.id /\ f.id > 0

\* What the loops of feedlist_load pick from the answers, by index.
Virtuals(feeds) == {n \in DOMAIN feeds : IsVirtual(feeds[n])}
LabelFeeds(feeds) == {n \in DOMAIN feeds : feeds[n].cat = Labels}
FeedsOf(c, feeds) == {n \in DOMAIN feeds : IsFeedOf(feeds[n], c)}
Ordinary(cats) == {n \in DOMAIN cats : cats[n].id >= 0}

CategoryBlock(c, feeds) ==
    <<Entry("category", c)>> \o Entries("feed", Subsequence(feeds, FeedsOf(c, feeds)))

CategoryBlocks(a) ==
    LET cats == Subsequence(a.cats, Ordinary(a.cats))
    IN  [i \in 1 .. Len(cats) |-> CategoryBlock(cats[i], a.feeds)]

Items(a) ==
    Headed(Entries("virtual", Subsequence(a.feeds, Virtuals(a.feeds))))
      \o Headed(Entries("label", Subsequence(a.feeds, LabelFeeds(a.feeds))))
      \o <<Section>>
      \o FlattenSeq(CategoryBlocks(a))

\* What a server answers: no two feeds have the same id, no two categories
\* either, and below 0 there are only the special category and the labels.
Answer ==
    {a \in [cats : Seq(Category), feeds : Seq(Feed)] :
        /\ \A m, n \in DOMAIN a.feeds : a.feeds[m].id = a.feeds[n].id => m = n
        /\ \A m, n \in DOMAIN a.cats : a.cats[m].id = a.cats[n].id => m = n
        /\ \A n \in DOMAIN a.cats : a.cats[n].id >= Labels}

ASSUME AnswersAssumption == Answers \subseteq Answer
ASSUME RowCountsAssumption == RowCounts \subseteq Nat \ {0}
ASSUME MaxUnreadAssumption == MaxUnread \in Nat
ASSUME NoFeedAssumption == NoFeed \notin Int

VARIABLES
    items,   \* app->items
    sel,     \* app->side_sel; -1 in a list without entries
    top,     \* app->side_top
    rows,    \* app->side_rows
    cur,     \* app->cur_id, once something has been loaded
    answer,  \* history: what the last complete load was answered
    placed   \* history: the pane kept its height since sel was last placed

vars == <<items, sel, top, rows, cur, answer, placed>>

-----------------------------------------------------------------------------
(* Rows.                                                                   *)

Indices == 0 .. Len(items) - 1
At(i) == items[i + 1]

\* The nearest item at depth 0 at or above an item.
Owner(i) ==
    CHOOSE j \in 0 .. i :
        At(j).source # "feed" /\ \A k \in j + 1 .. i : At(k).source = "feed"

\* item_visible: a feed is hidden when its category is collapsed.
Visible(i) == At(i).source = "feed" => At(Owner(i)).expanded

\* visible_pos: how many rows are above an index, be it one of the list or not.
VisiblePos(i) == Cardinality({j \in Indices : j < i /\ Visible(j)})

\* item_at_visible
ItemAtVisible(pos) ==
    IF \E i \in Indices : Visible(i) /\ VisiblePos(i) = pos
    THEN CHOOSE i \in Indices : Visible(i) /\ VisiblePos(i) = pos
    ELSE Len(items) - 1

\* Mutant: the window follows the selection one row too late.
ClampTopLate(s) ==
    IF VisiblePos(s) < VisiblePos(top)
    THEN s
    ELSE IF VisiblePos(s) > VisiblePos(top) + rows
         THEN ItemAtVisible(VisiblePos(s) - rows + 1)
         ELSE top

\* clamp_top: the first index of the window once it has followed to s.
ClampTop(s) ==
    IF VisiblePos(s) < VisiblePos(top)
    THEN s
    ELSE IF VisiblePos(s) >= VisiblePos(top) + rows
         THEN ItemAtVisible(VisiblePos(s) - rows + 1)
         ELSE top

\* Mutant: a row that is folded away can be selected.
SelectableAnywhere == {i \in Indices : At(i).source # "section"}

\* Where next_selectable stops.
Selectable == {i \in Indices : At(i).source # "section" /\ Visible(i)}

-----------------------------------------------------------------------------
(* Loads.                                                                  *)

\* The first entry, headers left aside.
FirstEntry(list) ==
    IF \E i \in 1 .. Len(list) : list[i].source # "section"
    THEN (CHOOSE i \in 1 .. Len(list) :
             /\ list[i].source # "section"
             /\ \A j \in 1 .. i - 1 : list[j].source = "section") - 1
    ELSE -1

\* feedlist_load, both requests answered.  It forgets the selection and what
\* was collapsed.
Load(a) ==
    /\ answer' = a
    /\ items' = Items(a)
    /\ sel' = FirstEntry(items')
    /\ top' = 0
    /\ placed' = TRUE
    /\ UNCHANGED <<rows, cur>>

\* feedlist_load, when one of its requests fails: the old list is gone.
LoadFails ==
    /\ items' = <<>>
    /\ UNCHANGED <<sel, top, rows, cur, answer, placed>>

-----------------------------------------------------------------------------
(* Keys.                                                                   *)

\* The entries a movement passes or stops at.
Ahead(delta) == {i \in Selectable : IF delta > 0 THEN i > sel ELSE i < sel}

\* An entry ahead, by its distance in entries.
Distance(i, delta) ==
    Cardinality({j \in Ahead(delta) : IF delta > 0 THEN j <= i ELSE j >= i})

Magnitude(n) == IF n < 0 THEN -n ELSE n

\* Where the loop of feedlist_move ends: after delta entries, or at the last.
MoveTargets(delta) ==
    LET n == Cardinality(Ahead(delta))
        steps == IF Magnitude(delta) < n THEN Magnitude(delta) ELSE n
    IN  IF n = 0 THEN {sel} ELSE {i \in Ahead(delta) : Distance(i, delta) = steps}

\* feedlist_move
Move(delta) ==
    /\ items # <<>>
    /\ sel' \in MoveTargets(delta)
    /\ sel' >= 0
    /\ top' = ClampTop(sel')
    /\ placed' = TRUE
    /\ UNCHANGED <<items, rows, cur, answer>>

\* j, k, PgDn, PgUp
Down == Move(1)
Up == Move(-1)
PageDown == Move(rows)
PageUp == Move(-rows)

\* feedlist_home
Home ==
    /\ sel' = IF Selectable = {} THEN sel ELSE CHOOSE i \in Selectable : \A j \in Selectable : i <= j
    /\ top' = 0
    /\ placed' = TRUE
    /\ UNCHANGED <<items, rows, cur, answer>>

\* feedlist_end
End ==
    /\ sel' = IF Selectable = {} THEN sel ELSE CHOOSE i \in Selectable : \A j \in Selectable : j <= i
    /\ top' = ClampTop(sel')
    /\ placed' = TRUE
    /\ UNCHANGED <<items, rows, cur, answer>>

\* Enter on a category: feedlist_activate folds or unfolds it.
Fold ==
    /\ sel \in Indices
    /\ At(sel).source = "category"
    /\ items' = [items EXCEPT ![sel + 1].expanded = ~@]
    /\ UNCHANGED <<sel, top, rows, cur, answer, placed>>

\* Enter on another entry: headlines_load notes its id before it asks for it.
Open ==
    /\ sel \in Indices
    /\ At(sel).source # "category"
    /\ cur' = At(sel).id
    /\ UNCHANGED <<items, sel, top, rows, answer, placed>>

-----------------------------------------------------------------------------
(* The rest of the program, as far as it touches the sidebar.              *)

\* Mutant: the count is not kept from falling below zero.
CountedFreely(n, delta) == n + delta

Counted(n, delta) == IF n + delta < 0 THEN 0 ELSE n + delta

\* bump_sidebar_unread for the loaded entry: the first item with its id.
Bump(delta) ==
    /\ \E i \in Indices :
          /\ At(i).source # "section"
          /\ At(i).id = cur
          /\ \A j \in 0 .. i - 1 : At(j).source # "section" => At(j).id # cur
          /\ Counted(At(i).unread, delta) <= MaxUnread
          /\ items' = [items EXCEPT ![i + 1].unread = Counted(@, delta)]
    /\ UNCHANGED <<sel, top, rows, cur, answer, placed>>

\* ui_layout: another height; neither the selection nor the window moves.
Resize(r) ==
    /\ rows' = r
    /\ placed' = (placed /\ r = rows)
    /\ UNCHANGED <<items, sel, top, cur, answer>>

-----------------------------------------------------------------------------

\* app_new and ui_layout: nothing is loaded yet.
Init ==
    /\ items = <<>>
    /\ sel = 0
    /\ top = 0
    /\ rows \in RowCounts
    /\ cur = NoFeed
    /\ answer \in Answers
    /\ placed = TRUE

Next ==
    \/ \E a \in Answers : Load(a)
    \/ LoadFails
    \/ Down \/ Up \/ PageDown \/ PageUp
    \/ Home \/ End
    \/ Fold \/ Open
    \/ \E delta \in {1, -1} : Bump(delta)
    \/ \E r \in RowCounts : Resize(r)

Spec == Init /\ [][Next]_vars

-----------------------------------------------------------------------------
(* Properties.                                                             *)

\* Every variable has its type; the counts never fall below zero.
TypeOK ==
    /\ items \in Seq(Item)
    /\ sel \in Int
    /\ top \in Int
    /\ rows \in RowCounts
    /\ cur \in Int \cup {NoFeed}
    /\ answer \in Answers
    /\ placed \in BOOLEAN

\* Whatever is loaded, lost, moved and folded, the selection is an entry that
\* is on display, neither a header nor a feed that is folded away; it is -1
\* only in a list without entries.  What feedlist_current relies on.
SelectionIsEntry ==
    items # <<>> =>
        \/ sel \in Indices /\ At(sel).source # "section" /\ Visible(sel)
        \/ sel = -1 /\ \A i \in Indices : At(i).source = "section"

\* As long as the pane keeps its height the selected entry is inside the
\* window, however the folding has changed what a row is.  In a pane of one
\* row, a load and g leave the header above the first entry on it.
SelectionOnScreen ==
    (placed /\ rows > 1 /\ items # <<>> /\ sel # -1) =>
        /\ VisiblePos(top) <= VisiblePos(sel)
        /\ VisiblePos(sel) < VisiblePos(top) + rows

\* The feeds of a category that was answered, virtual feeds and labels.
Answered(a, f) ==
    \/ f.cat \in {Special, Labels}
    \/ f.cat = 0 /\ f.id \in VirtualFeeds
    \/ f.id > 0 /\ \E i \in 1 .. Len(a.cats) : a.cats[i].id = f.cat

\* Every feed of the answers is in the sidebar once, below its own category,
\* and there is nothing else; what is missing are the feeds of a category that
\* getCategories does not name, and the feeds of an ordinary category whose id
\* is not positive, unless it is a virtual feed's in category 0.
ShowsEveryFeedOnce ==
    items # <<>> =>
        /\ \A n \in 1 .. Len(answer.feeds) :
              LET f == answer.feeds[n]
                  shown == {i \in Indices : At(i).source \notin {"section", "category"}
                                              /\ At(i).id = f.id}
              IN  /\ Cardinality(shown) = IF Answered(answer, f) THEN 1 ELSE 0
                  /\ \A i \in shown : At(i).source = "feed" => At(Owner(i)).id = f.cat
        /\ \A i \in Indices : At(i).source \notin {"section", "category"} =>
              \E n \in 1 .. Len(answer.feeds) : answer.feeds[n].id = At(i).id

-----------------------------------------------------------------------------
(* What the documents say of the program, and the program does not do.     *)

\* docs/manual-testing.md, "r/s/p update the headline markers and the sidebar
\* unread count": when the entry whose headlines are loaded is in the sidebar,
\* the count that moves is its own, not that of a category with the same id.
BumpReachesFeed ==
    [][\A i, j \in Indices :
         /\ At(j).id = cur /\ At(j).source \notin {"section", "category"}
         /\ \E delta \in {1, -1} : Bump(delta)
         /\ items'[i + 1].unread # At(i).unread
         => At(i).source # "category"]_vars

=============================================================================
