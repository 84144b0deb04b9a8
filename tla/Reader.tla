------------------------------- MODULE Reader -------------------------------
(***************************************************************************)
(* The copies of the server's state that tuituirss shows and edits: the    *)
(* flags of the headlines in the list, the open article (a second copy of  *)
(* the same record), and the unread counts of the sidebar                  *)
(* (src/ui/screen.c, with the loads of headlines.c, feedlist.c and         *)
(* article.c).                                                             *)
(*                                                                         *)
(* The program has one thread and waits for every answer, so a key is one  *)
(* step.  A request has one of three outcomes: it succeeds; it fails and   *)
(* the server is as before; or the server acts on it and the answer is     *)
(* lost, which the program cannot tell from a failure.  Another client may *)
(* change the server between any two keys.                                 *)
(*                                                                         *)
(* Which row a movement key selects, and the size of the window, are the   *)
(* subject of Headlines; here a movement selects any row.                  *)
(***************************************************************************)
EXTENDS Integers, Sequences, FiniteSets

CONSTANTS
    Articles,    \* article ids; the server lists the greatest (newest) first
    Sources,     \* the entries of the sidebar: feeds, virtual feeds, categories
    Categories,  \* the entries that only expand and collapse
    Ids,         \* the id of each entry: feeds and categories are numbered apart
    Place,       \* where each entry stands in the sidebar
    Members,     \* the articles that each entry may hold
    Selects,     \* the flags with which it holds them, as a set of sets of flags
    Fields,      \* the flags of an article: "unread", "marked", "published"
    Views,       \* view modes: "all_articles", or the flag an article must have
    Limit,       \* the page size
    MaxCount,    \* bound: a count that has drifted is followed up to here
    NoSource,    \* nothing has been loaded into the headline list
    NoArticle    \* the article pane is empty

ASSUME ArticlesAssumption == Articles \subseteq Int /\ IsFiniteSet(Articles)
ASSUME SourcesAssumption == Categories \subseteq Sources /\ NoSource \notin Sources
ASSUME IdsAssumption ==
    /\ Ids \in [Sources -> Int]
    /\ \A f, g \in Sources : Ids[f] = Ids[g] /\ (f \in Categories <=> g \in Categories) => f = g
ASSUME PlaceAssumption ==
    /\ Place \in [Sources -> Nat]
    /\ \A f, g \in Sources : Place[f] = Place[g] => f = g
ASSUME MembersAssumption == Members \in [Sources -> SUBSET Articles]
ASSUME SelectsAssumption == Selects \in [Sources -> SUBSET SUBSET Fields]
ASSUME FieldsAssumption == "unread" \in Fields
ASSUME ViewsAssumption == Views \subseteq {"all_articles"} \cup Fields /\ "all_articles" \in Views
ASSUME LimitAssumption == Limit \in Nat \ {0}

Headline == [id : Articles, flags : SUBSET Fields]

ASSUME NoArticleAssumption == NoArticle \notin Headline

VARIABLES
    srv,      \* the flags the server holds, by article
    heads,    \* app->heads
    hasMore,  \* app->head_has_more
    sel,      \* app->head_sel, from 0
    cur,      \* app->cur_id and app->cur_is_cat
    view,     \* app->view_mode and app->filter
    art,      \* app->article
    side,     \* the counts of app->items; the empty function: no items
    counters, \* app->counters.unread
    focus,    \* app->focus
    status    \* app->status_error, as "error" or "ok"

vars == <<srv, heads, hasMore, sel, cur, view, art, side, counters, focus, status>>
listVars == <<heads, hasMore, sel>>

Outcomes == {"ok", "fails", "lost"}

-----------------------------------------------------------------------------
(* The server.                                                             *)

\* The articles of an entry.  A feed, a label, a category and the feed of all
\* articles hold theirs whatever the flags (Selects is SUBSET Fields); Starred,
\* Published and Fresh hold those with a flag, Recently read those without one.
Held(f) == {a \in Members[f] : srv[a] \in Selects[f]}

\* The articles a view of an entry shows.
InView(f, v) == {a \in Held(f) : v = "all_articles" \/ v \in srv[a]}

\* The newest article of a set of at least n that has n - 1 newer ones.
Newest(S, n) == CHOOSE a \in S : Cardinality({b \in S : b > a}) = n - 1

\* The page of headlines answered for an offset.
Page(f, v, skip) ==
    LET S == InView(f, v)
        left == Cardinality(S) - skip
        n == IF left <= 0 THEN 0 ELSE IF left < Limit THEN left ELSE Limit
    IN  [i \in 1 .. n |-> [id |-> Newest(S, skip + i), flags |-> srv[Newest(S, skip + i)]]]

UnreadIn(S) == Cardinality({a \in S : "unread" \in srv[a]})

\* The counts of the sidebar, as getCategories and getFeeds answer them.
Counts == [f \in Sources |-> UnreadIn(Held(f))]
NoItems == [f \in {} |-> 0]

-----------------------------------------------------------------------------
(* Flags.                                                                  *)

Apply(flags, field, mode) ==
    IF mode = "toggle" /\ field \notin flags THEN flags \cup {field} ELSE flags \ {field}

\* apply_field
ApplyField(h, field, mode) == [h EXCEPT !.flags = Apply(@, field, mode)]

Rows(list, a) == {i \in 1 .. Len(list) : list[i].id = a}
FirstRow(list, a) == CHOOSE i \in Rows(list, a) : \A j \in Rows(list, a) : i <= j

\* Mutant: the list keeps its copy when the article pane changes a flag.
NoMirror(list, a, field, mode) == list

\* The loop of mutate: the first row with the id gets the change.
Mirror(list, a, field, mode) ==
    IF Rows(list, a) = {}
    THEN list
    ELSE [list EXCEPT ![FirstRow(list, a)] = ApplyField(@, field, mode)]

\* The entry that bump_sidebar_unread finds for the id of f: the first one with
\* that id, be it a feed or a category.
FirstWithId(f) ==
    CHOOSE g \in Sources :
        /\ Ids[g] = Ids[f]
        /\ \A e \in Sources : Ids[e] = Ids[f] => Place[g] <= Place[e]

\* Mutant: the count goes down whichever way the flag went.
BumpDown(before, after) ==
    IF cur \in DOMAIN side /\ before # after
    THEN [side EXCEPT ![FirstWithId(cur)] = IF @ > 0 THEN @ - 1 ELSE 0]
    ELSE side

\* Mutant: the count is not kept from falling below zero.
BumpBelowZero(before, after) ==
    IF cur \in DOMAIN side /\ before # after
    THEN [side EXCEPT ![FirstWithId(cur)] = @ + (IF "unread" \in after.flags THEN 1 ELSE -1)]
    ELSE side

\* bump_sidebar_unread, called when h->unread changed: the count of the first
\* entry with the id of the loaded one moves by one, and never below zero.
Bump(before, after) ==
    IF cur \notin DOMAIN side \/ ("unread" \in before.flags <=> "unread" \in after.flags)
    THEN side
    ELSE [side EXCEPT ![FirstWithId(cur)] = IF "unread" \in after.flags THEN @ + 1
                                            ELSE IF @ > 0 THEN @ - 1 ELSE 0]

-----------------------------------------------------------------------------
(* mutate, once the key's article pane holds `copy'.                       *)

Current == heads[sel + 1]

\* mutate, when the request is answered: the target h is changed, then the
\* list's first row with its id - which may be h itself -, then the article.
MutateOk(h, inList, copy, field, mode) ==
    LET touched == IF inList THEN [heads EXCEPT ![sel + 1] = ApplyField(@, field, mode)] ELSE heads
        after == IF inList THEN heads'[sel + 1] ELSE art'
    IN  /\ srv' = [srv EXCEPT ![h.id] = Apply(@, field, mode)]
        /\ heads' = Mirror(touched, h.id, field, mode)
        /\ art' = IF copy # NoArticle /\ copy.id = h.id THEN ApplyField(copy, field, mode) ELSE copy
        /\ side' = IF field = "unread" THEN Bump(h, after) ELSE side
        /\ \A f \in DOMAIN side' : side'[f] <= MaxCount
        /\ counters' \in {counters, UnreadIn(Articles)'}
        /\ status' = "ok"

\* mutate, when no answer says that the change was made.
MutateFails(h, copy, field, mode, outcome) ==
    /\ srv' = IF outcome = "lost" THEN [srv EXCEPT ![h.id] = Apply(@, field, mode)] ELSE srv
    /\ art' = copy
    /\ status' = "error"
    /\ UNCHANGED <<heads, side, counters>>

\* mutate with the target mutation_target names for the pane in focus.
Mutate(pane, copy, field, mode, outcome) ==
    LET inList == pane # "article" \/ copy = NoArticle
        h == IF inList THEN Current ELSE copy
    IN  IF outcome = "ok"
        THEN MutateOk(h, inList, copy, field, mode)
        ELSE MutateFails(h, copy, field, mode, outcome)

-----------------------------------------------------------------------------
(* Keys on one headline.                                                   *)

\* r, s, p, when neither pane has a headline to change.
ToggleNothing ==
    /\ heads = <<>>
    /\ focus = "article" => art = NoArticle
    /\ status' = "error"
    /\ UNCHANGED <<srv, heads, hasMore, sel, cur, view, art, side, counters, focus>>

\* r, s, p, on the headline the list has selected.
ToggleInList(field, outcome) ==
    /\ heads # <<>>
    /\ focus = "article" => art = NoArticle
    /\ Mutate(focus, art, field, "toggle", outcome)
    /\ UNCHANGED <<hasMore, sel, cur, view, focus>>

\* r, s, p, on the open article.
ToggleInArticle(field, outcome) ==
    /\ focus = "article"
    /\ art # NoArticle
    /\ Mutate("article", art, field, "toggle", outcome)
    /\ UNCHANGED <<hasMore, sel, cur, view, focus>>

\* article_load clears the pane before it asks for the article.
ArticleFails ==
    /\ art' = NoArticle
    /\ status' = "error"
    /\ UNCHANGED <<srv, heads, hasMore, sel, cur, view, side, counters, focus>>

\* Mutant: an article is marked as read by a toggle.
MarkReadByToggle(pane, copy, outcome) ==
    IF "unread" \in Current.flags
    THEN Mutate(pane, copy, "unread", "toggle", outcome)
    ELSE /\ art' = copy
         /\ UNCHANGED <<srv, heads, side, counters, status>>

\* mark_read after article_load answered `copy': only when the row is unread.
MarkRead(pane, copy, outcome) ==
    IF "unread" \in Current.flags
    THEN Mutate(pane, copy, "unread", "false", outcome)
    ELSE /\ art' = copy
         /\ UNCHANGED <<srv, heads, side, counters, status>>

Answered(a) == [id |-> a, flags |-> srv[a]]

\* Enter on a headline: the focus follows the article, and so does mark_read.
OpenArticle(outcome) ==
    /\ focus = "headlines"
    /\ heads # <<>>
    /\ focus' = "article"
    /\ MarkRead("article", Answered(Current.id), outcome)
    /\ UNCHANGED <<hasMore, sel, cur, view>>

\* Space on a headline: the focus stays, and mark_read changes the row.
PeekArticle(outcome) ==
    /\ focus = "headlines"
    /\ heads # <<>>
    /\ MarkRead("headlines", Answered(Current.id), outcome)
    /\ UNCHANGED <<hasMore, sel, cur, view, focus>>

OpenFails ==
    /\ focus = "headlines"
    /\ heads # <<>>
    /\ ArticleFails

-----------------------------------------------------------------------------
(* Keys that load.                                                         *)

\* headlines_load: the old list is dropped before the request.
LoadList(f, v, ok) ==
    LET page == Page(f, v, 0)
        new == {i \in 1 .. Len(page) : "unread" \in page[i].flags}
    IN  IF ok
        THEN /\ heads' = page
             /\ hasMore' = (Len(page) >= Limit)
             /\ sel' = IF new = {} THEN 0 ELSE (CHOOSE i \in new : \A j \in new : i <= j) - 1
        ELSE /\ heads' = <<>>
             /\ hasMore' = FALSE
             /\ sel' = 0

\* The same, for a key that reloads whatever is loaded, if anything is.
Reload(v, ok) ==
    IF cur = NoSource THEN ok /\ UNCHANGED listVars ELSE LoadList(cur, v, ok)

\* feedlist_load
LoadSide(ok) == side' = IF ok THEN Counts' ELSE NoItems

\* Enter on an entry of the sidebar that is not a category.
OpenFeed(f, ok) ==
    /\ focus = "feeds"
    /\ f \in DOMAIN side
    /\ f \notin Categories
    /\ cur' = f
    /\ LoadList(f, view, ok)
    /\ focus' = IF ok THEN "headlines" ELSE focus
    /\ status' = IF ok THEN "ok" ELSE "error"
    /\ UNCHANGED <<srv, view, art, side, counters>>

\* a and /: another view or filter; the status line names it, loaded or not.
ChangeView(v, ok) ==
    /\ view' = v
    /\ Reload(v, ok)
    /\ status' = "ok"
    /\ UNCHANGED <<srv, cur, art, side, counters, focus>>

\* R: the sidebar, then the list; "Refreshed" either way.
Refresh(okSide, okList) ==
    /\ UNCHANGED <<srv, cur, view, art, counters, focus>>
    /\ LoadSide(okSide)
    /\ Reload(view, okList)
    /\ status' = "ok"

\* Mutant: the next page is asked for from the selected row on.
NextPageAtSel == Page(cur, view, sel)

\* The page that headlines_load_more gets: it asks at offset nheads.
NextPage == Page(cur, view, Len(heads))

\* A movement in the list: within the rows, or past them with the next page.
Move ==
    /\ focus = "headlines"
    /\ heads # <<>>
    /\ \/ /\ sel' \in 0 .. Len(heads) - 1
          /\ UNCHANGED <<heads, hasMore, status>>
       \/ /\ hasMore
          /\ heads' = heads \o NextPage
          /\ hasMore' = (Len(heads') - Len(heads) >= Limit)
          /\ sel' \in 0 .. Len(heads') - 1
          /\ status' = "ok"
       \/ /\ hasMore
          /\ sel' \in 0 .. Len(heads) - 1
          /\ status' = "error"
          /\ UNCHANGED <<heads, hasMore>>
    /\ UNCHANGED <<srv, cur, view, art, side, counters, focus>>

-----------------------------------------------------------------------------
(* Catch-up.                                                               *)

Read(h) == [h EXCEPT !.flags = @ \ {"unread"}]
AllRead(S) == [a \in Articles |-> IF a \in S THEN srv[a] \ {"unread"} ELSE srv[a]]

\* What x is for in each pane: the selected entry, or the loaded one.
CatchUpTarget ==
    IF focus = "feeds" THEN DOMAIN side ELSE IF focus = "headlines" THEN {cur} ELSE {}

\* The articles catchupFeed marks: those of the entry, in the view or not.
CatchUpScope(f) == IF f = NoSource THEN {} ELSE Held(f)

\* The rows after a catch-up: every row that is loaded is marked.
RowsAfterCatchUp == [i \in DOMAIN heads |-> Read(heads[i])]

\* do_catchup, when the request is answered.
CatchUp(f, okSide) ==
    /\ f \in CatchUpTarget
    /\ srv' = AllRead(CatchUpScope(f))
    /\ heads' = RowsAfterCatchUp
    /\ art' = IF art = NoArticle THEN art ELSE Read(art)
    /\ LoadSide(okSide)
    /\ status' = "ok"
    /\ UNCHANGED <<hasMore, sel, cur, view, counters, focus>>

CatchUpFails(f, outcome) ==
    /\ f \in CatchUpTarget
    /\ srv' = IF outcome = "lost" THEN AllRead(CatchUpScope(f)) ELSE srv
    /\ status' = "error"
    /\ UNCHANGED <<heads, hasMore, sel, cur, view, art, side, counters, focus>>

-----------------------------------------------------------------------------
(* The rest.                                                               *)

\* A key that moves the focus; which pane follows which is left to Panes.
MoveFocus(p) ==
    /\ focus' = p
    /\ UNCHANGED <<srv, heads, hasMore, sel, cur, view, art, side, counters, status>>

\* Another client changes a flag on the server.
OtherClient(a, field) ==
    /\ srv' = [srv EXCEPT ![a] = Apply(@, field, "toggle")]
    /\ UNCHANGED <<heads, hasMore, sel, cur, view, art, side, counters, focus, status>>

Init ==
    /\ srv \in [Articles -> SUBSET Fields]
    /\ heads = <<>>
    /\ hasMore = FALSE
    /\ sel = 0
    /\ cur = NoSource
    /\ view = "all_articles"
    /\ art = NoArticle
    /\ side \in {Counts, NoItems}
    /\ counters \in {0, UnreadIn(Articles)}
    /\ focus = "feeds"
    /\ status = IF side = Counts THEN "ok" ELSE "error"

HeadlineKey ==
    \/ ToggleNothing
    \/ \E field \in Fields, o \in Outcomes : ToggleInList(field, o) \/ ToggleInArticle(field, o)
    \/ \E o \in Outcomes : OpenArticle(o) \/ PeekArticle(o)
    \/ OpenFails

LoadKey ==
    \/ \E f \in Sources, ok \in BOOLEAN : OpenFeed(f, ok)
    \/ \E v \in Views, ok \in BOOLEAN : ChangeView(v, ok)
    \/ \E okSide, okList \in BOOLEAN : Refresh(okSide, okList)
    \/ Move

CatchUpKey ==
    \E f \in Sources \cup {NoSource} :
        \/ \E ok \in BOOLEAN : CatchUp(f, ok)
        \/ \E o \in {"fails", "lost"} : CatchUpFails(f, o)

Next ==
    \/ HeadlineKey
    \/ LoadKey
    \/ CatchUpKey
    \/ \E p \in {"feeds", "headlines", "article"} : MoveFocus(p)
    \/ \E a \in Articles, field \in Fields : OtherClient(a, field)

Spec == Init /\ [][Next]_vars

-----------------------------------------------------------------------------
(* Properties.                                                             *)

\* Every variable has its type; the counts of the sidebar never fall below
\* zero, and the selection is a row of the list (0 in an empty one).
TypeOK ==
    /\ srv \in [Articles -> SUBSET Fields]
    /\ heads \in Seq(Headline)
    /\ hasMore \in BOOLEAN
    /\ sel \in Nat
    /\ heads # <<>> => sel < Len(heads)
    /\ cur \in Sources \cup {NoSource}
    /\ view \in Views
    /\ art \in Headline \cup {NoArticle}
    /\ side \in [Sources -> Nat] \cup {NoItems}
    /\ counters \in Nat
    /\ focus \in {"feeds", "headlines", "article"}
    /\ status \in {"ok", "error"}

\* What is shown of an article is what the server holds: its row in the list
\* (the first one, if paging has brought it twice) and the open article.
RowAgrees(a) == Rows(heads, a) # {} => heads[FirstRow(heads, a)].flags = srv[a]
ArticleAgrees(a) == art # NoArticle => (art.id = a => art.flags = srv[a])
Agrees(a) == RowAgrees(a) /\ ArticleAgrees(a)

\* The sidebar's count of an entry is what the server would answer.
CountExact(f) ==
    f \in DOMAIN side => side[f] = UnreadIn(Held(f))

\* Steps after which the display may be behind for a reason of its own.
AnswerLost ==
    \/ \E field \in Fields : ToggleInList(field, "lost") \/ ToggleInArticle(field, "lost")
    \/ OpenArticle("lost") \/ PeekArticle("lost")
    \/ \E f \in Sources \cup {NoSource} : CatchUpFails(f, "lost")
Changed == \E a \in Articles, field \in Fields : OtherClient(a, field)
ToggledInList == \E field \in Fields : ToggleInList(field, "ok")
CaughtUpElsewhere ==
    \E f \in Sources, ok \in BOOLEAN : CatchUp(f, ok) /\ \E a \in Articles \ Held(f) :
        Rows(heads, a) # {} \/ (art # NoArticle /\ art.id = a)

\* Whatever key is pressed, an article shown as the server holds it is shown
\* as the server holds it afterwards: the row, the open article and the
\* server move together through the three updates of mutate, the marking of
\* an article that is opened, and the loads.  The steps that may break this
\* are named: a change that is not ours, an answer that is lost, a toggle in
\* the list (see ToggleIsShown) and a catch-up of an entry while an article is
\* shown that is not of it: one of another entry, or one that has left this one,
\* as an article whose star was removed has left Starred.
DisplayStaysExact ==
    [][\/ \A a \in Articles : Agrees(a) => Agrees(a)'
       \/ Changed \/ AnswerLost \/ ToggledInList \/ CaughtUpElsewhere]_vars

\* An article counts in the loaded entry while it is unread.
CountsUnread(a) == a \in Members[cur] /\ srv[a] \cup {"unread"} \in Selects[cur]

\* What a key can act on is as the server has it and counts in the loaded entry.
SelectionInView ==
    /\ heads # <<>> => CountsUnread(Current.id) /\ Current.flags = srv[Current.id]
    /\ art # NoArticle => CountsUnread(art.id) /\ art.flags = srv[art.id]

\* An article that stays unread enters or leaves the loaded entry, as one does
\* that gets or loses its star while Starred is loaded.
Refiled ==
    cur # NoSource /\ \E a \in Members[cur] :
        /\ "unread" \in srv[a] \cap srv'[a]
        /\ srv[a] \in Selects[cur] <=> srv'[a] \notin Selects[cur]

\* A change while a category with the id of the loaded entry stands above it.
Shadowed == cur # NoSource /\ FirstWithId(cur) # cur /\ srv' # srv

\* The count of the loaded entry stays exact while its articles are opened,
\* peeked at and toggled, and through catch-ups and loads: bump_sidebar_unread
\* moves it by one exactly when an article of the entry becomes read or unread
\* on the server.  The steps that may break this are named: a change that is not
\* ours, an answer that is lost, a toggle of "unread" in the list, a star or a
\* publication that refiles an unread article, and a change while a category with
\* the same id is found instead (see BumpReachesFeed of Sidebar).
LoadedCountStaysExact ==
    [][\/ SelectionInView /\ CountExact(cur) => CountExact(cur)'
       \/ cur' # cur \/ Shadowed \/ Refiled
       \/ Changed \/ AnswerLost \/ ToggleInList("unread", "ok")]_vars

\* The loaded entry holds its articles whatever their flags.
Steady == cur # NoSource /\ Selects[cur] = SUBSET Fields

\* Paging by offset neither repeats nor misses an article of such an entry in the
\* view of all articles, while none arrives: whatever is read, toggled or caught
\* up between two pages, here or elsewhere, no article is listed twice, and when
\* no more are expected every article of the entry is listed.  In the other views,
\* and in Starred and its like, the flags decide what is listed, and an offset
\* may repeat or skip articles.
EveryArticleOnce ==
    view = "all_articles" /\ Steady =>
        /\ \A i, j \in 1 .. Len(heads) : heads[i].id = heads[j].id => i = j
        /\ heads # <<>> /\ ~hasMore => \A a \in Members[cur] : Rows(heads, a) # {}

\* Opening an article, or peeking at it, never makes an article unread on the
\* server, however old the row is that said it was unread: mark_read sets the
\* flag, it does not toggle it.
OpeningNeverMarksUnread ==
    [][\/ \A a \in Articles : "unread" \in srv'[a] => "unread" \in srv[a]
       \/ ~ \E o \in Outcomes : OpenArticle(o) \/ PeekArticle(o)]_vars

-----------------------------------------------------------------------------
(* What the documents say of the program, and the program does not do.     *)

\* docs/manual-testing.md, "r/s/p update the headline markers and the sidebar
\* unread count": a toggle the server has answered is shown in its row.
ToggleIsShown ==
    [][\A field \in Fields, a \in Articles :
         ToggleInList(field, "ok") /\ Current.id = a /\ Agrees(a) => Agrees(a)']_vars

=============================================================================
