----------------------------- MODULE Headlines -----------------------------
(***************************************************************************)
(* The headline list of tuituirss (src/ui/headlines.c, next_unread and the *)
(* page-size part of ui_layout in src/ui/screen.c).                        *)
(*                                                                         *)
(* The server answers getHeadlines with a page, cut out of its current     *)
(* list by an offset and a limit.  The client keeps the pages it has       *)
(* received in one array, `heads', asks for the next one at offset nheads, *)
(* and decides from the length of a page whether there is another.  The    *)
(* selection and the first visible row are indices, from 0 as in the code. *)
(*                                                                         *)
(* The server's list is an external variable: other clients, new articles  *)
(* and the user's own marks change it between any two requests.            *)
(***************************************************************************)
EXTENDS Integers, Sequences

CONSTANTS
    Ids,          \* the article ids
    Listings,     \* the lists the server may hold for a (feed, view, filter)
    RowCounts,    \* the heights ui_layout may give the pane; <= 0 is no room
    PageDefault   \* the page size when the pane has no height (20 in the code)

Headline == [id : Ids, unread : BOOLEAN]

ASSUME ListingsAssumption == Listings \subseteq Seq(Headline)
ASSUME RowCountsAssumption == RowCounts \subseteq Int
ASSUME PageDefaultAssumption == PageDefault \in Nat \ {0}

VARIABLES
    listing,  \* what the server would answer now for the loaded view
    heads,    \* app->heads; its length is app->nheads
    hasMore,  \* app->head_has_more
    limit,    \* app->head_limit
    sel,      \* app->head_sel
    top,      \* app->head_top
    rows,     \* app->head_rows
    pc,       \* "end" while the loop of headlines_end runs, else "idle"
    fresh,    \* history: the load succeeded and the server's list kept its ids
    placed    \* history: the pane kept its height since sel was last placed

vars == <<listing, heads, hasMore, limit, sel, top, rows, pc, fresh, placed>>

-----------------------------------------------------------------------------
(* Paging.                                                                 *)

\* The page getHeadlines answers for an offset and a limit.
Page(list, skip, n) ==
    SubSeq(list, skip + 1, IF skip + n < Len(list) THEN skip + n ELSE Len(list))

\* Mutant: a pane without height asks for pages of its height.
PageSizeAsIs(height, otherwise) == height

\* The page size ui_layout and headlines_load derive from the pane's height.
PageSize(height, otherwise) == IF height > 0 THEN height ELSE otherwise

\* Mutant: a page as long as the limit is taken for the last one.
IsFullStrict(page, n) == Len(page) > n

\* A page as long as the limit is taken to mean that there is another.
IsFull(page, n) == Len(page) >= n

\* Two lists that show the same articles in the same order.
SameIds(s, t) ==
    /\ Len(s) = Len(t)
    /\ \A i \in 1 .. Len(s) : s[i].id = t[i].id

-----------------------------------------------------------------------------
(* Selection and window.                                                   *)

\* The rows (from 0) of the unread headlines of a list.
UnreadRows(list) == {i \in 0 .. Len(list) - 1 : list[i + 1].unread}

\* headlines_load pre-selects the first unread headline, or the first one.
FirstUnread(list) ==
    IF UnreadRows(list) = {}
    THEN 0
    ELSE CHOOSE i \in UnreadRows(list) : \A j \in UnreadRows(list) : i <= j

\* Mutant: the window follows the selection one row too late.
WindowTopLate(s, t) ==
    IF s < t THEN s ELSE IF rows > 0 /\ s > t + rows THEN s - rows + 1 ELSE t

\* The first visible row once the window has followed the selection to s.
WindowTop(s, t) ==
    IF s < t THEN s ELSE IF rows > 0 /\ s >= t + rows THEN s - rows + 1 ELSE t

\* Select row s and let the window follow.
Select(s) ==
    /\ sel' = s
    /\ top' = WindowTop(s, top)
    /\ placed' = TRUE

-----------------------------------------------------------------------------
(* Requests.                                                               *)

\* headlines_load: open a view whose list is l.  The old list is dropped
\* before the request, so a failure leaves an empty one.
LoadFails ==
    /\ heads' = <<>>
    /\ hasMore' = FALSE
    /\ sel' = 0
    /\ fresh' = FALSE

LoadSucceeds(l) ==
    LET page == Page(l, 0, limit')
    IN  /\ heads' = page
        /\ hasMore' = IsFull(page, limit')
        /\ sel' = FirstUnread(page)
        /\ fresh' = TRUE

Load(l) ==
    /\ pc = "idle"
    /\ listing' = l
    /\ limit' = PageSize(rows, PageDefault)
    /\ top' = 0
    /\ placed' = TRUE
    /\ LoadSucceeds(l) \/ LoadFails
    /\ UNCHANGED <<rows, pc>>

\* Mutant: an empty page is not taken for the end of the list.
FetchMoreForever ==
    LET page == Page(listing, Len(heads), limit)
    IN  /\ heads' = heads \o page
        /\ UNCHANGED <<hasMore, listing, limit, fresh>>

\* headlines_load_more, when the request succeeds.
FetchMore ==
    LET page == Page(listing, Len(heads), limit)
    IN  /\ heads' = heads \o page
        /\ hasMore' = IsFull(page, limit)
        /\ UNCHANGED <<listing, limit, fresh>>

NoFetch == UNCHANGED <<listing, heads, hasMore, limit, fresh>>

-----------------------------------------------------------------------------
(* Keys.                                                                   *)

\* Mutant: the last row is nheads.
LastRowPastEnd(n) == n

LastRow(n) == n - 1

\* headlines_move, within the headlines that are loaded.
MoveInside(delta) ==
    LET idx == IF sel + delta < 0 THEN 0 ELSE sel + delta
    IN  /\ idx < Len(heads)
        /\ NoFetch
        /\ Select(idx)

\* headlines_move past the last headline: fetch one page if there may be one,
\* then stop at the last row loaded.  A failing request ends the handler.
MovePastEnd(delta) ==
    LET idx == sel + delta
    IN  /\ idx >= Len(heads)
        /\ \/ /\ hasMore
              /\ FetchMore
              /\ Select(IF idx < Len(heads') THEN idx ELSE LastRow(Len(heads')))
           \/ /\ hasMore
              /\ NoFetch
              /\ UNCHANGED <<sel, top, placed>>
           \/ /\ ~hasMore
              /\ NoFetch
              /\ Select(LastRow(Len(heads)))

\* j, k, PgDn, PgUp: a page is the height of the pane, whatever it is.
Move(delta) ==
    /\ pc = "idle"
    /\ heads # <<>>
    /\ MoveInside(delta) \/ MovePastEnd(delta)
    /\ UNCHANGED <<rows, pc>>

Down == Move(1)
Up == Move(-1)
PageDown == Move(rows)
PageUp == Move(-rows)

\* headlines_home.
Home ==
    /\ pc = "idle"
    /\ sel' = 0
    /\ top' = 0
    /\ placed' = TRUE
    /\ NoFetch
    /\ UNCHANGED <<rows, pc>>

\* headlines_end: one request per turn of its loop, then the last row.
EndBegin ==
    /\ pc = "idle"
    /\ pc' = "end"
    /\ UNCHANGED <<listing, heads, hasMore, limit, sel, top, rows, fresh, placed>>

EndFetch ==
    /\ pc = "end"
    /\ hasMore
    /\ FetchMore
    /\ UNCHANGED <<sel, top, rows, pc, placed>>

\* The last row; the window only ever has to move down to it.
SelectLast ==
    LET last == IF heads = <<>> THEN sel ELSE LastRow(Len(heads))
    IN  /\ sel' = last
        /\ top' = IF rows > 0 /\ last >= top + rows THEN last - rows + 1 ELSE top
        /\ placed' = TRUE

\* The loop ends when the list is exhausted, or when a request fails.
EndFinish ==
    /\ pc = "end"
    /\ pc' = "idle"
    /\ SelectLast
    /\ NoFetch
    /\ UNCHANGED rows

EndExhausted == ~hasMore /\ EndFinish
EndFails == hasMore /\ EndFinish

\* The distances at which next_unread finds an unread headline below the
\* selection, wrapping around; the selection itself is tried last.
NextUnreadRows == {k \in 0 .. Len(heads) - 1 :
                      heads[((sel + 1 + k) % Len(heads)) + 1].unread}

\* next_unread: the nearest of them.
NextUnread ==
    /\ pc = "idle"
    /\ heads # <<>>
    /\ NextUnreadRows # {}
    /\ \E k \in NextUnreadRows :
          /\ \A j \in NextUnreadRows : k <= j
          /\ Select((sel + 1 + k) % Len(heads))
    /\ NoFetch
    /\ UNCHANGED <<rows, pc>>

-----------------------------------------------------------------------------
(* The rest of the program, as far as it touches the list.                 *)

\* mutate mirrors an unread flag onto a row; the server's list follows the
\* change, and in a view of unread headlines it loses an article by it.
MirrorUnread(i, flag, l) ==
    /\ pc = "idle"
    /\ heads' = [heads EXCEPT ![i].unread = flag]
    /\ listing' = l
    /\ fresh' = (fresh /\ SameIds(listing, l))
    /\ UNCHANGED <<hasMore, limit, sel, top, rows, pc, placed>>

\* do_catchup clears every unread flag of the list.
CatchUp(l) ==
    /\ pc = "idle"
    /\ heads' = [i \in 1 .. Len(heads) |-> [heads[i] EXCEPT !.unread = FALSE]]
    /\ listing' = l
    /\ fresh' = (fresh /\ SameIds(listing, l))
    /\ UNCHANGED <<hasMore, limit, sel, top, rows, pc, placed>>

\* ui_layout: the pane gets another height, and the page size follows it.
\* Neither the selection nor the window moves.
Resize(r) ==
    /\ pc = "idle"
    /\ rows' = r
    /\ limit' = PageSize(r, limit)
    /\ placed' = (placed /\ r = rows)
    /\ UNCHANGED <<listing, heads, hasMore, sel, top, pc, fresh>>

\* The server's list changes, even between two requests of one handler.
ServerChange(l) ==
    /\ listing' = l
    /\ fresh' = (fresh /\ SameIds(listing, l))
    /\ UNCHANGED <<heads, hasMore, limit, sel, top, rows, pc, placed>>

-----------------------------------------------------------------------------

\* app_new and the first ui_layout: no list is loaded.
Init ==
    /\ listing \in Listings
    /\ heads = <<>>
    /\ hasMore = FALSE
    /\ rows \in RowCounts
    /\ limit = PageSize(rows, 0)
    /\ sel = 0
    /\ top = 0
    /\ pc = "idle"
    /\ fresh = FALSE
    /\ placed = TRUE

EndStep == EndFetch \/ EndExhausted \/ EndFails

Next ==
    \/ \E l \in Listings : Load(l)
    \/ Down
    \/ Up
    \/ PageDown
    \/ PageUp
    \/ Home
    \/ EndBegin
    \/ EndStep
    \/ NextUnread
    \/ \E i \in 1 .. Len(heads), flag \in BOOLEAN, l \in Listings :
          MirrorUnread(i, flag, l)
    \/ \E l \in Listings : CatchUp(l)
    \/ \E r \in RowCounts : Resize(r)
    \/ \E l \in Listings : ServerChange(l)

\* The loop of headlines_end keeps running: every request returns, at the
\* latest when CURLOPT_TIMEOUT expires.  A request that fails ends the loop, so
\* it may always happen instead, but is not what the loop may rely on to end.
Fairness == WF_vars(EndFetch \/ EndExhausted)

Spec == Init /\ [][Next]_vars /\ Fairness

-----------------------------------------------------------------------------
(* Properties.                                                             *)

\* Every variable has its type; above all the page size is never negative,
\* whatever height ui_layout has given the pane.
TypeOK ==
    /\ listing \in Seq(Headline)
    /\ heads \in Seq(Headline)
    /\ hasMore \in BOOLEAN
    /\ limit \in Nat
    /\ sel \in Int
    /\ top \in Int
    /\ rows \in Int
    /\ pc \in {"idle", "end"}
    /\ fresh \in BOOLEAN
    /\ placed \in BOOLEAN

\* Whatever is loaded, failed, paged or resized, the selection is a row of
\* the list (0 when it is empty) and never above the window.  What keeps
\* headline_current and the drawing loop from missing the selection.
SelectionInRange ==
    /\ 0 <= top
    /\ top <= sel
    /\ sel < Len(heads) \/ (heads = <<>> /\ sel = 0)

\* As long as the pane keeps its height the selected headline is on screen:
\* every way to select a row, the pre-selection of a load among them, leaves
\* it above the last row of the window.
SelectionVisible == (placed /\ rows > 0) => sel < top + rows

\* Paging by offset is exact for a list that holds still, even when the page
\* size changes between two pages: what is loaded is the beginning of the
\* server's list, no row twice and none left out, and the client stops asking
\* only when it has all of it.
PagingExact ==
    fresh => /\ Len(heads) <= Len(listing)
             /\ \A i \in 1 .. Len(heads) : heads[i].id = listing[i].id
             /\ ~hasMore => Len(heads) = Len(listing)

\* There is only more to ask for when something was received, and the page
\* size is then positive: with a limit of 0 every page would be a full one.
MoreMeansProgress == hasMore => (limit > 0 /\ heads # <<>>)

\* G ends on the last article of the server's list, if the list held still
\* and no request failed.
EndReachesLast ==
    [][(pc = "end" /\ pc' = "idle" /\ ~hasMore' /\ fresh' /\ heads # <<>>)
          => sel' = Len(listing') - 1]_vars

\* The loop of headlines_end ends without the help of a failing request: it
\* cannot be kept fetching by a server whose list changes between its turns, as
\* long as there is a bound to the list's length.
EndTerminates == (pc = "end") ~> (pc = "idle")
=============================================================================
