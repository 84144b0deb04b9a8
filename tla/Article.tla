------------------------------- MODULE Article ------------------------------
(***************************************************************************)
(* The article pane (src/ui/article.c): the open article, its text wrapped *)
(* to the width of the pane, the list of its links under the text, how far *)
(* it is scrolled and which link is selected.                              *)
(*                                                                         *)
(* The wrapped text is computed once and kept, so it must be computed      *)
(* again whenever the article or the width changes: by article_load, by    *)
(* ui_layout, and by mutate after a note.  Everything else is indices into *)
(* it.  How words fill lines is the subject of Text; here a text is one    *)
(* long word, known by its length.                                         *)
(***************************************************************************)
EXTENDS Layout, Lists

CONSTANTS
    Sizes,      \* the sizes of the screen, as [rows, cols]
    Contents,   \* the articles the server may answer
    Notes,      \* the lengths of the notes a user may write; 0 is none
    UrlCells,   \* the length of each URL, in cells
    NoArticle   \* nothing is open

Urls == DOMAIN UrlCells

\* What the pane shows of an article: the lengths of its texts in cells, 0 for
\* one that is missing, and its URLs.
Content == [title : Nat, meta : Nat, labels : Nat, body : Nat, note : Nat,
            link : Seq(Urls), comments : Seq(Urls), attachments : Seq(Urls), inText : Seq(Urls)]

ASSUME SizesAssumption == Sizes \subseteq [rows : Nat, cols : Nat]
ASSUME UrlCellsAssumption == UrlCells \in [Urls -> Nat \ {0}]
ASSUME ContentsAssumption ==
    /\ Contents \subseteq Content
    /\ NoArticle \notin Content
ASSUME NotesAssumption ==
    /\ Notes \subseteq Nat
    /\ \A a \in Contents, n \in Notes : [a EXCEPT !.note = n] \in Contents

VARIABLES
    size,    \* the size of the screen at the last ui_layout
    only,    \* app->article_only then
    art,     \* app->article
    wrap,    \* app->art_wrap_width
    nlines,  \* app->art_nlines
    links,   \* app->art_links, as [url, line, nlines]
    scroll,  \* app->art_scroll
    sel,     \* app->art_link_sel
    blind    \* history: the text was scrolled while the pane had no row

vars == <<size, only, art, wrap, nlines, links, scroll, sel, blind>>
layout == <<size, only>>
text == <<art, wrap, nlines, links>>

-----------------------------------------------------------------------------
(* ui_layout's sizes for the pane.                                         *)

rows == Geometry(size, only).artRows
ColumnsFor(sz, o) == Geometry(sz, o).rightW

-----------------------------------------------------------------------------
(* article_rebuild.                                                        *)

\* The width the text is wrapped to.
WidthFor(cols) == AtLeast(4, cols - 2)

\* render_wrap: the lines of a text of n cells; the empty text is a blank line.
Lines(n, w) == AtLeast(1, (n + w - 1) \div w)

\* Texts one below the other: each line by its text and its number there.
LinesOf(texts, w) == UNION {{i} \X (1 .. Lines(texts[i], w)) : i \in DOMAIN texts}
Height(texts, w) == Cardinality(LinesOf(texts, w))

If(length) == IF length = 0 THEN <<>> ELSE <<length>>
Blank == <<0>>
CellsOf(urls) == [i \in DOMAIN urls |-> UrlCells[urls[i]]]

\* The texts above the list of links, in order; a note and the attachments
\* have a heading.
Texts(a) ==
    <<a.title>> \o Blank \o <<a.meta>> \o CellsOf(a.link) \o If(a.labels) \o Blank \o <<a.body>>
      \o (IF a.note = 0 THEN <<>> ELSE Blank \o <<5, a.note>>)
      \o (IF a.attachments = <<>> THEN <<>> ELSE Blank \o <<12>> \o CellsOf(a.attachments))

\* url_add: no URL that was added before is added again.
AddedFor(urls) == {i \in DOMAIN urls : \A j \in 1 .. i - 1 : urls[j] # urls[i]}

AllUrls(a) == a.link \o a.comments \o a.attachments \o a.inText
UrlsOf(a) == Subsequence(AllUrls(a), AddedFor(AllUrls(a)))

\* The list of links under `above' lines of text.
LinksBelow(above, urls, w) ==
    [i \in DOMAIN urls |->
        [url |-> urls[i],
         line |-> above + Height(CellsOf(SubSeq(urls, 1, i - 1)), w),
         nlines |-> Lines(UrlCells[urls[i]], w)]]

\* The text of an article: its links, if any, below a blank line and a heading.
Wrapped(a, w) ==
    LET urls == UrlsOf(a)
        above == Height(Texts(a) \o (IF urls = <<>> THEN <<>> ELSE Blank \o <<6>>), w)
    IN  [nlines |-> above + Height(CellsOf(urls), w), links |-> LinksBelow(above, urls, w)]

Link == [url : Urls, line : Nat, nlines : Nat \ {0}]

\* article_rebuild of what the pane shows next; scroll and selection are lost.
Rebuild(a, cols) ==
    /\ art' = a
    /\ scroll' = 0
    /\ sel' = -1
    /\ blind' = FALSE
    /\ IF a = NoArticle
       THEN nlines' = 0 /\ links' = <<>> /\ UNCHANGED wrap
       ELSE /\ wrap' = WidthFor(cols)
            /\ nlines' = Wrapped(a, WidthFor(cols)).nlines
            /\ links' = Wrapped(a, WidthFor(cols)).links

-----------------------------------------------------------------------------
(* What replaces the text.                                                 *)

\* article_load, when the server answers.
Load(a) ==
    /\ Rebuild(a, ColumnsFor(size, only))
    /\ UNCHANGED layout

\* article_load, when the request fails or the article is gone: it has cleared
\* the pane first.
LoadFails ==
    /\ art' = NoArticle
    /\ wrap' = 0
    /\ nlines' = 0
    /\ links' = <<>>
    /\ scroll' = 0
    /\ sel' = -1
    /\ blind' = FALSE
    /\ UNCHANGED layout

\* mutate, after a note was set: on the open article, or on another headline
\* of the list.  The text is wrapped again in either case.
SetNote(n, onArticle) ==
    /\ onArticle => art # NoArticle
    /\ Rebuild(IF onArticle THEN [art EXCEPT !.note = n] ELSE art, ColumnsFor(size, only))
    /\ UNCHANGED layout

\* Mutant: the text is wrapped again only when the pane has become narrower.
NarrowerOnly(cols) == art # NoArticle /\ wrap > cols - 2

\* ui_layout asks whether the text was wrapped to another width.
NeedsRewrap(cols) == art # NoArticle /\ wrap # cols - 2

\* ui_layout, of the same or another size or layout.  Unless the text is
\* wrapped again, scroll and selection are left as they are.
DoLayout ==
    /\ size' \in Sizes
    /\ only' \in BOOLEAN
    /\ LET cols == ColumnsFor(size', only')
       IN  IF NeedsRewrap(cols) THEN Rebuild(art, cols) ELSE UNCHANGED <<text, scroll, sel, blind>>

-----------------------------------------------------------------------------
(* Movement in the text.                                                   *)

\* Mutant: a text shorter than the pane has a negative limit.
MaxScrollSigned == nlines - rows

MaxScroll == AtLeast(0, nlines - rows)

\* Mutant: the text is scrolled until its last line has left the pane.
ClampPastEnd(s) == AtMost(nlines, AtLeast(0, s))

Clamp(s) == AtMost(MaxScroll, AtLeast(0, s))

\* Mutant: the rows of the pane are counted with its borders.
PageTooLong == rows + 2

\* PgDn and PgUp move by the rows of the pane.
Page == rows

\* article_scroll
Scroll(delta) ==
    /\ art # NoArticle
    /\ scroll' = Clamp(scroll + delta)
    /\ blind' = (blind \/ rows = 0)
    /\ UNCHANGED <<layout, text, sel>>

Down == Scroll(1)
Up == Scroll(-1)
PageDown == Scroll(Page)
PageUp == Scroll(-Page)

\* The link that is selected next; the list is a circle, entered at the end
\* that one moves away from.
NextSel(delta) ==
    IF sel < 0
    THEN IF delta > 0 THEN 0 ELSE Len(links) - 1
    ELSE (sel + delta) % Len(links)

\* Mutant: a link is revealed by its first line.
RevealFirstLine(l) ==
    IF l.line < scroll THEN l.line
    ELSE IF rows > 0 /\ l.line > scroll + rows THEN l.line - rows
    ELSE scroll

\* article_link_reveal, before the clamp.
Reveal(l) ==
    LET bottom == l.line + l.nlines
    IN  IF l.line < scroll THEN l.line
        ELSE IF rows > 0 /\ bottom > scroll + rows THEN bottom - rows
        ELSE scroll

\* article_link_move
LinkMove(delta) ==
    /\ links # <<>>
    /\ sel' = NextSel(delta)
    /\ scroll' = Clamp(Reveal(links[sel' + 1]))
    /\ blind' = (blind \/ rows = 0)
    /\ UNCHANGED <<layout, text>>

LinkNext == LinkMove(1)
LinkPrev == LinkMove(-1)

-----------------------------------------------------------------------------
Init ==
    /\ size \in Sizes
    /\ only = FALSE
    /\ art = NoArticle
    /\ wrap = 0
    /\ nlines = 0
    /\ links = <<>>
    /\ scroll = 0
    /\ sel = 0
    /\ blind = FALSE

Next ==
    \/ \E a \in Contents : Load(a)
    \/ LoadFails
    \/ \E n \in Notes, onArticle \in BOOLEAN : SetNote(n, onArticle)
    \/ DoLayout
    \/ Down \/ Up \/ PageDown \/ PageUp
    \/ LinkNext \/ LinkPrev

Spec == Init /\ [][Next]_vars

-----------------------------------------------------------------------------
(* Properties.                                                             *)

\* Every variable has its type, and a selected link is one of the list.
TypeOK ==
    /\ size \in Sizes
    /\ only \in BOOLEAN
    /\ art \in Contents \cup {NoArticle}
    /\ wrap \in Nat
    /\ nlines \in Nat
    /\ links \in Seq(Link)
    /\ scroll \in Nat
    /\ sel \in Int
    /\ sel >= -1
    /\ links # <<>> => sel < Len(links)
    /\ blind \in BOOLEAN

\* docs/manual-testing.md, "Resizing with an article open re-wraps the text to
\* the new width": the text kept is that of the article shown, at the width the
\* pane has now, after any sequence of loads, notes, layouts and movements.
WrapFollowsWidth ==
    art # NoArticle =>
        LET now == Wrapped(art, WidthFor(ColumnsFor(size, only)))
        IN  nlines = now.nlines /\ links = now.links

\* Every URL of the open article can be selected, and no link stands for the
\* same URL as another, however often the text repeats it: what url_add has
\* listed is all there is to move through, after any rebuild.
LinksListEachUrl ==
    art # NoArticle =>
        /\ \A k \in DOMAIN AllUrls(art) : \E i \in DOMAIN links : links[i].url = AllUrls(art)[k]
        /\ \A i, j \in DOMAIN links : links[i].url = links[j].url => i = j

\* The pane never shows nothing of an article: there is a line of text at its
\* top, through any resize, unless the text was scrolled in a pane without rows.
NeverBlank == art # NoArticle /\ ~blind => scroll < nlines

\* docs/manual-testing.md: the links "scroll the article so the selection stays
\* visible".  Whatever was scrolled or resized before, the selected link is in
\* the pane: all of it if it fits, else at least a line.
Selected == links[sel + 1]
SelectedVisible ==
    /\ Selected.line < scroll + rows
    /\ scroll < Selected.line + Selected.nlines
    /\ Selected.nlines <= rows =>
           scroll <= Selected.line /\ Selected.line + Selected.nlines <= scroll + rows
LinkRevealed == [][(LinkNext \/ LinkPrev) /\ rows > 0 => SelectedVisible']_vars

\* Paging skips no line: a page down starts at or above the first line that was
\* not shown, and shows more of the text unless its end was in the pane; a page
\* up likewise.
PagingSkipsNothing ==
    [][rows > 0 =>
        /\ PageDown => scroll' <= scroll + rows /\ (scroll' > scroll \/ nlines <= scroll + rows)
        /\ PageUp => scroll' >= scroll - rows /\ (scroll' < scroll \/ scroll = 0)]_vars
=============================================================================
