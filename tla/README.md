# A verification development for tuituirss

tuituirss is a curses client for a Tiny Tiny RSS server: one process, one
thread, one HTTP request at a time. This directory holds TLA+ models of the
parts of it that keep state, TLC configurations that check them on small
instances, and proofs, checked by TLAPS, of what holds for every instance.

Paths below are relative to the repository. `PROJECT.json` maps every
definition that models code to its lines, and lists the runs, the mutants that
show that each property can fail, the findings, the hazards and the theorems.

## 1. Inventory

| component | source | state | operations | correct when |
|---|---|---|---|---|
| start-up | `src/main.c` | none of its own | load session, ask for a password, log in, save session, run | a usable session is held when the UI starts |
| API client | `src/api/api.c` | session id, API level, user name and password, last error | one function per operation; `api_call` renews a session once and replays | a change is sent once; an expired session is renewed when possible; every call returns |
| session cache | `src/api/session.c` | a file with the session id | load, save, clear | an unreadable or stale cache is no worse than none |
| sidebar | `src/ui/feedlist.c` | categories, feeds, unread counts, folding, selection, first row | load, move, home, end, toggle a category, activate | selection on a visible entry; counts those of the server |
| headline list | `src/ui/headlines.c` | rows, selection, first row, page size, "there is more" | load, load more, move, home, end, next unread | the selection exists and is visible; paging loses and repeats nothing |
| article pane | `src/ui/article.c` | the open article, its wrapped lines, links, scroll | load, rebuild, scroll, link movement, open link | shows the flags of the server; the link selected is visible |
| changes | `src/ui/screen.c` (`mutate` and the `do_*` functions) | none; edits the copies above | toggle flags, mark as read, note, score, catch-up, refresh, view, filter | every copy follows the server, none falls behind |
| layout and loop | `src/ui/screen.c` (`ui_layout`, `ui_run`) | pane geometry, focus, article-only flag, pending resize | draw, resize, move the focus, go back | panes tile the screen, the layout follows the terminal |
| dialogs | `src/ui/dialog.c` | their own loops and windows | prompt, question, message, label picker, help | keys that are not theirs (a resize) are not lost |
| key bindings | `src/ui/input.c` | a constant table | look up a key in a context | no binding hides another |
| parsing, model | `src/model/` | none | JSON to records | tolerant of the variants servers send |
| text | `src/util/util.c` | none | HTML to text, URLs, UTF-8 width, sanitising | no escape sequence passes, no cut character |
| rendering, status | `src/ui/render.c`, `src/ui/status.c` | the status text | output | errors are seen |
| configuration, log | `src/config/`, `src/util/log.c` | read once | load, validate | timeout is positive (`config.c:145`) |

**How they interact.** `main` builds an `ApiClient` and an `App` and hands both
to `ui_run`. The loop of `ui_run` draws, waits for a key, and calls the handler
of the pane in focus. A handler calls one or several `api_*` functions, each of
which blocks until the server answers or the request times out, and edits the
`App` record, which every pane reads. Dialogs read keys in loops of their own.
There are no threads, no callbacks that change state, and no state on disk
other than the session cache.

**What makes it hard.** The concurrency is with the outside: the server's data
changes between any two requests (other clients, new articles, the user's own
marks); an answer may be lost after the server has acted; a session may expire
between any two requests; the terminal may be resized at any moment; the process
may be killed. Inside, one change must be applied to three copies of the same
article; selections and windows are indices into arrays that are replaced and
resized; and a handler of several requests may fail half-way. `PROJECT.json`
lists these hazards line by line.

## 2. The modules

```
AtMostOnce        what a change request promises         (abstract)
  ^ refined by
Session           main, session cache, api_call          Session.cfg, SessionRestart.cfg
SessionProofs
PagedList         what a list read by pages promises     (abstract)
  ^ refined by
Headlines         the list: paging, selection, window    MCHeadlines
HeadlinesProofs
  ^ and by
Reader            three copies of the flags, counts      MCReader, MCReaderToggle
ReaderProofs
Lists             what a loop copies from an array       (used by Sidebar, Article, Wire)
Sidebar           list, folding, selection, window       MCSidebar, MCSidebarBump
SidebarProofs
Layout            the arithmetic of ui_layout            \
Keys              the table of key bindings               } used by
Panes             focus, loop, dialogs                   / MCPanes, MCPanesResize
PanesProofs
Article           text, links and scroll of an article   MCArticle   (on Layout)
ArticleProofs
LabelEdit         what the label dialog promises         (abstract)
  ^ refined by
Annotate          notes, scores, labels and their copies MCAnnotate
Wire              how a server's JSON is read            (used by Annotate)
AnnotateProofs
Text              html_to_text and render_wrap           MCText
TextProofs
```

### Session, AtMostOnce

`Session` composes three programs: `main()` from start to exit, the cache file,
and `api_call` with `api_login`; and the server's sessions. `pc` is where `main`
is; `op` and `phase` are the call in progress and which of its up to three
exchanges it is in (`first`, `renew` by `api_login`, `replay`). One action is one
exchange, by its outcome: `AnswerOk`, `AnswerNotLoggedIn`, `AnswerLogin`,
`RequestFails` (the server did nothing), `AnswerLost` (it acted, and the client
does not know), `TimesOut` (it may still act: `ArrivesLate`). `Truncate` and
`Write` are the two halves of `session_save`; `Kill` can come between them, and
anywhere else. `Expire` drops a session at any moment.

An operation of the API is abstracted to `query` or `toggle`: `api_call` does not
look at what it sends, and the toggle (`updateArticle`, mode 2) is the one that must
not be sent twice, as the second undoes the first. API, HTTP, transport and
parser errors are one outcome (`failed`): `api_call` treats all but
`NOT_LOGGED_IN` alike.

`AtMostOnce` is the promise: a request is carried out at most once, and has been
when the user is told so. `Session!KeepsPromise` says that `Session` implements
it, with its fairness (every request is answered somehow). `status` and
`executed` have the same meaning in both modules, so the mapping is the identity
on them and hides all the rest.

### Headlines, PagedList

`src/ui/headlines.c` with `next_unread` and the page-size line of `ui_layout`.
`heads`, `hasMore`, `limit`, `sel`, `top`, `rows` are the fields of `App`;
indices start at 0 as in the code. `listing` is the server's list for the loaded
view; any step of `ServerChange` replaces it. A request is atomic, as nothing of
the client runs while it waits, but the loop of `headlines_end` is one step per
turn, so that the list changes between its requests. Two history variables
serve as preconditions: `fresh` (the list on the server has had the same ids
since the load) and `placed` (the pane has had the same height since the
selection was placed: `ui_layout` does not move the window).

`PagedList` is what such a list promises, whoever edits its rows: a row keeps its place
until a list is opened, and a page that is added is the stretch of the server's list, as
it is then, that follows as many rows as are shown. `Headlines` and `Reader` both
implement it, through the ids of their rows; the mappings (`Paged`) and the proofs are in
`HeadlinesProofs` and `ReaderProofs`. It is what the two modules, which model the same
rows for different questions, have in common.

### Reader

The flags of an article exist three times: on the server (`srv`), in its row
(`heads`) and in the open article (`art`). The sidebar has counts (`side`), the
status line a total (`counters`). One action is one key, with the outcome of its
request: it succeeds, it fails, or the answer is lost; `OtherClient` changes the
server between keys. `mutate` is `Mutate`, in the code's order: the target, then
the first row with its id, then the open article, then the count. A flag is
the presence of its field in a set. Two abstractions: the requests of one key
see one state of the server, and a movement key selects any row (which one is the
subject of `Headlines`). View mode and search are one variable, `view`.

What an entry of the sidebar holds is `Held`: the articles it may hold (`Members`) whose
flags are among those it selects (`Selects`). A feed, a label, a category and the feed of
all articles select by no flag; Starred, Published and Fresh have the articles with a flag,
and so they gain and lose articles by the very keys that are modelled; Recently read is
approximated by the articles without "unread". Lists, counts and catch-ups are all of `Held`. An
entry has an id and a place (`Ids`, `Place`): `bump_sidebar_unread` knows the loaded entry by its
id alone, and changes the first entry that has it (`FirstWithId`), which may be a
category. The ids of articles are in the order in which the server lists them.

### Layout, Keys, Panes

`Layout` is the arithmetic of `ui_layout` (`Geometry`), shared by `Panes` and
`Article`. `Keys` is the table of `input.c`, with its rows in their order, and the
look-up that takes the first that fits (`Lookup`); `Documented` is the table of
`docs/keybindings.md`, for the property `KeysAsDocumented`.

`Panes` is the loop of `ui_run`: `Draw`, and one action per kind of key, enabled
when the table has a key for it in the pane in focus (`Press`); dialogs are a state
in which the next key goes to the dialog. `term` is the terminal's size and changes
at any moment; curses resizes `screen` when it delivers `KEY_RESIZE`, to whoever
reads the next key. The dialogs are told apart by what ends them: `Closing` ones
end at any key they do not know, `KEY_RESIZE` included, `Staying` ones ignore it.
`DialogKey` ends a dialog at any key; keys that edit or scroll it change nothing here.

### Article

`src/ui/article.c`, and the lines of `ui_layout` and `mutate` that touch its state.
A text is known by its length in cells (`Content`), as if it were one long word:
the module is about the indices into the wrapped text, and how words fill lines is
in `Text`. `Rebuild` is `article_rebuild`, called by a load, by a note (on the open
article or on any other: `mutate` does not ask), and by a layout of another width.
`AddedFor` is what `url_add` lets through of the URLs of an article, which come from
four places (`AllUrls`): those that no earlier one equals.
A layout of the same width keeps `scroll` although the height may have changed;
`blind` records that the text was scrolled while the pane had no row at all, the
one case in which it may then be blank.

### Annotate, Wire, LabelEdit

`Annotate` models `do_note`, `do_score`, `do_labels`, `mutate` for these fields, and
`dialog_label_picker`: the client's two copies of an article (`rows`, `art`), the
server's (`srv`), and another client of the account. A request ends `ok`, `refused`,
or `lost`: carried out, but answered by a timeout. The picker sends one request per
label (`SendLabel`), in steps between which the server lives on. `behind` is a
history variable: the copies that another client, a lost answer or the picker has
made doubtful since they were read.

What the server sends passes through `Wire`: `js_int`, `js_bool`, `js_str` and
`parse_label_entry` on JSON values that carry their kind. Three dialects send the
same number, flag or text in different ways (`Dialects`, external), after the
variants the code and the tests of the parser provide for.

`LabelEdit` is the promise of the label dialog: success is reported only when every
label is as chosen, a failure leaves each label chosen or as it was, and nothing is
sent afterwards. `KeepsLabelPromise` maps `assigned` to the labels of `srv`, and
`target`, `chosen`, `rest` to what the picker still has to send while it is sending.

### Text

`html_to_text`, then `render_wrap`, over texts that are sequences of tokens: a letter
of one or two cells, a blank, or what markup has at a place: `"<"` with the name
that follows it, `">"`, the two ends of a comment, an entity. One step is one turn
of a loop of the code. A line is the stretch of the text it shows (`<<i, j>>`), and
so "nothing lost" is a statement about places and not about equal letters. Simplified:
the name after a stray `"<"` counts as one letter (the code keeps the name); an entity
is a letter (`sb_put_cp` replaces control characters by U+FFFD); attributes are part
of the tag; code points without a cell and the sanitising of bytes are left out; a
word has fewer than 4096 bytes per line (the buffer of the cut).

### Lists, Sidebar

`Lists` says what a loop builds that goes through an array and copies some of its
elements: `Subsequence(s, I)` are the elements of `s` at the indices `I`, in order.
It is `SelectSeq` without recursion, so that lists of any length can be reasoned about.

`src/ui/feedlist.c` and `bump_sidebar_unread`. `Items` is the list that
`feedlist_load` builds from the answers to its two requests (`Answers` is the set of
answers, external); `Load` and `LoadFails` are its two outcomes, whoever calls it:
the start, `R`, `x`, and a subscription or its end. Of the loop of
`feedlist_move` the model has the result: the entry that is `delta` visible entries
away, or the last one. Indices count rows that are folded away and
`VisiblePos` does not, as in the code. `clamp_top` returns early in a pane without
rows; `ui_layout` never gives the sidebar one (`PanesFit`), so `RowCounts` has no zero.

## 3. The runs

| run | instance | states | shows |
|---|---|---|---|
| `headlines` | articles 1..3, any subset in the list, pages of 1 or 2, heights -1..2 | 243k | `SelectionInRange`, `SelectionVisible`, `PagingExact`, `EndReachesLast`, `EndTerminates` |
| `session` | two toggles, three session ids, failing disk, late arrivals | 199k | `ToggledAtMostOnce`, `ReplayHasNewSession`, `RenewalHidesExpiry`, `KeepsPromise`, `CallReturns` |
| `reader` | two articles with two flags, Starred, a feed, and a category with the id of the feed, page size 1 | 848k | `EveryArticleOnce`, `DisplayStaysExact`, `LoadedCountStaysExact`, `OpeningNeverMarksUnread` |
| `panes` | 16 sizes from 2x9 to 24x200, all keys of the table | 214k | `LayoutFollows`, `PanesFit`, `KeysAsDocumented`, `BackDescends` |
| `sidebar` | three answers: a full one of ten rows, an old server's with a nested category, an empty one; heights 1, 2, 4 | 66k | `SelectionIsEntry`, `SelectionOnScreen`, `ShowsEveryFeedOnce` |
| `article` | two articles with and without a note, five screens from 4x20 to 60x80, both layouts | 3k | `WrapFollowsWidth`, `NeverBlank`, `LinkRevealed`, `PagingSkipsNothing` |
| `annotate` | two articles, a note, scores -1..1, no labels or two, three dialects, two changes | 289k | `CopiesAgree`, `PickerShowsServer`, `KeepsLabelPromise` |
| `text` | every content of four or five tokens over four alphabets, every note of seven letters and blanks, lines of four cells | 248k | `LinesFit`, `NothingLost`, `HiddenStaysHidden`, `Terminates` |

Each has a type invariant too. Bounds, and why they are enough:

- *Headlines.* Three articles and pages of one or two give full pages, short
  pages, an exact multiple followed by an empty page, and a list that shrinks
  below or grows past what is loaded. Heights -1 and 0 are those of a terminal too
  small to split and of the article-only layout; 1 and 2 move the window and change
  the page size in the middle of paging. A loaded list may repeat an article
  (the server's list has shifted); it cannot grow without bound, as a page past
  the end of at most three rows is empty.
- *Session.* Three ids: one in the cache, one from a login, one from a renewal.
  There is no fourth login in a behaviour of this instance; the proofs cover any
  number. Two toggles: one may be late while the other is in progress.
- *Reader.* `Limit = 1` makes every load of two articles need a second page. Both
  articles are in the feed and, while they are starred, in Starred, so they are read
  through an entry that is not theirs and counts drift. Starred is the entry that a flag selects,
  and it lists what a view of one flag would list of the feed; the only view here is therefore
  "all_articles", and the proofs cover the other views. Of the flags, "unread" moves
  counts and "marked" moves articles between lists; `Apply` treats a third like the
  second. The category stands below the feed whose id it has; one that stands
  above it gets the changes of the feed's count, which is the run `sidebar_bump` and
  the exception `Shadowed`. `MaxCount` bounds a drifted count at what the server could
  ever answer: a step that would exceed it is not taken. TLC tells states apart by all
  variables but `status` and `counters` (`VIEW WithoutStatusLine`): they are written and never
  read, no property but the type invariant mentions them, and what they hold follows from the step
  that wrote them, so that nothing is cut off.
- *Panes.* Sizes on both sides of every clamp of `ui_layout` that matters at
  either end; the proofs cover all sizes.
- *Sidebar.* The full answer has all three sections, two categories that fold, a
  feed with the id of a category, and more rows than any height, so the window
  moves; heights 1 and 2 are the edges of `SelectionOnScreen`. `MaxUnread = 1` lets a count
  go up from zero and be kept from falling below it.
- *Article.* Panes without a row, with one, with a few, and with more rows than the
  short article has lines; widths of 8, 11 and 58 cells, so that the long URL takes
  three lines, two or one, and the links three lines or more than a pane. The long article
  repeats a URL. The proofs cover all articles and screens.
- *Annotate.* Two changes are enough for one of the client's and one of another
  client's in either order, or a lost one and a retry; the requests of the picker,
  one for each of two labels, count as one change, and in between the server may
  change once more. A server without labels opens no picker.
- *Text.* Four cells are the least width `article_rebuild` asks for; seven
  letters of one or two cells, with blanks, fill two lines, and are cut with a wide
  letter at the edge. Five tokens hold an opened and closed script with something in
  it, and every way to leave one of its parts out. The proofs cover all lengths.

`panes` and `text` do not check for deadlock: `Quit` ends the program, and a
text that is wrapped is done.

**Fairness.** `Session` assumes that an exchange in progress ends and that
`session_save` goes on: every request is made with `CURLOPT_TIMEOUT`, whose value
`config_load` keeps positive, and the code between exchanges does not
block. `Headlines` assumes the same of the loop of `headlines_end`, and that it is
not a failing request that ends it: `EndTerminates` holds because the server's
lists have an end. `Annotate` assumes of the picker's requests what `Session` does.
`Text` assumes that its loops run on: they wait for nothing. Nothing is
assumed of the user, of the server's answers, or of the terminal. `Reader`,
`Panes`, `Sidebar` and `Article` have no fairness and no liveness property.

**Disagreements.** Four runs end in a counterexample, each against a sentence
of the repository's documents:

| run | document | program |
|---|---|---|
| `session_restart` | `docs/manual-testing.md:70` | a session renewed while the program runs is not written to the cache |
| `reader_toggle` | `docs/manual-testing.md:35` | a toggle in the list is applied twice to its row, which goes on showing the old flag |
| `panes_resize` | `PLAN.md:361` | a resize while a dialog is open never reaches the layout |
| `sidebar_bump` | `docs/manual-testing.md:35` | the count of a loaded feed moves on a category that has the same id |

Others were met while modelling that need no run, since the code shows them at once:

- `PLAN.md:354` promises a renewal "when a password is available"; after a start
  with a cached session `TTUIRSS_PASSWORD` is never read (`src/main.c:147`).
- `docs/keybindings.md:30` says that `x` marks the current view; in the list it
  marks the whole feed, hidden rows included (`src/ui/screen.c:392`).
- `docs/tuituirss.1:24` says the status bar reports errors; `R`, `a`, `/` and `x` end
  with a message of success whatever their requests did (`src/ui/screen.c:640`).
- A note restarts the open article at its top, also when it was set on another
  headline (`src/ui/screen.c:262`).
- The labels shown of an open article stay as they were after `L` until it is
  loaded again (`src/ui/dialog.c:225`).
- The comment at `src/util/util.c:446` says that leading blank lines are dropped; up
  to two leading newlines are kept.
- A single newline does not end a line in `render_wrap`: only an empty paragraph does, so
  `<br>` joins its neighbours (`src/ui/render.c:294`).

The passing properties name the steps and states that would violate them as exceptions, in the
formula and not in the model. In `Panes` it is a resize that a dialog has read (`swallowed`,
the run `panes_resize`). In `Reader`:

| exception | of | why the code breaks the claim there |
|---|---|---|
| `Changed` | both | another client changes a flag; the copies are behind until they are loaded again |
| `AnswerLost` | both | the server has acted and the client takes it for a failure |
| `ToggledInList` | display | the toggle is applied twice to its row (the run `reader_toggle`); it concerns every flag |
| `ToggleInList("unread", "ok")` | count | the same row, compared before and after, has not changed, so no count moves |
| `CaughtUpElsewhere` | display | a catch-up marks every loaded row as read, also one that is not of the entry caught up, or is of it no more: an article whose star was removed stays in the list of Starred |
| `Shadowed` | count | a category with the loaded feed's id stands above it and gets the change (the run `sidebar_bump`) |
| `Refiled` | count | an unread article gains or loses the flag that the loaded entry selects by; only "unread" moves counts in the code |
| `cur' # cur` | count | another entry is loaded: its count was not the one claimed |

The count is claimed while what a key can act on, the selected row and the open article, is as
the server has it and counts in the loaded entry when it is unread (`SelectionInView`). An
article of another entry, left open while this one was loaded, does not;
nor does any article of an entry that has none unread, as Recently read. For each of these
conditions and exceptions TLC finds a counterexample when it is left out.

`EveryArticleOnce` is claimed of entries that no flag selects (`Steady`) in the view of all
articles; elsewhere paging by offset repeats and skips articles, and `ShrunkListSkips` below says how
many. `HiddenStaysHidden` is claimed of the first markup of a content, and of a script or style
sheet that is closed: `html_to_text` shows what is in one that is not (`src/util/util.c:413`).
`ShowsEveryFeedOnce` names the feeds that `feedlist_load` lists nowhere (`Answered`): those of a
category that was not answered, and those of an ordinary category with an id that is not positive
and, in category 0, not a virtual feed's.

## 4. The proofs

TLAPS proves the following for every value of the constants that satisfies the
named `ASSUME`s.

*HeadlinesProofs* (lists, heights and page sizes arbitrary; `Listings` a set of
sequences of headlines, `RowCounts` of integers, `PageDefault` positive):
`TypeCorrect`, `SelectionAlwaysInRange`, `SelectionAlwaysVisible`,
`PagingAlwaysExact`, `EndAlwaysReachesLast`, `MoreAlwaysMeansProgress`. The inductive invariant `Inv` is the conjunction of the
module's five state invariants. They need each other: a
movement past the end selects the last row, which is only a row because
`MoreMeansProgress` rules out "there is more" of an empty list; the window stays
above the selection only because pages have the height of the pane when it has
one. One lemma says what a request does to the list (`ListStep`), and every
movement is proved from it. `FirstUnread` chooses a least element; that it
exists is `LeastElement`, from the well-foundedness of the natural numbers.
`EndReachesLast` follows from `PagingExact` at the last turn of the loop of `G`, the only
step that leaves it (`EndEndsWithFinish`).

`KeepsPagingPromise` is the refinement of `PagedList`: initial states map to initial states,
and every step to one of its steps or to a stutter, in particular each turn of the loop of `G` and
each movement past the end to `Extend` (`MovePages`, `FetchMoreExtends`). The comparison of
lists is one of places: what a page has at each (`IdsOfPage`), what a page past the end is
(`PagePastEnd`). `ShrunkListSkips` says what paging by offset costs in the view of unread
articles: if the loaded rows have shrunk on the server to `kept`, the next page is
the stretch of the remaining articles that begins as many places late as rows
have left, and a short page ends the list without the ones passed over.

*SessionProofs* (any set of toggles and of session ids): `TypeCorrect`,
`NeverToggledTwice`, `ReplayIsRenewed`, `ExpiryIsHidden` and
`KeepsSafetyPromise`, the refinement of `AtMostOnce!ASafety`. `ToggledAtMostOnce` is
not inductive. `ToggleInv` adds what has happened to a toggle in each of its
states: an unsent one has not been carried out and is not late; an open one
belongs to the call in progress and has not been carried out; a late one has
been reported as failed and has not been carried out yet. `CallInv` says that a call
exists only while `main` waits for it; `SessionInv` that a session the client
uses was handed out, and that the one a replay uses was valid during this call.

*ReaderProofs* (any finite set of articles; any entries and categories, with any places, any
articles, any flags that select them, and any ids that no two feeds and no two categories
share; any flags with "unread" among them, any views of them, any page size; no bound on a
count is used): `TypeCorrect`, `OpeningKeepsRead`, `DisplayAlwaysExact`,
`LoadedCountAlwaysExact`, `AllArticlesOnce`.
The inductive invariant is `TypeOK` with `RowsBelong`: nothing is shown before an
entry is loaded, and the rows are articles of the entry that is loaded. That a page
has articles in it needs `NewestExists` - a finite set of n articles has, for each
k up to n, one with k - 1 newer ones - by well-foundedness. One lemma says what
`mutate` does whichever way it ends (`MutateMeaning`) and the lemmas on types, display and
count follow from it. `MutateAgrees` is the heart of the display: the target
and the first row with its id both get the change, which are the same row or
not; clearing a flag twice is clearing it once, and a toggle of the
open article reaches the list once. That is also why the toggle in the list is an exception. A page
that is appended leaves the first row of an article where it is (`MoveAgrees`).
For the count, one article that enters or leaves the unread ones of an entry, by whichever
flag, moves a cardinality by one (`UnreadMoves`), and what `mutate` compares
afterwards says what the server has (`MutateAfter`). Outside `Refiled` the article of a key
enters or leaves the count exactly when "unread" changes, and outside `Shadowed` the entry that
`bump_sidebar_unread` finds is the loaded one. The exceptions of both properties are
those of the table in section 3, and the theorems name no other.

`AllArticlesOnce` is about entries that no flag selects, in the view of all articles: none
is listed twice and, in the end, none is missing, while other clients read and toggle as they like
(that new articles arrive is the subject of `Headlines`: which articles an entry may hold is a
constant of `Reader`). The strengthening is `AllPaged`: the rows are the k newest articles. It
needs that the newest articles are different ones (`NewestOnce`) and that they are all
of them (`NewestAll`): each is told from the others by how many are newer. Without either
restriction TLC finds the property violated: in Starred by removing a star
between two pages.

Three more theorems of the same module are in no run:

- `RefreshAlwaysRepairs`: whatever drift those exceptions have caused, `R` with both requests
  answered makes every count and every row exact.
- `ToggleAlwaysCancelsOut`: the disagreement of the run `reader_toggle` is no corner case. Every
  toggle in the list that is answered, on the first row of its article, changes the server and
  leaves the row as it was; `mutate` applies it to that row as its target and again as the first
  row with the id.
- `KeepsPagingPromise`: `Reader` implements `PagedList` as `Headlines` does.

*PanesProofs* (any set of sizes): `TypeCorrect`, `LayoutAlwaysFollows`, `PanesAlwaysFit`,
`FocusKeysAlwaysShow`, `BackAlwaysDescends`, `KeysAlwaysAsDocumented`. The arithmetic of
the clamps is in two lemmas (`HeightsSplit`, `WidthsSplit`); the invariant adds that the
geometry is that of the size curses has unless a new layout is due or a dialog has read
the resize. The theorem on keys depends on no constant: it compares two tables, by
listing the rows that have each key (`KeysOfMovement` and the like) and by
`FirstRowWins`, that the first row with a key for a pane decides.

*SidebarProofs* (any answers of a server that gives no two feeds and no two categories
the same id, and no category an id below that of the labels - `AnswersAssumption` -, any
positive heights): `TypeCorrect`,
`SelectionAlwaysEntry`, `SelectionAlwaysOnScreen`, `AlwaysShowsEveryFeedOnce`.

- *The list.* `Items` is four selections in a row, of which the last is a concatenation of
  blocks. Where the elements of a selection are is `SubsequencePlaces`: the k-th
  index of a selection exists because no two indices have the same number of
  indices before them, so that all numbers are taken (`RankExists`, by the pigeonhole
  principle). Where the elements of a concatenation are is `FlattenSeqPlaces`, by
  a smallest counterexample. `ItemsParts`, `PartsOfSections` and `FeedPartPlaces` put
  the two together: what stands at each place of `Items`.
- *`SelectionIsEntry`.* The invariant adds that a list starts with a header
  (`HeaderFirst`), without which a feed need not have an owner and `Visible`
  says nothing; changing a count or folding a category then leaves the owner of every
  item what it was. That the lists have this form is `ItemsWellFormed`.
- *`SelectionOnScreen`.* A row above another has fewer rows above it (`RowAbove`), and
  `item_at_visible` finds the row it is asked for if there is one
  (`ItemAtVisibleFinds`); so `clamp_top` follows every movement (`ClampTopFollows`). A fold
  hides or shows only rows below the selected category, and the window starts at or above
  it, so that nothing above either of them moves (`RowsAboveKept`). After a load the first
  entry is the second row (`FirstRows`): that is why one row is not enough.
- *`ShowsEveryFeedOnce`.* The invariant is that the list is `Items(answer)` but for what is
  folded and what is unread (`NextKeepsShape`). Of `Items` it is proved that every item
  that is a feed is one of the answers (`EntryIsShown`), that an answered one is there
  (`AnsweredIsShown`), at one place only (`ShownOnce`), and below its own category
  (`OwnCategoryAbove`).

*ArticleProofs* (any articles, notes, URLs and screens): `TypeCorrect`,
`TextAlwaysFollowsWidth`, `LinksAlwaysListEachUrl`, `PaneNeverBlank`,
`LinkAlwaysRevealed`, `PagingNeverSkips`. The inductive invariant is the conjunction of
three of the run's invariants with `WellWrapped`: that links have lines of the text they
are in. `ArticleIsWellWrapped` proves it of every article and width: the lines of a list of texts
are a finite set, which grows with the list, and the lines of a link are those of a URL below
the ones before it (`TextIsBelow`). `LinksListEachUrl` follows from `TextAlwaysFollowsWidth` and
`EachUrlOnce`: of the places of a URL the first is the one that `url_add` keeps, and no
two kept places have the same URL; the lemmas on selections are those of *SidebarProofs*. `NeverBlank` holds
after a resize because a text as wide as before has as many lines, and another
width starts at the top; after a movement because the clamp leaves a line in view
of any pane that has a row. The two action properties follow from the clamp's arithmetic.

*AnnotateProofs* (any articles, labels, notes, bounds): `TypeCorrect`,
`CopiesAlwaysAgree`, `PickerAlwaysShowsServer`, and `KeepsLabelSafety`, the refinement of
`LabelEdit!ASafety`. That the parser gets out what a server of any dialect put in is
proved for numbers, flags and texts (`NumberRead`, `FlagRead`, `TextRead`), for the
labels of an article, which come by position (`OwnLabelsRead`), and for the answer to
`getLabels` (`LabelsRead`): none is dropped, because every entry is a label, and so the
selection is the whole list (`SubsequenceOfAll`). The refinement needs an invariant of its
own, that the requests still to send name labels of no earlier request: lists have no
label twice (`ConstantsAssumption`).

*TextProofs* (any contents and notes, any width of at least two cells):
`TypeCorrect`, `LinesAlwaysFit`, `NothingIsLost`, `HiddenNeverShows`. `NothingLost`
is strengthened by `Kept`: which stretches the open line and the word stand for,
and that they begin where the finished lines end. `LinesFit` needs that the
width of a line and a word with a blank between them is the sum (`Fitting`), from
the cardinalities of the three sets of `Cells`. `HiddenNeverShows` needs `PastHidden`:
the scan is never within the first hidden part of the content, since it passes over it in one step.

`LinksListEachUrl`, `FocusKeysShow`, `MoreMeansProgress`, the refinements of `PagedList`, `ShrunkListSkips`, and
the three theorems of `Reader` named above are proved and in no run. With these, every safety and every action property of the passing runs is a theorem. Only
model-checked is liveness, which is out of the prover's reach: `EndTerminates`,
`CallReturns`, `Terminates`, and the parts of `KeepsPromise` and `KeepsLabelPromise`
that say that something ends. The four runs that end in a counterexample are what they are:
no theorem claims those properties, and `ToggleAlwaysCancelsOut` is the opposite of one.

## 5. What is not modelled

- The requests of subscribing, unsubscribing and updating a feed: one request
  each, without a copy on the client; the reload that follows is `Load` of `Sidebar`.
- The parsing of categories, feeds and counters: the same three functions that
  `Wire` has, on other fields. Sanitising, entity decoding, URL extraction and
  dates: pure functions on bytes, whose point is the bytes.
- The editing of a line in a dialog, the scrolling of the help, the command that opens a link.
- `api_logout` and `session_clear`, which nothing calls.
- Drawing, status line, log: output only. Configuration: read once.
- Allocation failure.

## 6. Plan

Written, in order of importance: `Session` with `AtMostOnce`, `Headlines` and
`Reader` with `PagedList`, `Panes`, `Sidebar`, `Article`, `Annotate` with `LabelEdit`, `Text`; each
with proofs. What would come next:

1. `Reader` with articles that arrive between two requests, as in `Headlines`.
2. `Text` with code points that have no cell, and the extraction of URLs.
