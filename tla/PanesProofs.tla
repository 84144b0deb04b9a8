---------------------------- MODULE PanesProofs -----------------------------
(***************************************************************************)
(* Theorems of Panes, for terminals of any size: the arithmetic of         *)
(* ui_layout, that the layout on the screen is the one in force, that the  *)
(* keys that move the focus or go back do what they are for, and that      *)
(* every key does what its documentation says.                             *)
(***************************************************************************)
EXTENDS Panes, TLAPS

-----------------------------------------------------------------------------
(* The arithmetic of ui_layout.                                            *)

\* The split of the panes' height: at least the borders' height minus one row
\* for the list, and from six rows on a row inside each of the two panes.
LEMMA HeightsSplit ==
    ASSUME NEW main \in Nat, main >= 3
    PROVE  /\ HeadHeight(main) \in Int
           /\ HeadHeight(main) >= 1
           /\ main >= 6 => HeadHeight(main) >= 3 /\ main - HeadHeight(main) >= 3
BY DEF HeadHeight, AtLeast, AtMost

\* The panes' widths add up to the screen, and from 18 columns on the sidebar
\* has the width it is given at least.
LEMMA WidthsSplit ==
    ASSUME NEW cols \in Nat
    PROVE  /\ FeedWidth(cols) \in Int
           /\ cols - FeedWidth(cols) >= 10
           /\ cols >= 18 => FeedWidth(cols) >= 8
<1>1. FeedShare(cols) \in Nat
    BY DEF FeedShare
<1> QED
    BY <1>1 DEF FeedWidth, AtLeast, AtMost

\* What PanesFit says, of the layout for any size.
LEMMA GeometryFits ==
    ASSUME NEW size \in [rows : Nat, cols : Nat], NEW only \in BOOLEAN,
           geom = Geometry(size, only)
    PROVE  PanesFit
<1> DEFINE main == MainHeight(size)
           head == HeadHeight(main)
           feed == FeedWidth(size.cols)
<1>1. /\ size.rows \in Nat
      /\ size.cols \in Nat
    OBVIOUS
<1>2. /\ main \in Nat
      /\ main >= 3
      /\ size.rows >= 7 => main = size.rows - 1
    BY <1>1 DEF MainHeight, AtLeast
<1>3. /\ head \in Int
      /\ head >= 1
      /\ main >= 6 => head >= 3 /\ main - head >= 3
    BY <1>2, HeightsSplit
<1>4. /\ feed \in Int
      /\ size.cols - feed >= 10
      /\ size.cols >= 18 => feed >= 8
    BY <1>1, WidthsSplit
<1>5. /\ geom.size = size
      /\ geom.only = only
      /\ geom.feedW = feed
      /\ geom.rightW = AtLeast(4, size.cols - feed)
      /\ geom.headH = IF only THEN 0 ELSE head
      /\ geom.artH = main - geom.headH
      /\ geom.sideRows = main - 2
      /\ geom.headRows = IF only THEN 0 ELSE head - 2
      /\ geom.artRows = main - geom.headH - 2
    BY DEF Geometry
<1>6. geom.rightW = size.cols - feed
    BY <1>1, <1>4, <1>5 DEF AtLeast
<1> HIDE DEF main, head, feed
<1>7. geom.headRows >= -1
    BY <1>3, <1>5
<1>8. ASSUME size.rows >= 7, size.cols >= 18
      PROVE  /\ geom.feedW >= 8 /\ geom.rightW >= 10
             /\ geom.feedW + geom.rightW = size.cols
             /\ geom.headH + geom.artH + 1 = size.rows
             /\ geom.sideRows >= 1 /\ geom.artRows >= 1
             /\ ~only => geom.headRows >= 1
  <2>1. geom.headH \in Int /\ main - geom.headH >= 3
      BY <1>2, <1>3, <1>5, <1>8, <1>1
  <2> QED
      BY <2>1, <1>1, <1>2, <1>3, <1>4, <1>5, <1>6, <1>8
<1> QED
    BY <1>5, <1>7, <1>8 DEF PanesFit

-----------------------------------------------------------------------------
(* The invariant.                                                          *)

\* Between two layouts the panes stay those of the screen's size and of the
\* layout in force, unless a layout is due or a dialog has read a resize; and
\* no key is waited for while a layout is due.
DueInv ==
    /\ pc \in {"key", "dialog"} => ~needResize
    /\ ~needResize => geom = Geometry(screen, articleOnly) \/ swallowed

IInv == TypeOK /\ DueInv

LEMMA InitInv == Init => IInv
<1> SUFFICES ASSUME Init PROVE IInv
    OBVIOUS
<1>1. TypeOK
    BY DEF Init, TypeOK, PaneNames, Closing, Staying
<1>2. DueInv
    BY DEF Init, DueInv
<1> QED
    BY <1>1, <1>2 DEF IInv

\* Every pane a key of the loop leads to is one of the three.
LEMMA FocusIsPane ==
    ASSUME TypeOK
    PROVE  /\ NextPane(focus) \in PaneNames
           /\ PrevPane(focus) \in PaneNames
           /\ FocusAfterLayout(focus) \in PaneNames
BY DEF TypeOK, PaneNames, NextPane, PrevPane, FocusAfterLayout

LEMMA NextInv == IInv /\ [Next]_vars => IInv'
<1> SUFFICES ASSUME IInv, [Next]_vars PROVE IInv'
    OBVIOUS
<1> USE DEF IInv
<1>1. CASE Draw
  <2>1. TypeOK'
      BY <1>1, FocusIsPane DEF Draw, TypeOK
  <2>2. DueInv'
      BY <1>1 DEF Draw, DueInv, TypeOK
  <2> QED
      BY <2>1, <2>2
<1>2. CASE ResizeTerminal
    BY <1>2 DEF ResizeTerminal, TypeOK, DueInv
<1>3. CASE ReceiveResize
    BY <1>3 DEF ReceiveResize, TypeOK, DueInv
<1>4. CASE OtherKey
    BY <1>4 DEF OtherKey, Key, layoutVars, TypeOK, DueInv
<1>5. CASE MoveFocus
    BY <1>5, FocusIsPane DEF MoveFocus, Press, Key, layoutVars, TypeOK, DueInv
<1>6. CASE Back
    BY <1>6 DEF Back, GoBack, Press, Key, TypeOK, DueInv, PaneNames
<1>7. CASE Quit
    BY <1>7 DEF Quit, Press, Key, layoutVars, TypeOK, DueInv
<1>8. CASE ToggleLayout
    BY <1>8 DEF ToggleLayout, ToggleResize, Press, Key, TypeOK, DueInv
<1>9. CASE Open
    BY <1>9 DEF Open, Press, Key, layoutVars, TypeOK, DueInv, PaneNames
<1>10. CASE OpenDialog
    BY <1>10 DEF OpenDialog, DialogFor, Press, Key, layoutVars, TypeOK, DueInv, Closing, Staying
<1>11. CASE DialogKey
    BY <1>11 DEF DialogKey, CloseDialog, layoutVars, TypeOK, DueInv, Closing, Staying
<1>12. CASE DialogGetsResize
    BY <1>12 DEF DialogGetsResize, CloseDialog, TypeOK, DueInv, Closing, Staying
<1>13. CASE UNCHANGED vars
    BY <1>13 DEF vars, TypeOK, DueInv
<1> QED
    BY <1>1, <1>2, <1>3, <1>4, <1>5, <1>6, <1>7, <1>8, <1>9, <1>10, <1>11, <1>12, <1>13
       DEF Next

\* ui_layout is called whenever the layout or the size changes, but for the
\* resizes a dialog has read.
THEOREM Invariance == Spec => []IInv
BY InitInv, NextInv, PTL DEF Spec

-----------------------------------------------------------------------------
(* What follows.                                                           *)

\* Every variable has its type: a dialog is open exactly while one reads the
\* keys, and the panes are always those of some size and some layout.
THEOREM TypeCorrect == Spec => []TypeOK
<1>1. IInv => TypeOK
    BY DEF IInv
<1> QED
    BY <1>1, Invariance, PTL

\* While the loop waits for a key, the panes are those of the layout and the
\* size in use, unless a resize is pending or a dialog has read it.
THEOREM LayoutAlwaysFollows == Spec => []LayoutFollows
<1>1. IInv => LayoutFollows
    BY DEF IInv, DueInv, LayoutFollows, ResizePending
<1> QED
    BY <1>1, Invariance, PTL

\* On every terminal of at least 7 rows and 18 columns the panes tile the
\* screen with room in each; on any terminal the list has -1 rows or more.
THEOREM PanesAlwaysFit == Spec => []PanesFit
<1>1. IInv => PanesFit
  <2> SUFFICES ASSUME IInv PROVE PanesFit
      OBVIOUS
  <2>1. PICK size \in Sizes, only \in BOOLEAN : geom = Geometry(size, only)
      BY DEF IInv, TypeOK
  <2>2. size \in [rows : Nat, cols : Nat]
      BY SizesAssumption
  <2> QED
      BY <2>1, <2>2, GeometryFits
<1> QED
    BY <1>1, Invariance, PTL

\* Tab, h, l, Esc and q never leave the focus on a pane that is not shown.
THEOREM FocusKeysAlwaysShow == Spec => FocusKeysShow
<1>1. IInv /\ [Next]_vars => [MoveFocus \/ Back => Shown(focus, articleOnly)']_vars
  <2> SUFFICES ASSUME IInv, MoveFocus \/ Back PROVE Shown(focus, articleOnly)'
      OBVIOUS
  <2>1. CASE MoveFocus
      BY <2>1 DEF MoveFocus, NextPane, PrevPane, Shown, IInv, TypeOK, PaneNames
  <2>2. CASE Back
      BY <2>2 DEF Back, GoBack, Shown, IInv, TypeOK, PaneNames
  <2> QED
      BY <2>1, <2>2
<1> QED
    BY <1>1, Invariance, PTL DEF Spec, FocusKeysShow

\* From every pane of either layout, going back leads towards the sidebar.
THEOREM BackAlwaysDescends == Spec => BackDescends
<1>1. IInv /\ [Next]_vars => [Back /\ focus # "feeds" => Depth' < Depth]_vars
  <2> SUFFICES ASSUME IInv, Back, focus # "feeds" PROVE Depth' < Depth
      OBVIOUS
  <2> QED
      BY DEF Back, GoBack, Depth, IInv, TypeOK, PaneNames
<1> QED
    BY <1>1, Invariance, PTL DEF Spec, BackDescends

-----------------------------------------------------------------------------
(* The key bindings.  What follows depends on no constant: the table of    *)
(* the program, row by row, against that of docs/keybindings.md.           *)

\* The rows of the table.
LEMMA FirstRows ==
    /\ Bindings[1] = Row({"j", "Down"}, List, "down")
    /\ Bindings[2] = Row({"k", "Up"}, List, "up")
    /\ Bindings[3] = Row({"g", "Home"}, List, "first")
    /\ Bindings[4] = Row({"G", "End"}, List, "last")
    /\ Bindings[5] = Row({"Up", "Right"}, Article, "linkNext")
    /\ Bindings[6] = Row({"Down", "Left"}, Article, "linkPrev")
    /\ Bindings[7] = Row({"Enter"}, Article, "openLink")
    /\ Bindings[8] = Row({"j"}, Article, "down")
    /\ Bindings[9] = Row({"k"}, Article, "up")
    /\ Bindings[10] = Row({"l", "Tab", "Right"}, Global, "focusNext")
    /\ Bindings[11] = Row({"h", "BackTab", "Left"}, Global, "focusPrev")
    /\ Bindings[12] = Row({"Enter"}, List, "open")
    /\ Bindings[13] = Row({"Space"}, Heads, "toggleArticle")
BY DEF Bindings

LEMMA MiddleRows ==
    /\ Bindings[14] = Row({"r"}, List \cup Article, "toggleRead")
    /\ Bindings[15] = Row({"s"}, List \cup Article, "toggleStar")
    /\ Bindings[16] = Row({"p"}, List \cup Article, "togglePublish")
    /\ Bindings[17] = Row({"n"}, Heads, "nextUnread")
    /\ Bindings[18] = Row({"x"}, Heads \cup Feeds, "catchup")
    /\ Bindings[19] = Row({"m"}, List \cup Article, "note")
    /\ Bindings[20] = Row({"+"}, List \cup Article, "scoreUp")
    /\ Bindings[21] = Row({"="}, List, "scoreUp")
    /\ Bindings[22] = Row({"-"}, List \cup Article, "scoreDown")
    /\ Bindings[23] = Row({"L"}, List \cup Article, "labels")
    /\ Bindings[24] = Row({"a"}, Global, "cycleView")
    /\ Bindings[25] = Row({"/"}, Heads, "filter")
    /\ Bindings[26] = Row({"A"}, Feeds, "subscribe")
BY DEF Bindings

LEMMA LastRows ==
    /\ Bindings[27] = Row({"D"}, Feeds, "unsubscribe")
    /\ Bindings[28] = Row({"u"}, Feeds, "updateFeed")
    /\ Bindings[29] = Row({"o"}, Global, "toggleLayout")
    /\ Bindings[30] = Row({"R"}, Global, "refresh")
    /\ Bindings[31] = Row({"?"}, Global, "help")
    /\ Bindings[32] = Row({"q"}, Global, "quit")
    /\ Bindings[33] = Row({"Esc"}, Global, "back")
    /\ Bindings[34] = Row({"PgDn"}, List, "pageDown")
    /\ Bindings[35] = Row({"PgUp"}, List, "pageUp")
    /\ Bindings[36] = Row({"PgDn"}, Article, "pageDown")
    /\ Bindings[37] = Row({"PgUp"}, Article, "pageUp")
    /\ Bindings[38] = Row({"Resize"}, Global, "refresh")
BY DEF Bindings

\* How many there are, and their numbers.
LEMMA TableLength == DOMAIN Bindings = 1 .. 38
BY DEF Bindings

LEMMA RowNumbers ==
    ASSUME NEW i \in DOMAIN Bindings
    PROVE  \/ i = 1 \/ i = 2 \/ i = 3 \/ i = 4 \/ i = 5 \/ i = 6 \/ i = 7 \/ i = 8 \/ i = 9 \/ i = 10
           \/ i = 11 \/ i = 12 \/ i = 13 \/ i = 14 \/ i = 15 \/ i = 16 \/ i = 17 \/ i = 18 \/ i = 19 \/ i = 20
           \/ i = 21 \/ i = 22 \/ i = 23 \/ i = 24 \/ i = 25 \/ i = 26 \/ i = 27 \/ i = 28 \/ i = 29 \/ i = 30
           \/ i = 31 \/ i = 32 \/ i = 33 \/ i = 34 \/ i = 35 \/ i = 36 \/ i = 37 \/ i = 38
BY TableLength

\* The rows that have a key, for every key of the document: most have one.
LEMMA KeysOfMovement ==
    ASSUME NEW i \in DOMAIN Bindings
    PROVE  /\ "j" \in Bindings[i].keys => i \in {1, 8}
           /\ "Down" \in Bindings[i].keys => i \in {1, 6}
           /\ "k" \in Bindings[i].keys => i \in {2, 9}
           /\ "Up" \in Bindings[i].keys => i \in {2, 5}
           /\ "PgDn" \in Bindings[i].keys => i \in {34, 36}
           /\ "PgUp" \in Bindings[i].keys => i \in {35, 37}
           /\ "g" \in Bindings[i].keys => i \in {3}
           /\ "Home" \in Bindings[i].keys => i \in {3}
           /\ "G" \in Bindings[i].keys => i \in {4}
           /\ "End" \in Bindings[i].keys => i \in {4}
<1>1. CASE i \in 1 .. 13
  BY <1>1, FirstRows, RowNumbers DEF Row
<1>2. CASE i \in 14 .. 26
  BY <1>2, MiddleRows, RowNumbers DEF Row
<1>3. CASE i \in 27 .. 38
  BY <1>3, LastRows, RowNumbers DEF Row
<1> QED BY <1>1, <1>2, <1>3, TableLength

LEMMA KeysOfChoice ==
    ASSUME NEW i \in DOMAIN Bindings
    PROVE  /\ "l" \in Bindings[i].keys => i \in {10}
           /\ "Tab" \in Bindings[i].keys => i \in {10}
           /\ "Right" \in Bindings[i].keys => i \in {5, 10}
           /\ "h" \in Bindings[i].keys => i \in {11}
           /\ "BackTab" \in Bindings[i].keys => i \in {11}
           /\ "Left" \in Bindings[i].keys => i \in {6, 11}
           /\ "Enter" \in Bindings[i].keys => i \in {7, 12}
           /\ "Space" \in Bindings[i].keys => i \in {13}
           /\ "r" \in Bindings[i].keys => i \in {14}
           /\ "s" \in Bindings[i].keys => i \in {15}
<1>1. CASE i \in 1 .. 13
  BY <1>1, FirstRows, RowNumbers DEF Row
<1>2. CASE i \in 14 .. 26
  BY <1>2, MiddleRows, RowNumbers DEF Row
<1>3. CASE i \in 27 .. 38
  BY <1>3, LastRows, RowNumbers DEF Row
<1> QED BY <1>1, <1>2, <1>3, TableLength

LEMMA KeysOfArticles ==
    ASSUME NEW i \in DOMAIN Bindings
    PROVE  /\ "p" \in Bindings[i].keys => i \in {16}
           /\ "n" \in Bindings[i].keys => i \in {17}
           /\ "x" \in Bindings[i].keys => i \in {18}
           /\ "m" \in Bindings[i].keys => i \in {19}
           /\ "+" \in Bindings[i].keys => i \in {20}
           /\ "-" \in Bindings[i].keys => i \in {22}
           /\ "L" \in Bindings[i].keys => i \in {23}
           /\ "a" \in Bindings[i].keys => i \in {24}
           /\ "/" \in Bindings[i].keys => i \in {25}
           /\ "A" \in Bindings[i].keys => i \in {26}
<1>1. CASE i \in 1 .. 13
  BY <1>1, FirstRows, RowNumbers DEF Row
<1>2. CASE i \in 14 .. 26
  BY <1>2, MiddleRows, RowNumbers DEF Row
<1>3. CASE i \in 27 .. 38
  BY <1>3, LastRows, RowNumbers DEF Row
<1> QED BY <1>1, <1>2, <1>3, TableLength

LEMMA KeysOfViews ==
    ASSUME NEW i \in DOMAIN Bindings
    PROVE  /\ "D" \in Bindings[i].keys => i \in {27}
           /\ "u" \in Bindings[i].keys => i \in {28}
           /\ "o" \in Bindings[i].keys => i \in {29}
           /\ "R" \in Bindings[i].keys => i \in {30}
           /\ "?" \in Bindings[i].keys => i \in {31}
           /\ "q" \in Bindings[i].keys => i \in {32}
           /\ "Esc" \in Bindings[i].keys => i \in {33}
<1>1. CASE i \in 1 .. 13
  BY <1>1, FirstRows, RowNumbers DEF Row
<1>2. CASE i \in 14 .. 26
  BY <1>2, MiddleRows, RowNumbers DEF Row
<1>3. CASE i \in 27 .. 38
  BY <1>3, LastRows, RowNumbers DEF Row
<1> QED BY <1>1, <1>2, <1>3, TableLength

\* Of the rows that have a key for a pane, row i is the first.
IsFirst(i, k, p) ==
    /\ i \in DOMAIN Bindings /\ k \in Bindings[i].keys /\ p \in Bindings[i].panes
    /\ \A j \in DOMAIN Bindings : k \in Bindings[j].keys /\ p \in Bindings[j].panes => i <= j

\* It decides.
LEMMA FirstRowWins ==
    ASSUME NEW k, NEW p \in Global, NEW i, IsFirst(i, k, p)
    PROVE  ActionOf[p][k] = Bindings[i].act
<1>1. i \in Matches(k, p) /\ \A j \in Matches(k, p) : i <= j
  BY DEF IsFirst, Matches
<1>2. Matches(k, p) \subseteq Int
  BY TableLength DEF Matches
<1>3. \A m \in Matches(k, p) : (\A j \in Matches(k, p) : m <= j) => m = i
  BY <1>1, <1>2
<1>4. (CHOOSE m \in Matches(k, p) : \A j \in Matches(k, p) : m <= j) = i
  BY <1>1, <1>3
<1>5. Lookup(k, p) = Bindings[i].act
  BY <1>1, <1>4 DEF Lookup
<1>6. k \in BoundKeys
  BY DEF IsFirst, BoundKeys
<1> QED BY <1>5, <1>6 DEF ActionOf

\* A key that the document names for a pane does there what it says.
LEMMA DocumentedRowWorks ==
    ASSUME NEW d \in Documented, NEW p \in d.panes, NEW k \in d.keys
    PROVE  ActionOf[p][k] = d.act
<1>1. CASE d = Row({"j", "Down"}, List, "down")
  <2>1. /\ Bindings[1] = Row({"j", "Down"}, List, "down")
        /\ Bindings[6] = Row({"Down", "Left"}, Article, "linkPrev")
        /\ Bindings[8] = Row({"j"}, Article, "down")
    BY FirstRows
  <2>2. IsFirst(1, k, p)
    BY <1>1, <2>1, TableLength, KeysOfMovement
    DEF IsFirst, Row, Global, List, Feeds, Heads, Article, HeadlineOrArticle
  <2> QED BY <1>1, <2>1, <2>2, FirstRowWins
          DEF Row, Global, List, Feeds, Heads, Article, HeadlineOrArticle
<1>2. CASE d = Row({"k", "Up"}, List, "up")
  <2>1. /\ Bindings[2] = Row({"k", "Up"}, List, "up")
        /\ Bindings[5] = Row({"Up", "Right"}, Article, "linkNext")
        /\ Bindings[9] = Row({"k"}, Article, "up")
    BY FirstRows
  <2>2. IsFirst(2, k, p)
    BY <1>2, <2>1, TableLength, KeysOfMovement
    DEF IsFirst, Row, Global, List, Feeds, Heads, Article, HeadlineOrArticle
  <2> QED BY <1>2, <2>1, <2>2, FirstRowWins
          DEF Row, Global, List, Feeds, Heads, Article, HeadlineOrArticle
<1>3. CASE d = Row({"PgDn"}, Global, "pageDown")
  <2>1. /\ Bindings[34] = Row({"PgDn"}, List, "pageDown")
        /\ Bindings[36] = Row({"PgDn"}, Article, "pageDown")
    BY LastRows
  <2>2. IsFirst(34, k, p) \/ IsFirst(36, k, p)
    BY <1>3, <2>1, TableLength, KeysOfMovement
    DEF IsFirst, Row, Global, List, Feeds, Heads, Article, HeadlineOrArticle
  <2> QED BY <1>3, <2>1, <2>2, FirstRowWins
          DEF Row, Global, List, Feeds, Heads, Article, HeadlineOrArticle
<1>4. CASE d = Row({"PgUp"}, Global, "pageUp")
  <2>1. /\ Bindings[35] = Row({"PgUp"}, List, "pageUp")
        /\ Bindings[37] = Row({"PgUp"}, Article, "pageUp")
    BY LastRows
  <2>2. IsFirst(35, k, p) \/ IsFirst(37, k, p)
    BY <1>4, <2>1, TableLength, KeysOfMovement
    DEF IsFirst, Row, Global, List, Feeds, Heads, Article, HeadlineOrArticle
  <2> QED BY <1>4, <2>1, <2>2, FirstRowWins
          DEF Row, Global, List, Feeds, Heads, Article, HeadlineOrArticle
<1>5. CASE d \in {Row({"g", "Home"}, List, "first"), Row({"G", "End"}, List, "last")}
  <2>1. /\ Bindings[3] = Row({"g", "Home"}, List, "first")
        /\ Bindings[4] = Row({"G", "End"}, List, "last")
    BY FirstRows
  <2>2. \/ IsFirst(3, k, p) /\ d.act = "first"
        \/ IsFirst(4, k, p) /\ d.act = "last"
    BY <1>5, <2>1, TableLength, KeysOfMovement
    DEF IsFirst, Row, Global, List, Feeds, Heads, Article, HeadlineOrArticle
  <2> QED BY <1>5, <2>1, <2>2, FirstRowWins
          DEF Row, Global, List, Feeds, Heads, Article, HeadlineOrArticle
<1>6. CASE d = Row({"l", "Tab"}, Global, "focusNext")
  <2>1. /\ Bindings[10] = Row({"l", "Tab", "Right"}, Global, "focusNext")
    BY FirstRows
  <2>2. IsFirst(10, k, p)
    BY <1>6, <2>1, TableLength, KeysOfChoice
    DEF IsFirst, Row, Global, List, Feeds, Heads, Article, HeadlineOrArticle
  <2> QED BY <1>6, <2>1, <2>2, FirstRowWins
          DEF Row, Global, List, Feeds, Heads, Article, HeadlineOrArticle
<1>7. CASE d = Row({"Right"}, List, "focusNext")
  <2>1. /\ Bindings[5] = Row({"Up", "Right"}, Article, "linkNext")
        /\ Bindings[10] = Row({"l", "Tab", "Right"}, Global, "focusNext")
    BY FirstRows
  <2>2. IsFirst(10, k, p)
    BY <1>7, <2>1, TableLength, KeysOfChoice
    DEF IsFirst, Row, Global, List, Feeds, Heads, Article, HeadlineOrArticle
  <2> QED BY <1>7, <2>1, <2>2, FirstRowWins
          DEF Row, Global, List, Feeds, Heads, Article, HeadlineOrArticle
<1>8. CASE d = Row({"h", "BackTab"}, Global, "focusPrev")
  <2>1. /\ Bindings[11] = Row({"h", "BackTab", "Left"}, Global, "focusPrev")
    BY FirstRows
  <2>2. IsFirst(11, k, p)
    BY <1>8, <2>1, TableLength, KeysOfChoice
    DEF IsFirst, Row, Global, List, Feeds, Heads, Article, HeadlineOrArticle
  <2> QED BY <1>8, <2>1, <2>2, FirstRowWins
          DEF Row, Global, List, Feeds, Heads, Article, HeadlineOrArticle
<1>9. CASE d = Row({"Left"}, List, "focusPrev")
  <2>1. /\ Bindings[6] = Row({"Down", "Left"}, Article, "linkPrev")
        /\ Bindings[11] = Row({"h", "BackTab", "Left"}, Global, "focusPrev")
    BY FirstRows
  <2>2. IsFirst(11, k, p)
    BY <1>9, <2>1, TableLength, KeysOfChoice
    DEF IsFirst, Row, Global, List, Feeds, Heads, Article, HeadlineOrArticle
  <2> QED BY <1>9, <2>1, <2>2, FirstRowWins
          DEF Row, Global, List, Feeds, Heads, Article, HeadlineOrArticle
<1>10. CASE d = Row({"Enter"}, List, "open")
  <2>1. /\ Bindings[7] = Row({"Enter"}, Article, "openLink")
        /\ Bindings[12] = Row({"Enter"}, List, "open")
    BY FirstRows
  <2>2. IsFirst(12, k, p)
    BY <1>10, <2>1, TableLength, KeysOfChoice
    DEF IsFirst, Row, Global, List, Feeds, Heads, Article, HeadlineOrArticle
  <2> QED BY <1>10, <2>1, <2>2, FirstRowWins
          DEF Row, Global, List, Feeds, Heads, Article, HeadlineOrArticle
<1>11. CASE d = Row({"Space"}, Heads, "toggleArticle")
  <2>1. /\ Bindings[13] = Row({"Space"}, Heads, "toggleArticle")
    BY FirstRows
  <2>2. IsFirst(13, k, p)
    BY <1>11, <2>1, TableLength, KeysOfChoice
    DEF IsFirst, Row, Global, List, Feeds, Heads, Article, HeadlineOrArticle
  <2> QED BY <1>11, <2>1, <2>2, FirstRowWins
          DEF Row, Global, List, Feeds, Heads, Article, HeadlineOrArticle
<1>12. CASE d = Row({"j"}, Article, "down")
  <2>1. /\ Bindings[1] = Row({"j", "Down"}, List, "down")
        /\ Bindings[8] = Row({"j"}, Article, "down")
    BY FirstRows
  <2>2. IsFirst(8, k, p)
    BY <1>12, <2>1, TableLength, KeysOfMovement
    DEF IsFirst, Row, Global, List, Feeds, Heads, Article, HeadlineOrArticle
  <2> QED BY <1>12, <2>1, <2>2, FirstRowWins
          DEF Row, Global, List, Feeds, Heads, Article, HeadlineOrArticle
<1>13. CASE d = Row({"k"}, Article, "up")
  <2>1. /\ Bindings[2] = Row({"k", "Up"}, List, "up")
        /\ Bindings[9] = Row({"k"}, Article, "up")
    BY FirstRows
  <2>2. IsFirst(9, k, p)
    BY <1>13, <2>1, TableLength, KeysOfMovement
    DEF IsFirst, Row, Global, List, Feeds, Heads, Article, HeadlineOrArticle
  <2> QED BY <1>13, <2>1, <2>2, FirstRowWins
          DEF Row, Global, List, Feeds, Heads, Article, HeadlineOrArticle
<1>14. CASE d = Row({"Up", "Right"}, Article, "linkNext")
  <2>1. /\ Bindings[2] = Row({"k", "Up"}, List, "up")
        /\ Bindings[5] = Row({"Up", "Right"}, Article, "linkNext")
        /\ Bindings[10] = Row({"l", "Tab", "Right"}, Global, "focusNext")
    BY FirstRows
  <2>2. IsFirst(5, k, p)
    <3>1. CASE k = "Up"
      BY <1>14, <2>1, <3>1, TableLength, KeysOfMovement
      DEF IsFirst, Row, Global, List, Feeds, Heads, Article, HeadlineOrArticle
    <3>2. CASE k = "Right"
      BY <1>14, <2>1, <3>2, TableLength, KeysOfChoice
      DEF IsFirst, Row, Global, List, Feeds, Heads, Article, HeadlineOrArticle
    <3> QED BY <1>14, <3>1, <3>2 DEF Row
  <2> QED BY <1>14, <2>1, <2>2, FirstRowWins
          DEF Row, Global, List, Feeds, Heads, Article, HeadlineOrArticle
<1>15. CASE d = Row({"Down", "Left"}, Article, "linkPrev")
  <2>1. /\ Bindings[1] = Row({"j", "Down"}, List, "down")
        /\ Bindings[6] = Row({"Down", "Left"}, Article, "linkPrev")
        /\ Bindings[11] = Row({"h", "BackTab", "Left"}, Global, "focusPrev")
    BY FirstRows
  <2>2. IsFirst(6, k, p)
    <3>1. CASE k = "Down"
      BY <1>15, <2>1, <3>1, TableLength, KeysOfMovement
      DEF IsFirst, Row, Global, List, Feeds, Heads, Article, HeadlineOrArticle
    <3>2. CASE k = "Left"
      BY <1>15, <2>1, <3>2, TableLength, KeysOfChoice
      DEF IsFirst, Row, Global, List, Feeds, Heads, Article, HeadlineOrArticle
    <3> QED BY <1>15, <3>1, <3>2 DEF Row
  <2> QED BY <1>15, <2>1, <2>2, FirstRowWins
          DEF Row, Global, List, Feeds, Heads, Article, HeadlineOrArticle
<1>16. CASE d = Row({"Enter"}, Article, "openLink")
  <2>1. /\ Bindings[7] = Row({"Enter"}, Article, "openLink")
        /\ Bindings[12] = Row({"Enter"}, List, "open")
    BY FirstRows
  <2>2. IsFirst(7, k, p)
    BY <1>16, <2>1, TableLength, KeysOfChoice
    DEF IsFirst, Row, Global, List, Feeds, Heads, Article, HeadlineOrArticle
  <2> QED BY <1>16, <2>1, <2>2, FirstRowWins
          DEF Row, Global, List, Feeds, Heads, Article, HeadlineOrArticle
<1>17. CASE d \in {Row({"r"}, HeadlineOrArticle, "toggleRead"),
               Row({"s"}, HeadlineOrArticle, "toggleStar")}
  <2>1. /\ Bindings[14] = Row({"r"}, List \cup Article, "toggleRead")
        /\ Bindings[15] = Row({"s"}, List \cup Article, "toggleStar")
    BY MiddleRows
  <2>2. \/ IsFirst(14, k, p) /\ d.act = "toggleRead"
        \/ IsFirst(15, k, p) /\ d.act = "toggleStar"
    BY <1>17, <2>1, TableLength, KeysOfChoice
    DEF IsFirst, Row, Global, List, Feeds, Heads, Article, HeadlineOrArticle
  <2> QED BY <1>17, <2>1, <2>2, FirstRowWins
          DEF Row, Global, List, Feeds, Heads, Article, HeadlineOrArticle
<1>18. CASE d \in {Row({"p"}, HeadlineOrArticle, "togglePublish"),
               Row({"n"}, Heads, "nextUnread"), Row({"x"}, List, "catchup")}
  <2>1. /\ Bindings[16] = Row({"p"}, List \cup Article, "togglePublish")
        /\ Bindings[17] = Row({"n"}, Heads, "nextUnread")
        /\ Bindings[18] = Row({"x"}, Heads \cup Feeds, "catchup")
    BY MiddleRows
  <2>2. \/ IsFirst(16, k, p) /\ d.act = "togglePublish"
        \/ IsFirst(17, k, p) /\ d.act = "nextUnread"
        \/ IsFirst(18, k, p) /\ d.act = "catchup"
    BY <1>18, <2>1, TableLength, KeysOfArticles
    DEF IsFirst, Row, Global, List, Feeds, Heads, Article, HeadlineOrArticle
  <2> QED BY <1>18, <2>1, <2>2, FirstRowWins
          DEF Row, Global, List, Feeds, Heads, Article, HeadlineOrArticle
<1>19. CASE d \in {Row({"m"}, HeadlineOrArticle, "note"),
               Row({"+"}, HeadlineOrArticle, "scoreUp"),
               Row({"-"}, HeadlineOrArticle, "scoreDown")}
  <2>1. /\ Bindings[19] = Row({"m"}, List \cup Article, "note")
        /\ Bindings[20] = Row({"+"}, List \cup Article, "scoreUp")
        /\ Bindings[22] = Row({"-"}, List \cup Article, "scoreDown")
    BY MiddleRows
  <2>2. \/ IsFirst(19, k, p) /\ d.act = "note"
        \/ IsFirst(20, k, p) /\ d.act = "scoreUp"
        \/ IsFirst(22, k, p) /\ d.act = "scoreDown"
    BY <1>19, <2>1, TableLength, KeysOfArticles
    DEF IsFirst, Row, Global, List, Feeds, Heads, Article, HeadlineOrArticle
  <2> QED BY <1>19, <2>1, <2>2, FirstRowWins
          DEF Row, Global, List, Feeds, Heads, Article, HeadlineOrArticle
<1>20. CASE d \in {Row({"L"}, HeadlineOrArticle, "labels"),
               Row({"a"}, Global, "cycleView"), Row({"/"}, Heads, "filter")}
  <2>1. /\ Bindings[23] = Row({"L"}, List \cup Article, "labels")
        /\ Bindings[24] = Row({"a"}, Global, "cycleView")
        /\ Bindings[25] = Row({"/"}, Heads, "filter")
    BY MiddleRows
  <2>2. \/ IsFirst(23, k, p) /\ d.act = "labels"
        \/ IsFirst(24, k, p) /\ d.act = "cycleView"
        \/ IsFirst(25, k, p) /\ d.act = "filter"
    BY <1>20, <2>1, TableLength, KeysOfArticles
    DEF IsFirst, Row, Global, List, Feeds, Heads, Article, HeadlineOrArticle
  <2> QED BY <1>20, <2>1, <2>2, FirstRowWins
          DEF Row, Global, List, Feeds, Heads, Article, HeadlineOrArticle
<1>21. CASE d = Row({"A"}, Feeds, "subscribe")
  <2>1. /\ Bindings[26] = Row({"A"}, Feeds, "subscribe")
    BY MiddleRows
  <2>2. IsFirst(26, k, p)
    BY <1>21, <2>1, TableLength, KeysOfArticles
    DEF IsFirst, Row, Global, List, Feeds, Heads, Article, HeadlineOrArticle
  <2> QED BY <1>21, <2>1, <2>2, FirstRowWins
          DEF Row, Global, List, Feeds, Heads, Article, HeadlineOrArticle
<1>22. CASE d \in {Row({"D"}, Feeds, "unsubscribe"), Row({"u"}, Feeds, "updateFeed"),
               Row({"o"}, Global, "toggleLayout")}
  <2>1. /\ Bindings[27] = Row({"D"}, Feeds, "unsubscribe")
        /\ Bindings[28] = Row({"u"}, Feeds, "updateFeed")
        /\ Bindings[29] = Row({"o"}, Global, "toggleLayout")
    BY LastRows
  <2>2. \/ IsFirst(27, k, p) /\ d.act = "unsubscribe"
        \/ IsFirst(28, k, p) /\ d.act = "updateFeed"
        \/ IsFirst(29, k, p) /\ d.act = "toggleLayout"
    BY <1>22, <2>1, TableLength, KeysOfViews
    DEF IsFirst, Row, Global, List, Feeds, Heads, Article, HeadlineOrArticle
  <2> QED BY <1>22, <2>1, <2>2, FirstRowWins
          DEF Row, Global, List, Feeds, Heads, Article, HeadlineOrArticle
<1>23. CASE d \in {Row({"R"}, Global, "refresh"), Row({"?"}, Global, "help"),
               Row({"q"}, Global, "quit")}
  <2>1. /\ Bindings[30] = Row({"R"}, Global, "refresh")
        /\ Bindings[31] = Row({"?"}, Global, "help")
        /\ Bindings[32] = Row({"q"}, Global, "quit")
    BY LastRows
  <2>2. \/ IsFirst(30, k, p) /\ d.act = "refresh"
        \/ IsFirst(31, k, p) /\ d.act = "help"
        \/ IsFirst(32, k, p) /\ d.act = "quit"
    BY <1>23, <2>1, TableLength, KeysOfViews
    DEF IsFirst, Row, Global, List, Feeds, Heads, Article, HeadlineOrArticle
  <2> QED BY <1>23, <2>1, <2>2, FirstRowWins
          DEF Row, Global, List, Feeds, Heads, Article, HeadlineOrArticle
<1>24. CASE d = Row({"Esc"}, Global, "back")
  <2>1. /\ Bindings[33] = Row({"Esc"}, Global, "back")
    BY LastRows
  <2>2. IsFirst(33, k, p)
    BY <1>24, <2>1, TableLength, KeysOfViews
    DEF IsFirst, Row, Global, List, Feeds, Heads, Article, HeadlineOrArticle
  <2> QED BY <1>24, <2>1, <2>2, FirstRowWins
          DEF Row, Global, List, Feeds, Heads, Article, HeadlineOrArticle
<1> QED BY <1>1, <1>2, <1>3, <1>4, <1>5, <1>6, <1>7, <1>8, <1>9, <1>10, <1>11, <1>12,
          <1>13, <1>14, <1>15, <1>16, <1>17, <1>18, <1>19, <1>20, <1>21, <1>22, <1>23,
          <1>24 DEF Documented

\* KeysAsDocumented: in the pane that has the focus every key does what
\* docs/keybindings.md says, whatever the sizes and whatever has happened.
THEOREM KeysAlwaysAsDocumented == Spec => []KeysAsDocumented
<1>1. KeysAsDocumented
  BY DocumentedRowWorks DEF KeysAsDocumented
<1> QED BY <1>1, PTL

=============================================================================
