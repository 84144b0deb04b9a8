------------------------------- MODULE Panes --------------------------------
(***************************************************************************)
(* The main loop of tuituirss, its three panes and its dialogs: which pane *)
(* has the focus, which panes the layout shows, how large they are, and    *)
(* how a change of the terminal's size reaches them (ui_run, ui_layout,    *)
(* draw_all, focus_next, focus_prev and go_back in src/ui/screen.c, and    *)
(* the loops of src/ui/dialog.c that read keys themselves).                *)
(*                                                                         *)
(* A resize of the terminal becomes a KEY_RESIZE that curses hands to      *)
(* whoever reads the next key: the main loop, or the dialog that is open.  *)
(* curses resizes stdscr at that moment, not before.                       *)
(***************************************************************************)
EXTENDS Layout, Keys

CONSTANT Sizes  \* the sizes the terminal may have, as [rows, cols]

ASSUME SizesAssumption == Sizes \subseteq [rows : Nat, cols : Nat]

VARIABLES
    term,         \* the terminal's size (external)
    screen,       \* the size of stdscr
    geom,         \* what ui_layout last computed
    articleOnly,  \* app->article_only
    needResize,   \* app->need_resize
    focus,        \* app->focus
    pc,           \* "draw", "key" (waiting in getch), "dialog", "done"
    dialog,       \* the kind of dialog that is open, else "none"
    swallowed     \* history: a dialog got the KEY_RESIZE of the size in use

vars == <<term, screen, geom, articleOnly, needResize, focus, pc, dialog, swallowed>>
layoutVars == <<screen, geom, needResize, swallowed>>

PaneNames == {"feeds", "headlines", "article"}

\* Dialogs that end at any key they do not know, and those that stay open.
Closing == {"confirm", "message", "help"}
Staying == {"input", "labels"}

-----------------------------------------------------------------------------
(* ui_layout, whose arithmetic is in Layout.                               *)

\* Focus is not left on the headline pane when the layout drops it.
FocusAfterLayout(p) == IF p = "headlines" /\ articleOnly THEN "article" ELSE p

-----------------------------------------------------------------------------
(* The loop of ui_run.                                                     *)

\* draw_all
Draw ==
    /\ pc = "draw"
    /\ pc' = "key"
    /\ IF needResize
       THEN /\ geom' = Geometry(screen, articleOnly)
            /\ focus' = FocusAfterLayout(focus)
            /\ needResize' = FALSE
            /\ swallowed' = FALSE
       ELSE UNCHANGED <<geom, focus, needResize, swallowed>>
    /\ UNCHANGED <<term, screen, articleOnly, dialog>>

\* The user resizes the terminal, at any time.
ResizeTerminal ==
    /\ pc # "done"
    /\ term' \in Sizes
    /\ UNCHANGED <<screen, geom, articleOnly, needResize, focus, pc, dialog, swallowed>>

ResizePending == term # screen

\* getch returns KEY_RESIZE to the main loop.
ReceiveResize ==
    /\ pc = "key"
    /\ ResizePending
    /\ screen' = term
    /\ needResize' = TRUE
    /\ pc' = "draw"
    /\ UNCHANGED <<term, geom, articleOnly, focus, dialog, swallowed>>

\* getch returns a key, or nothing within half a second.
Key ==
    /\ pc = "key"
    /\ ~ResizePending

\* The key that is read has one of these actions in the pane in focus.
Press(acts) == Key /\ acts \cap ActionsIn[focus] # {}

\* A key that changes neither layout nor focus, or the timeout.
OtherKey ==
    /\ Key
    /\ pc' = "draw"
    /\ UNCHANGED <<term, articleOnly, focus, dialog>>
    /\ UNCHANGED layoutVars

-----------------------------------------------------------------------------
(* Keys.                                                                   *)

\* focus_next
NextPane(p) ==
    IF articleOnly
    THEN IF p = "feeds" THEN "article" ELSE "feeds"
    ELSE IF p = "feeds" THEN "headlines" ELSE IF p = "headlines" THEN "article" ELSE "feeds"

\* focus_prev
PrevPane(p) ==
    IF articleOnly
    THEN IF p = "feeds" THEN "article" ELSE "feeds"
    ELSE IF p = "feeds" THEN "article" ELSE IF p = "headlines" THEN "feeds" ELSE "headlines"

MoveFocus ==
    /\ \/ Press({"focusNext"}) /\ focus' = NextPane(focus)
       \/ Press({"focusPrev"}) /\ focus' = PrevPane(focus)
    /\ pc' = "draw"
    /\ UNCHANGED <<term, articleOnly, dialog>>
    /\ UNCHANGED layoutVars

\* Mutant: the article-only layout is not left.
GoBackInPlace ==
    /\ focus' = IF focus = "article" /\ ~articleOnly THEN "headlines"
                ELSE IF focus = "headlines" THEN "feeds" ELSE focus
    /\ UNCHANGED <<term, screen, geom, articleOnly, needResize, dialog, swallowed>>

\* go_back: leave the article-only layout, or step one pane to the left.
GoBack ==
    IF articleOnly /\ focus = "article"
    THEN /\ articleOnly' = FALSE
         /\ needResize' = TRUE
         /\ UNCHANGED <<term, screen, geom, focus, dialog, swallowed>>
    ELSE /\ focus' = IF focus = "article" THEN "headlines" ELSE "feeds"
         /\ UNCHANGED <<term, screen, geom, articleOnly, needResize, dialog, swallowed>>

\* Esc, and q outside the sidebar (where go_back leaves the focus as it is).
Back ==
    /\ IF focus = "feeds" THEN Press({"back"}) ELSE Press({"back", "quit"})
    /\ GoBack
    /\ pc' = "draw"

\* q in the sidebar.
Quit ==
    /\ Press({"quit"})
    /\ focus = "feeds"
    /\ pc' = "done"
    /\ UNCHANGED <<term, articleOnly, focus, dialog>>
    /\ UNCHANGED layoutVars

\* Mutant: the layout is switched and not computed again.
ToggleNoResize == UNCHANGED needResize

\* o: the new layout is computed before the next frame.
ToggleResize == needResize' = TRUE

ToggleLayout ==
    /\ Press({"toggleLayout"})
    /\ articleOnly' = ~articleOnly
    /\ ToggleResize
    /\ pc' = "draw"
    /\ UNCHANGED <<term, screen, geom, focus, dialog, swallowed>>

\* Enter in the sidebar, when the list could be loaded (feedlist_activate),
\* and in the list, when the article could (headlines_activate).  The layout
\* is not asked whether it shows the list.
Open ==
    /\ Press({"open"})
    /\ focus' = IF focus = "feeds" THEN "headlines" ELSE "article"
    /\ pc' = "draw"
    /\ UNCHANGED <<term, articleOnly, dialog>>
    /\ UNCHANGED layoutVars

\* The dialog that an action opens; D asks its question only about a feed.
DialogFor ==
    [filter |-> "input", note |-> "input", subscribe |-> "input",
     labels |-> "labels", unsubscribe |-> "confirm", help |-> "help"]

OpenDialog ==
    /\ \E a \in DOMAIN DialogFor : Press({a}) /\ dialog' = DialogFor[a]
    /\ pc' = "dialog"
    /\ UNCHANGED <<term, articleOnly, focus>>
    /\ UNCHANGED layoutVars

-----------------------------------------------------------------------------
(* Keys that a dialog reads.                                               *)

\* Mutant: the dialog's window is left open when its loop ends.
CloseDialogKeepsWindow ==
    /\ pc' = "draw"
    /\ UNCHANGED dialog

\* The loop of the dialog ends and its window is deleted.
CloseDialog ==
    /\ pc' = "draw"
    /\ dialog' = "none"

\* A key that ends the dialog (those that edit or scroll change nothing here).
DialogKey ==
    /\ pc = "dialog"
    /\ ~ResizePending
    /\ CloseDialog
    /\ UNCHANGED <<term, articleOnly, focus>>
    /\ UNCHANGED layoutVars

\* KEY_RESIZE is one more key to a dialog: to a question it is a no, it ends a
\* message and the help, and the others ignore it.  need_resize is not set.
DialogGetsResize ==
    /\ pc = "dialog"
    /\ ResizePending
    /\ screen' = term
    /\ swallowed' = TRUE
    /\ IF dialog \in Closing THEN CloseDialog ELSE UNCHANGED <<pc, dialog>>
    /\ UNCHANGED <<term, geom, articleOnly, needResize, focus>>

-----------------------------------------------------------------------------
\* ui_run lays out the screen, loads the sidebar, and reports a failure of
\* that in a dialog before it enters the loop.
Init ==
    /\ term \in Sizes
    /\ screen = term
    /\ articleOnly = FALSE
    /\ geom = Geometry(screen, articleOnly)
    /\ needResize = FALSE
    /\ focus = "feeds"
    /\ \/ pc = "draw" /\ dialog = "none"
       \/ pc = "dialog" /\ dialog = "message"
    /\ swallowed = FALSE

Next ==
    \/ Draw \/ ResizeTerminal \/ ReceiveResize \/ OtherKey
    \/ MoveFocus \/ Back \/ Quit \/ ToggleLayout \/ Open \/ OpenDialog
    \/ DialogKey \/ DialogGetsResize

Spec == Init /\ [][Next]_vars

-----------------------------------------------------------------------------
(* Properties.                                                             *)

\* Every variable has its type.
TypeOK ==
    /\ term \in Sizes
    /\ screen \in Sizes
    /\ \E size \in Sizes, only \in BOOLEAN : geom = Geometry(size, only)
    /\ articleOnly \in BOOLEAN
    /\ needResize \in BOOLEAN
    /\ focus \in PaneNames
    /\ pc \in {"draw", "key", "dialog", "done"}
    /\ dialog \in Closing \cup Staying \cup {"none"}
    /\ dialog # "none" <=> pc = "dialog"
    /\ swallowed \in BOOLEAN

\* Whenever the loop waits for a key, the panes on the screen are those of the
\* layout in force for the size the terminal has, unless the resize is still
\* to be read or a dialog has read it.
LayoutFollows ==
    pc = "key" =>
        \/ geom = Geometry(term, articleOnly)
        \/ ResizePending
        \/ swallowed

\* On any screen of at least 7 rows and 18 columns the panes fill it without
\* overlapping, and every pane has a row inside its borders; whatever the
\* size, the list never has fewer than -1 rows, the least Headlines assumes.
PanesFit ==
    /\ geom.headRows >= -1
    /\ geom.size.rows >= 7 /\ geom.size.cols >= 18 =>
        /\ geom.feedW >= 8 /\ geom.rightW >= 10
        /\ geom.feedW + geom.rightW = geom.size.cols
        /\ geom.headH + geom.artH + 1 = geom.size.rows
        /\ geom.sideRows >= 1 /\ geom.artRows >= 1
        /\ ~geom.only => geom.headRows >= 1

Shown(p, only) == p = "headlines" => ~only

\* In the pane that has the focus every key that docs/keybindings.md names for
\* it does what the document says, though the arrows and Enter mean something
\* else in another pane, or everywhere else.
KeysAsDocumented ==
    \A d \in Documented : focus \in d.panes => \A k \in d.keys : ActionOf[focus][k] = d.act

\* The keys that move the focus, and those that go back, leave it on a pane
\* that the layout shows, wherever it was.
FocusKeysShow == [][MoveFocus \/ Back => Shown(focus, articleOnly)']_vars

\* How many times one must go back before q quits.
Depth ==
    (IF focus = "feeds" THEN 0 ELSE IF focus = "headlines" THEN 1 ELSE 2)
      + (IF articleOnly THEN 1 ELSE 0)

\* Going back always gets closer to the sidebar, from which q quits: no layout
\* and no focus traps the user.
BackDescends == [][Back /\ focus # "feeds" => Depth' < Depth]_vars

-----------------------------------------------------------------------------
(* What the documents say of the program, and the program does not do.     *)

\* PLAN.md, "Handle SIGWINCH for resize (recompute split ratios and re-clamp
\* page size)": once a resize has been read, the panes have the new size.
ResizeReachesLayout == pc = "key" /\ ~ResizePending => geom.size = term

=============================================================================
