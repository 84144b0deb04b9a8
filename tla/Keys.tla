-------------------------------- MODULE Keys --------------------------------
(***************************************************************************)
(* The key bindings: g_bindings and input_action of src/ui/input.c.  The   *)
(* first row that has the key and the pane in focus decides, so a key may  *)
(* mean one thing in a pane and another everywhere else, depending on the  *)
(* order of the rows.                                                      *)
(***************************************************************************)
EXTENDS Integers, Sequences

\* The contexts, as the panes they cover.
Feeds == {"feeds"}
Heads == {"headlines"}
Article == {"article"}
List == Feeds \cup Heads
Global == List \cup Article

Row(keys, panes, act) == [keys |-> keys, panes |-> panes, act |-> act]

\* g_bindings; rows of one action and context that follow each other are one.
Bindings == <<
    Row({"j", "Down"}, List, "down"),
    Row({"k", "Up"}, List, "up"),
    Row({"g", "Home"}, List, "first"),
    Row({"G", "End"}, List, "last"),
    Row({"Up", "Right"}, Article, "linkNext"),
    Row({"Down", "Left"}, Article, "linkPrev"),
    Row({"Enter"}, Article, "openLink"),
    Row({"j"}, Article, "down"),
    Row({"k"}, Article, "up"),
    Row({"l", "Tab", "Right"}, Global, "focusNext"),
    Row({"h", "BackTab", "Left"}, Global, "focusPrev"),
    Row({"Enter"}, List, "open"),
    Row({"Space"}, Heads, "toggleArticle"),
    Row({"r"}, List \cup Article, "toggleRead"),
    Row({"s"}, List \cup Article, "toggleStar"),
    Row({"p"}, List \cup Article, "togglePublish"),
    Row({"n"}, Heads, "nextUnread"),
    Row({"x"}, Heads \cup Feeds, "catchup"),
    Row({"m"}, List \cup Article, "note"),
    Row({"+"}, List \cup Article, "scoreUp"),
    Row({"="}, List, "scoreUp"),
    Row({"-"}, List \cup Article, "scoreDown"),
    Row({"L"}, List \cup Article, "labels"),
    Row({"a"}, Global, "cycleView"),
    Row({"/"}, Heads, "filter"),
    Row({"A"}, Feeds, "subscribe"),
    Row({"D"}, Feeds, "unsubscribe"),
    Row({"u"}, Feeds, "updateFeed"),
    Row({"o"}, Global, "toggleLayout"),
    Row({"R"}, Global, "refresh"),
    Row({"?"}, Global, "help"),
    Row({"q"}, Global, "quit"),
    Row({"Esc"}, Global, "back"),
    Row({"PgDn"}, List, "pageDown"),
    Row({"PgUp"}, List, "pageUp"),
    Row({"PgDn"}, Article, "pageDown"),
    Row({"PgUp"}, Article, "pageUp"),
    Row({"Resize"}, Global, "refresh") >>

BoundKeys == UNION {Bindings[i].keys : i \in DOMAIN Bindings}

Matches(k, p) == {i \in DOMAIN Bindings : k \in Bindings[i].keys /\ p \in Bindings[i].panes}

\* Mutant: the last row wins.
LastMatch(k, p) ==
    IF Matches(k, p) = {} THEN "none"
    ELSE Bindings[CHOOSE i \in Matches(k, p) : \A j \in Matches(k, p) : j <= i].act

\* input_action
Lookup(k, p) ==
    IF Matches(k, p) = {} THEN "none"
    ELSE Bindings[CHOOSE i \in Matches(k, p) : \A j \in Matches(k, p) : i <= j].act

\* What each key does in each pane, and the actions a pane has keys for.
ActionOf == [p \in Global |-> [k \in BoundKeys |-> Lookup(k, p)]]
ActionsIn == [p \in Global |-> {ActionOf[p][k] : k \in BoundKeys}]

-----------------------------------------------------------------------------
(* The table of docs/keybindings.md: the panes of its contexts, its keys,  *)
(* and what they do there.                                                 *)

HeadlineOrArticle == Heads \cup Article

Documented == {
    Row({"j", "Down"}, List, "down"), Row({"k", "Up"}, List, "up"),
    Row({"PgDn"}, Global, "pageDown"), Row({"PgUp"}, Global, "pageUp"),
    Row({"g", "Home"}, List, "first"), Row({"G", "End"}, List, "last"),
    Row({"l", "Tab"}, Global, "focusNext"), Row({"Right"}, List, "focusNext"),
    Row({"h", "BackTab"}, Global, "focusPrev"), Row({"Left"}, List, "focusPrev"),
    Row({"Enter"}, List, "open"), Row({"Space"}, Heads, "toggleArticle"),
    Row({"j"}, Article, "down"), Row({"k"}, Article, "up"),
    Row({"Up", "Right"}, Article, "linkNext"), Row({"Down", "Left"}, Article, "linkPrev"),
    Row({"Enter"}, Article, "openLink"),
    Row({"r"}, HeadlineOrArticle, "toggleRead"), Row({"s"}, HeadlineOrArticle, "toggleStar"),
    Row({"p"}, HeadlineOrArticle, "togglePublish"), Row({"n"}, Heads, "nextUnread"),
    Row({"x"}, List, "catchup"), Row({"m"}, HeadlineOrArticle, "note"),
    Row({"+"}, HeadlineOrArticle, "scoreUp"), Row({"-"}, HeadlineOrArticle, "scoreDown"),
    Row({"L"}, HeadlineOrArticle, "labels"), Row({"a"}, Global, "cycleView"),
    Row({"/"}, Heads, "filter"), Row({"A"}, Feeds, "subscribe"),
    Row({"D"}, Feeds, "unsubscribe"), Row({"u"}, Feeds, "updateFeed"),
    Row({"o"}, Global, "toggleLayout"), Row({"R"}, Global, "refresh"),
    Row({"?"}, Global, "help"), Row({"q"}, Global, "quit"), Row({"Esc"}, Global, "back") }
=============================================================================
