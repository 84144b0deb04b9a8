------------------------------ MODULE MCReader ------------------------------
(* A small instance of Reader for TLC: Starred, then a feed, then a category *)
(* that has the number of the feed.  The feed holds its articles whatever    *)
(* their flags; an article enters and leaves Starred with its star.          *)
EXTENDS Reader

MCArticles == {1, 2}
MCIds == [f \in Sources |-> IF f = "starred" THEN -1 ELSE 1]
MCPlace == [f \in Sources |-> CASE f = "starred" -> 1 [] f = "feed" -> 2 [] f = "category" -> 3]
MCMembers == [f \in Sources |-> IF f = "category" THEN {} ELSE MCArticles]
MCSelects == [f \in Sources |->
    IF f = "starred" THEN {flags \in SUBSET Fields : "marked" \in flags} ELSE SUBSET Fields]

\* What TLC tells states apart by: the message of the status line and the total
\* beside it are written by actions and read by none.
WithoutStatusLine == <<srv, heads, hasMore, sel, cur, view, art, side, focus>>

=============================================================================
