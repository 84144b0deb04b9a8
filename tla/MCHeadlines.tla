---------------------------- MODULE MCHeadlines ----------------------------
(***************************************************************************)
(* A small instance of Headlines for TLC: articles 1..N, newest (highest)  *)
(* first; a list holds any of them, each read or unread.                   *)
(***************************************************************************)
EXTENDS Headlines, FiniteSetsExt, SequencesExt

CONSTANT N

MCIds == 1 .. N

\* The articles of S, newest first, with the unread flags u.
NewestFirst(S, u) ==
    [i \in 1 .. Cardinality(S) |->
        LET a == SetToSortSeq(S, LAMBDA x, y : x > y)[i]
        IN  [id |-> a, unread |-> u[a]]]

\* Unread is all of it, or nothing but article 1, at the end of the list if
\* it is there: the pre-selection falls on the first row or on the last.
MCListings == {NewestFirst(S, [a \in S |-> a \in U]) :
                  S \in SUBSET MCIds, U \in {MCIds, {1}}}

\* Panes: one on a terminal too small for the split, one hidden by the
\* article-only layout, and two that show some rows.
MCRowCounts == {-1, 0, 1, 2}
=============================================================================
