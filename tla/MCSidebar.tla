----------------------------- MODULE MCSidebar ------------------------------
(* Small answers for TLC.  Categories and feeds are numbered independently,  *)
(* so a feed may have the id of a category.                                  *)
EXTENDS Sidebar

Cat(i) == [id |-> i, unread |-> 0]
Of(c, i) == [id |-> i, cat |-> c, unread |-> 0]

\* Virtual feeds and a label; category 2 with feeds 1 and 2, category 0.
Full == [cats |-> <<Cat(-1), Cat(2), Cat(0)>>,
         feeds |-> <<Of(-1, -4), Of(2, 1), Of(2, 2), Of(0, 3), Of(-2, -1025)>>]

\* An old server: virtual feeds come with category 0; feed 3 is in a nested
\* category, which getCategories does not name.
Old == [cats |-> <<Cat(0)>>, feeds |-> <<Of(0, -4), Of(0, 1), Of(7, 3)>>]

\* A new user has nothing.
Empty == [cats |-> <<>>, feeds |-> <<>>]

MCAnswers == {Full, Old, Empty}

=============================================================================
