----------------------------- MODULE PagedList -----------------------------
(***************************************************************************)
(* What a list promises that is read page by page from a server which may  *)
(* change it at any moment: rows once shown keep their place until another *)
(* list is opened, and a page that is added is the stretch of the server's *)
(* list, as it is then, that follows as many rows as are shown.  There is  *)
(* taken to be more exactly as long as the last page was a full one.       *)
(***************************************************************************)
EXTENDS Naturals, Sequences

CONSTANTS
    Ids,
    Sizes   \* of a page

VARIABLES
    server,  \* the ids the server would list
    shown,   \* the ids of the rows
    more     \* another page is expected

lvars == <<server, shown, more>>

Slice(list, skip, n) ==
    SubSeq(list, skip + 1, IF skip + n < Len(list) THEN skip + n ELSE Len(list))

LInit ==
    /\ server \in Seq(Ids)
    /\ shown = <<>>
    /\ more = FALSE

\* Another list, or the same one again, from its beginning.
Open(n) ==
    /\ server' \in Seq(Ids)
    /\ shown' = Slice(server', 0, n)
    /\ more' = (Len(shown') >= n)

OpenFails ==
    /\ server' \in Seq(Ids)
    /\ shown' = <<>>
    /\ more' = FALSE

Extend(n) ==
    LET page == Slice(server, Len(shown), n)
    IN  /\ more
        /\ shown' = shown \o page
        /\ more' = (Len(page) >= n)
        /\ UNCHANGED server

Change ==
    /\ server' \in Seq(Ids)
    /\ UNCHANGED <<shown, more>>

LNext == OpenFails \/ Change \/ \E n \in Sizes : Open(n) \/ Extend(n)

LSpec == LInit /\ [][LNext]_lvars
=============================================================================
