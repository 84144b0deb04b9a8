----------------------------- MODULE MCArticle ------------------------------
(* A small instance of Article for TLC: a short article without links, and one *)
(* with a link of its own that its text repeats, an attachment, and a URL      *)
(* longer than the least pane.  The widths are 8, 11 and 58 cells; the pane    *)
(* has no row, one row, a few, or more rows than the article has lines.        *)
EXTENDS Article

MCSizes == {[rows |-> 4, cols |-> 20], [rows |-> 6, cols |-> 20], [rows |-> 9, cols |-> 20],
            [rows |-> 9, cols |-> 26], [rows |-> 60, cols |-> 80]}

MCUrlCells == [a |-> 3, b |-> 21, c |-> 10]

Short(n) == [title |-> 3, meta |-> 0, labels |-> 0, body |-> 4, note |-> n,
             link |-> <<>>, comments |-> <<>>, attachments |-> <<>>, inText |-> <<>>]

Long(n) == [title |-> 9, meta |-> 8, labels |-> 4, body |-> 17, note |-> n,
            link |-> <<"a">>, comments |-> <<>>, attachments |-> <<"b">>,
            inText |-> <<"a", "c">>]

MCNotes == {0, 9}
MCContents == {Short(n) : n \in MCNotes} \cup {Long(n) : n \in MCNotes}
=============================================================================
