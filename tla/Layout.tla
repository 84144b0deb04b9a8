------------------------------- MODULE Layout -------------------------------
(***************************************************************************)
(* The arithmetic of ui_layout (src/ui/screen.c): how the screen is split  *)
(* into a sidebar on the left, the headlines above the article on the      *)
(* right, and a status line below.  Panes and Article are built on it.     *)
(***************************************************************************)
EXTENDS Integers

AtLeast(n, w) == IF w < n THEN n ELSE w
AtMost(n, w) == IF w > n THEN n ELSE w

\* The height left to the panes by the status line.
MainHeight(size) == AtLeast(3, size.rows - 1)

\* A quarter of the columns, or more of them on a narrow screen.
FeedShare(cols) ==
    LET quarter == cols \div 4
        third == IF quarter < 20 THEN cols \div 3 ELSE quarter
    IN  IF third < 14 THEN cols \div 2 ELSE third

FeedWidth(cols) == AtMost(cols - 10, AtLeast(8, AtMost(44, FeedShare(cols))))

\* Mutant: the list is kept at four rows whatever is left to the article.
HeadHeightFour(main) == AtLeast(4, main \div 2)

\* Half the height, at least four rows if the article keeps four.
HeadHeight(main) ==
    LET h == AtMost(main - 4, AtLeast(4, main \div 2))
    IN  IF h < 3 THEN main \div 2 ELSE h

\* The panes for a size of stdscr: heights, widths, rows inside the borders.
Geometry(size, only) ==
    LET main == MainHeight(size)
        headH == IF only THEN 0 ELSE HeadHeight(main)
    IN  [size |-> size, only |-> only, main |-> main,
         feedW |-> FeedWidth(size.cols),
         rightW |-> AtLeast(4, size.cols - FeedWidth(size.cols)),
         headH |-> headH, artH |-> main - headH,
         sideRows |-> main - 2,
         headRows |-> IF only THEN 0 ELSE headH - 2,
         artRows |-> main - headH - 2]
=============================================================================
