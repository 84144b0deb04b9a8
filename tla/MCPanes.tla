------------------------------ MODULE MCPanes -------------------------------
(* Sizes for TLC: a common one, the least that PanesFit covers, the sizes on  *)
(* both sides of the clamps of ui_layout, and one too small for every pane.   *)
EXTENDS Panes

MCSizes == [rows : {2, 6, 7, 24}, cols : {9, 18, 80, 200}]
MCFewSizes == {[rows |-> 7, cols |-> 18], [rows |-> 24, cols |-> 80]}

=============================================================================
