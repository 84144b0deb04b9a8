----------------------------- MODULE MCAnnotate -----------------------------
(***************************************************************************)
(* Two articles, one note, a server without labels and one with two.       *)
(***************************************************************************)
EXTENDS Annotate

MCLabelLists == {<<>>, <<-11, -12>>}
=============================================================================
