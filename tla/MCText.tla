------------------------------- MODULE MCText -------------------------------
(***************************************************************************)
(* Every content of up to five tokens of three kinds - elements whose      *)
(* contents are hidden, blanks and breaks, tags and comments -, and every  *)
(* note of up to seven letters and blanks, on lines of four cells, the     *)
(* fewest article_rebuild asks for.                                        *)
(***************************************************************************)
EXTENDS Text

MCContents ==
    UNION {SeqOf({"x", "<script", "</script", ">", "<!--"}, 5),
           SeqOf({"x", "space", "newline", "<br", ">"}, 5),
           SeqOf({"x", "<b", "<style", "</style", ">", "-->"}, 4),
           SeqOf({"W", "newline", "&lt;", "space"}, 4)}

MCPlain == SeqOf({"x", "W", "space", "newline"}, 7)
=============================================================================
