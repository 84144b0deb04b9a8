------------------------------- MODULE Lists --------------------------------
(***************************************************************************)
(* What the loops of tuituirss build that go through an array and copy     *)
(* some of its elements, in their order, as feedlist_load does: a          *)
(* selection is the set of the indices that are copied.  Subsequence says  *)
(* what SelectSeq says, without recursion, so that one can reason about it *)
(* for an array of any length.                                             *)
(***************************************************************************)
EXTENDS Integers, Sequences, FiniteSets

\* How many indices of a selection come before one.
Before(I, i) == Cardinality({j \in I : j < i})

\* The k-th index of a selection.
Nth(I, k) == CHOOSE i \in I : Before(I, i) = k - 1

\* What is copied.
Subsequence(s, I) == [k \in 1 .. Cardinality(I) |-> s[Nth(I, k)]]
=============================================================================
