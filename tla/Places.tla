------------------------------- MODULE Places -------------------------------
(***************************************************************************)
(* The elements of a sequence at some of its positions: what a loop over    *)
(* the sequence keeps, said without a loop.                                 *)
(***************************************************************************)
EXTENDS Integers, FiniteSets

\* The elements of s at the positions in I, in their order.
At(s, I) ==
  LET place(i) == Cardinality({j \in I : j <= i})
  IN [n \in 1..Cardinality(I) |-> s[CHOOSE i \in I : place(i) = n]]
=============================================================================
