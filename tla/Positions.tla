------------------------------ MODULE Positions ------------------------------
(***************************************************************************)
(* Part of a sequence, by positions: what a loop over a queue that keeps   *)
(* some entries and drops the others leaves behind.                        *)
(***************************************************************************)
EXTENDS Naturals, Sequences, FiniteSets

\* The elements of s at the positions in I, in their order.
AtPositions(s, I) ==
  [k \in 1..Cardinality(I) |-> s[CHOOSE i \in I : Cardinality({j \in I : j <= i}) = k]]
=============================================================================
