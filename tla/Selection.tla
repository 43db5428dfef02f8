------------------------------ MODULE Selection ------------------------------
(***************************************************************************)
(* The filtering comprehensions of the code, [x for x in s if test(x)]:    *)
(* the elements of a sequence at some of its positions, in their order.    *)
(* Stated by position rather than with SelectSeq, so that what was picked  *)
(* can be related to the place that it came from, and reasoned about.      *)
(***************************************************************************)
EXTENDS Naturals, Sequences, FiniteSets

\* The place among the kept positions of the one at i.
Rank(kept, i) == Cardinality({j \in kept : j <= i})

\* The kept position of a given rank.
AtRank(kept, k) == CHOOSE i \in kept : Rank(kept, i) = k

Picked(s, kept) == [k \in 1 .. Cardinality(kept) |-> s[AtRank(kept, k)]]

=============================================================================
