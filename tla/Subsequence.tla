----------------------------- MODULE Subsequence -----------------------------
(* The elements of a sequence that stay when others are removed.           *)
EXTENDS Integers, Sequences, FiniteSets

\* How many of the positions I there are up to i, and which is the k-th
Rank(I, i)  == Cardinality({j \in I : j <= i})
Place(I, k) == CHOOSE i \in I : Rank(I, i) = k

\* Vec::retain: the elements of s at the positions I, in their order
Retain(s, I) == [k \in 1 .. Cardinality(I) |-> s[Place(I, k)]]
=============================================================================
