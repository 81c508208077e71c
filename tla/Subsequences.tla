----------------------------- MODULE Subsequences -----------------------------
(***************************************************************************)
(* Sets of numbers in ascending order, and the part of a sequence that is  *)
(* at the positions in a set.  Rows are listed by their time and lines are *)
(* dropped from a text without any recursion, so that it can be proved     *)
(* about.                                                                  *)
(***************************************************************************)
EXTENDS Naturals, Sequences, FiniteSets

\* The members of a set of numbers, from the least to the greatest.
Rank(S, i)   == Cardinality({j \in S : j < i})
Ascending(S) == [k \in 1..Cardinality(S) |-> CHOOSE i \in S : Rank(S, i) = k - 1]

\* The elements of s at the positions S, in their order.
Only(s, S) == [k \in 1..Cardinality(S) |-> s[Ascending(S)[k]]]
===============================================================================
