---------------------------- MODULE Subsequence -----------------------------
(***************************************************************************)
(* What is left of a sequence when some of its positions are kept. (As     *)
(* SelectSeq, which is recursive: theorems are proved about these.)        *)
(***************************************************************************)
EXTENDS Naturals, FiniteSets

\* How many members of S there are up to n, and the m-th of them.
Rank(S, n) == Cardinality({i \in S : i <= n})
Nth(S, m) == CHOOSE n \in S : Rank(S, n) = m

\* The numbers of S in order.
Ascending(S) == [m \in 1..Cardinality(S) |-> Nth(S, m)]

\* What s has at the positions of S.
Kept(s, S) == [m \in 1..Cardinality(S) |-> s[Nth(S, m)]]
=============================================================================
