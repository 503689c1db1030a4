--------------------------------- MODULE Ranking ---------------------------------
(***************************************************************************)
(* The members of a finite set by their place in an order: a list that the *)
(* code sorts or filters (ORDER BY, sorted(), [i for i in pool if ...]) as *)
(* the set of what is in it.                                               *)
(***************************************************************************)
EXTENDS Integers, FiniteSets

\* The member of S that k others precede.
Nth(S, Precedes(_, _), k) ==
  CHOOSE x \in S : Cardinality({ y \in S : Precedes(y, x) }) = k

Sorted(S, Precedes(_, _)) ==
  [i \in 1..Cardinality(S) |-> Nth(S, Precedes, i - 1)]

================================================================================
