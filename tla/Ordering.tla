------------------------------ MODULE Ordering ------------------------------
(***************************************************************************)
(* Sorting: what Array.prototype.sort and ORDER BY give back when no two   *)
(* things compare as equal, whatever the method.                           *)
(***************************************************************************)
EXTENDS Naturals, FiniteSets

\* The members of a set in an order given as the pairs <<first, second>>: each
\* at the place after those before it.
InOrder(S, before) ==
  [r \in 1..Cardinality(S) |-> CHOOSE x \in S : Cardinality({y \in S : <<y, x>> \in before}) = r - 1]

=============================================================================
