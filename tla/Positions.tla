------------------------------ MODULE Positions ------------------------------
(***************************************************************************)
(* What the lists of the toolkit share: an array that is filtered keeps    *)
(* its order, so its n-th item is at the n-th of the positions that stay.  *)
(***************************************************************************)
EXTENDS Naturals, FiniteSets

Nth(S, n) == CHOOSE x \in S : Cardinality({y \in S : y < x}) = n - 1

=============================================================================
