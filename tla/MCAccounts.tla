----------------------------- MODULE MCAccounts -----------------------------
(***************************************************************************)
(* Of two accounts one has its address for its id, and the other one may   *)
(* share that address or take another. Scopes are nested and overlap.      *)
(***************************************************************************)
EXTENDS Accounts

Symmetry == Permutations(Scope)
=============================================================================
