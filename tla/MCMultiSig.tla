----------------------------- MODULE MCMultiSig -----------------------------
(***************************************************************************)
(* Two of two signatures, two clients and the store between them, two      *)
(* submissions, in one client or one in each. The clock passes a deadline  *)
(* (1, or 2, which it never passes) and a retention of 1. One snapshot may *)
(* be altered, while one client holds the operation: it may ask for 0, 1   *)
(* or 2 signatures, or bring in the address x, which is no signer of the   *)
(* operation. Clients, signers and calls are interchangeable.              *)
(***************************************************************************)
EXTENDS MultiSig, TLC

Symmetry == Permutations(Client) \cup Permutations(Signer) \cup Permutations(Call)
=============================================================================
