--------------------------- MODULE MCTokenRefresh ---------------------------
(***************************************************************************)
(* Two accounts sign in, each once. Two refreshes overlap.                 *)
(***************************************************************************)
EXTENDS TokenRefresh

\* Each account signs in at most once, and it does not matter which call is whose;
\* the owner of a token that was never issued is nobody's concern.
MCInit == /\ Init /\ owner = [t \in Token |-> CHOOSE a \in Account : TRUE]
          /\ signIn = CHOOSE s \in [SignIn -> [pc : {"idle"}, address : Account]] :
                         \A i, j \in SignIn : i # j => s[i].address # s[j].address
MCSpec == MCInit /\ [][Next]_vars /\ Fairness
=============================================================================
