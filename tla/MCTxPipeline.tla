---------------------------- MODULE MCTxPipeline ----------------------------
(***************************************************************************)
(* Two runs of one account. Main is serialised, with all the fee bumps or  *)
(* none, or unserialised without; the other is a plain serialised run,     *)
(* before, behind or (when Main skips the queue) beside it. Two attempts,  *)
(* one automatic bump and one transaction of another process are enough    *)
(* for a late envelope to meet a retry, a bump, a rebuilt transaction and  *)
(* a sequence number taken by somebody else.                               *)
(***************************************************************************)
EXTENDS TxPipeline

CONSTANT Main
ASSUME MainAssumption == Main \in Run

MCInit == /\ Init
          /\ feeBump[Main] \in {NoFeeBump, MaxFeeBump}
          /\ serialize[Main] \/ feeBump[Main] = NoFeeBump
          /\ \A r \in Run \ {Main} : serialize[r] /\ feeBump[r] = NoFeeBump

MCSpec == MCInit /\ [][Next]_vars /\ Fairness
=============================================================================
