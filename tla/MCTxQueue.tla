----------------------------- MODULE MCTxQueue -----------------------------
(***************************************************************************)
(* Four calls over two keys, each with or without a timeout (Init makes    *)
(* both choices). A holder, a waiter that expires, one behind it and a     *)
(* late comer is the shortest history in which a broken chain shows. Lanes *)
(* of different keys share nothing but the map, so at most one call is     *)
(* given to another lane than MainKey's.                                   *)
(***************************************************************************)
EXTENDS TxQueue

CONSTANT MainKey
ASSUME MainKeyAssumption == MainKey \in Key

MCInit == Init /\ Cardinality({r \in Run : key[r] # MainKey}) <= 1

MCSpec == MCInit /\ [][Next]_vars /\ Fairness
=============================================================================
