---------------------------- MODULE Submission ----------------------------
(***************************************************************************)
(* What TransactionPipeline.run (tx-pipeline/pipeline.ts) promises to its  *)
(* caller. The operations of a run get to the ledger at most once, in      *)
(* whatever envelope. A run returns once, and sends nothing afterwards;    *)
(* what it sent before may still get there. If it returns an outcome, it   *)
(* is the one on the ledger; if it fails early, nothing of it is or will   *)
(* be there. Of any other failure the caller knows nothing.                *)
(*                                                                         *)
(* Attempts, envelopes, fees, sequence numbers and the lane are not        *)
(* visible here; TxPipeline.tla has them and implements this one.          *)
(***************************************************************************)
CONSTANTS Run,  \* the calls of TransactionPipeline.run
          Early \* the results of a run that gave up before it submitted anything

VARIABLES pending, \* the runs of which something is under way to the ledger
          entries, \* entries[r]: what the ledger holds of run r
          answer   \* answer[r]: what run r returned, "none" before

submissionVars == <<pending, entries, answer>>

Init == /\ pending = {} /\ entries = [r \in Run |-> {}]
        /\ answer = [r \in Run |-> "none"]

\* Runs that have not returned send something; what was sent may get lost.
Send == /\ \A r \in pending' \ pending : answer[r] = "none"
        /\ UNCHANGED <<entries, answer>>

\* The transaction of a run gets to the ledger, with its outcome.
Settle(r) == /\ r \in pending /\ entries[r] = {} /\ pending' \subseteq pending
             /\ \E e \in entries'[r] : /\ entries' = [entries EXCEPT ![r] = {e}]
                                       /\ e.outcome \in {"success", "failed"}
             /\ UNCHANGED answer

\* A run returns.
Return(r) == /\ answer[r] = "none" /\ answer' = [answer EXCEPT ![r] = answer'[r]]
             /\ pending' \subseteq pending
             /\ answer'[r] = "ok"     => \E e \in entries[r] : e.outcome = "success"
             /\ answer'[r] = "failed" => \E e \in entries[r] : e.outcome = "failed"
             /\ answer'[r] \in Early  => r \notin pending' /\ entries[r] = {}
             /\ UNCHANGED entries

Next == Send \/ \E r \in Run : Settle(r) \/ Return(r)

Spec == Init /\ [][Next]_submissionVars
=============================================================================
