----------------------------- MODULE TxPipeline -----------------------------
(***************************************************************************)
(* tx-pipeline/pipeline.ts: runs that assemble, prepare, sign and submit a *)
(* transaction of one source account, with the account's lane             *)
(* (ExclusiveLane, which tx-pipeline/queue.ts implements), the node and    *)
(* the ledger.                                                             *)
(*                                                                         *)
(* What can go wrong is in what a run knows of its transaction. An answer  *)
(* may be lost, or come after the run stopped waiting, while the envelope  *)
(* is with the node and may enter the ledger at any later time; the run    *)
(* then sends the same envelope again, wraps it in a fee-bump envelope, or *)
(* rebuilds it with another sequence number.                               *)
(*                                                                         *)
(* An envelope is [run, gen, seq, bump]: gen 1 is the transaction that     *)
(* `assemble` built and params.signers signed, gen 2 the one `execute`     *)
(* rebuilds after a fee rejection; seq is its sequence number; bump is 0   *)
(* for the plain transaction, n for the n-th fee-bump envelope around it.  *)
(* Two envelopes with the same run and gen wrap the same transaction.      *)
(***************************************************************************)
EXTENDS Naturals, FiniteSets

CONSTANTS Run,          \* the calls of TransactionPipeline.run
          MaxAttempts,  \* RetryPolicy.maxAttempts of the submit stage
          MaxFeeBump,   \* the largest FeeBumpOptions.maxFeeBump a caller sets
          NoFeeBump,    \* the choice of SubmitOptions without feeBump
          MaxForeign    \* bound: transactions other processes send from this account

ASSUME PipelineAssumption ==
  /\ MaxAttempts \in Nat \ {0}
  /\ MaxFeeBump \in Nat
  /\ MaxForeign \in Nat
  /\ NoFeeBump \notin Nat

VARIABLES
  phase, key, ahead, \* the lane of the source account
  stage,     \* stage[r]: the await run r stands at
  serialize, \* serialize[r]: params.serialize
  feeBump,   \* feeBump[r]: maxFeeBump of params.submit.feeBump, or NoFeeBump
  envelope,  \* envelope[r]: what r last built
  attempt,   \* attempt[r]: submission attempts of envelope[r]
  result,    \* result[r]: what the run returned
  built,     \* history: the transactions that `assemble` built
  behind,    \* history: behind[r] are the runs r queued behind
  wire,      \* envelopes on their way to the node
  mempool,   \* envelopes the node accepted
  landed,    \* the envelopes on the ledger, each with its outcome
  sequence,  \* the account's sequence number
  foreign    \* bound: transactions other processes sent

lane == <<phase, key, ahead>>
node == <<wire, mempool, landed, sequence, foreign>>
params == <<serialize, feeBump>>
vars == <<lane, stage, params, envelope, attempt, result, built, behind, node>>

Lane == INSTANCE ExclusiveLane WITH Key <- {"account"}

Failure == {"rejected", "failed", "refused", "tryAgain", "pollTimeout", "transport"}
Early == {"queueTimeout", "assembly", "simulation"}
Stage == {"idle", "queued", "assembling", "preparing", "sending", "polling",
          "feeStats", "reloading", "notifying", "done"}

Envelope == [run : Run, gen : 0..2, seq : Nat, bump : 0..MaxFeeBump + 1]

TypeOK == /\ stage \in [Run -> Stage]
          /\ envelope \in [Run -> Envelope]
          /\ attempt \in [Run -> 0..MaxAttempts]
          /\ result \in [Run -> {"none", "ok"} \cup Failure \cup Early]
          /\ wire \subseteq Envelope /\ mempool \subseteq Envelope /\ built \subseteq Envelope
          /\ landed \subseteq [envelope : Envelope, outcome : {"success", "failed"}]
          /\ sequence \in Nat
          /\ \A r \in Run : stage[r] = "done" <=> result[r] # "none"
          /\ \A r \in Run : serialize[r] /\ stage[r] \notin {"idle", "queued", "done"}
                              <=> phase[r] = "holding"

Init == /\ Lane!Init
        /\ stage = [r \in Run |-> "idle"]
        /\ serialize \in [Run -> BOOLEAN]
        /\ feeBump \in [Run -> {NoFeeBump} \cup 0..MaxFeeBump]
        /\ envelope = [r \in Run |-> [run |-> r, gen |-> 0, seq |-> 0, bump |-> 0]]
        /\ attempt = [r \in Run |-> 0]
        /\ result = [r \in Run |-> "none"]
        /\ built = {} /\ behind = [r \in Run |-> {}]
        /\ wire = {} /\ mempool = {} /\ landed = {}
        /\ sequence = 0 /\ foreign = 0

-----------------------------------------------------------------------------
(* Moving between stages.                                                  *)

Goto(r, s) == stage' = [stage EXCEPT ![r] = s]

\* Faulty: the lane is left only by runs that succeed.
ReturnHoldingLane(r, res) ==
  /\ Goto(r, "done")
  /\ result' = [result EXCEPT ![r] = res]
  /\ IF serialize[r] /\ res = "ok" THEN Lane!Leave(r) ELSE UNCHANGED lane

\* The run is over: a serialised one leaves the lane.
Return(r, res) == /\ Goto(r, "done")
                  /\ result' = [result EXCEPT ![r] = res]
                  /\ IF serialize[r] THEN Lane!Leave(r) ELSE UNCHANGED lane

\* sendTransaction(e): the request is on its way.
Send(r, e, n) == /\ Goto(r, "sending")
                 /\ envelope' = [envelope EXCEPT ![r] = e]
                 /\ attempt' = [attempt EXCEPT ![r] = n]
                 /\ wire' = wire \cup {e}

\* isFeeRelated(error): reads the message of the error and of its cause, which
\* for a rejection is an XDR value and no Error. Only the node's deferral is left.
isFeeRelated(failure) == failure = "tryAgain"

\* `submit` bumps the fee of a plain or bumped envelope that was not confirmed in
\* time; `execute` escalates after a fee rejection. An escalated envelope is
\* submitted without feeBump options.
configured(r) == feeBump[r] # NoFeeBump /\ envelope[r].bump <= MaxFeeBump
BumpDue(r, failure) ==
  configured(r) /\ failure = "pollTimeout" /\ envelope[r].bump < feeBump[r]
EscalationDue(r, failure) == configured(r) /\ isFeeRelated(failure)

\* submitEnvelope has failed for good.
SubmissionFailed(r, failure) ==
  \/ /\ BumpDue(r, failure)
     /\ Goto(r, "feeStats")
     /\ UNCHANGED <<lane, result>>
  \/ /\ EscalationDue(r, failure)
     /\ Goto(r, "reloading")
     /\ UNCHANGED <<lane, result>>
  \/ /\ ~BumpDue(r, failure) /\ ~EscalationDue(r, failure)
     /\ Return(r, failure)

\* Faulty: a resent attempt is not counted.
TransientForever(r, failure) ==
  IF attempt[r] <= MaxAttempts
  THEN Send(r, envelope[r], attempt[r]) /\ UNCHANGED <<lane, result>>
  ELSE SubmissionFailed(r, failure) /\ UNCHANGED <<envelope, attempt, wire>>

\* withRetry around one attempt to submit: a transient failure is retried with
\* the same envelope while the budget lasts, any other is final.
Transient(r, failure) ==
  IF attempt[r] < MaxAttempts
  THEN Send(r, envelope[r], attempt[r] + 1) /\ UNCHANGED <<lane, result>>
  ELSE SubmissionFailed(r, failure) /\ UNCHANGED <<envelope, attempt, wire>>

Terminal(r, failure) == SubmissionFailed(r, failure) /\ UNCHANGED <<envelope, attempt>>

-----------------------------------------------------------------------------
(* run, assemble, prepare.                                                 *)

\* run(): join the lane, or go straight on when params.serialize is false.
Call(r) == /\ stage[r] = "idle"
           /\ IF serialize[r]
              THEN /\ Lane!Join(r) /\ Goto(r, "queued")
                   /\ behind' = [behind EXCEPT ![r] = ahead'[r]]
              ELSE Goto(r, "assembling") /\ UNCHANGED <<lane, behind>>
           /\ UNCHANGED <<params, envelope, attempt, result, built, node>>

\* Faulty: the lane is granted to a run others are ahead of.
GrantedAtOnce(r) == /\ stage[r] = "queued"
                    /\ phase' = [phase EXCEPT ![r] = "holding"]
                    /\ Goto(r, "assembling")
                    /\ UNCHANGED <<key, ahead, params, envelope, attempt, result, built, behind, node>>

LaneGranted(r) == /\ stage[r] = "queued"
                  /\ Lane!Grant(r) /\ Goto(r, "assembling")
                  /\ UNCHANGED <<params, envelope, attempt, result, built, behind, node>>

\* Faulty: the timeout is raced against the whole run, not against the wait.
QueueTimeoutOfRun(r) == /\ serialize[r] /\ stage[r] \notin {"idle", "done"}
                        /\ Return(r, "queueTimeout")
                        /\ UNCHANGED <<params, envelope, attempt, built, behind, node>>

\* queueTimeoutMs elapses behind an earlier run.
QueueTimeout(r) == /\ stage[r] = "queued" /\ ahead[r] # {}
                   /\ Return(r, "queueTimeout")
                   /\ UNCHANGED <<params, envelope, attempt, built, behind, node>>

\* assemble(): the transaction takes the number after the account's.
Assemble(r) ==
  LET tx == [run |-> r, gen |-> 1, seq |-> sequence + 1, bump |-> 0] IN
  /\ stage[r] = "assembling" /\ Goto(r, "preparing")
  /\ envelope' = [envelope EXCEPT ![r] = tx]
  /\ built' = built \cup {tx}
  /\ UNCHANGED <<lane, params, attempt, result, behind, node>>

AssembleFails(r) == /\ stage[r] = "assembling" /\ Return(r, "assembly")
                    /\ UNCHANGED <<params, envelope, attempt, built, behind, node>>

\* prepare() and sign: the first attempt to submit goes out.
Prepare(r) == /\ stage[r] = "preparing" /\ Send(r, envelope[r], 1)
              /\ UNCHANGED <<lane, params, result, built, behind, mempool, landed, sequence, foreign>>

PrepareFails(r) == /\ stage[r] = "preparing" /\ Return(r, "simulation")
                   /\ UNCHANGED <<params, envelope, attempt, built, behind, node>>

-----------------------------------------------------------------------------
(* submit, pollForConfirmation: one attempt and what it may learn.         *)

\* Faulty: a rebuilt transaction that carries signatures after all.
SignedAnyway(e) == TRUE

\* Whether the transaction in e carries the signatures of params.signers: `sign`
\* is called on the assembled transaction only, and the one `execute` rebuilds
\* gets a signature of the fee source, around it.
Signed(e) == e.gen = 1

\* The node takes a transaction that is signed and next in sequence.
Acceptable(e) == Signed(e) /\ e.seq = sequence + 1

\* A request of r is open that the node has not taken. Of a resent envelope the
\* earlier copy may have been the one that arrived.
Open(r) == stage[r] = "sending" /\ (envelope[r] \in wire \/ attempt[r] > 1)

\* The node answers: PENDING or DUPLICATE, TRY_AGAIN_LATER, ERROR.
SendAccepted(r) ==
  /\ Open(r) /\ (Acceptable(envelope[r]) \/ envelope[r] \in mempool)
  /\ Goto(r, "polling")
  /\ wire' = wire \ {envelope[r]} /\ mempool' = mempool \cup {envelope[r]}
  /\ UNCHANGED <<lane, params, envelope, attempt, result, built, behind, landed, sequence, foreign>>

SendDeferred(r) ==
  /\ Open(r)
  /\ Transient(r, "tryAgain")
  /\ UNCHANGED <<params, built, behind, mempool, landed, sequence, foreign>>

\* The request of this attempt is spent. An earlier attempt's, of the same bytes,
\* may still be on its way.
WithoutThis(r) == IF attempt[r] = 1 THEN wire \ {envelope[r]} ELSE wire

SendRejected(r) ==
  /\ Open(r)
  /\ Terminal(r, "rejected")
  /\ wire' = WithoutThis(r)
  /\ UNCHANGED <<params, built, behind, mempool, landed, sequence, foreign>>

\* Faulty: the poll takes a transaction on the ledger for a confirmed one.
PollLanded(r) ==
  /\ stage[r] = "polling" /\ \E l \in landed : l.envelope = envelope[r]
  /\ Return(r, "ok")
  /\ UNCHANGED <<params, envelope, attempt, built, behind, node>>

\* The poll finds the envelope it sent on the ledger.
PollSuccess(r) ==
  /\ stage[r] = "polling" /\ [envelope |-> envelope[r], outcome |-> "success"] \in landed
  /\ Return(r, "ok")
  /\ UNCHANGED <<params, envelope, attempt, built, behind, node>>

PollFailed(r) ==
  /\ stage[r] = "polling" /\ [envelope |-> envelope[r], outcome |-> "failed"] \in landed
  /\ Terminal(r, "failed")
  /\ UNCHANGED <<params, built, behind, node>>

\* pollAttempts or pollTimeoutMs is used up: the envelope may have landed since
\* the last poll.
PollGivesUp(r) ==
  /\ stage[r] = "polling"
  /\ Transient(r, "pollTimeout")
  /\ UNCHANGED <<params, built, behind, mempool, landed, sequence, foreign>>

\* The transport fails, or withTimeout stops waiting for the attempt; what was
\* sent stays on its way.
AttemptFails(r) ==
  /\ stage[r] \in {"sending", "polling"}
  /\ Transient(r, "transport")
  /\ UNCHANGED <<params, built, behind, mempool, landed, sequence, foreign>>

\* The RPC endpoint refuses the call with an error that is not transient (4xx):
\* sendTransaction, or getTransaction when the envelope is with the node.
Refused(r) ==
  /\ stage[r] \in {"sending", "polling"}
  /\ Terminal(r, "refused")
  /\ wire' = IF stage[r] = "sending" THEN WithoutThis(r) ELSE wire
  /\ UNCHANGED <<params, built, behind, mempool, landed, sequence, foreign>>

-----------------------------------------------------------------------------
(* The two recoveries.                                                     *)

\* buildFeeBump: an envelope around the transaction in e.
Wrapped(e, n) == [run |-> e.run, gen |-> e.gen, seq |-> e.seq, bump |-> n]

\* submit: the fee statistics are read and a fee-bump envelope is built around
\* the original transaction.
BuildBump(r) ==
  /\ stage[r] = "feeStats" /\ Goto(r, "notifying")
  /\ envelope' = [envelope EXCEPT ![r] = Wrapped(@, envelope[r].bump + 1)]
  /\ UNCHANGED <<lane, params, attempt, result, built, behind, node>>

\* Reading the statistics, or building the envelope, fails: the result of the
\* last submission stands.
BumpFails(r) ==
  /\ stage[r] = "feeStats" /\ Return(r, "pollTimeout")
  /\ UNCHANGED <<params, envelope, attempt, built, behind, node>>

\* execute: with the account reloaded, the transaction is rebuilt with the next
\* sequence number, and wrapped.
Rebuild(r) ==
  /\ stage[r] = "reloading" /\ Goto(r, "notifying")
  /\ envelope' = [envelope EXCEPT ![r] = Wrapped([run |-> r, gen |-> 2, seq |-> sequence + 1,
                                                  bump |-> 0], MaxFeeBump + 1)]
  /\ UNCHANGED <<lane, params, attempt, result, built, behind, node>>

\* The account cannot be read: the original transaction is wrapped.
WrapOriginal(r) ==
  /\ stage[r] = "reloading" /\ Goto(r, "notifying")
  /\ envelope' = [envelope EXCEPT ![r] = Wrapped(@, MaxFeeBump + 1)]
  /\ UNCHANGED <<lane, params, attempt, result, built, behind, node>>

\* buildFeeBump fails: the submission error stands.
EscalationFails(r) ==
  /\ stage[r] = "reloading" /\ Return(r, "tryAgain")
  /\ UNCHANGED <<params, envelope, attempt, built, behind, node>>

\* notifyFeeBump has called onFeeBump, whose errors it swallows, and the
\* fee-bump envelope goes out.
Notified(r) ==
  /\ stage[r] = "notifying" /\ Send(r, envelope[r], 1)
  /\ UNCHANGED <<lane, params, result, built, behind, mempool, landed, sequence, foreign>>

-----------------------------------------------------------------------------
(* The node and the ledger, on their own.                                  *)

\* A request reaches the node, and its answer no run. A request that is lost is
\* one that never arrives.
Arrive(e) == /\ e \in wire /\ Acceptable(e)
             /\ wire' = wire \ {e} /\ mempool' = mempool \cup {e}
             /\ UNCHANGED <<lane, stage, params, envelope, attempt, result, built, behind,
                            landed, sequence, foreign>>

\* A ledger closes with e in it, and its sequence number is used up. An envelope
\* whose time bounds pass is one that never gets in.
Include(e, outcome) ==
  /\ e \in mempool /\ e.seq = sequence + 1
  /\ landed' = landed \cup {[envelope |-> e, outcome |-> outcome]}
  /\ sequence' = sequence + 1
  /\ mempool' = {f \in mempool : f.seq > sequence + 1}
  /\ UNCHANGED <<lane, stage, params, envelope, attempt, result, built, behind, wire, foreign>>

\* Another process uses the account.
ForeignTransaction ==
  /\ foreign < MaxForeign
  /\ foreign' = foreign + 1
  /\ sequence' = sequence + 1
  /\ mempool' = {f \in mempool : f.seq > sequence + 1}
  /\ UNCHANGED <<lane, stage, params, envelope, attempt, result, built, behind, wire, landed>>

-----------------------------------------------------------------------------
\* The steps of a run that has been called. With a timeout configured none of
\* its awaits lasts for ever, save the one for the lane.
RunStep(r) ==
  \/ Assemble(r) \/ AssembleFails(r) \/ Prepare(r) \/ PrepareFails(r)
  \/ SendAccepted(r) \/ SendDeferred(r) \/ SendRejected(r)
  \/ PollSuccess(r) \/ PollFailed(r) \/ PollGivesUp(r) \/ AttemptFails(r) \/ Refused(r)
  \/ BuildBump(r) \/ BumpFails(r)
  \/ Rebuild(r) \/ WrapOriginal(r) \/ EscalationFails(r) \/ Notified(r)

Ledger == \/ \E e \in wire : Arrive(e)
          \/ \E e \in mempool, outcome \in {"success", "failed"} : Include(e, outcome)
          \/ ForeignTransaction

Next == \/ \E r \in Run : Call(r) \/ LaneGranted(r) \/ QueueTimeout(r) \/ RunStep(r)
        \/ Ledger

Spec == Init /\ [][Next]_vars

\* Every request is answered or times out, the poll has a budget, handlers
\* settle, and the event loop runs what is due.
Fairness == \A r \in Run : WF_vars(LaneGranted(r)) /\ WF_vars(RunStep(r))

FairSpec == Spec /\ Fairness

-----------------------------------------------------------------------------
\* The outcomes on the ledger of the transactions of run r.
Executions(r) == {l \in landed : l.envelope.run = r /\ l.outcome = "success"}

\* However often a run resends, bumps or rebuilds, and however late the node
\* takes an envelope, its operations execute at most once.
AtMostOnce == \A r \in Run : Cardinality(Executions(r)) <= 1

\* A run that reports a confirmation has executed, in the very envelope whose hash
\* it returns; one that reports an on-chain failure never executes, not even
\* later through another of its envelopes.
VerdictsAreTrue ==
  \A r \in Run :
    /\ result[r] = "ok" => \E l \in Executions(r) : l.envelope = envelope[r]
    /\ result[r] = "failed" => Executions(r) = {}

\* The abstract submission, seen in what is under way, on the ledger and returned.
Contract == INSTANCE Submission WITH
              pending <- {e.run : e \in wire \cup mempool},
              entries <- [r \in Run |-> {l \in landed : l.envelope.run = r}],
              answer  <- result

\* The pipeline implements the abstract submission. Besides the two above, a run that
\* gives up before submitting (in the queue, or with an assembly or a simulation error) leaves
\* nothing behind that could still reach the ledger, so to call run again is safe; and
\* whatever a run does or leaves under way, its result does not change, and nothing of it is
\* sent afterwards.
ImplementsSubmission == Contract!Spec

\* Two serialised runs build transactions with one sequence number only if one
\* of them returned an error that is no verdict of the ledger: a run that returns
\* its transaction's outcome has used the number up.
ReuseOnlyWithoutOutcome ==
  \A s, t \in built :
    s # t /\ s.seq = t.seq /\ serialize[s.run] /\ serialize[t.run]
      => \E r \in {s.run, t.run} : result[r] \notin {"none", "ok", "failed"}

\* Every run comes to a result: no chain of retries, polls and fee bumps goes on
\* for ever, and the lane is handed on.
EveryRunSettles == \A r \in Run : stage[r] # "idle" ~> stage[r] = "done"

\* "A fully signed transaction or fee-bump transaction" (submit's @param tx), by
\* "Keypair(s) that must sign the assembled inner transaction" (params.signers):
\* what goes to the node carries the signatures of the run's signers.
SentIsSigned == \A e \in wire : Signed(e)

\* "waits until the earlier one has confirmed, failed or timed out, then reads a
\* fresh sequence number, so concurrent runs never build transactions with the
\* same sequence" (TransactionPipeline's doc comment): what a run that queued
\* behind another sends never competes with what the other left with the node.
InFlightSequencesDiffer ==
  \A s, t \in wire \cup mempool : t.run \in behind[s.run] => s.seq # t.seq

=============================================================================
