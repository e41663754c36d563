-------------------------- MODULE TxPipelineProofs --------------------------
(***************************************************************************)
(* The safety of TxPipeline.tla for every number of runs, attempts, fee    *)
(* bumps and foreign transactions: type correctness, that a run executes   *)
(* at most once, that its verdict is the ledger's, that the pipeline       *)
(* implements the abstract Submission.tla, and that a sequence number is   *)
(* reused only after a run that returned without a verdict.                *)
(*                                                                         *)
(* The argument: a run builds one transaction, so all of its envelopes     *)
(* with signatures carry that transaction's sequence number (Sequenced);   *)
(* the ledger uses a number once (Taken).                                  *)
(***************************************************************************)
EXTENDS TxPipeline, FiniteSetTheorems, TLAPS

\* The lane's view of a run follows from the stage it is at.
PhaseOf(r) == IF ~serialize[r] \/ stage[r] = "idle" THEN "idle"
              ELSE IF stage[r] = "queued" THEN "waiting"
              ELSE IF stage[r] = "done" THEN "left" ELSE "holding"

LaneFollows == /\ phase = [r \in Run |-> PhaseOf(r)]
               /\ \A r \in Run : stage[r] = "queued" => serialize[r]

Params == /\ serialize \in [Run -> BOOLEAN]
          /\ feeBump \in [Run -> {NoFeeBump} \cup 0..MaxFeeBump]

\* A run works on envelopes of its own, and bumps one only within the budget.
Own == \A r \in Run :
         /\ envelope[r].run = r
         /\ stage[r] = "feeStats" => envelope[r].bump <= MaxFeeBump

\* A run builds one transaction, and everything of the first generation, wherever
\* it is, carries that transaction's sequence number.
Built(r, n) == \E t \in built : t.run = r /\ t.seq = n

Sequenced ==
  /\ \A s, t \in built : s.run = t.run => s.seq = t.seq
  /\ \A r \in Run : stage[r] \in {"idle", "queued", "assembling"} => \A t \in built : t.run # r
  /\ \A r \in Run : envelope[r].gen = 1 => Built(r, envelope[r].seq)
  /\ \A e \in wire \cup mempool : e.gen = 1 => Built(e.run, e.seq)
  /\ \A l \in landed : Built(l.envelope.run, l.envelope.seq)

\* The node takes signed envelopes, and the ledger one for a sequence number.
Taken == /\ \A e \in mempool : e.gen = 1
         /\ \A l \in landed : l.envelope.gen = 1 /\ l.envelope.seq <= sequence
         /\ \A l, m \in landed : l.envelope.seq = m.envelope.seq => l = m

\* Nothing of r has been sent.
Unsent(r) == /\ \A e \in wire \cup mempool : e.run # r
             /\ \A l \in landed : l.envelope.run # r

Quiet == \A r \in Run :
           \/ stage[r] \in {"idle", "queued", "assembling", "preparing"}
           \/ result[r] \in Early
           => Unsent(r)

\* A verdict is the outcome of the envelope the run worked on last.
Outcomes == \A r \in Run :
              /\ result[r] = "ok" => [envelope |-> envelope[r], outcome |-> "success"] \in landed
              /\ result[r] = "failed" => [envelope |-> envelope[r], outcome |-> "failed"] \in landed

IInv == /\ TypeOK /\ LaneFollows /\ Params /\ Own
        /\ Sequenced /\ Taken /\ Quiet /\ Outcomes

\* The invariant holds initially: no run has been called.
LEMMA InitInv == Init => IInv
<1> SUFFICES ASSUME Init PROVE IInv
  OBVIOUS
<1> USE PipelineAssumption DEF Init
<1> DEFINE e0(r) == [run |-> r, gen |-> 0, seq |-> 0, bump |-> 0]
<1>1. \A r \in Run : /\ e0(r) \in Envelope /\ envelope[r] = e0(r)
                     /\ e0(r).run = r /\ e0(r).gen = 0
  BY DEF Envelope
<1>2. attempt \in [Run -> 0..MaxAttempts] /\ envelope \in [Run -> Envelope]
  BY <1>1
<1>3. LaneFollows /\ Params
  BY DEF LaneFollows, Params, PhaseOf, Lane!Init
<1>4. TypeOK
  BY <1>2 DEF TypeOK, Stage, Lane!Init
<1>5. Own /\ Sequenced /\ Taken /\ Quiet /\ Outcomes
  BY <1>1 DEF Own, Sequenced, Taken, Quiet, Unsent, Outcomes, Early
<1> QED
  BY <1>3, <1>4, <1>5 DEF IInv

-----------------------------------------------------------------------------
(* The kinds of step a run takes.                                          *)

\* A run that is over leaves its lane, and no other invariant looks at more than
\* its result.
LEMMA ReturnInv ==
  ASSUME IInv, NEW r \in Run, stage[r] \notin {"idle", "done"},
         NEW res \in {"ok"} \cup Failure \cup Early, Return(r, res),
         UNCHANGED <<params, envelope, attempt, built, mempool, landed, sequence>>,
         wire' \subseteq wire,
         res \in Early => Unsent(r),
         res = "ok" => [envelope |-> envelope[r], outcome |-> "success"] \in landed,
         res = "failed" => [envelope |-> envelope[r], outcome |-> "failed"] \in landed
  PROVE  IInv'
<1> USE DEF IInv, params
<1>1. /\ stage' = [stage EXCEPT ![r] = "done"]
      /\ result' = [result EXCEPT ![r] = res]
      /\ IF serialize[r] THEN phase' = [phase EXCEPT ![r] = "left"] ELSE phase' = phase
  BY DEF Return, Goto, Lane!Leave, lane
<1>2. LaneFollows'
  <2>1. stage \in [Run -> Stage] /\ serialize \in [Run -> BOOLEAN]
    BY DEF TypeOK, Params
  <2>2. \A q \in Run : PhaseOf(q)' = IF q = r /\ serialize[r] THEN "left" ELSE PhaseOf(q)
    BY <1>1, <2>1 DEF PhaseOf
  <2>3. phase' = [q \in Run |-> PhaseOf(q)']
    BY <1>1, <2>2 DEF LaneFollows
  <2> QED
    BY <1>1, <2>1, <2>3 DEF LaneFollows
<1>3. Params' /\ Own'
  BY <1>1 DEF Params, Own, TypeOK
<1>4. TypeOK'
  <2>1. res # "none" /\ stage' \in [Run -> Stage]
        /\ result' \in [Run -> {"none", "ok"} \cup Failure \cup Early]
    BY <1>1 DEF TypeOK, Stage, Failure, Early
  <2>2. \A q \in Run : stage'[q] = "done" <=> result'[q] # "none"
    BY <1>1, <2>1 DEF TypeOK
  <2>3. \A q \in Run : serialize'[q] /\ stage'[q] \notin {"idle", "queued", "done"}
                         <=> phase'[q] = "holding"
    BY <1>2 DEF LaneFollows, PhaseOf
  <2> QED
    BY <2>1, <2>2, <2>3 DEF TypeOK
<1>5. Sequenced'
  BY <1>1 DEF Sequenced, Built, TypeOK
<1>6. Taken'
  BY DEF Taken
<1>7. Quiet'
  BY <1>1 DEF Quiet, Unsent, TypeOK
<1>8. Outcomes'
  BY <1>1 DEF Outcomes, TypeOK
<1> QED
  BY <1>2, <1>3, <1>4, <1>5, <1>6, <1>7, <1>8

\* A run goes on to another stage, with the envelope it has or one it makes of it.
LEMMA GotoInv ==
  ASSUME IInv, NEW r \in Run,
         stage[r] \in {"preparing", "sending", "polling", "feeStats", "reloading", "notifying"},
         NEW s \in {"sending", "polling", "feeStats", "reloading", "notifying"}, Goto(r, s),
         NEW e \in Envelope, envelope' = [envelope EXCEPT ![r] = e],
         NEW n \in 0..MaxAttempts, attempt' = [attempt EXCEPT ![r] = n],
         UNCHANGED <<lane, params, result, built, landed, sequence>>,
         wire' \subseteq wire \cup {e}, mempool' \subseteq mempool \cup {e},
         e.run = r, s = "feeStats" => e.bump <= MaxFeeBump,
         e.gen = 1 => Built(r, e.seq),
         e \in mempool' => e.gen = 1
  PROVE  IInv'
<1> USE DEF IInv, params, lane, Goto
<1>0. stage[r] # "done" /\ result[r] = "none"
  BY DEF TypeOK
<1>1. LaneFollows'
  <2>1. stage \in [Run -> Stage] /\ serialize \in [Run -> BOOLEAN]
    BY DEF TypeOK, Params
  <2>2. \A q \in Run : PhaseOf(q)' = PhaseOf(q)
    BY <2>1 DEF PhaseOf
  <2> QED
    BY <2>1, <2>2 DEF LaneFollows
<1>2. Params' /\ Own'
  BY DEF Params, Own, TypeOK
<1>3. TypeOK'
  <2>1. stage' \in [Run -> Stage] /\ envelope' \in [Run -> Envelope]
        /\ attempt' \in [Run -> 0..MaxAttempts]
        /\ wire' \subseteq Envelope /\ mempool' \subseteq Envelope
    BY DEF TypeOK, Stage
  <2>2. \A q \in Run : stage'[q] = "done" <=> result'[q] # "none"
    BY <1>0 DEF TypeOK
  <2>3. \A q \in Run : serialize'[q] /\ stage'[q] \notin {"idle", "queued", "done"}
                         <=> phase'[q] = "holding"
    BY <1>1 DEF LaneFollows, PhaseOf
  <2> QED
    BY <2>1, <2>2, <2>3 DEF TypeOK
<1>4. Sequenced'
  BY DEF Sequenced, Built, TypeOK
<1>5. Taken'
  BY DEF Taken
<1>6. Quiet'
  BY <1>0 DEF Quiet, Unsent, TypeOK, Early
<1>7. Outcomes'
  BY <1>0 DEF Outcomes, TypeOK
<1> QED
  BY <1>1, <1>2, <1>3, <1>4, <1>5, <1>6, <1>7
\* What a run learns when it fails for good sends it to a recovery or ends it.
LEMMA SubmissionFailedInv ==
  ASSUME IInv, NEW r \in Run, stage[r] \in {"sending", "polling"},
         NEW failure \in Failure, SubmissionFailed(r, failure),
         UNCHANGED <<params, envelope, attempt, built, mempool, landed, sequence>>,
         wire' \subseteq wire,
         failure = "failed" => [envelope |-> envelope[r], outcome |-> "failed"] \in landed
  PROVE  IInv'
<1>1. /\ envelope[r] \in Envelope /\ envelope' = [envelope EXCEPT ![r] = envelope[r]]
      /\ attempt[r] \in 0..MaxAttempts /\ attempt' = [attempt EXCEPT ![r] = attempt[r]]
      /\ envelope[r].run = r
      /\ envelope[r].gen = 1 => Built(r, envelope[r].seq)
      /\ \A e \in mempool' : e.gen = 1
  BY DEF IInv, TypeOK, Own, Sequenced, Taken
<1>2. CASE BumpDue(r, failure) /\ Goto(r, "feeStats") /\ UNCHANGED <<lane, result>>
  <2>1. envelope[r].bump <= MaxFeeBump
    BY <1>2 DEF BumpDue, configured
  <2> QED
    BY <1>1, <1>2, <2>1, GotoInv
<1>3. CASE Goto(r, "reloading") /\ UNCHANGED <<lane, result>>
  BY <1>1, <1>3, GotoInv
<1>4. CASE Return(r, failure)
  <2>1. failure \notin Early /\ failure # "ok"
    BY DEF Failure, Early
  <2> QED
    BY <1>4, <2>1, ReturnInv
<1> QED
  BY <1>2, <1>3, <1>4 DEF SubmissionFailed

\* A transient failure: the envelope goes out again, or the run fails for good.
LEMMA TransientInv ==
  ASSUME IInv, NEW r \in Run, stage[r] \in {"sending", "polling"},
         NEW failure \in Failure \ {"failed"}, Transient(r, failure),
         UNCHANGED <<params, built, mempool, landed, sequence>>
  PROVE  IInv'
<1>1. CASE attempt[r] < MaxAttempts
  <2> PICK e : e = envelope[r]
    OBVIOUS
  <2>1. /\ e \in Envelope /\ e.run = r
        /\ e.gen = 1 => Built(r, e.seq)
        /\ attempt[r] + 1 \in 0..MaxAttempts
        /\ \A f \in mempool' : f.gen = 1
    BY <1>1, PipelineAssumption DEF IInv, TypeOK, Own, Sequenced, Taken
  <2> PICK n \in 0..MaxAttempts : attempt' = [attempt EXCEPT ![r] = n]
    BY <1>1, <2>1 DEF Transient, Send
  <2>2. /\ Goto(r, "sending") /\ envelope' = [envelope EXCEPT ![r] = e]
        /\ wire' \subseteq wire \cup {e} /\ mempool' \subseteq mempool \cup {e}
        /\ UNCHANGED <<lane, params, result, built, landed, sequence>>
    BY <1>1 DEF Transient, Send
  <2> QED
    BY <2>1, <2>2, GotoInv
<1>2. CASE ~(attempt[r] < MaxAttempts)
  <2>1. SubmissionFailed(r, failure) /\ UNCHANGED <<envelope, attempt, wire>>
    BY <1>2 DEF Transient
  <2> QED
    BY <2>1, SubmissionFailedInv
<1> QED
  BY <1>1, <1>2

-----------------------------------------------------------------------------
\* A run is called, and goes to its lane or straight on.
LEMMA CallInv == ASSUME IInv, NEW r \in Run, Call(r) PROVE IInv'
<1> USE DEF IInv, Call, Goto, params, node
<1>0. stage \in [Run -> Stage] /\ serialize \in [Run -> BOOLEAN] /\ result[r] = "none"
  BY DEF TypeOK, Params
<1> PICK s \in {"queued", "assembling"} :
        /\ stage' = [stage EXCEPT ![r] = s]
        /\ s = "queued" <=> serialize[r]
        /\ phase' = IF serialize[r] THEN [phase EXCEPT ![r] = "waiting"] ELSE phase
  BY <1>0 DEF Lane!Join, lane, Params
<1>1. LaneFollows'
  <2>1. \A q \in Run : PhaseOf(q)' = IF q = r /\ serialize[r] THEN "waiting" ELSE PhaseOf(q)
    BY <1>0 DEF PhaseOf
  <2> QED
    BY <1>0, <2>1 DEF LaneFollows
<1>2. TypeOK'
  <2>1. stage' \in [Run -> Stage] /\ \A q \in Run : stage'[q] = "done" <=> result'[q] # "none"
    BY <1>0 DEF TypeOK, Stage
  <2>2. \A q \in Run : serialize'[q] /\ stage'[q] \notin {"idle", "queued", "done"}
                         <=> phase'[q] = "holding"
    BY <1>1 DEF LaneFollows, PhaseOf
  <2> QED
    BY <2>1, <2>2 DEF TypeOK
<1>3. Params' /\ Own' /\ Taken' /\ Outcomes'
  BY <1>0 DEF Params, Own, Taken, Outcomes
<1>4. Sequenced' /\ Quiet'
  BY <1>0 DEF Sequenced, Built, Quiet, Unsent
<1> QED
  BY <1>1, <1>2, <1>3, <1>4

\* A queued run gets the lane.
LEMMA LaneGrantedInv == ASSUME IInv, NEW r \in Run, LaneGranted(r) PROVE IInv'
<1> USE DEF IInv, LaneGranted, Goto, params, node
<1>0. stage \in [Run -> Stage] /\ serialize \in [Run -> BOOLEAN] /\ result[r] = "none"
      /\ serialize[r]
  BY DEF TypeOK, Params, LaneFollows
<1>1. LaneFollows'
  <2>1. phase' = [phase EXCEPT ![r] = "holding"] /\ stage' = [stage EXCEPT ![r] = "assembling"]
    BY DEF Lane!Grant
  <2>2. \A q \in Run : PhaseOf(q)' = IF q = r THEN "holding" ELSE PhaseOf(q)
    BY <1>0, <2>1 DEF PhaseOf
  <2> QED
    BY <1>0, <2>1, <2>2 DEF LaneFollows
<1>2. TypeOK'
  <2>1. stage' \in [Run -> Stage] /\ \A q \in Run : stage'[q] = "done" <=> result'[q] # "none"
    BY <1>0 DEF TypeOK, Stage
  <2>2. \A q \in Run : serialize'[q] /\ stage'[q] \notin {"idle", "queued", "done"}
                         <=> phase'[q] = "holding"
    BY <1>1 DEF LaneFollows, PhaseOf
  <2> QED
    BY <2>1, <2>2 DEF TypeOK
<1>3. Params' /\ Own' /\ Taken' /\ Outcomes'
  BY <1>0 DEF Params, Own, Taken, Outcomes
<1>4. Sequenced' /\ Quiet'
  BY <1>0 DEF Sequenced, Built, Quiet, Unsent
<1> QED
  BY <1>1, <1>2, <1>3, <1>4

\* A run builds its transaction, the only one it ever builds.
LEMMA AssembleInv == ASSUME IInv, NEW r \in Run, Assemble(r) PROVE IInv'
<1> USE DEF IInv, Goto, params, lane, node
<1> PICK tx : tx = [run |-> r, gen |-> 1, seq |-> sequence + 1, bump |-> 0]
  OBVIOUS
<1>0. /\ stage[r] = "assembling" /\ stage' = [stage EXCEPT ![r] = "preparing"]
      /\ envelope' = [envelope EXCEPT ![r] = tx] /\ built' = built \cup {tx}
      /\ tx.run = r /\ tx.gen = 1 /\ tx.bump = 0 /\ tx.seq = sequence + 1
      /\ UNCHANGED <<lane, params, attempt, result, node>>
  BY DEF Assemble
<1>1. tx \in Envelope
  BY PipelineAssumption DEF TypeOK, Envelope
<1>2. stage \in [Run -> Stage] /\ envelope \in [Run -> Envelope] /\ result[r] = "none"
  BY <1>0 DEF TypeOK
<1>3. LaneFollows'
  <2>1. \A q \in Run : PhaseOf(q)' = PhaseOf(q)
    BY <1>0, <1>2 DEF PhaseOf
  <2> QED
    BY <1>0, <1>2, <2>1 DEF LaneFollows
<1>4. TypeOK'
  <2>1. stage' \in [Run -> Stage] /\ \A q \in Run : stage'[q] = "done" <=> result'[q] # "none"
    BY <1>0, <1>2 DEF TypeOK, Stage
  <2>2. \A q \in Run : serialize'[q] /\ stage'[q] \notin {"idle", "queued", "done"}
                         <=> phase'[q] = "holding"
    BY <1>3 DEF LaneFollows, PhaseOf
  <2>3. envelope' \in [Run -> Envelope] /\ built' \subseteq Envelope
    BY <1>0, <1>1, <1>2 DEF TypeOK
  <2> QED
    BY <1>0, <2>1, <2>2, <2>3 DEF TypeOK
<1>5. Params' /\ Own' /\ Taken' /\ Outcomes' /\ Quiet'
  BY <1>0, <1>2 DEF Params, Own, Taken, Outcomes, Quiet, Unsent
<1>6. Sequenced'
  <2>1. \A t \in built : t.run # r
    BY <1>0 DEF Sequenced
  <2>2. \A q, n : Built(q, n) => Built(q, n)'
    BY <1>0 DEF Built
  <2>3. Built(r, tx.seq)'
    BY <1>0 DEF Built
  <2>4. \A s, t \in built' : s.run = t.run => s.seq = t.seq
    BY <1>0, <2>1 DEF Sequenced
  <2>5. \A q \in Run : stage'[q] \in {"idle", "queued", "assembling"} => \A t \in built' : t.run # q
    BY <1>0, <1>2 DEF Sequenced
  <2>6. \A q \in Run : envelope'[q].gen = 1 => Built(q, envelope[q].seq)'
    BY <1>0, <1>2, <2>2, <2>3 DEF Sequenced
  <2>7. /\ \A e \in wire' \cup mempool' : e.gen = 1 => Built(e.run, e.seq)'
        /\ \A l \in landed' : Built(l.envelope.run, l.envelope.seq)'
    BY <1>0, <2>2 DEF Sequenced
  <2> QED
    BY <2>4, <2>5, <2>6, <2>7 DEF Sequenced
<1> QED
  BY <1>3, <1>4, <1>5, <1>6
-----------------------------------------------------------------------------
\* A request gets through, a ledger closes, another process uses the account.
LEMMA LedgerInv == ASSUME IInv, Ledger PROVE IInv'
<1> USE DEF IInv, params, lane
<1>1. CASE \E e \in wire : Arrive(e)
  <2> PICK e \in wire : Arrive(e)
    BY <1>1
  <2>1. /\ e.gen = 1 /\ wire' = wire \ {e} /\ mempool' = mempool \cup {e}
        /\ UNCHANGED <<phase, stage, serialize, feeBump, envelope, attempt, result, built,
                       landed, sequence>>
    BY DEF Arrive, Acceptable, Signed
  <2>2. TypeOK' /\ LaneFollows' /\ Params' /\ Own'
    BY <2>1 DEF TypeOK, LaneFollows, PhaseOf, Params, Own
  <2>3. Sequenced' /\ Taken' /\ Quiet' /\ Outcomes'
    BY <2>1 DEF Sequenced, Built, Taken, Quiet, Unsent, Outcomes
  <2> QED
    BY <2>2, <2>3
<1>2. CASE \E e \in mempool, outcome \in {"success", "failed"} : Include(e, outcome)
  <2> PICK e \in mempool, outcome \in {"success", "failed"} : Include(e, outcome)
    BY <1>2
  <2> PICK new : new = [envelope |-> e, outcome |-> outcome]
    OBVIOUS
  <2>1. /\ e.gen = 1 /\ e.seq = sequence + 1 /\ new.envelope = e
        /\ landed' = landed \cup {new} /\ sequence' = sequence + 1
        /\ mempool' \subseteq mempool
        /\ UNCHANGED <<phase, stage, serialize, feeBump, envelope, attempt, result, built, wire>>
    BY DEF Include, Taken
  <2>2. e \in Envelope /\ sequence \in Nat /\ \A l \in landed : l.envelope.seq \in Nat
    BY DEF TypeOK, Envelope
  <2>3. LaneFollows' /\ Params' /\ Own'
    BY <2>1 DEF LaneFollows, PhaseOf, Params, Own
  <2>4. TypeOK'
    BY <2>1, <2>2 DEF TypeOK
  <2>5. Sequenced' /\ Quiet' /\ Outcomes'
    BY <2>1 DEF Sequenced, Built, Quiet, Unsent, Outcomes
  <2>6. Taken'
    BY <2>1, <2>2 DEF Taken
  <2> QED
    BY <2>3, <2>4, <2>5, <2>6
<1>3. CASE ForeignTransaction
  <2>1. /\ sequence' = sequence + 1 /\ mempool' \subseteq mempool
        /\ UNCHANGED <<phase, stage, serialize, feeBump, envelope, attempt, result, built,
                       wire, landed>>
    BY <1>3 DEF ForeignTransaction
  <2>2. sequence \in Nat /\ \A l \in landed : l.envelope.seq \in Nat
    BY DEF TypeOK, Envelope
  <2>3. TypeOK' /\ LaneFollows' /\ Params' /\ Own'
    BY <2>1, <2>2 DEF TypeOK, LaneFollows, PhaseOf, Params, Own
  <2>4. Sequenced' /\ Quiet' /\ Outcomes'
    BY <2>1 DEF Sequenced, Built, Quiet, Unsent, Outcomes
  <2>5. Taken'
    BY <2>1, <2>2 DEF Taken
  <2> QED
    BY <2>3, <2>4, <2>5
<1> QED
  BY <1>1, <1>2, <1>3 DEF Ledger

\* A run that is called off before it sends has sent nothing.
LEMMA EarlyInv ==
  ASSUME IInv, NEW r \in Run, QueueTimeout(r) \/ AssembleFails(r) \/ PrepareFails(r)
  PROVE  IInv'
<1> PICK res \in Early : Return(r, res)
  BY DEF QueueTimeout, AssembleFails, PrepareFails, Early
<1>1. /\ stage[r] \in {"queued", "assembling", "preparing"}
      /\ UNCHANGED <<params, envelope, attempt, built, wire, mempool, landed, sequence>>
  BY DEF QueueTimeout, AssembleFails, PrepareFails, node
<1>2. Unsent(r) /\ res \notin {"ok", "failed"}
  BY <1>1 DEF IInv, Quiet, Early
<1> QED
  BY <1>1, <1>2, ReturnInv

\* Prepare and Notified send what the run has at hand.
LEMMA SendInv ==
  ASSUME IInv, NEW r \in Run, Prepare(r) \/ Notified(r)
  PROVE  IInv'
<1>1. /\ stage[r] \in {"preparing", "notifying"} /\ Goto(r, "sending")
      /\ envelope' = [envelope EXCEPT ![r] = envelope[r]]
      /\ attempt' = [attempt EXCEPT ![r] = 1]
      /\ wire' = wire \cup {envelope[r]}
      /\ UNCHANGED <<lane, params, result, built, mempool, landed, sequence>>
  BY DEF Prepare, Notified, Send
<1>2. /\ envelope[r] \in Envelope /\ envelope[r].run = r /\ 1 \in 0..MaxAttempts
      /\ envelope[r].gen = 1 => Built(r, envelope[r].seq)
      /\ \A e \in mempool' : e.gen = 1
  BY <1>1, PipelineAssumption DEF IInv, TypeOK, Own, Sequenced, Taken
<1> QED
  BY <1>1, <1>2, GotoInv

\* The node takes an envelope that is signed, or that it has already.
LEMMA SendAcceptedInv == ASSUME IInv, NEW r \in Run, SendAccepted(r) PROVE IInv'
<1>1. /\ stage[r] = "sending" /\ Goto(r, "polling")
      /\ wire' \subseteq wire /\ mempool' = mempool \cup {envelope[r]}
      /\ UNCHANGED <<lane, params, envelope, attempt, result, built, landed, sequence>>
      /\ Signed(envelope[r]) \/ envelope[r] \in mempool
  BY DEF SendAccepted, Open, Acceptable
<1>2. /\ envelope[r] \in Envelope /\ envelope[r].run = r
      /\ envelope' = [envelope EXCEPT ![r] = envelope[r]]
      /\ attempt[r] \in 0..MaxAttempts /\ attempt' = [attempt EXCEPT ![r] = attempt[r]]
      /\ envelope[r].gen = 1 /\ Built(r, envelope[r].seq)
  BY <1>1 DEF IInv, TypeOK, Own, Sequenced, Taken, Signed
<1> QED
  BY <1>1, <1>2, GotoInv

\* What an attempt may learn otherwise.
LEMMA AttemptInv ==
  ASSUME IInv, NEW r \in Run,
         \/ SendDeferred(r) \/ SendRejected(r) \/ PollSuccess(r) \/ PollFailed(r)
         \/ PollGivesUp(r) \/ AttemptFails(r) \/ Refused(r)
  PROVE  IInv'
<1>0. WithoutThis(r) \subseteq wire
  BY DEF WithoutThis
<1>1. CASE SendDeferred(r) \/ PollGivesUp(r) \/ AttemptFails(r)
  <2>1. /\ stage[r] \in {"sending", "polling"}
        /\ UNCHANGED <<params, built, mempool, landed, sequence>>
        /\ \E failure \in Failure \ {"failed"} : Transient(r, failure)
    BY <1>1 DEF SendDeferred, PollGivesUp, AttemptFails, Open, Failure
  <2> QED
    BY <2>1, TransientInv
<1>2. CASE SendRejected(r) \/ Refused(r)
  <2>1. /\ stage[r] \in {"sending", "polling"} /\ wire' \subseteq wire
        /\ UNCHANGED <<params, envelope, attempt, built, mempool, landed, sequence>>
        /\ \E failure \in Failure \ {"failed"} : SubmissionFailed(r, failure)
    BY <1>0, <1>2 DEF SendRejected, Refused, Terminal, Open, Failure
  <2> QED
    BY <2>1, SubmissionFailedInv
<1>3. CASE PollFailed(r)
  BY <1>3, SubmissionFailedInv DEF PollFailed, Terminal, node, Failure
<1>4. CASE PollSuccess(r)
  BY <1>4, ReturnInv DEF PollSuccess, node, Early
<1> QED
  BY <1>1, <1>2, <1>3, <1>4

\* The recoveries: a fee bump of what was sent, or a rebuilt transaction that the
\* node will not take.
LEMMA RecoveryInv ==
  ASSUME IInv, NEW r \in Run,
         BuildBump(r) \/ Rebuild(r) \/ WrapOriginal(r) \/ BumpFails(r) \/ EscalationFails(r)
  PROVE  IInv'
<1>1. CASE BumpFails(r) \/ EscalationFails(r)
  BY <1>1, ReturnInv DEF BumpFails, EscalationFails, node, Failure, Early
<1>2. CASE BuildBump(r) \/ Rebuild(r) \/ WrapOriginal(r)
  <2> USE PipelineAssumption
  <2>0. /\ envelope[r] \in Envelope /\ envelope[r].run = r
        /\ envelope[r].gen = 1 => Built(r, envelope[r].seq)
        /\ attempt[r] \in 0..MaxAttempts /\ sequence \in Nat
        /\ stage[r] = "feeStats" => envelope[r].bump <= MaxFeeBump
        /\ \A e \in mempool : e.gen = 1
    BY DEF IInv, TypeOK, Own, Sequenced, Taken
  <2>1. /\ stage[r] \in {"feeStats", "reloading"} /\ Goto(r, "notifying")
        /\ UNCHANGED <<lane, params, attempt, result, built, wire, mempool, landed, sequence>>
    BY <1>2 DEF BuildBump, Rebuild, WrapOriginal, node
  <2>2. \E e \in Envelope : /\ envelope' = [envelope EXCEPT ![r] = e] /\ e.run = r
                            /\ e.gen = 1 => Built(r, e.seq)
    <3>1. CASE BuildBump(r)
      <4> PICK e : e = Wrapped(envelope[r], envelope[r].bump + 1)
        OBVIOUS
      <4>1. envelope[r].bump + 1 \in 0..MaxFeeBump + 1
        BY <2>0, <3>1 DEF BuildBump, Envelope
      <4>2. e \in Envelope /\ e.run = r /\ e.gen = envelope[r].gen /\ e.seq = envelope[r].seq
        BY <2>0, <4>1 DEF Wrapped, Envelope
      <4>3. envelope' = [envelope EXCEPT ![r] = e]
        BY <3>1 DEF BuildBump
      <4> QED
        BY <2>0, <4>2, <4>3
    <3>2. CASE Rebuild(r)
      <4> PICK tx : tx = [run |-> r, gen |-> 2, seq |-> sequence + 1, bump |-> 0]
        OBVIOUS
      <4> PICK e : e = Wrapped(tx, MaxFeeBump + 1)
        OBVIOUS
      <4>1. e \in Envelope /\ e.run = r /\ e.gen # 1
        BY <2>0 DEF Wrapped, Envelope
      <4>2. envelope' = [envelope EXCEPT ![r] = e]
        BY <3>2 DEF Rebuild
      <4> QED
        BY <4>1, <4>2
    <3>3. CASE WrapOriginal(r)
      <4> PICK e : e = Wrapped(envelope[r], MaxFeeBump + 1)
        OBVIOUS
      <4>1. e \in Envelope /\ e.run = r /\ e.gen = envelope[r].gen /\ e.seq = envelope[r].seq
        BY <2>0 DEF Wrapped, Envelope
      <4>2. envelope' = [envelope EXCEPT ![r] = e]
        BY <3>3 DEF WrapOriginal
      <4> QED
        BY <2>0, <4>1, <4>2
    <3> QED
      BY <1>2, <3>1, <3>2, <3>3
  <2>3. attempt' = [attempt EXCEPT ![r] = attempt[r]]
    BY <2>1 DEF IInv, TypeOK
  <2> PICK e \in Envelope : /\ envelope' = [envelope EXCEPT ![r] = e] /\ e.run = r
                            /\ e.gen = 1 => Built(r, e.seq)
    BY <2>2
  <2>4. /\ wire' \subseteq wire \cup {e} /\ mempool' \subseteq mempool \cup {e}
        /\ e \in mempool' => e.gen = 1
        /\ UNCHANGED <<lane, params, result, built, landed, sequence>>
    BY <2>0, <2>1
  <2> QED
    BY <2>0, <2>1, <2>3, <2>4, GotoInv
<1> QED
  BY <1>1, <1>2

\* Every step of the specification preserves the invariant.
LEMMA NextInv == ASSUME IInv, [Next]_vars PROVE IInv'
<1>1. CASE Ledger
  BY <1>1, LedgerInv
<1>2. ASSUME NEW r \in Run, Call(r) \/ LaneGranted(r) \/ QueueTimeout(r) \/ RunStep(r)
      PROVE  IInv'
  BY <1>2, CallInv, LaneGrantedInv, EarlyInv, AssembleInv, SendInv, SendAcceptedInv,
     AttemptInv, RecoveryInv DEF RunStep
<1>3. CASE UNCHANGED vars
  BY <1>3 DEF vars, lane, node, params, IInv, TypeOK, LaneFollows, PhaseOf, Params, Own,
              Sequenced, Built, Taken, Quiet, Unsent, Outcomes
<1> QED
  BY <1>1, <1>2, <1>3 DEF Next

\* The invariant holds in every state of every behaviour.
LEMMA InductiveInv == Spec => []IInv
<1>1. Init => IInv
  BY InitInv
<1>2. IInv /\ [Next]_vars => IInv'
  BY NextInv
<1> QED
  BY <1>1, <1>2, PTL DEF Spec

-----------------------------------------------------------------------------
\* Every state is well typed: attempts and bumps stay within their budgets, and a
\* run holds the lane exactly while it executes.
THEOREM TypeCorrect == Spec => []TypeOK
<1>1. IInv => TypeOK
  BY DEF IInv
<1> QED
  BY <1>1, InductiveInv, PTL

\* Two landed transactions of one run carry one sequence number, so they are one.
LEMMA OneLanded ==
  ASSUME IInv, NEW l \in landed, NEW m \in landed, l.envelope.run = m.envelope.run
  PROVE  l = m
  BY DEF IInv, Sequenced, Built, Taken

\* A run's operations execute at most once, for any number of attempts, bumps and
\* runs, as long as the rebuilt transaction is not signed.
THEOREM ExecutesOnce == Spec => []AtMostOnce
<1>1. IInv => AtMostOnce
  <2> SUFFICES ASSUME IInv, NEW r \in Run PROVE Cardinality(Executions(r)) <= 1
    BY DEF AtMostOnce
  <2>1. \A l, m \in Executions(r) : l = m
    BY OneLanded DEF Executions
  <2>2. CASE Executions(r) = {}
    BY <2>2, FS_EmptySet
  <2>3. CASE Executions(r) # {}
    <3> PICK l : Executions(r) = {l}
      BY <2>1, <2>3
    <3>1. Cardinality({l}) = 1
      BY FS_Singleton
    <3> QED
      BY <3>1
  <2> QED
    BY <2>2, <2>3
<1> QED
  BY <1>1, InductiveInv, PTL

\* A run that returns a confirmation or an on-chain failure tells what the ledger
\* says of its transaction, now and for ever.
THEOREM VerdictsTrue == Spec => []VerdictsAreTrue
<1>1. IInv => VerdictsAreTrue
  <2> SUFFICES ASSUME IInv, NEW r \in Run
               PROVE  /\ result[r] = "ok" => \E l \in Executions(r) : l.envelope = envelope[r]
                      /\ result[r] = "failed" => Executions(r) = {}
    BY DEF VerdictsAreTrue
  <2>0. envelope[r].run = r
    BY DEF IInv, Own
  <2>1. CASE result[r] = "ok"
    <3> PICK l \in landed : l.envelope = envelope[r] /\ l.outcome = "success"
      BY <2>1 DEF IInv, Outcomes
    <3> QED
      BY <2>0, <2>1 DEF Executions
  <2>2. CASE result[r] = "failed"
    <3> PICK l \in landed : l.envelope = envelope[r] /\ l.outcome = "failed"
      BY <2>2 DEF IInv, Outcomes
    <3>1. \A m \in landed : m.envelope.run = r => m = l
      BY <2>0, OneLanded
    <3> QED
      BY <2>2, <3>1 DEF Executions
  <2> QED
    BY <2>1, <2>2
<1> QED
  BY <1>1, InductiveInv, PTL

-----------------------------------------------------------------------------
(* The pipeline implements the abstract submission (Submission.tla).       *)

\* A run that has not returned goes on, and may send envelopes of its own.
GoesOn(r) ==
  /\ result[r] = "none" /\ result' = result /\ landed' = landed
  /\ \A e \in wire' \cup mempool' : e \in wire \cup mempool \/ e.run = r

\* A run that has not returned does, and sends nothing.
Returns(r) ==
  /\ result[r] = "none" /\ result' = [result EXCEPT ![r] = result'[r]] /\ landed' = landed
  /\ wire' \cup mempool' \subseteq wire \cup mempool

\* How what a run learns moves it on.
LEMMA ReturnReturns ==
  ASSUME IInv, NEW r \in Run, stage[r] # "done", NEW res, Return(r, res),
         UNCHANGED <<mempool, landed>>, wire' \subseteq wire
  PROVE  Returns(r)
BY DEF IInv, TypeOK, Return, Returns

LEMMA FailureReturns ==
  ASSUME IInv, NEW r \in Run, stage[r] # "done", NEW failure, SubmissionFailed(r, failure),
         UNCHANGED <<mempool, landed>>, wire' \subseteq wire
  PROVE  GoesOn(r) \/ Returns(r)
<1>1. CASE UNCHANGED <<lane, result>>
  BY <1>1 DEF GoesOn, IInv, TypeOK
<1>2. CASE Return(r, failure)
  BY <1>2, ReturnReturns
<1> QED
  BY <1>1, <1>2 DEF SubmissionFailed

LEMMA TransientReturns ==
  ASSUME IInv, NEW r \in Run, stage[r] # "done", NEW failure, Transient(r, failure),
         UNCHANGED <<mempool, landed>>
  PROVE  GoesOn(r) \/ Returns(r)
<1>1. CASE Send(r, envelope[r], attempt[r] + 1) /\ UNCHANGED <<lane, result>>
  BY <1>1 DEF Send, GoesOn, IInv, TypeOK, Own
<1>2. CASE SubmissionFailed(r, failure) /\ UNCHANGED <<envelope, attempt, wire>>
  BY <1>2, FailureReturns
<1> QED
  BY <1>1, <1>2 DEF Transient

\* Every step of a run is of one of the two kinds.
LEMMA RunReturns ==
  ASSUME IInv, NEW r \in Run, Call(r) \/ LaneGranted(r) \/ QueueTimeout(r) \/ RunStep(r)
  PROVE  GoesOn(r) \/ Returns(r)
<1>1. CASE \/ QueueTimeout(r) \/ AssembleFails(r) \/ PrepareFails(r) \/ BumpFails(r)
           \/ EscalationFails(r) \/ PollSuccess(r)
  <2>1. /\ UNCHANGED <<wire, mempool, landed>> /\ stage[r] # "done"
        /\ \E res : Return(r, res)
    BY <1>1 DEF QueueTimeout, AssembleFails, PrepareFails, BumpFails, EscalationFails,
                PollSuccess, node
  <2> QED
    BY <2>1, ReturnReturns
<1>2. CASE SendRejected(r) \/ PollFailed(r) \/ Refused(r)
  <2>1. /\ UNCHANGED <<mempool, landed>> /\ wire' \subseteq wire /\ stage[r] # "done"
        /\ \E failure : SubmissionFailed(r, failure)
    BY <1>2 DEF SendRejected, PollFailed, Refused, Terminal, WithoutThis, Open, node
  <2> QED
    BY <2>1, FailureReturns
<1>3. CASE SendDeferred(r) \/ PollGivesUp(r) \/ AttemptFails(r)
  <2>1. /\ UNCHANGED <<mempool, landed>> /\ stage[r] # "done"
        /\ \E failure : Transient(r, failure)
    BY <1>3 DEF SendDeferred, PollGivesUp, AttemptFails, Open
  <2> QED
    BY <2>1, TransientReturns
<1>4. CASE \/ Call(r) \/ LaneGranted(r) \/ Assemble(r) \/ BuildBump(r) \/ Rebuild(r)
           \/ WrapOriginal(r)
  <2>1. UNCHANGED <<result, wire, mempool, landed>> /\ stage[r] # "done"
    BY <1>4 DEF Call, LaneGranted, Assemble, BuildBump, Rebuild, WrapOriginal, node
  <2> QED
    BY <2>1 DEF GoesOn, IInv, TypeOK
<1>5. CASE Prepare(r) \/ SendAccepted(r) \/ Notified(r)
  <2>1. /\ UNCHANGED <<result, landed>> /\ stage[r] # "done"
        /\ wire' \cup mempool' \subseteq wire \cup mempool \cup {envelope[r]}
    BY <1>5 DEF Prepare, SendAccepted, Notified, Send, Open
  <2> QED
    BY <2>1 DEF GoesOn, IInv, TypeOK, Own
<1> QED
  BY <1>1, <1>2, <1>3, <1>4, <1>5 DEF RunStep

\* A run that goes on sends, as the abstract one does.
LEMMA GoesOnImplements ==
  ASSUME NEW r \in Run, GoesOn(r)
  PROVE  Contract!Send
BY DEF GoesOn, Contract!Send

\* A run that returns knows what it says: the envelope it worked on last is on the
\* ledger with that outcome, or it has sent nothing.
LEMMA ReturnsImplements ==
  ASSUME IInv, IInv', NEW r \in Run, Returns(r)
  PROVE  Contract!Return(r)
<1> DEFINE E(q) == {l \in landed : l.envelope.run = q}
<1>1. result'[r] \in {"ok", "failed"} =>
        \E l \in E(r) : l.outcome = IF result'[r] = "ok" THEN "success" ELSE "failed"
  <2>1. envelope'[r].run = r /\ landed' = landed
    BY DEF IInv, Own, Returns
  <2>2. CASE result'[r] = "ok"
    <3>1. [envelope |-> envelope'[r], outcome |-> "success"] \in landed
      BY <2>1, <2>2 DEF IInv, Outcomes
    <3> QED
      BY <2>1, <2>2, <3>1
  <2>3. CASE result'[r] = "failed"
    <3>1. [envelope |-> envelope'[r], outcome |-> "failed"] \in landed
      BY <2>1, <2>3 DEF IInv, Outcomes
    <3> QED
      BY <2>1, <2>3, <3>1
  <2> QED
    BY <2>2, <2>3
<1>2. result'[r] \in Early => (\A e \in wire' \cup mempool' : e.run # r) /\ E(r) = {}
  BY DEF IInv, Quiet, Unsent, Returns
<1> QED
  BY <1>1, <1>2 DEF Returns, Contract!Return

\* A transaction that gets to the ledger is the first of its run: another one would
\* have its sequence number, which would be used up.
LEMMA IncludeImplements ==
  ASSUME IInv, NEW e \in mempool, NEW outcome \in {"success", "failed"},
         Include(e, outcome)
  PROVE  e.run \in Run /\ Contract!Settle(e.run)
<1> PICK l : l = [envelope |-> e, outcome |-> outcome]
  OBVIOUS
<1>1. /\ landed' = landed \cup {l} /\ UNCHANGED <<wire, result>> /\ mempool' \subseteq mempool
      /\ e.run \in Run /\ l.envelope = e /\ l.outcome \in {"success", "failed"}
  BY DEF Include, IInv, TypeOK, Envelope
<1>2. \A m \in landed : m.envelope.run # e.run
  <2> SUFFICES ASSUME NEW m \in landed, m.envelope.run = e.run PROVE FALSE
    OBVIOUS
  <2>1. e.seq = m.envelope.seq
    BY DEF IInv, Taken, Sequenced, Built
  <2>2. e.seq = sequence + 1 /\ m.envelope.seq <= sequence /\ sequence \in Nat
    BY DEF Include, IInv, Taken, TypeOK
  <2> QED
    BY <2>1, <2>2
<1> DEFINE E == [q \in Run |-> {m \in landed : m.envelope.run = q}]
<1>3. E[e.run] = {} /\ E' = [E EXCEPT ![e.run] = {l}] /\ l \in E'[e.run]
  <2>1. \A q \in Run : {m \in landed' : m.envelope.run = q}
                        = IF q = e.run THEN {l} ELSE {m \in landed : m.envelope.run = q}
    BY <1>1, <1>2
  <2> QED
    BY <1>1, <1>2, <2>1
<1>4. e.run \in {f.run : f \in wire \cup mempool}
      /\ {f.run : f \in wire \cup mempool}' \subseteq {f.run : f \in wire \cup mempool}
  BY <1>1
<1> QED
  BY <1>1, <1>3, <1>4 DEF Contract!Settle

\* Every step is a step of the abstract submission, or none.
LEMMA StepImplements ==
  ASSUME IInv, IInv', [Next]_vars
  PROVE  [Contract!Next]_(Contract!submissionVars)
<1>1. ASSUME NEW r \in Run, Call(r) \/ LaneGranted(r) \/ QueueTimeout(r) \/ RunStep(r)
      PROVE  Contract!Next
  BY <1>1, RunReturns, GoesOnImplements, ReturnsImplements DEF Contract!Next
<1>2. ASSUME NEW e \in mempool, NEW outcome \in {"success", "failed"}, Include(e, outcome)
      PROVE  Contract!Next
  BY <1>2, IncludeImplements DEF Contract!Next
<1>3. CASE (\E e \in wire : Arrive(e)) \/ ForeignTransaction
  <2>1. UNCHANGED <<result, landed>> /\ wire' \cup mempool' \subseteq wire \cup mempool
    BY <1>3 DEF Arrive, ForeignTransaction
  <2> QED
    BY <2>1 DEF Contract!Next, Contract!Send
<1>4. CASE UNCHANGED vars
  BY <1>4 DEF vars, node, Contract!submissionVars
<1> QED
  BY <1>1, <1>2, <1>3, <1>4 DEF Next, Ledger

\* What a run promises its caller, for any number of runs, attempts, bumps and
\* processes: its operations get to the ledger at most once; it returns once and
\* sends nothing after that; a verdict it returns is the ledger's; and with an
\* early failure nothing of it is, or will be, on the ledger.
THEOREM Refinement == Spec => ImplementsSubmission
<1>1. Init => Contract!Init
  <2> SUFFICES ASSUME Init PROVE Contract!Init
    OBVIOUS
  <2>1. wire \cup mempool = {} /\ landed = {}
    BY DEF Init
  <2> QED
    BY <2>1 DEF Init, Contract!Init
<1>2. IInv /\ IInv' /\ [Next]_vars => [Contract!Next]_(Contract!submissionVars)
  BY StepImplements
<1> QED
  BY <1>1, <1>2, InductiveInv, PTL DEF Spec, ImplementsSubmission, Contract!Spec

-----------------------------------------------------------------------------
(* That a sequence number is reused only when nobody knows what became of it *)
(* rests on the lane: whoever has built a transaction and not returned holds *)
(* it, and one that returned with a verdict has used its number up.          *)

\* Whoever is in the lane has asked before the other or after it, and holds it
\* only with nobody ahead.
LaneOrder ==
  /\ key \in [Run -> {"account"}] /\ ahead \in [Run -> SUBSET Run]
  /\ \A r \in Run : phase[r] = "holding" => ahead[r] = {}
  /\ \A q, r \in Run :
       phase[q] \in {"waiting", "holding"} /\ phase[r] \in {"waiting", "holding"} /\ q # r
         => q \in ahead[r] \/ r \in ahead[q]

NumbersInv == IInv /\ LaneOrder /\ ReuseOnlyWithoutOutcome

LaneMoves == UNCHANGED lane \/ \E r \in Run : Lane!Join(r) \/ Lane!Grant(r) \/ Lane!Leave(r)
ResultsStay == \A q \in Run : result[q] # "none" => result'[q] = result[q]

\* A run that goes on or returns moves its lane as the lane allows, and has no
\* result before.
LEMMA ReturnMoves ==
  ASSUME IInv, NEW r \in Run, stage[r] # "done", NEW res, Return(r, res)
  PROVE  LaneMoves /\ ResultsStay
<1>1. result[r] = "none" /\ result' = [result EXCEPT ![r] = res]
  BY DEF IInv, TypeOK, Return
<1>2. ResultsStay
  BY <1>1 DEF ResultsStay
<1> QED
  BY <1>2 DEF Return, LaneMoves

LEMMA FailureMoves ==
  ASSUME IInv, NEW r \in Run, stage[r] # "done", NEW failure, SubmissionFailed(r, failure)
  PROVE  LaneMoves /\ ResultsStay
<1>1. CASE UNCHANGED <<lane, result>>
  BY <1>1 DEF LaneMoves, ResultsStay
<1>2. CASE Return(r, failure)
  BY <1>2, ReturnMoves
<1> QED
  BY <1>1, <1>2 DEF SubmissionFailed

LEMMA TransientMoves ==
  ASSUME IInv, NEW r \in Run, stage[r] # "done", NEW failure, Transient(r, failure)
  PROVE  LaneMoves /\ ResultsStay
<1>1. CASE UNCHANGED <<lane, result>>
  BY <1>1 DEF LaneMoves, ResultsStay
<1>2. CASE SubmissionFailed(r, failure)
  BY <1>2, FailureMoves
<1> QED
  BY <1>1, <1>2 DEF Transient

\* In every step the lane moves by its own rules, results are final, and only
\* `assemble` builds.
LEMMA StepMoves ==
  ASSUME IInv, [Next]_vars
  PROVE  LaneMoves /\ ResultsStay /\ serialize' = serialize
         /\ (UNCHANGED built \/ \E r \in Run : Assemble(r))
<1>1. CASE Ledger \/ UNCHANGED vars
  <2>1. UNCHANGED <<lane, result, serialize, built>>
    BY <1>1 DEF Ledger, Arrive, Include, ForeignTransaction, vars, params
  <2> QED
    BY <2>1 DEF LaneMoves, ResultsStay
<1>2. ASSUME NEW r \in Run, Call(r) \/ LaneGranted(r)
      PROVE  LaneMoves /\ ResultsStay /\ UNCHANGED <<serialize, built>>
  <2>1. UNCHANGED <<result, serialize, built>>
    BY <1>2 DEF Call, LaneGranted, params
  <2>2. LaneMoves
    BY <1>2 DEF Call, LaneGranted, LaneMoves
  <2> QED
    BY <2>1, <2>2 DEF ResultsStay
<1>3. ASSUME NEW r \in Run,
             \/ QueueTimeout(r) \/ AssembleFails(r) \/ PrepareFails(r) \/ BumpFails(r)
             \/ EscalationFails(r) \/ PollSuccess(r)
      PROVE  LaneMoves /\ ResultsStay /\ UNCHANGED <<serialize, built>>
  <2>1. /\ UNCHANGED <<serialize, built>> /\ stage[r] # "done"
        /\ \E res : Return(r, res)
    BY <1>3 DEF QueueTimeout, AssembleFails, PrepareFails, BumpFails, EscalationFails,
                PollSuccess, params
  <2> QED
    BY <2>1, ReturnMoves
<1>4. ASSUME NEW r \in Run,
             \/ SendDeferred(r) \/ SendRejected(r) \/ PollFailed(r) \/ PollGivesUp(r)
             \/ AttemptFails(r) \/ Refused(r)
      PROVE  LaneMoves /\ ResultsStay /\ UNCHANGED <<serialize, built>>
  <2>1. /\ UNCHANGED <<serialize, built>> /\ stage[r] # "done"
        /\ \E failure : Transient(r, failure) \/ SubmissionFailed(r, failure)
    BY <1>4 DEF SendDeferred, SendRejected, PollFailed, PollGivesUp, AttemptFails, Refused,
                Terminal, Open, params
  <2> QED
    BY <2>1, FailureMoves, TransientMoves
<1>5. ASSUME NEW r \in Run,
             \/ Assemble(r) \/ Prepare(r) \/ SendAccepted(r) \/ BuildBump(r) \/ Rebuild(r)
             \/ WrapOriginal(r) \/ Notified(r)
      PROVE  LaneMoves /\ ResultsStay /\ serialize' = serialize /\ (UNCHANGED built \/ Assemble(r))
  <2>1. UNCHANGED <<lane, result, serialize>> /\ (UNCHANGED built \/ Assemble(r))
    BY <1>5 DEF Assemble, Prepare, SendAccepted, BuildBump, Rebuild, WrapOriginal, Notified, params
  <2> QED
    BY <2>1 DEF LaneMoves, ResultsStay
<1> QED
  BY <1>1, <1>2, <1>3, <1>4, <1>5 DEF Next, RunStep

\* The order of the lane survives its moves: who joins has everybody ahead.
LEMMA LaneOrderKept == ASSUME IInv, LaneOrder, LaneMoves PROVE LaneOrder'
<1>0. phase \in [Run -> {"idle", "waiting", "holding", "left"}]
  BY DEF IInv, LaneFollows, PhaseOf
<1>1. CASE UNCHANGED lane
  BY <1>1 DEF LaneOrder, lane
<1>2. ASSUME NEW r \in Run, Lane!Join(r) PROVE LaneOrder'
  <2>1. /\ phase' = [phase EXCEPT ![r] = "waiting"] /\ key' = key
        /\ ahead' = [ahead EXCEPT ![r] = {q \in Run : phase[q] \in {"waiting", "holding"}}]
    BY <1>2 DEF Lane!Join, Lane!InLane, LaneOrder
  <2> QED
    BY <1>0, <2>1 DEF LaneOrder
<1>3. ASSUME NEW r \in Run, Lane!Grant(r) PROVE LaneOrder'
  BY <1>0, <1>3 DEF Lane!Grant, LaneOrder
<1>4. ASSUME NEW r \in Run, Lane!Leave(r) PROVE LaneOrder'
  <2>1. /\ phase' = [phase EXCEPT ![r] = "left"] /\ key' = key
        /\ ahead' = [q \in Run |-> ahead[q] \ {r}]
    BY <1>4 DEF Lane!Leave
  <2> QED
    BY <1>0, <2>1 DEF LaneOrder
<1> QED
  BY <1>1, <1>2, <1>3, <1>4 DEF LaneMoves

\* A run that returned with a verdict has used the number of its transaction up.
LEMMA VerdictUsesNumber ==
  ASSUME IInv, NEW t \in built, result[t.run] \in {"ok", "failed"}
  PROVE  t.seq <= sequence
<1>1. t.run \in Run
  BY DEF IInv, TypeOK, Envelope
<1>2. PICK l \in landed : l.envelope = envelope[t.run]
  BY <1>1 DEF IInv, Outcomes
<1>3. l.envelope.run = t.run /\ l.envelope.seq <= sequence
  BY <1>1, <1>2 DEF IInv, Own, Taken
<1>4. l.envelope.seq = t.seq
  BY <1>3 DEF IInv, Sequenced, Built
<1> QED
  BY <1>3, <1>4

\* A run that builds while another one's transaction has that number learns that
\* the other is gone and has no verdict: the other does not hold the lane.
LEMMA AssembleReuses ==
  ASSUME IInv, LaneOrder, NEW r \in Run, Assemble(r), serialize[r],
         NEW t \in built, t.seq = sequence + 1, serialize[t.run]
  PROVE  result[t.run] \notin {"none", "ok", "failed"}
<1>1. t.run \in Run /\ sequence \in Nat
  BY DEF IInv, TypeOK, Envelope
<1>2. stage[r] = "assembling" /\ stage[t.run] \notin {"idle", "queued", "assembling"}
  BY <1>1 DEF Assemble, IInv, Sequenced
<1>3. stage[t.run] # "done" => FALSE
  <2> SUFFICES ASSUME stage[t.run] # "done" PROVE FALSE
    OBVIOUS
  <2>1. phase[r] = "holding" /\ phase[t.run] = "holding" /\ r # t.run
    BY <1>1, <1>2 DEF IInv, TypeOK
  <2> QED
    BY <1>1, <2>1 DEF LaneOrder
<1>4. result[t.run] # "none"
  BY <1>1, <1>3 DEF IInv, TypeOK
<1>5. result[t.run] \notin {"ok", "failed"}
  <2>1. ~(sequence + 1 <= sequence)
    BY <1>1
  <2> QED
    BY <2>1, VerdictUsesNumber
<1> QED
  BY <1>4, <1>5

\* Reuse is kept by every step: results are final, and only `assemble` builds.
LEMMA ReuseKept ==
  ASSUME NumbersInv, [Next]_vars
  PROVE  ReuseOnlyWithoutOutcome'
<1> USE DEF NumbersInv
<1>1. ResultsStay /\ serialize' = serialize /\ (UNCHANGED built \/ \E r \in Run : Assemble(r))
  BY StepMoves
<1>2. \A t \in built : t.run \in Run
  BY DEF IInv, TypeOK, Envelope
<1>3. \A s, t \in built :
        s # t /\ s.seq = t.seq /\ serialize'[s.run] /\ serialize'[t.run]
          => \E q \in {s.run, t.run} : result'[q] \notin {"none", "ok", "failed"}
  <2> SUFFICES ASSUME NEW s \in built, NEW t \in built, s # t, s.seq = t.seq,
                      serialize[s.run], serialize[t.run]
               PROVE  \E q \in {s.run, t.run} : result'[q] \notin {"none", "ok", "failed"}
    BY <1>1
  <2>1. PICK q \in {s.run, t.run} : result[q] \notin {"none", "ok", "failed"}
    BY DEF ReuseOnlyWithoutOutcome
  <2>2. result'[q] = result[q]
    BY <1>1, <1>2, <2>1 DEF ResultsStay
  <2> QED
    BY <2>1, <2>2
<1>4. CASE UNCHANGED built
  BY <1>3, <1>4 DEF ReuseOnlyWithoutOutcome
<1>5. ASSUME NEW r \in Run, Assemble(r) PROVE ReuseOnlyWithoutOutcome'
  <2> PICK tx : tx = [run |-> r, gen |-> 1, seq |-> sequence + 1, bump |-> 0]
    OBVIOUS
  <2>1. built' = built \cup {tx} /\ tx.run = r /\ tx.seq = sequence + 1 /\ result' = result
    BY <1>5 DEF Assemble
  <2>2. \A t \in built : t.seq = tx.seq /\ serialize[t.run] /\ serialize[r]
                           => result'[t.run] \notin {"none", "ok", "failed"}
    BY <1>5, <2>1, AssembleReuses
  <2> SUFFICES ASSUME NEW s \in built', NEW t \in built', s # t, s.seq = t.seq,
                      serialize'[s.run], serialize'[t.run]
               PROVE  \E q \in {s.run, t.run} : result'[q] \notin {"none", "ok", "failed"}
    BY DEF ReuseOnlyWithoutOutcome
  <2>3. CASE s \in built /\ t \in built
    BY <1>3, <2>3
  <2>4. CASE s = tx /\ t \in built
    BY <1>1, <2>1, <2>2, <2>4
  <2>5. CASE t = tx /\ s \in built
    BY <1>1, <2>1, <2>2, <2>5
  <2> QED
    BY <2>1, <2>3, <2>4, <2>5
<1> QED
  BY <1>1, <1>4, <1>5

\* Two serialised runs build with one number only if one of them returned without
\* the ledger's verdict, for any number of runs, attempts, bumps and processes.
THEOREM NumbersReused == Spec => []ReuseOnlyWithoutOutcome
<1>1. Init => NumbersInv
  <2> SUFFICES ASSUME Init PROVE LaneOrder /\ ReuseOnlyWithoutOutcome
    BY InitInv DEF NumbersInv
  <2>1. LaneOrder
    BY DEF Init, Lane!Init, LaneOrder
  <2>2. ReuseOnlyWithoutOutcome
    BY DEF Init, ReuseOnlyWithoutOutcome
  <2> QED
    BY <2>1, <2>2
<1>2. NumbersInv /\ [Next]_vars => NumbersInv'
  BY NextInv, StepMoves, LaneOrderKept, ReuseKept DEF NumbersInv
<1>3. NumbersInv => ReuseOnlyWithoutOutcome
  BY DEF NumbersInv
<1> QED
  BY <1>1, <1>2, <1>3, PTL DEF Spec
=============================================================================
