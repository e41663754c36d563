------------------------------ MODULE MultiSig ------------------------------
(***************************************************************************)
(* escrow/multisig.ts: one M-of-N operation, from initMultiSigOperation to *)
(* submitWhenReady, shared by several MultiSigEscrowClients (processes)    *)
(* that hand it to each other through a store of the integrator's          *)
(* (exportState, importState), and stellar/transaction.ts, which posts it  *)
(* to Horizon.                                                             *)
(*                                                                         *)
(* Each client has a copy of its own. importState replaces the object in   *)
(* the client's map and prune deletes it, while a submitWhenReady that     *)
(* awaits Horizon still holds the object it started with: its result then  *)
(* marks an object nobody can see (`holds` says in whose map it still is). *)
(* The store keeps the last snapshot. What comes back from it may have a   *)
(* damaged signature, or another threshold, signer, entry or status:       *)
(* importState verifies each signature anew and takes the rest as it is.   *)
(* All envelopes carry one transaction, so at most one lands.              *)
(***************************************************************************)
EXTENDS Naturals, FiniteSets

CONSTANTS Client,     \* MultiSigEscrowClient instances
          Address,    \* Stellar addresses
          Signer,     \* the signers that initMultiSigOperation is given
          Threshold,  \* and the threshold
          Thresholds, \* the thresholds that snapshots may have
          Retention,  \* retentionMs
          FeeBumpers, \* the signers whose envelope is a fee bump of the transaction
          Call,       \* the calls of submitWhenReady that post
          MaxTries,   \* the retry budget of submitTransaction
          Deadlines,  \* the values of expiresAt
          MaxTime,    \* bound: the clock stops here
          MaxAltered, \* bound: so often a snapshot is altered
          MaxHolders, \* bound: so many clients hold the operation where one is
          None        \* no copy, no snapshot

ASSUME MultiSigAssumption ==
  /\ IsFiniteSet(Address) /\ Signer \subseteq Address
  /\ Threshold \in 1..Cardinality(Signer) \* or initMultiSigOperation refuses
  /\ Thresholds \subseteq Nat /\ Threshold \in Thresholds
  /\ FeeBumpers \subseteq Signer
  /\ Retention \in Nat
  /\ MaxTries \in Nat \ {0}
  /\ Deadlines \subseteq Nat
  /\ MaxTime \in Nat /\ MaxAltered \in Nat /\ MaxHolders \in Nat

Operation == [status : {"pending", "ready", "submitted", "expired"},
              threshold : Thresholds,
              signers : SUBSET Address,
              entries : SUBSET Address,  \* who has a collectedSignatures entry
              verified : SUBSET Address, \* whose entry says verified: true
              genuine : SUBSET Address,  \* whose stored signature is valid
              terminalAt : Nat,          \* 0 while there is none
              altered : 0..MaxAltered]   \* history: alterations on the way here

\* What submitWhenReady posts: the transaction with these signatures.
Envelope == [carried : SUBSET Address, \* whose verified signatures
             asked : Thresholds,       \* history: the threshold of the object posted from
             foreign : BOOLEAN]        \* history: it comes from an altered snapshot

ASSUME NoneAssumption == None \notin Operation /\ None \notin Client

VARIABLES
  copy,      \* copy[c]: the operation in client c's map
  store,     \* the integrator's store: the snapshot exported last
  now,       \* Date.now()
  expiresAt, \* the operation's deadline; 0 before initMultiSigOperation
  pc,        \* pc[k]: idle, sending, done
  holds,     \* holds[k]: the client whose map has the object k works on, or None
  tries,     \* tries[k]: POSTs of k so far
  posted,    \* the envelopes that were posted: Horizon may process them any time
  landed     \* the transaction is on the ledger

calls == <<pc, holds, tries>>
vars == <<copy, store, now, expiresAt, calls, posted, landed>>

TypeOK == /\ copy \in [Client -> Operation \cup {None}]
          /\ store \in Operation \cup {None}
          /\ now \in 0..MaxTime /\ expiresAt \in Nat
          /\ pc \in [Call -> {"idle", "sending", "done"}]
          /\ holds \in [Call -> Client \cup {None}]
          /\ tries \in [Call -> 0..MaxTries]
          /\ posted \subseteq Envelope
          /\ landed \in BOOLEAN

Init == /\ copy = [c \in Client |-> None] /\ store = None
        /\ now = 0 /\ expiresAt = 0
        /\ pc = [k \in Call |-> "idle"]
        /\ holds = [k \in Call |-> None]
        /\ tries = [k \in Call |-> 0]
        /\ posted = {} /\ landed = FALSE

-----------------------------------------------------------------------------
(* The operation in one client.                                            *)

Held(c) == copy[c] # None
Holders == {c \in Client : Held(c)}
isExpired == now > expiresAt
Terminal(op) == op.status \in {"submitted", "expired"}
markTerminal(op, status) == [op EXCEPT !.status = status, !.terminalAt = now]

\* After importState or prune, the object that calls in flight on c hold is no
\* longer the one in the map.
Detach(c) == holds' = [k \in Call |-> IF holds[k] = c THEN None ELSE holds[k]]

\* _validateInitParams: M of N distinct signers, and a deadline that is not past.
ValidInitParams(deadline) == Threshold \in 1..Cardinality(Signer) /\ deadline > now

initMultiSigOperation(c, deadline) ==
  /\ expiresAt = 0 /\ ValidInitParams(deadline)
  /\ expiresAt' = deadline
  /\ copy' = [copy EXCEPT ![c] =
       [status |-> "pending", threshold |-> Threshold, signers |-> Signer, entries |-> {},
        verified |-> {}, genuine |-> {}, terminalAt |-> 0, altered |-> 0]]
  /\ UNCHANGED <<store, now, calls, posted, landed>>

\* _verifySignedXdr: the envelope is of the operation's transaction, or a fee bump of
\* it, and carries a signature of s that is valid for one of the two hashes.
Verifies(op, s) == s \in op.genuine

\* _getVerifiedCount: distinct signers.
ThresholdMet(op, signed) == Cardinality(signed) >= op.threshold

\* _mergeSignatures: the signatures of the verified entries, put on the operation's own
\* envelope whatever envelope they came with.
Merged(op) == {s \in op.verified : Verifies(op, s)}

\* Faulty: one signature more than the threshold is asked for.
StatusAbove(op, signed) == IF Cardinality(signed) > op.threshold THEN "ready" ELSE op.status

\* With the threshold met, the operation is ready.
StatusWith(op, signed) == IF ThresholdMet(op, signed) THEN "ready" ELSE op.status

WithSignature(op, s) ==
  [op EXCEPT !.status = StatusWith(op, op.verified \cup {s}),
             !.entries = @ \cup {s}, !.verified = @ \cup {s}, !.genuine = @ \cup {s}]

\* addSignature with a valid envelope of an authorised signer. The envelopes it
\* turns down change nothing.
addSignature(c, s) ==
  /\ Held(c) /\ ~Terminal(copy[c])
  /\ ~isExpired
  /\ s \in copy[c].signers /\ s \notin copy[c].entries
  /\ copy' = [copy EXCEPT ![c] = WithSignature(@, s)]
  /\ UNCHANGED <<store, now, expiresAt, calls, posted, landed>>

\* addSignature, getMultiSigStatus and submitWhenReady find the deadline passed:
\* the first for a pending or ready operation, the second for a pending one, the
\* third for one of any status.
Expire(c) ==
  /\ Held(c) /\ isExpired
  /\ copy' = [copy EXCEPT ![c] = markTerminal(@, "expired")]
  /\ UNCHANGED <<store, now, expiresAt, calls, posted, landed>>

\* prune, by itself or from listOperations.
prune(c) ==
  /\ Held(c) /\ Terminal(copy[c]) /\ copy[c].terminalAt + Retention <= now
  /\ copy' = [copy EXCEPT ![c] = None]
  /\ Detach(c)
  /\ UNCHANGED <<store, now, expiresAt, pc, tries, posted, landed>>

-----------------------------------------------------------------------------
(* Handing the operation over.                                             *)

exportState(c) == /\ Held(c) /\ store' = copy[c]
                  /\ UNCHANGED <<copy, now, expiresAt, calls, posted, landed>>

\* _validateSnapshot: the shapes of the fields, a known status, and a threshold of at
\* least one. Whose the entries are, and whether the threshold and the signers are the
\* operation's, nobody asks.
ValidSnapshot(snapshot) == snapshot \in Operation /\ snapshot.threshold >= 1

\* Faulty: the stored flags are taken over.
ReverifiedByFlag(snapshot) == snapshot

\* _reverifyImportedEntry: a stored `verified` flag is not trusted.
Reverified(snapshot) ==
  [snapshot EXCEPT !.verified = {s \in snapshot.entries : Verifies(snapshot, s)}]

\* The snapshot overwrites the copy the client has: last write wins.
importState(c) ==
  /\ ValidSnapshot(store)
  /\ store.altered = 0 \/ Cardinality(Holders \cup {c}) <= MaxHolders
  /\ copy' = [copy EXCEPT ![c] = Reverified(store)]
  /\ Detach(c)
  /\ UNCHANGED <<store, now, expiresAt, pc, tries, posted, landed>>

\* A stored envelope is damaged, its flags are not.
Damage(s) == /\ store # None /\ s \in store.genuine
             /\ store' = [store EXCEPT !.genuine = store.genuine \ {s}]
             /\ UNCHANGED <<copy, now, expiresAt, calls, posted, landed>>

\* Another snapshot of the operation's id than was exported comes out of the store: with
\* another threshold, one more signer, one more valid entry (of whomever) or another status.
Alter ==
  /\ store # None /\ store.altered < MaxAltered /\ Cardinality(Holders) <= MaxHolders
  /\ \/ \E t \in Thresholds \ {store.threshold} :
          store' = [store EXCEPT !.threshold = t, !.altered = @ + 1]
     \/ \E s \in Address \ store.signers :
          store' = [store EXCEPT !.signers = @ \cup {s}, !.altered = @ + 1]
     \/ \E s \in Address \ store.entries :
          store' = [store EXCEPT !.entries = @ \cup {s}, !.verified = @ \cup {s},
                                 !.genuine = @ \cup {s}, !.altered = @ + 1]
     \/ \E status \in {"pending", "ready", "submitted", "expired"} \ {store.status} :
          store' = [store EXCEPT !.status = status, !.terminalAt = now, !.altered = @ + 1]
  /\ UNCHANGED <<copy, now, expiresAt, calls, posted, landed>>

-----------------------------------------------------------------------------
(* submitWhenReady and submitTransaction.                                  *)

\* submitWhenReady up to its await: whatever the status, an operation with enough
\* verified signatures is assembled and posted.
submitWhenReady(k, c) ==
  /\ pc[k] = "idle" /\ Held(c) /\ ~isExpired
  /\ ThresholdMet(copy[c], copy[c].verified)
  /\ pc' = [pc EXCEPT ![k] = "sending"]
  /\ holds' = [holds EXCEPT ![k] = c]
  /\ tries' = [tries EXCEPT ![k] = 1]
  /\ posted' = posted \cup {[carried |-> Merged(copy[c]), asked |-> copy[c].threshold,
                             foreign |-> copy[c].altered > 0]}
  /\ UNCHANGED <<copy, store, now, expiresAt, landed>>

\* The call returns, or fails.
Settle(k) == /\ pc' = [pc EXCEPT ![k] = "done"]
             /\ holds' = [holds EXCEPT ![k] = None]
             /\ tries' = [tries EXCEPT ![k] = 0]

\* Faulty: any answer counts, whatever Horizon says in it.
ConfirmedByAnyAnswer(k) ==
  /\ pc[k] = "sending"
  /\ Settle(k)
  /\ copy' = IF holds[k] \in Client
             THEN [copy EXCEPT ![holds[k]] = markTerminal(@, "submitted")]
             ELSE copy
  /\ UNCHANGED <<store, now, expiresAt, posted, landed>>

\* Horizon answers that the transaction is on the ledger: the operation the call
\* holds is submitted.
Confirmed(k) ==
  /\ pc[k] = "sending" /\ landed
  /\ Settle(k)
  /\ copy' = IF holds[k] \in Client
             THEN [copy EXCEPT ![holds[k]] = markTerminal(@, "submitted")]
             ELSE copy
  /\ UNCHANGED <<store, now, expiresAt, posted, landed>>

\* An answer that is no confirmation ends the call, and nothing is retried: a 4xx (also,
\* with tx_bad_seq, for a transaction that has landed), a body that cannot be read, a 2xx
\* of another shape.
Rejected(k) ==
  /\ pc[k] = "sending"
  /\ Settle(k)
  /\ UNCHANGED <<copy, store, now, expiresAt, posted, landed>>

\* Faulty: the budget is one POST too large.
UnansweredOnceMore(k) ==
  /\ pc[k] = "sending" /\ tries[k] <= MaxTries
  /\ tries' = [tries EXCEPT ![k] = @ + 1]
  /\ UNCHANGED <<copy, store, now, expiresAt, pc, holds, posted, landed>>

\* A transport error, a 5xx or the request's deadline: the same envelope is posted
\* again while the budget lasts. What was posted may still be processed.
Unanswered(k) ==
  /\ pc[k] = "sending"
  /\ \/ /\ tries[k] < MaxTries
        /\ tries' = [tries EXCEPT ![k] = @ + 1]
        /\ UNCHANGED <<pc, holds>>
     \/ /\ tries[k] = MaxTries
        /\ Settle(k)
  /\ UNCHANGED <<copy, store, now, expiresAt, posted, landed>>

\* Horizon takes a posted envelope into a ledger. The account may ask for fewer
\* signatures than the operation: M-of-N is for the client to enforce. A signature that
\* is not one of the transaction is refused (tx_bad_auth_extra): a fee bump's signs
\* the fee bump.
Land(envelope) == /\ ~landed /\ envelope.carried \cap FeeBumpers = {}
                  /\ landed' = TRUE
                  /\ UNCHANGED <<copy, store, now, expiresAt, calls, posted>>

Tick == /\ now < MaxTime /\ now' = now + 1
        /\ UNCHANGED <<copy, store, expiresAt, calls, posted, landed>>

-----------------------------------------------------------------------------
Next == \/ \E c \in Client :
             \/ \E deadline \in Deadlines : initMultiSigOperation(c, deadline)
             \/ \E s \in Address : addSignature(c, s)
             \/ Expire(c) \/ prune(c) \/ exportState(c) \/ importState(c)
             \/ \E k \in Call : submitWhenReady(k, c)
        \/ \E k \in Call : Confirmed(k) \/ Rejected(k) \/ Unanswered(k)
        \/ \E s \in Address : Damage(s)
        \/ Alter
        \/ \E envelope \in posted : Land(envelope)
        \/ Tick

Spec == Init /\ [][Next]_vars

-----------------------------------------------------------------------------
\* What is posted to Horizon carries verified signatures of as many different addresses
\* as the posting client's copy asks for, damaged snapshots notwithstanding; and if no
\* snapshot on the way to that copy was altered, of at least Threshold of the signers that the
\* operation was opened with, whichever clients collected them. A verified signature is one of the
\* transaction or of a fee bump of it (see MergedIsValid). After an alteration the signers
\* and the threshold are those of the snapshot: the code compares them with nothing.
BroadcastIsAuthorised ==
  \A e \in posted :
    /\ Cardinality(e.carried) >= e.asked /\ e.asked >= 1
    /\ ~e.foreign => e.carried \subseteq Signer /\ Cardinality(e.carried) >= Threshold

\* A client, or a snapshot, that says submitted is right: the transaction is on
\* the ledger. Said of what does not come from an altered snapshot.
SubmittedMeansLanded ==
  \A op \in {copy[c] : c \in Client} \cup {store} :
    op # None /\ op.altered = 0 /\ op.status = "submitted" => landed

\* The status a client reports agrees with what it has collected: a pending
\* operation is short of signatures, a ready or submitted one has enough entries,
\* also after a round trip through the store that altered nothing.
StatusMatchesSignatures ==
  \A op \in {copy[c] : c \in Client} \cup {store} :
    op # None /\ op.altered = 0 =>
      /\ op.status = "pending" => Cardinality(op.verified) < Threshold
      /\ op.status \in {"ready", "submitted"} => Cardinality(op.entries) >= Threshold

\* "Returns the assembled envelope ready for broadcast" (getAssembledXdr): Threshold of the
\* signatures on it are signatures of its transaction. It is violated when a signer
\* hands in a fee bump, which addSignature accepts: _verifySignedXdr takes the signature
\* of the outer hash, and _mergeSignatures moves it to the inner envelope.
MergedIsValid ==
  \A e \in posted : Cardinality(e.carried \ FeeBumpers) >= Threshold

\* "Transitions an operation to a terminal status (`expired` or `submitted`)"
\* (_markTerminal): an operation that has reached one keeps it, unless a snapshot
\* is imported over it.
TerminalIsFinal ==
  [][\A c \in Client :
       Held(c) /\ Terminal(copy[c]) =>
         \/ copy'[c] = None
         \/ copy'[c].status = copy[c].status
         \/ importState(c)]_vars
=============================================================================
