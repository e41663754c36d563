--------------------------- MODULE MultiSigProofs ---------------------------
(***************************************************************************)
(* The safety of MultiSig.tla for every number of clients, signers and     *)
(* submissions, every threshold, retention and retry budget, and however a *)
(* snapshot is altered.                                                    *)
(***************************************************************************)
EXTENDS MultiSig, FiniteSetTheorems, TLAPS

\* In a client's map exactly the entries with a valid signature are verified: the
\* check is made when a signature comes in, by addSignature or by importState.
\* In the store a valid entry is marked verified; the converse may be lost.
FlagsAgree ==
  /\ \A c \in Client : Held(c) => copy[c].verified = copy[c].entries \cap copy[c].genuine
  /\ store # None => store.entries \cap store.genuine \subseteq store.verified

\* Nothing exists before initMultiSigOperation.
Opened == expiresAt = 0 => /\ store = None /\ \A c \in Client : copy[c] = None
                           /\ \A k \in Call : holds[k] = None

\* The object that a call holds in a client's map has, if it was not altered, the
\* entries of enough signers: it had them when the call started.
HoldsEnough ==
  \A k \in Call : holds[k] \in Client =>
    LET op == copy[holds[k]] IN
    op # None /\ (op.altered = 0 => Cardinality(op.entries) >= Threshold)

\* SubmittedMeansLanded and StatusMatchesSignatures for one copy or snapshot, and what
\* makes them and BroadcastIsAuthorised true: an operation that was not altered is the one
\* that was opened, with entries of its signers.
Unaltered(op) == op # None /\ op.altered = 0
Submitted(op) == Unaltered(op) /\ op.status = "submitted" => landed
Matches(op) ==
  Unaltered(op) =>
    /\ op.status = "pending" => Cardinality(op.verified) < Threshold
    /\ op.status \in {"ready", "submitted"} => Cardinality(op.entries) >= Threshold
Opening(op) == Unaltered(op) => /\ op.threshold = Threshold /\ op.signers = Signer
                                /\ op.entries \subseteq Signer
Sound(op) == Submitted(op) /\ Matches(op) /\ Opening(op)

\* An operation in a client's map came through initMultiSigOperation or _validateSnapshot.
Asking == \A c \in Client : Held(c) => copy[c].threshold >= 1

EachOK == (\A c \in Client : Sound(copy[c])) /\ Sound(store) /\ Asking

IInv == TypeOK /\ Opened /\ FlagsAgree /\ HoldsEnough /\ BroadcastIsAuthorised /\ EachOK

\* Cardinalities of sets of addresses are numbers, and grow with the set.
LEMMA Larger ==
  ASSUME NEW A \in SUBSET Address, NEW B \in SUBSET A
  PROVE  /\ Threshold \in Nat /\ Threshold >= 1
         /\ Cardinality(A) \in Nat /\ Cardinality(B) \in Nat
         /\ Cardinality(B) <= Cardinality(A)
<1>1. IsFiniteSet(Signer) /\ Cardinality(Signer) \in Nat
  BY MultiSigAssumption, FS_CardinalityType, FS_Subset
<1>2. IsFiniteSet(A)
  BY MultiSigAssumption, FS_Subset
<1>3. IsFiniteSet(B) /\ Cardinality(B) <= Cardinality(A)
  BY <1>2, FS_Subset
<1> QED
  BY <1>1, <1>2, <1>3, FS_CardinalityType, MultiSigAssumption

\* The two state properties are part of EachOK, which spells out their set of copies.
LEMMA EachOKProperties == EachOK => SubmittedMeansLanded /\ StatusMatchesSignatures
  BY DEF EachOK, Sound, Submitted, Matches, Unaltered, SubmittedMeansLanded,
         StatusMatchesSignatures

\* The invariant holds initially: there is no operation.
LEMMA InitInv == Init => IInv
<1> SUFFICES ASSUME Init PROVE IInv
  OBVIOUS
<1> USE MultiSigAssumption DEF Init
<1>1. TypeOK
  <2>1. MaxTime \in Nat /\ MaxTries \in Nat /\ MaxTries >= 0
    OBVIOUS
  <2>2. /\ copy \in [Client -> Operation \cup {None}] /\ store \in Operation \cup {None}
        /\ now \in 0..MaxTime /\ expiresAt \in Nat /\ tries \in [Call -> 0..MaxTries]
        /\ holds \in [Call -> Client \cup {None}]
    BY <2>1
  <2> QED
    BY <2>2 DEF TypeOK
<1>2. Opened /\ FlagsAgree /\ HoldsEnough /\ BroadcastIsAuthorised
  BY NoneAssumption DEF Opened, FlagsAgree, HoldsEnough, BroadcastIsAuthorised, Held
<1>3. EachOK
  BY DEF EachOK, Sound, Submitted, Matches, Opening, Unaltered, Asking, Held
<1> QED
  BY <1>1, <1>2, <1>3 DEF IInv

-----------------------------------------------------------------------------
\* An action that gives a client a sound copy keeps every copy and snapshot sound.
LEMMA CopyChanged ==
  ASSUME IInv, NEW c \in Client, NEW new \in Operation,
         copy' = [copy EXCEPT ![c] = new], store' = store, landed' = landed,
         new.verified = new.entries \cap new.genuine, new.threshold >= 1, Sound(new)
  PROVE  /\ copy' \in [Client -> Operation \cup {None}]
         /\ FlagsAgree' /\ EachOK'
         /\ \A d \in Client : copy'[d] = IF d = c THEN new ELSE copy[d]
<1> USE NoneAssumption DEF IInv
<1>1. \A d \in Client : copy'[d] = IF d = c THEN new ELSE copy[d]
  BY DEF TypeOK
<1>2. copy' \in [Client -> Operation \cup {None}]
  BY DEF TypeOK
<1>3. FlagsAgree'
  BY <1>1 DEF FlagsAgree, Held
<1>4. EachOK'
  BY <1>1 DEF EachOK, Sound, Submitted, Matches, Opening, Unaltered, Asking, Held
<1> QED
  BY <1>1, <1>2, <1>3, <1>4

\* A step that leaves copies, snapshot and ledger alone, and no call with an object of its
\* own, keeps what is said of them.
LEMMA NothingHeld ==
  ASSUME IInv, UNCHANGED <<copy, store, expiresAt, landed>>,
         \A k \in Call : holds'[k] = holds[k] \/ holds'[k] = None
  PROVE  Opened' /\ FlagsAgree' /\ HoldsEnough' /\ EachOK'
<1> USE NoneAssumption DEF IInv
<1>1. Opened' /\ FlagsAgree' /\ EachOK'
  BY DEF Opened, FlagsAgree, Held, EachOK, Sound, Submitted, Matches, Opening, Unaltered, Asking
<1>2. HoldsEnough'
  BY DEF HoldsEnough
<1> QED
  BY <1>1, <1>2

\* A new operation has no signature, which is fewer than the threshold.
LEMMA InitOperationInv ==
  ASSUME IInv, NEW c \in Client, NEW deadline \in Deadlines,
         initMultiSigOperation(c, deadline)
  PROVE  IInv'
<1> USE MultiSigAssumption, NoneAssumption
<1> PICK new : new = [status |-> "pending", threshold |-> Threshold, signers |-> Signer,
                      entries |-> {}, verified |-> {}, genuine |-> {}, terminalAt |-> 0,
                      altered |-> 0]
  OBVIOUS
<1>1. new \in Operation
  BY DEF Operation
<1>2. Sound(new) /\ new.threshold >= 1
  <2>1. Cardinality({}) = 0 /\ Threshold >= 1 /\ Threshold \in Nat
    BY FS_EmptySet, Larger
  <2> QED
    BY <2>1 DEF Sound, Submitted, Matches, Opening
<1>3. /\ copy' = [copy EXCEPT ![c] = new] /\ expiresAt = 0 /\ expiresAt' = deadline
      /\ deadline > now
      /\ UNCHANGED <<store, now, pc, holds, tries, posted, landed>>
  BY DEF initMultiSigOperation, ValidInitParams, calls
<1>4. /\ copy' \in [Client -> Operation \cup {None}]
      /\ FlagsAgree' /\ EachOK'
      /\ \A d \in Client : copy'[d] = IF d = c THEN new ELSE copy[d]
  BY <1>1, <1>2, <1>3, CopyChanged
<1>5. \A k \in Call : holds[k] \notin Client
  BY <1>3 DEF IInv, Opened
<1>6. TypeOK' /\ HoldsEnough' /\ BroadcastIsAuthorised'
  BY <1>3, <1>4, <1>5 DEF IInv, TypeOK, HoldsEnough, BroadcastIsAuthorised
<1>7. Opened'
  BY <1>3 DEF IInv, TypeOK, Opened
<1> QED
  BY <1>4, <1>6, <1>7 DEF IInv

\* addSignature adds one verified entry, and declares the operation ready with the
\* threshold's.
LEMMA AddSignatureInv ==
  ASSUME IInv, NEW c \in Client, NEW s \in Address, addSignature(c, s)
  PROVE  IInv'
<1> USE MultiSigAssumption, NoneAssumption
<1> PICK op : op = copy[c]
  OBVIOUS
<1> PICK signed : signed = op.verified \cup {s}
  OBVIOUS
<1> PICK new : new = WithSignature(op, s)
  OBVIOUS
<1>1. /\ op \in Operation /\ op # None /\ op.status \notin {"submitted", "expired"}
      /\ op.verified = op.entries \cap op.genuine /\ Matches(op) /\ Opening(op)
      /\ op.threshold >= 1 /\ s \in op.signers
  BY DEF addSignature, IInv, TypeOK, FlagsAgree, EachOK, Sound, Asking, Held, Terminal
<1>2. /\ new.entries = op.entries \cup {s} /\ new.verified = signed
      /\ new.genuine = op.genuine \cup {s}
      /\ new.threshold = op.threshold /\ new.signers = op.signers /\ new.altered = op.altered
      /\ new.status = IF Cardinality(signed) >= op.threshold THEN "ready" ELSE op.status
  BY <1>1 DEF WithSignature, StatusWith, ThresholdMet, Operation
<1>3. new \in Operation
  BY <1>1 DEF Operation, StatusWith, ThresholdMet, WithSignature
<1>4. new.verified = new.entries \cap new.genuine /\ Submitted(new) /\ Opening(new)
  BY <1>1, <1>2, <1>3 DEF Submitted, Opening, Unaltered
<1>5. Cardinality(op.entries) <= Cardinality(new.entries)
      /\ Cardinality(op.entries) \in Nat /\ Cardinality(new.entries) \in Nat
      /\ Cardinality(signed) \in Nat /\ Cardinality(signed) <= Cardinality(new.entries)
      /\ Threshold \in Nat
  <2>1. /\ signed \in SUBSET new.entries /\ op.entries \in SUBSET new.entries
        /\ new.entries \in SUBSET Address
    BY <1>1, <1>2, <1>3 DEF Operation
  <2> QED
    BY <2>1, Larger
<1>6. Matches(new)
  BY <1>1, <1>2, <1>5 DEF Matches, Opening, Unaltered
<1>7. /\ copy' = [copy EXCEPT ![c] = new]
      /\ UNCHANGED <<store, now, expiresAt, pc, holds, tries, posted, landed>>
  BY DEF addSignature, calls
<1>8. /\ copy' \in [Client -> Operation \cup {None}]
      /\ FlagsAgree' /\ EachOK'
      /\ \A d \in Client : copy'[d] = IF d = c THEN new ELSE copy[d]
  BY <1>1, <1>2, <1>3, <1>4, <1>6, <1>7, CopyChanged DEF Sound
<1>9. TypeOK' /\ BroadcastIsAuthorised' /\ Opened'
  BY <1>1, <1>7, <1>8 DEF IInv, TypeOK, BroadcastIsAuthorised, Opened
<1>10. HoldsEnough'
  <2> SUFFICES ASSUME NEW k \in Call, holds[k] \in Client
               PROVE  copy'[holds[k]] # None
                      /\ (copy'[holds[k]].altered = 0 => Cardinality(copy'[holds[k]].entries) >= Threshold)
    BY <1>7 DEF HoldsEnough
  <2>1. CASE holds[k] = c
    <3>1. op.altered = 0 => Cardinality(op.entries) >= Threshold
      BY <2>1 DEF IInv, HoldsEnough
    <3>2. new.altered = 0 => Cardinality(new.entries) >= Threshold
      BY <1>2, <1>5, <3>1
    <3> QED
      BY <1>3, <1>8, <2>1, <3>2
  <2>2. CASE holds[k] # c
    BY <1>8, <2>2 DEF IInv, HoldsEnough
  <2> QED
    BY <2>1, <2>2
<1> QED
  BY <1>8, <1>9, <1>10 DEF IInv

\* Marking an operation terminal leaves its signatures alone.
LEMMA MarkTerminalSound ==
  ASSUME IInv, NEW op \in Operation, NEW status \in {"submitted", "expired"},
         op.verified = op.entries \cap op.genuine, Matches(op), Opening(op), op # None,
         status = "submitted" =>
           landed /\ (op.altered = 0 => Cardinality(op.entries) >= Threshold)
  PROVE  LET new == markTerminal(op, status) IN
         /\ new \in Operation
         /\ new.verified = new.entries \cap new.genuine
         /\ new.entries = op.entries /\ new.threshold = op.threshold /\ new.altered = op.altered
         /\ Sound(new)
<1> PICK new : new = markTerminal(op, status)
  OBVIOUS
<1>1. now \in Nat
  BY MultiSigAssumption DEF IInv, TypeOK
<1>2. /\ new.entries = op.entries /\ new.verified = op.verified /\ new.genuine = op.genuine
      /\ new.threshold = op.threshold /\ new.signers = op.signers /\ new.altered = op.altered
      /\ new.status = status
  BY <1>1 DEF markTerminal, Operation
<1>3. new \in Operation
  BY <1>1 DEF markTerminal, Operation
<1>4. Sound(new)
  BY <1>2 DEF Sound, Submitted, Matches, Opening, Unaltered
<1> QED
  BY <1>2, <1>3, <1>4

\* A copy that is marked terminal keeps its entries, and with them what calls hold.
LEMMA MarkedInv ==
  ASSUME IInv, NEW c \in Client, NEW new \in Operation,
         copy[c] # None, copy' = [copy EXCEPT ![c] = new],
         new.verified = new.entries \cap new.genuine, Sound(new),
         new.entries = copy[c].entries, new.threshold = copy[c].threshold,
         new.altered = copy[c].altered,
         UNCHANGED <<store, expiresAt, landed>>,
         \A k \in Call : holds'[k] = holds[k] \/ holds'[k] = None
  PROVE  /\ copy' \in [Client -> Operation \cup {None}]
         /\ FlagsAgree' /\ EachOK' /\ Opened' /\ HoldsEnough'
<1> USE NoneAssumption
<1>1. new.threshold >= 1
  BY DEF IInv, EachOK, Asking, Held
<1>2. /\ copy' \in [Client -> Operation \cup {None}]
      /\ FlagsAgree' /\ EachOK'
      /\ \A d \in Client : copy'[d] = IF d = c THEN new ELSE copy[d]
  BY <1>1, CopyChanged
<1>3. Opened'
  BY <1>2 DEF IInv, Opened
<1>4. HoldsEnough'
  BY <1>2 DEF IInv, HoldsEnough
<1> QED
  BY <1>2, <1>3, <1>4

\* An operation past its deadline is marked expired.
LEMMA ExpireInv == ASSUME IInv, NEW c \in Client, Expire(c) PROVE IInv'
<1> USE NoneAssumption
<1> PICK new : new = markTerminal(copy[c], "expired")
  OBVIOUS
<1>1. copy[c] \in Operation /\ copy[c] # None /\ Matches(copy[c]) /\ Opening(copy[c])
      /\ copy[c].verified = copy[c].entries \cap copy[c].genuine
  BY DEF Expire, IInv, TypeOK, FlagsAgree, EachOK, Sound, Held
<1>2. /\ new \in Operation /\ new.verified = new.entries \cap new.genuine
      /\ new.entries = copy[c].entries /\ new.threshold = copy[c].threshold
      /\ new.altered = copy[c].altered /\ Sound(new)
  BY <1>1, MarkTerminalSound
<1>3. /\ copy' = [copy EXCEPT ![c] = new]
      /\ UNCHANGED <<store, now, expiresAt, pc, holds, tries, posted, landed>>
  BY DEF Expire, calls
<1>4. /\ copy' \in [Client -> Operation \cup {None}]
      /\ FlagsAgree' /\ EachOK' /\ Opened' /\ HoldsEnough'
  BY <1>1, <1>2, <1>3, MarkedInv
<1>5. TypeOK' /\ BroadcastIsAuthorised'
  BY <1>3, <1>4 DEF IInv, TypeOK, BroadcastIsAuthorised
<1> QED
  BY <1>4, <1>5 DEF IInv

\* prune takes a copy away, and no call sees its object any more.
LEMMA PruneInv == ASSUME IInv, NEW c \in Client, prune(c) PROVE IInv'
<1> USE NoneAssumption DEF IInv
<1>1. \A d \in Client : copy'[d] = IF d = c THEN None ELSE copy[d]
  BY DEF prune, TypeOK
<1>2. \A k \in Call : holds'[k] = IF holds[k] = c THEN None ELSE holds[k]
  BY DEF prune, Detach
<1>3. copy' \in [Client -> Operation \cup {None}]
  BY DEF prune, TypeOK
<1>4. holds' \in [Call -> Client \cup {None}]
  BY DEF prune, Detach, TypeOK
<1>5. TypeOK'
  BY <1>3, <1>4 DEF prune, TypeOK
<1>6. Opened' /\ FlagsAgree' /\ BroadcastIsAuthorised'
  BY <1>1, <1>2 DEF prune, Opened, FlagsAgree, BroadcastIsAuthorised, Held
<1>7. HoldsEnough'
  BY <1>1, <1>2 DEF prune, HoldsEnough
<1>8. EachOK'
  BY <1>1 DEF prune, EachOK, Sound, Submitted, Matches, Opening, Unaltered, Asking, Held
<1> QED
  BY <1>5, <1>6, <1>7, <1>8

\* A snapshot goes to the store as it is.
LEMMA ExportInv == ASSUME IInv, NEW c \in Client, exportState(c) PROVE IInv'
<1> USE NoneAssumption DEF IInv, exportState, calls
<1>1. TypeOK'
  BY DEF TypeOK
<1>2. Opened' /\ FlagsAgree' /\ HoldsEnough' /\ BroadcastIsAuthorised'
  BY DEF Opened, FlagsAgree, HoldsEnough, BroadcastIsAuthorised, Held
<1>3. EachOK'
  BY DEF EachOK, Sound, Submitted, Matches, Opening, Unaltered, Asking, Held
<1> QED
  BY <1>1, <1>2, <1>3

\* importState verifies every entry anew, so no more of them count than before.
LEMMA ImportInv == ASSUME IInv, NEW c \in Client, importState(c) PROVE IInv'
<1> USE NoneAssumption
<1> PICK new : new = Reverified(store)
  OBVIOUS
<1>1. store \in Operation /\ Sound(store) /\ store # None /\ store.threshold >= 1
      /\ store.entries \cap store.genuine \subseteq store.verified
  BY DEF importState, ValidSnapshot, IInv, TypeOK, FlagsAgree, EachOK
<1>2. /\ new \in Operation
      /\ new.verified = store.entries \cap store.genuine
      /\ new.entries = store.entries /\ new.genuine = store.genuine
      /\ new.threshold = store.threshold /\ new.signers = store.signers
      /\ new.altered = store.altered /\ new.status = store.status
  BY <1>1 DEF Reverified, Verifies, Operation
<1>3. Submitted(new) /\ Opening(new)
  BY <1>1, <1>2 DEF Sound, Submitted, Opening, Unaltered
<1>4. Matches(new)
  <2>1. new.verified \in SUBSET store.verified /\ store.verified \in SUBSET Address
    BY <1>1, <1>2 DEF Operation
  <2>2. /\ Cardinality(new.verified) \in Nat /\ Cardinality(store.verified) \in Nat
        /\ Cardinality(new.verified) <= Cardinality(store.verified) /\ Threshold \in Nat
    BY <2>1, Larger
  <2> QED
    BY <1>1, <1>2, <2>2 DEF Sound, Matches, Unaltered
<1>5. /\ copy' = [copy EXCEPT ![c] = new]
      /\ UNCHANGED <<store, now, expiresAt, pc, tries, posted, landed>>
  BY DEF importState
<1>6. /\ copy' \in [Client -> Operation \cup {None}]
      /\ FlagsAgree' /\ EachOK'
      /\ \A d \in Client : copy'[d] = IF d = c THEN new ELSE copy[d]
  BY <1>1, <1>2, <1>3, <1>4, <1>5, CopyChanged DEF Sound
<1>7. /\ holds' \in [Call -> Client \cup {None}]
      /\ \A k \in Call : holds'[k] = IF holds[k] = c THEN None ELSE holds[k]
  BY DEF importState, Detach, IInv, TypeOK
<1>8. TypeOK' /\ BroadcastIsAuthorised'
  BY <1>5, <1>6, <1>7 DEF IInv, TypeOK, BroadcastIsAuthorised
<1>9. HoldsEnough' /\ Opened'
  BY <1>1, <1>5, <1>6, <1>7 DEF IInv, HoldsEnough, Opened
<1> QED
  BY <1>6, <1>8, <1>9 DEF IInv

\* What happens to a snapshot in the store: nobody's copy changes.
LEMMA StoreChanged ==
  ASSUME IInv, store # None, NEW new \in Operation, store' = new,
         new.entries \cap new.genuine \subseteq new.verified, Sound(new),
         UNCHANGED <<copy, now, expiresAt, pc, holds, tries, posted, landed>>
  PROVE  IInv'
<1> USE NoneAssumption DEF IInv
<1>1. TypeOK'
  BY DEF TypeOK
<1>2. Opened' /\ FlagsAgree' /\ HoldsEnough' /\ BroadcastIsAuthorised'
  BY DEF Opened, FlagsAgree, HoldsEnough, BroadcastIsAuthorised, Held
<1>3. EachOK'
  BY DEF EachOK, Sound, Submitted, Matches, Opening, Unaltered, Asking, Held
<1> QED
  BY <1>1, <1>2, <1>3

\* Damage in the store takes valid signatures away and touches no flag.
LEMMA DamageInv == ASSUME IInv, NEW s \in Address, Damage(s) PROVE IInv'
<1> USE NoneAssumption
<1> PICK new : new = [store EXCEPT !.genuine = store.genuine \ {s}]
  OBVIOUS
<1>1. /\ store \in Operation /\ store # None /\ store' = new /\ Sound(store)
      /\ store.entries \cap store.genuine \subseteq store.verified
      /\ UNCHANGED <<copy, now, expiresAt, pc, holds, tries, posted, landed>>
  BY DEF IInv, Damage, TypeOK, FlagsAgree, EachOK, calls
<1>2. /\ new \in Operation /\ new.genuine = store.genuine \ {s}
      /\ new.entries = store.entries /\ new.verified = store.verified
      /\ new.threshold = store.threshold /\ new.signers = store.signers
      /\ new.status = store.status /\ new.altered = store.altered
  BY <1>1 DEF Operation
<1>3. Sound(new)
  BY <1>1, <1>2 DEF Sound, Submitted, Matches, Opening, Unaltered
<1> QED
  BY <1>1, <1>2, <1>3, StoreChanged

\* Of an altered snapshot nothing is said but that its flags are not short.
LEMMA AlterInv == ASSUME IInv, Alter PROVE IInv'
<1> USE MultiSigAssumption, NoneAssumption
<1>1. /\ store \in Operation /\ store # None /\ now \in Nat
      /\ store.entries \cap store.genuine \subseteq store.verified
      /\ UNCHANGED <<copy, now, expiresAt, pc, holds, tries, posted, landed>>
  <2>1. store \in Operation /\ store.entries \cap store.genuine \subseteq store.verified
    BY DEF Alter, IInv, TypeOK, FlagsAgree
  <2>2. now \in Nat
    BY DEF IInv, TypeOK
  <2>3. store # None /\ UNCHANGED <<copy, now, expiresAt, pc, holds, tries, posted, landed>>
    BY DEF Alter, calls
  <2> QED
    BY <2>1, <2>2, <2>3
<1> PICK more : more = store.altered + 1
  OBVIOUS
<1>2. more \in 0..MaxAltered /\ more # 0
  <2>1. store.altered \in 0..MaxAltered /\ store.altered < MaxAltered
    BY <1>1 DEF Alter, Operation
  <2> QED
    BY <2>1
<1> SUFFICES /\ store' \in Operation /\ store'.altered # 0
             /\ store'.entries \cap store'.genuine \subseteq store'.verified
  <2> PICK new : new = store'
    OBVIOUS
  <2>1. /\ new \in Operation /\ store' = new
        /\ new.entries \cap new.genuine \subseteq new.verified
        /\ new.altered # 0
    OBVIOUS
  <2>2. Sound(new)
    BY <2>1 DEF Sound, Submitted, Matches, Opening, Unaltered
  <2> QED
    BY <1>1, <2>1, <2>2, StoreChanged
<1>3. CASE \E t \in Thresholds \ {store.threshold} :
             store' = [store EXCEPT !.threshold = t, !.altered = @ + 1]
  <2> PICK t \in Thresholds : store' = [store EXCEPT !.threshold = t, !.altered = more]
    BY <1>3
  <2> QED
    BY <1>1, <1>2 DEF Operation
<1>4. CASE \E s \in Address \ store.signers :
             store' = [store EXCEPT !.signers = @ \cup {s}, !.altered = @ + 1]
  <2> PICK s \in Address :
           store' = [store EXCEPT !.signers = store.signers \cup {s}, !.altered = more]
    BY <1>4
  <2> QED
    BY <1>1, <1>2 DEF Operation
<1>5. CASE \E s \in Address \ store.entries :
             store' = [store EXCEPT !.entries = @ \cup {s}, !.verified = @ \cup {s},
                                    !.genuine = @ \cup {s}, !.altered = @ + 1]
  <2> PICK s \in Address :
           store' = [store EXCEPT !.entries = store.entries \cup {s},
                                  !.verified = store.verified \cup {s},
                                  !.genuine = store.genuine \cup {s}, !.altered = more]
    BY <1>5
  <2>1. /\ store'.entries = store.entries \cup {s} /\ store'.verified = store.verified \cup {s}
        /\ store'.genuine = store.genuine \cup {s} /\ store'.altered = more
    BY <1>1 DEF Operation
  <2>2. store' \in Operation
    BY <1>1, <1>2 DEF Operation
  <2> QED
    BY <1>1, <1>2, <2>1, <2>2
<1>6. CASE \E status \in {"pending", "ready", "submitted", "expired"} \ {store.status} :
             store' = [store EXCEPT !.status = status, !.terminalAt = now, !.altered = @ + 1]
  <2> PICK status \in {"pending", "ready", "submitted", "expired"} :
           store' = [store EXCEPT !.status = status, !.terminalAt = now, !.altered = more]
    BY <1>6
  <2> QED
    BY <1>1, <1>2 DEF Operation
<1> QED
  BY <1>3, <1>4, <1>5, <1>6 DEF Alter

-----------------------------------------------------------------------------
\* What is posted is a copy's verified, hence valid, signatures.
LEMMA SubmitInv ==
  ASSUME IInv, NEW k \in Call, NEW c \in Client, submitWhenReady(k, c) PROVE IInv'
<1> USE MultiSigAssumption, NoneAssumption DEF IInv
<1> PICK op : op = copy[c]
  OBVIOUS
<1> PICK envelope : envelope = [carried |-> op.verified, asked |-> op.threshold,
                                foreign |-> op.altered > 0]
  OBVIOUS
<1>1. /\ op \in Operation /\ op # None /\ Opening(op) /\ op.threshold >= 1
      /\ op.verified = op.entries \cap op.genuine
  BY DEF submitWhenReady, TypeOK, FlagsAgree, EachOK, Sound, Asking, Held
<1>2. /\ pc' = [pc EXCEPT ![k] = "sending"] /\ holds' = [holds EXCEPT ![k] = c]
      /\ tries' = [tries EXCEPT ![k] = 1]
      /\ posted' = posted \cup {envelope}
      /\ UNCHANGED <<copy, store, now, expiresAt, landed>>
      /\ Cardinality(op.verified) >= op.threshold
  <2>1. Merged(op) = op.verified
    BY <1>1 DEF Merged, Verifies
  <2> QED
    BY <2>1 DEF submitWhenReady, ThresholdMet
<1>3. op.altered \in Nat /\ (op.altered > 0) \in BOOLEAN
  BY <1>1 DEF Operation
<1>4. envelope \in Envelope
  BY <1>1, <1>3 DEF Envelope, Operation
<1>5. tries' \in [Call -> 0..MaxTries]
  BY <1>2 DEF TypeOK
<1>6. TypeOK'
  BY <1>2, <1>4, <1>5 DEF TypeOK
<1>7. Opened' /\ FlagsAgree' /\ EachOK'
  BY <1>1, <1>2 DEF Opened, FlagsAgree, EachOK, Sound, Submitted, Matches, Opening, Unaltered,
                    Asking, Held
<1>8. op.altered = 0 => /\ op.verified \subseteq Signer /\ Cardinality(op.verified) >= Threshold
                        /\ Cardinality(op.entries) >= Threshold
  <2>1. op.verified \in SUBSET op.entries /\ op.entries \in SUBSET Address
    BY <1>1 DEF Operation
  <2>2. /\ Cardinality(op.verified) <= Cardinality(op.entries) /\ Threshold \in Nat
        /\ Cardinality(op.verified) \in Nat /\ Cardinality(op.entries) \in Nat
    BY <2>1, Larger
  <2> QED
    BY <1>1, <1>2, <2>1, <2>2 DEF Opening, Unaltered
<1>9. HoldsEnough'
  BY <1>1, <1>2, <1>8 DEF HoldsEnough, TypeOK
<1>10. BroadcastIsAuthorised'
  <2>1. /\ envelope.carried = op.verified /\ envelope.asked = op.threshold
        /\ envelope.foreign = (op.altered > 0)
    OBVIOUS
  <2> QED
    <3>1. Cardinality(envelope.carried) >= envelope.asked /\ envelope.asked >= 1
      BY <1>1, <1>2, <2>1
    <3>2. ~envelope.foreign =>
            envelope.carried \subseteq Signer /\ Cardinality(envelope.carried) >= Threshold
      <4>1. ~envelope.foreign => ~(op.altered > 0)
        BY <2>1, Zenon
      <4>2. ~envelope.foreign => op.altered = 0
        BY <1>3, <4>1
      <4> QED
        BY <1>8, <2>1, <4>2
    <3> QED
      BY <1>2, <3>1, <3>2 DEF BroadcastIsAuthorised
<1> QED
  BY <1>6, <1>7, <1>9, <1>10

\* A call that is over holds nothing.
LEMMA SettleSound ==
  ASSUME IInv, NEW k \in Call, Settle(k)
  PROVE  /\ pc' \in [Call -> {"idle", "sending", "done"}]
         /\ holds' \in [Call -> Client \cup {None}]
         /\ tries' \in [Call -> 0..MaxTries]
         /\ \A q \in Call : holds'[q] = holds[q] \/ holds'[q] = None
<1>1. 0 \in 0..MaxTries
  BY MultiSigAssumption
<1> QED
  BY <1>1 DEF Settle, IInv, TypeOK

\* A confirmed call marks the copy it was called on, unless that has been replaced.
\* The copy has enough entries, and the transaction has landed.
LEMMA ConfirmedInv == ASSUME IInv, NEW k \in Call, Confirmed(k) PROVE IInv'
<1> USE NoneAssumption DEF Confirmed
<1>1. /\ pc' \in [Call -> {"idle", "sending", "done"}]
      /\ holds' \in [Call -> Client \cup {None}]
      /\ tries' \in [Call -> 0..MaxTries]
      /\ \A q \in Call : holds'[q] = holds[q] \/ holds'[q] = None
  BY SettleSound
<1>2. BroadcastIsAuthorised'
  BY DEF IInv, BroadcastIsAuthorised
<1>3. CASE holds[k] \notin Client
  <2>1. copy' = copy
    BY <1>3
  <2>2. Opened' /\ FlagsAgree' /\ HoldsEnough' /\ EachOK'
    BY <1>1, <2>1, NothingHeld
  <2>3. TypeOK'
    BY <1>1, <2>1 DEF IInv, TypeOK
  <2> QED
    BY <1>2, <2>2, <2>3 DEF IInv
<1>4. CASE holds[k] \in Client
  <2> PICK c \in Client : c = holds[k]
    BY <1>4
  <2> PICK new : new = markTerminal(copy[c], "submitted")
    OBVIOUS
  <2>1. /\ copy[c] \in Operation /\ copy[c] # None /\ Matches(copy[c]) /\ Opening(copy[c])
        /\ copy[c].verified = copy[c].entries \cap copy[c].genuine
        /\ copy[c].altered = 0 => Cardinality(copy[c].entries) >= Threshold
    BY <1>4 DEF IInv, TypeOK, FlagsAgree, EachOK, Sound, Held, HoldsEnough
  <2>2. /\ new \in Operation /\ new.verified = new.entries \cap new.genuine
        /\ new.entries = copy[c].entries /\ new.threshold = copy[c].threshold
        /\ new.altered = copy[c].altered /\ Sound(new)
    BY <2>1, MarkTerminalSound
  <2>3. copy' = [copy EXCEPT ![c] = new]
    BY <1>4
  <2>4. /\ copy' \in [Client -> Operation \cup {None}]
        /\ FlagsAgree' /\ EachOK' /\ Opened' /\ HoldsEnough'
    BY <1>1, <2>1, <2>2, <2>3, MarkedInv
  <2>5. TypeOK'
    BY <1>1, <2>4 DEF IInv, TypeOK
  <2> QED
    BY <1>2, <2>4, <2>5 DEF IInv
<1> QED
  BY <1>3, <1>4

\* A call that fails changes no copy.
LEMMA FailedInv ==
  ASSUME IInv, NEW k \in Call, Settle(k), UNCHANGED <<copy, store, now, expiresAt, posted, landed>>
  PROVE  IInv'
<1>1. /\ pc' \in [Call -> {"idle", "sending", "done"}]
      /\ holds' \in [Call -> Client \cup {None}]
      /\ tries' \in [Call -> 0..MaxTries]
      /\ \A q \in Call : holds'[q] = holds[q] \/ holds'[q] = None
  BY SettleSound
<1>2. TypeOK' /\ BroadcastIsAuthorised'
  BY <1>1 DEF IInv, TypeOK, BroadcastIsAuthorised
<1>3. Opened' /\ FlagsAgree' /\ HoldsEnough' /\ EachOK'
  BY <1>1, NothingHeld
<1> QED
  BY <1>2, <1>3 DEF IInv

\* Another POST carries the same envelope; a call that gives up is over.
LEMMA UnansweredInv == ASSUME IInv, NEW k \in Call, Unanswered(k) PROVE IInv'
<1> USE MultiSigAssumption
<1>1. CASE tries[k] < MaxTries
  <2>1. tries[k] \in 0..MaxTries /\ tries[k] # MaxTries
    BY <1>1 DEF IInv, TypeOK
  <2>2. /\ tries' = [tries EXCEPT ![k] = tries[k] + 1]
        /\ UNCHANGED <<copy, store, now, expiresAt, pc, holds, posted, landed>>
    BY <2>1 DEF Unanswered
  <2>3. tries[k] + 1 \in 0..MaxTries
    BY <2>1, <1>1
  <2>4. TypeOK' /\ BroadcastIsAuthorised'
    BY <2>2, <2>3 DEF IInv, TypeOK, BroadcastIsAuthorised
  <2>5. Opened' /\ FlagsAgree' /\ HoldsEnough' /\ EachOK'
    BY <2>2, NothingHeld
  <2> QED
    BY <2>4, <2>5 DEF IInv
<1>2. CASE ~(tries[k] < MaxTries)
  BY <1>2, FailedInv DEF Unanswered
<1> QED
  BY <1>1, <1>2

\* Horizon and the clock change no copy.
LEMMA EnvironmentInv ==
  ASSUME IInv, Tick \/ \E envelope \in posted : Land(envelope) PROVE IInv'
<1> USE MultiSigAssumption DEF IInv, Tick, Land, calls
<1>1. now' \in 0..MaxTime /\ landed' \in BOOLEAN /\ (landed => landed')
  <2>1. CASE Tick
    BY <2>1 DEF TypeOK
  <2>2. CASE \E envelope \in posted : Land(envelope)
    BY <2>2 DEF TypeOK
  <2> QED
    BY <2>1, <2>2
<1>2. TypeOK'
  BY <1>1 DEF TypeOK
<1>3. Opened' /\ FlagsAgree' /\ HoldsEnough' /\ BroadcastIsAuthorised'
  BY DEF Opened, FlagsAgree, HoldsEnough, BroadcastIsAuthorised, Held
<1>4. EachOK'
  BY <1>1 DEF EachOK, Sound, Submitted, Matches, Opening, Unaltered, Asking, Held
<1> QED
  BY <1>2, <1>3, <1>4

\* Every step of the specification preserves the invariant.
LEMMA NextInv == ASSUME IInv, [Next]_vars PROVE IInv'
<1>1. CASE \E c \in Client, deadline \in Deadlines : initMultiSigOperation(c, deadline)
  BY <1>1, InitOperationInv
<1>2. CASE \E c \in Client, s \in Address : addSignature(c, s)
  BY <1>2, AddSignatureInv
<1>3. CASE \E c \in Client : Expire(c)
  BY <1>3, ExpireInv
<1>4. CASE \E c \in Client : prune(c)
  BY <1>4, PruneInv
<1>5. CASE \E c \in Client : exportState(c)
  BY <1>5, ExportInv
<1>6. CASE \E c \in Client : importState(c)
  BY <1>6, ImportInv
<1>7. CASE \E c \in Client, k \in Call : submitWhenReady(k, c)
  BY <1>7, SubmitInv
<1>8. CASE \E k \in Call : Confirmed(k)
  BY <1>8, ConfirmedInv
<1>9. CASE \E k \in Call : Rejected(k)
  BY <1>9, FailedInv DEF Rejected
<1>10. CASE \E k \in Call : Unanswered(k)
  BY <1>10, UnansweredInv
<1>11. CASE \E s \in Address : Damage(s)
  BY <1>11, DamageInv
<1>12. CASE Alter
  BY <1>12, AlterInv
<1>13. CASE Tick \/ \E envelope \in posted : Land(envelope)
  BY <1>13, EnvironmentInv
<1>14. CASE UNCHANGED vars
  BY <1>14 DEF vars, calls, IInv, TypeOK, Opened, FlagsAgree, HoldsEnough,
               BroadcastIsAuthorised, EachOK, Sound, Submitted, Matches, Opening, Unaltered,
               Asking, Held
<1> QED
  BY <1>1, <1>2, <1>3, <1>4, <1>5, <1>6, <1>7, <1>8, <1>9, <1>10, <1>11, <1>12, <1>13, <1>14
     DEF Next

\* The invariant holds in every state of every behaviour.
LEMMA InductiveInv == Spec => []IInv
<1>1. Init => IInv
  BY InitInv
<1>2. IInv /\ [Next]_vars => IInv'
  BY NextInv
<1> QED
  BY <1>1, <1>2, PTL DEF Spec

\* Every state is well typed; in particular no call posts more often than its
\* retry budget says.
THEOREM TypeCorrect == Spec => []TypeOK
<1>1. IInv => TypeOK
  BY DEF IInv
<1> QED
  BY <1>1, InductiveInv, PTL

\* M-of-N among clients that hand over what they exported: whatever was collected where,
\* handed over, damaged or overwritten, what reaches Horizon carries verified signatures
\* of at least Threshold of the signers. Verified means: of the transaction or of a fee
\* bump of it. From an altered snapshot, what is posted carries as many verified
\* signatures, of whomever, as that snapshot asks for.
THEOREM Authorised == Spec => []BroadcastIsAuthorised
<1>1. IInv => BroadcastIsAuthorised
  BY DEF IInv
<1> QED
  BY <1>1, InductiveInv, PTL

\* No client and no snapshot, unless altered, claims a submission that did not happen.
THEOREM SubmittedTrue == Spec => []SubmittedMeansLanded
<1>1. IInv => SubmittedMeansLanded
  BY EachOKProperties DEF IInv
<1> QED
  BY <1>1, InductiveInv, PTL

\* The status of every copy and snapshot, unless altered, agrees with its signatures.
THEOREM StatusTrue == Spec => []StatusMatchesSignatures
<1>1. IInv => StatusMatchesSignatures
  BY EachOKProperties DEF IInv
<1> QED
  BY <1>1, InductiveInv, PTL
=============================================================================
