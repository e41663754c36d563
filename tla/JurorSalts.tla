----------------------------- MODULE JurorSalts -----------------------------
(***************************************************************************)
(* The salts a JurorClient of juror/client.ts keeps for the reveal of its  *)
(* commitments: a Map in the order of insertion, of at most maxStoredSalts *)
(* entries that live for saltTtlMs. Of the order the model keeps what was  *)
(* inserted after what.                                                    *)
(*                                                                         *)
(* A commitment stands for the vote and the salt it was computed from. The *)
(* caller gives the salt: the call that leaves it out ends in a            *)
(* ReferenceError before anything is stored, as the file never imports     *)
(* randomBytes. vote and submitReveal keep no state.                       *)
(***************************************************************************)
EXTENDS Naturals, FiniteSets

CONSTANTS
  Commitment,      \* what is committed to
  MaxStoredSalts,  \* 0 for no maximum
  SaltTtl,         \* 0 for none
  MaxClock         \* bound: how far the clock runs

ASSUME SaltsAssumption ==
  MaxStoredSalts \in Nat /\ SaltTtl \in Nat /\ MaxClock \in Nat /\ IsFiniteSet(Commitment)

VARIABLES
  clock,
  storedSalts,  \* the keys of the Map,
  since,        \* and its order: of each, those inserted since it was inserted
  expiresAt,    \* of each commitment, as of its last commit
  wanted        \* ghost: those committed to, and not removed since

saltVars == <<clock, storedSalts, since, expiresAt, wanted>>

SaltsTypeOK == /\ clock \in 0 .. MaxClock
               /\ storedSalts \in SUBSET Commitment
               /\ expiresAt \in [Commitment -> 0 .. MaxClock + SaltTtl]
               /\ wanted \in SUBSET Commitment
               /\ since \in [Commitment -> SUBSET Commitment]

SaltsInit == /\ clock = 0 /\ storedSalts = {} /\ wanted = {}
             /\ expiresAt = [c \in Commitment |-> 0] /\ since = [c \in Commitment |-> {}]

Expired(c) == SaltTtl > 0 /\ expiresAt[c] <= clock

\* createVoteCommitment drops what has expired,
Unexpired == {c \in storedSalts : ~Expired(c)}

\* then the oldest if there is no room for a new one,
Oldest(S) == CHOOSE o \in S : S \subseteq since[o] \cup {o}

Evict(S, c) == IF MaxStoredSalts > 0 /\ Cardinality(S) >= MaxStoredSalts /\ c \notin S
               THEN S \ {Oldest(S)} ELSE S

\* and stores the salt: a key that is there keeps its place in the Map.
Commit(c) ==
  LET left == Evict(Unexpired, c)
      isNew == c \notin left
  IN /\ storedSalts' = left \cup {c}
     /\ expiresAt' = [expiresAt EXCEPT ![c] = clock + SaltTtl]
     /\ wanted' = wanted \cup {c}
     /\ since' = [d \in Commitment |-> IF ~isNew THEN since[d]
                                       ELSE IF d = c THEN {} ELSE since[d] \cup {c}]
     /\ UNCHANGED clock

\* getStoredSalt drops an entry that has expired.
Read(c) == /\ c \in storedSalts /\ Expired(c)
           /\ storedSalts' = storedSalts \ {c}
           /\ UNCHANGED <<clock, expiresAt, wanted, since>>

\* removeStoredSalt
RemoveSalt(c) == /\ storedSalts' = storedSalts \ {c} /\ wanted' = wanted \ {c}
                 /\ UNCHANGED <<clock, expiresAt, since>>

\* clearStoredSalts
ClearSalts == /\ storedSalts' = {} /\ wanted' = {} /\ UNCHANGED <<clock, expiresAt, since>>

Pass == clock < MaxClock /\ clock' = clock + 1 /\ UNCHANGED <<storedSalts, expiresAt, wanted, since>>

SaltsNext == (\E c \in Commitment : Commit(c) \/ Read(c) \/ RemoveSalt(c)) \/ ClearSalts \/ Pass

SaltsSpec == SaltsInit /\ [][SaltsNext]_saltVars

-----------------------------------------------------------------------------
\* There are never more salts than the maximum, and a juror's salt is there until it
\* expires or is removed, unless as many others as there is room for came after it
\* (types/juror.ts: the oldest entry is evicted).
SaltsAreKept ==
  /\ MaxStoredSalts > 0 => Cardinality(storedSalts) <= MaxStoredSalts
  /\ \A c \in wanted \ storedSalts :
       Expired(c) \/ (MaxStoredSalts > 0 /\ Cardinality(since[c]) >= MaxStoredSalts)

=============================================================================
