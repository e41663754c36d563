---------------------------- MODULE RequestDedup ----------------------------
(***************************************************************************)
(* utils/dedup.ts: the calls of one key of a RequestDeduplicator. Each     *)
(* call is made once: it is answered from the cache, follows the request   *)
(* that is in flight, or makes a request of its own, which is named after  *)
(* it.                                                                     *)
(***************************************************************************)
EXTENDS Calls

VARIABLES
  inFlight,     \* the request whose promise is shared, None without one
  resolved,     \* the request whose result is cached, None without one,
  expired,      \* and whether its ttl has passed
  request,      \* request[c]: what call c asked for, and how its own request went
  follows,      \* follows[c]: the request whose outcome call c was given, None before
  obsolete,     \* history: the calls that were made before the last clear,
  crossed,      \* and whether a request was open when clear was called
  poisoned      \* history: a factory threw before it returned a promise

dedupVars == <<inFlight, resolved, expired, request, follows, obsolete, crossed, poisoned>>

DedupTypeOK ==
  /\ inFlight \in Call \cup {None} /\ resolved \in Call \cup {None} /\ expired \in BOOLEAN
  /\ request \in [Call -> {"none", "open", "opencached", "settled"}]
  /\ follows \in [Call -> Call \cup {None}]
  /\ obsolete \subseteq Call /\ crossed \in BOOLEAN /\ poisoned \in BOOLEAN

DedupInit ==
  /\ inFlight = None /\ resolved = None /\ expired = FALSE
  /\ request = [c \in Call |-> "none"] /\ follows = [c \in Call |-> None]
  /\ obsolete = {} /\ crossed = FALSE /\ poisoned = FALSE

Flying == {c \in Call : request[c] \in {"open", "opencached"}}

-----------------------------------------------------------------------------
\* deduplicate with or without skipCache and ttlMs. A cached result that has expired is
\* dropped, unless the call skips the cache.
Cached(skip) == ~skip /\ resolved # None /\ ~expired

Looked(skip) == IF ~skip /\ expired THEN resolved' = None /\ expired' = FALSE
                ELSE UNCHANGED <<resolved, expired>>

AnswerFromCache(c) ==
  /\ follows[c] = None /\ Cached(FALSE)
  /\ follows' = [follows EXCEPT ![c] = resolved]
  /\ UNCHANGED <<inFlight, resolved, expired, request, obsolete, crossed, poisoned>>

Follow(c, skip) ==
  /\ follows[c] = None /\ ~Cached(skip) /\ Looked(skip) /\ inFlight # None
  /\ follows' = [follows EXCEPT ![c] = inFlight]
  /\ UNCHANGED <<inFlight, request, obsolete, crossed, poisoned>>

Request(c, skip, ttl) ==
  /\ follows[c] = None /\ ~Cached(skip) /\ Looked(skip) /\ inFlight = None
  /\ follows' = [follows EXCEPT ![c] = c] /\ inFlight' = c
  /\ request' = [request EXCEPT ![c] = IF ttl THEN "opencached" ELSE "open"]
  /\ UNCHANGED <<obsolete, crossed, poisoned>>

\* The factory throws at once: the finally runs before the promise is stored, which
\* nobody removes any more.
RequestThrows(c, skip) ==
  /\ follows[c] = None /\ ~Cached(skip) /\ Looked(skip) /\ inFlight = None
  /\ follows' = [follows EXCEPT ![c] = c] /\ inFlight' = c
  /\ request' = [request EXCEPT ![c] = "settled"] /\ poisoned' = TRUE
  /\ UNCHANGED <<obsolete, crossed>>

\* Faulty: the slot is given up only for a result.
SettleKeepsSlot(c, ok) ==
  /\ c \in Flying /\ request' = [request EXCEPT ![c] = "settled"]
  /\ IF ok THEN inFlight' = None ELSE UNCHANGED inFlight
  /\ IF ok /\ request[c] = "opencached" THEN resolved' = c /\ expired' = FALSE
     ELSE UNCHANGED <<resolved, expired>>
  /\ UNCHANGED <<follows, obsolete, crossed, poisoned>>

\* The request of call c settles: a result is cached if a ttl was given, and the slot of
\* the key is emptied, whoever has it by now.
Settle(c, ok) ==
  /\ c \in Flying /\ request' = [request EXCEPT ![c] = "settled"] /\ inFlight' = None
  /\ IF ok /\ request[c] = "opencached" THEN resolved' = c /\ expired' = FALSE
     ELSE UNCHANGED <<resolved, expired>>
  /\ UNCHANGED <<follows, obsolete, crossed, poisoned>>

Expire == /\ resolved # None /\ ~expired /\ expired' = TRUE
          /\ UNCHANGED <<inFlight, resolved, request, follows, obsolete, crossed, poisoned>>

\* clear: requests go on that nobody can share any more.
Clear == /\ inFlight' = None /\ resolved' = None /\ expired' = FALSE
         /\ obsolete' = {c \in Call : follows[c] # None} /\ crossed' = (Flying # {})
         /\ poisoned' = FALSE
         /\ UNCHANGED <<request, follows>>

-----------------------------------------------------------------------------
DedupNext ==
  \/ Expire \/ Clear
  \/ \E c \in Call : AnswerFromCache(c)
  \/ \E c \in Call, skip \in BOOLEAN : Follow(c, skip) \/ RequestThrows(c, skip)
  \/ \E c \in Call, skip \in BOOLEAN, ttl \in BOOLEAN : Request(c, skip, ttl)
  \/ \E c \in Call, ok \in BOOLEAN : Settle(c, ok)

DedupSpec == DedupInit /\ [][DedupNext]_dedupVars

-----------------------------------------------------------------------------
\* The key has at most one request open, which every call meanwhile shares; the slot is
\* taken only by that request (or by the promise of a factory that threw at once); and a
\* result from before the last clear is not in the cache. A request that is open when
\* clear is called can break all three: it empties a slot that is not its own, and
\* fills the cache, when it settles.
RequestsAreShared ==
  ~crossed => /\ Flying \subseteq {inFlight}
              /\ inFlight \in Flying \cup {None} \/ poisoned
              /\ resolved \notin obsolete

=============================================================================
