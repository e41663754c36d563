------------------------------ MODULE Gateways ------------------------------
(***************************************************************************)
(* resolve of storage/ipfs.ts: the gateways are asked one after the other  *)
(* until one serves JSON. The caller may abort at any time; an answer that *)
(* has arrived by then is still looked at.                                 *)
(***************************************************************************)
EXTENDS Calls, Positions, Sequences

CONSTANTS Gateway,
          MaxGateways \* bound: the length of a list that is configured

ASSUME GatewaysAssumption == MaxGateways \in Nat /\ None \notin Nat

GatewayLists == UNION {[1 .. n -> Gateway] : n \in 0 .. MaxGateways}

\* IPFSConfig: gatewayUrl, fallbackGateways, gateways.
Config == [primary : Gateway, fallbacks : GatewayLists, gateways : GatewayLists]

VARIABLES config,    \* the configuration
          resolving, \* between, waiting, resolved, failed, cancelled, refused
          replies,   \* what the gateways asked so far answered
          abortAfter \* abortSignal: None, or how many gateways had been asked when it fired

gatewayVars == <<config, resolving, replies, abortAfter>>

Reply == {"json", "html", "empty", "null", "invalid", "error"}

\* The constructor: an explicit list, or the primary and the others after it.
Others == {i \in DOMAIN config.fallbacks : config.fallbacks[i] # config.primary}

gateways == IF config.gateways # <<>> THEN config.gateways
            ELSE <<config.primary>> \o [n \in 1 .. Cardinality(Others) |-> config.fallbacks[Nth(Others, n)]]

Asked == Len(replies) + IF resolving = "waiting" THEN 1 ELSE 0

GatewayTypeOK ==
  /\ config \in Config /\ replies \in Seq(Reply)
  /\ resolving \in {"between", "waiting", "resolved", "failed", "cancelled", "refused"}
  /\ abortAfter \in {None} \cup 0 .. MaxGateways + 1

\* resolve is called; an invalid CID is refused before any gateway is asked.
GatewayInit == /\ config \in Config /\ resolving \in {"between", "refused"}
               /\ replies = <<>> /\ abortAfter = None

-----------------------------------------------------------------------------
Abort == /\ abortAfter = None /\ abortAfter' = Asked
         /\ resolving = "waiting" \/ (resolving = "between" /\ replies = <<>>)
         /\ UNCHANGED <<config, resolving, replies>>

\* The next gateway; axios rejects at once when the signal has fired.
AskNext ==
  /\ resolving = "between" /\ Len(replies) < Len(gateways)
  /\ resolving' = IF abortAfter = None THEN "waiting" ELSE "cancelled"
  /\ UNCHANGED <<config, replies, abortAfter>>

\* "Re-throw abort errors immediately": any error once the signal has fired.
Cancelled == /\ resolving = "waiting" /\ abortAfter # None /\ resolving' = "cancelled"
             /\ UNCHANGED <<config, replies, abortAfter>>

GatewayAnswers(reply) ==
  /\ resolving = "waiting" /\ (reply = "error" => abortAfter = None)
  /\ replies' = Append(replies, reply)
  /\ resolving' = IF reply = "json" THEN "resolved" ELSE "between"
  /\ UNCHANGED <<config, abortAfter>>

AllFailed == /\ resolving = "between" /\ Len(replies) = Len(gateways) /\ resolving' = "failed"
             /\ UNCHANGED <<config, replies, abortAfter>>

GatewayNext == Abort \/ AskNext \/ Cancelled \/ AllFailed \/ \E reply \in Reply : GatewayAnswers(reply)

GatewaySpec == GatewayInit /\ [][GatewayNext]_gatewayVars

-----------------------------------------------------------------------------
\* A document is the first one that was served; the failure is reported when every gateway
\* was asked, none of them twice for being the primary and a fallback; and after an abort
\* nobody else is asked, and the error it causes is not taken for the gateway's.
GatewaysInOrder ==
  /\ \A i \in DOMAIN replies : replies[i] = "json" <=> (i = Len(replies) /\ resolving = "resolved")
  /\ resolving = "failed" =>
       Len(replies) = Len(gateways) /\ (config.gateways = <<>> => config.primary = gateways[1])
  /\ config.gateways = <<>> => \A i \in DOMAIN gateways : gateways[i] = config.primary => i = 1
  /\ abortAfter # None =>
       Asked <= abortAfter /\ (abortAfter \in DOMAIN replies => replies[abortAfter] # "error")

=============================================================================
