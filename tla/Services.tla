------------------------------ MODULE Services ------------------------------
(***************************************************************************)
(* The parts of the SDK that share no state with each other or with the    *)
(* pipeline. Interleaving them adds no behaviour of any of them: only one  *)
(* is used in a behaviour, and the others stay as they begin.              *)
(***************************************************************************)
EXTENDS Hooks, CircuitBreaker, RequestDedup, ClientCalls, BalanceMonitor, ApiHttp, JurorSalts,
        EventFeed, Polling, Gateways, Retrying, PoolAgents, Fees, RpcEndpoints, EventHistory

VARIABLE part \* the part that is used; the codec is a part of module Toolkit

Part == {"hooks", "breaker", "dedup", "client", "balance", "http", "codec", "salts", "feed",
         "polling", "gateways", "retry", "pools", "fees", "endpoints", "history"}

services == <<hooksVars, breakerVars, dedupVars, clientVars, monitorVars, httpVars,
             saltVars, feedVars, pollVars, gatewayVars, retryVars, poolVars, feeVars,
             endpointVars, historyVars>>

AnyOf(S) == {CHOOSE x \in S : TRUE}

\* Only the part that is used has a choice of how it begins.
Chosen == /\ hook \in (IF part = "hooks" THEN Hook ELSE AnyOf(Hook))
          /\ network \in AnyOf(Network) \* networks are interchangeable
          /\ op \in (IF part = "http" THEN Operation ELSE AnyOf(Operation))
          /\ raw \in (IF part = "feed" THEN RawEvents ELSE AnyOf(RawEvents))
          /\ config \in (IF part = "gateways" THEN Config ELSE AnyOf(Config))
          /\ policy \in (IF part = "retry" THEN RetryPolicy ELSE AnyOf(RetryPolicy))
          /\ txFee \in (IF part = "fees" THEN Fee ELSE AnyOf(Fee))
          /\ resourceFee \in (IF part = "fees" THEN Fee ELSE AnyOf(Fee))
          /\ padding \in (IF part = "fees" THEN Multiplier ELSE AnyOf(Multiplier))
          /\ tolerance \in (IF part = "fees" THEN Multiplier ELSE AnyOf(Multiplier))
          /\ multiplier \in (IF part = "fees" THEN Raising ELSE AnyOf(Raising))
          /\ baseFee \in (IF part = "fees" THEN Fee ELSE {txFee})
          /\ serving \in (IF part = "endpoints" THEN SUBSET Endpoint ELSE AnyOf(SUBSET Endpoint))
          /\ place \in (IF part = "history" THEN Places ELSE AnyOf(Places))
          /\ issued \in (IF part = "history" THEN Position ELSE {0})
          /\ part # "gateways" => resolving = "between"

ServicesInit ==
  /\ part \in Part /\ Chosen
  /\ HooksInit /\ BreakerInit /\ DedupInit /\ ClientInit /\ MonitorInit /\ HttpInit
  /\ SaltsInit /\ FeedInit /\ PollInit /\ GatewayInit /\ RetryInit /\ PoolInit /\ FeesInit
  /\ EndpointsInit /\ HistoryInit

\* The parts other than the one that is used.
OthersRest ==
  /\ UNCHANGED part
  /\ part # "hooks"    => UNCHANGED hooksVars
  /\ part # "breaker"  => UNCHANGED breakerVars
  /\ part # "dedup"    => UNCHANGED dedupVars
  /\ part # "client"   => UNCHANGED clientVars
  /\ part # "balance"  => UNCHANGED monitorVars
  /\ part # "http"     => UNCHANGED httpVars
  /\ part # "salts"    => UNCHANGED saltVars
  /\ part # "feed"     => UNCHANGED feedVars
  /\ part # "polling"  => UNCHANGED pollVars
  /\ part # "gateways" => UNCHANGED gatewayVars
  /\ part # "retry"    => UNCHANGED retryVars
  /\ part # "pools"    => UNCHANGED poolVars
  /\ part # "fees"     => UNCHANGED feeVars
  /\ part # "endpoints" => UNCHANGED endpointVars
  /\ part # "history"  => UNCHANGED historyVars

Hooking    == part = "hooks"    /\ HooksNext   /\ OthersRest
Breaking   == part = "breaker"  /\ BreakerNext /\ OthersRest
Sharing    == part = "dedup"    /\ DedupNext   /\ OthersRest
Calling    == part = "client"   /\ ClientNext  /\ OthersRest
Monitoring == part = "balance"  /\ MonitorNext /\ OthersRest
Requesting == part = "http"     /\ HttpNext    /\ OthersRest
Voting     == part = "salts"    /\ SaltsNext   /\ OthersRest
Feeding    == part = "feed"     /\ FeedNext    /\ OthersRest
Polled     == part = "polling"  /\ PollNext    /\ OthersRest
Resolving  == part = "gateways" /\ GatewayNext /\ OthersRest
Repeating  == part = "retry"    /\ RetryNext   /\ OthersRest
Pooling    == part = "pools"    /\ PoolNext    /\ OthersRest
Bumping    == part = "fees"     /\ FeesNext    /\ OthersRest
Rotating   == part = "endpoints" /\ EndpointsNext /\ OthersRest
Walking    == part = "history"  /\ HistoryNext /\ OthersRest

ServicesNext == \/ Hooking \/ Breaking \/ Sharing \/ Calling \/ Monitoring \/ Requesting
                \/ Voting \/ Feeding \/ Polled \/ Resolving \/ Repeating \/ Pooling \/ Bumping
                \/ Rotating \/ Walking

ServicesSpec == ServicesInit /\ [][ServicesNext]_<<part, services>> /\ MonitorFairness /\ EndpointsFairness

-----------------------------------------------------------------------------
\* What is kept or fetched for a caller is what was asked for: one request for those that ask
\* together, the salt of a commitment until it may go, the events the filters describe, in
\* order and from polls that can be stopped, their history without gaps, the document of the
\* first gateway that has it, every healthy endpoint in its turn; and the sockets opened for
\* it can be closed.
CallersAreServed == /\ RequestsAreShared /\ SaltsAreKept
                    /\ FiltersAreExact /\ PollsAreOwned /\ GatewaysInOrder /\ PoolsAreTracked
                    /\ HistoryIsWhole /\ TurnsAreTaken

\* What the retries of the HTTP layer, those of the requests to a node and those at a higher
\* fee may and may not do.
RetriesAreSafe == HttpRetriesAreSafe /\ NodeRetriesAreSafe /\ FeesAreEnough

\* What watches goes on watching: the balance monitor asks again and again, and the health
\* checks find out which endpoints answer.
WatchersKeepUp == ChecksGoOn /\ EndpointsAreJudged

\* The state of every part has its type.
ServicesTypeOK ==
  /\ part \in Part
  /\ HooksTypeOK /\ BreakerTypeOK /\ DedupTypeOK /\ ClientTypeOK /\ MonitorTypeOK /\ HttpTypeOK
  /\ SaltsTypeOK /\ FeedTypeOK /\ PollTypeOK /\ GatewayTypeOK /\ RetryTypeOK /\ PoolTypeOK
  /\ FeesTypeOK /\ EndpointsTypeOK /\ HistoryTypeOK

=============================================================================
