---------------------------- MODULE RpcEndpoints ----------------------------
(***************************************************************************)
(* The NetworkManager of stellar/network.ts: RPC endpoints, of which the   *)
(* healthy ones are handed out in turn, and the health checks, an interval *)
(* that asks every endpoint whether or not the check before has ended. The *)
(* application reports what it meets, too.                                 *)
(*                                                                         *)
(* Endpoints are numbered in the order of the Map, which destroy empties.  *)
(* Of consecutiveFailures only what is below the threshold is told apart,  *)
(* and currentIndex is kept modulo Turns: both matter no further.          *)
(***************************************************************************)
EXTENDS Positions, Integers

CONSTANTS Endpoints,   \* how many
          Turns,       \* a common multiple of how many endpoints may be healthy
          MaxInFlight, \* bound: checks of one endpoint at a time
          MaxReports,  \* bound: reports of the application
          MaxOutages   \* bound: changes of the endpoints themselves

Endpoint == 1 .. Endpoints

ASSUME EndpointsAssumption ==
  /\ Endpoints \in Nat \ {0} /\ Turns \in Nat \ {0} /\ \A n \in Endpoint : Turns % n = 0
  /\ MaxInFlight \in Nat /\ MaxReports \in Nat /\ MaxOutages \in Nat

VARIABLES
  healthy,             \* the endpoints of the Map that count as healthy
  consecutiveFailures, \* of each
  currentIndex,
  healthCheckTimer,    \* the interval is set
  destroyed,           \* the Map is empty
  asked, found, missed, \* of each: checks without an answer, that succeeded, that failed
  serving,             \* the endpoints that answer in time
  outages, reports     \* counted for their bounds

endpointVars == <<healthy, consecutiveFailures, currentIndex, healthCheckTimer, destroyed, asked,
                  found, missed, serving, outages, reports>>

failureThreshold == 3

EndpointsTypeOK ==
  /\ healthy \subseteq Endpoint /\ serving \subseteq Endpoint
  /\ consecutiveFailures \in [Endpoint -> 0 .. failureThreshold]
  /\ currentIndex \in 0 .. Turns - 1 /\ healthCheckTimer \in BOOLEAN /\ destroyed \in BOOLEAN
  /\ {asked, found, missed} \subseteq [Endpoint -> 0 .. MaxInFlight]
  /\ outages \in 0 .. MaxOutages /\ reports \in 0 .. MaxReports

Zero == [e \in Endpoint |-> 0]

EndpointsInit ==
  /\ healthy = Endpoint /\ consecutiveFailures = Zero /\ currentIndex = 0
  /\ healthCheckTimer = FALSE /\ destroyed = FALSE
  /\ asked = Zero /\ found = Zero /\ missed = Zero
  /\ serving \in SUBSET Endpoint /\ outages = 0 /\ reports = 0

Bumped(counts, e, n) == [counts EXCEPT ![e] = @ + n]

-----------------------------------------------------------------------------
\* getCurrentRpcUrl when the index is i. With no healthy endpoint it is the first one.
RpcUrlAt(i) == IF healthy = {} THEN 1 ELSE Nth(healthy, (i % Cardinality(healthy)) + 1)

\* The index moves on, if it was used; of an empty Map there is no first one (TypeError).
getCurrentRpcUrl ==
  /\ healthy # {} /\ currentIndex' = (currentIndex + 1) % Turns
  /\ UNCHANGED <<healthy, consecutiveFailures, healthCheckTimer, destroyed, asked, found, missed,
                 serving, outages, reports>>

\* reportSuccess and reportFailure ignore what is not in the Map.
reportSuccess(e) ==
  IF destroyed THEN UNCHANGED <<healthy, consecutiveFailures>>
  ELSE /\ consecutiveFailures' = [consecutiveFailures EXCEPT ![e] = 0]
       /\ healthy' = healthy \cup {e}

reportFailure(e) ==
  IF destroyed THEN UNCHANGED <<healthy, consecutiveFailures>>
  ELSE /\ consecutiveFailures' = [consecutiveFailures EXCEPT ![e] =
                                    IF @ < failureThreshold THEN @ + 1 ELSE @]
       /\ healthy' = IF consecutiveFailures'[e] = failureThreshold THEN healthy \ {e} ELSE healthy

\* The application reports a success or a failure of its own.
Reported(e) ==
  /\ reports < MaxReports /\ reports' = reports + 1
  /\ reportSuccess(e) \/ reportFailure(e)
  /\ UNCHANGED <<currentIndex, healthCheckTimer, destroyed, asked, found, missed, serving, outages>>

\* performHealthCheck: every endpoint of the Map is asked.
performHealthCheck ==
  IF destroyed THEN UNCHANGED asked
  ELSE /\ \A e \in Endpoint : asked[e] + found[e] + missed[e] < MaxInFlight
       /\ asked' = [e \in Endpoint |-> asked[e] + 1]

startHealthChecks ==
  /\ ~healthCheckTimer /\ healthCheckTimer' = TRUE /\ performHealthCheck
  /\ UNCHANGED <<healthy, consecutiveFailures, currentIndex, destroyed, found, missed, serving,
                 outages, reports>>

HealthCheckTicks ==
  /\ healthCheckTimer /\ performHealthCheck
  /\ UNCHANGED <<healthy, consecutiveFailures, currentIndex, healthCheckTimer, destroyed, found,
                 missed, serving, outages, reports>>

\* Checks in flight go on.
stopHealthChecks ==
  /\ healthCheckTimer /\ healthCheckTimer' = FALSE
  /\ UNCHANGED <<healthy, consecutiveFailures, currentIndex, destroyed, asked, found, missed,
                 serving, outages, reports>>

destroyEndpoints ==
  /\ ~destroyed /\ destroyed' = TRUE /\ healthCheckTimer' = FALSE
  /\ healthy' = {} /\ consecutiveFailures' = Zero
  /\ UNCHANGED <<currentIndex, asked, found, missed, serving, outages, reports>>

\* A check is decided: an endpoint that serves answers; one that does not answers with an
\* error, cannot be reached or is given up after the deadline.
CheckSettles(e) ==
  /\ asked[e] > 0 /\ asked' = Bumped(asked, e, -1)
  /\ IF e \in serving THEN found' = Bumped(found, e, 1) /\ UNCHANGED missed
     ELSE missed' = Bumped(missed, e, 1) /\ UNCHANGED found
  /\ UNCHANGED <<healthy, consecutiveFailures, currentIndex, healthCheckTimer, destroyed, serving,
                 outages, reports>>

\* What a check met is reported, the answers in whatever order they come.
CheckFailed(e) ==
  /\ missed[e] > 0 /\ missed' = Bumped(missed, e, -1) /\ reportFailure(e)
  /\ UNCHANGED <<currentIndex, healthCheckTimer, destroyed, asked, found, serving, outages, reports>>

CheckSucceeded(e) ==
  /\ found[e] > 0 /\ found' = Bumped(found, e, -1) /\ reportSuccess(e)
  /\ UNCHANGED <<currentIndex, healthCheckTimer, destroyed, asked, missed, serving, outages, reports>>

\* An endpoint goes down or comes back.
Outage(e) ==
  /\ outages < MaxOutages /\ outages' = outages + 1
  /\ serving' = (serving \ {e}) \cup ({e} \ serving)
  /\ UNCHANGED <<healthy, consecutiveFailures, currentIndex, healthCheckTimer, destroyed, asked,
                 found, missed, reports>>

Checked(e) == CheckSettles(e) \/ CheckFailed(e) \/ CheckSucceeded(e)

EndpointsNext ==
  \/ getCurrentRpcUrl \/ startHealthChecks \/ HealthCheckTicks \/ stopHealthChecks \/ destroyEndpoints
  \/ \E e \in Endpoint : Reported(e) \/ Checked(e) \/ Outage(e)

\* The interval ticks, fetch settles by its deadline, and what it met is reported.
EndpointsFairness ==
  WF_endpointVars(HealthCheckTicks) /\ \A e \in Endpoint : WF_endpointVars(Checked(e))

EndpointsSpec == EndpointsInit /\ [][EndpointsNext]_endpointVars /\ EndpointsFairness

-----------------------------------------------------------------------------
\* The healthy endpoints are handed out in turn: as long as they stay the same, the next
\* choices are each of them once, however the index got where it is. And no late answer of a
\* check brings an endpoint back into a manager that was destroyed.
TurnsAreTaken ==
  LET n == Cardinality(healthy) IN
  /\ destroyed => healthy = {}
  /\ healthy # {} => {RpcUrlAt((currentIndex + k) % Turns) : k \in 0 .. n - 1} = healthy

\* Once the checks stay on and the endpoints themselves stay as they are, those that answer
\* are in the end the healthy ones, whatever late answers and the application said before.
EndpointsAreJudged == <>[](healthCheckTimer /\ ~destroyed) => <>[](healthy = serving)

=============================================================================
