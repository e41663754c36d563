--------------------------- MODULE CircuitBreaker ---------------------------
(***************************************************************************)
(* utils/circuit-breaker.ts: one breaker and the calls made through it.    *)
(* Of the time of the next attempt only whether it has come matters. A     *)
(* callback of the configuration that throws is an outcome here, because   *)
(* it is called inside of the try block of execute. A call that has        *)
(* answered may be made again.                                             *)
(***************************************************************************)
EXTENDS Naturals, Calls

CONSTANTS FailureThreshold, SuccessThreshold,
          MaxCount \* bound: how far failures, and successes of throwing callbacks, are counted

ASSUME BreakerAssumption == /\ FailureThreshold \in Nat \ {0} /\ SuccessThreshold \in Nat \ {0}
                            /\ MaxCount \in Nat

VARIABLES
  state,        \* CLOSED, OPEN or HALF_OPEN
  failureCount, successCount,
  due,          \* nextRetryTime is set and has come
  running,      \* the calls of execute that were admitted and have not answered
  failures,     \* history: the failures since the last success, or since a reset
  probes,       \* history: the successes seen half open since the breaker was closed last
  thrown        \* history: a callback threw while a success closed the breaker, which left
                \* successCount as it was

breakerVars == <<state, failureCount, successCount, due, running, failures, probes, thrown>>

BreakerTypeOK ==
  /\ state \in {"CLOSED", "OPEN", "HALF_OPEN"}
  /\ failureCount \in Nat /\ successCount \in Nat /\ due \in BOOLEAN
  /\ running \subseteq Call
  /\ failures \in Nat /\ probes \in Nat /\ thrown \in BOOLEAN

BreakerInit ==
  /\ state = "CLOSED" /\ failureCount = 0 /\ successCount = 0 /\ due = FALSE
  /\ running = {} /\ failures = 0 /\ probes = 0 /\ thrown = FALSE

-----------------------------------------------------------------------------
\* resetTimeoutMs after the breaker opened.
Elapse == /\ state = "OPEN" /\ ~due /\ due' = TRUE
          /\ UNCHANGED <<state, failureCount, successCount, running, failures, probes, thrown>>

\* getState: asking is what makes an open breaker half open.
GetState == IF state = "OPEN" /\ due THEN state' = "HALF_OPEN" ELSE UNCHANGED state

\* A diagnostic look at the state, or a call whose onStateChange threw on the way.
Look == /\ GetState /\ state' # state
        /\ UNCHANGED <<failureCount, successCount, due, running, failures, probes, thrown>>

\* execute and executeSync, up to the call of fn; an open breaker fails it instead.
Execute(c) ==
  /\ c \notin running /\ GetState
  /\ running' = (IF state' = "OPEN" THEN running ELSE running \cup {c})
  /\ UNCHANGED <<failureCount, successCount, due, failures, probes, thrown>>

\* onFailure, with n failures counted before.
OnFailure(n) ==
  /\ failureCount' = n + 1
  /\ IF state = "HALF_OPEN" \/ (state = "CLOSED" /\ n + 1 >= FailureThreshold)
     THEN state' = "OPEN" /\ due' = FALSE
     ELSE UNCHANGED <<state, due>>

Fails(c) == /\ c \in running /\ running' = running \ {c} /\ failures < MaxCount
            /\ OnFailure(failureCount) /\ failures' = failures + 1
            /\ UNCHANGED <<successCount, probes, thrown>>

\* The success that closes a half open breaker.
Closing == state = "HALF_OPEN" /\ successCount + 1 >= SuccessThreshold

\* Faulty: a success is not counted against the failures before it.
SucceedsOnly(c) ==
  /\ c \in running /\ running' = running \ {c}
  /\ failures' = 0 /\ UNCHANGED failureCount
  /\ state' = (IF Closing THEN "CLOSED" ELSE state)
  /\ successCount' = (IF Closing \/ state = "CLOSED" THEN 0
                      ELSE IF state = "HALF_OPEN" THEN successCount + 1 ELSE successCount)
  /\ probes' = (IF Closing THEN 0 ELSE IF state = "HALF_OPEN" THEN probes + 1 ELSE probes)
  /\ thrown' = (thrown /\ ~Closing /\ state # "CLOSED") /\ UNCHANGED due

\* onSuccess, in whatever state the breaker is by now.
Succeeds(c) ==
  /\ c \in running /\ running' = running \ {c}
  /\ failures' = 0 /\ failureCount' = 0
  /\ state' = (IF Closing THEN "CLOSED" ELSE state)
  /\ successCount' = (IF Closing \/ state = "CLOSED" THEN 0
                      ELSE IF state = "HALF_OPEN" THEN successCount + 1 ELSE successCount)
  /\ probes' = (IF Closing THEN 0 ELSE IF state = "HALF_OPEN" THEN probes + 1 ELSE probes)
  /\ thrown' = (thrown /\ ~Closing /\ state # "CLOSED") /\ UNCHANGED due

\* onStateChange throws when a success closes the breaker: successCount is not reset,
\* and the success is also counted as a failure, of a breaker that is closed by now.
ClosingThrows(c) ==
  /\ c \in running /\ Closing /\ running' = running \ {c} /\ successCount < MaxCount
  /\ successCount' = successCount + 1 /\ failureCount' = 1 /\ failures' = 1
  /\ IF 1 >= FailureThreshold THEN state' = "OPEN" /\ due' = FALSE
     ELSE state' = "CLOSED" /\ UNCHANGED due
  /\ probes' = 0 /\ thrown' = TRUE

\* reset, and resetAll of the registry: also while calls are running.
ResetBreaker ==
  /\ state' = "CLOSED" /\ failureCount' = 0 /\ successCount' = 0 /\ due' = FALSE
  /\ failures' = 0 /\ probes' = 0 /\ thrown' = FALSE /\ UNCHANGED running

-----------------------------------------------------------------------------
BreakerNext == \/ Elapse \/ Look \/ ResetBreaker
               \/ \E c \in Call : Execute(c) \/ Succeeds(c) \/ Fails(c) \/ ClosingThrows(c)

BreakerSpec == BreakerInit /\ [][BreakerNext]_breakerVars

-----------------------------------------------------------------------------
\* A closed breaker opens for FailureThreshold failures with no success between them, and
\* a half open one for a failure; also when the answers are those of calls that were
\* admitted in another state.
OpensForFailures ==
  state # "OPEN" /\ state' = "OPEN" => state = "HALF_OPEN" \/ failures' >= FailureThreshold

\* An open breaker becomes half open when it is due, and closed only by a reset.
RecoversInTime ==
  state = "OPEN" /\ state' # "OPEN" => IF state' = "HALF_OPEN" THEN due ELSE ResetBreaker

\* A half open breaker closes after SuccessThreshold successes since it was closed last
\* (not since it became half open), unless it is reset or a callback threw when it closed before.
ClosesForSuccesses ==
  state = "HALF_OPEN" /\ state' = "CLOSED"
    => thrown \/ probes + 1 >= SuccessThreshold \/ ResetBreaker

\* The moves of the breaker.
BreakerMoves == [][OpensForFailures /\ RecoversInTime /\ ClosesForSuccesses]_breakerVars

=============================================================================
