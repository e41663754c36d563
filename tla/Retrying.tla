------------------------------ MODULE Retrying ------------------------------
(***************************************************************************)
(* utils/retry.ts, utils/node-retry.ts and utils/transient.ts: one call of *)
(* retry(), which withTransientRetry makes for every request to a node and *)
(* an application may make itself, and what classifyFailure says of its    *)
(* failures.                                                               *)
(*                                                                         *)
(* A failure is the chain of an error and its causes. Of a layer only what *)
(* the classification looks at is kept; the codes and messages of a class  *)
(* are one. A Date as Retry-After is the seconds until then, and a second  *)
(* is the unit of time.                                                    *)
(***************************************************************************)
EXTENDS Integers, Sequences, FiniteSetsExt

CONSTANTS Failures,  \* bound: the failures an attempt may end with
          RetryPolicy, \* bound: the policies that are tried
          BaseDelay, MaxDelay \* baseDelayMs and maxDelayMs

\* A layer of a failure. The status is 0 without one; the code is a transport's, of a
\* deterministic or of a passing SDK error, another one or none.
Layer == [marked : {"no", "transient", "final"}, status : Nat,
          code : {"none", "transport", "deterministic", "passing", "other"},
          message : {"plain", "passing"}, retryAfter : Int]

Absent     == -2 \* no Retry-After,
Unreadable == -1 \* or one that cannot be parsed

\* A policy: `retries` of an ApiRetryConfig; jitter in percent; and whether shouldRetry
\* is isTransientError or left out.
Policy == [retries : Int, jitter : Nat, judged : BOOLEAN]

ASSUME RetryingAssumption ==
  /\ Failures \subseteq Seq(Layer) \ {<<>>} /\ RetryPolicy \subseteq Policy
  /\ BaseDelay \in Nat /\ MaxDelay \in Nat

VARIABLES
  policy,  \* what retry() was called with
  loop,    \* where it stands
  attempt, \* the number of the attempt
  failure, \* the last failure, <<>> before the first
  delay    \* the delay before the next attempt

retryVars == <<policy, loop, attempt, failure, delay>>

DefaultAttempts == 3

\* resolveNodeRetryPolicy: what is no natural number is replaced.
Attempts(p) == IF p.retries >= 0 THEN p.retries + 1 ELSE DefaultAttempts

-----------------------------------------------------------------------------
\* chain: the layers that are looked at from the i-th on, which are no more than five.
Depth == 5

Chain(f, i) == {j \in DOMAIN f : i <= j /\ j < i + Depth}

\* readStatus and readHeader: the first layer of the chain that has one.
WithStatus(f, i) == {j \in Chain(f, i) : f[j].status # 0}
WithHeader(f)    == {j \in Chain(f, 1) : f[j].retryAfter # Absent}

StatusFrom(f, i) == IF WithStatus(f, i) = {} THEN 0 ELSE f[Min(WithStatus(f, i))].status

\* readRetryAfterMs
Hint(f) == IF WithHeader(f) = {} THEN Absent ELSE f[Min(WithHeader(f))].retryAfter

\* A status that another attempt does not change.
FinalStatus(s) == s # 0 /\ s \notin {408, 429} \cup 500 .. 599

\* A layer without a mark, a status, or a message that is known, whose code says nothing: it
\* is judged by its cause.
PassedOn(f, i) == /\ f[i].marked = "no" /\ StatusFrom(f, i) = 0 /\ f[i].message # "passing"
                  /\ f[i].code = "other" /\ i < Len(f)

Judged(f) == Min({i \in DOMAIN f : ~PassedOn(f, i)})

\* classifyFailure: a mark first, then the status of the chain, a transport's code, a
\* message that is known, the code of an SDK error. What nobody knows is a transport failure.
Verdict(f, i) == IF f[i].marked # "no" THEN f[i].marked = "transient"
                 ELSE IF StatusFrom(f, i) # 0 THEN ~FinalStatus(StatusFrom(f, i))
                 ELSE f[i].code = "deterministic" => f[i].message = "passing"

IsTransient(f) == Verdict(f, Judged(f))

\* backoffHonouringRetryAfter over cappedExponentialBackoff.
Backoff(n, f) == Min({MaxDelay, IF Hint(f) >= 0 THEN Hint(f) ELSE BaseDelay * 2 ^ (n - 1)})

\* applyJitter, rounded to the nearest: the delays it may choose from.
Jittered(d, percent) == ((d * (100 - Min({percent, 100})) + 50) \div 100) .. d

-----------------------------------------------------------------------------
RetryTypeOK ==
  /\ policy \in RetryPolicy
  /\ loop \in {"trying", "sleeping", "resolved", "rejected"}
  /\ attempt \in 1 .. Attempts(policy) /\ (failure = <<>> \/ failure \in Failures) /\ delay \in 0 .. MaxDelay

RetryInit == /\ policy \in RetryPolicy /\ loop = "trying" /\ attempt = 1 /\ failure = <<>> /\ delay = 0

Succeed == /\ loop = "trying" /\ loop' = "resolved" /\ delay' = 0
           /\ UNCHANGED <<policy, attempt, failure>>

\* An attempt that fails, or that withTimeout gives up.
Fail(f) ==
  /\ loop = "trying" /\ failure' = f
  /\ IF (policy.judged => IsTransient(f)) /\ attempt < Attempts(policy)
     THEN loop' = "sleeping" /\ delay' \in Jittered(Backoff(attempt, f), policy.jitter)
     ELSE loop' = "rejected" /\ delay' = 0
  /\ UNCHANGED <<policy, attempt>>

\* The failure is forgotten.
Again == /\ loop = "sleeping" /\ loop' = "trying" /\ attempt' = attempt + 1 /\ failure' = <<>> /\ delay' = 0
         /\ UNCHANGED policy

RetryNext == Succeed \/ (\E f \in Failures : Fail(f)) \/ Again

RetrySpec == RetryInit /\ [][RetryNext]_retryVars

-----------------------------------------------------------------------------
\* A failure that nothing says is final: no mark, status or code of its layers.
NothingFinal(f) ==
  \A i \in DOMAIN f : f[i].marked # "final" /\ ~FinalStatus(f[i].status) /\ f[i].code # "deterministic"

\* A refusal that nothing excuses: no mark, and no other status before it.
RefusedFor(f) ==
  \E i \in DOMAIN f : /\ i <= Depth /\ FinalStatus(f[i].status)
                      /\ f[1].marked = "no" /\ \A j \in 1 .. i - 1 : f[j].status = 0

\* Attempts are given up early only for a reason, and a refusal is never repeated,
\* however deep in the chain its status is, unless it is deeper than anyone looks.
VerdictsAreJust ==
  policy.judged =>
    /\ loop = "rejected" /\ attempt < Attempts(policy) => ~NothingFinal(failure)
    /\ loop = "sleeping" => ~RefusedFor(failure)

\* Wrapping a failure into an error whose code says nothing changes no verdict, unless the
\* failure is marked and its status says otherwise.
Wrapper ==
  [marked |-> "no", status |-> 0, code |-> "other", message |-> "plain", retryAfter |-> Absent]

WrappingKeepsVerdict ==
  failure # <<>> /\ (failure[1].marked = "no" \/ StatusFrom(failure, 1) = 0) =>
    (IsTransient(<<Wrapper>> \o failure) <=> IsTransient(failure))

\* A pause is never longer than the cap, nor than the schedule or the server asks for; with
\* the jitter of the SDK's own calls it is at least half of that.
PausesAreBounded ==
  loop = "sleeping" =>
    /\ delay <= MaxDelay /\ (Hint(failure) >= 0 => delay <= Hint(failure))
    /\ policy.jitter <= 50 => 2 * delay >= Backoff(attempt, failure)

NodeRetriesAreSafe == VerdictsAreJust /\ WrappingKeepsVerdict /\ PausesAreBounded

=============================================================================
