------------------------------- MODULE ApiHttp -------------------------------
(***************************************************************************)
(* utils/http.ts and utils/interceptors.ts: one call of a backend client   *)
(* at a time, through an axios instance of createApiHttpClient. The        *)
(* clients are DisputeClient, ProfileClient, getGigs, IPFS uploads, the    *)
(* wallet challenge and an application that uses the instance itself. They *)
(* share nothing but the instance, which keeps no state.                   *)
(*                                                                         *)
(* axios runs request interceptors last to first (logging, size check, the *)
(* application's) and response interceptors first to last (the             *)
(* application's, retry, logging); an error of the former passes through   *)
(* the latter. Logging changes nothing. A retry runs the whole chain again.*)
(***************************************************************************)
EXTENDS Naturals

CONSTANT Retries \* retries of the ApiRetryConfig

ASSUME HttpAssumption == Retries \in Nat

VARIABLES
  op,        \* the operation that is called
  signed,    \* of an authentication: the challenge is signed, the signature is sent
  pc,        \* where the call stands
  attempts,  \* __trustflowAttempts of the request
  sent,      \* how often the request left the instance
  processed, \* how often the backend did what it asks for
  fresh,     \* the challenge is less than a minute old
  trouble,   \* history: what ended the request, if an error did
  meddled    \* history: a hook of the application replaced an outcome of the request

httpVars == <<op, signed, pc, attempts, sent, processed, fresh, trouble, meddled>>

Operation == {"raiseDispute", "getDispute", "getGigs", "getProfile", "putProfile", "upload",
              "authenticate", "optedPost"}

\* A request as its client makes it: its method; if its body is a plain object, which is
\* measured; if it sets trustflowRetry; if the client validates its arguments before;
\* and if the client may find its answer unusable.
HttpRequest(method, json, optIn, validated, judged) ==
  [method |-> method, json |-> json, optIn |-> optIn, validated |-> validated, judged |-> judged]

RaiseDispute      == HttpRequest("post", TRUE, FALSE, TRUE, FALSE)
GetDispute        == HttpRequest("get", FALSE, FALSE, TRUE, FALSE)
GetGigs           == HttpRequest("get", FALSE, FALSE, TRUE, FALSE)
GetProfile        == HttpRequest("get", FALSE, FALSE, TRUE, FALSE)
PutProfile        == HttpRequest("put", TRUE, FALSE, TRUE, FALSE)
Upload            == HttpRequest("post", FALSE, FALSE, TRUE, TRUE) \* an answer without a CID
RequestChallenge  == HttpRequest("get", FALSE, FALSE, FALSE, FALSE)
VerifyAndGetToken == HttpRequest("post", TRUE, FALSE, FALSE, FALSE)
OptedPost         == HttpRequest("post", TRUE, TRUE, FALSE, FALSE) \* an application's own

\* The request that is made now.
Made == CASE op = "raiseDispute" -> RaiseDispute
          [] op = "getDispute"   -> GetDispute
          [] op = "getGigs"      -> GetGigs
          [] op = "getProfile"   -> GetProfile
          [] op = "putProfile"   -> PutProfile
          [] op = "upload"       -> Upload
          [] op = "authenticate" -> IF signed THEN VerifyAndGetToken ELSE RequestChallenge
          [] op = "optedPost"    -> OptedPost

\* isJsonBody, of a body that is sent for the first time: axios has made a string of one
\* that is sent again.
Measured == attempts = 0 /\ Made.json

HttpTypeOK ==
  /\ op \in Operation /\ signed \in BOOLEAN /\ fresh \in BOOLEAN /\ meddled \in BOOLEAN
  /\ pc \in {"called", "ready", "sent", "paused", "signing", "resolved", "rejected"}
  /\ attempts \in 0 .. Retries /\ sent \in Nat /\ processed \in Nat
  /\ trouble \in {"none", "local", "final", "transient"}

HttpInit ==
  /\ op \in Operation /\ signed = FALSE /\ pc = "called" /\ attempts = 0
  /\ sent = 0 /\ processed = 0 /\ fresh = FALSE /\ trouble = "none" /\ meddled = FALSE

-----------------------------------------------------------------------------
\* isMethodRetryable: everything but a POST, or one that opted in.
MethodRetryable == Made.method \in {"get", "put"} \/ Made.optIn

\* Faulty: the method is not asked about.
ShouldRetryAny(kind) == kind = "transient"

\* shouldRetryRequest, for an error that says what kind it is: the 429, 408 and 5xx
\* answers and those that never came are transient.
ShouldRetry(kind) == MethodRetryable /\ kind = "transient"

\* Faulty: one retry too many.
RetryOnceMore(kind, config) ==
  /\ trouble' = kind
  /\ IF config /\ attempts <= Retries /\ ShouldRetry(kind)
     THEN pc' = "paused" /\ attempts' = attempts + 1
     ELSE pc' = "rejected" /\ UNCHANGED attempts

\* The error handler of installApiRetryInterceptor. Without its config, an error that a
\* hook made or a request hook threw, nothing can be sent again.
RetryHandler(kind, config) ==
  /\ trouble' = kind
  /\ IF config /\ attempts < Retries /\ ShouldRetry(kind)
     THEN pc' = "paused" /\ attempts' = attempts + 1
     ELSE pc' = "rejected" /\ UNCHANGED attempts

\* What the application's response hooks make of an error, before the retries see it:
\* they let it pass, throw one of their own without config or with config but no
\* response, which looks like a transport failure, or recover.
ResponseError(kind, config) ==
  \/ RetryHandler(kind, config) /\ UNCHANGED meddled
  \/ RetryHandler("local", FALSE) /\ meddled' = TRUE
  \/ config /\ RetryHandler("transient", TRUE) /\ meddled' = TRUE
  \/ pc' = "resolved" /\ meddled' = TRUE /\ trouble' = "none" /\ UNCHANGED attempts

\* And of a response: they let it pass, or throw, without config or with it. What passes may
\* still not satisfy the client.
ResponseOk ==
  \/ pc' = "resolved" /\ trouble' = "none" /\ UNCHANGED <<attempts, meddled>>
  \/ Made.judged /\ pc' = "rejected" /\ trouble' = "local" /\ UNCHANGED <<attempts, meddled>>
  \/ RetryHandler("local", FALSE) /\ meddled' = TRUE
  \/ RetryHandler("transient", TRUE) /\ meddled' = TRUE

-----------------------------------------------------------------------------
\* The client's own validation of its arguments fails: nothing is sent.
Malformed == /\ pc = "called" /\ Made.validated /\ pc' = "rejected" /\ trouble' = "local"
             /\ UNCHANGED <<op, signed, attempts, sent, processed, fresh, meddled>>

Valid == /\ pc = "called" /\ pc' = "ready"
         /\ UNCHANGED <<op, signed, attempts, sent, processed, fresh, trouble, meddled>>

\* The request interceptors pass; the sleep of a retry is over.
Send == /\ pc \in {"ready", "paused"} /\ pc' = "sent" /\ sent' = sent + 1
        /\ UNCHANGED <<op, signed, attempts, processed, fresh, trouble, meddled>>

\* The body is too large, or the application's request hook throws.
HookThrows(tooLarge) ==
  /\ pc \in {"ready", "paused"} /\ (tooLarge => Measured)
  /\ ResponseError("local", FALSE)
  /\ UNCHANGED <<op, signed, sent, processed, fresh>>

Responded == /\ pc = "sent" /\ processed' = processed + 1 /\ ResponseOk
             /\ UNCHANGED <<op, signed, sent, fresh>>

\* A 4xx, or anything else that is final.
Refused == /\ pc = "sent" /\ ResponseError("final", TRUE)
           /\ UNCHANGED <<op, signed, sent, processed, fresh>>

\* A 5xx, a deadline or a broken connection: the backend may have done its work.
Failed == /\ pc = "sent" /\ processed' \in {processed, processed + 1}
          /\ ResponseError("transient", TRUE)
          /\ UNCHANGED <<op, signed, sent, fresh>>

-----------------------------------------------------------------------------
(* authenticateWithWallet.                                                 *)

\* The minute starts when the answer is there.
ChallengeReceived ==
  /\ op = "authenticate" /\ ~signed /\ pc = "resolved" /\ pc' = "signing" /\ fresh' = TRUE
  /\ UNCHANGED <<op, signed, attempts, sent, processed, trouble, meddled>>

MinutePasses == /\ fresh /\ fresh' = FALSE
                /\ UNCHANGED <<op, signed, pc, attempts, sent, processed, trouble, meddled>>

\* A stale challenge is not signed, and the signer may refuse to; the signature is the
\* body of a new request.
Sign ==
  /\ pc = "signing"
  /\ \/ /\ fresh /\ signed' = TRUE /\ pc' = "ready" /\ attempts' = 0 /\ sent' = 0 /\ processed' = 0
        /\ meddled' = FALSE /\ UNCHANGED trouble
     \/ /\ pc' = "rejected" /\ trouble' = "local"
        /\ UNCHANGED <<signed, attempts, sent, processed, meddled>>
  /\ UNCHANGED <<op, fresh>>

-----------------------------------------------------------------------------
HttpNext == \/ Valid \/ Malformed \/ Send \/ Responded \/ Refused \/ Failed
            \/ \E tooLarge \in BOOLEAN : HookThrows(tooLarge)
            \/ ChallengeReceived \/ MinutePasses \/ Sign

HttpSpec == HttpInit /\ [][HttpNext]_httpVars

-----------------------------------------------------------------------------
\* The dispute, the upload and the signature reach the backend once at most, whatever the
\* answer and whatever the application's hooks make of it; anything else as often as the
\* budget has attempts.
PostedOnce ==
  /\ sent <= Retries + 1 /\ processed <= sent
  /\ op \in {"raiseDispute", "upload"} \/ (op = "authenticate" /\ signed) => sent <= 1

\* A call resolves only with the backend's work done, unless a hook made a result out
\* of an error.
ResolvedIsDone == pc = "resolved" /\ ~meddled => processed > 0

\* A call that may be retried gives up on a transient error only when the budget is spent.
BudgetIsSpent == pc = "rejected" /\ trouble = "transient" /\ MethodRetryable => attempts = Retries

\* What the retries of the HTTP layer may and may not do.
HttpRetriesAreSafe == PostedOnce /\ ResolvedIsDone /\ BudgetIsSpent

=============================================================================
