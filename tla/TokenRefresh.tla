---------------------------- MODULE TokenRefresh ----------------------------
(***************************************************************************)
(* auth/tokenRefresh.ts, auth/session.ts and authenticateWithWallet of     *)
(* auth/challenge.ts: one TokenRefreshManager, the stored session of its   *)
(* scope, sign-ins and logouts that write the same session, and callers of *)
(* waitForRefresh. A refresh is one call of performRefresh that posts.     *)
(*                                                                         *)
(* Tokens are numbered in the order the backend issues them. Of a token's  *)
(* expiry only what start() distinguishes is kept (life): no exp claim,    *)
(* further away than a timer can wait, later than the refresh margin, or   *)
(* within it. The three storage keys of a session are written without an   *)
(* await between them: in one process they are one step.                   *)
(***************************************************************************)
EXTENDS Naturals, FiniteSets

CONSTANTS Account,   \* the addresses that sign in
          Refresh,   \* bound: the refreshes that are ever begun
          SignIn,    \* bound: the calls of authenticateWithWallet
          Caller,    \* the callers of waitForRefresh
          MaxTokens, \* bound: the tokens the backend ever issues
          None       \* no session, no timer, no refresh

ASSUME RefreshAssumption ==
  /\ MaxTokens \in Nat /\ None \notin Refresh
  /\ None \notin [token : 1..MaxTokens, address : Account]
  /\ None \notin [token : 1..MaxTokens, chunk : BOOLEAN]

Token == 1..MaxTokens
Life == {"plain", "far", "later", "near"}
Session == [token : Token, address : Account]
Timer == [token : Token, chunk : BOOLEAN]

VARIABLES
  issued,     \* the backend: how many tokens it has issued,
  owner,      \* whose they are
  life,       \* and how far away they expire
  session,    \* what loadSession finds, or None
  timer,      \* the pending timer: the token start() read, whether it is a chunk
  inflight,   \* inflightRefresh
  refresh,    \* refresh[r]: where it stands, the session it was begun with, its result
  signIn,     \* signIn[i]: the await it stands at, for which address
  waiting,    \* waiting[c]: the refresh a call of waitForRefresh awaits, or None
  running,    \* history: whether start() was called after the last stop()
  interrupted, \* history: since the last start() a refresh or its listener failed, or
               \* somebody signed in or out
  overlapped, \* history: start() or stop() met a refresh that is still not over
  loggedOut,  \* history: the session was cleared and nobody signed in after that
  crossed,    \* history: a request was in flight when the session was cleared
  misled      \* history: a caller was handed a token that was being replaced

backend == <<issued, owner, life>>
manager == <<timer, inflight, refresh>>
history == <<running, interrupted, overlapped, loggedOut, crossed, misled>>
vars == <<backend, session, manager, signIn, waiting, history>>

InFlight == {"posting", "settling"}

TypeOK ==
  /\ issued \in 0..MaxTokens
  /\ owner \in [Token -> Account] /\ life \in [Token -> Life]
  /\ session \in Session \cup {None} /\ timer \in Timer \cup {None}
  /\ inflight \in Refresh \cup {None}
  /\ refresh \in [Refresh -> [pc : InFlight \cup {"idle", "over"},
                              from : Session \cup {None}, result : Session \cup {None}]]
  /\ signIn \in [SignIn -> [pc : {"idle", "pending", "over"}, address : Account]]
  /\ waiting \in [Caller -> Refresh \cup {None}]
  /\ running \in BOOLEAN /\ interrupted \in BOOLEAN /\ overlapped \in BOOLEAN
  /\ loggedOut \in BOOLEAN /\ crossed \in BOOLEAN /\ misled \in BOOLEAN

Init ==
  /\ issued = 0 /\ owner \in [Token -> Account] /\ life = [t \in Token |-> "plain"]
  /\ session = None /\ timer = None /\ inflight = None
  /\ refresh = [r \in Refresh |-> [pc |-> "idle", from |-> None, result |-> None]]
  /\ signIn \in [SignIn -> [pc : {"idle"}, address : Account]]
  /\ waiting = [c \in Caller |-> None]
  /\ running = FALSE /\ interrupted = FALSE /\ overlapped = FALSE
  /\ loggedOut = FALSE /\ crossed = FALSE /\ misled = FALSE

-----------------------------------------------------------------------------
(* The backend issues a token to account a, of any length of life.         *)

Issue(a, lf) == /\ issued < MaxTokens /\ issued' = issued + 1
                /\ owner' = [owner EXCEPT ![issued + 1] = a]
                /\ life' = [life EXCEPT ![issued + 1] = lf]

\* Time passes: a token that is stored or waited for comes closer to its expiry.
Age(t) == /\ t \in {s.token : s \in {session, timer} \ {None}}
          /\ \/ life[t] = "far" /\ life' = [life EXCEPT ![t] = "later"]
             \/ life[t] = "later" /\ life' = [life EXCEPT ![t] = "near"]
          /\ UNCHANGED <<issued, owner, session, manager, signIn, waiting, history>>

-----------------------------------------------------------------------------
(* The manager.                                                            *)

Active(ref) == {r \in Refresh : ref[r].pc \in InFlight}
Idle(ref) == {r \in Refresh : ref[r].pc = "idle"}

\* Faulty: the session is the one start() saw, not the one that is stored now.
BeginWithArmed(ref, r, s) ==
  LET old == [token |-> IF timer # None THEN timer.token ELSE 1,
              address |-> owner[IF timer # None THEN timer.token ELSE 1]]
  IN [ref EXCEPT ![r] = [pc |-> "posting", from |-> IF s = None THEN old ELSE s,
                         result |-> None]]

\* performRefresh up to the POST of doRefresh, which throws without a session.
Begin(ref, r, s) ==
  [ref EXCEPT ![r] = [pc |-> IF s = None THEN "settling" ELSE "posting",
                      from |-> s, result |-> None]]

\* Refreshes differ in name only: they are taken in a fixed order.
NextIdle(ref) == {r \in Idle(ref) : r = CHOOSE q \in Idle(ref) : TRUE}

\* How far away the expiry of s is; without a session there is none to read.
Distance(lf, s) == IF s = None THEN "plain" ELSE lf[s.token]

\* Faulty: the delay is not capped, and setTimeout fires at once.
ScheduleUncapped(ref, lf, s) ==
  \/ /\ Distance(lf, s) = "plain"
     /\ timer' = None /\ inflight' = None /\ refresh' = ref
  \/ /\ Distance(lf, s) \in {"near", "far"}
     /\ \E r \in NextIdle(ref) : inflight' = r /\ refresh' = Begin(ref, r, s)
     /\ timer' = None
  \/ /\ Distance(lf, s) = "later"
     /\ timer' = [token |-> s.token, chunk |-> FALSE]
     /\ inflight' = None /\ refresh' = ref

\* What start() does with the session it finds, after its stop(): nothing, a
\* refresh at once, or a timer, in chunks when the expiry is too far away.
Schedule(ref, lf, s) ==
  \/ /\ Distance(lf, s) = "plain"
     /\ timer' = None /\ inflight' = None /\ refresh' = ref
  \/ /\ Distance(lf, s) = "near"
     /\ \E r \in NextIdle(ref) : inflight' = r /\ refresh' = Begin(ref, r, s)
     /\ timer' = None
  \/ /\ Distance(lf, s) \in {"later", "far"}
     /\ timer' = [token |-> s.token, chunk |-> lf[s.token] = "far"]
     /\ inflight' = None /\ refresh' = ref

start == /\ Schedule(refresh, life, session)
         /\ running' = TRUE /\ interrupted' = FALSE
         /\ overlapped' = (overlapped \/ Active(refresh) # {})
         /\ UNCHANGED <<backend, session, signIn, waiting, loggedOut, crossed, misled>>

\* The reference to a refresh in flight is dropped; the refresh itself goes on.
stop == /\ timer' = None /\ inflight' = None /\ running' = FALSE
        /\ overlapped' = (overlapped \/ Active(refresh) # {})
        /\ UNCHANGED <<backend, session, refresh, signIn, waiting, interrupted, loggedOut, crossed, misled>>

\* performRefresh: who finds a refresh in flight shares it.
PerformRefresh(ref, s) ==
  IF inflight # None THEN UNCHANGED <<inflight, refresh>>
  ELSE \E r \in NextIdle(ref) : inflight' = r /\ refresh' = Begin(ref, r, s)

\* A timer fires after the promises that are already resolved have run their callbacks.
Quiet == \A r \in Refresh : refresh[r].pc # "settling"

\* Faulty: the timer is an interval, whose callback calls doRefresh.
TimerRepeats ==
  /\ timer # None /\ Quiet
  /\ life[timer.token] = "near" /\ UNCHANGED timer
  /\ \E r \in NextIdle(refresh) : inflight' = r /\ refresh' = Begin(refresh, r, session)
  /\ UNCHANGED <<backend, session, signIn, waiting, history>>

\* The timer callback: a chunk starts anew, the last one refreshes. It fires when
\* its token has come within the margin, whoever's session is stored by then.
TimerFires ==
  /\ timer # None /\ Quiet
  /\ \/ /\ timer.chunk /\ Schedule(refresh, life, session)
        /\ overlapped' = (overlapped \/ Active(refresh) # {})
     \/ /\ ~timer.chunk /\ life[timer.token] = "near" /\ timer' = None
        /\ PerformRefresh(refresh, session) /\ UNCHANGED overlapped
  /\ UNCHANGED <<backend, session, signIn, waiting, running, interrupted, loggedOut,
                 crossed, misled>>

Settling(r, result) == [refresh EXCEPT ![r].pc = "settling", ![r].result = result]

\* Faulty: the address is the one stored when the answer arrives.
AnswerToStored(r) ==
  /\ refresh[r].pc = "posting"
  /\ \E lf \in Life :
       LET new == [token |-> issued + 1,
                   address |-> IF session = None THEN refresh[r].from.address
                               ELSE session.address]
       IN /\ Issue(owner[refresh[r].from.token], lf) /\ session' = new
          /\ Schedule(Settling(r, new), life', new)
          /\ overlapped' = (overlapped \/ inflight' # None) /\ UNCHANGED interrupted
  /\ UNCHANGED <<signIn, waiting, running, loggedOut, crossed, misled>>

\* Faulty: the next cycle is not armed.
AnswerOnce(r) ==
  /\ refresh[r].pc = "posting"
  /\ \E lf \in Life :
       LET new == [token |-> issued + 1, address |-> refresh[r].from.address]
       IN /\ Issue(owner[refresh[r].from.token], lf) /\ session' = new
          /\ refresh' = Settling(r, new)
  /\ UNCHANGED <<timer, inflight, signIn, waiting, history>>

\* The answer: the new token is saved with the address the refresh began with, the
\* listener is told, and start() arms the next cycle. A listener that throws ends
\* the chain: the token is saved, and the refresh counts as interrupted.
Answer(r) ==
  /\ refresh[r].pc = "posting"
  /\ \E lf \in Life :
       LET new == [token |-> issued + 1, address |-> refresh[r].from.address]
       IN /\ Issue(owner[refresh[r].from.token], lf) /\ session' = new
          /\ \/ /\ Schedule(Settling(r, new), life', new)
                /\ overlapped' = (overlapped \/ inflight' # None) /\ UNCHANGED interrupted
             \/ /\ refresh' = Settling(r, None) /\ interrupted' = TRUE
                /\ UNCHANGED <<timer, inflight, overlapped>>
  /\ UNCHANGED <<signIn, waiting, running, loggedOut, crossed, misled>>

Fail(r) == /\ refresh[r].pc = "posting"
           /\ refresh' = Settling(r, None) /\ interrupted' = TRUE
           /\ UNCHANGED <<backend, session, timer, inflight, signIn, waiting, running,
                          overlapped, loggedOut, crossed, misled>>

\* A caller is handed session s although a refresh of its token is in flight.
Stale(s) == s # None /\ \E r \in Refresh : refresh[r].pc = "posting" /\ refresh[r].from.token = s.token

\* The promise of r settles: the finally of performRefresh, which clears the
\* reference, to r or to a later refresh; then the callers that awaited r go on
\* with its session, or with what is stored.
Settle(r) ==
  /\ refresh[r].pc = "settling"
  /\ LET result == IF refresh[r].result # None THEN refresh[r].result ELSE session
     IN misled' = (misled \/ (~overlapped /\ Stale(result) /\ \E c \in Caller : waiting[c] = r))
  /\ refresh' = [refresh EXCEPT ![r] = [pc |-> "over", from |-> None, result |-> None]]
  /\ inflight' = None
  /\ waiting' = [c \in Caller |-> IF waiting[c] = r THEN None ELSE waiting[c]]
  /\ overlapped' = (overlapped /\ Active(refresh) # {r})
  /\ interrupted' = (interrupted \/ refresh[r].result = None)
  /\ UNCHANGED <<backend, session, timer, signIn, running, loggedOut, crossed>>

\* Faulty: the stored session is returned whether or not a refresh is in flight.
waitForNothing(c) ==
  /\ waiting[c] = None /\ misled' = (misled \/ (~overlapped /\ Stale(session)))
  /\ UNCHANGED <<backend, session, manager, signIn, waiting, running, interrupted, overlapped,
                 loggedOut, crossed>>

\* The caller awaits the refresh in flight, or is handed the stored session at once.
waitForRefresh(c) ==
  /\ waiting[c] = None /\ waiting' = [waiting EXCEPT ![c] = inflight]
  /\ misled' = (misled \/ (~overlapped /\ inflight = None /\ Stale(session)))
  /\ UNCHANGED <<backend, session, manager, signIn, running, interrupted, overlapped,
                 loggedOut, crossed>>

-----------------------------------------------------------------------------
(* Signing in and logging out.                                             *)

SignInGoes(i, from, to) == /\ signIn[i].pc = from
                           /\ signIn' = [signIn EXCEPT ![i].pc = to]

\* authenticateWithWallet: the challenge, the signature and the POST to verify are
\* one wait. A challenge that is stale when it arrives, and a signer or a request
\* that fails, end it without a trace.
Authenticate(i) == /\ SignInGoes(i, "idle", "pending") \/ SignInGoes(i, "pending", "over")
                   /\ UNCHANGED <<backend, session, manager, waiting, history>>

\* The token arrives and the session is saved; it is for the application to start().
Verified(i) == /\ SignInGoes(i, "pending", "over")
               /\ \E lf \in Life : Issue(signIn[i].address, lf)
               /\ session' = [token |-> issued + 1, address |-> signIn[i].address]
               /\ loggedOut' = FALSE /\ crossed' = FALSE /\ interrupted' = TRUE
               /\ UNCHANGED <<manager, waiting, running, overlapped, misled>>

InTransit == \/ \E r \in Refresh : refresh[r].pc = "posting"
             \/ \E i \in SignIn : signIn[i].pc = "pending"

\* Faulty: only the token is removed, and the address is taken for a session.
clearToken == /\ session # None /\ session' = [session EXCEPT !.token = 0]
              /\ loggedOut' = TRUE /\ crossed' = InTransit /\ interrupted' = TRUE
              /\ UNCHANGED <<backend, manager, signIn, waiting, running, overlapped, misled>>

\* clearSession, and clearAllSessions as useWallet calls it: no timer is stopped.
clearSession == /\ session # None /\ session' = None
                /\ loggedOut' = TRUE /\ crossed' = InTransit /\ interrupted' = TRUE
                /\ UNCHANGED <<backend, manager, signIn, waiting, running, overlapped, misled>>

-----------------------------------------------------------------------------
RefreshGoesOn(r) == Answer(r) \/ Fail(r) \/ Settle(r)

Next == \/ start \/ stop \/ TimerFires \/ clearSession
        \/ \E t \in Token : Age(t)
        \/ \E r \in Refresh : RefreshGoesOn(r)
        \/ \E c \in Caller : waitForRefresh(c)
        \/ \E i \in SignIn : Authenticate(i) \/ Verified(i)

\* Time passes, timers fire, and a request is answered or fails.
Fairness == /\ WF_vars(TimerFires) /\ \A t \in Token : WF_vars(Age(t))
            /\ \A r \in Refresh : WF_vars(RefreshGoesOn(r))
Spec == Init /\ [][Next]_vars /\ Fairness

-----------------------------------------------------------------------------
\* A stored session never pairs one account's token with another's address, though
\* others sign in and out while a refresh is in flight.
SessionIsPaired == session # None => owner[session.token] = session.address

\* At most one POST to /auth/refresh is in flight, unless start() or stop() came in
\* between, which the manager itself does when the new token is near its expiry too.
SingleFlight ==
  ~overlapped => \A q, r \in Refresh : refresh[q].pc = "posting" /\ refresh[r].pc = "posting" => q = r

\* After a logout there is no session until somebody signs in, whatever timer is
\* still pending, unless a request was in flight when the session was cleared.
LogoutHolds == loggedOut /\ ~crossed => session = None

\* waitForRefresh does not hand out a token that a refresh in flight is replacing,
\* with the same exception.
WaitersGetFreshTokens == ~misled

\* A refresh begins when the stored token has come within its margin; a timer that
\* was armed for a token since replaced is the exception.
NeverTooEarly ==
  [][\A r \in Refresh :
       refresh[r].pc = "idle" /\ refresh'[r].pc = "posting"
         => LET t == refresh'[r].from.token
            IN life'[t] = "near" \/ (timer # None /\ timer.token # t)]_vars

Exhausted == issued = MaxTokens \/ Idle(refresh) = {}
Stored(t) == session # None /\ session.token = t

\* The chain of refreshes does not break off: after start() every token is renewed
\* when its time comes, and the next one, until stop(), a failure, a token without
\* an expiry, or somebody who signs in or out.
SessionIsRenewed ==
  \A t \in Token :
    running /\ ~interrupted /\ Stored(t) /\ life[t] # "plain"
      ~> ~running \/ interrupted \/ ~Stored(t) \/ Exhausted

=============================================================================
