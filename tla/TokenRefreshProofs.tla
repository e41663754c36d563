------------------------- MODULE TokenRefreshProofs -------------------------
(***************************************************************************)
(* The safety of the refresh manager, for any number of accounts, sign-ins,*)
(* refreshes and callers. The invariant adds what the manager relies on:   *)
(* while nobody came in between, at most one refresh is active, it is the  *)
(* one inflightRefresh refers to, and no timer is pending beside it.       *)
(***************************************************************************)
EXTENDS TokenRefresh, TLAPS

Posting(r) == refresh[r].pc = "posting"
ActiveRefresh(r) == refresh[r].pc \in InFlight
Right(s, own, n) == s # None => s \in Session /\ s.token <= n /\ own[s.token] = s.address

\* Sessions that are kept anywhere carry their owner's address and an issued token.
Paired == /\ Right(session, owner, issued)
          /\ \A r \in Refresh : /\ Right(refresh[r].from, owner, issued)
                                /\ Right(refresh[r].result, owner, issued)
                                /\ Posting(r) => refresh[r].from # None
\* While nobody came in between, the manager knows of every refresh there is.
Tracked == ~overlapped =>
  /\ \A q, r \in Refresh : ActiveRefresh(q) /\ ActiveRefresh(r) => q = r
  /\ \A r \in Refresh : Posting(r) => inflight = r /\ timer = None
\* After a clean logout nothing can bring the session back.
Gone == loggedOut /\ ~crossed => session = None /\ \A r \in Refresh : ~Posting(r)

IInv == TypeOK /\ Paired /\ Tracked /\ Gone /\ WaitersGetFreshTokens

RefreshState == [pc : InFlight \cup {"idle", "over"},
                 from : Session \cup {None}, result : Session \cup {None}]

LEMMA InvImplies == IInv => SessionIsPaired /\ SingleFlight /\ LogoutHolds /\ WaitersGetFreshTokens
BY DEF IInv, Paired, Right, Tracked, Gone, SessionIsPaired, SingleFlight, LogoutHolds,
       Posting, ActiveRefresh, InFlight

LEMMA InvInit == Init => IInv
<1> SUFFICES ASSUME Init PROVE IInv
  OBVIOUS
<1> USE RefreshAssumption DEF Init
<1>1. TypeOK
  <2>1. refresh \in [Refresh -> RefreshState]
    BY DEF RefreshState
  <2>2. signIn \in [SignIn -> [pc : {"idle", "pending", "over"}, address : Account]]
    <3>1. [pc : {"idle"}, address : Account] \subseteq [pc : {"idle", "pending", "over"}, address : Account]
      OBVIOUS
    <3> QED
      BY <3>1
  <2>3. issued \in 0..MaxTokens
    OBVIOUS
  <2> QED
    BY <2>1, <2>2, <2>3 DEF TypeOK, Life, RefreshState
<1>2. Paired /\ Tracked /\ Gone /\ WaitersGetFreshTokens
  BY DEF Paired, Right, Tracked, Gone, WaitersGetFreshTokens, Posting, ActiveRefresh, InFlight
<1> QED
  BY <1>1, <1>2 DEF IInv

\* A refresh begins in one of the states a refresh can be in.
LEMMA BeginType ==
  ASSUME NEW ref \in [Refresh -> RefreshState], NEW r \in Refresh, NEW s \in Session \cup {None}
  PROVE  /\ Begin(ref, r, s) \in [Refresh -> RefreshState]
         /\ Begin(ref, r, s)[r] = [pc |-> IF s = None THEN "settling" ELSE "posting",
                                   from |-> s, result |-> None]
         /\ \A q \in Refresh \ {r} : Begin(ref, r, s)[q] = ref[q]
BY DEF Begin, RefreshState, InFlight

LEMMA SettlingType ==
  ASSUME TypeOK, NEW r \in Refresh, NEW s \in Session \cup {None}
  PROVE  /\ Settling(r, s) \in [Refresh -> RefreshState]
         /\ Settling(r, s)[r] = [pc |-> "settling", from |-> refresh[r].from, result |-> s]
         /\ \A q \in Refresh \ {r} : Settling(r, s)[q] = refresh[q]
BY DEF Settling, RefreshState, TypeOK, InFlight

\* What start() does to the manager: one of three things.
LEMMA ScheduleSteps ==
  ASSUME NEW ref \in [Refresh -> RefreshState], NEW lf \in [Token -> Life],
         NEW s \in Session \cup {None}, Schedule(ref, lf, s)
  PROVE  /\ refresh' \in [Refresh -> RefreshState]
         /\ timer' \in Timer \cup {None} /\ inflight' \in Refresh \cup {None}
         /\ \/ inflight' = None /\ refresh' = ref
            \/ /\ s # None /\ timer' = None
               /\ \E r \in Refresh : /\ ref[r].pc = "idle" /\ inflight' = r
                                     /\ refresh' = Begin(ref, r, s)
<1>1. CASE Distance(lf, s) = "plain" /\ timer' = None /\ inflight' = None /\ refresh' = ref
  BY <1>1
<1>2. CASE /\ Distance(lf, s) = "near" /\ timer' = None
           /\ \E r \in NextIdle(ref) : inflight' = r /\ refresh' = Begin(ref, r, s)
  <2>1. s # None
    BY <1>2 DEF Distance
  <2>2. PICK r \in Refresh : /\ ref[r].pc = "idle" /\ inflight' = r /\ refresh' = Begin(ref, r, s)
    BY <1>2 DEF NextIdle, Idle
  <2> QED
    BY <1>2, <2>1, <2>2, BeginType
<1>3. CASE /\ Distance(lf, s) \in {"later", "far"}
           /\ timer' = [token |-> s.token, chunk |-> lf[s.token] = "far"]
           /\ inflight' = None /\ refresh' = ref
  <2>1. s \in Session
    BY <1>3 DEF Distance
  <2>2. timer' \in Timer
    BY <1>3, <2>1 DEF Session, Timer
  <2> QED
    BY <1>3, <2>2
<1> QED
  BY <1>1, <1>2, <1>3 DEF Schedule

LEMMA IssueType ==
  ASSUME TypeOK, NEW a \in Account, NEW lf \in Life, Issue(a, lf)
  PROVE  /\ issued + 1 \in Token /\ issued' = issued + 1 /\ issued' \in 0..MaxTokens
         /\ owner' \in [Token -> Account] /\ life' \in [Token -> Life]
         /\ owner'[issued + 1] = a
         /\ \A s \in Session \cup {None} : Right(s, owner, issued) => Right(s, owner', issued')
<1>1. issued + 1 \in Token /\ issued' = issued + 1 /\ issued' \in 0..MaxTokens /\ issued \in Nat
  BY RefreshAssumption DEF Issue, TypeOK, Token
<1>2. /\ owner' \in [Token -> Account] /\ life' \in [Token -> Life]
      /\ owner' = [owner EXCEPT ![issued + 1] = a]
  BY <1>1 DEF Issue, TypeOK
<1>3. owner'[issued + 1] = a /\ \A t \in Token : t <= issued => owner'[t] = owner[t] /\ t <= issued'
  BY <1>1, <1>2 DEF TypeOK, Token
<1> QED
  BY <1>1, <1>2, <1>3 DEF Right, Session

\* start() keeps the invariant, called by the application or by a chunk timer.
LEMMA RestartKeeps ==
  ASSUME IInv, Schedule(refresh, life, session), UNCHANGED <<backend, session, signIn, waiting>>,
         UNCHANGED <<loggedOut, crossed, misled>>, running' \in BOOLEAN, interrupted' \in BOOLEAN,
         overlapped' = (overlapped \/ Active(refresh) # {})
  PROVE  IInv'
<1> USE DEF IInv
<1>1. refresh \in [Refresh -> RefreshState] /\ session \in Session \cup {None} /\ life \in [Token -> Life]
  BY DEF TypeOK, RefreshState
<1>2. /\ refresh' \in [Refresh -> RefreshState]
      /\ timer' \in Timer \cup {None} /\ inflight' \in Refresh \cup {None}
      /\ \/ inflight' = None /\ refresh' = refresh
         \/ /\ session # None /\ timer' = None
            /\ \E r \in Refresh : /\ refresh[r].pc = "idle" /\ inflight' = r
                                  /\ refresh' = Begin(refresh, r, session)
  BY <1>1, ScheduleSteps
<1>3. TypeOK'
  BY <1>2 DEF TypeOK, RefreshState, backend
<1>4. CASE refresh' = refresh /\ inflight' = None
  <2>1. ~overlapped' => \A r \in Refresh : ~ActiveRefresh(r)
    BY DEF Active, ActiveRefresh
  <2>2. Paired' /\ Gone' /\ WaitersGetFreshTokens'
    BY <1>4 DEF Paired, Gone, WaitersGetFreshTokens, Posting, Right, backend
  <2>3. Tracked'
    BY <1>4, <2>1 DEF Tracked, Posting, ActiveRefresh, InFlight
  <2> QED
    BY <1>3, <2>2, <2>3
<1>5. ASSUME NEW r \in Refresh, session # None, timer' = None, refresh[r].pc = "idle",
             inflight' = r, refresh' = Begin(refresh, r, session)
      PROVE  IInv'
  <2>1. /\ refresh'[r] = [pc |-> "posting", from |-> session, result |-> None]
        /\ \A q \in Refresh \ {r} : refresh'[q] = refresh[q]
    BY <1>1, <1>5, BeginType
  <2>2. ~overlapped' => \A q \in Refresh : ~ActiveRefresh(q)
    BY DEF Active, ActiveRefresh
  <2>3. Paired'
    BY <2>1, <1>5 DEF Paired, Posting, Right, backend
  <2>4. Tracked'
    BY <2>1, <2>2, <1>5 DEF Tracked, Posting, ActiveRefresh, InFlight
  <2>5. Gone' /\ WaitersGetFreshTokens'
    BY <2>1, <1>5 DEF Gone, WaitersGetFreshTokens, Posting
  <2> QED
    BY <1>3, <2>3, <2>4, <2>5
<1> QED
  BY <1>2, <1>4, <1>5

\* The timer callback that refreshes.
LEMMA TimerKeeps ==
  ASSUME IInv, timer # None, Quiet, timer' = None, PerformRefresh(refresh, session),
         UNCHANGED <<backend, session, signIn, waiting, history>>
  PROVE  IInv'
<1> USE DEF IInv
<1>0. refresh \in [Refresh -> RefreshState] /\ session \in Session \cup {None}
  BY DEF TypeOK, RefreshState
<1>1. CASE inflight' = inflight /\ refresh' = refresh
  <2>1. TypeOK'
    BY <1>1 DEF TypeOK, backend, history
  <2>2. Paired' /\ Tracked' /\ Gone' /\ WaitersGetFreshTokens'
    BY <1>1 DEF Paired, Tracked, Gone, WaitersGetFreshTokens, Right, Posting, ActiveRefresh,
                backend, history
  <2> QED
    BY <2>1, <2>2
<1>2. ASSUME NEW r \in Refresh, refresh[r].pc = "idle", inflight' = r,
             refresh' = Begin(refresh, r, session)
      PROVE  IInv'
  <2>1. /\ refresh' \in [Refresh -> RefreshState]
        /\ refresh'[r] = [pc |-> IF session = None THEN "settling" ELSE "posting",
                           from |-> session, result |-> None]
        /\ \A q \in Refresh \ {r} : refresh'[q] = refresh[q]
    BY <1>0, <1>2, BeginType
  <2>2. TypeOK'
    BY <1>2, <2>1 DEF TypeOK, RefreshState, backend, history
  <2>3. ~overlapped => \A q \in Refresh : ~ActiveRefresh(q)
    BY DEF Tracked, Quiet, Posting, ActiveRefresh, InFlight
  <2>4. Paired'
    BY <2>1, <1>2 DEF Paired, Posting, Right, backend
  <2>5. Tracked'
    BY <2>1, <2>3, <1>2 DEF Tracked, Posting, ActiveRefresh, InFlight, history
  <2>6. Gone' /\ WaitersGetFreshTokens'
    BY <2>1, <1>2 DEF Gone, WaitersGetFreshTokens, Posting, history
  <2> QED
    BY <2>2, <2>4, <2>5, <2>6
<1> QED
  BY <1>1, <1>2 DEF PerformRefresh, NextIdle, Idle

\* The answer: the new session is right, and the refresh no longer posts.
LEMMA AnswerKeeps == ASSUME IInv, NEW r \in Refresh, Answer(r) PROVE IInv'
<1> USE DEF IInv
<1>0. refresh[r].pc = "posting" /\ refresh \in [Refresh -> RefreshState]
  BY DEF Answer, TypeOK, RefreshState
<1>1. /\ refresh[r].from \in Session /\ refresh[r].from.token \in Token
      /\ refresh[r].from.address \in Account
      /\ owner[refresh[r].from.token] = refresh[r].from.address
  BY <1>0 DEF Paired, Right, Posting, Session
<1> DEFINE new == [token |-> issued + 1, address |-> refresh[r].from.address]
<1>2. PICK lf \in Life :
        /\ Issue(owner[refresh[r].from.token], lf) /\ session' = new
        /\ \/ /\ Schedule(Settling(r, new), life', new)
              /\ overlapped' = (overlapped \/ inflight' # None) /\ UNCHANGED interrupted
           \/ /\ refresh' = Settling(r, None) /\ interrupted' = TRUE
              /\ UNCHANGED <<timer, inflight, overlapped>>
  BY DEF Answer
<1>3. /\ issued + 1 \in Token /\ issued' = issued + 1 /\ issued' \in 0..MaxTokens
      /\ owner' \in [Token -> Account] /\ life' \in [Token -> Life]
      /\ owner'[issued + 1] = refresh[r].from.address
      /\ \A s \in Session \cup {None} : Right(s, owner, issued) => Right(s, owner', issued')
  BY <1>1, <1>2, IssueType
<1>4. new \in Session /\ new # None /\ Right(new, owner', issued')
  BY <1>1, <1>3, RefreshAssumption DEF Session, Token, Right
<1>5. UNCHANGED <<signIn, waiting, running, loggedOut, crossed, misled>>
  BY DEF Answer
<1> HIDE DEF new
<1>6. ASSUME NEW s \in Session \cup {None}, Right(s, owner', issued')
      PROVE  /\ Settling(r, s) \in [Refresh -> RefreshState]
             /\ Settling(r, s)[r].pc = "settling"
             /\ \A q \in Refresh : /\ Right(Settling(r, s)[q].from, owner', issued')
                                  /\ Right(Settling(r, s)[q].result, owner', issued')
             /\ \A q \in Refresh \ {r} : Settling(r, s)[q] = refresh[q]
  <2>1. /\ Settling(r, s) \in [Refresh -> RefreshState]
        /\ Settling(r, s)[r] = [pc |-> "settling", from |-> refresh[r].from, result |-> s]
        /\ \A q \in Refresh \ {r} : Settling(r, s)[q] = refresh[q]
    BY SettlingType
  <2>2. \A q \in Refresh : /\ refresh[q].from \in Session \cup {None}
                           /\ refresh[q].result \in Session \cup {None}
    BY <1>0 DEF RefreshState
  <2>3. \A q \in Refresh : /\ Right(refresh[q].from, owner', issued')
                           /\ Right(refresh[q].result, owner', issued')
    BY <1>3, <2>2 DEF Paired
  <2>4. /\ Settling(r, s)[r].pc = "settling" /\ Settling(r, s)[r].from = refresh[r].from
        /\ Settling(r, s)[r].result = s
    BY <1>0, <2>1 DEF RefreshState
  <2> QED
    BY <1>6, <2>1, <2>3, <2>4
<1>7. Right(None, owner', issued')
  BY DEF Right
<1>8. ~(loggedOut /\ ~crossed)
  BY <1>0 DEF Gone, Posting
<1>9. CASE refresh' = Settling(r, None) /\ UNCHANGED <<timer, inflight, overlapped>> /\ interrupted' = TRUE
  <2>0. /\ refresh' \in [Refresh -> RefreshState] /\ refresh'[r].pc = "settling"
        /\ \A q \in Refresh : /\ Right(refresh'[q].from, owner', issued')
                             /\ Right(refresh'[q].result, owner', issued')
        /\ \A q \in Refresh \ {r} : refresh'[q] = refresh[q]
    <3>1. None \in Session \cup {None}
      OBVIOUS
    <3> QED
      BY <1>6, <1>7, <1>9, <3>1
  <2>1. TypeOK'
    BY <1>3, <1>4, <1>5, <2>0, <1>9, <1>2 DEF TypeOK, RefreshState
  <2>2. Paired'
    BY <1>2, <1>4, <2>0 DEF Paired, Posting
  <2>3. Tracked'
    BY <1>0, <2>0, <1>9 DEF Tracked, Posting, ActiveRefresh, InFlight
  <2> QED
    BY <2>1, <2>2, <2>3, <1>5, <1>8 DEF Gone, WaitersGetFreshTokens
<1>10. CASE /\ Schedule(Settling(r, new), life', new)
            /\ overlapped' = (overlapped \/ inflight' # None) /\ UNCHANGED interrupted
  <2>1. /\ refresh' \in [Refresh -> RefreshState]
        /\ timer' \in Timer \cup {None} /\ inflight' \in Refresh \cup {None}
        /\ \/ inflight' = None /\ refresh' = Settling(r, new)
           \/ /\ timer' = None
              /\ \E q \in Refresh : /\ Settling(r, new)[q].pc = "idle" /\ inflight' = q
                                    /\ refresh' = Begin(Settling(r, new), q, new)
    BY <1>3, <1>4, <1>6, <1>10, ScheduleSteps
  <2>2. TypeOK'
    BY <1>2, <1>3, <1>4, <1>5, <1>10, <2>1 DEF TypeOK, RefreshState
  <2>5. /\ Settling(r, new) \in [Refresh -> RefreshState] /\ Settling(r, new)[r].pc = "settling"
        /\ \A q \in Refresh : /\ Right(Settling(r, new)[q].from, owner', issued')
                             /\ Right(Settling(r, new)[q].result, owner', issued')
        /\ \A q \in Refresh \ {r} : Settling(r, new)[q] = refresh[q]
    BY <1>4, <1>6
  <2>3. CASE inflight' = None /\ refresh' = Settling(r, new)
    <3>0. /\ refresh'[r].pc = "settling"
          /\ \A q \in Refresh : /\ Right(refresh'[q].from, owner', issued')
                               /\ Right(refresh'[q].result, owner', issued')
          /\ \A q \in Refresh \ {r} : refresh'[q] = refresh[q]
      BY <2>3, <2>5
    <3>1. Paired'
      BY <1>2, <1>4, <3>0 DEF Paired, Posting
    <3>2. Tracked'
      <4> SUFFICES ASSUME ~overlapped' PROVE \A q \in Refresh : ActiveRefresh(q)' => q = r
        BY <3>0 DEF Tracked, Posting, ActiveRefresh, InFlight
      <4>1. ~overlapped
        BY <1>10
      <4> QED
        BY <1>0, <3>0, <4>1 DEF Tracked, ActiveRefresh, InFlight
    <3> QED
      BY <2>2, <3>1, <3>2, <1>5, <1>8 DEF Gone, WaitersGetFreshTokens
  <2>4. ASSUME NEW q \in Refresh, Settling(r, new)[q].pc = "idle", inflight' = q,
               refresh' = Begin(Settling(r, new), q, new)
        PROVE  IInv'
    <3>1. /\ refresh'[q] = [pc |-> "posting", from |-> new, result |-> None]
          /\ \A p \in Refresh \ {q} : refresh'[p] = Settling(r, new)[p]
      BY <1>4, <1>6, <2>4, BeginType
    <3>2. overlapped'
      BY <1>10, <2>4, RefreshAssumption
    <3>3. Paired'
      <4>1. /\ \A p \in Refresh : /\ Right(refresh'[p].from, owner', issued')
                                /\ Right(refresh'[p].result, owner', issued')
            /\ \A p \in Refresh \ {q, r} : refresh'[p] = refresh[p]
        BY <1>4, <1>7, <2>5, <3>1
      <4>2. refresh'[q].from # None /\ (r # q => refresh'[r].pc = "settling")
        BY <1>4, <2>5, <3>1
      <4> QED
        BY <1>2, <1>4, <4>1, <4>2 DEF Paired, Posting
    <3> QED
      BY <2>2, <3>2, <3>3, <1>5, <1>8 DEF Tracked, Gone, WaitersGetFreshTokens
  <2> QED
    BY <2>1, <2>3, <2>4
<1> QED
  BY <1>2, <1>9, <1>10

\* A refresh that fails, and one that settles.
LEMMA EndKeeps == ASSUME IInv, NEW r \in Refresh, Fail(r) \/ Settle(r) PROVE IInv'
<1> USE DEF IInv
<1>0. refresh \in [Refresh -> RefreshState]
  BY DEF TypeOK, RefreshState
<1>1. CASE Fail(r)
  <2>1. /\ refresh' \in [Refresh -> RefreshState]
        /\ refresh'[r] = [pc |-> "settling", from |-> refresh[r].from, result |-> None]
        /\ \A q \in Refresh \ {r} : refresh'[q] = refresh[q]
    <3>1. refresh' = Settling(r, None)
      BY <1>1 DEF Fail
    <3>2. \A s \in Session \cup {None} :
            /\ Settling(r, s) \in [Refresh -> RefreshState]
            /\ Settling(r, s)[r] = [pc |-> "settling", from |-> refresh[r].from, result |-> s]
            /\ \A q \in Refresh \ {r} : Settling(r, s)[q] = refresh[q]
      BY SettlingType
    <3> QED
      BY <3>1, <3>2
  <2>2. refresh'[r].pc = "settling" /\ refresh'[r].from = refresh[r].from /\ refresh'[r].result = None
    BY <1>0, <2>1 DEF RefreshState
  <2>3. TypeOK'
    BY <1>1, <2>1 DEF Fail, TypeOK, RefreshState, backend
  <2>4. Paired'
    <3>1. UNCHANGED <<session, owner, issued>>
      BY <1>1 DEF Fail, backend
    <3> QED
      BY <2>1, <2>2, <3>1 DEF Paired, Posting, Right
  <2>5. Tracked'
    BY <1>1, <2>1, <2>2 DEF Fail, Tracked, Posting, ActiveRefresh, InFlight
  <2>6. Gone' /\ WaitersGetFreshTokens'
    BY <1>1, <2>1, <2>2 DEF Fail, Gone, WaitersGetFreshTokens, Posting
  <2> QED
    BY <2>3, <2>4, <2>5, <2>6
<1>2. CASE Settle(r)
  <2>1. /\ refresh' \in [Refresh -> RefreshState]
        /\ refresh'[r] = [pc |-> "over", from |-> None, result |-> None]
        /\ \A q \in Refresh \ {r} : refresh'[q] = refresh[q]
    BY <1>0, <1>2 DEF Settle, RefreshState
  <2>2. TypeOK'
    <3>1. waiting' \in [Caller -> Refresh \cup {None}]
      BY <1>2 DEF Settle, TypeOK
    <3>2. misled' \in BOOLEAN /\ overlapped' \in BOOLEAN /\ interrupted' \in BOOLEAN
      BY <1>2 DEF Settle, TypeOK
    <3> QED
      BY <1>2, <2>1, <3>1, <3>2 DEF Settle, TypeOK, RefreshState, backend
  <2>3. ~overlapped' => \A q \in Refresh : ActiveRefresh(q) => q = r
    BY <1>2 DEF Settle, Tracked, Active, ActiveRefresh, InFlight
  <2>4. Paired'
    BY <1>2, <2>1 DEF Settle, Paired, Posting, Right, backend
  <2>5. Tracked'
    BY <1>2, <2>1, <2>3 DEF Tracked, Posting, ActiveRefresh, InFlight
  <2>6. Gone'
    BY <1>2, <2>1 DEF Settle, Gone, Posting
  <2>7. ~overlapped => \A q \in Refresh : ~Posting(q)
    BY <1>2 DEF Settle, Tracked, Posting, ActiveRefresh, InFlight
  <2>8. WaitersGetFreshTokens'
    BY <1>2, <2>7 DEF Settle, WaitersGetFreshTokens, Stale, Posting
  <2> QED
    BY <2>2, <2>4, <2>5, <2>6, <2>8
<1> QED
  BY <1>1, <1>2

LEMMA InvStep == ASSUME IInv, [Next]_vars PROVE IInv'
<1> USE DEF IInv
<1>1. CASE start
  BY <1>1, RestartKeeps DEF start
<1>2. CASE stop
  <2>1. TypeOK'
    BY <1>2 DEF stop, TypeOK, backend
  <2>2. ~overlapped' => \A q \in Refresh : ~ActiveRefresh(q)
    BY <1>2 DEF stop, Active, ActiveRefresh
  <2>3. Tracked'
    BY <1>2, <2>2 DEF stop, Tracked, Posting, ActiveRefresh, InFlight
  <2>4. Paired' /\ Gone' /\ WaitersGetFreshTokens'
    BY <1>2 DEF stop, Paired, Gone, WaitersGetFreshTokens, Posting, Right, backend
  <2> QED
    BY <2>1, <2>3, <2>4
<1>3. CASE TimerFires
  <2>1. CASE timer.chunk /\ Schedule(refresh, life, session) /\ overlapped' = (overlapped \/ Active(refresh) # {})
    <3>1. running' \in BOOLEAN /\ interrupted' \in BOOLEAN
      BY <1>3 DEF TimerFires, TypeOK
    <3> QED
      BY <1>3, <2>1, <3>1, RestartKeeps DEF TimerFires
  <2>2. CASE ~timer.chunk /\ timer' = None /\ PerformRefresh(refresh, session) /\ UNCHANGED overlapped
    BY <1>3, <2>2, TimerKeeps DEF TimerFires, history
  <2> QED
    BY <1>3, <2>1, <2>2 DEF TimerFires
<1>4. CASE clearSession
  <2>1. TypeOK'
    BY <1>4 DEF clearSession, TypeOK, backend, manager, InTransit
  <2>2. Paired' /\ Tracked' /\ WaitersGetFreshTokens'
    BY <1>4 DEF clearSession, Paired, Tracked, WaitersGetFreshTokens, Posting, ActiveRefresh, Right,
                backend, manager
  <2>3. Gone'
    BY <1>4 DEF clearSession, Gone, Posting, InTransit, manager
  <2> QED
    BY <2>1, <2>2, <2>3
<1>5. ASSUME NEW t \in Token, Age(t) PROVE IInv'
  <2>1. life' \in [Token -> Life]
    BY <1>5 DEF Age, TypeOK, Life
  <2>2. TypeOK'
    BY <1>5, <2>1 DEF Age, TypeOK, manager, history
  <2>3. Paired' /\ Tracked' /\ Gone' /\ WaitersGetFreshTokens'
    BY <1>5 DEF Age, Paired, Tracked, Gone, WaitersGetFreshTokens, Posting, ActiveRefresh, Right,
                manager, history
  <2> QED
    BY <2>2, <2>3
<1>6. ASSUME NEW r \in Refresh, RefreshGoesOn(r) PROVE IInv'
  BY <1>6, AnswerKeeps, EndKeeps DEF RefreshGoesOn
<1>7. ASSUME NEW c \in Caller, waitForRefresh(c) PROVE IInv'
  <2>1. TypeOK'
    BY <1>7 DEF waitForRefresh, TypeOK, backend, manager
  <2>2. Paired' /\ Tracked' /\ Gone'
    BY <1>7 DEF waitForRefresh, Paired, Tracked, Gone, Posting, ActiveRefresh, Right, backend, manager
  <2>3. inflight = None /\ ~overlapped => \A r \in Refresh : ~Posting(r)
    BY RefreshAssumption DEF Tracked
  <2>4. WaitersGetFreshTokens'
    BY <1>7, <2>3 DEF waitForRefresh, WaitersGetFreshTokens, Stale, Posting
  <2> QED
    BY <2>1, <2>2, <2>4
<1>8. ASSUME NEW i \in SignIn, Authenticate(i) PROVE IInv'
  <2>1. signIn' \in [SignIn -> [pc : {"idle", "pending", "over"}, address : Account]]
    BY <1>8 DEF Authenticate, SignInGoes, TypeOK
  <2>2. TypeOK'
    BY <1>8, <2>1 DEF Authenticate, TypeOK, backend, manager, history
  <2>3. Paired' /\ Tracked' /\ Gone' /\ WaitersGetFreshTokens'
    BY <1>8 DEF Authenticate, Paired, Tracked, Gone, WaitersGetFreshTokens, Posting, ActiveRefresh,
                Right, backend, manager, history
  <2> QED
    BY <2>2, <2>3
<1>9. ASSUME NEW i \in SignIn, Verified(i) PROVE IInv'
  <2>1. signIn[i].address \in Account
    BY DEF TypeOK
  <2>2. PICK lf \in Life : Issue(signIn[i].address, lf)
    BY <1>9 DEF Verified
  <2>3. /\ issued + 1 \in Token /\ issued' = issued + 1 /\ issued' \in 0..MaxTokens
        /\ owner' \in [Token -> Account] /\ life' \in [Token -> Life]
        /\ owner'[issued + 1] = signIn[i].address
        /\ \A s \in Session \cup {None} : Right(s, owner, issued) => Right(s, owner', issued')
    BY <2>1, <2>2, IssueType
  <2>4. session' \in Session /\ Right(session', owner', issued')
    BY <1>9, <2>1, <2>3, RefreshAssumption DEF Verified, Session, Token, Right
  <2>5. signIn' \in [SignIn -> [pc : {"idle", "pending", "over"}, address : Account]]
    BY <1>9 DEF Verified, SignInGoes, TypeOK
  <2>6. TypeOK'
    BY <1>9, <2>3, <2>4, <2>5 DEF Verified, TypeOK, manager
  <2>7. \A r \in Refresh : /\ refresh[r].from \in Session \cup {None}
                           /\ refresh[r].result \in Session \cup {None}
    BY DEF TypeOK
  <2>8. Paired'
    BY <1>9, <2>3, <2>4, <2>7 DEF Verified, Paired, Posting, manager
  <2>9. Tracked' /\ Gone' /\ WaitersGetFreshTokens'
    BY <1>9 DEF Verified, Tracked, Gone, WaitersGetFreshTokens, Posting, ActiveRefresh, manager
  <2> QED
    BY <2>6, <2>8, <2>9
<1>10. CASE UNCHANGED vars
  <2>1. TypeOK'
    BY <1>10 DEF vars, TypeOK, backend, manager, history
  <2>2. Paired' /\ Tracked' /\ Gone' /\ WaitersGetFreshTokens'
    BY <1>10 DEF vars, Paired, Tracked, Gone, WaitersGetFreshTokens, Posting, ActiveRefresh, Right,
                backend, manager, history
  <2> QED
    BY <2>1, <2>2
<1> QED
  BY <1>1, <1>2, <1>3, <1>4, <1>5, <1>6, <1>7, <1>8, <1>9, <1>10 DEF Next

\* The variables have their types in every reachable state.
THEOREM TypeCorrect == Spec => []TypeOK
<1>1. IInv => TypeOK
  BY DEF IInv
<1> QED
  BY <1>1, InvInit, InvStep, PTL DEF Spec

\* A stored session pairs no account's token with another's address: a refresh saves
\* its token with the address it read together with the token it sent.
THEOREM SessionsPaired == Spec => []SessionIsPaired
BY InvInit, InvStep, InvImplies, PTL DEF Spec

\* One POST in flight, unless start() or stop() came in between.
THEOREM OneRefresh == Spec => []SingleFlight
BY InvInit, InvStep, InvImplies, PTL DEF Spec

\* A logout with nothing in flight is final until somebody signs in.
THEOREM LogoutFinal == Spec => []LogoutHolds
BY InvInit, InvStep, InvImplies, PTL DEF Spec

\* Whoever waits for the refresh is handed no token that is being replaced.
THEOREM FreshTokens == Spec => []WaitersGetFreshTokens
BY InvInit, InvStep, InvImplies, PTL DEF Spec

-----------------------------------------------------------------------------
(* When a refresh begins.                                                  *)

\* A refresh that begins in a step posts for a token that has come within its margin, or
\* on the word of a timer that was armed for another.
BeginsInTime ==
  \A r \in Refresh :
    refresh[r].pc = "idle" /\ refresh'[r].pc = "posting"
      => LET t == refresh'[r].from.token
         IN life'[t] = "near" \/ (timer # None /\ timer.token # t)

\* start() begins one only for a token within its margin.
LEMMA ScheduledInTime ==
  ASSUME NEW ref \in [Refresh -> RefreshState], NEW lf \in [Token -> Life],
         NEW s \in Session \cup {None}, Schedule(ref, lf, s),
         NEW r \in Refresh, ref[r].pc # "posting", refresh'[r].pc = "posting"
  PROVE  lf[refresh'[r].from.token] = "near"
<1>1. PICK q \in Refresh : Distance(lf, s) = "near" /\ refresh' = Begin(ref, q, s)
  BY DEF Schedule, NextIdle, Idle
<1>2. /\ refresh'[q] = [pc |-> IF s = None THEN "settling" ELSE "posting", from |-> s, result |-> None]
      /\ \A p \in Refresh \ {q} : refresh'[p] = ref[p]
  BY <1>1, BeginType
<1>3. refresh'[r].from = s /\ s # None
  BY <1>2
<1> QED
  BY <1>1, <1>3 DEF Distance

LEMMA StepInTime == ASSUME IInv, [Next]_vars PROVE BeginsInTime
<1> USE DEF IInv
<1> SUFFICES ASSUME NEW r \in Refresh, refresh[r].pc = "idle", refresh'[r].pc = "posting"
             PROVE  \/ life'[refresh'[r].from.token] = "near"
                    \/ timer # None /\ timer.token # refresh'[r].from.token
  BY DEF BeginsInTime
<1>0. /\ refresh \in [Refresh -> RefreshState] /\ session \in Session \cup {None}
      /\ life \in [Token -> Life] /\ timer \in Timer \cup {None}
  BY DEF TypeOK, RefreshState
<1>1. ASSUME Schedule(refresh, life, session), life' = life PROVE life'[refresh'[r].from.token] = "near"
  BY <1>0, <1>1, ScheduledInTime
<1>2. CASE start
  BY <1>1, <1>2 DEF start, backend
<1>3. CASE TimerFires
  <2>1. CASE timer.chunk /\ Schedule(refresh, life, session)
    BY <1>1, <1>3, <2>1 DEF TimerFires, backend
  <2>2. CASE life[timer.token] = "near" /\ PerformRefresh(refresh, session)
    <3>1. PICK q \in Refresh : refresh' = Begin(refresh, q, session)
      BY <2>2 DEF PerformRefresh, NextIdle, Idle
    <3>2. /\ refresh'[q] = [pc |-> IF session = None THEN "settling" ELSE "posting",
                            from |-> session, result |-> None]
          /\ \A p \in Refresh \ {q} : refresh'[p] = refresh[p]
      BY <1>0, <3>1, BeginType
    <3>3. timer # None /\ life' = life
      BY <1>3 DEF TimerFires, backend
    <3> QED
      BY <2>2, <3>3
  <2> QED
    BY <1>3, <2>1, <2>2 DEF TimerFires
<1>4. ASSUME NEW q \in Refresh, Answer(q) PROVE life'[refresh'[r].from.token] = "near"
  <2>0. q # r /\ refresh[q].pc = "posting"
    BY <1>4 DEF Answer
  <2>1. /\ refresh[q].from \in Session /\ refresh[q].from.address \in Account
        /\ owner[refresh[q].from.token] \in Account
    BY <1>0, <2>0 DEF Paired, Right, Posting, Session, TypeOK
  <2> DEFINE new == [token |-> issued + 1, address |-> refresh[q].from.address]
  <2>2. PICK lf \in Life :
          /\ Issue(owner[refresh[q].from.token], lf)
          /\ Schedule(Settling(q, new), life', new) \/ refresh' = Settling(q, None)
    BY <1>4 DEF Answer
  <2>3. issued + 1 \in Token /\ life' \in [Token -> Life]
    BY <2>1, <2>2, IssueType
  <2>4. new \in Session \cup {None} /\ None \in Session \cup {None}
    BY <2>1, <2>3 DEF Session
  <2> HIDE DEF new
  <2>5. \A s \in Session \cup {None} : /\ Settling(q, s) \in [Refresh -> RefreshState]
                                       /\ Settling(q, s)[r] = refresh[r]
    <3> SUFFICES ASSUME NEW s \in Session \cup {None}
                 PROVE  /\ Settling(q, s) \in [Refresh -> RefreshState]
                        /\ Settling(q, s)[r] = refresh[r]
      OBVIOUS
    <3>1. /\ Settling(q, s) \in [Refresh -> RefreshState]
          /\ \A p \in Refresh \ {q} : Settling(q, s)[p] = refresh[p]
      BY SettlingType
    <3> QED
      BY <2>0, <3>1
  <2>6. Schedule(Settling(q, new), life', new)
    BY <2>2, <2>4, <2>5
  <2> QED
    BY <2>3, <2>4, <2>5, <2>6, ScheduledInTime
<1>5. ASSUME NEW q \in Refresh, Fail(q) \/ Settle(q) PROVE FALSE
  BY <1>0, <1>5 DEF Fail, Settle, Settling, RefreshState
<1>6. CASE stop \/ clearSession \/ UNCHANGED vars
  BY <1>6 DEF stop, clearSession, vars, manager
<1>7. CASE \/ \E t \in Token : Age(t)
           \/ \E c \in Caller : waitForRefresh(c)
           \/ \E i \in SignIn : Authenticate(i) \/ Verified(i)
  BY <1>7 DEF Age, waitForRefresh, Authenticate, Verified, manager
<1> QED
  BY <1>2, <1>3, <1>4, <1>5, <1>6, <1>7 DEF Next, RefreshGoesOn

\* A refresh posts for a token that has come within the margin of its expiry (refreshLeadMs, by
\* default 60 s, and the 5 s of MIN_SCHEDULE_MARGIN_MS for a start), whatever start() or timer
\* begins it, unless the timer that begins it was armed for a token since replaced.
THEOREM InTime == Spec => NeverTooEarly
<1>1. IInv /\ [Next]_vars => [BeginsInTime]_vars
  BY StepInTime
<1> QED
  BY <1>1, InvInit, InvStep, PTL DEF Spec, NeverTooEarly, BeginsInTime

=============================================================================
