-------------------------------- MODULE Hooks --------------------------------
(***************************************************************************)
(* The React hooks of src/hooks, one of them mounted. All but useWallet    *)
(* number their calls (callIdRef, requestIdRef, or an AbortController) and *)
(* let only the latest one change what is shown; useEscrow may show the    *)
(* expected result of a call before its answer.                            *)
(*                                                                         *)
(* A call is one use of an action of the hook, or a lookup its effect      *)
(* starts. React applies the state updates of one turn together, and runs  *)
(* the effect some time after it rendered another address.                 *)
(***************************************************************************)
EXTENDS Calls

CONSTANT Account \* the addresses that are rendered

ASSUME HooksAssumption == None \notin Account

VARIABLES
  hook,      \* which of the hooks is mounted
  latest,    \* the call whose number is the current one, None if none has it
  loading,   \* loading; isPending of useTransaction
  error,     \* an error is shown
  shown,     \* the data: escrow, hash, profile, settled balance, wallet; or None
  rendered,  \* the address the component was last rendered with, None without one
  effective, \* and the one its effect last ran for
  use,       \* use[c]: what call c does, where it stands, and what it has captured
  usurped,   \* history: an optimistic call was superseded before its answer
  overtaken, \* history of useWallet: a connect was open at the last disconnect
  departed,  \* history of useWallet: disconnected, and not asked to connect since
  overlapped, \* history of useWallet: two connects were open at once, and one still is
  renders,   \* history: the addresses of the renders so far, whose functions may be kept
  outdated   \* history: an update of an earlier render was called since the last effect

display == <<latest, loading, error, shown>>
history == <<usurped, overtaken, departed, overlapped, renders, outdated>>
hooksVars == <<hook, display, rendered, effective, use, history>>

Hook == {"useEscrow", "useTransaction", "useProfile", "useJuror", "useBalance", "useWallet"}

\* What is shown: whose answer it is, for which address, and if it is only expected.
Data == [of : Call, for : Account \cup {None}, pending : BOOLEAN]

Idle == [pc |-> "idle", kind |-> "none", optimistic |-> FALSE, for |-> None, previous |-> None]

HooksTypeOK ==
  /\ hook \in Hook /\ latest \in Call \cup {None} /\ loading \in BOOLEAN /\ error \in BOOLEAN
  /\ shown \in Data \cup {None}
  /\ rendered \in Account \cup {None} /\ effective \in Account \cup {None}
  /\ use \in [Call -> [pc : {"idle", "open", "over"},
                       kind : {"none", "create", "release", "act", "read"},
                       optimistic : BOOLEAN, for : Account \cup {None},
                       previous : Data \cup {None}]]
  /\ usurped \in BOOLEAN /\ overtaken \in BOOLEAN /\ departed \in BOOLEAN /\ overlapped \in BOOLEAN
  /\ renders \subseteq Account \cup {None} /\ outdated \in BOOLEAN

HooksInit ==
  /\ hook \in Hook /\ latest = None /\ loading = FALSE /\ error = FALSE /\ shown = None
  /\ rendered = None /\ effective = None /\ use = [c \in Call |-> Idle]
  /\ usurped = FALSE /\ overtaken = FALSE /\ departed = FALSE /\ overlapped = FALSE
  /\ renders = {None} /\ outdated = FALSE

Open == {c \in Call : use[c].pc = "open"}

\* The call does what it does for address a.
Opened(c, kind, optimistic, a) ==
  /\ use[c].pc = "idle"
  /\ use' = [use EXCEPT ![c] = [pc |-> "open", kind |-> kind, optimistic |-> optimistic,
                                for |-> a, previous |-> shown]]

Answered(c) == use[c].pc = "open" /\ use' = [use EXCEPT ![c] = [Idle EXCEPT !.pc = "over"]]

\* A new call takes the number of one that shows its expected result.
Usurp == usurped' = (usurped \/ (latest \in Open /\ use[latest].optimistic))

-----------------------------------------------------------------------------
(* useEscrow.                                                              *)

\* create and release show what they expect if they are asked to: a placeholder, or the
\* escrow that is shown, if there is one, as released. cancel and dispute ("act") and
\* refresh ("read") expect nothing.
StartEscrow(c, kind, optimistic) ==
  /\ hook = "useEscrow" /\ (optimistic => kind \in {"create", "release"})
  /\ Opened(c, kind, optimistic, None)
  /\ latest' = c /\ loading' = TRUE /\ error' = FALSE
  /\ shown' = IF ~optimistic THEN shown
              ELSE IF kind = "create" THEN [of |-> c, for |-> None, pending |-> TRUE]
              ELSE IF shown = None THEN None ELSE [shown EXCEPT !.pending = TRUE]
  /\ Usurp /\ UNCHANGED <<hook, rendered, effective, overtaken, departed, overlapped, renders,
                         outdated>>

\* Only the answer of the latest call counts. A read may find no escrow.
EscrowAnswers(c) ==
  /\ hook = "useEscrow" /\ Answered(c)
  /\ IF latest = c
     THEN /\ loading' = FALSE
          /\ \/ /\ use[c].kind \in {"create", "read"}
                /\ shown' = [of |-> c, for |-> None, pending |-> FALSE]
             \/ use[c].kind = "read" /\ shown' = None
             \/ /\ use[c].kind = "release"
                /\ shown' = IF use[c].optimistic /\ shown # None
                            THEN [shown EXCEPT !.pending = FALSE] ELSE shown
             \/ use[c].kind = "act" /\ UNCHANGED shown
     ELSE UNCHANGED <<loading, shown>>
  /\ UNCHANGED <<hook, latest, error, rendered, effective, history>>

\* Faulty: only a placeholder is rolled back, not a release.
EscrowFailsOnce(c) ==
  /\ hook = "useEscrow" /\ Answered(c)
  /\ IF latest = c
     THEN /\ loading' = FALSE /\ (error' = TRUE \/ (use[c].optimistic /\ UNCHANGED error))
          /\ shown' = IF use[c].optimistic /\ use[c].kind = "create" THEN use[c].previous ELSE shown
     ELSE UNCHANGED <<loading, error, shown>>
  /\ UNCHANGED <<hook, latest, rendered, effective, history>>

\* What was expected is rolled back to what was shown before. onOptimisticRollback may throw:
\* then no error is shown.
EscrowFails(c) ==
  /\ hook = "useEscrow" /\ Answered(c)
  /\ IF latest = c
     THEN /\ loading' = FALSE /\ (error' = TRUE \/ (use[c].optimistic /\ UNCHANGED error))
          /\ shown' = IF use[c].optimistic THEN use[c].previous ELSE shown
     ELSE UNCHANGED <<loading, error, shown>>
  /\ UNCHANGED <<hook, latest, rendered, effective, history>>

-----------------------------------------------------------------------------
(* useTransaction and useJuror.                                            *)

\* execute; vote, createVoteCommitment and revealVote.
StartAction(c) ==
  /\ hook \in {"useTransaction", "useJuror"} /\ Opened(c, "act", FALSE, None)
  /\ latest' = c /\ loading' = TRUE /\ error' = FALSE /\ shown' = None
  /\ UNCHANGED <<hook, rendered, effective, history>>

ActionSettles(c, ok) ==
  /\ hook \in {"useTransaction", "useJuror"} /\ Answered(c)
  /\ IF latest = c
     THEN /\ loading' = FALSE /\ error' = ~ok
          /\ shown' = IF ok /\ hook = "useTransaction"
                      THEN [of |-> c, for |-> None, pending |-> FALSE] ELSE shown
     ELSE UNCHANGED <<loading, error, shown>>
  /\ UNCHANGED <<hook, latest, rendered, effective, history>>

\* reset of useTransaction.
ResetStatus ==
  /\ hook = "useTransaction"
  /\ latest' = None /\ loading' = FALSE /\ error' = FALSE /\ shown' = None
  /\ UNCHANGED <<hook, rendered, effective, use, history>>

-----------------------------------------------------------------------------
(* useProfile and useBalance.                                              *)

\* The component is rendered with another address, or without one; React runs an effect
\* before it renders again.
Render(a) ==
  /\ hook \in {"useProfile", "useBalance"} /\ effective = rendered
  /\ a # rendered /\ rendered' = a /\ renders' = renders \cup {a}
  /\ UNCHANGED <<hook, display, effective, use, usurped, overtaken, departed, overlapped, outdated>>

\* The cleanup and then the effect for the rendered address: nothing is shown until
\* the lookup it starts has answered. useBalance derives loading from that.
Effect(c) ==
  /\ hook \in {"useProfile", "useBalance"} /\ effective # rendered
  /\ effective' = rendered /\ error' = FALSE /\ shown' = None
  /\ IF rendered = None
     THEN latest' = None /\ loading' = FALSE /\ UNCHANGED use
     ELSE latest' = c /\ loading' = TRUE /\ Opened(c, "read", FALSE, rendered)
  /\ outdated' = FALSE
  /\ UNCHANGED <<hook, rendered, usurped, overtaken, departed, overlapped, renders>>

\* update of useProfile, as a render with address a made it: the present one, or one before
\* it, whose update somebody kept. It takes the newest number for its own address; without
\* an address it is an error.
UpdateProfile(c, a) ==
  /\ hook = "useProfile" /\ a \in renders
  /\ IF a = None THEN error' = TRUE /\ UNCHANGED <<latest, loading, use, outdated>>
     ELSE /\ Opened(c, "act", FALSE, a)
          /\ latest' = c /\ loading' = TRUE /\ error' = FALSE
          /\ outdated' = (outdated \/ a # rendered)
  /\ UNCHANGED <<hook, shown, rendered, effective, usurped, overtaken, departed, overlapped, renders>>

\* A lookup that fails shows nothing; an update that fails leaves what is shown.
AddressedSettles(c, ok) ==
  /\ hook \in {"useProfile", "useBalance"} /\ Answered(c)
  /\ IF latest = c
     THEN /\ loading' = FALSE /\ error' = ~ok
          /\ shown' = (IF ok THEN [of |-> c, for |-> use[c].for, pending |-> FALSE]
                       ELSE IF use[c].kind = "read" THEN None ELSE shown)
     ELSE UNCHANGED <<loading, error, shown>>
  /\ UNCHANGED <<hook, latest, rendered, effective, history>>

-----------------------------------------------------------------------------
(* useWallet, which does not number its calls.                             *)

\* connect, and retry.
ConnectWallet(c) ==
  /\ hook = "useWallet" /\ Opened(c, "act", FALSE, None)
  /\ loading' = TRUE /\ error' = FALSE /\ departed' = FALSE
  /\ overlapped' = (overlapped \/ Open # {})
  /\ UNCHANGED <<hook, latest, shown, rendered, effective, usurped, overtaken, renders, outdated>>

ConnectSettles(c, ok) ==
  /\ hook = "useWallet" /\ Answered(c)
  /\ loading' = FALSE
  /\ IF ok THEN shown' = [of |-> c, for |-> None, pending |-> FALSE] /\ UNCHANGED error
     ELSE error' = TRUE /\ UNCHANGED shown
  /\ overlapped' = (overlapped /\ Open # {c})
  /\ UNCHANGED <<hook, latest, rendered, effective, usurped, overtaken, departed, renders, outdated>>

\* reset, and disconnect, which revokes the sessions.
ResetError == /\ hook = "useWallet" /\ error' = FALSE
              /\ UNCHANGED <<hook, latest, loading, shown, rendered, effective, use, history>>

Disconnect == /\ hook = "useWallet" /\ shown' = None /\ error' = FALSE
              /\ departed' = TRUE /\ overtaken' = (Open # {})
              /\ UNCHANGED <<hook, latest, loading, rendered, effective, use, usurped, overlapped,
                             renders, outdated>>

-----------------------------------------------------------------------------
HooksNext ==
  \/ \E c \in Call, kind \in {"create", "release", "act", "read"}, optimistic \in BOOLEAN :
       StartEscrow(c, kind, optimistic)
  \/ \E c \in Call : EscrowAnswers(c) \/ EscrowFails(c)
  \/ \E c \in Call, ok \in BOOLEAN :
       ActionSettles(c, ok) \/ AddressedSettles(c, ok) \/ ConnectSettles(c, ok)
  \/ \E c \in Call : StartAction(c) \/ Effect(c) \/ ConnectWallet(c)
  \/ \E a \in Account \cup {None} : Render(a) \/ \E c \in Call : UpdateProfile(c, a)
  \/ ResetStatus \/ ResetError \/ Disconnect

HooksSpec == HooksInit /\ [][HooksNext]_hooksVars

-----------------------------------------------------------------------------
\* A hook says it is loading exactly while its latest call is open. useWallet, which does
\* not know which call is the latest, does so unless two of its connects overlap.
LoadingIsLatest ==
  IF hook = "useWallet" THEN (loading => Open # {}) /\ (~overlapped => (loading <=> Open # {}))
  ELSE loading <=> latest \in Open

\* What is only expected is shown only while the call that expects it is open, unless
\* another call took its number: then nobody commits it and nobody rolls it back.
PlaceholdersEnd ==
  ~usurped /\ shown # None => (shown.pending => latest \in Open /\ use[latest].optimistic)

\* What is shown belongs to the rendered address once the effect has run for it, even if
\* answers come in another order than the lookups were made, unless an update of an earlier
\* render was called since: that one shows the profile of its own address.
ShownIsRendered ==
  shown # None /\ hook \in {"useProfile", "useBalance"} /\ effective = rendered /\ ~outdated
    => shown.for = rendered

\* After a disconnect no wallet is shown until the next connect, unless one was open then.
DisconnectHolds == departed /\ ~overtaken => shown = None

\* What a hook shows agrees with its calls.
HooksAgree == LoadingIsLatest /\ PlaceholdersEnd /\ ShownIsRendered /\ DisconnectHolds

=============================================================================
