--------------------------- MODULE BalanceMonitor ---------------------------
(***************************************************************************)
(* stellar/monitor.ts: AccountBalanceMonitor. One check of the balance is  *)
(* under way at most, which everyone shares who asks meanwhile; it awaits  *)
(* the handlers of its events one after the other. How many handlers an    *)
(* event has is asked when it is emitted, because on and off may have      *)
(* changed it.                                                             *)
(***************************************************************************)
EXTENDS Naturals

CONSTANT MaxHandlers \* bound: the handlers of an event

ASSUME MonitorAssumption == MaxHandlers \in Nat

VARIABLES
  started,  \* running
  timer,    \* the interval ticks
  pending,  \* pendingCheck is set
  stage,    \* what the check is doing
  handlers, \* how many handlers of the stage's event it has still to await
  low,      \* the balance it has read calls for an alert
  hung      \* history: a handler of the check will never settle

monitorVars == <<started, timer, pending, stage, handlers, low, hung>>

Emitting == {"update", "alert", "error"}

MonitorTypeOK ==
  /\ started \in BOOLEAN /\ timer \in BOOLEAN /\ pending \in BOOLEAN
  /\ stage \in {"none", "fetch", "webhook", "settled"} \cup Emitting
  /\ handlers \in 0 .. MaxHandlers /\ low \in BOOLEAN /\ hung \in BOOLEAN

MonitorInit ==
  /\ started = FALSE /\ timer = FALSE /\ pending = FALSE
  /\ stage = "none" /\ handlers = 0 /\ low = FALSE /\ hung = FALSE

-----------------------------------------------------------------------------
\* checkNow: a check is begun if none is pending.
Begin == IF pending THEN UNCHANGED <<pending, stage>> ELSE pending' = TRUE /\ stage' = "fetch"

\* Called by the application, by a handler of its own accord, or by the interval.
CheckNow == /\ Begin /\ ~pending /\ UNCHANGED <<started, timer, handlers, low, hung>>

Tick == timer /\ CheckNow

\* A check that was pending when the monitor was stopped serves the start after it.
StartMonitor == /\ ~started /\ started' = TRUE /\ timer' = TRUE /\ Begin
                /\ UNCHANGED <<handlers, low, hung>>

StopMonitor == /\ started /\ started' = FALSE /\ timer' = FALSE
               /\ UNCHANGED <<pending, stage, handlers, low, hung>>

-----------------------------------------------------------------------------
(* runCheck.                                                               *)

Emit(event) == stage' = event /\ handlers' \in 0 .. MaxHandlers

FetchAnswers == /\ stage = "fetch" /\ Emit("update") /\ low' \in BOOLEAN
                /\ UNCHANGED <<started, timer, pending, hung>>

FetchFails == /\ stage = "fetch" /\ Emit("error")
              /\ UNCHANGED <<started, timer, pending, low, hung>>

\* A handler that throws or rejects is one that settles.
HandlerSettles == /\ stage \in Emitting /\ handlers > 0 /\ ~hung /\ handlers' = handlers - 1
                  /\ UNCHANGED <<started, timer, pending, stage, low, hung>>

\* It never settles: for example because it awaits checkNow, and so this very check.
HandlerHangs == /\ stage \in Emitting /\ handlers > 0 /\ ~hung /\ hung' = TRUE
                /\ UNCHANGED <<started, timer, pending, stage, handlers, low>>

\* The event has been handled. An alert also goes to the webhook, if there is one.
Emitted ==
  /\ stage \in Emitting /\ handlers = 0
  /\ IF stage = "update" /\ low THEN Emit("alert")
     ELSE UNCHANGED handlers /\ stage' \in {"settled"} \cup {s \in {"webhook"} : stage = "alert"}
  /\ UNCHANGED <<started, timer, pending, low, hung>>

\* The webhook was notified, or not, which is only logged.
WebhookEnds == /\ stage = "webhook" /\ stage' = "settled"
               /\ UNCHANGED <<started, timer, pending, handlers, low, hung>>

\* Faulty: the check is forgotten only while the monitor runs.
ForgetWhenRunning == /\ stage = "settled" /\ stage' = "none" /\ low' = FALSE
                     /\ pending' = ~started /\ UNCHANGED <<started, timer, handlers, hung>>

\* The check has settled; its finally clause.
Forget == /\ stage = "settled" /\ stage' = "none" /\ low' = FALSE
          /\ pending' = FALSE /\ UNCHANGED <<started, timer, handlers, hung>>

-----------------------------------------------------------------------------
Serve == HandlerSettles \/ Emitted \/ WebhookEnds \/ Forget

MonitorNext == \/ StartMonitor \/ StopMonitor \/ CheckNow \/ Tick
               \/ FetchAnswers \/ FetchFails \/ HandlerHangs \/ Serve

\* The interval ticks; a fetch is answered or meets the deadline of the SDK's own
\* fetchFn; a handler that does not hang settles; the webhook has a deadline.
MonitorFairness ==
  /\ WF_monitorVars(Tick)
  /\ WF_monitorVars(FetchAnswers \/ FetchFails)
  /\ WF_monitorVars(Serve)

MonitorSpec == MonitorInit /\ [][MonitorNext]_monitorVars /\ MonitorFairness

-----------------------------------------------------------------------------
\* A monitor that is left running asks for the balance again and again, however often it
\* was stopped and started before and with whatever its handlers throw, unless one of
\* them never settles.
ChecksGoOn == <>[](started /\ ~hung) => []<>(stage = "fetch")

=============================================================================
