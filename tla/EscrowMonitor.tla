--------------------------- MODULE EscrowMonitor ---------------------------
(***************************************************************************)
(* escrow/monitor.ts, resilient polling: one EscrowMonitor, the loops that *)
(* calls of startResilientPolling start, the cursor store they use and the *)
(* contract's events, which the RPC node serves in pages. The process may  *)
(* crash; the integrator's store survives it.                              *)
(*                                                                         *)
(* Events are numbered in the order of the ledger, and an event's paging   *)
(* token is its number: a cursor is the last event seen, 0 for none. Only  *)
(* those that parseEvents returns have a number; it drops the others, of a *)
(* type it does not know or malformed, but they take up room in a page:    *)
(* position says where the numbered ones lie among them. The dedup window  *)
(* is kept by age: age[e] keys were remembered since e was, and a key of   *)
(* age Window is forgotten.                                                *)
(*                                                                         *)
(* stopPolling cannot interrupt a tick that awaits the store or the node:  *)
(* it goes on, and when polling was started again in the meantime it also  *)
(* schedules itself, as a second loop.                                     *)
(***************************************************************************)
EXTENDS Naturals, FiniteSets

CONSTANTS Loop,        \* the calls of startResilientPolling
          Length,      \* bound: the events that are ever emitted
          Layouts,     \* how the parsed events may lie among all that the contract emits
          PageSize,    \* the fetcher's limit
          Window,      \* dedupSize
          MaxFailures, \* bound: fetches, store calls and callbacks that fail
          None,        \* no timer
          Shared       \* the integrator's store

ASSUME MonitorAssumption ==
  /\ Length \in Nat /\ MaxFailures \in Nat
  /\ PageSize \in Nat \ {0} /\ Window \in Nat \ {0}
  /\ None \notin Loop /\ Shared \notin Loop

ASSUME LayoutAssumption ==
  \A p \in Layouts :
    p \in [0..Length -> Nat] /\ \A c, e \in 0..Length : c <= e => e - c <= p[e] - p[c]

Event == 1..Length
Cursor == 0..Length

VARIABLES
  published,  \* the events emitted so far
  position,   \* position[e]: how many events the contract emits up to e
  persistent, \* whether options.store is given; else each loop has a store in memory
  saved,      \* saved[s]: the cursor in store s
  pc,         \* pc[l]: idle, reading, fetching, receiving, saving, sleeping, over
  cursor,     \* cursor[l]: the cursor the tick of l works with
  upto,       \* upto[l]: the last event of the page l is given
  stopped,    \* resilientStopped
  timer,      \* resilientTimer
  age,        \* seenKeys
  lastCursor, \* lastCursor
  heard,      \* history: the events handlers were given, ever
  latest,     \* history: the last event delivered since the last start, 0 before
  overlapped, \* history: polling was started while another loop was alive
  misread,    \* history: a store read failed since the window was last reset
  unsaved,    \* history: a store write failed
  threw,      \* history: a handler or another callback threw
  failures    \* how many fetches, store calls and callbacks failed

settings == <<persistent, position>>
loops == <<pc, cursor, upto>>
monitor == <<stopped, timer, age, lastCursor>>
history == <<heard, latest, overlapped, misread, unsaved, threw>>
vars == <<published, settings, saved, loops, monitor, history, failures>>

InFlight == {"reading", "fetching", "receiving", "saving"}
Alive(l) == pc[l] \in InFlight \cup {"sleeping"}

TypeOK == /\ published \in Cursor /\ position \in Layouts /\ persistent \in BOOLEAN
          /\ saved \in [Loop \cup {Shared} -> Cursor]
          /\ pc \in [Loop -> InFlight \cup {"idle", "sleeping", "over"}]
          /\ cursor \in [Loop -> Cursor] /\ upto \in [Loop -> Cursor]
          /\ stopped \in BOOLEAN /\ timer \in Loop \cup {None}
          /\ age \in [Event -> 0..Window] /\ lastCursor \in Cursor
          /\ heard \in SUBSET Event /\ latest \in Cursor
          /\ overlapped \in BOOLEAN /\ misread \in BOOLEAN
          /\ unsaved \in BOOLEAN /\ threw \in BOOLEAN
          /\ failures \in 0..MaxFailures

Init == /\ published = 0 /\ position \in Layouts /\ persistent \in BOOLEAN
        /\ saved = [s \in Loop \cup {Shared} |-> 0]
        /\ pc = [l \in Loop |-> "idle"]
        /\ cursor = [l \in Loop |-> 0] /\ upto = [l \in Loop |-> 0]
        /\ stopped = TRUE /\ timer = None
        /\ age = [e \in Event |-> Window] /\ lastCursor = 0
        /\ heard = {} /\ latest = 0
        /\ overlapped = FALSE /\ misread = FALSE
        /\ unsaved = FALSE /\ threw = FALSE /\ failures = 0

-----------------------------------------------------------------------------
Store(l) == IF persistent THEN Shared ELSE l
Goto(l, s) == pc' = [pc EXCEPT ![l] = s]

\* Something fails, within the bound of the model.
Fail == failures < MaxFailures /\ failures' = failures + 1

\* clearTimeout(resilientTimer): a timer that another one has replaced is not
\* reached, nor is a tick in flight.
Cleared(l) == timer = l /\ pc[l] = "sleeping"
Remaining == [l \in Loop |-> IF Cleared(l) THEN "over" ELSE pc[l]]

stopPolling == /\ ~stopped /\ stopped' = TRUE
               /\ pc' = Remaining /\ timer' = None
               /\ UNCHANGED <<published, settings, saved, cursor, upto, age, lastCursor,
                              history, failures>>

\* startResilientPolling: stopPolling first; without options.resume the window and
\* the cursor are reset; the first tick runs up to its read of the store. Loops
\* differ in name only: they are taken in a fixed order.
startResilientPolling(l, resume) ==
  /\ pc[l] = "idle" /\ l = CHOOSE o \in Loop : pc[o] = "idle"
  /\ pc' = [Remaining EXCEPT ![l] = "reading"]
  /\ stopped' = FALSE /\ timer' = None
  /\ IF resume THEN UNCHANGED <<age, lastCursor>>
     ELSE age' = [e \in Event |-> Window] /\ lastCursor' = 0
  /\ latest' = 0 /\ misread' = (misread /\ resume)
  /\ overlapped' = (overlapped \/ \E o \in Loop : Alive(o) /\ ~Cleared(o))
  /\ UNCHANGED <<published, settings, saved, cursor, upto, heard, unsaved, threw, failures>>

\* A tick ends, and its local variables with it.
EndTick(l, s) == /\ Goto(l, s)
                 /\ cursor' = [cursor EXCEPT ![l] = 0] /\ upto' = [upto EXCEPT ![l] = 0]

\* The stop flag is read where the next tick is scheduled, and where it begins.
schedule(l) == IF stopped THEN EndTick(l, "over") /\ UNCHANGED timer
               ELSE EndTick(l, "sleeping") /\ timer' = l

Wake(l) == /\ pc[l] = "sleeping"
           /\ Goto(l, IF stopped THEN "over" ELSE "reading")
           /\ UNCHANGED <<published, settings, saved, cursor, upto, monitor, history, failures>>

-----------------------------------------------------------------------------
(* A tick: read the cursor, fetch a page, deliver what is new, save.       *)

Read(l) == /\ pc[l] = "reading" /\ Goto(l, "fetching")
           /\ cursor' = [cursor EXCEPT ![l] =
                           IF saved[Store(l)] # 0 THEN saved[Store(l)] ELSE lastCursor]
           /\ UNCHANGED <<published, settings, saved, upto, monitor, history, failures>>

\* The read fails: the tick goes on without a cursor, not with lastCursor.
ReadFails(l) ==
  /\ pc[l] = "reading" /\ persistent /\ Fail
  /\ Goto(l, "fetching") /\ cursor' = [cursor EXCEPT ![l] = 0]
  /\ misread' = TRUE
  /\ UNCHANGED <<published, settings, saved, upto, monitor, heard, latest,
                 overlapped, unsaved, threw>>

\* What parseEvents makes of the page after cursor c.
Parsed(c) == {e \in Event : c < e /\ e <= published /\ position[e] <= position[c] + PageSize}

\* The node answers with the page after the cursor; the answer is on its way.
Answer(l) ==
  /\ pc[l] = "fetching" /\ Goto(l, "receiving")
  /\ \E last \in Parsed(cursor[l]) \cup {cursor[l]} :
       (\A e \in Parsed(cursor[l]) : e <= last) /\ upto' = [upto EXCEPT ![l] = last]
  /\ UNCHANGED <<published, settings, saved, cursor, monitor, history, failures>>

\* Faulty: after a failed fetch nothing is scheduled.
FetchFailsForGood(l) ==
  /\ pc[l] = "fetching" /\ Fail /\ EndTick(l, "over")
  /\ UNCHANGED <<published, settings, saved, monitor, history>>

\* Both attempts fail: the next tick comes after a backoff, unless onError or
\* onGapDetected throws, which ends the loop.
FetchFails(l) ==
  /\ pc[l] = "fetching" /\ Fail
  /\ \/ schedule(l) /\ UNCHANGED threw
     \/ EndTick(l, "over") /\ threw' = TRUE /\ UNCHANGED timer
  /\ UNCHANGED <<published, settings, saved, stopped, age, lastCursor, heard, latest,
                 overlapped, misread, unsaved>>

Seen == {e \in Event : age[e] < Window}
New(l) == {e \in Event : cursor[l] < e /\ e <= upto[l]} \ Seen

\* Faulty: the number of keys is not compared with dedupSize, and none is dropped.
AgedForEver(a, n) == a + n

\* Faulty: a key is dropped when the window is full, not when it overflows.
AgedTooSoon(a, n) == IF a + n + 1 < Window THEN a + n ELSE Window

\* remember: what the age of a key becomes when n keys are added after it.
Aged(a, n) == IF a + n < Window THEN a + n ELSE Window

\* What the handlers are given, in the order of the ledger.
Deliver(batch) == /\ heard' = heard \cup batch
                  /\ IF batch = {} THEN UNCHANGED latest
                     ELSE latest' \in batch /\ \A e \in batch : e <= latest'

\* The answer arrives and what is new in it is delivered and remembered; an empty
\* batch saves nothing. Catching up changes only the delay of the next tick.
Receive(l) ==
  /\ pc[l] = "receiving"
  /\ \/ /\ New(l) = {} /\ schedule(l)
        /\ UNCHANGED <<age, lastCursor, heard, latest>>
     \/ \E newest \in New(l) :
          /\ \A e \in New(l) : e <= newest
          /\ Deliver(New(l))
          /\ age' = [e \in Event |->
                       IF e \in New(l) THEN Aged(0, Cardinality({f \in New(l) : f > e}))
                       ELSE Aged(age[e], Cardinality(New(l)))]
          /\ lastCursor' = newest /\ cursor' = [cursor EXCEPT ![l] = newest]
          /\ upto' = [upto EXCEPT ![l] = 0]
          /\ Goto(l, "saving") /\ UNCHANGED timer
  /\ UNCHANGED <<published, settings, saved, stopped, overlapped, misread, unsaved,
                 threw, failures>>

\* Faulty: the exception is caught around the batch, and the page counts as done.
HandlerThrowsCaught(l) ==
  /\ pc[l] = "receiving" /\ Fail
  /\ \E e, newest \in New(l) :
       /\ \A f \in New(l) : f <= newest
       /\ Deliver({f \in New(l) : f < e})
       /\ lastCursor' = newest /\ cursor' = [cursor EXCEPT ![l] = newest]
  /\ Goto(l, "saving") /\ threw' = TRUE
  /\ UNCHANGED <<published, settings, saved, upto, stopped, timer, age, overlapped,
                 misread, unsaved>>

\* A handler throws at event e, or (e = 0) onReconnect or onGapDetected before any:
\* what comes before e was delivered, nothing is remembered, and the loop ends.
HandlerThrows(l) ==
  /\ pc[l] = "receiving" /\ Fail
  /\ \E e \in New(l) \cup {0} : Deliver({f \in New(l) : f < e})
  /\ EndTick(l, "over") /\ threw' = TRUE
  /\ UNCHANGED <<published, settings, saved, monitor, overlapped, misread, unsaved>>

Save(l) == /\ pc[l] = "saving" /\ schedule(l)
           /\ saved' = [saved EXCEPT ![Store(l)] = cursor[l]]
           /\ UNCHANGED <<published, settings, stopped, age, lastCursor, history, failures>>

\* A failed write is logged and not repeated.
SaveFails(l) == /\ pc[l] = "saving" /\ persistent /\ Fail /\ schedule(l)
                /\ unsaved' = TRUE
                /\ UNCHANGED <<published, settings, saved, stopped, age, lastCursor, heard,
                               latest, overlapped, misread, threw>>

-----------------------------------------------------------------------------
(* The contract emits an event; the process dies, and only the shared      *)
(* store is left of it.                                                    *)

Publish == /\ published < Length /\ published' = published + 1
           /\ UNCHANGED <<settings, saved, loops, monitor, history, failures>>

Crash == /\ \E l \in Loop : pc[l] # "idle"
         /\ pc' = [l \in Loop |-> IF pc[l] = "idle" THEN "idle" ELSE "over"]
         /\ cursor' = [l \in Loop |-> 0] /\ upto' = [l \in Loop |-> 0]
         /\ stopped' = TRUE /\ timer' = None
         /\ age' = [e \in Event |-> Window] /\ lastCursor' = 0
         /\ latest' = 0 /\ overlapped' = FALSE /\ misread' = FALSE
         /\ unsaved' = FALSE /\ threw' = FALSE
         /\ UNCHANGED <<published, settings, saved, heard, failures>>

Tick(l) == Wake(l) \/ Read(l) \/ Answer(l) \/ Receive(l) \/ Save(l)

Next == \/ stopPolling \/ Publish \/ Crash
        \/ \E l \in Loop :
             \/ \E resume \in BOOLEAN : startResilientPolling(l, resume)
             \/ Tick(l)
             \/ ReadFails(l) \/ FetchFails(l) \/ HandlerThrows(l) \/ SaveFails(l)

\* fetchFn and the store settle, and timers fire: a tick goes on.
Fairness == \A l \in Loop : WF_vars(Tick(l))
Spec == Init /\ [][Next]_vars /\ Fairness

-----------------------------------------------------------------------------
\* A cursor never passes an event that no handler was given: whatever fails,
\* overlaps or crashes, a loop that starts from it misses nothing. The cursor
\* moves over a page only after the page, less what is in the window, is delivered.
NothingSkipped ==
  \A c \in {lastCursor} \cup {saved[s] : s \in Loop \cup {Shared}} : 1..c \subseteq heard

\* The window holds a page, no older loop is still running and no read of the store
\* failed: the tick then begins at the beginning, and with it the window, which a session
\* that resumes takes over. Failed writes of the cursor disturb no session.
Calm == Window >= PageSize /\ ~overlapped /\ ~misread

\* The abstract stream, seen in the state of the manager.
Stream == INSTANCE EventStream WITH
            emitted   <- published,
            delivered <- heard,
            cursors   <- {lastCursor} \cup {saved[s] : s \in Loop \cup {Shared}},
            orderly   <- Calm

\* Polling implements the abstract stream: events are delivered for the first time in
\* the order of the ledger, none left out, whatever fails, overlaps or crashes; and a calm
\* session goes on from a cursor, in order, without holes and once.
ImplementsStream == Stream!Spec

\* No page on the way to event e is without a parsed event. The cursor is the last
\* parsed one: of a page without any there is nothing to move it.
Reachable(e) == \A f \in 1..e : position[f] <= position[f - 1] + PageSize

\* While polling is on, every event gets to the handlers in the end, whatever
\* fetches fail, unless parseEvents drops a whole page before it, a call of the store
\* failed, a handler threw, or polling was restarted during a tick. A failed read is
\* an exception as a failed write is: the stream is delivered again from its
\* beginning, and a page of it that is in the window stops the cursor.
EventsArrive ==
  \A e \in Event :
    e <= published /\ Reachable(e) /\ ~stopped
      ~> e \in heard \/ stopped \/ overlapped \/ misread \/ unsaved \/ threw

\* The same with a store write that fails, which the code logs and tolerates. It
\* is violated: a page that was delivered and not saved is fetched and discarded
\* for ever, because only a page with something new in it is saved.
EventsArriveAfterFailedWrite ==
  \A e \in Event :
    e <= published /\ Reachable(e) /\ ~stopped
      ~> e \in heard \/ stopped \/ overlapped \/ misread \/ threw

=============================================================================
