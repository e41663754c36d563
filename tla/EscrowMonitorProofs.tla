------------------------ MODULE EscrowMonitorProofs ------------------------
(***************************************************************************)
(* That no cursor of the monitor passes an undelivered event, for any      *)
(* number of loops and events and any sizes of page and window, and that a *)
(* session delivers in order and once. The first invariant adds what a     *)
(* tick relies on: the window holds delivered events only, and so does the *)
(* part of the stream before the cursor it reads; the second is below.     *)
(***************************************************************************)
EXTENDS EscrowMonitor, FiniteSetTheorems, TLAPS

USE DEF settings

UpTo(c, h) == 1..c \subseteq h
Delivered(c) == UpTo(c, heard)

WindowHeard == Seen \subseteq heard
TicksHeard == \A l \in Loop : Delivered(cursor[l])

IInv == TypeOK /\ WindowHeard /\ TicksHeard /\ NothingSkipped

\* A cursor is safe if it is the last one or in a store.
LEMMA SafeCursors ==
  ASSUME NothingSkipped
  PROVE  Delivered(lastCursor) /\ \A s \in Loop \cup {Shared} : Delivered(saved[s])
BY DEF NothingSkipped, Delivered, UpTo

\* The counts of the window are numbers: a batch is finite.
LEMMA BatchCounts ==
  ASSUME NEW l \in Loop, TypeOK
  PROVE  /\ Cardinality(New(l)) \in Nat
         /\ \A e \in Event : Cardinality({f \in New(l) : f > e}) \in Nat
<1>1. IsFiniteSet(Event)
  BY FS_Interval, MonitorAssumption DEF Event
<1>2. IsFiniteSet(New(l))
  BY <1>1, FS_Subset DEF New
<1>3. \A e \in Event : IsFiniteSet({f \in New(l) : f > e})
  BY <1>2, FS_Subset
<1> QED
  BY <1>2, <1>3, FS_CardinalityType

\* A key's age stays within the window.
LEMMA AgedType ==
  ASSUME NEW a \in 0..Window, NEW n \in Nat
  PROVE  Aged(a, n) \in 0..Window
BY MonitorAssumption DEF Aged

\* The remembered window after a batch holds what it held and the batch.
LEMMA AgedSeen ==
  ASSUME NEW a \in 0..Window, NEW n \in Nat, Aged(a, n) < Window
  PROVE  a < Window
BY MonitorAssumption DEF Aged

\* The bounds are values of the variables they bound.
LEMMA Bounds ==
  /\ 0 \in Cursor /\ Window \in 0..Window /\ 0 \in 0..MaxFailures
  /\ \A c \in Cursor : c < Length => c + 1 \in Cursor
  /\ \A n \in 0..MaxFailures : n < MaxFailures => n + 1 \in 0..MaxFailures
BY MonitorAssumption DEF Cursor

LEMMA InvInit == Init => IInv
<1> SUFFICES ASSUME Init PROVE IInv
  OBVIOUS
<1> USE MonitorAssumption DEF Init
<1>1. TypeOK
  BY Bounds DEF TypeOK
<1>2. WindowHeard
  BY DEF WindowHeard, Seen
<1>3. TicksHeard
  BY DEF TicksHeard, Delivered, UpTo
<1>4. NothingSkipped
  BY DEF NothingSkipped
<1> QED
  BY <1>1, <1>2, <1>3, <1>4 DEF IInv

\* What handlers are given is a set of events.
LEMMA DeliverTypes ==
  ASSUME TypeOK, NEW batch, batch \subseteq Event, Deliver(batch)
  PROVE  heard' \in SUBSET Event /\ latest' \in Cursor
<1>1. heard' \in SUBSET Event
  BY DEF TypeOK, Deliver
<1>2. Event \subseteq Cursor
  BY MonitorAssumption DEF Event, Cursor
<1>3. latest' \in batch \cup {latest}
  BY DEF Deliver
<1> QED
  BY <1>1, <1>2, <1>3 DEF TypeOK

\* Every step keeps the types.
LEMMA TypeStep == ASSUME TypeOK, [Next]_vars PROVE TypeOK'
<1> USE Bounds
<1>1. CASE stopPolling
  BY <1>1 DEF stopPolling, TypeOK, Remaining, history
<1>2. CASE Publish
  BY <1>2 DEF Publish, TypeOK, loops, monitor, history
<1>3. CASE Crash
  <2>1. /\ pc' \in [Loop -> InFlight \cup {"idle", "sleeping", "over"}]
        /\ cursor' \in [Loop -> Cursor] /\ upto' \in [Loop -> Cursor]
        /\ age' \in [Event -> 0..Window]
    BY <1>3 DEF Crash
  <2> QED
    BY <1>3, <2>1 DEF Crash, TypeOK
<1>4. ASSUME NEW l \in Loop, NEW resume \in BOOLEAN, startResilientPolling(l, resume)
      PROVE  TypeOK'
  <2>1. pc' \in [Loop -> InFlight \cup {"idle", "sleeping", "over"}]
    BY <1>4 DEF startResilientPolling, Remaining, TypeOK, InFlight
  <2>2. age' \in [Event -> 0..Window] /\ lastCursor' \in Cursor
    BY <1>4 DEF startResilientPolling, TypeOK
  <2>3. overlapped' \in BOOLEAN
    BY <1>4 DEF startResilientPolling, TypeOK
  <2> QED
    BY <1>4, <2>1, <2>2, <2>3 DEF startResilientPolling, TypeOK
<1>5. ASSUME NEW l \in Loop, Wake(l) PROVE TypeOK'
  BY <1>5 DEF Wake, Goto, TypeOK, InFlight, monitor, history
<1>6. ASSUME NEW l \in Loop, Read(l) \/ ReadFails(l) PROVE TypeOK'
  <2>1. Store(l) \in Loop \cup {Shared}
    BY DEF Store
  <2>2. cursor' \in [Loop -> Cursor]
    BY <1>6, <2>1 DEF Read, ReadFails, TypeOK
  <2>3. pc' \in [Loop -> InFlight \cup {"idle", "sleeping", "over"}]
    BY <1>6 DEF Read, ReadFails, Goto, TypeOK, InFlight
  <2> QED
    BY <1>6, <2>2, <2>3 DEF Read, ReadFails, Fail, TypeOK, monitor, history
<1>7. ASSUME NEW l \in Loop, Answer(l) PROVE TypeOK'
  <2>1. Parsed(cursor[l]) \cup {cursor[l]} \subseteq Cursor
    BY MonitorAssumption DEF Parsed, TypeOK, Cursor, Event
  <2>2. upto' \in [Loop -> Cursor]
    BY <1>7, <2>1 DEF Answer, TypeOK
  <2> QED
    BY <1>7, <2>2 DEF Answer, Goto, TypeOK, InFlight, monitor, history
<1>8. ASSUME NEW l \in Loop, NEW s \in {"sleeping", "over"}, EndTick(l, s)
      PROVE  /\ pc' \in [Loop -> InFlight \cup {"idle", "sleeping", "over"}]
             /\ cursor' \in [Loop -> Cursor] /\ upto' \in [Loop -> Cursor]
  BY <1>8 DEF EndTick, Goto, TypeOK
<1>9. ASSUME NEW l \in Loop, schedule(l)
      PROVE  /\ pc' \in [Loop -> InFlight \cup {"idle", "sleeping", "over"}]
             /\ cursor' \in [Loop -> Cursor] /\ upto' \in [Loop -> Cursor]
             /\ timer' \in Loop \cup {None}
  BY <1>8, <1>9 DEF schedule, TypeOK
<1>10. ASSUME NEW l \in Loop, FetchFails(l) PROVE TypeOK'
  <2>1. /\ pc' \in [Loop -> InFlight \cup {"idle", "sleeping", "over"}]
        /\ cursor' \in [Loop -> Cursor] /\ upto' \in [Loop -> Cursor]
        /\ timer' \in Loop \cup {None} /\ threw' \in BOOLEAN
    BY <1>10, <1>8, <1>9 DEF FetchFails, TypeOK
  <2> QED
    BY <1>10, <2>1 DEF FetchFails, Fail, TypeOK
<1>11. ASSUME NEW l \in Loop, Receive(l) PROVE TypeOK'
  <2>1. CASE New(l) = {} /\ schedule(l) /\ UNCHANGED <<age, lastCursor, heard, latest>>
    BY <2>1, <1>11, <1>9 DEF Receive, TypeOK
  <2>2. ASSUME NEW newest \in New(l),
               /\ Deliver(New(l))
               /\ age' = [e \in Event |->
                            IF e \in New(l)
                            THEN Aged(0, Cardinality({f \in New(l) : f > e}))
                            ELSE Aged(age[e], Cardinality(New(l)))]
               /\ lastCursor' = newest /\ cursor' = [cursor EXCEPT ![l] = newest]
               /\ upto' = [upto EXCEPT ![l] = 0]
               /\ Goto(l, "saving") /\ UNCHANGED timer
        PROVE  TypeOK'
    <3>1. newest \in Cursor /\ New(l) \subseteq Event
      BY DEF New, Event, Cursor
    <3>2. age' \in [Event -> 0..Window]
      <4>1. ASSUME NEW e \in Event
            PROVE  /\ Aged(0, Cardinality({f \in New(l) : f > e})) \in 0..Window
                   /\ Aged(age[e], Cardinality(New(l))) \in 0..Window
        <5>1. age[e] \in 0..Window /\ 0 \in 0..Window
          BY MonitorAssumption DEF TypeOK
        <5> QED
          BY <5>1, BatchCounts, AgedType
      <4> QED
        BY <2>2, <4>1
    <3>3. heard' \in SUBSET Event /\ latest' \in Cursor
      BY <2>2, <3>1, DeliverTypes
    <3>4. pc' \in [Loop -> InFlight \cup {"idle", "sleeping", "over"}]
      BY <2>2 DEF Goto, TypeOK, InFlight
    <3>5. upto' \in [Loop -> Cursor] /\ cursor' \in [Loop -> Cursor]
      BY <2>2, <3>1 DEF TypeOK
    <3>6. lastCursor' \in Cursor
      BY <2>2, <3>1 DEF TypeOK
    <3> QED
      BY <1>11, <2>2, <3>2, <3>3, <3>4, <3>5, <3>6 DEF Receive, TypeOK
  <2> QED
    BY <1>11, <2>1, <2>2 DEF Receive
<1>12. ASSUME NEW l \in Loop, HandlerThrows(l) PROVE TypeOK'
  <2>1. heard' \in SUBSET Event /\ latest' \in Cursor
    <3>1. PICK e \in New(l) \cup {0} : Deliver({f \in New(l) : f < e})
      BY <1>12 DEF HandlerThrows
    <3> QED
      BY <3>1, DeliverTypes DEF New
  <2>2. /\ pc' \in [Loop -> InFlight \cup {"idle", "sleeping", "over"}]
        /\ cursor' \in [Loop -> Cursor] /\ upto' \in [Loop -> Cursor]
    BY <1>12, <1>8 DEF HandlerThrows
  <2> QED
    BY <1>12, <2>1, <2>2 DEF HandlerThrows, Fail, TypeOK, monitor
<1>13. ASSUME NEW l \in Loop, Save(l) \/ SaveFails(l) PROVE TypeOK'
  <2>1. saved' \in [Loop \cup {Shared} -> Cursor]
    BY <1>13 DEF Save, SaveFails, TypeOK
  <2> QED
    BY <1>13, <2>1, <1>9 DEF Save, SaveFails, Fail, TypeOK, history
<1>14. CASE UNCHANGED vars
  BY <1>14 DEF vars, TypeOK, loops, monitor, history
<1> QED
  BY <1>1, <1>2, <1>3, <1>4, <1>5, <1>6, <1>7, <1>10, <1>11, <1>12, <1>13, <1>14
     DEF Next, Tick

\* A step that delivers nothing but may add to heard, and moves cursors only to
\* safe ones, keeps the rest of the invariant.
LEMMA SafeStep ==
  ASSUME IInv, TypeOK', heard \subseteq heard',
         \A e \in Event : age'[e] < Window => e \in heard',
         \A l \in Loop : cursor'[l] = cursor[l] \/ UpTo(cursor'[l], heard'),
         \A s \in Loop \cup {Shared} : saved'[s] = saved[s] \/ UpTo(saved'[s], heard'),
         lastCursor' = lastCursor \/ UpTo(lastCursor', heard')
  PROVE  IInv'
<1>1. WindowHeard'
  BY DEF WindowHeard, Seen
<1>2. TicksHeard'
  BY DEF IInv, TicksHeard, Delivered, UpTo
<1>3. NothingSkipped'
  BY SafeCursors DEF IInv, NothingSkipped, Delivered, UpTo
<1> QED
  BY <1>1, <1>2, <1>3 DEF IInv

LEMMA InvStep == ASSUME IInv, [Next]_vars PROVE IInv'
<1> USE MonitorAssumption
<1>0. TypeOK /\ TypeOK'
  BY TypeStep DEF IInv
<1>a. \A e \in Event : age[e] < Window => e \in heard
  BY DEF IInv, WindowHeard, Seen
<1>b. Delivered(0) /\ UpTo(0, heard')
  BY DEF Delivered, UpTo
<1>c. Delivered(lastCursor) /\ \A s \in Loop \cup {Shared} : Delivered(saved[s])
  BY SafeCursors DEF IInv
<1>1. CASE stopPolling \/ Publish \/ \E l \in Loop : Wake(l) \/ Answer(l)
  BY <1>1, <1>0, <1>a, SafeStep DEF stopPolling, Publish, Wake, Answer, loops, monitor, history
<1>2. CASE Crash
  BY <1>2, <1>0, <1>b, SafeStep DEF Crash
<1>3. ASSUME NEW l \in Loop, NEW resume \in BOOLEAN, startResilientPolling(l, resume)
      PROVE  IInv'
  <2>1. \A e \in Event : age'[e] < Window => e \in heard'
    BY <1>3, <1>a DEF startResilientPolling
  <2>2. lastCursor' = lastCursor \/ UpTo(lastCursor', heard')
    BY <1>3, <1>b DEF startResilientPolling
  <2> QED
    BY <1>3, <1>0, <2>1, <2>2, SafeStep DEF startResilientPolling
<1>4. ASSUME NEW l \in Loop, Read(l) \/ ReadFails(l) PROVE IInv'
  <2>1. Store(l) \in Loop \cup {Shared}
    BY DEF Store
  <2>2. heard' = heard /\ age' = age /\ saved' = saved /\ lastCursor' = lastCursor
    BY <1>4 DEF Read, ReadFails, monitor, history
  <2>3. UpTo(cursor'[l], heard')
    BY <1>4, <1>0, <1>b, <1>c, <2>1, <2>2 DEF Read, ReadFails, TypeOK, Delivered, UpTo
  <2>4. \A o \in Loop \ {l} : cursor'[o] = cursor[o]
    BY <1>4, <1>0 DEF Read, ReadFails, TypeOK
  <2> QED
    BY <1>0, <1>a, <2>2, <2>3, <2>4, SafeStep
<1>5. ASSUME NEW l \in Loop, NEW s \in {"sleeping", "over"}, EndTick(l, s)
      PROVE  \A o \in Loop : cursor'[o] = cursor[o] \/ UpTo(cursor'[o], heard')
  BY <1>5, <1>0, <1>b DEF EndTick, TypeOK
<1>6. ASSUME NEW l \in Loop, schedule(l)
      PROVE  \A o \in Loop : cursor'[o] = cursor[o] \/ UpTo(cursor'[o], heard')
  BY <1>5, <1>6 DEF schedule
<1>7. ASSUME NEW l \in Loop, FetchFails(l) PROVE IInv'
  <2>1. \A o \in Loop : cursor'[o] = cursor[o] \/ UpTo(cursor'[o], heard')
    BY <1>5, <1>6, <1>7 DEF FetchFails
  <2> QED
    BY <1>7, <1>0, <1>a, <2>1, SafeStep DEF FetchFails
<1>8. ASSUME NEW l \in Loop, HandlerThrows(l) PROVE IInv'
  <2>1. \A o \in Loop : cursor'[o] = cursor[o] \/ UpTo(cursor'[o], heard')
    BY <1>5, <1>8 DEF HandlerThrows
  <2>2. heard \subseteq heard'
    BY <1>8 DEF HandlerThrows, Deliver
  <2> QED
    BY <1>8, <1>0, <1>a, <2>1, <2>2, SafeStep DEF HandlerThrows, monitor
<1>9. ASSUME NEW l \in Loop, Save(l) \/ SaveFails(l) PROVE IInv'
  <2>1. \A o \in Loop : cursor'[o] = cursor[o] \/ UpTo(cursor'[o], heard')
    BY <1>6, <1>9 DEF Save, SaveFails
  <2>2. heard' = heard /\ age' = age /\ lastCursor' = lastCursor
    BY <1>9 DEF Save, SaveFails, history
  <2>3. \A s \in Loop \cup {Shared} : saved'[s] = saved[s] \/ saved'[s] = cursor[l]
    BY <1>9, <1>0 DEF Save, SaveFails, TypeOK
  <2>4. Delivered(cursor[l])
    BY DEF IInv, TicksHeard
  <2>5. \A s \in Loop \cup {Shared} : saved'[s] = saved[s] \/ UpTo(saved'[s], heard')
    BY <2>2, <2>3, <2>4 DEF Delivered, UpTo
  <2> QED
    BY <1>0, <1>a, <2>1, <2>2, <2>5, SafeStep
<1>10. ASSUME NEW l \in Loop, Receive(l) PROVE IInv'
  <2>0. saved' = saved
    BY <1>10 DEF Receive
  <2>1. CASE New(l) = {} /\ schedule(l) /\ UNCHANGED <<age, lastCursor, heard, latest>>
    <3>1. \A o \in Loop : cursor'[o] = cursor[o] \/ UpTo(cursor'[o], heard')
      BY <1>6, <2>1
    <3> QED
      BY <2>0, <2>1, <1>0, <1>a, <3>1, SafeStep
  <2>2. ASSUME NEW newest \in New(l),
               \A e \in New(l) : e <= newest,
               Deliver(New(l)),
               age' = [e \in Event |->
                         IF e \in New(l)
                         THEN Aged(0, Cardinality({f \in New(l) : f > e}))
                         ELSE Aged(age[e], Cardinality(New(l)))],
               lastCursor' = newest, cursor' = [cursor EXCEPT ![l] = newest]
        PROVE  IInv'
    <3>1. heard' = heard \cup New(l)
      BY <2>2 DEF Deliver
    <3>2. \A e \in Event : age'[e] < Window => e \in heard'
      <4> SUFFICES ASSUME NEW e \in Event, age'[e] < Window, e \notin New(l)
                   PROVE  e \in heard
        BY <3>1
      <4>1. age[e] \in 0..Window /\ Cardinality(New(l)) \in Nat
        BY <1>0, BatchCounts DEF TypeOK
      <4>2. age[e] < Window
        BY <2>2, <4>1, AgedSeen
      <4> QED
        BY <4>2, <1>a
    <3>3. UpTo(newest, heard')
      <4> SUFFICES ASSUME NEW e \in 1..newest PROVE e \in heard'
        BY DEF UpTo
      <4>1. /\ newest \in Nat /\ newest <= upto[l] /\ newest <= Length
            /\ upto[l] \in Nat /\ cursor[l] \in Nat
        BY <1>0 DEF New, Event, TypeOK, Cursor
      <4>2. e \in Event /\ e <= upto[l]
        BY <4>1 DEF Event
      <4>3. CASE e <= cursor[l]
        BY <4>1, <4>3, <3>1 DEF IInv, TicksHeard, Delivered, UpTo
      <4>4. CASE cursor[l] < e /\ e \in Seen
        BY <4>4, <3>1 DEF IInv, WindowHeard
      <4>5. CASE cursor[l] < e /\ e \notin Seen
        BY <4>5, <4>2, <3>1 DEF New
      <4> QED
        BY <4>1, <4>2, <4>3, <4>4, <4>5 DEF Event
    <3>4. \A o \in Loop : cursor'[o] = cursor[o] \/ UpTo(cursor'[o], heard')
      BY <2>2, <3>3, <1>0 DEF TypeOK
    <3> QED
      BY <2>0, <2>2, <1>0, <3>1, <3>2, <3>3, <3>4, SafeStep
  <2> QED
    BY <1>10, <2>1, <2>2 DEF Receive
<1>11. CASE UNCHANGED vars
  BY <1>11, <1>0, <1>a, SafeStep DEF vars, loops, monitor, history
<1> QED
  BY <1>1, <1>2, <1>3, <1>4, <1>7, <1>8, <1>9, <1>10, <1>11 DEF Next, Tick

LEMMA InductiveInv == Spec => []IInv
<1>1. IInv /\ [Next]_vars => IInv'
  BY InvStep
<1> QED
  BY InvInit, <1>1, PTL DEF Spec

\* The variables keep their types: the dedup window never outgrows its size.
THEOREM TypeCorrect == Spec => []TypeOK
<1>1. IInv => TypeOK
  BY DEF IInv
<1> QED
  BY <1>1, InductiveInv, PTL

\* No cursor in memory or in a store passes an event that handlers were not given,
\* whatever loops overlap, calls fail or processes crash.
THEOREM SkipsNothing == Spec => []NothingSkipped
<1>1. IInv => NothingSkipped
  BY DEF IInv
<1> QED
  BY <1>1, InductiveInv, PTL

-----------------------------------------------------------------------------
(* In order and once. While one loop lives and no read failed, what is     *)
(* remembered is a stretch of the stream that ends at lastCursor, and its  *)
(* ages count back from there; the cursor a tick reads is at most a page   *)
(* behind, so the window still holds all that was delivered after it.      *)

\* The cursor the next tick of l reads.
From(l) == IF saved[Store(l)] # 0 THEN saved[Store(l)] ELSE lastCursor

\* What was delivered after cursor c is at most a page, and is remembered.
Behind(c) ==
  lastCursor # 0 =>
    /\ c <= lastCursor /\ lastCursor <= c + PageSize
    /\ \A e \in Event : c < e /\ e <= lastCursor => age[e] = lastCursor - e

Alone == ~overlapped => \A l, o \in Loop : Alive(l) /\ Alive(o) => l = o
Unused == \A l \in Loop : pc[l] = "idle" => saved[l] = 0

\* Where a tick in flight is.
TickOK(l) ==
  /\ pc[l] \in {"fetching", "receiving"} => cursor[l] = From(l)
  /\ pc[l] = "receiving" => upto[l] <= cursor[l] + PageSize
  /\ pc[l] = "saving" => cursor[l] = lastCursor

Orderly ==
  Calm => /\ \A l \in Loop : Alive(l) => latest \in {0, lastCursor}
          /\ \A e \in Event : e > lastCursor => age[e] = Window
          /\ \A l \in Loop : persistent \/ pc[l] # "over" => Behind(From(l))
          /\ \A l \in Loop : TickOK(l)

OInv == TypeOK /\ Alone /\ Unused /\ Orderly

\* A page holds no more parsed events than it holds events.
LEMMA PageSpan ==
  ASSUME TypeOK, NEW l \in Loop, NEW e \in Parsed(cursor[l]) \cup {cursor[l]}
  PROVE  e <= cursor[l] + PageSize
<1>1. /\ cursor[l] \in 0..Length /\ cursor[l] \in Nat /\ PageSize \in Nat
      /\ e \in 0..Length /\ e \in Nat /\ position \in Layouts
  <2>1. cursor[l] \in 0..Length /\ position \in Layouts
    BY DEF TypeOK, Cursor
  <2>2. Length \in Nat /\ PageSize \in Nat
    BY MonitorAssumption
  <2>3. e \in 1..Length \/ e = cursor[l]
    BY DEF Parsed, Event
  <2> QED
    BY <2>1, <2>2, <2>3
<1>2. /\ position \in [0..Length -> Nat]
      /\ \A c, f \in 0..Length : c <= f => f - c <= position[f] - position[c]
  BY <1>1, LayoutAssumption
<1>3. CASE e \in Parsed(cursor[l])
  <2>1. e - cursor[l] <= position[e] - position[cursor[l]]
    BY <1>1, <1>2, <1>3 DEF Parsed
  <2>2. position[e] <= position[cursor[l]] + PageSize /\ position[e] \in Nat /\ position[cursor[l]] \in Nat
    BY <1>1, <1>2, <1>3 DEF Parsed
  <2> QED
    BY <1>1, <2>1, <2>2
<1> QED
  BY <1>1, <1>3

LEMMA OrderlyInit == Init => OInv
<1> SUFFICES ASSUME Init PROVE OInv
  OBVIOUS
<1>1. TypeOK
  BY InvInit DEF IInv
<1>2. Alone /\ Unused
  BY DEF Init, Alone, Alive, InFlight, Unused
<1>3. \A l \in Loop : TickOK(l)
  BY DEF Init, TickOK
<1>4. Orderly
  BY <1>3 DEF Init, Orderly, Behind
<1> QED
  BY <1>1, <1>2, <1>4 DEF OInv

\* The types of what the invariant speaks of.
LEMMA OrderlyTypes ==
  ASSUME TypeOK, NEW l \in Loop
  PROVE  /\ From(l) \in Nat /\ cursor[l] \in Nat /\ upto[l] \in Nat /\ upto[l] <= Length
         /\ lastCursor \in Nat /\ latest \in Nat /\ PageSize \in Nat /\ Window \in Nat
         /\ Length \in Nat
         /\ Store(l) \in Loop \cup {Shared} /\ \A e \in Event : e \in Nat /\ age[e] \in Nat
BY MonitorAssumption DEF TypeOK, From, Store, Cursor, Event

\* A loop does not start in a step, and its tick, if it is in one, is where it should be.
Recedes(l) ==
  /\ Alive(l)' => Alive(l)
  /\ pc'[l] = "idle" => pc[l] = "idle"
  /\ pc[l] = "over" => pc'[l] = "over"
  /\ \/ pc'[l] = pc[l] /\ cursor'[l] = cursor[l] /\ upto'[l] = upto[l]
     \/ pc'[l] \in {"sleeping", "reading", "over", "idle"}
     \/ Calm' => TickOK(l)'

\* A step that delivers nothing a loop goes on from, remembers and saves nothing, and starts
\* no loop.
LEMMA Follows ==
  ASSUME OInv, TypeOK', UNCHANGED <<age, lastCursor, saved, persistent, overlapped>>, misread => misread',
         \A l \in Loop : Calm' /\ Alive(l)' => latest' = latest,
         \A l \in Loop : Recedes(l)
  PROVE  OInv'
<1> USE DEF Recedes
<1>1. Alone' /\ Unused'
  BY DEF OInv, Alone, Unused
<1>2. ASSUME Calm' PROVE Calm
  BY <1>2 DEF Calm
<1>3. ASSUME NEW l \in Loop PROVE From(l)' = From(l)
  BY DEF From, Store
<1>4. ASSUME Calm', NEW l \in Loop PROVE TickOK(l)'
  <2>1. TickOK(l)
    BY <1>2, <1>4 DEF OInv, Orderly
  <2> QED
    BY <1>3, <1>4, <2>1 DEF TickOK
<1>5. ASSUME Calm', NEW l \in Loop, persistent' \/ pc'[l] # "over" PROVE Behind(From(l))'
  <2>1. Behind(From(l))
    BY <1>2, <1>5 DEF OInv, Orderly
  <2> QED
    BY <1>3, <2>1 DEF Behind
<1>6. ASSUME Calm', NEW l \in Loop, Alive(l)' PROVE latest' \in {0, lastCursor'}
  BY <1>2, <1>6 DEF OInv, Orderly
<1>7. ASSUME Calm', NEW e \in Event, e > lastCursor' PROVE age'[e] = Window
  BY <1>2, <1>7 DEF OInv, Orderly
<1>8. Orderly'
  BY <1>4, <1>5, <1>6, <1>7 DEF Orderly
<1> QED
  BY <1>1, <1>8 DEF OInv

\* What a calm tick is about to deliver is a stretch above all that was delivered before.
LEMMA Batch ==
  ASSUME OInv, Calm, NEW l \in Loop, pc[l] = "receiving",
         NEW b \in Nat, b = IF lastCursor = 0 THEN cursor[l] ELSE lastCursor
  PROVE  /\ cursor[l] = From(l) /\ cursor[l] <= b /\ latest \in {0, b}
         /\ b \in {lastCursor} \cup {saved[s] : s \in Loop \cup {Shared}}
         /\ upto[l] <= cursor[l] + PageSize
         /\ New(l) = (b + 1) .. upto[l]
         /\ \A e \in Event : b < e => age[e] = Window
         /\ \A e \in Event : cursor[l] < e /\ e <= b => age[e] = b - e
<1> USE OrderlyTypes DEF OInv
<1>1. /\ cursor[l] = From(l) /\ upto[l] <= cursor[l] + PageSize /\ Behind(From(l))
      /\ latest \in {0, lastCursor} /\ \A e \in Event : e > lastCursor => age[e] = Window
  BY DEF Orderly, TickOK, Alive, InFlight
<1>2. cursor[l] <= b /\ latest \in {0, b} /\ lastCursor <= b
  BY <1>1 DEF Behind
<1>8. b \in {lastCursor} \cup {saved[s] : s \in Loop \cup {Shared}}
  BY <1>1 DEF From
<1>3. \A e \in Event : b < e => age[e] = Window
  BY <1>1, <1>2
<1>4. \A e \in Event : cursor[l] < e /\ e <= b => age[e] = b - e
  BY <1>1 DEF Behind
<1>5. \A e \in Event : cursor[l] < e /\ e <= b => age[e] < Window
  <2>1. b <= cursor[l] + PageSize /\ PageSize <= Window
    BY <1>1 DEF Behind, Calm
  <2> QED
    BY <1>4, <2>1
<1>6. ASSUME NEW e \in Event PROVE e \in New(l) <=> b + 1 <= e /\ e <= upto[l]
  <2>1. e \in Seen <=> age[e] < Window
    BY DEF Seen
  <2> QED
    BY <1>2, <1>3, <1>5, <2>1 DEF New
<1>7. New(l) = (b + 1) .. upto[l]
  BY <1>6 DEF New, Event
<1> QED
  BY <1>1, <1>2, <1>3, <1>4, <1>7, <1>8

\* The batch is delivered and remembered.
LEMMA ReceiveOrderly ==
  ASSUME OInv, TypeOK', NEW l \in Loop, Receive(l), NEW newest \in New(l),
         \A e \in New(l) : e <= newest,
         Deliver(New(l)),
         age' = [e \in Event |->
                   IF e \in New(l) THEN Aged(0, Cardinality({f \in New(l) : f > e}))
                   ELSE Aged(age[e], Cardinality(New(l)))],
         lastCursor' = newest, cursor' = [cursor EXCEPT ![l] = newest], Goto(l, "saving")
  PROVE  OInv'
<1> USE DEF OInv
<1>0. /\ UNCHANGED <<saved, persistent, overlapped, misread>> /\ pc[l] = "receiving"
      /\ pc'[l] = "saving" /\ cursor'[l] = newest
      /\ \A o \in Loop \ {l} : pc'[o] = pc[o] /\ cursor'[o] = cursor[o]
  BY DEF Receive, Goto, TypeOK
<1>1. Alone' /\ Unused'
  BY <1>0 DEF Alone, Unused, Alive, InFlight
<1>2. Orderly'
  <2> SUFFICES ASSUME Calm' PROVE Orderly'
    BY DEF Orderly
  <2> Calm
    BY <1>0 DEF Calm
  <2> DEFINE b == IF lastCursor = 0 THEN cursor[l] ELSE lastCursor
             c == cursor[l]
             u == upto[l]
  <2>0. b \in Nat /\ c \in Nat /\ u \in Nat /\ u <= Length /\ PageSize <= Window
    BY OrderlyTypes DEF Calm
  <2>1. /\ c = From(l) /\ c <= b /\ u <= c + PageSize
        /\ New(l) = (b + 1) .. u
        /\ \A e \in Event : b < e => age[e] = Window
        /\ \A e \in Event : c < e /\ e <= b => age[e] = b - e
    <3>1. b \in Nat /\ b = IF lastCursor = 0 THEN cursor[l] ELSE lastCursor
      BY <2>0
    <3> HIDE DEF b
    <3> QED
      BY <1>0, <3>1, Batch
  <2> HIDE DEF b, c, u
  <2>2. newest = u /\ b < u
    BY <2>0, <2>1
  <2>3. Cardinality(New(l)) = u - b
    BY <2>0, <2>1, <2>2, FS_Interval
  <2>4. ASSUME NEW e \in New(l) PROVE Cardinality({f \in New(l) : f > e}) = u - e
    <3>1. {f \in New(l) : f > e} = (e + 1) .. u /\ e \in Nat /\ e <= u
      BY <2>0, <2>1
    <3>2. e + 1 \in Int /\ u \in Int
      BY <2>0, <3>1
    <3>3. Cardinality((e + 1) .. u) = IF e + 1 > u THEN 0 ELSE u - (e + 1) + 1
      BY <3>2, FS_Interval
    <3>4. Cardinality({f \in New(l) : f > e}) = IF e + 1 > u THEN 0 ELSE u - (e + 1) + 1
      BY <3>1, <3>3
    <3> QED
      BY <2>0, <3>1, <3>4
  <2>5. ASSUME NEW e \in Event PROVE age'[e] = IF e \in New(l) THEN Aged(0, u - e) ELSE Aged(age[e], u - b)
    BY <2>3, <2>4
  <2>6. \A e \in Event : c < e /\ e <= u => age'[e] = u - e
    <3> SUFFICES ASSUME NEW e \in Event, c < e, e <= u PROVE age'[e] = u - e
      OBVIOUS
    <3>1. e \in Nat /\ u - e < Window /\ Window \in Nat
      BY <2>0, <2>1, MonitorAssumption DEF Event
    <3>2. CASE e \in New(l)
      BY <2>0, <2>5, <3>1, <3>2 DEF Aged
    <3>3. CASE e \notin New(l)
      <4>1. e <= b /\ age[e] = b - e
        BY <2>0, <2>1, <3>1, <3>3
      <4>2. age[e] + (u - b) = u - e
        BY <2>0, <3>1, <4>1
      <4> QED
        BY <2>5, <3>1, <3>3, <4>2 DEF Aged
    <3> QED
      BY <3>2, <3>3
  <2>7. \A e \in Event : e > u => age'[e] = Window
    <3> SUFFICES ASSUME NEW e \in Event, e > u PROVE age'[e] = Window
      OBVIOUS
    <3>1. e \in Nat /\ Window \in Nat /\ e \notin New(l) /\ age[e] = Window
      BY <2>0, <2>1, <2>2, MonitorAssumption DEF Event
    <3>2. u - b \in Nat
      BY <2>0, <2>2
    <3>3. age'[e] = Aged(Window, u - b)
      BY <2>5, <3>1
    <3> QED
      BY <3>1, <3>2, <3>3 DEF Aged
  <2>8. ASSUME NEW o \in Loop, persistent' \/ pc'[o] # "over" PROVE Behind(From(o))'
    <3>1. CASE saved[Store(o)] = 0
      <4>1. From(o)' = u
        BY <1>0, <2>2, <3>1 DEF From, Store
      <4> QED
        BY <2>0, <2>2, <4>1, MonitorAssumption DEF Behind, Event
    <3>2. CASE saved[Store(o)] # 0
      <4>1. From(o)' = From(o) /\ From(o) = saved[Store(o)]
        BY <1>0, <3>2 DEF From, Store
      <4>2. persistent \/ o = l
        <5>1. SUFFICES ASSUME ~persistent, o # l PROVE FALSE
          OBVIOUS
        <5>2. pc[o] # "over" /\ pc[o] # "idle"
          BY <1>0, <2>8, <3>2, <5>1 DEF Unused, Store
        <5>3. Alive(o) /\ Alive(l)
          BY <1>0, <5>2 DEF TypeOK, Alive, InFlight
        <5> QED
          BY <5>1, <5>3 DEF Alone, Calm
      <4>3. From(o) = From(l)
        BY <3>2, <4>2 DEF From, Store
      <4> QED
        BY <2>0, <2>1, <2>2, <2>6, <4>1, <4>3 DEF Behind
    <3> QED
      BY <3>1, <3>2
  <2>9. ASSUME NEW o \in Loop PROVE TickOK(o)'
    <3>1. CASE o = l
      BY <1>0, <3>1 DEF TickOK
    <3>2. CASE o # l
      <4>1. pc'[o] \notin InFlight
        BY <1>0, <3>2 DEF Alone, Alive, InFlight, Calm
      <4> QED
        BY <4>1 DEF TickOK, InFlight
    <3> QED
      BY <3>1, <3>2
  <2>10. latest' = lastCursor'
    BY <2>0, <2>1, <2>2 DEF Deliver
  <2> QED
    BY <2>2, <2>6, <2>7, <2>8, <2>9, <2>10 DEF Orderly
<1> QED
  BY <1>1, <1>2

\* The end of a tick: nobody else comes alive.
LEMMA EndTickFollows ==
  ASSUME OInv, NEW l \in Loop, pc[l] \in InFlight,
         NEW s \in {"sleeping", "over"}, EndTick(l, s)
  PROVE  /\ pc'[l] = s /\ \A o \in Loop \ {l} : pc'[o] = pc[o] /\ cursor'[o] = cursor[o] /\ upto'[o] = upto[o]
         /\ \A o \in Loop : Recedes(o)
<1>1. pc'[l] = s /\ \A o \in Loop \ {l} : pc'[o] = pc[o] /\ cursor'[o] = cursor[o] /\ upto'[o] = upto[o]
  BY DEF EndTick, Goto, OInv, TypeOK
<1> QED
  BY <1>1 DEF Recedes, Alive, InFlight

LEMMA ScheduleFollows ==
  ASSUME OInv, NEW l \in Loop, pc[l] \in InFlight, schedule(l)
  PROVE  /\ pc'[l] \in {"sleeping", "over"}
         /\ \A o \in Loop \ {l} : pc'[o] = pc[o] /\ cursor'[o] = cursor[o] /\ upto'[o] = upto[o]
         /\ \A o \in Loop : Recedes(o)
BY EndTickFollows DEF schedule

\* A start: whoever is alive beside it makes the loops overlap.
LEMMA StartOrderly ==
  ASSUME OInv, TypeOK', NEW l \in Loop, NEW resume \in BOOLEAN, startResilientPolling(l, resume)
  PROVE  OInv'
<1> USE DEF OInv
<1>1. /\ pc[l] = "idle" /\ pc'[l] = "reading"
      /\ \A o \in Loop \ {l} : pc'[o] = IF Cleared(o) THEN "over" ELSE pc[o]
      /\ UNCHANGED <<persistent, saved, cursor, upto>> /\ latest' = 0
  BY DEF startResilientPolling, Remaining, TypeOK
<1>2. ~overlapped' => ~overlapped /\ \A o \in Loop \ {l} : ~Alive(o)'
  <2>1. ~overlapped' => ~overlapped /\ \A o \in Loop : Alive(o) => Cleared(o)
    BY DEF startResilientPolling
  <2> QED
    BY <1>1, <2>1 DEF Alive, InFlight
<1>3. Alone' /\ Unused'
  BY <1>1, <1>2 DEF Alone, Unused
<1>4. ASSUME Calm' PROVE \A o \in Loop : TickOK(o)'
  BY <1>1, <1>2, <1>4 DEF Calm, TickOK, Alive, InFlight
<1>5. CASE resume
  <2>1. UNCHANGED <<age, lastCursor>> /\ misread' = misread
    BY <1>5 DEF startResilientPolling, TypeOK
  <2>2. ASSUME Calm', NEW o \in Loop, persistent' \/ pc'[o] # "over" PROVE Behind(From(o))'
    <3>1. Behind(From(o))
      BY <1>1, <1>2, <2>1, <2>2 DEF Calm, Orderly
    <3>2. From(o)' = From(o)
      BY <1>1, <2>1 DEF From, Store
    <3> QED
      BY <2>1, <3>1, <3>2 DEF Behind
  <2>3. Calm' => Calm
    BY <1>2, <2>1 DEF Calm
  <2>4. Orderly'
    BY <1>1, <1>4, <2>1, <2>2, <2>3 DEF Orderly
  <2> QED
    BY <1>3, <2>4
<1>6. CASE ~resume
  <2>1. age' = [e \in Event |-> Window] /\ lastCursor' = 0
    BY <1>6 DEF startResilientPolling
  <2>2. \A o \in Loop : Behind(From(o))'
    BY <2>1 DEF Behind
  <2>3. Orderly'
    BY <1>1, <1>4, <2>1, <2>2 DEF Orderly
  <2> QED
    BY <1>3, <2>3
<1> QED
  BY <1>5, <1>6

LEMMA SaveOrderly == ASSUME OInv, TypeOK', NEW l \in Loop, Save(l) PROVE OInv'
<1> USE DEF OInv
<1>1. /\ pc[l] = "saving" /\ schedule(l) /\ saved' = [saved EXCEPT ![Store(l)] = cursor[l]]
      /\ UNCHANGED <<persistent, age, lastCursor, latest, overlapped, misread>>
  BY DEF Save, history
<1>2. /\ pc'[l] \in {"sleeping", "over"}
      /\ \A o \in Loop \ {l} : pc'[o] = pc[o] /\ cursor'[o] = cursor[o] /\ upto'[o] = upto[o]
  BY <1>1, ScheduleFollows DEF InFlight
<1>3. Alone'
  BY <1>1, <1>2 DEF Alone, Alive, InFlight
<1>4. Shared \notin Loop /\ Store(l) \in {l, Shared}
  BY MonitorAssumption DEF Store
<1>5. Unused'
  BY <1>1, <1>2, <1>4 DEF Unused, TypeOK
<1>6. Orderly'
  <2> SUFFICES ASSUME Calm' PROVE Orderly'
    BY DEF Orderly
  <2> Calm
    BY <1>1 DEF Calm
  <2>1. cursor[l] = lastCursor
    BY <1>1 DEF Orderly, TickOK
  <2>2. ASSUME NEW o \in Loop, persistent' \/ pc'[o] # "over" PROVE Behind(From(o))'
    <3>1. CASE Store(o) = Store(l)
      <4>1. From(o)' = lastCursor
        BY <1>1, <2>1, <3>1 DEF From, Store, TypeOK
      <4> QED
        BY <1>1, <4>1, OrderlyTypes DEF Behind, Event
    <3>2. CASE Store(o) # Store(l)
      <4>1. From(o)' = From(o) /\ o # l /\ ~persistent
        BY <1>1, <1>4, <3>2 DEF From, Store, TypeOK
      <4>2. Behind(From(o))
        BY <1>1, <1>2, <2>2, <4>1 DEF Orderly
      <4> QED
        BY <1>1, <4>1, <4>2 DEF Behind
    <3> QED
      BY <3>1, <3>2
  <2>3. ASSUME NEW o \in Loop PROVE TickOK(o)'
    <3>1. CASE o = l
      BY <1>2, <3>1 DEF TickOK
    <3>2. CASE o # l
      <4>1. pc'[o] \notin InFlight
        BY <1>1, <1>2, <3>2 DEF Alone, Alive, InFlight, Calm
      <4> QED
        BY <4>1 DEF TickOK, InFlight
    <3> QED
      BY <3>1, <3>2
  <2>4. \A o \in Loop : Alive(o)' => Alive(o)
    BY <1>1, <1>2 DEF Alive, InFlight
  <2> QED
    BY <1>1, <2>2, <2>3, <2>4 DEF Orderly
<1> QED
  BY <1>3, <1>5, <1>6

\* No step leaves the invariant: one case for each action.
LEMMA OrderlyStep == ASSUME OInv, [Next]_vars PROVE OInv'
<1>0. TypeOK /\ TypeOK'
  BY TypeStep DEF OInv
<1>1. CASE stopPolling
  <2>1. \A l \in Loop : pc'[l] = IF Cleared(l) THEN "over" ELSE pc[l]
    BY <1>1 DEF stopPolling, Remaining
  <2>2. UNCHANGED <<latest, age, lastCursor, saved, persistent, overlapped, misread, cursor, upto>>
    BY <1>1 DEF stopPolling, history
  <2> QED
    BY <1>0, <2>1, <2>2, Follows DEF Recedes, Alive, InFlight, Cleared
<1>2. CASE Publish \/ UNCHANGED vars
  <2>1. UNCHANGED <<latest, age, lastCursor, saved, persistent, overlapped, misread, pc, cursor, upto>>
    BY <1>2 DEF Publish, vars, loops, monitor, history
  <2> QED
    BY <1>0, <2>1, Follows DEF Recedes, Alive
<1>3. CASE Crash
  <2>1. \A l \in Loop : pc'[l] = IF pc[l] = "idle" THEN "idle" ELSE "over"
    BY <1>3 DEF Crash
  <2>2. /\ age' = [e \in Event |-> Window] /\ lastCursor' = 0 /\ latest' = 0
        /\ UNCHANGED <<persistent, saved>>
    BY <1>3 DEF Crash
  <2>3. Alone' /\ Unused'
    BY <2>1, <2>2 DEF OInv, Alone, Unused, Alive, InFlight
  <2>4. \A l \in Loop : TickOK(l)' /\ Behind(From(l))'
    BY <2>1, <2>2 DEF TickOK, Behind
  <2>5. \A e \in Event : age'[e] = Window
    BY <2>2
  <2>6. latest' \in {0, lastCursor'}
    BY <2>2
  <2>7. Orderly'
    BY <2>4, <2>5, <2>6 DEF Orderly
  <2> QED
    BY <1>0, <2>3, <2>7 DEF OInv
<1>4. ASSUME NEW l \in Loop, NEW resume \in BOOLEAN, startResilientPolling(l, resume) PROVE OInv'
  BY <1>0, <1>4, StartOrderly
<1>5. ASSUME NEW l \in Loop, Wake(l) \/ Read(l) \/ ReadFails(l) \/ Answer(l) PROVE OInv'
  <2>1. /\ UNCHANGED <<latest, age, lastCursor, saved, persistent, overlapped>>
        /\ misread => misread'
        /\ \A o \in Loop \ {l} : pc'[o] = pc[o] /\ cursor'[o] = cursor[o] /\ upto'[o] = upto[o]
        /\ pc[l] \in {"sleeping", "reading", "fetching"}
        /\ pc'[l] \in {"over", "reading", "fetching", "receiving"}
    BY <1>0, <1>5 DEF Wake, Read, ReadFails, Answer, Goto, TypeOK, monitor, history
  <2>2. CASE Wake(l)
    BY <1>0, <2>1, <2>2, Follows DEF Recedes, Wake, Goto, TypeOK, Alive, InFlight
  <2>3. CASE Read(l) \/ ReadFails(l)
    <3>1. pc'[l] = "fetching" /\ (Calm' => cursor'[l] = From(l)')
      <4>1. CASE Read(l)
        BY <1>0, <2>1, <4>1 DEF Read, Goto, TypeOK, From, Store
      <4>2. CASE ReadFails(l)
        BY <1>0, <4>2 DEF ReadFails, Goto, TypeOK, Calm
      <4> QED
        BY <2>3, <4>1, <4>2
    <3> QED
      BY <1>0, <2>1, <3>1, Follows DEF Recedes, Alive, InFlight, TickOK
  <2>4. CASE Answer(l)
    <3>1. pc[l] = "fetching" /\ pc'[l] = "receiving" /\ cursor' = cursor
      BY <1>0, <2>4 DEF Answer, Goto, TypeOK
    <3>2. upto'[l] <= cursor[l] + PageSize
      <4>1. PICK last \in Parsed(cursor[l]) \cup {cursor[l]} : upto'[l] = last
        BY <1>0, <2>4 DEF Answer, TypeOK
      <4> QED
        BY <1>0, <4>1, PageSpan
    <3>3. Calm' => cursor[l] = From(l)
      <4>1. Calm' => Calm
        BY <2>1 DEF Calm
      <4> QED
        BY <3>1, <4>1 DEF OInv, Orderly, TickOK
    <3>4. Calm' => TickOK(l)'
      BY <2>1, <3>1, <3>2, <3>3 DEF TickOK, From, Store
    <3> QED
      BY <1>0, <2>1, <3>1, <3>4, Follows DEF Recedes, Alive, InFlight
  <2> QED
    BY <1>5, <2>2, <2>3, <2>4
<1>6. ASSUME NEW l \in Loop, FetchFails(l) PROVE OInv'
  <2>1. /\ UNCHANGED <<latest, age, lastCursor, saved, persistent, overlapped, misread>>
        /\ pc[l] \in InFlight /\ (schedule(l) \/ EndTick(l, "over"))
    BY <1>6 DEF FetchFails, InFlight
  <2>2. \A o \in Loop : Recedes(o)
    BY <2>1, EndTickFollows, ScheduleFollows
  <2> QED
    BY <1>0, <2>1, <2>2, Follows
<1>7. ASSUME NEW l \in Loop, HandlerThrows(l) PROVE OInv'
  <2>1. /\ UNCHANGED <<age, lastCursor, saved, persistent, overlapped, misread>>
        /\ pc[l] = "receiving" /\ EndTick(l, "over")
    BY <1>7 DEF HandlerThrows, monitor
  <2>2. \A o \in Loop : Recedes(o)
    BY <2>1, EndTickFollows DEF InFlight
  <2>3. ASSUME NEW o \in Loop, Calm', Alive(o)' PROVE FALSE
    <3>1. Alive(l) /\ Alive(o) /\ ~overlapped
      BY <2>1, <2>2, <2>3 DEF Alive, InFlight, Recedes, Calm
    <3>2. o = l
      BY <3>1 DEF OInv, Alone
    <3> QED
      BY <1>0, <2>1, <2>3, <3>2, EndTickFollows DEF Alive, InFlight
  <2> QED
    BY <1>0, <2>1, <2>2, <2>3, Follows
<1>8. ASSUME NEW l \in Loop, SaveFails(l) PROVE OInv'
  <2>1. /\ UNCHANGED <<latest, age, lastCursor, saved, persistent, overlapped, misread>>
        /\ pc[l] \in InFlight /\ schedule(l)
    BY <1>8 DEF SaveFails, InFlight
  <2>2. \A o \in Loop : Recedes(o)
    BY <2>1, ScheduleFollows
  <2> QED
    BY <1>0, <2>1, <2>2, Follows
<1>9. ASSUME NEW l \in Loop, Receive(l) PROVE OInv'
  <2>1. CASE New(l) = {} /\ schedule(l) /\ UNCHANGED <<age, lastCursor, heard, latest>>
    <3>1. UNCHANGED <<saved, persistent, overlapped, misread>> /\ pc[l] \in InFlight
      BY <1>9 DEF Receive, InFlight
    <3>2. \A o \in Loop : Recedes(o)
      BY <2>1, <3>1, ScheduleFollows
    <3> QED
      BY <1>0, <2>1, <3>1, <3>2, Follows
  <2> QED
    BY <1>0, <1>9, <2>1, ReceiveOrderly DEF Receive
<1>10. ASSUME NEW l \in Loop, Save(l) PROVE OInv'
  BY <1>0, <1>10, SaveOrderly
<1> QED
  BY <1>1, <1>2, <1>3, <1>4, <1>5, <1>6, <1>7, <1>8, <1>9, <1>10 DEF Next, Tick

-----------------------------------------------------------------------------
(* The refinement: polling implements the abstract stream. Besides the two *)
(* invariants it rests on pages holding events that were published.        *)

PInv == heard \subseteq 1..published /\ \A l \in Loop : upto[l] <= published

LEMMA PagesInit == Init => PInv
BY DEF Init, PInv

\* A step that publishes or gives up what it is given.
LEMMA PagesKept ==
  ASSUME TypeOK, PInv, published' \in Nat, published <= published',
         heard' \subseteq 1..published',
         \A l \in Loop : upto'[l] \in {0, upto[l]} \/ upto'[l] <= published'
  PROVE  PInv'
<1>1. published \in Nat /\ \A l \in Loop : upto[l] \in Nat
  BY MonitorAssumption DEF TypeOK, Cursor
<1>2. ASSUME NEW l \in Loop PROVE upto'[l] <= published'
  BY <1>1 DEF PInv
<1> QED
  BY <1>2 DEF PInv

\* What a page gives is published.
LEMMA NewPublished ==
  ASSUME TypeOK, PInv, NEW l \in Loop PROVE New(l) \subseteq 1..published
<1>1. published \in Nat /\ upto[l] \in Nat /\ upto[l] <= published
  BY MonitorAssumption DEF TypeOK, Cursor, PInv
<1> QED
  BY <1>1 DEF New, Event

LEMMA PagesStep == ASSUME IInv, PInv, [Next]_vars PROVE PInv'
<1>0. /\ TypeOK /\ TypeOK' /\ published \in Nat /\ published' \in Nat
      /\ heard \subseteq 1..published /\ \A l \in Loop : upto[l] \in Nat /\ upto[l] <= published
  BY TypeStep, MonitorAssumption DEF IInv, TypeOK, Cursor, PInv
<1>1. CASE stopPolling \/ Publish \/ UNCHANGED vars \/ \E l \in Loop : Wake(l) \/ Read(l) \/ ReadFails(l)
  <2>1. /\ upto' = upto /\ heard' = heard /\ published' \in {published, published + 1}
    BY <1>1 DEF stopPolling, Publish, Wake, Read, ReadFails, vars, loops, history
  <2>2. published <= published' /\ heard' \subseteq 1..published'
    BY <1>0, <2>1
  <2> QED
    BY <1>0, <2>1, <2>2, PagesKept
<1>2. CASE Crash
  BY <1>0, <1>2, PagesKept DEF Crash
<1>3. ASSUME NEW l \in Loop, NEW resume \in BOOLEAN, startResilientPolling(l, resume)
      PROVE  PInv'
  BY <1>0, <1>3, PagesKept DEF startResilientPolling
<1>4. ASSUME NEW l \in Loop, NEW s \in {"sleeping", "over"}, EndTick(l, s)
      PROVE  \A o \in Loop : upto'[o] \in {0, upto[o]}
  BY <1>0, <1>4 DEF EndTick, TypeOK
<1>5. ASSUME NEW l \in Loop, schedule(l)
      PROVE  \A o \in Loop : upto'[o] \in {0, upto[o]}
  BY <1>4, <1>5 DEF schedule
<1>6. ASSUME NEW l \in Loop, FetchFails(l) \/ Save(l) \/ SaveFails(l) PROVE PInv'
  <2>1. UNCHANGED <<heard, published>> /\ \A o \in Loop : upto'[o] \in {0, upto[o]}
    BY <1>4, <1>5, <1>6 DEF FetchFails, Save, SaveFails, history
  <2> QED
    BY <1>0, <2>1, PagesKept
<1>7. ASSUME NEW l \in Loop, Answer(l) PROVE PInv'
  <2>1. UNCHANGED <<heard, published>>
    BY <1>7 DEF Answer, history
  <2>2. PICK last \in Parsed(cursor[l]) \cup {cursor[l]} : upto' = [upto EXCEPT ![l] = last]
    BY <1>7 DEF Answer
  <2>3. cursor[l] <= published
    <3>1. cursor[l] \in Nat /\ 1..cursor[l] \subseteq 1..published
      BY <1>0, MonitorAssumption DEF IInv, TicksHeard, Delivered, UpTo, TypeOK, Cursor
    <3> QED
      BY <1>0, <3>1
  <2>4. last <= published
    BY <1>0, <2>3 DEF Parsed
  <2> QED
    BY <1>0, <2>1, <2>2, <2>4, PagesKept DEF TypeOK
<1>8. ASSUME NEW l \in Loop, Receive(l) PROVE PInv'
  <2>1. published' = published /\ heard' \subseteq heard \cup New(l)
    BY <1>8 DEF Receive, Deliver
  <2>2. \A o \in Loop : upto'[o] \in {0, upto[o]}
    BY <1>0, <1>5, <1>8 DEF Receive, TypeOK
  <2> QED
    BY <1>0, <2>1, <2>2, NewPublished, PagesKept
<1>9. ASSUME NEW l \in Loop, HandlerThrows(l) PROVE PInv'
  <2>1. published' = published /\ heard' \subseteq heard \cup New(l)
    BY <1>9 DEF HandlerThrows, Deliver
  <2>2. \A o \in Loop : upto'[o] \in {0, upto[o]}
    BY <1>4, <1>9 DEF HandlerThrows
  <2> QED
    BY <1>0, <2>1, <2>2, NewPublished, PagesKept
<1> QED
  BY <1>1, <1>2, <1>3, <1>6, <1>7, <1>8, <1>9 DEF Next, Tick

\* What handlers are given has no holes before it: what a tick leaves out was delivered.
LEMMA NoHoles ==
  ASSUME IInv, NEW l \in Loop, NEW batch \in SUBSET New(l), NEW e \in batch,
         \A f \in New(l) : f < e => f \in batch
  PROVE  1..e \subseteq heard \cup batch
<1>1. e \in Nat /\ e \in Event /\ e <= upto[l] /\ upto[l] \in Nat /\ cursor[l] \in Nat
  BY MonitorAssumption DEF IInv, TypeOK, New, Event, Cursor
<1> SUFFICES ASSUME NEW f \in 1..e PROVE f \in heard \cup batch
  OBVIOUS
<1>2. f \in Event
  BY <1>1, MonitorAssumption DEF Event
<1>3. CASE f <= cursor[l]
  BY <1>1, <1>3 DEF IInv, TicksHeard, Delivered, UpTo
<1>4. CASE cursor[l] < f /\ f \in Seen
  BY <1>4 DEF IInv, WindowHeard
<1>5. CASE cursor[l] < f /\ f \notin Seen
  BY <1>1, <1>2, <1>5 DEF New
<1> QED
  BY <1>1, <1>3, <1>4, <1>5

StreamInv == IInv /\ OInv /\ PInv

\* No cursor of the stream passes an undelivered event.
LEMMA CursorsMove == ASSUME NothingSkipped' PROVE Stream!Move
BY DEF NothingSkipped, Stream!Move

\* A batch that is delivered is one of the stream.
LEMMA DeliverImplements ==
  ASSUME StreamInv, NothingSkipped', NEW l \in Loop, pc[l] = "receiving",
         NEW batch \in SUBSET New(l), batch # {}, Deliver(batch),
         \A e \in batch : \A f \in New(l) : f < e => f \in batch,
         UNCHANGED <<published, overlapped, misread>>
  PROVE  Stream!Next
<1>0. TypeOK /\ published \in Nat
  BY MonitorAssumption DEF StreamInv, IInv, TypeOK, Cursor
<1>1. batch \subseteq 1..published
  BY <1>0, NewPublished DEF StreamInv
<1>2. heard' = heard \cup batch /\ latest' \in batch /\ \A e \in batch : e <= latest'
  BY DEF Deliver
<1>3. \A e \in batch : 1..e \subseteq heard'
  BY <1>2, NoHoles DEF StreamInv
<1>4. ASSUME Calm
      PROVE  \E c \in {lastCursor} \cup {saved[s] : s \in Loop \cup {Shared}} :
               latest \in {0, c} /\ batch = (c + 1)..latest'
  <2> DEFINE b == IF lastCursor = 0 THEN cursor[l] ELSE lastCursor
  <2>1. b \in Nat
    BY <1>0, OrderlyTypes
  <2>2. b = IF lastCursor = 0 THEN cursor[l] ELSE lastCursor
    OBVIOUS
  <2> HIDE DEF b
  <2>3. /\ latest \in {0, b} /\ b \in {lastCursor} \cup {saved[s] : s \in Loop \cup {Shared}}
        /\ New(l) = (b + 1)..upto[l]
    BY <1>4, <2>1, <2>2, Batch DEF StreamInv
  <2>4. latest' \in Nat /\ upto[l] \in Nat /\ latest' <= upto[l]
    BY <1>0, <1>2, <2>1, <2>3, OrderlyTypes
  <2>5. \A f \in New(l) : f <= latest' => f \in batch
    <3>1. \A f \in New(l) : f < latest' => f \in batch
      BY <1>2
    <3>2. \A f \in New(l) : f \in Nat
      BY <2>1, <2>3, <2>4
    <3> QED
      BY <1>2, <2>4, <3>1, <3>2
  <2>6. batch = (b + 1)..latest'
    <3>1. ASSUME NEW f \in batch PROVE f \in (b + 1)..latest'
      <4>1. f \in (b + 1)..upto[l] /\ f <= latest'
        BY <1>2, <2>3
      <4> QED
        BY <2>1, <2>4, <4>1
    <3>2. ASSUME NEW f \in (b + 1)..latest' PROVE f \in batch
      <4>1. f \in (b + 1)..upto[l] /\ f <= latest'
        BY <2>1, <2>4
      <4> QED
        BY <2>3, <2>5, <4>1
    <3> QED
      BY <3>1, <3>2
  <2> QED
    BY <2>3, <2>6
<1>5. Stream!Move
  BY CursorsMove
<1>6. Calm' = Calm
  BY DEF Calm
<1>7. Stream!Deliver(batch)
  BY <1>1, <1>2, <1>3, <1>4, <1>5, <1>6 DEF Stream!Deliver
<1> QED
  BY <1>1, <1>7 DEF Stream!Next

\* A step that delivers nothing.
LEMMA OtherImplements ==
  ASSUME NothingSkipped', UNCHANGED <<published, heard, latest>>, Calm' => Calm
  PROVE  Stream!Next
<1>1. Stream!Move /\ Calm' \in BOOLEAN
  BY CursorsMove DEF Calm
<1> QED
  BY <1>1 DEF Stream!GoOn, Stream!Next

\* The process or the session begins anew.
LEMMA BeginImplements ==
  ASSUME NothingSkipped', latest' = 0, UNCHANGED <<published, heard>>
  PROVE  Stream!Next
<1>1. Stream!Move /\ Calm' \in BOOLEAN
  BY CursorsMove DEF Calm
<1> QED
  BY <1>1 DEF Stream!Begin, Stream!Next

LEMMA StreamInit == Init => Stream!Init
<1> SUFFICES ASSUME Init PROVE Stream!Init
  OBVIOUS
<1>1. {lastCursor} \cup {saved[s] : s \in Loop \cup {Shared}} = {0}
  BY DEF Init
<1>2. Calm \in BOOLEAN
  BY DEF Calm
<1> QED
  BY <1>1, <1>2 DEF Init, Stream!Init

LEMMA StreamStep == ASSUME StreamInv, StreamInv', [Next]_vars PROVE [Stream!Next]_(Stream!streamVars)
<1>0. NothingSkipped' /\ TypeOK
  BY DEF StreamInv, IInv
<1>1. CASE stopPolling \/ \E l \in Loop : Wake(l) \/ Read(l) \/ Answer(l) \/ FetchFails(l) \/ Save(l) \/ SaveFails(l)
  <2>1. UNCHANGED <<published, heard, latest, overlapped, misread>>
    BY <1>1 DEF stopPolling, Wake, Read, Answer, FetchFails, Save, SaveFails, history
  <2> QED
    BY <1>0, <2>1, OtherImplements DEF Calm
<1>2. ASSUME NEW l \in Loop, ReadFails(l) PROVE Stream!Next
  BY <1>0, <1>2, OtherImplements DEF ReadFails, Calm
<1>3. CASE Publish
  <2>1. UNCHANGED <<heard, latest, lastCursor, saved, overlapped, misread>> /\ published' = published + 1
    BY <1>3 DEF Publish, monitor, history
  <2> QED
    BY <2>1 DEF Stream!Emit, Stream!Next, Calm
<1>4. CASE Crash
  BY <1>0, <1>4, BeginImplements DEF Crash
<1>5. ASSUME NEW l \in Loop, NEW resume \in BOOLEAN, startResilientPolling(l, resume)
      PROVE  Stream!Next
  BY <1>0, <1>5, BeginImplements DEF startResilientPolling
<1>6. ASSUME NEW l \in Loop, Receive(l) PROVE Stream!Next
  <2>1. pc[l] = "receiving" /\ UNCHANGED <<published, overlapped, misread>>
    BY <1>6 DEF Receive
  <2>2. CASE UNCHANGED <<heard, latest>>
    BY <1>0, <2>1, <2>2, OtherImplements DEF Calm
  <2>3. CASE New(l) # {} /\ Deliver(New(l))
    BY <1>0, <2>1, <2>3, DeliverImplements
  <2> QED
    BY <1>6, <2>2, <2>3 DEF Receive
<1>7. ASSUME NEW l \in Loop, HandlerThrows(l) PROVE Stream!Next
  <2>1. pc[l] = "receiving" /\ UNCHANGED <<published, overlapped, misread>>
    BY <1>7 DEF HandlerThrows, monitor
  <2>2. PICK e \in New(l) \cup {0} : Deliver({f \in New(l) : f < e})
    BY <1>7 DEF HandlerThrows
  <2> DEFINE batch == {f \in New(l) : f < e}
  <2>3. CASE batch = {}
    <3>1. UNCHANGED <<heard, latest>>
      BY <2>2, <2>3 DEF Deliver
    <3> QED
      BY <1>0, <2>1, <3>1, OtherImplements DEF Calm
  <2>4. CASE batch # {}
    <3>1. \A g \in batch : \A f \in New(l) : f < g => f \in batch
      <4>1. e \in Nat /\ \A f \in New(l) : f \in Nat
        BY DEF New, Event
      <4> QED
        BY <4>1
    <3>2. batch \in SUBSET New(l)
      OBVIOUS
    <3> HIDE DEF batch
    <3> QED
      BY <1>0, <2>1, <2>2, <2>4, <3>1, <3>2, DeliverImplements DEF batch
  <2> QED
    BY <2>3, <2>4
<1>8. CASE UNCHANGED vars
  <2>1. UNCHANGED <<published, heard, latest, lastCursor, saved, overlapped, misread>>
    BY <1>8 DEF vars, monitor, history
  <2> QED
    BY <2>1 DEF Stream!streamVars, Calm
<1> QED
  BY <1>1, <1>2, <1>3, <1>4, <1>5, <1>6, <1>7, <1>8 DEF Next, Tick

\* Polling implements the abstract stream, for any loops, events, layouts and sizes: no event
\* is left out or delivered for the first time before an earlier one, whatever fails, overlaps
\* or crashes; and a calm session goes on from a cursor, in order, without holes and once.
THEOREM Refinement == Spec => ImplementsStream
<1>1. Init => StreamInv
  BY InvInit, OrderlyInit, PagesInit DEF StreamInv
<1>2. StreamInv /\ [Next]_vars => StreamInv'
  BY InvStep, OrderlyStep, PagesStep DEF StreamInv
<1>3. StreamInv /\ StreamInv' /\ [Next]_vars => [Stream!Next]_(Stream!streamVars)
  BY StreamStep
<1> QED
  BY <1>1, <1>2, <1>3, StreamInit, PTL DEF Spec, ImplementsStream, Stream!Spec

=============================================================================
