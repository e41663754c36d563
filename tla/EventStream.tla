---------------------------- MODULE EventStream ----------------------------
(***************************************************************************)
(* What resilient polling (escrow/monitor.ts) promises to an integration   *)
(* that resumes from its cursors. The events of the contract are numbered  *)
(* in the order of the ledger. For the first time each of them is          *)
(* delivered in that order, none left out, whatever fails or crashes; it   *)
(* may be delivered again. A cursor is a position from which delivery may  *)
(* go on, so everything up to it was delivered. In a session that nothing  *)
(* disturbs delivery goes on from a cursor, in order, without holes and    *)
(* without repetition.                                                     *)
(*                                                                         *)
(* Ticks, pages, timers, the dedup window and the stores are not visible   *)
(* here; EscrowMonitor.tla has them and implements this specification.     *)
(***************************************************************************)
EXTENDS Naturals

VARIABLES emitted,   \* how many events there are
          delivered, \* those that handlers were given, ever
          cursors,   \* the positions from which delivery may go on
          latest,    \* the last event delivered in this session, 0 before the first
          orderly    \* nothing disturbed the session

streamVars == <<emitted, delivered, cursors, latest, orderly>>

Init == /\ emitted = 0 /\ delivered = {} /\ cursors = {0}
        /\ latest = 0 /\ orderly \in BOOLEAN

\* Cursors come and go, but none passes an event that was not delivered.
Move == \A c \in cursors' : 1..c \subseteq delivered'

Emit == /\ emitted' = emitted + 1
        /\ UNCHANGED <<delivered, cursors, latest, orderly>>

\* Handlers are given a batch, some of which they may have been given before.
Deliver(batch) ==
  /\ batch # {} /\ batch \subseteq 1..emitted
  /\ delivered' = delivered \cup batch
  /\ \A e \in batch : 1..e \subseteq delivered'
  /\ latest' \in batch /\ \A e \in batch : e <= latest'
  /\ orderly => \E c \in cursors : latest \in {0, c} /\ batch = (c + 1)..latest'
  /\ Move /\ UNCHANGED <<emitted, orderly>>

\* A cursor is stored or forgotten; or something disturbs the session.
GoOn == /\ Move /\ (orderly' => orderly)
        /\ orderly' \in BOOLEAN /\ UNCHANGED <<emitted, delivered, latest>>

\* A session begins, or the process crashes.
Begin == /\ latest' = 0 /\ orderly' \in BOOLEAN
         /\ Move /\ UNCHANGED <<emitted, delivered>>

Next == Emit \/ (\E batch \in SUBSET (1..emitted) : Deliver(batch)) \/ GoOn \/ Begin

Spec == Init /\ [][Next]_streamVars
=============================================================================
