-------------------------- MODULE MCEscrowMonitor --------------------------
(***************************************************************************)
(* Two starts, pages of two and a window of the same size: the smallest in *)
(* which a page is delivered in part and a key forgotten within it. Three  *)
(* events are a page of one and a full one behind it, which a failed write *)
(* makes the monitor read again; the fourth, in MCEscrowMonitorWrite.cfg,  *)
(* is the one it then never reaches.                                       *)
(***************************************************************************)
EXTENDS EscrowMonitor

\* All events are parsed; or one is dropped after the first, or a whole page.
Dense     == {[e \in 0..Length |-> e]}
MCLayouts == Dense \cup {[e \in 0..Length |-> IF e < 2 THEN e ELSE e + dropped] : dropped \in 1..2}

MCSpec == Init /\ [][Next]_vars /\ Fairness
=============================================================================
