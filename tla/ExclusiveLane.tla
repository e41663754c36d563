--------------------------- MODULE ExclusiveLane ---------------------------
(***************************************************************************)
(* What tx-pipeline/queue.ts promises to its callers: for each key, the    *)
(* runs hold the lane one at a time and in the order in which they asked   *)
(* for it, and a run that stops waiting gives its place up without letting *)
(* anybody behind it overtake the ones before it.                          *)
(*                                                                         *)
(* The promise chain, the lane objects and the map that holds them are not *)
(* visible here; TxQueue.tla has them and implements this specification.   *)
(* TxPipeline.tla is built on this one.                                    *)
(***************************************************************************)
CONSTANTS Run,   \* the calls of runExclusive
          Key    \* the lane keys

VARIABLES phase, \* phase[r]: where call r stands
          key,   \* key[r]: the key call r is made with
          ahead  \* ahead[r]: the runs that asked before r and have not left

laneVars == <<phase, key, ahead>>

Phase == {"idle", "waiting", "holding", "left"}

\* The runs queueDepth(k) counts: those that hold lane k or wait for it.
InLane(k) == {r \in Run : phase[r] \in {"waiting", "holding"} /\ key[r] = k}

Init == /\ phase = [r \in Run |-> "idle"]
        /\ key \in [Run -> Key]
        /\ ahead = [r \in Run |-> {}]

\* A run asks for its lane: everybody in the lane is ahead of it.
Join(r) == /\ phase[r] = "idle"
           /\ phase' = [phase EXCEPT ![r] = "waiting"]
           /\ ahead' = [ahead EXCEPT ![r] = InLane(key[r])]
           /\ UNCHANGED key

\* The lane is granted to a run nobody is ahead of.
Grant(r) == /\ phase[r] = "waiting"
            /\ ahead[r] = {}
            /\ phase' = [phase EXCEPT ![r] = "holding"]
            /\ UNCHANGED <<key, ahead>>

\* A holder releases the lane, or a waiter gives up: it is ahead of nobody.
Leave(r) == /\ phase[r] \in {"waiting", "holding"}
            /\ phase' = [phase EXCEPT ![r] = "left"]
            /\ ahead' = [q \in Run |-> ahead[q] \ {r}]
            /\ UNCHANGED key

Next == \E r \in Run : Join(r) \/ Grant(r) \/ Leave(r)

Spec == Init /\ [][Next]_laneVars
=============================================================================
