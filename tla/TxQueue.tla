------------------------------ MODULE TxQueue ------------------------------
(***************************************************************************)
(* tx-pipeline/queue.ts: the per-key lanes that serialise pipeline runs.   *)
(*                                                                         *)
(* A lane is an object {tail, depth} held in the map `lanes`. Each call    *)
(* chains itself behind the lane's tail: it reads the tail promise, puts a *)
(* promise of its own in its place, and waits for the one it read. Nothing *)
(* else orders the runs, so mutual exclusion rests on every promise of the *)
(* chain being resolved no earlier than all the ones before it, including  *)
(* the promises of calls that timed out and went away.                     *)
(*                                                                         *)
(* Promises and lane objects are named by the call that created them: the  *)
(* promise r is the one r's `release` resolves, the lane object r the one  *)
(* r put in the map. JavaScript runs each synchronous stretch of the code  *)
(* (up to an await, a timer callback, a `then` callback) without           *)
(* interruption; each is one action.                                       *)
(***************************************************************************)
EXTENDS Naturals, FiniteSets

CONSTANTS Run,      \* the calls of runExclusive
          Key,      \* the lane keys
          None,     \* no lane object, or the promise that is resolved from the start
          Settling  \* the runs whose fn settles; the others hang for ever

ASSUME RunAssumption == IsFiniteSet(Run) /\ None \notin Run
ASSUME SettlingAssumption == Settling \subseteq Run

VARIABLES
  pc,        \* pc[r]: idle, waiting (at the await or the race), holding (in fn), done, expired
  key,       \* key[r]: the key r was called with
  bounded,   \* bounded[r]: whether r was given a timeoutMs
  lanes,     \* lanes[k]: the lane object the map holds for k
  tail,      \* tail[l]: the promise in lane object l
  depth,     \* depth[l]: the counter in lane object l
  lane,      \* lane[r]: the lane object r works on, `current`
  previous,  \* previous[r]: the promise r read off the lane
  released,  \* the promises that are resolved
  before     \* history: before[r] are the calls that entered r's lane object earlier

vars == <<pc, key, bounded, lanes, tail, depth, lane, previous, released, before>>

Active == {r \in Run : pc[r] \in {"waiting", "holding"}}
Entered(l) == {r \in Run : pc[r] # "idle" /\ lane[r] = l}
Resolved(p) == p = None \/ p \in released

TypeOK == /\ pc \in [Run -> {"idle", "waiting", "holding", "done", "expired"}]
          /\ key \in [Run -> Key]
          /\ bounded \in [Run -> BOOLEAN]
          /\ lanes \in [Key -> Run \cup {None}]
          /\ tail \in [Run -> Run \cup {None}]
          /\ depth \in [Run -> Nat]
          /\ lane \in [Run -> Run \cup {None}]
          /\ previous \in [Run -> Run \cup {None}]
          /\ released \in SUBSET Run
          /\ before \in [Run -> SUBSET Run]

Init == /\ pc = [r \in Run |-> "idle"]
        /\ key \in [Run -> Key]
        /\ bounded \in [Run -> BOOLEAN]
        /\ lanes = [k \in Key |-> None]
        /\ tail = [l \in Run |-> None]
        /\ depth = [l \in Run |-> 0]
        /\ lane = [r \in Run |-> None]
        /\ previous = [r \in Run |-> None]
        /\ released = {}
        /\ before = [r \in Run |-> {}]

-----------------------------------------------------------------------------
\* The lane object a call with key k works on: the map's, or a new one.
LaneFor(r, k) == IF lanes[k] = None THEN r ELSE lanes[k]

\* runExclusive up to its await: find or create the lane, chain behind its
\* tail, count in.
Enter(r) ==
  LET l == LaneFor(r, key[r]) IN
  /\ pc[r] = "idle"
  /\ pc' = [pc EXCEPT ![r] = "waiting"]
  /\ lanes' = [lanes EXCEPT ![key[r]] = l]
  /\ lane' = [lane EXCEPT ![r] = l]
  /\ previous' = [previous EXCEPT ![r] = tail[l]]
  /\ tail' = [tail EXCEPT ![l] = r]
  /\ depth' = [depth EXCEPT ![l] = @ + 1]
  /\ before' = [before EXCEPT ![r] = Entered(l)]
  /\ UNCHANGED <<key, bounded, released>>

\* Faulty `leave`s, which the properties are shown to catch: one counts a call
\* out twice, one forgets to take the lane object off the map, one takes it off
\* under those behind.
leaveTwice(r) == /\ depth' = [depth EXCEPT ![lane[r]] = @ - 2]
                 /\ UNCHANGED lanes
leaveKeepsLane(r) == /\ depth' = [depth EXCEPT ![lane[r]] = @ - 1]
                     /\ UNCHANGED lanes
leaveDropsLane(r) == /\ depth' = [depth EXCEPT ![lane[r]] = @ - 1]
                     /\ lanes' = [lanes EXCEPT ![key[r]] = None]

\* `leave`: count out; the last one out takes the lane object off the map, if
\* the map still holds this one.
leave(r) ==
  /\ depth' = [depth EXCEPT ![lane[r]] = @ - 1]
  /\ lanes' = IF depth[lane[r]] = 1 /\ lanes[key[r]] = lane[r]
              THEN [lanes EXCEPT ![key[r]] = None]
              ELSE lanes

\* The promise r waits for is resolved: r goes on to call fn.
Acquire(r) == /\ pc[r] = "waiting"
              /\ Resolved(previous[r])
              /\ pc' = [pc EXCEPT ![r] = "holding"]
              /\ UNCHANGED <<key, bounded, lanes, tail, depth, lane, previous, released, before>>

\* Faulty: the timer is armed only for a call chained behind one that still
\* waits or runs.
ExpireBehindActive(r) ==
  /\ pc[r] = "waiting"
  /\ bounded[r]
  /\ ~Resolved(previous[r])
  /\ previous[r] \in Active
  /\ pc' = [pc EXCEPT ![r] = "expired"]
  /\ leave(r)
  /\ UNCHANGED <<key, bounded, tail, lane, previous, released, before>>

\* The timer wins the race. It cannot win against a promise already resolved:
\* that continuation is a microtask, run before any timer. `release` is left
\* to Chain, below.
Expire(r) == /\ pc[r] = "waiting"
             /\ bounded[r]
             /\ ~Resolved(previous[r])
             /\ pc' = [pc EXCEPT ![r] = "expired"]
             /\ leave(r)
             /\ UNCHANGED <<key, bounded, tail, lane, previous, released, before>>

\* Faulty: an expired call releases at once, or only behind a call that ran.
ChainAtOnce(r) == /\ pc[r] = "expired"
                  /\ r \notin released
                  /\ released' = released \cup {r}
                  /\ UNCHANGED <<pc, key, bounded, lanes, tail, depth, lane, previous, before>>
ChainBehindDone(r) == /\ pc[r] = "expired"
                      /\ r \notin released
                      /\ previous[r] \in released
                      /\ pc[previous[r]] = "done"
                      /\ released' = released \cup {r}
                      /\ UNCHANGED <<pc, key, bounded, lanes, tail, depth, lane, previous, before>>

\* `previous.then(release)` of a call that expired.
Chain(r) == /\ pc[r] = "expired"
            /\ r \notin released
            /\ Resolved(previous[r])
            /\ released' = released \cup {r}
            /\ UNCHANGED <<pc, key, bounded, lanes, tail, depth, lane, previous, before>>

\* fn settles, with a value or an error: the finally block releases and leaves.
Finish(r) == /\ pc[r] = "holding"
             /\ pc' = [pc EXCEPT ![r] = "done"]
             /\ released' = released \cup {r}
             /\ leave(r)
             /\ UNCHANGED <<key, bounded, tail, lane, previous, before>>

Next == \E r \in Run : Enter(r) \/ Acquire(r) \/ Expire(r) \/ Chain(r) \/ Finish(r)

Spec == Init /\ [][Next]_vars

\* The event loop runs every continuation and fires every timer; fn settles
\* where it is assumed to, and nobody has to call runExclusive.
Fairness == \A r \in Run : /\ WF_vars(Acquire(r))
                           /\ WF_vars(Expire(r))
                           /\ WF_vars(Chain(r))
                           /\ r \in Settling => WF_vars(Finish(r))

FairSpec == Spec /\ Fairness

-----------------------------------------------------------------------------
\* At most one run at a time is inside fn for a key, whatever timed out before
\* it: what runExclusive is for, and what the chain of promises has to give.
MutualExclusion ==
  \A r, q \in Run :
    pc[r] = "holding" /\ pc[q] = "holding" /\ key[r] = key[q] => r = q

\* What queueDepth reports is the number of runs holding or waiting for the
\* lane, and the map holds a lane object exactly while there is one: an idle
\* account leaks no lane, and no lane is dropped under a run that still uses it.
LaneAccounting ==
  \A k \in Key :
    LET inLane == {r \in Active : key[r] = k} IN
    IF lanes[k] = None THEN inLane = {}
    ELSE /\ inLane # {}
         /\ depth[lanes[k]] = Cardinality(inLane)
         /\ \A r \in inLane : lane[r] = lanes[k]

\* The abstract lane, seen in the queue: a call that timed out has left it.
Lane == INSTANCE ExclusiveLane WITH
          phase <- [r \in Run |-> IF pc[r] \in {"done", "expired"} THEN "left" ELSE pc[r]],
          ahead <- [r \in Run |-> before[r] \cap Active]

\* The queue implements the abstract lane: a run starts only when every call
\* made before it with its key has left, in spite of timeouts and of lane
\* objects that come and go.
ImplementsLane == Lane!Spec

\* A call with a timeout never waits for ever, even behind a run that hangs.
BoundedWaitEnds ==
  \A r \in Run : pc[r] = "waiting" /\ bounded[r] ~> pc[r] # "waiting"

\* A call waits for ever only if a run that entered its lane before it hangs
\* in fn: calls that timed out in between do not cut it off from the release.
EveryWaitEnds ==
  \A r \in Run : pc[r] = "waiting" /\ before[r] \subseteq Settling ~> pc[r] # "waiting"

=============================================================================
