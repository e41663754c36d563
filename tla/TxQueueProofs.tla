--------------------------- MODULE TxQueueProofs ---------------------------
(***************************************************************************)
(* What TLAPS proves of TxQueue.tla, for every number of calls and keys:   *)
(* type correctness, mutual exclusion, exact lane accounting, and that the *)
(* queue implements ExclusiveLane. All four come from one inductive        *)
(* invariant, IInv. Its heart is the chain: the calls of a lane object are *)
(* ordered by `before`, each call's promise follows those of the calls     *)
(* before it (Chained), and a promise is resolved only when they have all  *)
(* left (ReleasedLast). MutualExclusion alone says nothing of the promises *)
(* of calls that have gone, on which the next step depends.                *)
(***************************************************************************)
EXTENDS TxQueue, FiniteSetTheorems, TLAPS

InActive(l) == {r \in Active : lane[r] = l}

\* A lane object, and who uses it. A call is on a lane object some call with its
\* own key put in the map, and what it saw before it entered that lane earlier.
Placed ==
  \A r \in Run :
    /\ pc[r] = "idle" => r \notin released /\ before[r] = {}
    /\ pc[r] # "idle" => /\ lane[r] \in Run
                         /\ pc[lane[r]] # "idle"
                         /\ lane[lane[r]] = lane[r]
                         /\ key[lane[r]] = key[r]
                         /\ before[r] \subseteq Entered(lane[r]) \ {r}

\* The chain: a call's promise follows the one it waits for, which follows all
\* the earlier ones; the tail follows everything in the lane.
Chained ==
  \A r \in Run :
    pc[r] # "idle" =>
      IF previous[r] = None THEN before[r] = {}
      ELSE /\ previous[r] \in before[r]
           /\ before[r] = before[previous[r]] \cup {previous[r]}

TailLast ==
  \A l \in Run :
    IF tail[l] = None THEN Entered(l) = {}
    ELSE /\ tail[l] \in Entered(l)
         /\ Entered(l) = before[tail[l]] \cup {tail[l]}

\* Two calls of one lane entered it one after the other.
Ordered ==
  \A r, q \in Run :
    pc[r] # "idle" /\ pc[q] # "idle" /\ lane[r] = lane[q] /\ r # q
      => r \in before[q] \/ q \in before[r]

\* A promise is resolved, and a lane held, only when everybody before is gone.
ReleasedLast ==
  \A r \in released : r \notin Active /\ before[r] \cap Active = {}

HeldLast ==
  \A r \in Run : pc[r] = "holding" => before[r] \cap Active = {}

\* The map has the lane object of every call that holds or waits, and each lane
\* object counts those on it.
Mapped ==
  /\ \A r \in Active : lanes[key[r]] = lane[r]
  /\ \A k \in Key : lanes[k] # None => /\ pc[lanes[k]] # "idle"
                                       /\ lane[lanes[k]] = lanes[k]
                                       /\ key[lanes[k]] = k
                                       /\ InActive(lanes[k]) # {}

Counted == \A l \in Run : depth[l] = Cardinality(InActive(l))

IInv == TypeOK /\ Placed /\ Chained /\ TailLast /\ Ordered
        /\ ReleasedLast /\ HeldLast /\ Mapped /\ Counted

\* No call, no lane object: the invariant holds initially.
LEMMA InitInv == Init => IInv
<1> SUFFICES ASSUME Init PROVE IInv
  OBVIOUS
<1> USE RunAssumption DEF Init
<1>1. Active = {} /\ \A l \in Run : Entered(l) = {} /\ InActive(l) = {}
  BY DEF Active, Entered, InActive
<1>2. TypeOK
  BY DEF TypeOK
<1>3. Placed /\ Chained /\ TailLast /\ Ordered
  BY <1>1 DEF Placed, Chained, TailLast, Ordered
<1>4. ReleasedLast /\ HeldLast /\ Mapped
  BY <1>1 DEF ReleasedLast, HeldLast, Mapped
<1>5. Counted
  BY <1>1, FS_EmptySet DEF Counted
<1> QED
  BY <1>2, <1>3, <1>4, <1>5 DEF IInv

-----------------------------------------------------------------------------
\* A call enters: it goes behind everything in its lane.
LEMMA EnterInv == ASSUME IInv, NEW r \in Run, Enter(r) PROVE IInv'
<1> USE RunAssumption
<1>0. /\ TypeOK /\ Placed /\ Chained /\ TailLast /\ Ordered
      /\ ReleasedLast /\ HeldLast /\ Mapped /\ Counted
  BY DEF IInv
<1>1. /\ pc[r] = "idle" /\ key[r] \in Key /\ key' = key /\ bounded' = bounded
      /\ released' = released /\ r \notin released
  BY <1>0 DEF Enter, TypeOK, Placed
<1>l. LaneFor(r, key[r]) \in Run
  BY <1>0, <1>1 DEF LaneFor, TypeOK
<1> PICK l \in Run : l = LaneFor(r, key[r])
  BY <1>l
<1>2. /\ l \in Run
      /\ l # r => pc[l] # "idle" /\ lane[l] = l /\ key[l] = key[r] /\ lanes[key[r]] = l
      /\ l = r => lanes[key[r]] = None
  BY <1>0, <1>1 DEF LaneFor, TypeOK, Mapped
<1>3. /\ pc' = [pc EXCEPT ![r] = "waiting"]
      /\ lanes' = [lanes EXCEPT ![key[r]] = l]
      /\ lane' = [lane EXCEPT ![r] = l]
      /\ previous' = [previous EXCEPT ![r] = tail[l]]
      /\ tail' = [tail EXCEPT ![l] = r]
      /\ depth' = [depth EXCEPT ![l] = @ + 1]
      /\ before' = [before EXCEPT ![r] = Entered(l)]
  BY DEF Enter
<1>4. l = r => Entered(l) = {}
  BY <1>0, <1>1 DEF Entered, Placed
<1>5. Active' = Active \cup {r} /\ r \notin Active
  BY <1>0, <1>1, <1>3 DEF Active, TypeOK
<1>6. \A m \in Run : Entered(m)' = IF m = l THEN Entered(m) \cup {r} ELSE Entered(m)
  BY <1>0, <1>1, <1>2, <1>3 DEF Entered, TypeOK
<1>7. \A m \in Run : r \notin Entered(m)
  BY <1>1 DEF Entered
<1>8. \A m \in Run : InActive(m)' = IF m = l THEN InActive(m) \cup {r} ELSE InActive(m)
  BY <1>0, <1>1, <1>2, <1>3, <1>5 DEF InActive, Active, TypeOK
<1>9. Entered(l) \subseteq Run /\ \A q \in Run : pc[q] # "idle" => before[q] \subseteq Entered(lane[q])
  BY <1>0 DEF Entered, Placed
<1>10. TypeOK'
  BY <1>0, <1>1, <1>2, <1>3, <1>9 DEF TypeOK
<1>11. Placed'
  <2> SUFFICES ASSUME NEW q \in Run
               PROVE  (/\ pc[q] = "idle" => q \notin released /\ before[q] = {}
                       /\ pc[q] # "idle" => /\ lane[q] \in Run
                                            /\ pc[lane[q]] # "idle"
                                            /\ lane[lane[q]] = lane[q]
                                            /\ key[lane[q]] = key[q]
                                            /\ before[q] \subseteq Entered(lane[q]) \ {q})'
    BY DEF Placed
  <2>1. CASE q = r
    <3>1. /\ lane'[r] = l /\ pc'[r] = "waiting" /\ before'[r] = Entered(l)
          /\ pc'[l] # "idle" /\ lane'[l] = l /\ key'[l] = key'[r]
      BY <1>0, <1>1, <1>2, <1>3 DEF TypeOK
    <3>2. before'[r] \subseteq Entered(lane[r])' \ {r}
      BY <3>1, <1>0, <1>2, <1>3, <1>7 DEF TypeOK, Entered
    <3> QED
      BY <2>1, <3>1, <3>2, <1>2
  <2>2. CASE q # r /\ pc[q] = "idle"
    BY <2>2, <1>0, <1>1, <1>3 DEF TypeOK, Placed
  <2>3. CASE q # r /\ pc[q] # "idle"
    <3>1. lane[q] \in Run /\ lane[q] # r
      BY <2>3, <1>0, <1>1 DEF Placed
    <3>2. /\ lane'[q] = lane[q] /\ pc'[lane[q]] # "idle" /\ lane'[lane[q]] = lane[q]
          /\ key'[lane[q]] = key'[q] /\ before'[q] = before[q] /\ pc'[q] # "idle"
      BY <3>1, <2>3, <1>0, <1>1, <1>3 DEF TypeOK, Placed
    <3>3. before'[q] \subseteq Entered(lane[q])' \ {q}
      BY <3>1, <3>2, <2>3, <1>0, <1>1, <1>3 DEF TypeOK, Placed, Entered
    <3> QED
      BY <3>1, <3>2, <3>3
  <2> QED
    BY <2>1, <2>2, <2>3
<1>12. Chained'
  <2> SUFFICES ASSUME NEW q \in Run, pc'[q] # "idle"
               PROVE  IF previous'[q] = None THEN before'[q] = {}
                      ELSE /\ previous'[q] \in before'[q]
                           /\ before'[q] = before'[previous'[q]] \cup {previous'[q]}
    BY DEF Chained
  <2>1. CASE q = r
    <3>1. previous'[q] = tail[l] /\ before'[q] = Entered(l)
      BY <2>1, <1>0, <1>3 DEF TypeOK
    <3>2. tail[l] # None => tail[l] \in Entered(l) /\ tail[l] # r
                            /\ Entered(l) = before[tail[l]] \cup {tail[l]}
      BY <1>0, <1>2, <1>7 DEF TailLast
    <3> QED
      BY <3>1, <3>2, <1>0, <1>2, <1>3 DEF TypeOK, TailLast
  <2>2. CASE q # r
    <3>1. pc[q] # "idle" /\ previous'[q] = previous[q] /\ before'[q] = before[q]
      BY <2>2, <1>0, <1>3 DEF TypeOK
    <3>2. previous[q] # None => previous[q] # r
      BY <3>1, <1>0, <1>7, <1>9 DEF Chained, Placed
    <3> QED
      BY <3>1, <3>2, <1>0, <1>3 DEF TypeOK, Chained
  <2> QED
    BY <2>1, <2>2
<1>13. TailLast'
  <2> SUFFICES ASSUME NEW m \in Run
               PROVE  IF tail'[m] = None THEN Entered(m)' = {}
                      ELSE /\ tail'[m] \in Entered(m)'
                           /\ Entered(m)' = before'[tail'[m]] \cup {tail'[m]}
    BY DEF TailLast
  <2>1. CASE m = l
    BY <2>1, <1>0, <1>2, <1>3, <1>6 DEF TypeOK
  <2>2. CASE m # l
    <3>1. tail'[m] = tail[m] /\ Entered(m)' = Entered(m)
      BY <2>2, <1>0, <1>3, <1>6 DEF TypeOK
    <3>2. tail[m] # None => tail[m] # r
      BY <1>0, <1>7 DEF TailLast
    <3> QED
      BY <3>1, <3>2, <1>0, <1>3 DEF TypeOK, TailLast
  <2> QED
    BY <2>1, <2>2
<1>14. Ordered'
  <2> SUFFICES ASSUME NEW p \in Run, NEW q \in Run, pc'[p] # "idle", pc'[q] # "idle",
                      lane'[p] = lane'[q], p # q
               PROVE  p \in before'[q] \/ q \in before'[p]
    BY DEF Ordered
  <2>1. CASE p = r
    <3>1. q \in Entered(l)
      BY <2>1, <1>0, <1>2, <1>3 DEF TypeOK, Entered
    <3> QED
      BY <3>1, <2>1, <1>0, <1>3 DEF TypeOK
  <2>2. CASE q = r
    <3>1. p \in Entered(l)
      BY <2>2, <1>0, <1>2, <1>3 DEF TypeOK, Entered
    <3> QED
      BY <3>1, <2>2, <1>0, <1>3 DEF TypeOK
  <2>3. CASE p # r /\ q # r
    BY <2>3, <1>0, <1>3 DEF TypeOK, Ordered
  <2> QED
    BY <2>1, <2>2, <2>3
<1>15. ReleasedLast' /\ HeldLast'
  <2>1. \A q \in Run : q # r /\ pc[q] # "idle" => before'[q] \cap Active' = before[q] \cap Active
    BY <1>0, <1>3, <1>5, <1>7, <1>9 DEF TypeOK, Placed
  <2>2. \A q \in released : q # r /\ pc[q] # "idle" /\ q \in Run
    BY <1>0, <1>1 DEF TypeOK, Placed
  <2>3. ReleasedLast'
    BY <2>1, <2>2, <1>0, <1>1, <1>5 DEF ReleasedLast
  <2>4. HeldLast'
    BY <2>1, <1>0, <1>1, <1>3 DEF TypeOK, HeldLast
  <2> QED
    BY <2>3, <2>4
<1>16. Mapped'
  <2>1. ASSUME NEW q \in Active' PROVE lanes'[key'[q]] = lane'[q]
    <3>1. CASE q = r
      BY <3>1, <1>0, <1>1, <1>3 DEF TypeOK
    <3>2. CASE q # r
      <4>1. q \in Active /\ q \in Run /\ lanes[key[q]] = lane[q] /\ pc[q] # "idle"
        BY <3>2, <2>1, <1>0, <1>5 DEF Mapped, Active
      <4>2. key[q] = key[r] => lane[q] = l
        BY <4>1, <1>0, <1>2 DEF Placed
      <4> QED
        BY <4>1, <4>2, <3>2, <1>0, <1>1, <1>3 DEF TypeOK
    <3> QED
      BY <3>1, <3>2
  <2>2. ASSUME NEW k \in Key, lanes'[k] # None
        PROVE  (/\ pc[lanes[k]] # "idle"
                /\ lane[lanes[k]] = lanes[k]
                /\ key[lanes[k]] = k
                /\ InActive(lanes[k]) # {})'
    <3>1. CASE k = key[r]
      <4>1. lanes'[k] = l
        BY <3>1, <1>0, <1>3 DEF TypeOK
      <4>2. InActive(lanes[k])' # {}
        BY <4>1, <1>0, <1>3, <1>5 DEF TypeOK, InActive
      <4> QED
        BY <4>1, <4>2, <3>1, <1>0, <1>1, <1>2, <1>3 DEF TypeOK
    <3>2. CASE k # key[r]
      <4>1. /\ lanes'[k] = lanes[k] /\ lanes[k] \in Run /\ pc[lanes[k]] # "idle"
            /\ lane[lanes[k]] = lanes[k] /\ key[lanes[k]] = k /\ InActive(lanes[k]) # {}
        BY <3>2, <2>2, <1>0, <1>3 DEF TypeOK, Mapped
      <4>2. lanes[k] # r
        BY <4>1, <1>1
      <4>3. InActive(lanes[k])' # {}
        BY <4>1, <1>0, <1>3, <1>5 DEF TypeOK, InActive, Active
      <4> QED
        BY <4>1, <4>2, <4>3, <1>0, <1>1, <1>3 DEF TypeOK
    <3> QED
      BY <3>1, <3>2
  <2> QED
    BY <2>1, <2>2 DEF Mapped
<1>17. Counted'
  <2> SUFFICES ASSUME NEW m \in Run PROVE depth'[m] = Cardinality(InActive(m)')
    BY DEF Counted
  <2>1. CASE m = l
    <3>1. IsFiniteSet(InActive(m)) /\ r \notin InActive(m)
      BY <1>5, FS_Subset DEF InActive, Active
    <3>2. Cardinality(InActive(m) \cup {r}) = Cardinality(InActive(m)) + 1
      BY <3>1, FS_AddElement
    <3> QED
      BY <3>2, <2>1, <1>0, <1>3, <1>8 DEF TypeOK, Counted
  <2>2. CASE m # l
    BY <2>2, <1>0, <1>3, <1>8 DEF TypeOK, Counted
  <2> QED
    BY <2>1, <2>2
<1> QED
  BY <1>10, <1>11, <1>12, <1>13, <1>14, <1>15, <1>16, <1>17 DEF IInv


-----------------------------------------------------------------------------
\* A call goes on from its await: nobody before it is left.
LEMMA AcquireInv == ASSUME IInv, NEW r \in Run, Acquire(r) PROVE IInv'
<1>0. /\ TypeOK /\ Placed /\ Chained /\ TailLast /\ Ordered
      /\ ReleasedLast /\ HeldLast /\ Mapped /\ Counted
  BY DEF IInv
<1>1. /\ pc[r] = "waiting" /\ Resolved(previous[r])
      /\ pc' = [pc EXCEPT ![r] = "holding"]
      /\ UNCHANGED <<key, bounded, lanes, tail, depth, lane, previous, released, before>>
  BY DEF Acquire
<1>2. Active' = Active
  BY <1>0, <1>1 DEF Active, TypeOK
<1>3. \A q \in Run : pc'[q] = "idle" <=> pc[q] = "idle"
  BY <1>0, <1>1 DEF TypeOK
<1>4. \A m \in Run : Entered(m)' = Entered(m) /\ InActive(m)' = InActive(m)
  BY <1>1, <1>2, <1>3 DEF Entered, InActive
<1>5. before[r] \cap Active = {}
  BY <1>0, <1>1 DEF Chained, ReleasedLast, Resolved
<1>6. TypeOK'
  BY <1>0, <1>1 DEF TypeOK
<1>7. Placed'
  BY <1>0, <1>1, <1>3, <1>4 DEF Placed
<1>8. Chained' /\ TailLast' /\ Ordered'
  BY <1>0, <1>1, <1>3, <1>4 DEF Chained, TailLast, Ordered
<1>9. ReleasedLast' /\ HeldLast'
  BY <1>0, <1>1, <1>2, <1>5 DEF ReleasedLast, HeldLast, TypeOK
<1>10. Mapped' /\ Counted'
  <2>1. Counted'
    BY <1>0, <1>1, <1>4 DEF Counted
  <2>2. Mapped'
    BY <1>0, <1>1, <1>2, <1>3, <1>4, RunAssumption DEF Mapped, TypeOK
  <2> QED
    BY <2>1, <2>2
<1> QED
  BY <1>6, <1>7, <1>8, <1>9, <1>10 DEF IInv

\* An expired call passes the release on once everybody before it is gone.
LEMMA ChainInv == ASSUME IInv, NEW r \in Run, Chain(r) PROVE IInv'
<1>0. /\ TypeOK /\ Placed /\ Chained /\ TailLast /\ Ordered
      /\ ReleasedLast /\ HeldLast /\ Mapped /\ Counted
  BY DEF IInv
<1>1. /\ pc[r] = "expired" /\ Resolved(previous[r])
      /\ released' = released \cup {r}
      /\ UNCHANGED <<pc, key, bounded, lanes, tail, depth, lane, previous, before>>
  BY DEF Chain
<1>2. Active' = Active /\ \A m \in Run : Entered(m)' = Entered(m) /\ InActive(m)' = InActive(m)
  BY <1>1 DEF Active, Entered, InActive
<1>3. before[r] \cap Active = {} /\ r \notin Active
  BY <1>0, <1>1 DEF Chained, ReleasedLast, Resolved, Active
<1>4. TypeOK' /\ Placed'
  BY <1>0, <1>1, <1>2 DEF TypeOK, Placed
<1>5. Chained' /\ TailLast' /\ Ordered'
  BY <1>0, <1>1, <1>2 DEF Chained, TailLast, Ordered
<1>6. ReleasedLast' /\ HeldLast'
  BY <1>0, <1>1, <1>2, <1>3 DEF ReleasedLast, HeldLast
<1>7. Mapped' /\ Counted'
  BY <1>0, <1>1, <1>2, RunAssumption DEF Mapped, Counted, TypeOK
<1> QED
  BY <1>4, <1>5, <1>6, <1>7 DEF IInv

\* A call leaves its lane, as a timed-out waiter or as a holder whose fn settled.
LEMMA LeaveInv ==
  ASSUME IInv, NEW r \in Active, NEW s \in {"done", "expired"},
         pc' = [pc EXCEPT ![r] = s], leave(r),
         UNCHANGED <<key, bounded, tail, lane, previous, before>>,
         released' = released \/ (pc[r] = "holding" /\ released' = released \cup {r})
  PROVE  IInv'
<1> USE RunAssumption
<1>0. /\ TypeOK /\ Placed /\ Chained /\ TailLast /\ Ordered
      /\ ReleasedLast /\ HeldLast /\ Mapped /\ Counted
  BY DEF IInv
<1> PICK l \in Run : l = lane[r]
  BY <1>0 DEF Active, Placed
<1>1. /\ r \in Run /\ pc[r] # "idle" /\ key[r] \in Key /\ lanes[key[r]] = l
      /\ depth' = [depth EXCEPT ![l] = @ - 1]
      /\ lanes' = IF depth[l] = 1 THEN [lanes EXCEPT ![key[r]] = None] ELSE lanes
  BY <1>0 DEF Active, TypeOK, Mapped, leave
<1>2. Active' = Active \ {r}
  BY <1>0, <1>1 DEF Active, TypeOK
<1>3. \A q \in Run : pc'[q] = "idle" <=> pc[q] = "idle"
  BY <1>0, <1>1 DEF TypeOK
<1>4. \A m \in Run : Entered(m)' = Entered(m)
  BY <1>3 DEF Entered
<1>5. \A m \in Run : InActive(m)' = InActive(m) \ {r}
  BY <1>2 DEF InActive
<1>6. \A m \in Run : IsFiniteSet(InActive(m)) /\ Cardinality(InActive(m)) \in Nat
  BY FS_Subset, FS_CardinalityType DEF InActive, Active
<1>7. r \in InActive(l) /\ \A m \in Run : m # l => r \notin InActive(m)
  BY DEF InActive
<1>8. /\ Cardinality(InActive(l) \ {r}) = Cardinality(InActive(l)) - 1
      /\ depth[l] = Cardinality(InActive(l)) /\ depth[l] # 0
  BY <1>0, <1>6, <1>7, FS_RemoveElement, FS_EmptySet DEF Counted
<1>9. (InActive(l) \ {r} = {}) <=> depth[l] = 1
  <2>1. IsFiniteSet(InActive(l) \ {r})
    BY <1>6, FS_RemoveElement
  <2>2. Cardinality(InActive(l) \ {r}) = 0 <=> InActive(l) \ {r} = {}
    BY <2>1, FS_EmptySet
  <2> QED
    BY <2>2, <1>6, <1>8
<1>10. TypeOK'
  BY <1>0, <1>1, <1>6, <1>8 DEF TypeOK
<1>11. Placed'
  <2>1. \A q \in Run : pc[q] = "idle" => q \notin released'
    BY <1>0, <1>1 DEF Placed
  <2> QED
    BY <2>1, <1>0, <1>3, <1>4 DEF Placed
<1>12. Chained' /\ TailLast' /\ Ordered'
  BY <1>0, <1>3, <1>4 DEF Chained, TailLast, Ordered
<1>13. ReleasedLast' /\ HeldLast'
  BY <1>0, <1>1, <1>2 DEF ReleasedLast, HeldLast, TypeOK
<1>14. Counted'
  <2> SUFFICES ASSUME NEW m \in Run PROVE depth'[m] = Cardinality(InActive(m)')
    BY DEF Counted
  <2>1. CASE m = l
    BY <2>1, <1>0, <1>1, <1>5, <1>8 DEF TypeOK
  <2>2. CASE m # l
    <3>1. InActive(m)' = InActive(m)
      BY <2>2, <1>5, <1>7
    <3> QED
      BY <2>2, <3>1, <1>0, <1>1 DEF TypeOK, Counted
  <2> QED
    BY <2>1, <2>2
<1>15. Mapped'
  <2>1. ASSUME NEW q \in Active' PROVE lanes'[key'[q]] = lane'[q]
    <3>1. q \in Active /\ q # r /\ lanes[key[q]] = lane[q]
      BY <2>1, <1>0, <1>2 DEF Mapped
    <3>2. depth[l] = 1 => key[q] # key[r]
      BY <3>1, <1>1, <1>9 DEF InActive
    <3> QED
      BY <3>1, <3>2, <1>0, <1>1 DEF TypeOK
  <2>2. ASSUME NEW k \in Key, lanes'[k] # None
        PROVE  (/\ pc[lanes[k]] # "idle"
                /\ lane[lanes[k]] = lanes[k]
                /\ key[lanes[k]] = k
                /\ InActive(lanes[k]) # {})'
    <3> PICK m \in Run : m = lanes[k]
      BY <2>2, <1>0, <1>1 DEF TypeOK
    <3>1. /\ lanes'[k] = m /\ pc[m] # "idle" /\ lane[m] = m /\ key[m] = k /\ InActive(m) # {}
      BY <2>2, <1>0, <1>1 DEF TypeOK, Mapped
    <3>2. InActive(m) \ {r} # {}
      <4>1. CASE m # l
        BY <4>1, <3>1, <1>7
      <4>2. CASE m = l
        <5>1. key[r] = k
          BY <4>2, <3>1, <1>0, <1>1 DEF Placed
        <5>2. depth[l] # 1
          BY <5>1, <2>2, <1>0, <1>1 DEF TypeOK
        <5> QED
          BY <5>2, <4>2, <1>9
      <4> QED
        BY <4>1, <4>2
    <3>3. InActive(lanes[k])' # {}
      BY <3>1, <3>2, <1>2 DEF InActive
    <3> QED
      BY <3>1, <3>3, <1>3
  <2> QED
    BY <2>1, <2>2 DEF Mapped
<1> QED
  BY <1>10, <1>11, <1>12, <1>13, <1>14, <1>15 DEF IInv

-----------------------------------------------------------------------------
\* Every step of the queue preserves the invariant.
LEMMA NextInv == IInv /\ [Next]_vars => IInv'
<1> SUFFICES ASSUME IInv, [Next]_vars PROVE IInv'
  OBVIOUS
<1>1. ASSUME NEW r \in Run, Enter(r) PROVE IInv'
  BY <1>1, EnterInv
<1>2. ASSUME NEW r \in Run, Acquire(r) PROVE IInv'
  BY <1>2, AcquireInv
<1>3. ASSUME NEW r \in Run, Expire(r) PROVE IInv'
  <2>1. r \in Active
    BY <1>3 DEF Expire, Active
  <2> QED
    BY <1>3, <2>1, LeaveInv DEF Expire
<1>4. ASSUME NEW r \in Run, Chain(r) PROVE IInv'
  BY <1>4, ChainInv
<1>5. ASSUME NEW r \in Run, Finish(r) PROVE IInv'
  <2>1. r \in Active
    BY <1>5 DEF Finish, Active
  <2> QED
    BY <1>5, <2>1, LeaveInv DEF Finish
<1>6. CASE UNCHANGED vars
  BY <1>6 DEF vars, IInv, TypeOK, Placed, Chained, TailLast, Ordered, ReleasedLast, HeldLast,
              Mapped, Counted, Active, Entered, InActive
<1> QED
  BY <1>1, <1>2, <1>3, <1>4, <1>5, <1>6 DEF Next

\* The invariant holds in every state of every behaviour.
LEMMA InductiveInv == Spec => []IInv
BY InitInv, NextInv, PTL DEF Spec


-----------------------------------------------------------------------------
\* Type correctness: runExclusive keeps its lanes, promises and counters well
\* formed; `depth` in particular never goes below zero.
THEOREM TypeCorrect == Spec => []TypeOK
<1>1. IInv => TypeOK
  BY DEF IInv
<1> QED
  BY <1>1, InductiveInv, PTL

\* Whatever the number of calls, keys and timeouts, no two calls are inside fn
\* for the same key. Both would be in the same lane object, one of them before
\* the other, and a holder has no active call before it.
THEOREM Exclusion == Spec => []MutualExclusion
<1>1. IInv => MutualExclusion
  <2> SUFFICES ASSUME IInv, NEW r \in Run, NEW q \in Run, pc[r] = "holding", pc[q] = "holding",
                      key[r] = key[q], r # q
               PROVE  FALSE
    BY DEF MutualExclusion
  <2>1. r \in Active /\ q \in Active /\ lane[r] = lane[q]
    BY DEF IInv, Mapped, Active
  <2>2. r \in before[q] \/ q \in before[r]
    BY <2>1 DEF IInv, Ordered
  <2> QED
    BY <2>1, <2>2 DEF IInv, HeldLast
<1> QED
  BY <1>1, InductiveInv, PTL

\* queueDepth is exact and the map holds precisely the lanes in use.
THEOREM Accounting == Spec => []LaneAccounting
<1>1. IInv => LaneAccounting
  <2> SUFFICES ASSUME IInv, NEW k \in Key
               PROVE  LET inLane == {r \in Active : key[r] = k} IN
                      IF lanes[k] = None THEN inLane = {}
                      ELSE /\ inLane # {}
                           /\ depth[lanes[k]] = Cardinality(inLane)
                           /\ \A r \in inLane : lane[r] = lanes[k]
    BY DEF LaneAccounting
  <2>1. \A r \in Active : r \in Run /\ lane[r] \in Run /\ key[lane[r]] = key[r]
                          /\ lanes[key[r]] = lane[r]
    BY DEF IInv, Placed, Mapped, Active
  <2>2. CASE lanes[k] = None
    BY <2>1, <2>2, RunAssumption
  <2>3. CASE lanes[k] # None
    <3>1. lanes[k] \in Run /\ key[lanes[k]] = k /\ InActive(lanes[k]) # {}
      BY <2>3 DEF IInv, TypeOK, Mapped
    <3>2. {r \in Active : key[r] = k} = InActive(lanes[k])
      BY <2>1, <3>1 DEF InActive
    <3> QED
      BY <2>3, <3>1, <3>2 DEF IInv, Counted, InActive
  <2> QED
    BY <2>2, <2>3
<1> QED
  BY <1>1, InductiveInv, PTL

\* The promise chain implements the first-come first-served lane: each step of
\* the queue is a step of ExclusiveLane or leaves what it shows unchanged.
THEOREM Refinement == Spec => ImplementsLane
<1> USE RunAssumption
<1>1. Init => Lane!Init
  BY DEF Init, Lane!Init
<1>2. IInv /\ [Next]_vars => [Lane!Next]_(Lane!laneVars)
  <2> SUFFICES ASSUME IInv, [Next]_vars PROVE [Lane!Next]_(Lane!laneVars)
    OBVIOUS
  <2>0. TypeOK /\ Placed /\ ReleasedLast /\ Chained /\ Mapped
    BY DEF IInv
  <2>1. ASSUME NEW r \in Run, Enter(r) PROVE Lane!Join(r)
    <3> PICK l \in Run : l = LaneFor(r, key[r])
      BY <2>0 DEF LaneFor, TypeOK
    <3>1. /\ pc[r] = "idle" /\ key' = key
          /\ pc' = [pc EXCEPT ![r] = "waiting"]
          /\ before' = [before EXCEPT ![r] = Entered(l)]
      BY <2>1 DEF Enter
    <3>2. Active' = Active \cup {r} /\ r \notin Active
      BY <3>1, <2>0 DEF Active, TypeOK
    <3>3. \A q \in Run : r \notin before[q]
      BY <3>1, <2>0 DEF Placed, Entered
    <3>4. Entered(l) \cap Active' = {q \in Active : key[q] = key[r]}
      <4>1. Entered(l) \cap Active' = Entered(l) \cap Active
        BY <3>1, <3>2 DEF Entered
      <4>2. ASSUME NEW q \in Active PROVE q \in Entered(l) <=> key[q] = key[r]
        <5>1. q \in Run /\ pc[q] # "idle" /\ lane[q] # r /\ lanes[key[q]] = lane[q]
              /\ lane[q] \in Run /\ key[lane[q]] = key[q]
          BY <3>1, <2>0 DEF Active, Placed, Mapped
        <5>2. l # r => l = lanes[key[r]] /\ key[l] = key[r]
          BY <2>0 DEF LaneFor, TypeOK, Mapped
        <5>3. l = r => lanes[key[r]] = None
          BY <3>1, <2>0 DEF LaneFor, TypeOK, Mapped
        <5> QED
          BY <5>1, <5>2, <5>3 DEF Entered
      <4> QED
        BY <4>1, <4>2
    <3>5. Lane!InLane(key[r]) = {q \in Active : key[q] = key[r]}
      BY <2>0 DEF Lane!InLane, Active, TypeOK
    <3>6. [q \in Run |-> before[q] \cap Active]'
            = [[q \in Run |-> before[q] \cap Active] EXCEPT ![r] = Lane!InLane(key[r])]
      <4>1. before'[r] \cap Active' = Lane!InLane(key[r])
        BY <3>1, <3>4, <3>5, <2>0 DEF TypeOK
      <4>2. \A q \in Run \ {r} : before'[q] \cap Active' = before[q] \cap Active
        BY <3>1, <3>2, <3>3, <2>0 DEF TypeOK
      <4> QED
        BY <4>1, <4>2
    <3> QED
      BY <3>1, <3>6, <2>0 DEF Lane!Join, TypeOK
  <2>2. ASSUME NEW r \in Run, Acquire(r) PROVE Lane!Grant(r)
    <3>1. /\ pc[r] = "waiting" /\ pc' = [pc EXCEPT ![r] = "holding"]
          /\ key' = key /\ before' = before /\ Resolved(previous[r])
      BY <2>2 DEF Acquire
    <3>2. Active' = Active
      BY <3>1, <2>0 DEF Active, TypeOK
    <3>3. before[r] \cap Active = {}
      BY <3>1, <2>0 DEF Chained, ReleasedLast, Resolved
    <3> QED
      BY <3>1, <3>2, <3>3, <2>0 DEF Lane!Grant, TypeOK
  <2>3. ASSUME NEW r \in Run, Expire(r) \/ Finish(r) PROVE Lane!Leave(r)
    <3> PICK s \in {"done", "expired"} : pc' = [pc EXCEPT ![r] = s]
      BY <2>3 DEF Expire, Finish
    <3>1. pc[r] \in {"waiting", "holding"} /\ key' = key /\ before' = before
      BY <2>3 DEF Expire, Finish
    <3>2. Active' = Active \ {r}
      BY <3>1, <2>0 DEF Active, TypeOK
    <3>3. [q \in Run |-> before[q] \cap Active]'
            = [q \in Run |-> [p \in Run |-> before[p] \cap Active][q] \ {r}]
      BY <3>1, <3>2
    <3>4. [q \in Run |-> IF pc[q] \in {"done", "expired"} THEN "left" ELSE pc[q]]'
            = [[q \in Run |-> IF pc[q] \in {"done", "expired"} THEN "left" ELSE pc[q]]
                 EXCEPT ![r] = "left"]
      BY <2>0 DEF TypeOK
    <3> QED
      BY <3>1, <3>3, <3>4 DEF Lane!Leave
  <2>4. ASSUME NEW r \in Run, Chain(r) PROVE UNCHANGED Lane!laneVars
    BY <2>4 DEF Chain, Lane!laneVars, Active
  <2>5. CASE UNCHANGED vars
    BY <2>5 DEF vars, Lane!laneVars, Active
  <2> QED
    BY <2>1, <2>2, <2>3, <2>4, <2>5 DEF Next, Lane!Next
<1> QED
  BY <1>1, <1>2, InductiveInv, PTL DEF Spec, ImplementsLane, Lane!Spec

=============================================================================
