SPECIFICATION MCSpec
CONSTANTS
  Run = {r1, r2, r3, r4}
  Key = {k1, k2}
  MainKey = k1
  None = None
  Settling = {r1, r2, r3}
INVARIANTS
  TypeOK
  MutualExclusion
  LaneAccounting
PROPERTIES
  ImplementsLane
  BoundedWaitEnds
  EveryWaitEnds
\* Every call may be over, and the run outside Settling may hang.
CHECK_DEADLOCK FALSE
