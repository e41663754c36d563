SPECIFICATION MCSpec
CONSTANTS
  Run = {r1, r2}
  Main = r1
  MaxAttempts = 2
  MaxFeeBump = 1
  MaxForeign = 1
  NoFeeBump = NoFeeBump
INVARIANT
  SentIsSigned
\* Every run may be over, and the ledger has nothing left to take.
CHECK_DEADLOCK FALSE
