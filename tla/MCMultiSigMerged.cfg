SPECIFICATION Spec
CONSTANTS
  Client = {c1, c2}
  Address = {a, b}
  Signer = {a, b}
  Threshold = 2
  Thresholds = {2}
  Retention = 1
  FeeBumpers = {b}
  Call = {k1, k2}
  MaxTries = 2
  Deadlines = {1}
  MaxTime = 2
  MaxAltered = 0
  MaxHolders = 1
  None = None
INVARIANTS
  MergedIsValid
\* The operation may be over, or nobody may call again.
CHECK_DEADLOCK FALSE
