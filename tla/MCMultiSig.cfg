SPECIFICATION Spec
CONSTANTS
  Client = {c1, c2}
  Address = {a, b, x}
  Signer = {a, b}
  Threshold = 2
  Thresholds = {0, 1, 2}
  Retention = 1
  FeeBumpers = {}
  Call = {k1, k2}
  MaxTries = 2
  Deadlines = {1, 2}
  MaxTime = 2
  MaxAltered = 1
  MaxHolders = 1
  None = None
SYMMETRY Symmetry
INVARIANTS
  TypeOK
  BroadcastIsAuthorised
  SubmittedMeansLanded
  StatusMatchesSignatures
\* The operation may be over, or nobody may call again.
CHECK_DEADLOCK FALSE
