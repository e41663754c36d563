SPECIFICATION Spec
CONSTANTS
  Id = {a, w}
  Address = {a, b}
  Scope = {s1, s2, s3}
  MaxImport = 2
  None = None
INVARIANTS
  TypeOK
  ActiveIsRegistered
  ListenersKnow
  LookupsAgree
  ScopedSelection
SYMMETRY Symmetry
