SPECIFICATION MCSpec
CONSTANTS
  Account = {a, b}
  Refresh = {r1, r2}
  SignIn = {i1, i2}
  Caller = {c1}
  MaxTokens = 3
  None = None
INVARIANTS
  TypeOK
  SessionIsPaired
  SingleFlight
  LogoutHolds
  WaitersGetFreshTokens
PROPERTIES
  NeverTooEarly
  SessionIsRenewed
\* Everybody may have signed in, and every refresh be used up.
CHECK_DEADLOCK FALSE
