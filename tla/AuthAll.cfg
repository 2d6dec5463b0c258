CONSTANTS
  Clients = {c1, c2}
  Keys = {k1, k2}
  ShortKeys = {}
  LongKeys = {}
  Tokens = {t1, t2, t3}
  Requests = {r1, r2}
  Ops = {"register", "login", "unregister", "basic", "bearer"}
  SelfRegistration = FALSE
  EnableAdmin = TRUE
  FreshTokens = TRUE
  StoreFails = TRUE
  MaxRestarts = 1
  c1 = c1
  c2 = c2
  k1 = k1
  k2 = k2
  r1 = r1
  r2 = r2
  t1 = t1
  t2 = t2
  t3 = t3
  NoClient = NoClient
  NoKey = NoKey
  NoToken = NoToken
SPECIFICATION Spec
INVARIANTS
  TypeOK
  OneTokenPerClient
PROPERTIES
  KeyNeverOverwritten
  LiveSessionKept
  UnregisterInvalidates
  ImplementsSessions
SYMMETRY AuthSymmetry
\* A login waits forever when the tokens of the instance are used up.
CHECK_DEADLOCK FALSE
