CONSTANTS
  Clients = {c1, c2}
  Keys = {k1, k2, ks, kl}
  ShortKeys = {ks}
  LongKeys = {kl}
  Tokens = {t1, t2}
  Requests = {r1, r2, r3}
  Ops = {"register", "basic"}
  SelfRegistration = TRUE
  EnableAdmin = TRUE
  FreshTokens = TRUE
  StoreFails = FALSE
  MaxRestarts = 0
  c1 = c1
  c2 = c2
  k1 = k1
  k2 = k2
  ks = ks
  kl = kl
  r1 = r1
  r2 = r2
  r3 = r3
  t1 = t1
  t2 = t2
  NoClient = NoClient
  NoKey = NoKey
  NoToken = NoToken
SPECIFICATION Spec
INVARIANTS
  CreatedMeansRegistered
  FirstRequestServed
SYMMETRY AuthSymmetry
