SPECIFICATION Spec
CONSTANTS
  Worker = {w1, w2}
  spa = spa
  svc = svc
  uri1 = uri1
  uri2 = uri2
  Client = {spa, svc}
  Confidential = {svc}
  GrantTypes <- MCGrantTypes
  RedirectURIs <- MCRedirectURIs
  URI = {uri1, uri2}
  Verifier = {v1}
  NoPKCE = NoPKCE
  Ctx = {openid}
  OpenID = {openid}
  NoCtx = NoCtx
  NoClient = NoClient
  CodeTTL = 1
  AccessTTL = 1
  RefreshTTL = 1
  PersistentKey = TRUE
  MaxClock = 3
  MaxDraws = 8
  MaxGrants = 1
  MaxAppTokens = 0
  MaxRestarts = 0
SYMMETRY WorkerSymmetry
CHECK_DEADLOCK FALSE
INVARIANT
  RevokedIsFinal
