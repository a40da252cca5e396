CONSTANTS
  x = x
  y = y
  IP = {"home", "other", "lb", "edge"}
  Trusted = {"lb", "edge"}
  Malformed = "?"
  Browser = {x, y}
  Address <- MCAddress
  Chain <- MCChain
  Header <- MCHeader
  Key = {"client_id", "redirect_uri", "response_type", "scope", "state", "code_challenge", "code_challenge_method"}
  Param = {"client_id", "redirect_uri", "response_type", "scope", "state", "code_challenge", "code_challenge_method", "prompt", "response_mode", "max_age"}
  Blank = ""
  Request <- MCRequest
  Value <- MCValue
  Variant <- MCVariant
  RedirectURIs <- MCRedirectURIs
  Confidential = {"web"}
  AllowedScopes <- MCAllowedScopes
  ScopeFields <- MCScopeFields
  Challenge = {"digest"}
  PerMinute = 1
  Minute = 1
  SweepSize = 2
  CSRFTTL = 1
  MaxClock = 2
  MaxAttempts = 2
  MaxForms = 2
  MaxBoots = 2
SPECIFICATION LoginSpec
CHECK_DEADLOCK FALSE
INVARIANTS CodeFromOwnForm RetryVerifies SentWhereRegistered WindowPerAddress
PROPERTIES BudgetByVerified
SYMMETRY BrowserSymmetry
