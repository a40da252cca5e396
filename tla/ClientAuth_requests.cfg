CONSTANTS
  Text <- MCText
  Absent = ""
  Unescaped <- MCUnescaped
  BadEscape = "error"
  Client <- MCClient
  Confidential <- MCConfidential
  Secret <- MCSecret
  NoClient = "none"
SPECIFICATION Spec
CHECK_DEADLOCK FALSE
INVARIANTS OwnSecretOnly NoFreeProbe
