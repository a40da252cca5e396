CONSTANTS
  Files <- MCFiles
  Requested <- MCRequested
  Uri = {"a.example", "b.example", "c.example"}
  None = ""
  MaxBoots = 2
  MaxGrants = 1
  MaxMints = 1
SPECIFICATION Spec
CHECK_DEADLOCK FALSE
INVARIANTS
  MintedAsRegistered
  OwnRecord
  UserinfoFailsClosed
  LogoutOwnPolicy
