CONSTANTS
  s1 = s1
  s2 = s2
  r1 = r1
  r2 = r2
  Server = {s1, s2}
  Rotator = {r1, r2}
  AccessTTL = 2
  RefreshTTL = 1
  Skew = 0
  Override = 0
  MaxKeys = 2
  MaxClock = 6
SPECIFICATION Spec
SYMMETRY ProcessSymmetry
CHECK_DEADLOCK FALSE
INVARIANTS DiskInv StartsSucceed StagedKept RetentionCovers SignerTracked
