SPECIFICATION FairSpec
CONSTANTS
  Instance = {a, b}
  MaxFaults = 4
CHECK_DEADLOCK FALSE
INVARIANT KeyInv
PROPERTIES KeyStable StartsTerminate EveryoneUp
