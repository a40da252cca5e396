SPECIFICATION Spec
CONSTANTS
  Instance = {a, b}
  MaxFaults = 0
CHECK_DEADLOCK FALSE
INVARIANT OneWinner
