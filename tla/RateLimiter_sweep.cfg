CONSTANTS
  a = a
  b = b
  IP = {a, b}
  PerMinute = 2
  Minute = 3
  SweepSize = 2
  MaxClock = 9
  MaxAttempts = 5
SPECIFICATION Spec
CHECK_DEADLOCK FALSE
INVARIANTS TypeOK WindowBound NotLockedOut IdleSwept
PROPERTIES ImplementsIdeal
