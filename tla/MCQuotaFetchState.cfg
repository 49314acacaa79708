CONSTANTS
  Procs = {p1, p2}
  Nobody = Nobody
  NormalInterval = 2
  Post429Interval = 3
  Window429 = 6
  Recheck = 6
  ClaimTTL = 1
  BackoffBase = 2
  BackoffCap = 5
  RetryAfterCap = 6
  Retention = 8
  Hints = {0, 9}
  Start = 6
  MaxClock = 16
  MaxLag = 2
SYMMETRY Symmetry
SPECIFICATION Spec
INVARIANTS
  NeverParked
PROPERTIES
  BudgetSpaced
  RollingHourFloor
  StaleCompletionOnlyExtends
CHECK_DEADLOCK FALSE
