CONSTANTS
  Procs = {p1, p2}
  Nil = Nil
  Nobody = Nobody
  NormalInterval = 1
  Post429Interval = 2
  Window429 = 3
  Recheck = 3
  ClaimTTL = 1
  BackoffBase = 2
  BackoffCap = 3
  RetryAfterCap = 4
  Vendors = {"claude-code", "codex", "cline", "opencode", "grok", "cursor-cli", "antigravity"}
  Shelf = 3
  Period = 4
  StartTime = 5
  MaxClock = 7
  Agents = {a1, a2}
  MaxPuts = 3
  MaxFaults = 1
  Services = {1, 2}
  Values = {"old", "older", "new"}
  New = "new"
  Foreign = "foreign"
  CacheTTL = 1
  MaxEdition = 2
  Releases = {2, 3}
  Attempts = 2
  Claudes = {c1}
  MaxRequests = 3
  MaxLaunches = 2
  Striking = 2
  MaxMoves = 3
SPECIFICATION Spec
INVARIANTS
  VerdictReachesAll
  ReportsHonest
  MigratedOnce
  LocksSound
  HeardOnce
  LoadSound
PROPERTIES
  Implements
  PromptSpared
CHECK_DEADLOCK FALSE
