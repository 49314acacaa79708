CONSTANTS
  Prompts = {p1}
  Models = {m1, m2}
  Days = {d1, d2}
  Calls = {c1, c2}
  None = None
SPECIFICATION FairSpec
INVARIANTS
  OneActionAtATime
  PagesShowTheirOwn
PROPERTIES
  WaitsEnd
CHECK_DEADLOCK FALSE
