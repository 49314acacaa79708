CONSTANTS
  Pids = {p1, p2, p3}
  Nobody = Nobody
  MaxCrashes = 2
SPECIFICATION LockSpec
INVARIANTS
  SerializedUnlessRobbed
PROPERTIES
  LockKeepsBeingObtained
