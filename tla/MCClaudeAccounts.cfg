CONSTANTS
  Accounts = {a, b}
  None = None
  Blank = Blank
  Switchers = {s1}
  Pollers = {p1}
  BlindCapture = FALSE
  MaxGen = 3
  MaxActs = 2
  MaxFaults = 1
SPECIFICATION FairSpec
INVARIANTS
  SlotsOwned
  QuarantineIsJust
  StoresAgree
PROPERTIES
  OutgoingBackedUp
  RecordsFollow
CHECK_DEADLOCK FALSE
