CONSTANTS
  Accounts = {a, b}
  None = None
  Blank = Blank
  Switchers = {s1}
  Pollers = {p1}
  BlindCapture = FALSE
  MaxGen = 3
  MaxActs = 2
  MaxFaults = 0
SPECIFICATION Spec
PROPERTY DeadLoginStaysOut
CHECK_DEADLOCK FALSE
