CONSTANTS
  Accounts = {a, b}
  Lines = {1, 2, 3, 4}
  None = None
  Nameless = Nameless
  Procs = {p1, p2}
  Switchers = {p1}
  MaxGen = 3
  MaxActs = 2
  MaxFaults = 1
  Providers = {q1, q2}
  Lineages = {x1, x2}
  Unreadable = Unreadable
  Aliases = {n1}
SPECIFICATION FairSpec
PROPERTIES
  SwitchKeepsLogin
  LoginsStaySound
  VaultCatchesUp
CHECK_DEADLOCK FALSE
