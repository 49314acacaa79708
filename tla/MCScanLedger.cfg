CONSTANTS
  Scanners = {s1, s2}
  Prompts = {a, b}
  Messages = {m}
  None = None
  Aged = Aged
  Versions = {1}
  BatchMax = 1
  HeadMax = 1
  Outputs = {1, 2}
  MaxLines = 3
  MaxGen = 1
  MaxFaults = 1
  Expirable = {}
  MidScan = {}
SPECIFICATION Spec
SYMMETRY Symmetry
INVARIANTS
  CursorCoversRows
  AttributionTrue
PROPERTIES
  LedgerOnlyGrows
CHECK_DEADLOCK FALSE
