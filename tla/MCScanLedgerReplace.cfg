CONSTANTS
  Scanners = {s1}
  Prompts = {a}
  Messages = {m}
  None = None
  Aged = Aged
  Versions = {1, 2}
  BatchMax = 1
  HeadMax = 1
  Outputs = {1}
  MaxLines = 2
  MaxGen = 2
  MaxFaults = 1
  Expirable = {m}
  MidScan = {"rotate", "remove"}
SPECIFICATION FairSpec
PROPERTIES
  LedgerCatchesUp
CHECK_DEADLOCK FALSE
