CONSTANTS
  None = None
  SessionAgents = {"codex", "grok", "cursor", "claude"}
  Texts = {p1, p2}
  Mail = {p2}
  Turns = {t1, t2}
  Totals = {u1, u2}
  Rollouts = {root, sub}
  Spawned = {sub}
  Prompts = {q1, None}
  Requests = {r1, None}
  Outputs = {1, 2}
  Inputs = {0, 2}
  Room = 1
  BatchMax = 2
  MaxLines = 5
  MaxFaults = 1
  Torn = Torn
  Mixed = Mixed
  MaxWrites = 8
  MaxMetas = 2
  Responses = {r1, r2}
  MaxCommits = 4
  MidRead = 1
  Messages = {1, 2, 3}
  Window = 1
  MaxTime = 3
  MaxFiles = 2
  SameMs = FALSE
  MaxBytes = 6
  ChunkSizes = {1, 2, 3}
  LineCaps = {1, 2}
SPECIFICATION Spec
SYMMETRY Symmetry
INVARIANTS
  ResumedAsOnce
  BilledToItsPrompt
  NothingSkipped
  LinesWhole
CHECK_DEADLOCK FALSE
