CONSTANTS
  c1 = c1
  c2 = c2
  c3 = c3
  Hooks = {h1}
  h1 = h1
  Absent = Absent
  Conversations = {c1, c2, c3}
  Own = c1
  Versions <- MCVersions
  Seed <- MCSeed
  Answers <- MCAnswers
  Domains = {"general", "python", "debug"}
  MAX_PATTERNS = 2
  MaxClock = 2
SPECIFICATION Spec
INVARIANTS SelectionBest PatternsFromOneSource PriorIsLatest
CHECK_DEADLOCK FALSE
