SPECIFICATION Spec
CONSTANTS
  Hook = {h1, h2, h3}
  Conv = {c1, c2}
  Kinds = {"session-start", "prompt", "stop", "shell"}
  Current = Current
  None = None
  Killable = TRUE
  IoFaults = TRUE
SYMMETRY Symmetry
VIEW View
INVARIANTS
  SerialMergesKeepEverything
  TornOnlyByWriters
PROPERTIES
  LinkIsLatest
  GateSound
CHECK_DEADLOCK FALSE
