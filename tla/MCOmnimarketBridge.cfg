SPECIFICATION Spec
CONSTANTS
  ticket = ticket
  ci = ci
  CiTimeout = 2
  ServerDies = TRUE
CONSTANTS
  Call <- MCCall
  ToolOf <- MCToolOf
INVARIANTS
  OkIsFinal
  OneNodeAtATime
PROPERTIES
  CallsReturn
CHECK_DEADLOCK FALSE
