SPECIFICATION FairSpec
CONSTANTS
  Hook = {h1, h2, h3}
  TTL = 1
  MaxTime = 3
  Killable = TRUE
  FsFaults = TRUE
INVARIANTS
  DedupeUnlessClobbered
PROPERTIES
  BackOffJustified
  StaleStampReclaimed
CHECK_DEADLOCK FALSE
