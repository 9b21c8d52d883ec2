SPECIFICATION WatcherSpec
CONSTANTS
  Row = {r1, s1, s2}
  Split = {s1, s2}
  MaxFiles = 2
  HookFaults = TRUE
  Purges = TRUE
INVARIANTS
  WatcherTypeOK
  ShownIsText
  OneHeadCostsOneRow
PROPERTIES
  NewTextShown
CHECK_DEADLOCK FALSE
