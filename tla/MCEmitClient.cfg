SPECIFICATION FairClientSpec
CONSTANTS
  Request = {h1, h2}
  MAX_RESPONSE_PIECES = 2
  MaxUnread = 2
  DaemonMayDie = TRUE
INVARIANTS
  TrueMeansTaken
PROPERTIES
  RequestsReturn
CHECK_DEADLOCK FALSE
