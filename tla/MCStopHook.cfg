SPECIFICATION Spec
CONSTANTS
  k1 = k1
  k2 = k2
  p1 = p1
  p2 = p2
  NoId = NoId
  NoWeight = NoWeight
  dA = dA
  None = None
  Stop = {s1, s2}
  Conv = {c1, c2}
  Statuses = {"ok"}
  MaxLog = 1
  TimeStep = 60
  MaxTime = 60
  MaxMishaps = 1
  MAX_PATTERNS_PER_DOMAIN = 2
  UTILIZATION_EVICT_MIN_INJECTIONS = 5
CONSTANTS
  Key <- MCKey
  Pattern <- MCPattern
  Domain <- MCDomain
  DomainOf <- MCDomainOf
  IdOf <- MCIdOf
  Templates <- MCTemplates
  InitialLists <- MCInitialLists
SYMMETRY Symmetry
VIEW View
INVARIANTS
  RowsCoverTheirPrompts
  RowsCumulative
  OutboxRegardlessOfDaemon
  OutcomesHaveRows
  SuccessHasWork
CHECK_DEADLOCK FALSE
