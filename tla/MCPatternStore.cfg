SPECIFICATION Spec
CONSTANTS
  k1 = k1
  k2 = k2
  k3 = k3
  p1 = p1
  p2 = p2
  p3 = p3
  q1 = q1
  NoId = NoId
  NoWeight = NoWeight
  dA = dA
  dB = dB
  Stop = {s1, s2}
  Sync = {y1}
  MAX_PATTERNS_PER_DOMAIN = 1
  UTILIZATION_EVICT_MIN_INJECTIONS = 3
  LeastWeight = 30
  MostWeight = 950
  DayStep = 45
  MaxDay = 45
  Killable = TRUE
  ReadsFail = TRUE
CONSTANTS
  Key <- MCKey
  Pattern <- MCPattern
  Domain <- MCDomain
  DomainOf <- MCDomainOf
  IdOf <- MCIdOf
  Inputs <- MCInputs
  RemoteLists <- MCRemoteLists
  InitialLists <- MCInitialLists
SYMMETRY Symmetry
INVARIANTS
  TypeOK
  SerialSavesKeepEverything
  EvictionSound
  RecordsCoherent
PROPERTY
  ImplementsSnapshots
CHECK_DEADLOCK FALSE
