SPECIFICATION InstallerSpec
CONSTANTS
  PAYLOAD_ENTRIES <- MCEntries
  Nested <- MCNested
  Faults = TRUE
INVARIANTS
  InstallerTypeOK
  LinkedIsComplete
PROPERTIES
  ExitsTruthful
