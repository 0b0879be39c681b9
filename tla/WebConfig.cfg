SPECIFICATION Spec
CONSTANTS
  Docs <- MCDocs
  MaxCrashes = 1
  Faults <- MCFaults
INVARIANTS
  TypeOK
  RefusedStaysOff
PROPERTIES
  CacheFollows
