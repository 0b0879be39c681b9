SPECIFICATION Spec
CONSTANTS
  Sample <- MCSample
  MaxEvents = 1
  Parsers = TRUE
INVARIANTS
  TypeOK
  ServiceFollowsMesh
PROPERTIES
  ToldAsSet
  NoEcho
  StatusAnswered
