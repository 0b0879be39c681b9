SPECIFICATION Spec
CONSTANTS
  Flags <- MCFlags
  XB3 = TRUE
  Faults <- MCFaults
INVARIANTS
  TypeOK
  OneAccelerator
  FlagsFollowMesh
  ShownIsKept
