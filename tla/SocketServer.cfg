CONSTANTS
  v1 = v1
  v2 = v2
  v3 = v3
  Peers = {v1, v2, v3}
  None = None
  NumSlots = 2
  NumFds = 3
  Overlap = FALSE
SPECIFICATION FairSpec
INVARIANTS TypeOK SlotsAccounted LeaseNotLost
PROPERTIES EveryClientServed
CHECK_DEADLOCK TRUE
