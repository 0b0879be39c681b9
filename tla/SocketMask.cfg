CONSTANTS
  v1 = v1
  v2 = v2
  v3 = v3
  Peers = {v1, v2, v3}
  None = None
  NumSlots = 2
  NumFds = 3
  Overlap = TRUE
SPECIFICATION Spec
INVARIANT MaskShowsConnection
CHECK_DEADLOCK TRUE
