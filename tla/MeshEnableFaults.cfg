CONSTANTS
  Jobs = {j1, j2}
  NoJob = NoJob
  XB3 = TRUE
  Retries = 1
  Serial = FALSE
  Faults <- HostileFaults
SPECIFICATION FairSpec
INVARIANTS TypeOK LastSetPublished
PROPERTIES MutexReleased
CHECK_DEADLOCK TRUE
