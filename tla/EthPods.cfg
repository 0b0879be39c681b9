CONSTANTS
  p1 = p1
  p2 = p2
  Macs = {p1, p2}
  Timeout = 2
  MaxList = 2
  ClockBack = 1
  NoMsg = NoMsg
SPECIFICATION FairSpec
INVARIANTS TypeOK WatchedOnce
PROPERTIES DeadlineKept WaitEnds
CHECK_DEADLOCK TRUE
