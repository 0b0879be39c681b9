CONSTANTS
  Jobs = {j1, j2}
  NoJob = NoJob
  XB3 = FALSE
  Retries = 1
  Serial = TRUE
  Faults <- RepairableFaults
SPECIFICATION FairSpec
INVARIANTS Agreement
PROPERTIES NoStartWhileDisabled Converges ImplementsSwitch
CHECK_DEADLOCK TRUE
