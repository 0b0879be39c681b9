CONSTANTS
  Jobs = {j1}
  NoJob = NoJob
  XB3 = FALSE
  Retries = 1
  Serial = TRUE
  Faults <- OnlyCrash
SPECIFICATION Spec
INVARIANTS ServiceOffWhenDisabled
