SPECIFICATION ParodusSpec
CONSTANTS
  Backoff <- MCBackoff
  MaxExp = 5
  Retries = 3
INVARIANTS
  ParodusTypeOK
  ConnectedInTime
  WholeOnceKnown
