SPECIFICATION Spec
CONSTANTS
  Pods <- MCPods
  Setters <- MCSetters
  MaxPods = 2
  Platform = "other"
  MaxCalls = 2
  MaxFaults = 1
INVARIANTS
  TypeOK
  DisabledIsUnfiltered
  TunnelsApart
PROPERTY RememberedPodFiltered
CHECK_DEADLOCK FALSE
