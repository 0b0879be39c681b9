CONSTANTS
  m1 = m1
  m2 = m2
  m3 = m3
  Macs = {m1, m2, m3}
  Ifaces = {"Ethernet", "WiFi"}
  PoolSize = 3
  NumBuckets = 2
  Hash <- SmallHash
  MaxPods = 1
  Free = Free
SPECIFICATION FairSpec
INVARIANTS TypeOK PoolAccounted OncePerThread
PROPERTIES ImplementsClientSet ReportComplete WalkEnds
CHECK_DEADLOCK TRUE
