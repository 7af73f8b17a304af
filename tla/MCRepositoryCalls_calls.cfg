\* Two threads with a connection each, which may both break, on one row.
SPECIFICATION FairSpec
CONSTANTS
  None = None
  NoLock = NoLock
  Gone = Gone
  Threads = {t1, t2}
  Connections = {c1, c2}
  Rows = {r1}
  MaxVersion = 2
  MaxFaults = 2
INVARIANTS
  TypeOK
  PooledAreClean
  BlamesConnection
  WaitsEnd
PROPERTIES
  CallsAreAtomic
  HoldersReturn
