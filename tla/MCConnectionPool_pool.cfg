\* Five threads over three connections, scheduled fairly.
SPECIFICATION FairSpec
CONSTANTS
  None = None
  Threads = {t1, t2, t3, t4, t5}
  Connections = {c1, c2, c3}
INVARIANTS
  TypeOK
  PopsSomething
  OnePlace
  NoLostWakeup
PROPERTIES
  KeepsContract
  GrantsEventually
