\* Two processes, up to two failed calls, late commands or crashes; no symmetry, as
\* a temporal property is checked.
SPECIFICATION FairSpec
CONSTANTS
  t1 = t1
  t2 = t2
  b1 = b1
  b2 = b2
  NoFlag = NoFlag
  Env <- Production
  Key <- OneKey
  Body = {b1}
  Threads = {t1, t2}
  Instances <- TwoProcesses
  Seed = {}
  MaxVersion = 2
  Asked <- MostOnOne
  Kept <- NoCopies
  MaxFlags = 1
  MaxFaults = 2
INVARIANTS
  Inv
PROPERTIES
  ServesTheBoard
  OnlyChangesOutdate
  CacheHeals
