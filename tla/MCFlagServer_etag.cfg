\* One worker deletes a flag and creates it again; a client revalidates its copy.
SPECIFICATION Spec
CONSTANTS
  t1 = t1
  t2 = t2
  b1 = b1
  b2 = b2
  NoFlag = NoFlag
  Env <- Production
  Key <- OneKey
  Body = {b1}
  Threads = {t1}
  Instances <- OneProcess
  Seed <- SeedOne
  MaxVersion = 2
  Asked <- Everything
  Kept <- AllCopies
  MaxFlags = 2
  MaxFaults = 0
INVARIANTS
  NotModifiedSound
