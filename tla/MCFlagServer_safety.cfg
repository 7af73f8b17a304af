\* Two workers, two flags, no faults: every interleaving of the handlers.
SPECIFICATION Spec
CONSTANTS
  t1 = t1
  t2 = t2
  b1 = b1
  b2 = b2
  NoFlag = NoFlag
  Env <- Production
  Key <- TwoKeys
  Body = {b1}
  Threads = {t1, t2}
  Instances <- OneProcess
  Seed <- SeedOne
  MaxVersion = 2
  Asked <- OneOfTwo
  Kept <- AllCopies
  MaxFlags = 2
  MaxFaults = 0
SYMMETRY ThreadSymmetry
INVARIANTS
  TypeOK
  VersionIdentifiesContent
  GetServesCommitted
  NotModifiedSameRow
  AuditFaithful
  AuditComplete
  OutdatedExplained
PROPERTIES
  AnswersFresh
  ServesTheBoard
