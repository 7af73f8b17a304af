\* An administrator and the users it registers, calls that fail, tokens that expire.
SPECIFICATION Spec
CONSTANTS
  NoUser = NoUser
  admin = admin
  guest = guest
  p1 = p1
  p2 = p2
  Threads = {t1, t2}
  Email = {admin, guest}
  Password = {p1, p2}
  SeedUsers <- Administrator
  Routes <- SomeRoutes
  Expiry = 0
  MaxTime = 1
  MaxFaults = 1
SYMMETRY ThreadSymmetry
INVARIANTS
  TypeOK
  ActorsHaveTheRole
  SessionsEnd
  KnownAccountsWork
  Inv
