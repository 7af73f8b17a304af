\* The seeded database and the login of the README.
SPECIFICATION Spec
CONSTANTS
  NoUser = NoUser
  admin = admin
  guest = guest
  p1 = p1
  p2 = p2
  Threads = {t1}
  Email = {admin, guest}
  Password = {p1, p2}
  SeedUsers <- Shipped
  Routes <- SomeRoutes
  Expiry = 1
  MaxTime = 1
  MaxFaults = 0
INVARIANTS
  DocumentedLoginWorks
