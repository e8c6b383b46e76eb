\* Two windows, at which two users log in one after the other.
SPECIFICATION Spec
CONSTANTS
  User = {u1, u2}
  Window = {w1, w2}
  SeedMax = 2
  SeedDefault = 2
  MissedMax = 1
  SessionTime = 0
  MayDie = TRUE
SYMMETRY Symmetry
INVARIANTS
  TypeOK
  FreshSeeds
  PagesKeepTheirUser
  LogoutIsFinal
PROPERTIES
  LiveSessionKept
