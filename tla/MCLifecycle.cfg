SPECIFICATION Spec
CONSTANTS
  u1 = u1
  u2 = u2
  w1 = w1
  User = {u1, u2}
  Window = {w1, w2}
  UserOf <- MCUserOf
  Component = {k1}
  None = u1
  Officers <- MCOfficers
  Chosen = {3, 4}
  MayDie = TRUE
INVARIANTS
  TypeOK
PROPERTIES
  ChangesAuthorized
  PromisedAreTold
