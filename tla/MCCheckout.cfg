SPECIFICATION Spec
CONSTANTS
  u1 = u1
  u2 = u2
  w3 = w3
  User = {u1, u2}
  Window = {w1, w3}
  Request = {r1}
  Content = {c1, c2}
  UserOf <- MCUserOf
  CheckoutTime = 1
  Chosen = {1, 10}
  MayDie = TRUE
SYMMETRY MCSymmetry
INVARIANTS
  TypeOK
  UniqueLocks
  GrantsAreFresh
  LogMatchesStatus
PROPERTIES
  NoLostUpdate
  ClosedIsFinal
  LiveCheckoutKept
  ImplementsLease
