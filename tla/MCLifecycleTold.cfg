SPECIFICATION Spec
CONSTANTS
  u1 = u1
  u2 = u2
  w1 = w1
  User = {u1, u2}
  Window = {w1}
  UserOf <- MCUserOf
  Component = {k1}
  None = u1
  Officers <- MCOfficers
  Chosen = {1, 2, 3, 4, 5, 6, 7, 8, 9, 10}
  MayDie = FALSE
PROPERTY ToldAsDocumented
