SPECIFICATION Spec
CONSTANTS
  u1 = u1
  u2 = u2
  w3 = w3
  User = {u1, u2}
  Window = {w1, w3}
  Request = {r1}
  Content = {c1}
  UserOf <- MCUserOf
  CheckoutTime = 0
  Chosen = {3}
  MayDie = FALSE
PROPERTY SaveNeedsCheckout
