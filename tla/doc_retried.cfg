SPECIFICATION Spec
CONSTANTS
  Operation = {o1, o2}
  Key = {k1}
  KeyOf <- MCKeyOf
  OwnId <- MCOwnId
  Body = {b1, b2}
  BodyOf <- MCBodyOf
  PaymentId = {p1, p2, own}
  Handler = {h1, h2}
  Window = 1
  KeepsDeadline = TRUE
  Failures = TRUE
  MaxTime = 1
  MaxTries = 2
  None = none
  none = none
  o1 = o1
  o2 = o2
  k1 = k1
  b1 = b1
  b2 = b2
  h1 = h1
  h2 = h2
  own = own
  p1 = p1
  p2 = p2
SYMMETRY MCSymmetry
PROPERTIES
  RetriesKeepSettled
CHECK_DEADLOCK FALSE
