SPECIFICATION Spec
CONSTANTS
  k1 = k1
  k2 = k2
  a1 = a1
  s1 = s1
  b1 = b1
  b2 = b2
  x = x
  y = y
  None = None
  Keys = {k1, k2}
  Principals = {a1, s1}
  Services = {s1}
  PublicKeys = {b1, b2}
  Instants = {0, 1, 2}
  Texts = {x, y}
  Scopes <- MCScopes
  MaxSequence = 3
INVARIANTS
  TypeOK
  RejectedForAFault
  ResolvedByReference
  GrowthOnlyNarrows
CHECK_DEADLOCK FALSE
