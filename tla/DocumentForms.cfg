SPECIFICATION Spec
CONSTANTS
  c1 = c1
  c2 = c2
  k1 = k1
  k2 = k2
  a1 = a1
  s1 = s1
  b1 = b1
  b2 = b2
  n1 = n1
  n2 = n2
  plain = plain
  card = card
  other = other
  deep = deep
  huge = huge
  z = z
  z0 = z0
  offset = offset
  bad = bad
  Malformed = Malformed
  None = None
  Calls = {c1, c2}
  Payloads = {plain, card}
  Keys = {k1, k2}
  Principals = {a1, s1}
  Services = {s1}
  Publics = {b1, b2}
  Nonces = {n1, n2}
  Texts = {z, z0, offset}
  Says <- MCSays
  Reads <- MCReads
  SigningKeys <- MCOneSigner
  Declarations <- MCDeclarations
  Deliveries <- MCDeliveries
  MaxVersion = 2
SYMMETRY MCSymmetry
INVARIANTS
  VerifiedIsSigned
  OneForm
  VerdictsAgree
CHECK_DEADLOCK FALSE
