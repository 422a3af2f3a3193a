SPECIFICATION FairSpec
CONSTANTS
  c1 = c1
  c2 = c2
  c3 = c3
  d1 = d1
  d2 = d2
  d3 = d3
  d4 = d4
  m1 = m1
  m2 = m2
  m3 = m3
  o1 = o1
  k1 = k1
  k2 = k2
  a1 = a1
  s1 = s1
  s2 = s2
  h1 = h1
  r1 = r1
  r2 = r2
  long = long
  Malformed = Malformed
  None = None
  Calls = {c1, c2}
  Documents = {d1, d3, d4}
  Orgs = {o1}
  Keys = {k1}
  Principals = {a1, s1, s2}
  Services = {s1, s2}
  Hashes = {h1}
  Canonicals = {m1, m2, m3}
  RecordIds = {r1, r2, long}
  LongIds = {long}
  Horizon = 2
  Content <- MCContent
  Binding <- MCBinding
  Contexts <- MCFaultContexts
  Requests <- MCFaultRequests
  Thrown = {"log_authentication_failed"}
  Appender <- MCAppender
  InitialEntries <- MCFaultEntries
INVARIANTS
  TypeOK
  SpellingIsIrrelevant
  AdmittedIsSound
  NoSelfPoisoning
  TimeRejectionIsFinal
PROPERTY Termination
CHECK_DEADLOCK FALSE
