SPECIFICATION Spec
CONSTANTS
  Zulu = Zulu
  Starts <- MCEdges
  Units = {1, 60, 3600, 86400}
  Carries = {60, 3600}
  Digits = {0, 1, 9}
  Precision = 3
  MaxSteps = 6
  Marks = {1, 2, 3}
INVARIANTS
  ReadsAsCounted
  AcceptsTheCalendar
  OrderIsTime
CHECK_DEADLOCK FALSE
