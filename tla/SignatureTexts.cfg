SPECIFICATION Spec
CONSTANTS
  UnitValues = 2
  P = 101
  CurveD = 29
  SqrtM1 = 10
  Order = 13
  PointSize = 2
  ByteSize = 16
  Symbols <- MCSymbols
  Later <- MCLater
  FirstPart = 3
  MaxText = 6
  Addends <- MCAddends
INVARIANTS
  KeysArePrimeOrderPoints
  SignaturesHaveOneText
  AdditionIsAffine
CHECK_DEADLOCK FALSE
