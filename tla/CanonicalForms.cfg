SPECIFICATION Spec
CONSTANTS
  Digits <- MCDigits
  MaxDigits = 4
  Places <- MCPlaces
  Characters <- MCCharacters
  MaxLength = 3
  Names <- MCNames
  Leaves <- MCLeaves
  MaxSize = 3
INVARIANTS
  NumberIsItsValue
  StringIsItsText
  PartsInOrder
CHECK_DEADLOCK FALSE
