SPECIFICATION Spec
CONSTANTS
  Families <- MCFamilies
  MaximumDepth = 2
INVARIANTS
  ScansTheGrammar
  SanitizesSurrogates
CHECK_DEADLOCK FALSE
