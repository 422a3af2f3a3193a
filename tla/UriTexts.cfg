SPECIFICATION Spec
CONSTANTS
  Families <- MCFamilies
  Documents <- MCDocuments
  LibraryUri <- MCLibraryUri
INVARIANTS
  AcceptsTheGrammar
  DecidesAsTheSchema
CHECK_DEADLOCK FALSE
