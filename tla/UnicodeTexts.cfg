SPECIFICATION Spec
CONSTANTS
  Bytes <- MCBytes
  MaxBytes = 4
  Firsts <- MCBlocks
  BlockSize = 4096
INVARIANTS
  DecodesWellFormed
  DecodingInvertsEncoding
CHECK_DEADLOCK FALSE
