CONSTANTS
  MaxInt = 2147483647
  ExtType = 7
  Array <- MCArray
  Leads <- Byte
  Chunks <- EveryObject
SPECIFICATION Spec
INVARIANT IntOverflowReported
CHECK_DEADLOCK FALSE
