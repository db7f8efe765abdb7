CONSTANTS
  MaxInt = 2147483647
  Values <- AllValues
  Companions <- Mixed
  MaxObjects = 2
  MaxCut = 40
  Widened <- MCWidened
  ExtType = 7
  Array <- MCArray
SPECIFICATION Spec
INVARIANTS PrefixFree
PROPERTY RefinesStream
CHECK_DEADLOCK FALSE
VIEW wireView
