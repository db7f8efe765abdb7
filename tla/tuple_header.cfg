CONSTANTS
  MaxInt = 2147483647
  Types <- MCTypes
  ToBase <- MCToBase
  FromBase <- MCFromBase
  Converts <- MCConverts
  ShimZero <- MCShimZero
  Passes <- MCPasses
  Roots <- Tuples
  Values <- MCValues
  Later <- MCLater
  Foreign <- MCForeign
  Used <- MCUsed
  MaxMessages = 1
SPECIFICATION Spec
INVARIANT GeneratedTestPasses
CHECK_DEADLOCK FALSE
