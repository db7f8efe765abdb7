CONSTANTS
  MaxInt = 2147483647
  Types <- MCTypes
  ToBase <- MCToBase
  FromBase <- MCFromBase
  Converts <- MCConverts
  ShimZero <- MCShimZero
  Passes <- MCPasses
  Roots <- MCRoots
  Values <- MCValues
  Later <- MCLater
  Foreign <- MCForeign
  Used <- MCUsed
  MaxMessages = 2
SPECIFICATION Spec
INVARIANTS WithinBounds RoundTrip Retry TruncationIsShort ValidateOrder ChecksRun WithinMsgsize WithinMaxSize
CHECK_DEADLOCK FALSE
