CONSTANTS
  MaxInt = 262143
  Messages <- MCMessages
SPECIFICATION Spec
INVARIANTS InBounds DepthBounded CallsBounded ComputesSkip
PROPERTY Terminates
CHECK_DEADLOCK FALSE
