CONSTANTS
  MaxInt = 7
  MaxAlloc = 5
  MaxPrefix = 3
  Token <- MCToken
SPECIFICATION Spec
INVARIANTS TypeOK SliceIsLog HeldIntact RequireKept NoSurprise
CHECK_DEADLOCK FALSE
