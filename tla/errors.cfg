CONSTANTS
  Names = {"", "a", "b"}
  MaxPath = 2
  MaxDepth = 3
SPECIFICATION Spec
INVARIANTS ShortIsShort ContextKept CauseReaches
PROPERTY ResumableKept
CHECK_DEADLOCK FALSE
