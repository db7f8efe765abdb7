SPECIFICATION Spec
CONSTANTS
  Primitives <- MCPrimitives
  Files <- MCFiles
  Exprs <- MCExprs
  Specs <- MCSpecs
  Decl <- MCDecl
  NameOrder <- MCNameOrder
  DirectiveLists <- MCLists
  Unexported = {"_struct"}
  Sorted <- MCPrimitives
  Modes = {"marshal", "unmarshal", "size", "iszero", "maxsize", "test"}
INVARIANTS Confluent InlinePreserves FullyInlined ShimsApplied 
PROPERTIES Terminates
