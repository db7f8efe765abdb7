SPECIFICATION Spec
CONSTANTS
  Primitives <- MCPrimitives
  Files <- Mutual
  Exprs <- MCExprs
  Specs <- MCSpecs
  Decl <- MCDecl
  NameOrder <- MCNameOrder
  DirectiveLists <- MCNoDirectives
  Unexported = {"_struct"}
  Sorted <- MCPrimitives
  Modes = {"marshal", "unmarshal", "size", "iszero", "maxsize", "test"}
INVARIANTS NotIntoItself
