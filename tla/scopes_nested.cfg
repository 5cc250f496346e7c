SPECIFICATION SSpec
CONSTANTS
  PopOutcomes = {"exact"}
  Names = {1, 2}
  SNames = {1}
  Prims = {"int"}
  IndexType = "int"
  ParamLists <- Params
  Productions = {"function", "block", "while", "call", "struct", "nested"}
  MaxList = 2
  MaxInserts = 4
  MaxDepth = 4
  MaxVals = 1
INVARIANT TypeOK
 
PROPERTY ImplementsScopes
PROPERTY RedefinedInSameScope
CONSTRAINT FewStructures
CONSTRAINT SecondName
CHECK_DEADLOCK FALSE
