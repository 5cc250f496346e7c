SPECIFICATION SSpec
CONSTANTS
  PopOutcomes = {"exact", "skip"}
  Names = {1, 2, 3}
  SNames = {1}
  Prims = {"int"}
  IndexType = "int"
  ParamLists <- NoParams
  Productions = {"function"}
  MaxList = 2
  MaxInserts = 6
  MaxDepth = 3
  MaxVals = 0
PROPERTY RedefinedInSameScope
CHECK_DEADLOCK FALSE
