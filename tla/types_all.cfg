SPECIFICATION TSpec
CONSTANTS
  PlainTypes <- AllPlainTypes
  PopOutcomes = {"exact", "crash"}
  Names = {1}
  SNames = {1}
  Prims = {"int"}
  IndexType = "int"
  ParamLists <- OneParam
  Productions = {"function", "struct", "nested", "block", "call", "literal", "operator", "member", "array", "return"}
  MaxList = 1
  MaxInserts = 4
  MaxDepth = 4
  MaxVals = 2
INVARIANT EmptyMeansReported
INVARIANT LiveTypes
INVARIANT DiesOfArrays
INVARIANT MixedUpIsShadowed
CHECK_DEADLOCK FALSE
