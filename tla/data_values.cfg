SPECIFICATION HSpec
CONSTANTS
  Profiles = {"operands", "scopes", "elements", "members", "calls", "records", "globals"}
  Names <- MCNames
  Structs <- MCStructs
  ExtDecs <- MCExtDecs
  Functions <- MCFunctions
  Defs <- MCDefs
  Stmts <- MCStmts
  MaxItems <- MCMaxItems
INVARIANT TypeOK
INVARIANT CodeComputesSource
INVARIANT OperandsDefined
INVARIANT CrashNeeds
INVARIANT NamesFollowScopes
INVARIANT GlobalsKnown
INVARIANT TranslatedIffUnaddressed
PROPERTY OnlyAppends
CHECK_DEADLOCK FALSE
