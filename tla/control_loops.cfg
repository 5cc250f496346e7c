SPECIFICATION SSpec
CONSTANTS
  a1 = a1
  a2 = a2
  m1 = m1
  NoArg = NoArg
  Atoms = {a1, a2}
  Marks = {m1}
  FreshSwap = {FALSE}
  Literals <- Mixed
  Productions = {"literal", "relop", "and", "or", "while", "if", "else", "return", "write"}
  MaxCode = 12
  MaxTests = 5
INVARIANT TypeOK
INVARIANT NoJumpForgotten
INVARIANT LabelsDefined
INVARIANT CodeRunsLikeSource
INVARIANT ValuesAreNoConditions
CHECK_DEADLOCK FALSE
