SPECIFICATION SSpec
CONSTANTS
  a1 = a1
  a2 = a2
  m1 = m1
  NoArg = NoArg
  Atoms = {a1}
  Marks = {m1}
  FreshSwap = {FALSE}
  Literals <- NoLiterals
  Productions = {"relop", "not", "and", "or", "operand", "value", "assign", "if", "write", "return", "expstmt"}
  MaxCode = 10
  MaxTests = 4
INVARIANT IInv
INVARIANT LostIffChained
INVARIANT RunsLikeSourceIffUnchained
PROPERTY CrashNeedsNonCondition
CONSTRAINT FewStraight
CHECK_DEADLOCK FALSE
