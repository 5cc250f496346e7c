SPECIFICATION SSpec
CONSTANTS
  a1 = a1
  a2 = a2
  m1 = m1
  NoArg = NoArg
  Atoms = {a1}
  Marks = {m1}
  FreshSwap = {FALSE, TRUE}
  Literals <- NoLiterals
  Productions = {"relop", "if", "write"}
  MaxCode = 6
  MaxTests = 2
INVARIANT PlainConditionsWork
CHECK_DEADLOCK FALSE
