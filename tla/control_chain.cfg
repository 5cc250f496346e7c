SPECIFICATION SSpec
CONSTANTS
  a1 = a1
  a2 = a2
  m1 = m1
  NoArg = NoArg
  Atoms = {a1, a2}
  Marks = {m1}
  FreshSwap = {FALSE}
  Literals <- NoLiterals
  Productions = {"relop", "and", "or", "if", "write"}
  MaxCode = 11
  MaxTests = 3
INVARIANT ConnectivesJoinExits
CHECK_DEADLOCK FALSE
