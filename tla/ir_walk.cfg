SPECIFICATION FairSpec
CONSTANTS
  Lines <- MCLines
  MaxLines = 3
INVARIANT TypeOK
INVARIANT ListIsLines
INVARIANT OutIsLines
INVARIANT StopsAtTheFirst
INVARIANT PrintsBack
PROPERTY Terminates
CHECK_DEADLOCK FALSE
