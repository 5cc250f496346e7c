SPECIFICATION MCSpec
CONSTANTS
  Keys = {1, 2, 3, 4, 5}
  Values = {10, 20}
  MaxNodes = 5
  Elements = {1, 2}
  Indexes <- MCIndexes
  INT_MIN = INT_MIN
  Addresses = {"head", "n1", "n2", "n3"}
  head = "head"
INVARIANT TwinsAreNeighbours
INVARIANT SearchTree
INVARIANT ChainIsAllocated
INVARIANT AcceptedHasNoTwins
PROPERTY StepsLikeMap
PROPERTY ImplementsMap
PROPERTY KeepsOneBranch
PROPERTY OnlyRemoveAllLeaks
PROPERTY ImplementsList
CHECK_DEADLOCK FALSE
