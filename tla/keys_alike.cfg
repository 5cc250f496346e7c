SPECIFICATION Spec
CONSTANTS
  Texts <- SomeTexts
  MaxSize = 4
INVARIANT OnlyDuplicatesRefused
CHECK_DEADLOCK FALSE
