SPECIFICATION SampleSpec
CONSTANTS
  Lines <- SampleLines
  MaxLines = 28
INVARIANT SampleIsTranslated
CHECK_DEADLOCK FALSE
