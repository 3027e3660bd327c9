CONSTANTS
  MaxCalls = 1
  MaxTokens = 1
  MaxTexts = 1
  Garbled = {}
  PipeCap = 1
SPECIFICATION FairSpec
PROPERTIES
  ClosedReaderAborts
CHECK_DEADLOCK FALSE
