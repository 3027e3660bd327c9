CONSTANTS
  MaxCalls = 2
  MaxTokens = 1
  MaxTexts = 1
  Garbled = {"added"}
  PipeCap = 1
SPECIFICATION FairSpec
INVARIANTS
  ToolCallsAreWhole
  EOFIsAnAnswer
PROPERTIES
  CallerIsAnswered
CHECK_DEADLOCK FALSE
