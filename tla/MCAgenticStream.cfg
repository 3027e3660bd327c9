CONSTANTS
  Providers = {"claude", "ollama", "codex"}
  MaxEventBytes = 3
  MaxResponseBytes = 20
  MaxLineBytes = 3
  MaxBlocks = 2
  CodexCap = 2
  MaxCalls = 2
  MaxTokens = 1
  MaxTexts = 1
  MaxPadding = 2
SPECIFICATION FairSpec
INVARIANTS
  LimitsAreExact
  ToolCallsAreWhole
  EOFIsAnAnswer
PROPERTIES
  AbandonedStreamEnds
  CallerIsAnswered
CHECK_DEADLOCK FALSE
