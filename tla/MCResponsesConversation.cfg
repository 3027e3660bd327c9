CONSTANTS
  MaxCalls = 2
  MaxMessages = 4
  MaxPrompts = 1
  MaxItems = 3
  MaxAnswers = 2
  MaxChanges = 1
SPECIFICATION Spec
INVARIANTS
  CallsArePaired
  HonestHistoryIsAccepted
  ReasoningIsReplayed
CHECK_DEADLOCK FALSE
