CONSTANTS
  MaxCalls = 2
  MaxMessages = 4
  MaxPrompts = 1
  MaxItems = 3
  MaxAnswers = 2
  MaxChanges = 1
SPECIFICATION Spec
INVARIANT
  AnswerCanBeSentBack
CHECK_DEADLOCK FALSE
