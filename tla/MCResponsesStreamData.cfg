\* Two outputs whose text and arguments grow in fragments, up to a budget of
\* three tokens.
CONSTANTS
  MaxIndex = 1
  MaxOutputs = 2
  MaxRetained = 3
  MaxReasoning = 1
  ItemIDs = {}
  CallIDs = {c1}
  RawReasoning = {r1, r2}
  Texts <- Growing
  ArgumentTexts <- Growing
  JSONTexts <- Whole
SPECIFICATION Spec
INVARIANTS
  StateIsWhatWasDelivered
  AnswerIsDelivered
  DeliveryIsBounded
PROPERTIES
  FinishedItemsAreQuiet
CHECK_DEADLOCK FALSE
