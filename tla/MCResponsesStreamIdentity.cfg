\* Two calls and two item ids that may be confused; at most one token each.
CONSTANTS
  MaxIndex = 1
  MaxOutputs = 2
  MaxRetained = 2
  MaxReasoning = 0
  ItemIDs = {d1, d2}
  CallIDs = {c1, c2}
  RawReasoning = {}
  Texts <- OnlyEmpty
  ArgumentTexts <- EmptyOrA
  JSONTexts <- OnlyA
SYMMETRY Symmetry
SPECIFICATION Spec
INVARIANTS
  ToolCallsAreDistinct
  ItemIdsAreOwned
CHECK_DEADLOCK FALSE
