CONSTANTS
  MaxInt = 1
  Events <- MessagesEvents
  MaxUnits = 4
  MaxBatch = 2
  EventLimit = 2
SPECIFICATION Spec
INVARIANTS
  UsageFitsInt
CHECK_DEADLOCK FALSE
