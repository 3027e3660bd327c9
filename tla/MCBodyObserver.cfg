CONSTANTS
  MaxInt = 1
  Events <- AllEvents
  MaxUnits = 3
  MaxBatch = 2
  EventLimit = 2
SPECIFICATION FairSpec
INVARIANTS
  ExposesWholeEvents
  CleanEndIsComplete
  EndIsRecorded
  SourceIsReleased
  UsageIsThatOfTheWire
PROPERTIES
  TerminalEndsReading
  CloseUnblocksRead
CHECK_DEADLOCK FALSE
