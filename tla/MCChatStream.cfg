CONSTANTS
  MaxInt = 1
  Events <- ShortEvents
  MaxUnits = 3
  MaxBatch = 2
  EventLimit = 2
  PipeCap = 1
  ContextErrors = {"canceled"}
SPECIFICATION FairStreamSpec
INVARIANTS
  UsageChunkIsExact
  EOFLeavesNothingBehind
PROPERTIES
  ImplementsContract
  CancellationReleasesTheBody
  AbandonedStreamEnds
  CallerIsAnswered
CHECK_DEADLOCK FALSE
