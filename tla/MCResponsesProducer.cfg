CONSTANTS
  MaxEvents = 3
  MaxStaged = 2
  PipeCap = 2
SPECIFICATION FairSpec
INVARIANTS
  EndIsOrderly
PROPERTIES
  ImplementsContract
  CancellationReleasesTheBody
  AbandonedStreamEnds
  CallerIsAnswered
CHECK_DEADLOCK FALSE
