\* Two attempts, bodies of up to three units, a buffer of two.  MaxInt = 3:
\* attempt 1 reports counts that fit an int, attempt 2 counts that overflow it.
CONSTANTS
  MaxInt = 3
  MaxAttempts = 2
  MaxBodyUnits = 3
  JSONLimit = 2
SPECIFICATION Spec
INVARIANTS
  TypeOK
  ObservationBelongsToAttempt
  FinalAttemptIsBlamed
  UsageIsThatOfTheMessage
  BodiesLeftAreClosed
CHECK_DEADLOCK FALSE
