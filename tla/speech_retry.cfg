\* A transcription that fails once.
SPECIFICATION Spec
CONSTANTS
  Recording = {r1}
  Worker = {w1}
  Transcript = {t1, t2}
  MaxRetries = 3
  MaxFailures = 1
  MaxCrashes = 0
  MaxRedeliveries = 0
  None = None
INVARIANTS
  RetriedBeforeGivenUp
CHECK_DEADLOCK FALSE
