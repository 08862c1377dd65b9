\* Two replicas, two events, stale leases and lost updates.
SPECIFICATION Spec
CONSTANTS
  Event = {e1, e2}
  Dispatcher = {d1, d2}
  BatchSize = 2
  LeaseTicks = 1
  MaxRetries = 2
  RetryCap = 2
  CopyCap = 1
  MaxCrashes = 1
  MaxOutages = 1
  None = None
SYMMETRY Symmetry
INVARIANTS
  DeliveredWasPublished
  LeasedRowRecoverable
CHECK_DEADLOCK FALSE
