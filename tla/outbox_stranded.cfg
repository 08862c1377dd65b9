\* Three replicas overlapping on one row.
SPECIFICATION Spec
CONSTANTS
  Event = {e1}
  Dispatcher = {d1, d2, d3}
  BatchSize = 1
  LeaseTicks = 1
  MaxRetries = 2
  RetryCap = 2
  CopyCap = 1
  MaxCrashes = 1
  MaxOutages = 1
  None = None
SYMMETRY Symmetry
INVARIANTS
  LeasedRowRecoverable
CHECK_DEADLOCK FALSE
