\* One worker, one meeting, a failure and two deaths.
SPECIFICATION Spec
CONSTANTS
  Meeting = {m1}
  Transcript = {t1}
  Report = {p1}
  Worker = {w1}
  IndexReport = {x1, x2, x3, x4}
  Bare = {}
  MaxFailures = 1
  MaxCrashes = 2
  None = None
INVARIANTS
  ConsumedIsSearchable
CHECK_DEADLOCK FALSE
