\* One fair dispatcher: deaths, outages, expiring leases.
SPECIFICATION FairSpec
CONSTANTS
  Event = {e1, e2}
  Dispatcher = {d1}
  BatchSize = 2
  LeaseTicks = 1
  MaxRetries = 2
  RetryCap = 2
  CopyCap = 1
  MaxCrashes = 1
  MaxOutages = 2
  None = None
INVARIANTS
  TypeOK
  DeadLetterExact
PROPERTIES
  SettledIsFinal
  KeepsPromise
  EventuallySettled
CHECK_DEADLOCK FALSE
