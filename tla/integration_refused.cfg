\* One worker, one configuration, a provider that answers with an error.
SPECIFICATION Spec
CONSTANTS
  Report = {p1}
  Config = {webhook}
  Meeting = {m1}
  Alone = webhook
  Spare = None
  ConfigsOf <- Workspaces
  Provider <- Providers
  Worker = {w1}
  MaxRetries = 5
  PostCap = 1
  MaxFaults = 1
  MaxCrashes = 0
  MaxChanges = 0
  MaxRedeliveries = 0
  None = None
INVARIANTS
  DeliveredWasAccepted
CHECK_DEADLOCK FALSE
