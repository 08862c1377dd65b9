\* One fair worker; two events, two workspaces, one of which has two
\* configurations for the same provider.
SPECIFICATION FairSpec
CONSTANTS
  Report = {p1, p2}
  Meeting = {m1, m2}
  Config = {slack, webhook, webhook2}
  Alone = slack
  Spare = webhook2
  ConfigsOf <- Workspaces
  Provider <- Providers
  Worker = {w1}
  MaxRetries = 2
  PostCap = 1
  MaxFaults = 2
  MaxCrashes = 1
  MaxChanges = 1
  MaxRedeliveries = 1
  None = None
INVARIANTS
  TypeOK
  OutcomeIsHonest
PROPERTIES
  ConsumedIsRouted
  JobsKeepPromise
  EventuallyEnded
CHECK_DEADLOCK FALSE
