\* The integration worker shares the events of the indexing worker; nothing fails.
SPECIFICATION FairSpec
CONSTANTS
  Meeting = {m1}
  Recording = {r1}
  Transcript = {t1}
  Report = {p1}
  IndexReport = {x1}
  Config = {}
  MeetingOf <- SameMeeting
  ConfigsOf <- SameWorkspace
  Provider <- Distinct
  Silent = {}
  Bare = {}
  SpeechWorkers = {s1}
  IntelligenceWorkers = {i1}
  IndexingWorkers = {k1}
  IntegrationWorkers = {g1}
  MaxRetries = 3
  MaxAttempts = 5
  MaxFailures = 0
  MaxCrashes = 0
  MaxRedeliveries = 0
  PostCap = 1
  MaxFaults = 0
  MaxChanges = 0
  None = None
  MaxUtterances = 0
  MaxRows = 0
  MaxWords = 0
PROPERTIES
  EventuallyIndexed
CHECK_DEADLOCK FALSE
