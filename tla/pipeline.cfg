\* One worker in each stage, no integration worker: failures, deaths, redelivery.
SPECIFICATION FairSpec
CONSTANTS
  Meeting = {m1}
  Recording = {r1}
  Transcript = {t1, t2}
  Report = {p1, p2, p3}
  IndexReport = {x1, x2, x3}
  Config = {}
  MeetingOf <- SameMeeting
  ConfigsOf <- SameWorkspace
  Provider <- Distinct
  Silent = {}
  Bare = {}
  SpeechWorkers = {s1}
  IntelligenceWorkers = {i1}
  IndexingWorkers = {k1}
  IntegrationWorkers = {}
  MaxRetries = 3
  MaxAttempts = 5
  MaxFailures = 1
  MaxCrashes = 1
  MaxRedeliveries = 1
  PostCap = 1
  MaxFaults = 0
  MaxChanges = 0
  None = None
  MaxUtterances = 40
  MaxRows = 3
  MaxWords = 2
INVARIANTS
  TypeOK
  OneTranscriptPerRecording
  ConsumedHasReport
  OneRunStored
  PassagesAreWhole
  ResultsAreRanked
PROPERTIES
  EventuallyConsumed
  EventuallyIndexed
CHECK_DEADLOCK FALSE
