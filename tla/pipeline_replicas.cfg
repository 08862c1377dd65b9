\* Two recordings of a meeting; two speech, two intelligence and one integration
\* worker.
SPECIFICATION Spec
CONSTANTS
  Meeting = {m1}
  Recording = {r1, r2}
  Transcript = {t1, t2}
  Report = {p1, p2}
  IndexReport = {x1}
  Config = {}
  MeetingOf <- SameMeeting
  ConfigsOf <- SameWorkspace
  Provider <- Distinct
  Silent = {}
  Bare = {p1}
  SpeechWorkers = {s1, s2}
  IntelligenceWorkers = {i1, i2}
  IndexingWorkers = {k1}
  IntegrationWorkers = {g1}
  MaxRetries = 3
  MaxAttempts = 5
  MaxFailures = 0
  MaxCrashes = 0
  MaxRedeliveries = 0
  PostCap = 1
  MaxFaults = 0
  MaxChanges = 0
  None = None
  MaxUtterances = 0
  MaxRows = 0
  MaxWords = 0
SYMMETRY Symmetry
INVARIANTS
  RunsOwnTheirRows
  IndexIsTraceable
CHECK_DEADLOCK FALSE
