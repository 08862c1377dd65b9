\* Two requests at a time, one session of up to two chunks, one upload, a fault.
SPECIFICATION Spec
CONSTANTS
  Request = {r1, r2}
  Upload = {u1}
  MaxVersion = 3
  Session = {s1}
  Payload = {a, b}
  MaxSeq = 2
  MaxRecordings = 2
  MaxFaults = 1
  None = None
SYMMETRY Symmetry
INVARIANTS
  TypeOK
  EndedIffAnnounced
  VerifiedIsComplete
  RecordingIsWhole
  AnsweredIsRecorded
  ClosedIsRecorded
  StreamedWasStarted
CHECK_DEADLOCK FALSE
