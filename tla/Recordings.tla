------------------------------ MODULE Recordings ------------------------------
(***************************************************************************)
(* A meeting while it is recorded: the requests that start it, end it and  *)
(* upload a whole recording (MeetingAggregate) and those that stream one   *)
(* in chunks (MediaIngestion), in any mixture.                             *)
(***************************************************************************)
EXTENDS Naturals, Sequences

CONSTANTS
  Request,        \* slots for requests of either kind
  Upload, MaxVersion,
  Session, Payload, MaxSeq, MaxRecordings, MaxFaults,
  None

VARIABLES
  lifecycle, version, transcription, announced, upload, object, command, loaded,
  target,
  session, hash, chunk, recording, chunkRequest, answered, overlapped, faults

meeting == <<lifecycle, version, transcription, announced, upload, object, command,
             loaded, target>>
media == <<session, hash, chunk, recording, chunkRequest, answered, overlapped,
           faults>>
vars == <<meeting, media>>

Aggregate == INSTANCE MeetingAggregate
Media == INSTANCE MediaIngestion WITH request <- chunkRequest

ASSUME RecordingsAssumption == Aggregate!ConstantsOK /\ Media!ConstantsOK

TypeOK == Aggregate!TypeOK /\ Media!TypeOK

Init == Aggregate!Init /\ Media!Init

Create ==
  /\ \E initial \in {"Scheduled", "Waiting"} : Aggregate!Create(initial)
  /\ UNCHANGED media

MeetingRequest(r) ==
  /\ chunkRequest[r] = Media!Idle
  /\ Aggregate!Handle(r)
  /\ UNCHANGED media

\* Mutant: the other lifecycle that uploads are accepted in is good enough.
MayOpenEnded == lifecycle \in {"Recording", "Ended"}

\* initialize_session accepts no meeting in another state; the chunks that
\* follow are accepted whatever has become of the meeting.
MayOpen == lifecycle = "Recording"

OpenSession(s) ==
  /\ MayOpen
  /\ Media!Open(s)
  /\ UNCHANGED meeting

ChunkRequest(r) ==
  /\ command[r] = "none"
  /\ Media!Handle(r)
  /\ UNCHANGED meeting

Expire(s) ==
  /\ Media!Expire(s)
  /\ UNCHANGED meeting

Next ==
  \/ Create
  \/ \E s \in Session : OpenSession(s) \/ Expire(s)
  \/ \E r \in Request : MeetingRequest(r) \/ ChunkRequest(r)

Spec == Init /\ [][Next]_vars

-----------------------------------------------------------------------------
(* Properties.                                                             *)

\* What each part guarantees (see the modules).
EndedIffAnnounced == Aggregate!EndedIffAnnounced
VerifiedIsComplete == Aggregate!VerifiedIsComplete
RecordingIsWhole == Media!RecordingIsWhole
AnsweredIsRecorded == Media!AnsweredIsRecorded
ClosedIsRecorded == Media!ClosedIsRecorded

\* A recording that was streamed is of a meeting that was announced as started.
\* (One that was uploaded need not be: a meeting may end before it starts.)
StreamedWasStarted ==
  \A s \in Session : recording[s] # <<>> => "MeetingStarted" \in announced

=============================================================================
