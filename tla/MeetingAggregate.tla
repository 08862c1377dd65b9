--------------------------- MODULE MeetingAggregate ---------------------------
(***************************************************************************)
(* One meeting: the Meeting aggregate of app/models/meeting.py and the     *)
(* handlers of app/api/meeting.py that write it.  Requests run in several  *)
(* replicas: a handler loads the row, checks the copy it has and commits;  *)
(* SQLAlchemy adds the version of the copy to every UPDATE of the row      *)
(* (version_id_col), and to that only: rows of recordings, workflows and   *)
(* the outbox are written whatever has become of the meeting.  A request   *)
(* that is refused changes nothing and is no step here.                    *)
(***************************************************************************)
EXTENDS Naturals

CONSTANTS
  Request,        \* slots for requests that are being handled
  Upload,         \* recordings that can be uploaded in one piece
  MaxVersion,     \* bound: no start or end is accepted at this version
  None            \* no recording

ConstantsOK ==
  /\ MaxVersion \in Nat
  /\ None \notin Upload

VARIABLES
  lifecycle,      \* lifecycle_state of the row
  version,        \* version of the row
  transcription,  \* status of the Transcription workflow
  announced,      \* types of events the meeting has in the outbox
  upload,         \* upload_status of each recording
  object,         \* recordings whose file is complete in object storage
  command,        \* command[r]: what request r is doing
  loaded,         \* loaded[r]: r's copy of the row
  target          \* target[r]: the recording r uploads

row == <<lifecycle, version>>
request == <<command, loaded, target>>
vars == <<row, transcription, announced, upload, object, request>>

MeetingLifecycle == {"Scheduled", "Waiting", "Recording", "Ended"}
Event == {"MeetingCreated", "MeetingStarted", "MeetingEnded", "RecordingUploaded"}

TypeOK ==
  /\ lifecycle \in MeetingLifecycle \union {"absent"}
  /\ version \in Nat
  /\ transcription \in {"Pending", "Queued"}
  /\ announced \subseteq Event
  /\ upload \in [Upload -> {"absent", "Uploading", "Verified"}]
  /\ object \subseteq Upload
  /\ command \in [Request -> {"none", "start", "end", "upload", "sending", "sent"}]
  /\ loaded \in [Request -> [lifecycle : MeetingLifecycle \union {"absent"}, version : Nat]]
  /\ target \in [Request -> Upload \union {None}]

Init ==
  /\ lifecycle = "absent"
  /\ version = 0
  /\ transcription = "Pending"
  /\ announced = {}
  /\ upload = [u \in Upload |-> "absent"]
  /\ object = {}
  /\ command = [r \in Request |-> "none"]
  /\ loaded = [r \in Request |-> [lifecycle |-> "absent", version |-> 0]]
  /\ target = [r \in Request |-> None]

\* enqueue_outbox_event in the transaction of the change it reports.
Enqueue(e) == announced' = announced \union {e}

\* r's handler returns.
Return(r) ==
  /\ command' = [command EXCEPT ![r] = "none"]
  /\ loaded' = [loaded EXCEPT ![r] = [lifecycle |-> "absent", version |-> 0]]
  /\ target' = [target EXCEPT ![r] = None]

-----------------------------------------------------------------------------

\* create_meeting: Scheduled if it is to start later.
Create(initial) ==
  /\ lifecycle = "absent"
  /\ initial \in {"Scheduled", "Waiting"}
  /\ lifecycle' = initial
  /\ version' = 1
  /\ Enqueue("MeetingCreated")
  /\ UNCHANGED <<transcription, upload, object, request>>

\* What the domain methods and upload_recording accept.  Recording may be
\* started again and Ended ended again; a meeting can end before it starts.
Allowed(c) ==
  CASE c = "start"  -> lifecycle \in MeetingLifecycle \ {"Ended"}
    [] c = "end"    -> lifecycle \in MeetingLifecycle
    [] c = "upload" -> lifecycle \in {"Recording", "Ended"}

\* A handler loads the row; its checks are made on this copy.
Load(r, c) ==
  /\ command[r] = "none"
  /\ Allowed(c)
  /\ IF c = "upload" THEN \E u \in Upload : upload[u] = "absent"
     ELSE version < MaxVersion
  /\ command' = [command EXCEPT ![r] = c]
  /\ loaded' = [loaded EXCEPT ![r] = [lifecycle |-> lifecycle, version |-> version]]
  /\ UNCHANGED <<row, transcription, announced, upload, object, target>>

\* Mutant: the mapper has no version_id_col.
FreshUnchecked(r) == TRUE

\* The UPDATE finds the row with the version that was loaded.
Fresh(r) == loaded[r].version = version

\* The aggregate changes state: an UPDATE of the row.
Transition(r, state) ==
  /\ Fresh(r)
  /\ lifecycle' = state
  /\ version' = version + 1

\* Starting a meeting that is already being recorded changes no column: no
\* UPDATE, no comparison of versions, but an event.
CommitStart(r) ==
  /\ command[r] = "start"
  /\ IF loaded[r].lifecycle = "Recording" THEN UNCHANGED row
     ELSE Transition(r, "Recording")
  /\ Enqueue("MeetingStarted")
  /\ Return(r)
  /\ UNCHANGED <<transcription, upload, object>>

\* actual_end is set anew every time, so there always is an UPDATE.
CommitEnd(r) ==
  /\ command[r] = "end"
  /\ Transition(r, "Ended")
  /\ Enqueue("MeetingEnded")
  /\ Return(r)
  /\ UNCHANGED <<transcription, upload, object>>

\* upload_recording commits a recording that is Uploading.
OpenUpload(r) ==
  /\ command[r] = "upload"
  /\ \E u \in Upload :
       /\ upload[u] = "absent"
       /\ upload' = [upload EXCEPT ![u] = "Uploading"]
       /\ target' = [target EXCEPT ![r] = u]
  /\ command' = [command EXCEPT ![r] = "sending"]
  /\ UNCHANGED <<row, transcription, announced, object, loaded>>

\* The awaited multipart upload completes.
SendFile(r) ==
  /\ command[r] = "sending"
  /\ object' = object \union {target[r]}
  /\ command' = [command EXCEPT ![r] = "sent"]
  /\ UNCHANGED <<row, transcription, announced, upload, loaded, target>>

\* Mutant: the row is verified before the awaited upload.
VerifyUploadEarly(r) ==
  /\ command[r] = "sending"
  /\ upload' = [upload EXCEPT ![target[r]] = "Verified"]
  /\ transcription' = "Queued"
  /\ Enqueue("RecordingUploaded")
  /\ Return(r)
  /\ UNCHANGED <<row, object>>

\* verify, the workflow's status and the event, in one transaction.
VerifyUpload(r) ==
  /\ command[r] = "sent"
  /\ upload' = [upload EXCEPT ![target[r]] = "Verified"]
  /\ transcription' = "Queued"
  /\ Enqueue("RecordingUploaded")
  /\ Return(r)
  /\ UNCHANGED <<row, object>>

\* The handler writes nothing more: the version is another (StaleDataError), the
\* upload or a commit raises, or the process dies.  The handler of upload errors
\* raises itself (RecordingUploadStatus has no Failed) and leaves Uploading.
Abandon(r) ==
  /\ command[r] # "none"
  /\ Return(r)
  /\ UNCHANGED <<row, transcription, announced, upload, object>>

Handle(r) ==
  \/ \E c \in {"start", "end", "upload"} : Load(r, c)
  \/ CommitStart(r)
  \/ CommitEnd(r)
  \/ OpenUpload(r)
  \/ SendFile(r)
  \/ VerifyUpload(r)
  \/ Abandon(r)

Next ==
  \/ \E initial \in {"Scheduled", "Waiting"} : Create(initial)
  \/ \E r \in Request : Handle(r)

Spec == Init /\ [][Next]_vars

-----------------------------------------------------------------------------
(* Properties.                                                             *)

\* Ended is final, and the outbox knows: a meeting has a MeetingEnded event
\* exactly when it is Ended, whatever requests of other replicas were under way
\* when it was ended.  Consumers never see the end of a meeting that goes on.
EndedIffAnnounced == lifecycle = "Ended" <=> "MeetingEnded" \in announced

\* A recording is Verified only with its file complete, its event enqueued and
\* the transcription queued, wherever the handler stops.
VerifiedIsComplete ==
  \A u \in Upload : upload[u] = "Verified" =>
    /\ u \in object
    /\ "RecordingUploaded" \in announced
    /\ transcription = "Queued"

=============================================================================
