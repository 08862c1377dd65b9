------------------------------ MODULE Pipeline ------------------------------
(***************************************************************************)
(* The background pipeline from a verified recording to the search index   *)
(* and the external providers: SpeechWorker, IntelligenceWorker,           *)
(* IndexingWorker and IntegrationWorker, joined by the events they leave   *)
(* in the outbox.  The indexing and the integration workers poll the same  *)
(* MeetingIntelligenceReady rows, and either of them may set CONSUMED.     *)
(***************************************************************************)
EXTENDS Naturals, FiniteSets

CONSTANTS
  Meeting, Recording, Transcript, Report, IndexReport, Config,
  MeetingOf,            \* [Recording -> Meeting]
  ConfigsOf,            \* [Meeting -> configurations of its workspace]
  Provider,             \* [Config -> providers]
  Silent,               \* transcripts in which nothing is said
  Bare,                 \* reports without an artifact to chunk
  SpeechWorkers, IntelligenceWorkers, IndexingWorkers, IntegrationWorkers,
  MaxRetries,           \* MAX_RETRIES of the speech workers
  MaxAttempts,          \* MAX_RETRIES of the integration workers
  MaxFailures,          \* bound: pipeline exceptions, all workers together
  MaxCrashes,           \* bound: worker deaths, all workers together
  MaxRedeliveries,      \* bound: RecordingVerified events that are reopened
  PostCap, MaxFaults, MaxChanges,     \* bounds of IntegrationWorker
  None

VARIABLES
  \* outbox rows, per event type
  recordingVerified, transcriptReady, intelligenceReady, meetingOfReport,
  \* transcripts and the speech workers' runs
  recordingOf, transcriptState, retryCount, announced, speechClaim, speechDraft,
  \* intelligence reports and the intelligence workers' runs
  transcriptOf, reportState, ready, reportClaim, reportDraft,
  \* index reports, chunks and the indexing workers' runs
  reportOf, indexState, basis, stored, indexClaim, indexDraft, progress,
  \* integration jobs and the integration workers' loops
  active, job, posts, accepted, turn, task, send, faults, changes,
  \* bounds
  failures, crashes, redeliveries

speech == <<recordingVerified, recordingOf, transcriptState, retryCount,
            announced, speechClaim, speechDraft, redeliveries>>
intelligence == <<transcriptReady, transcriptOf, reportState, ready, reportClaim,
                  reportDraft>>
indexing == <<reportOf, indexState, basis, stored, indexClaim, indexDraft, progress>>
integration == <<active, job, posts, accepted, turn, task, send, faults, changes>>
shared == <<intelligenceReady, meetingOfReport>>
vars == <<speech, intelligence, indexing, integration, shared, failures, crashes>>

Speech == INSTANCE SpeechWorker WITH
  Worker <- SpeechWorkers, inbox <- recordingVerified, source <- recordingOf,
  state <- transcriptState, claim <- speechClaim, draft <- speechDraft

Intelligence == INSTANCE IntelligenceWorker WITH
  Worker <- IntelligenceWorkers, inbox <- transcriptReady, source <- transcriptOf,
  state <- reportState, claim <- reportClaim, draft <- reportDraft

\* meeting_id of the transcripts' rows, which the speech workers copy from their
\* event; utterances are saved in the transaction that announces a transcript.
MeetingOfTranscript ==
  [t \in Transcript |-> IF recordingOf[t] = None THEN None ELSE MeetingOf[recordingOf[t]]]

\* Mutant: utterances are saved in a transaction before.
UtteredEarly ==
  {t \in Transcript \ Silent :
     transcriptState[t] = "Persisting" \/ "TranscriptReady" \in announced[t]}

Uttered == {t \in Transcript \ Silent : "TranscriptReady" \in announced[t]}

Indexing == INSTANCE IndexingWorker WITH
  Worker <- IndexingWorkers, inbox <- intelligenceReady, subject <- meetingOfReport,
  source <- reportOf, state <- indexState, claim <- indexClaim, draft <- indexDraft,
  transcriptMeeting <- MeetingOfTranscript, uttered <- Uttered

Integration == INSTANCE IntegrationWorker WITH
  Worker <- IntegrationWorkers, inbox <- intelligenceReady, subject <- meetingOfReport,
  MaxRetries <- MaxAttempts

ASSUME PipelineAssumption ==
  /\ MeetingOf \in [Recording -> Meeting]
  /\ Speech!ConstantsOK
  /\ Intelligence!ConstantsOK
  /\ Indexing!ConstantsOK
  /\ Integration!ConstantsOK

TypeOK ==
  /\ Speech!TypeOK
  /\ Intelligence!TypeOK
  /\ Indexing!TypeOK
  /\ Integration!TypeOK

Init ==
  /\ Speech!Init
  /\ Intelligence!Init
  /\ Indexing!Init
  /\ Integration!InitRun

-----------------------------------------------------------------------------
(* Events on their way: each is enqueued in the transaction that completes *)
(* the row it is about, and delivered some time later.                     *)

DeliverRecordingVerified(r) ==
  /\ Speech!Deliver(r)
  /\ UNCHANGED <<intelligence, indexing, integration, shared, failures, crashes>>

\* An overlapping dispatcher reopens the event.
RedeliverRecordingVerified(r) ==
  /\ Speech!Redeliver(r)
  /\ UNCHANGED <<intelligence, indexing, integration, shared, failures>>

\* The outcome event of t is the one the intelligence workers poll for.
HasReadyEvent(t) == "TranscriptReady" \in announced[t]

DeliverTranscriptReady(t) ==
  /\ HasReadyEvent(t)
  /\ Intelligence!Deliver(t)
  /\ UNCHANGED <<speech, indexing, integration, shared>>

\* The payload names the meeting of the report's transcript.
DeliverIntelligenceReady(p) ==
  /\ p \in ready
  /\ Indexing!Deliver(p, MeetingOf[recordingOf[transcriptOf[p]]])
  /\ UNCHANGED <<speech, intelligence, integration>>

-----------------------------------------------------------------------------
(* The workers.                                                            *)

SpeechStep(w) ==
  /\ Speech!Work(w) \/ Speech!Fail(w) \/ Speech!Crash(w)
  /\ UNCHANGED <<intelligence, indexing, integration, shared>>

IntelligenceStep(w) ==
  /\ Intelligence!Work(w) \/ Intelligence!Fail(w) \/ Intelligence!Crash(w)
  /\ UNCHANGED <<speech, indexing, integration, shared>>

IndexingStep(w) ==
  /\ Indexing!Work(w) \/ Indexing!Fail(w) \/ Indexing!Crash(w)
  /\ UNCHANGED <<speech, intelligence, integration>>

IntegrationStep ==
  /\ Integration!WorkerStep
  /\ UNCHANGED <<speech, intelligence, indexing, failures>>

Next ==
  \/ \E r \in Recording : DeliverRecordingVerified(r) \/ RedeliverRecordingVerified(r)
  \/ \E t \in Transcript : DeliverTranscriptReady(t)
  \/ \E p \in Report : DeliverIntelligenceReady(p)
  \/ \E w \in SpeechWorkers : SpeechStep(w)
  \/ \E w \in IntelligenceWorkers : IntelligenceStep(w)
  \/ \E w \in IndexingWorkers : IndexingStep(w)
  \/ IntegrationStep

Spec == Init /\ [][Next]_vars

\* The dispatcher delivers what was enqueued (EventuallySettled of
\* OutboxDispatcher) and every worker's loop goes on.
Fairness ==
  /\ \A t \in Transcript : WF_vars(DeliverTranscriptReady(t))
  /\ \A p \in Report : WF_vars(DeliverIntelligenceReady(p))
  /\ \A w \in SpeechWorkers :
       WF_vars(Speech!Work(w) /\ UNCHANGED <<intelligence, indexing, integration, shared>>)
  /\ \A w \in IntelligenceWorkers :
       WF_vars(Intelligence!Work(w) /\ UNCHANGED <<speech, indexing, integration, shared>>)
  /\ \A w \in IndexingWorkers :
       WF_vars(Indexing!Work(w) /\ UNCHANGED <<speech, intelligence, integration>>)
  /\ \A w \in IntegrationWorkers :
       WF_vars(Integration!Work(w)
               /\ UNCHANGED <<speech, intelligence, indexing, failures>>)

FairSpec == Spec /\ Fairness

-----------------------------------------------------------------------------
(* Properties.                                                             *)

\* What each worker, alone in its stage, guarantees (see the modules).
OneTranscriptPerRecording == Speech!OneTranscriptPerRecording
ConsumedHasReport == Intelligence!ConsumedHasReport
EventuallyConsumed == Speech!EventuallyConsumed
OneRunStored == Indexing!OneRunStored

\* What it guarantees when several workers overlap in it.
RunsOwnTheirRows == Speech!DraftOwned /\ Intelligence!DraftOwned

Indexed(m) == \E x \in Indexing!ReportsOf(m) : indexState[x] = "Indexed"

HasTranscript(m) ==
  \E t \in Transcript :
    "TranscriptReady" \in announced[t] /\ MeetingOf[recordingOf[t]] = m

\* A meeting with a complete transcript becomes searchable in the end, past two
\* hand-overs between workers and whatever failures and deaths the intelligence
\* and indexing workers have.
EventuallyIndexed == \A m \in Meeting : HasTranscript(m) ~> Indexed(m)

\* r is a recording of meeting m whose event has arrived.
ArrivedOf(r, m) ==
  r \in Recording /\ MeetingOf[r] = m /\ recordingVerified[r] # "absent"

\* t is an announced transcript of such a recording.
AnnouncedOf(t, m) ==
  /\ t \in Transcript
  /\ "TranscriptReady" \in announced[t]
  /\ ArrivedOf(recordingOf[t], m)

HasAnother(t, m) ==
  \E u \in Transcript \ {t} : recordingOf[u] # None /\ MeetingOf[recordingOf[u]] = m

\* What is in the index can be traced back.  The chunks of a meeting are of an
\* announced report, of an announced transcript, of a recording of that very
\* meeting that had arrived.  Their utterances may be those of another transcript,
\* but only of one with these same qualities; and they are those of the report's
\* own transcript when the meeting has no other.
IndexIsTraceable ==
  \A m \in Meeting : \A x \in stored[m] :
    LET p == reportOf[x] t == transcriptOf[p]
    IN  /\ p \in ready
        /\ AnnouncedOf(t, m)
        /\ basis[x] # None => AnnouncedOf(basis[x], m)
        /\ basis[x] = t \/ t \in Silent \/ HasAnother(t, m)

=============================================================================
