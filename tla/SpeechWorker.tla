---------------------------- MODULE SpeechWorker ----------------------------
(***************************************************************************)
(* The speech workers of app/workers/speech_worker.py with the transcript  *)
(* operations of app/services/speech.py: pollers that turn a DELIVERED     *)
(* RecordingVerified event into a transcript row that moves from Queued to *)
(* Completed or Failed.  Every status update is a committed session of its *)
(* own, so a worker may die, or another worker may poll, between any two.  *)
(***************************************************************************)
EXTENDS Naturals

CONSTANTS
  Recording,        \* verified recordings; one RecordingVerified event each
  Worker,           \* running SpeechProcessingWorker instances
  Transcript,       \* bound: transcript rows that can be created
  MaxRetries,       \* MAX_RETRIES
  MaxFailures,      \* bound: pipeline exceptions, all together
  MaxCrashes,       \* bound: worker deaths, all together
  MaxRedeliveries,  \* bound: CONSUMED events an overlapping dispatcher reopens
  None              \* no recording, no transcript

\* What the constants may be; Pipeline assumes it of its instance.
ConstantsOK ==
  /\ MaxRetries \in Nat
  /\ MaxFailures \in Nat
  /\ MaxCrashes \in Nat
  /\ MaxRedeliveries \in Nat
  /\ None \notin Recording
  /\ None \notin Transcript

VARIABLES
  inbox,         \* inbox[r]: status of r's RecordingVerified event, as workers see it
  source,        \* source[t]: recording of transcript row t, None before its INSERT
  state,         \* state[t]: the status column
  retryCount,    \* retryCount[t]: the retry_count column
  announced,     \* announced[t]: outcome events enqueued for t
  claim,         \* claim[w]: recording worker w is processing
  draft,         \* draft[w]: transcript row of w's run
  failures,
  crashes,
  redeliveries

table == <<source, state, retryCount, announced>>
bounds == <<failures, crashes, redeliveries>>
vars == <<inbox, source, state, retryCount, announced, claim, draft,
          failures, crashes, redeliveries>>

Running == {"Queued", "Downloading", "Transcribing", "Aligning", "Persisting"}
TranscriptStatus == Running \union {"Completed", "Failed"}

TypeOK ==
  /\ inbox \in [Recording -> {"absent", "DELIVERED", "CONSUMED"}]
  /\ source \in [Transcript -> Recording \union {None}]
  /\ state \in [Transcript -> TranscriptStatus \union {"absent"}]
  /\ retryCount \in [Transcript -> Nat]
  /\ announced \in [Transcript ->
       SUBSET {"TranscriptReady", "TranscriptionFailed", "dead_letter"}]
  /\ claim \in [Worker -> Recording \union {None}]
  /\ draft \in [Worker -> Transcript \union {None}]
  /\ failures \in 0..MaxFailures
  /\ crashes \in 0..MaxCrashes
  /\ redeliveries \in 0..MaxRedeliveries

Init ==
  /\ inbox = [r \in Recording |-> "absent"]
  /\ source = [t \in Transcript |-> None]
  /\ state = [t \in Transcript |-> "absent"]
  /\ retryCount = [t \in Transcript |-> 0]
  /\ announced = [t \in Transcript |-> {}]
  /\ claim = [w \in Worker |-> None]
  /\ draft = [w \in Worker |-> None]
  /\ failures = 0
  /\ crashes = 0
  /\ redeliveries = 0

-----------------------------------------------------------------------------
(* The outbox, as the workers see it.                                      *)

\* The dispatcher commits DELIVERED for r's event.
Deliver(r) ==
  /\ inbox[r] = "absent"
  /\ inbox' = [inbox EXCEPT ![r] = "DELIVERED"]
  /\ UNCHANGED table
  /\ UNCHANGED <<claim, draft>>
  /\ UNCHANGED bounds

\* A second dispatcher that had selected the row flushes DELIVERED late.
Redeliver(r) ==
  /\ inbox[r] = "CONSUMED"
  /\ redeliveries < MaxRedeliveries
  /\ redeliveries' = redeliveries + 1
  /\ inbox' = [inbox EXCEPT ![r] = "DELIVERED"]
  /\ UNCHANGED table
  /\ UNCHANGED <<claim, draft, failures, crashes>>

-----------------------------------------------------------------------------
(* poll_and_process.                                                       *)

\* Mutant: only a finished transcript counts.
HasTranscriptCompletedOnly(r) ==
  \E t \in Transcript : source[t] = r /\ state[t] = "Completed"

\* Mutant: the lookup finds nothing.
HasTranscriptNever(r) == FALSE

\* Any transcript of the recording, whatever its status.
HasTranscript(r) == \E t \in Transcript : source[t] = r

\* The event has a transcript: nothing is left to do for it.
ConsumeEvent(w, r) ==
  /\ claim[w] = None
  /\ inbox[r] = "DELIVERED"
  /\ HasTranscript(r)
  /\ inbox' = [inbox EXCEPT ![r] = "CONSUMED"]
  /\ UNCHANGED table
  /\ UNCHANGED <<claim, draft>>
  /\ UNCHANGED bounds

\* No transcript was seen; the session closes before process_recording opens
\* its own.
ClaimRecording(w, r) ==
  /\ claim[w] = None
  /\ inbox[r] = "DELIVERED"
  /\ ~HasTranscript(r)
  /\ claim' = [claim EXCEPT ![w] = r]
  /\ UNCHANGED <<inbox, draft>>
  /\ UNCHANGED table
  /\ UNCHANGED bounds

-----------------------------------------------------------------------------
(* process_recording.                                                      *)

\* The row the next INSERT creates: which one makes no difference.
NewRow == CHOOSE t \in Transcript : state[t] = "absent"

\* create_draft_transcript commits a Queued row.  The recording it belongs to
\* is never deleted, so the lookup that follows succeeds.
CreateDraft(w) ==
  /\ claim[w] # None
  /\ draft[w] = None
  /\ \E t \in Transcript : state[t] = "absent"
  /\ source' = [source EXCEPT ![NewRow] = claim[w]]
  /\ state' = [state EXCEPT ![NewRow] = "Queued"]
  /\ draft' = [draft EXCEPT ![w] = NewRow]
  /\ UNCHANGED <<inbox, retryCount, announced, claim>>
  /\ UNCHANGED bounds

\* Mutant: the last stage is a status the enumeration lacks.
NextStatusUnknown(s) == IF s = "Aligning" THEN "Saving" ELSE "Aligning"

\* The order of the update_status calls.
NextStatus(s) ==
  IF s = "Queued" THEN "Downloading"
  ELSE IF s = "Downloading" THEN "Transcribing"
  ELSE IF s = "Transcribing" THEN "Aligning"
  ELSE "Persisting"

\* One update_status, after the download, diarization and ASR before it.
Advance(w) ==
  /\ draft[w] # None
  /\ state[draft[w]] \in Running \ {"Persisting"}
  /\ state' = [state EXCEPT ![draft[w]] = NextStatus(@)]
  /\ UNCHANGED <<inbox, source, retryCount, announced, claim, draft>>
  /\ UNCHANGED bounds

\* Mutant: the transcript id outlives the run.
ReleaseClaimOnly(w) ==
  /\ claim' = [claim EXCEPT ![w] = None]
  /\ UNCHANGED draft

\* process_recording returns.
Release(w) ==
  /\ claim' = [claim EXCEPT ![w] = None]
  /\ draft' = [draft EXCEPT ![w] = None]

\* save_transcript_results: utterances, Completed and TranscriptReady in one
\* transaction.
Complete(w) ==
  /\ draft[w] # None
  /\ state[draft[w]] = "Persisting"
  /\ state' = [state EXCEPT ![draft[w]] = "Completed"]
  /\ announced' = [announced EXCEPT ![draft[w]] = @ \union {"TranscriptReady"}]
  /\ UNCHANGED <<inbox, source, retryCount, claim, draft>>
  /\ UNCHANGED bounds

\* The refresh after that commit succeeds.
Finish(w) ==
  /\ draft[w] # None
  /\ state[draft[w]] = "Completed"
  /\ Release(w)
  /\ UNCHANGED inbox
  /\ UNCHANGED table
  /\ UNCHANGED bounds

\* Anything after the draft raises, the refresh of a row already committed as
\* Completed included: mark_failed, or the exhausted branch.
Fail(w) ==
  /\ draft[w] # None
  /\ failures < MaxFailures
  /\ failures' = failures + 1
  /\ state' = [state EXCEPT ![draft[w]] = "Failed"]
  /\ retryCount' = [retryCount EXCEPT ![draft[w]] = @ + 1]
  /\ announced' = [announced EXCEPT ![draft[w]] = @ \union
       {IF retryCount[draft[w]] < MaxRetries THEN "TranscriptionFailed"
        ELSE "dead_letter"}]
  /\ Release(w)
  /\ UNCHANGED <<inbox, source, crashes, redeliveries>>

\* The process dies, or a session before the pipeline's try block raises; what
\* was committed stays.
Crash(w) ==
  /\ claim[w] # None
  /\ crashes < MaxCrashes
  /\ crashes' = crashes + 1
  /\ Release(w)
  /\ UNCHANGED inbox
  /\ UNCHANGED table
  /\ UNCHANGED <<failures, redeliveries>>

-----------------------------------------------------------------------------

\* What worker w does of its own accord.
Work(w) ==
  \/ \E r \in Recording : ConsumeEvent(w, r) \/ ClaimRecording(w, r)
  \/ CreateDraft(w)
  \/ Advance(w)
  \/ Complete(w)
  \/ Finish(w)

Next ==
  \/ \E r \in Recording : Deliver(r) \/ Redeliver(r)
  \/ \E w \in Worker : Work(w) \/ Fail(w) \/ Crash(w)

Spec == Init /\ [][Next]_vars

\* start() polls for ever; nothing obliges a delivery, a failure or a crash.
FairSpec == Spec /\ \A w \in Worker : WF_vars(Work(w))

-----------------------------------------------------------------------------
(* Properties.                                                             *)

\* A recording is transcribed into one row however often its event comes back
\* and whenever the single worker dies: the draft is committed before any work,
\* and every later poll finds it.
OneTranscriptPerRecording ==
  \A t, u \in Transcript : source[t] # None /\ source[t] = source[u] => t = u

\* Runs do not meet in one row: a draft is worked on by the worker that created
\* it and no other, and nobody fails it as long as that worker holds it.
DraftOwned ==
  \A w \in Worker : draft[w] # None =>
    /\ state[draft[w]] \in Running \union {"Completed"}
    /\ source[draft[w]] = claim[w]
    /\ \A v \in Worker \ {w} : draft[v] # draft[w]

\* Every delivered event leaves the queue for good, so that the LIMIT 1 poll
\* cannot be held up by it.
EventuallyConsumed ==
  \A r \in Recording : inbox[r] = "DELIVERED" ~> inbox[r] = "CONSUMED"

\* "Failed transcription tasks are retried up to 3 times": an event is given up
\* only with a finished, running or exhausted transcript behind it.
RetriedBeforeGivenUp ==
  \A r \in Recording : inbox[r] = "CONSUMED" =>
    \E t \in Transcript :
      /\ source[t] = r
      /\ state[t] = "Failed" => retryCount[t] >= MaxRetries

=============================================================================
