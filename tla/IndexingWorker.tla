--------------------------- MODULE IndexingWorker ---------------------------
(***************************************************************************)
(* The indexing workers of app/workers/indexing_worker.py with the write   *)
(* operations of app/services/knowledge.py: pollers that turn a DELIVERED  *)
(* MeetingIntelligenceReady event into the knowledge chunks of a meeting.  *)
(* Events are per report, while the idempotency check, the transcript that *)
(* is loaded and the chunk table are per meeting, and old chunks are       *)
(* deleted in a transaction of its own before the new ones are inserted in *)
(* another.                                                                *)
(***************************************************************************)
EXTENDS Naturals

CONSTANTS
  Meeting,
  Transcript,
  Report,           \* intelligence reports; one MeetingIntelligenceReady each
  Worker,           \* running IndexingWorker instances
  IndexReport,      \* bound: index reports that can be created
  Bare,             \* reports without an artifact to chunk
  MaxFailures,      \* bound: pipeline exceptions, all together
  MaxCrashes,       \* bound: worker deaths, all together
  None              \* no meeting, transcript, report or index report

\* What the constants may be; Pipeline assumes it of its instance.
ConstantsOK ==
  /\ Bare \subseteq Report
  /\ MaxFailures \in Nat
  /\ MaxCrashes \in Nat
  /\ None \notin Meeting \union Transcript \union Report \union IndexReport

VARIABLES
  transcriptMeeting,  \* transcriptMeeting[t]: meeting_id of t's row, once it exists
  uttered,   \* transcripts that have utterances
  inbox,     \* inbox[p]: status of p's event, as workers see it
  subject,   \* subject[p]: meeting_id in the payload of p's event
  source,    \* source[x]: report that index report x was created for
  state,     \* state[x]: the status column
  basis,     \* basis[x]: transcript whose utterances x's run has chunked
  stored,    \* stored[m]: index reports whose chunks are in m's rows
  claim,     \* claim[w]: report worker w is indexing
  draft,     \* draft[w]: index report of w's run
  progress,  \* progress[w]: loads and transactions that run has behind it
  failures,
  crashes

rows == <<transcriptMeeting, uttered>>
table == <<source, state, basis>>
run == <<claim, draft, progress>>
bounds == <<failures, crashes>>
vars == <<transcriptMeeting, uttered, inbox, subject, source, state, basis, stored,
          claim, draft, progress, failures, crashes>>

IndexStatus ==
  {"Queued", "Chunking", "Embedding", "Persisting", "Indexed", "Failed"}

TypeOK ==
  /\ transcriptMeeting \in [Transcript -> Meeting \union {None}]
  /\ uttered \subseteq Transcript
  /\ inbox \in [Report -> {"absent", "DELIVERED", "CONSUMED"}]
  /\ subject \in [Report -> Meeting \union {None}]
  /\ source \in [IndexReport -> Report \union {None}]
  /\ state \in [IndexReport -> IndexStatus \union {"absent"}]
  /\ basis \in [IndexReport -> Transcript \union {None}]
  /\ stored \in [Meeting -> SUBSET IndexReport]
  /\ claim \in [Worker -> Report \union {None}]
  /\ draft \in [Worker -> IndexReport \union {None}]
  /\ progress \in [Worker -> {"nothing", "loaded", "deleted", "inserted"}]
  /\ failures \in 0..MaxFailures
  /\ crashes \in 0..MaxCrashes

\* The rows and workers of this component, before the first event.
InitRun ==
  /\ source = [x \in IndexReport |-> None]
  /\ state = [x \in IndexReport |-> "absent"]
  /\ basis = [x \in IndexReport |-> None]
  /\ stored = [m \in Meeting |-> {}]
  /\ claim = [w \in Worker |-> None]
  /\ draft = [w \in Worker |-> None]
  /\ progress = [w \in Worker |-> "nothing"]

Init ==
  /\ transcriptMeeting = [t \in Transcript |-> None]
  /\ uttered = {}
  /\ inbox = [p \in Report |-> "absent"]
  /\ subject = [p \in Report |-> None]
  /\ InitRun
  /\ failures = 0
  /\ crashes = 0

\* The speech workers create a transcript of m and save its utterances.
CreateTranscript(t, m) ==
  /\ transcriptMeeting[t] = None
  /\ transcriptMeeting' = [transcriptMeeting EXCEPT ![t] = m]
  /\ UNCHANGED <<uttered, inbox, subject, stored>>
  /\ UNCHANGED table
  /\ UNCHANGED run
  /\ UNCHANGED bounds

SaveUtterances(t) ==
  /\ transcriptMeeting[t] # None
  /\ uttered' = uttered \union {t}
  /\ UNCHANGED <<transcriptMeeting, inbox, subject, stored>>
  /\ UNCHANGED table
  /\ UNCHANGED run
  /\ UNCHANGED bounds

\* The transcripts that meeting m has so far, finished or not.
TranscriptsOf(m) == {t \in Transcript : transcriptMeeting[t] = m}

\* The dispatcher commits DELIVERED for the event of p, a report of m.
Deliver(p, m) ==
  /\ inbox[p] = "absent"
  /\ inbox' = [inbox EXCEPT ![p] = "DELIVERED"]
  /\ subject' = [subject EXCEPT ![p] = m]
  /\ UNCHANGED table
  /\ UNCHANGED stored
  /\ UNCHANGED run
  /\ UNCHANGED bounds

-----------------------------------------------------------------------------
(* poll_and_process: `existing' is any one index report of the meeting.    *)

ReportsOf(m) == {x \in IndexReport : source[x] # None /\ subject[source[x]] = m}

\* `existing' can be an Indexed report.
SeenIndexed(m) == \E x \in ReportsOf(m) : state[x] = "Indexed"

\* Mutant: one index report, whatever became of it, is enough.
SeenUnfinishedNever(m) == ReportsOf(m) = {}

\* `existing' can be missing or a report in another status.
SeenUnfinished(m) ==
  ReportsOf(m) = {} \/ \E x \in ReportsOf(m) : state[x] # "Indexed"

ConsumeEvent(w, p) ==
  /\ claim[w] = None
  /\ inbox[p] = "DELIVERED"
  /\ SeenIndexed(subject[p])
  /\ inbox' = [inbox EXCEPT ![p] = "CONSUMED"]
  /\ UNCHANGED <<subject, stored>>
  /\ UNCHANGED table
  /\ UNCHANGED run
  /\ UNCHANGED bounds

ClaimReport(w, p) ==
  /\ claim[w] = None
  /\ inbox[p] = "DELIVERED"
  /\ SeenUnfinished(subject[p])
  /\ claim' = [claim EXCEPT ![w] = p]
  /\ UNCHANGED <<inbox, subject, stored, draft, progress>>
  /\ UNCHANGED table
  /\ UNCHANGED bounds

-----------------------------------------------------------------------------
(* run_indexing.                                                           *)

\* The row the next INSERT creates: which one makes no difference.
NewRow == CHOOSE x \in IndexReport : state[x] = "absent"

CreateIndexReport(w) ==
  /\ claim[w] # None
  /\ draft[w] = None
  /\ \E x \in IndexReport : state[x] = "absent"
  /\ source' = [source EXCEPT ![NewRow] = claim[w]]
  /\ state' = [state EXCEPT ![NewRow] = "Queued"]
  /\ draft' = [draft EXCEPT ![w] = NewRow]
  /\ UNCHANGED <<inbox, subject, basis, stored, claim, progress>>
  /\ UNCHANGED bounds

\* `transcript' can be any one of the meeting, not only the one the report is of.
LoadedTranscripts(m) == TranscriptsOf(m)

\* The reads behind the first commit.  The meeting of a report has a transcript;
\* one that is not finished, or failed, is taken as it is: without utterances.
LoadArtifacts(w) ==
  /\ draft[w] # None
  /\ state[draft[w]] = "Chunking"
  /\ progress[w] = "nothing"
  /\ \E t \in LoadedTranscripts(subject[claim[w]]) :
       basis' = [basis EXCEPT ![draft[w]] = IF t \in uttered THEN t ELSE None]
  /\ progress' = [progress EXCEPT ![w] = "loaded"]
  /\ UNCHANGED <<inbox, subject, source, state, stored, claim, draft>>
  /\ UNCHANGED bounds

\* There is something to embed: utterances, or an artifact of the report.
HasChunks(w) == basis[draft[w]] # None \/ claim[w] \notin Bare

\* The order of the update_status calls.
NextStatus(s) ==
  IF s = "Queued" THEN "Chunking"
  ELSE IF s = "Chunking" THEN "Embedding"
  ELSE "Persisting"

\* One update_status with the chunking or embedding before it.
Advance(w) ==
  /\ draft[w] # None
  /\ state[draft[w]] \in {"Queued", "Chunking", "Embedding"}
  /\ state[draft[w]] = "Chunking" => progress[w] = "loaded" /\ HasChunks(w)
  /\ state' = [state EXCEPT ![draft[w]] = NextStatus(@)]
  /\ UNCHANGED <<inbox, subject, source, basis, stored>>
  /\ UNCHANGED run
  /\ UNCHANGED bounds

\* Mutant: the old chunks stay.
RemainingAll(m) == stored[m]

\* What the DELETE leaves of a meeting's chunks.
Remaining(m) == {}

\* save_indexed_chunks, first transaction.
DeleteOldChunks(w) ==
  /\ draft[w] # None
  /\ state[draft[w]] = "Persisting"
  /\ progress[w] = "loaded"
  /\ stored' = [stored EXCEPT ![subject[claim[w]]] = Remaining(subject[claim[w]])]
  /\ progress' = [progress EXCEPT ![w] = "deleted"]
  /\ UNCHANGED <<inbox, subject, claim, draft>>
  /\ UNCHANGED table
  /\ UNCHANGED bounds

\* save_indexed_chunks, second transaction.
InsertNewChunks(w) ==
  /\ progress[w] = "deleted"
  /\ stored' = [stored EXCEPT ![subject[claim[w]]] = @ \union {draft[w]}]
  /\ progress' = [progress EXCEPT ![w] = "inserted"]
  /\ UNCHANGED <<inbox, subject, claim, draft>>
  /\ UNCHANGED table
  /\ UNCHANGED bounds

\* run_indexing returns.
Release(w) ==
  /\ claim' = [claim EXCEPT ![w] = None]
  /\ draft' = [draft EXCEPT ![w] = None]
  /\ progress' = [progress EXCEPT ![w] = "nothing"]

\* The final transaction; with nothing to chunk it is reached at once.
MarkIndexed(w) ==
  /\ draft[w] # None
  /\ \/ progress[w] = "inserted"
     \/ /\ state[draft[w]] = "Chunking"
        /\ progress[w] = "loaded"
        /\ ~HasChunks(w)
  /\ state' = [state EXCEPT ![draft[w]] = "Indexed"]
  /\ Release(w)
  /\ UNCHANGED <<inbox, subject, source, basis, stored>>
  /\ UNCHANGED bounds

\* Anything after the loads raises: mark_failed.
Fail(w) ==
  /\ draft[w] # None
  /\ progress[w] # "nothing"
  /\ failures < MaxFailures
  /\ failures' = failures + 1
  /\ state' = [state EXCEPT ![draft[w]] = "Failed"]
  /\ Release(w)
  /\ UNCHANGED <<inbox, subject, source, basis, stored, crashes>>

\* The process dies, or a session outside the try block raises.
Crash(w) ==
  /\ claim[w] # None
  /\ crashes < MaxCrashes
  /\ crashes' = crashes + 1
  /\ Release(w)
  /\ UNCHANGED <<inbox, subject, stored, failures>>
  /\ UNCHANGED table

-----------------------------------------------------------------------------

\* What worker w does of its own accord.
Work(w) ==
  \/ \E p \in Report : ConsumeEvent(w, p) \/ ClaimReport(w, p)
  \/ CreateIndexReport(w)
  \/ LoadArtifacts(w)
  \/ Advance(w)
  \/ DeleteOldChunks(w)
  \/ InsertNewChunks(w)
  \/ MarkIndexed(w)

\* The worker by itself: reports are announced of meetings whose transcript is
\* complete, and nothing but the speech workers writes transcripts.
Next ==
  \/ \E t \in Transcript :
       SaveUtterances(t) \/ \E m \in Meeting : CreateTranscript(t, m)
  \/ /\ \/ \E m \in Meeting : /\ TranscriptsOf(m) \intersect uttered # {}
                              /\ \E p \in Report : Deliver(p, m)
        \/ \E w \in Worker : Work(w) \/ Fail(w) \/ Crash(w)
     /\ UNCHANGED rows

Spec == Init /\ [][Next]_vars

-----------------------------------------------------------------------------
(* Properties.                                                             *)

\* "Re-indexing a meeting replaces all its previous vector chunks to avoid
\* duplicate results": with one worker a meeting's rows are those of one run,
\* wherever earlier runs failed or died.
OneRunStored == \A m \in Meeting : \A x, y \in stored[m] : x = y

\* "Transactionally deletes old index records and persists new ones": a meeting
\* whose event was consumed as indexed has chunks to search, as far as its report
\* says anything.
ConsumedIsSearchable ==
  \A p \in Report :
    inbox[p] = "CONSUMED" /\ p \notin Bare => stored[subject[p]] # {}

=============================================================================
