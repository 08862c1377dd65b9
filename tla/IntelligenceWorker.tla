------------------------- MODULE IntelligenceWorker -------------------------
(***************************************************************************)
(* The intelligence workers of app/workers/intelligence_worker.py with the *)
(* report operations of app/services/intelligence.py: pollers that turn a  *)
(* DELIVERED TranscriptReady event into an intelligence report.  Unlike    *)
(* the speech worker, the poll takes the event for done only when the one  *)
(* report it happens to load is Completed; otherwise it starts another.    *)
(***************************************************************************)
EXTENDS Naturals, FiniteSets

CONSTANTS
  Transcript,       \* completed transcripts; one TranscriptReady event each
  Worker,           \* running IntelligenceWorker instances
  Report,           \* bound: intelligence reports that can be created
  MaxFailures,      \* bound: pipeline exceptions, all together
  MaxCrashes,       \* bound: worker deaths, all together
  None              \* no transcript, no report

\* What the constants may be; Pipeline assumes it of its instance.
ConstantsOK ==
  /\ MaxFailures \in Nat
  /\ MaxCrashes \in Nat
  /\ None \notin Transcript
  /\ None \notin Report

VARIABLES
  inbox,     \* inbox[t]: status of t's TranscriptReady event, as workers see it
  source,    \* source[p]: transcript of report p, None before its INSERT
  state,     \* state[p]: the status column
  ready,     \* reports whose MeetingIntelligenceReady event was enqueued
  claim,     \* claim[w]: transcript worker w is processing
  draft,     \* draft[w]: report of w's run
  failures,
  crashes

table == <<source, state, ready>>
run == <<claim, draft>>
bounds == <<failures, crashes>>
vars == <<inbox, source, state, ready, claim, draft, failures, crashes>>

IntelligenceReportStatus == {"Pending", "Processing", "Completed", "Failed"}

TypeOK ==
  /\ inbox \in [Transcript -> {"absent", "DELIVERED", "CONSUMED"}]
  /\ source \in [Report -> Transcript \union {None}]
  /\ state \in [Report -> IntelligenceReportStatus \union {"absent"}]
  /\ ready \subseteq Report
  /\ claim \in [Worker -> Transcript \union {None}]
  /\ draft \in [Worker -> Report \union {None}]
  /\ failures \in 0..MaxFailures
  /\ crashes \in 0..MaxCrashes

Init ==
  /\ inbox = [t \in Transcript |-> "absent"]
  /\ source = [p \in Report |-> None]
  /\ state = [p \in Report |-> "absent"]
  /\ ready = {}
  /\ claim = [w \in Worker |-> None]
  /\ draft = [w \in Worker |-> None]
  /\ failures = 0
  /\ crashes = 0

\* The dispatcher commits DELIVERED for t's event.
Deliver(t) ==
  /\ inbox[t] = "absent"
  /\ inbox' = [inbox EXCEPT ![t] = "DELIVERED"]
  /\ UNCHANGED table
  /\ UNCHANGED run
  /\ UNCHANGED bounds

-----------------------------------------------------------------------------
(* poll_and_process: the lookup has no ORDER BY, so `existing' is any one  *)
(* of the transcript's reports.                                            *)

ReportsOf(t) == {p \in Report : source[p] = t}

\* Mutant: a report that is still being written counts.
SeenCompletedTooEarly(t) == \E p \in ReportsOf(t) : state[p] # "Failed"

\* `existing' can be a Completed report.
SeenCompleted(t) == \E p \in ReportsOf(t) : state[p] = "Completed"

\* `existing' can be missing or a report in another status.
SeenUnfinished(t) ==
  ReportsOf(t) = {} \/ \E p \in ReportsOf(t) : state[p] # "Completed"

ConsumeEvent(w, t) ==
  /\ claim[w] = None
  /\ inbox[t] = "DELIVERED"
  /\ SeenCompleted(t)
  /\ inbox' = [inbox EXCEPT ![t] = "CONSUMED"]
  /\ UNCHANGED table
  /\ UNCHANGED run
  /\ UNCHANGED bounds

ClaimTranscript(w, t) ==
  /\ claim[w] = None
  /\ inbox[t] = "DELIVERED"
  /\ SeenUnfinished(t)
  /\ claim' = [claim EXCEPT ![w] = t]
  /\ UNCHANGED <<inbox, draft>>
  /\ UNCHANGED table
  /\ UNCHANGED bounds

-----------------------------------------------------------------------------
(* execute_pipeline.                                                       *)

\* The row the next INSERT creates: which one makes no difference.
NewRow == CHOOSE p \in Report : state[p] = "absent"

CreateReport(w) ==
  /\ claim[w] # None
  /\ draft[w] = None
  /\ \E p \in Report : state[p] = "absent"
  /\ source' = [source EXCEPT ![NewRow] = claim[w]]
  /\ state' = [state EXCEPT ![NewRow] = "Pending"]
  /\ draft' = [draft EXCEPT ![w] = NewRow]
  /\ UNCHANGED <<inbox, ready, claim>>
  /\ UNCHANGED bounds

\* Transcripts are never deleted: the load that follows succeeds.
MarkProcessing(w) ==
  /\ draft[w] # None
  /\ state[draft[w]] = "Pending"
  /\ state' = [state EXCEPT ![draft[w]] = "Processing"]
  /\ UNCHANGED <<inbox, source, ready>>
  /\ UNCHANGED run
  /\ UNCHANGED bounds

\* The engine's output was gated and is saved with its four events in one
\* transaction.
SaveResults(w) ==
  /\ draft[w] # None
  /\ state[draft[w]] = "Processing"
  /\ state' = [state EXCEPT ![draft[w]] = "Completed"]
  /\ ready' = ready \union {draft[w]}
  /\ UNCHANGED <<inbox, source>>
  /\ UNCHANGED run
  /\ UNCHANGED bounds

\* execute_pipeline returns.
Release(w) ==
  /\ claim' = [claim EXCEPT ![w] = None]
  /\ draft' = [draft EXCEPT ![w] = None]

\* The refresh after the commit of the results succeeds.
Finish(w) ==
  /\ draft[w] # None
  /\ state[draft[w]] = "Completed"
  /\ Release(w)
  /\ UNCHANGED inbox
  /\ UNCHANGED table
  /\ UNCHANGED bounds

\* The engine, the gating, the save of a malformed item or the refresh raises:
\* mark_failed.
Fail(w) ==
  /\ draft[w] # None
  /\ state[draft[w]] \in {"Processing", "Completed"}
  /\ failures < MaxFailures
  /\ failures' = failures + 1
  /\ state' = [state EXCEPT ![draft[w]] = "Failed"]
  /\ Release(w)
  /\ UNCHANGED <<inbox, source, ready, crashes>>

\* The process dies, or a session outside the try block raises.
Crash(w) ==
  /\ claim[w] # None
  /\ crashes < MaxCrashes
  /\ crashes' = crashes + 1
  /\ Release(w)
  /\ UNCHANGED <<inbox, failures>>
  /\ UNCHANGED table

-----------------------------------------------------------------------------

\* What worker w does of its own accord.
Work(w) ==
  \/ \E t \in Transcript : ConsumeEvent(w, t) \/ ClaimTranscript(w, t)
  \/ CreateReport(w)
  \/ MarkProcessing(w)
  \/ SaveResults(w)
  \/ Finish(w)

Next ==
  \/ \E t \in Transcript : Deliver(t)
  \/ \E w \in Worker : Work(w) \/ Fail(w) \/ Crash(w)

Spec == Init /\ [][Next]_vars

-----------------------------------------------------------------------------
(* Properties.                                                             *)

\* With one worker, a consumed event has a report that readers find Completed.
ConsumedHasReport ==
  \A t \in Transcript :
    inbox[t] = "CONSUMED" => \E p \in ReportsOf(t) : state[p] = "Completed"

\* Concurrent runs over one transcript never write into the same report.
DraftOwned ==
  \A w \in Worker : draft[w] # None =>
    /\ state[draft[w]] \in {"Pending", "Processing", "Completed"}
    /\ source[draft[w]] = claim[w]
    /\ \A v \in Worker \ {w} : draft[v] # draft[w]

=============================================================================
