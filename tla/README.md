# A formal model of Noted Maam's backend

TLA+ models of the stateful parts of the backend (`src/backend/app`, Python,
FastAPI, SQLAlchemy, PostgreSQL, Redis, an S3 store), the TLC runs that check
them on small instances, and TLAPS proofs for every value of the constants.
`PROJECT.json` lists components, runs, mutants, hazards and theorems, and maps
each definition to the lines it models. Paths below are relative to
`src/backend/app` unless they start with `src/`.

    tlc -workers 4 -config outbox_single.cfg MCOutboxDispatcher.tla
    tlapm OutboxDispatcherProofs.tla

## 1. The system

A meeting is created, started and ended over HTTP. Its recording is uploaded in
one piece or streamed in chunks. Every change that other parts must hear of is
written to the `outbox_events` table in the transaction of the change; a
dispatcher in each API replica puts the rows on a Redis stream and marks them
DELIVERED. The background workers do not read the stream: each polls the table
for DELIVERED rows of its event type, does its work and sets CONSUMED.

    start/end ─┐                         ┌─ speech ─ TranscriptReady ─ intelligence ─┐
    upload ────┼─ outbox ─ dispatcher ───┤                                           │
    chunks ────┘  rows     DELIVERED     └ RecordingVerified     MeetingIntelligenceReady
                                                                    ├─ indexing ─ chunks
                                                                    └─ integration ─ jobs

| component | state | operations | what makes it hard | what makes it correct |
|---|---|---|---|---|
| Outbox and dispatcher (`infrastructure/events.py`, started by `main.py`) | rows: status, retries, lease | enqueue, select, lease, publish, record the outcome | one dispatcher per replica, no row locks, leases that expire, death between publish and mark | published before marked; settled once; retry limit exact; no row stranded; each row settles |
| Meeting aggregate and API (`models/meeting.py`, `api/meeting.py`) | lifecycle, version, workflows, recordings | create, start, end, upload | concurrent replicas with old copies; an awaited upload between two commits | Ended exactly when announced; Verified means complete |
| Media ingestion and storage (`services/media.py`, `infrastructure/storage.py`) | Redis hash of a session, checksums, chunk objects, Recording rows | open, chunk, replay, merge, purge | four awaits between read and write; repeated requests; keys expire separately; the merge is many calls | recordings whole, of the chunks the client was told were received; a closed session is recorded |
| Speech worker (`workers/speech_worker.py`, `services/speech.py`) | transcript rows | poll, draft, six statuses, results, failure | check and insert in different sessions; death; redelivery | one transcript per recording; no event dropped; every event leaves the queue |
| Intelligence worker (`workers/intelligence_worker.py`, `services/intelligence.py`) | report rows | poll, create, process, save, fail | the check loads one arbitrary report | consumed means announced |
| Indexing worker (`workers/indexing_worker.py`, `services/knowledge.py`) | index reports, chunks | poll, chunk, embed, delete, insert | delete and insert are two transactions; events per report, table per meeting | chunks of one run; consumed means indexed and searchable |
| Integration worker (`workers/integration_worker.py`, `services/integrations.py`) | jobs, configurations | poll, enqueue, claim, send, record | awaited sends, timeouts, death after the claim, clashing configurations | every provider has its job; limit exact; outcome honest; every job ends |
| Sessions (`services/identity.py`, `models/auth.py`, `api/auth.py`) | rows: family, used, revoked, expires | login, limit, refresh, replay, logout, revoke | rows read, decided on and committed without a second look | a used token has a successor; one usable token per family; an ended family stays ended |
| Accounts (`services/identity.py`) | users, invitations, workspaces | register, register again, verify, onboard and link with Google, log in | each handler reads, decides and commits without looking again; registering again hashes a password in between | nobody is locked out; the password is the verified one; one workspace |
| Permissions (`core/iam.py`) | a Redis set per member | look up, fill, invalidate, expire | two calls to read, three to write, no transaction | no member is refused by the cache; a set expires; no earlier role comes back |
| Rate limiter (`core/rate_limiter.py`) | a sorted set per address | forget, count, add, prolong | clocks read before Redis is reached; replicas; the set expires as a whole | a bound on every window |
| Search (`services/knowledge.py`) | none | keyword and vector rankings, fusion, reranking, citations | three sorts with ties, chunk windows at the end of a transcript | nothing is cut apart or missed; no result is ahead of a better one |
| Idempotency, keys, recognition, extraction, health | see section 8 | | | |

## 2. Modules

| module | what it is |
|---|---|
| `OutboxDispatcher` | the table and any number of dispatchers. `rows` are its columns, `snap` a session's loaded copy; one action per database session or await |
| `EventDelivery` | what the outbox promises of one event; `OutboxDispatcher!KeepsPromise` is the refinement |
| `JobDelivery` | what the integration outbox promises of one job; `IntegrationWorker!JobsKeepPromise` is the refinement |
| `SpeechWorker`, `IntelligenceWorker`, `IndexingWorker`, `IntegrationWorker` | one worker class each, with the rows it writes. `inbox` is the status of its events; `claim` and `draft` are a run's local variables |
| `Pipeline` | the four workers, joined by the events they leave for each other: TranscriptReady of `announced` is the next inbox, and indexing and integration share one |
| `MeetingAggregate` | one meeting and the requests that write it; `loaded` is a handler's copy of the row |
| `MediaIngestion` | media sessions, chunk requests, and the store |
| `Recordings` | both, with shared request slots: sessions are opened for a meeting that is Recording |
| `RefreshTokens` | the sessions of one user |
| `Accounts` | the account of one e-mail address, up to where a session is opened |
| `PermissionCache` | the cached permissions of one member |
| `RateLimiter` | the window of one address |
| `Identity` | extends these four; one of them moves in each behaviour |
| `KnowledgeSearch` | pure functions: how transcripts are cut and how a search ranks. `MCPipeline` asks its properties once there are chunks |
| `MC...` | definitions for constants and symmetry; the other modules are checked as they are |
| `...Proofs` | theorems about the module they are named after: `IdentityProofs` has those of sessions, permissions, limiter and the four parts together, and cites `AccountsProofs`; `PipelineProofs` has those of `KnowledgeSearch` |

Conventions. What runs between two awaits, or in one database session, is one
step: another process can act between the steps and nowhere else. (For a
session check followed at once by a Redis write, `MediaIngestion` joins the two.)
Requests that are refused change nothing but the audit log and are no step. Ids
are fresh. A handler's local state is a function from the request slot or
worker, and forgotten when it returns, raises or dies. Contents (audio,
transcripts, reports, JSON) are model values or only which run they come from.
Constants called `Max...` or `...Cap`, unless they are the code's own limits,
are bounds on exploration: `RetryCap`, `CopyCap`, `MaxCrashes`, `MaxOutages`,
`MaxFailures`, `MaxRedeliveries`, `PostCap`, `MaxFaults`, `MaxChanges`,
`MaxVersion`, `MaxSeq`, `MaxRecordings`, `MaxSessions`, `MaxTokens`, `MaxRoles`,
`MaxTime`, `MaxUtterances`, `MaxRows`, `MaxWords`, and the sizes of the
row sets `Transcript`, `Report`, `IndexReport` and `Upload`. Definitions under a
comment `Mutant:` are plausible bugs; putting one in the place of the definition
that follows it must violate a property.

## 3. Correspondence to the code

*Outbox.* `SelectBatch` is the candidate query of `process_batch`, `LeaseBatch`
the unconditional UPDATE, `ReloadEvent` the session per event, `DispatchSucceeds`
and `DispatchFails` the awaited XADD (which may be received although it raises),
`CommitDelivered` and `CommitFailed` the flush. SQLAlchemy writes a column only
when the value assigned differs from the loaded one, so `Flushed` and
`ReleasedLease` compare with `snap`: that is where replicas mix. Time is in
ticks to the end of a lease; `lease_locked_until < now` never matches NULL.

*Workers.* `HasTranscript`, `SeenCompleted`/`SeenUnfinished` and
`SeenIndexed`/`SeenUnfinished` are the idempotency queries. The last two
load one row without an order, hence a choice. So does `run_indexing`: it asks for
the first transcript of the meeting, not for the one its report is of, and
`LoadArtifacts` takes any of `LoadedTranscripts`. One that is still being
transcribed, or Failed, has no utterances (`Uttered`: they are saved in the
transaction that announces the transcript). Each `update_status` is a step. `Fail`
is the `except` branch with its own transaction, `Crash` what no handler sees.
`IntegrationWorker` keeps the loop's order (`turn`): an exception in the inbound
half skips the outbound half, for the jobs of all workspaces. `subject` is the
meeting in an event's payload and `ConfigsOf` its workspace's configurations, which
an administrator switches at any time (`SwitchConfig`, no code of the repository;
the first time on is also how one comes to exist). `Redeliver` is what an
overlapping dispatcher's flush does to a consumed event. `SendEnds` has the outcomes the worker can tell
apart; a refused send is an HTTP error status, which the adapter returns.

*Recordings.* `Fresh` is `version_id_col`: it guards UPDATEs of the meeting's row
only. A second start changes no column and so compares nothing (`CommitStart`).
`MediaIngestion`'s stages follow `process_chunk` await by await: object, session
hash, checksum, second session hash, listing, reads, deletion, Recording with
its event, purge. `HashOf` writes the whole hash from the request's copy.

*Sessions.* A request reads its row in `PresentToken` or `BeginLogin`; `Rotate`,
`RevokeFamily`, `RevokeOldest` and `IssueSession` are the transactions that
follow, with no condition on what they overwrite. Login commits the oldest row's
end with its audit log before the new row; OAuth login commits both at once. Rows
are ordered by commit where the code orders by the time of creation. `ended` and
`overlapped` are not in the code: they remember families that were ended,
and those with two requests under way together. The audit rows and devices are
left out.

*Accounts.* Registrations are numbered as they begin, and a password is known by
the number of the registration that brought it, so `invitation[i].token =
user.password` says that a verification link and a password came together.
`CreateAccount` is refused by the unique e-mail; `RenewAccount` and `Activate` write
over whatever is there by then. `OpenSession` picks any workspace because the query
for the membership has no order. `overtaken` remembers that a writer began while
another was under way. The invitation's foreign key is satisfied (section 6).

*Permissions and limiter.* Every Redis call of `core/iam.py` is a step: a look-up is
`Exists` then `Members`, a fill `DeleteKey`, `AddMembers`, `SetExpiry`. The set is
known by the roles whose permissions it holds, since overlapping fills mix. `torn`,
`cut` and `raced` remember what excuses a wrong answer. `core/rate_limiter.py`
sends one pipeline, a transaction: `Count` is one step, after the clock was read in
`Arrive`. `Live` is the expiry of the whole set.

*Search.* `Windows`, `Fused`, `Reranked`, `Cited` and `Results` are the computations of
`run_indexing`, `_reciprocal_rank_fusion`, `rerank` and the loop of
`search_workspace`, on fractions where the code has floats. A ranking is a
function from rows to places. `Sorted` says what Python's stable sort does: the place of a
row is one more than the number of rows ahead of it, those with a higher score or
an equal one and an earlier place before.

## 4. Runs

| run | module | distinct states | asks |
|---|---|---|---|
| `outbox_single` | MCOutboxDispatcher | 9 thousand | type; limit exact; settled is final; implements `EventDelivery`; everything settles |
| `outbox_replicas` | MCOutboxDispatcher | 224 thousand | two replicas: published before marked; nothing stranded |
| `outbox_stranded` | MCOutboxDispatcher | violation | three replicas: a row is stranded |
| `pipeline` | MCPipeline | 367 thousand | one worker per stage: no duplicate, no mixed index, everything consumed and indexed; what is searched is cut and ranked as it should be |
| `pipeline_replicas` | MCPipeline | 4.0 million | two recordings of a meeting, two speech and two intelligence workers: no shared row; what is indexed can be traced back |
| `pipeline_competing` | MCPipeline | violation | with an integration worker: a meeting that is never indexed |
| `speech_retry` | SpeechWorker | violation | a failed transcription is not retried |
| `indexing_lost` | IndexingWorker | violation | consumed, yet nothing to search |
| `integration` | MCIntegrationWorker | 368 thousand | two events, two workspaces: routing; honest outcomes; implements `JobDelivery`, so the limit is exact and an accepted job is not sent again; jobs end |
| `integration_refused` | MCIntegrationWorker | violation | a 4xx or 5xx answer is recorded as Delivered |
| `recordings` | MCRecordings | 6.1 million | meeting and media requests together |
| `identity` | Identity | 3.7 million | sessions: rotation, replay, logout, limit, deaths; account: overlapping registrations, verifications, links; permissions: torn reads, mixed fills; limiter: the window's bound |

Why the bounds are enough for what is asked:

- *Outbox.* Two events make batches that are interrupted half-way and rows of
  one batch in different states. Two replicas give every overlap of two loops; the
  third, needed for stranding, has a run of its own with one event. A lease of one
  tick can run out at every step, and `MaxRetries` 2 separates the last failure
  from the ones before. `CopyCap` 1 tells published from not. One death and one or
  two outages fall at every step.
- *Pipeline.* In `pipeline` one meeting and recording, with two transcripts and three
  reports of each later kind, allow for a failed, a killed and a good run. The
  failure, the death and the redelivery fall in any stage. In `pipeline_replicas`
  the meeting has two recordings, which two workers per stage transcribe and report at
  once: the index run that follows can find the other transcript, finished or
  not, and one of the reports has nothing to chunk but utterances (`Bare`). Nothing
  fails or dies there; `RunsKeepTheirRows` and `IndexTracesBack` prove both properties
  with failures and deaths and for any number of recordings and meetings.
- *Integration.* Two events of any two meetings, whose workspaces have one
  configuration and two with the same provider (`Spare`): an event that clashes while
  jobs of the other are open, and one that does not. Configurations begin in any
  position and one is switched at any step, before or after a redelivery; two faults
  reach the limit of two, and one death falls at every step. `NoProviderIsForgotten`
  and `JobPromiseIsKept` have no such bounds.
- *Recordings.* Two requests at a time are enough to overtake and overwrite each
  other; two chunks have a first and a final one, two payloads a right and a wrong
  one; two recordings show a session merged twice. One fault is an expiry, an
  exception or a death, at every step. Versions up to 3 cover
  create, start and end with one concurrent loser.
- *Identity.* Four sessions hold two families or a chain of three refreshes
  with a fork, and exceed `Limit` 2. Three registrations are a first one, a renewal
  and one that overtakes it. Three permission checks let two fills overlap while a
  third reads; two roles have an earlier and a later one; one outage cuts a fill at
  any call. Two requests on their way to Redis overtake each other; nearly three
  windows of three ticks let requests fall out of the window and the key expire.
  The parts share no row and no key and each property is about one of
  them, so every part moves alone (`part`). Nothing is lost by it: `PromisesAreKept`
  proves the properties for the parts interleaved in any way.
- *Search.* Transcripts of up to 40 utterances pass the second window's end; three
  chunks have every ranking with ties, a search that is cut off by its limit and a
  chunk that deserves its place through words, parts of words or both rankings.
  `near` needs two values only, because equals may come in any order. `PassagesStayWhole`
  and `ResultsStayRanked` prove both properties for every size.

Deadlock is not checked: once the bounds are spent, or everything is settled, the system rightly
has nothing to do.

## 5. Fairness

A dispatcher's `start` and the workers' `start` are endless loops that
catch exceptions, sleep and go on, so `WF(Step(d))` and `WF(Work(w))` say only
that a running process keeps running. `WF(Tick)` says that time passes,
`WF(BrokerRecovers)` that an outage ends. `Pipeline` assumes weak fairness of the
deliveries between stages, which is what `outbox_single` shows of the dispatcher
(`EventuallySettled`) while the retry limit is not reached. Nothing obliges a
producer, a consumer of the outbox, a failure, a death or an administrator.
Liveness is checked with one worker per stage: `EventuallyConsumed`,
`EventuallyIndexed` and `EventuallyEnded` allow for the bounded failures and
deaths of the runs. `EventuallyEnded` is said of behaviours in which it is not for
ever that some event clashes (`<>[]~Blocked`): that is no fairness assumption but the
condition under which the code does send, since while an event clashes every
poll that meets it raises and sends nothing. Without it TLC shows the job that stays
Queued with nobody dead. The database and the queues do not promise strong fairness
and none is assumed. Note that nothing in the repository but the tests starts the
workers: the models say what they do once somebody runs them.

## 6. Findings

Each is a violation run with the sentence it contradicts in `PROJECT.json`.

1. `outbox_stranded`: one replica's late flush takes the lease from a row
   another has just re-leased; if that one dies, the row stays PROCESSING without
   a lease and no query returns it.
2. `speech_retry`: the next poll takes a Failed transcript for a finished one, so
   transcriptions are never retried and the dead-letter branch is unreachable.
3. `indexing_lost`: a rerun that stops between delete and insert leaves a meeting
   without chunks, and an older Indexed report lets the event be consumed.
4. `pipeline_competing`: indexing and integration share one status per event.
5. `integration_refused`: the webhook adapter raises on no status.

Seen while reading, outside the models or without a run:

- `services/identity.py:448` compares `expires_at`, a timezone-aware column, with
  the naive `utcnow()`. A database that returns aware times, as PostgreSQL does,
  makes every refresh of an unrevoked token raise; `RefreshTokens` describes a database
  that does not, like the SQLite of the tests. (Its safety holds for the other:
  a handler that raises is `Abandon` or no step.)
- The refresh cookie's path is `/api/v1/auth/refresh`, so browsers do not send it to
  the logout route; `DELETE /sessions/{id}` revokes, too.
- Two parallel refreshes of one token both succeed: ADR 002 calls tokens
  single-use and mentions only the false replay. The properties exempt families
  with overlapping requests, and nothing else.
- `RecordingUploadStatus` has no `Failed`, which an upload's error handler uses.
- The indexing worker loads the first transcript of the meeting
  (`indexing_worker.py:136`), whichever that is. A meeting with several recordings is
  indexed with the utterances of one of them, perhaps not the one the report is
  about, and with none if that one is unfinished or Failed; as the next
  report of an indexed meeting is consumed without a run, it stays so.
- An event with two active configurations of one provider cannot be committed
  (`integration_worker.py:112`). The loop's `except` then skips the outbound half, so one
  workspace's configurations keep the jobs of all workspaces from being sent, for as
  long as the worker's poll returns that event.
- RecordingUploaded, the event of whole uploads, has no consumer.
- The idempotency middleware looks for `/api/v1/meetings`; the router mounts
  `/api/v1/meeting`.
- The foreign key of `invitations.workspace_id` is given a random uuid at
  registration: a database that enforces it refuses every first registration.
  `Accounts` describes one that does not, like the SQLite of the tests.
- `verify_email` compares times like `rotate_refresh_token` does, with the same
  consequence.
- Linking an account that was never verified activates it without a workspace, and
  tokens without one are answered 401 wherever a permission is asked for. Two
  verifications at once give a user two workspaces, of which logins take any.
- The rate limiter runs before the middleware that sets the user, so the user's
  window is never consulted; it counts before it adds, so it admits one request
  more than its limit.
- A permission set that vanishes between EXISTS and SMEMBERS is read as one without
  permissions, and cached writes that overlap an invalidation bring an
  earlier role's permissions back for up to 15 minutes.
- From 63 chunks on, a chunk without any word of the query can come before one
  with parts of words: the first place of the vector search, 1 / 61, outweighs the last
  places of both, 1 / 122 + 1 / 123. `Deserves` states this clause for up to 62.
- `search_workspace` tests its limit after adding a result, so a limit of 0 gives
  one. Only tests call it. The last window of a transcript may lie inside the one
  before it.
- Each process signs with a key of its own, so replicas refuse each other's
  access tokens.
- `list_objects_v2` returns at most 1000 keys: longer sessions cannot be merged.

## 7. What is proved

By TLAPS, for every set of events, requests and workers and every number, from the
constants' named assumptions (`NumbersAssumption`, `NoneAssumption`,
`RefreshTokensAssumption`, `AccountsAssumption`, `PermissionCacheAssumption`,
`RateLimiterAssumption`, `IntegrationAssumption`,
`PipelineAssumption`, which is `ConstantsOK` of the four workers and a meeting for each
recording, and `RecordingsAssumption`, which is `ConstantsOK` of both parts;
`MeetingAggregate` and `KnowledgeSearch` need none):

- `OutboxDispatcherProofs`: `TypeCorrect` and `PublishBeforeMark`
  (`DeliveredWasPublished`). The invariant adds that a dispatcher between the
  reload and the flush has a row in hand, and that one that has been told of a
  publish has its row on the stream. Copies never
  decrease, and only a flush after a publish assigns DELIVERED.
  For any events but a single dispatcher, which the theorems say as `Dispatcher =
  {d}`: `DeadLetterIsExact`, `NoRowIsStranded`, `SettlementIsFinal` and
  `PromiseIsKept`, the refinement of `EventDelivery`. Alone, a dispatcher finds at its
  flush the row as it loaded it, because a row of its batch stays PROCESSING and
  leased until its own flush or death. With several this is false, which is what
  `outbox_stranded` shows.
- `MeetingAggregateProofs`: `EndIsFinal` (`EndedIffAnnounced`) and
  `UploadsAreComplete` (`VerifiedIsComplete`). The first is not inductive:
  a start with a copy from before the end would bring the meeting back. `CopiesOK`
  says that no copy is newer than the row and that a copy with the row's version
  is the row; whoever changes the row makes all other copies old. `StartIsAnnounced`
  is used below.
- `MediaIngestionProofs`: `RecordingsAreWhole` and `ClosingIsNotForgotten` hold however
  requests overlap. `ReadsOK` counts what a merge has read in each stage; `ClosedOK`
  says that a closed session is in the hands of a merge, recorded, or was hit by
  a fault. `AnsweredAreRecorded` is about sessions whose requests do not
  overlap, and needs to know what the one request may rely on in each stage
  (`HandlerOK`): whatever was answered, or has a checksum, is stored as it was sent
  and numbered before the next expected chunk, until the merge has read it all.
  An expired key only takes facts away. One lemma per stage shows that it hands
  over what the next one relies on.
- `RecordingsProofs`: `ImplementsAggregate` and `ImplementsMedia`: each step of
  the composition is a step of one part and leaves the other alone. Hence
  `EndIsFinal`, `UploadsAreComplete`, `RecordingsAreWhole`, `AnsweredAreRecorded`,
  `ClosingIsNotForgotten` and `TypeCorrect` of the composition, cited from the
  parts' proofs through INSTANCEs. `StreamsAreOfStarted` needs both parts: nothing
  happens to a session that was not opened (`OnlyOpened`), and one is opened only
  while the meeting is Recording, hence announced as started.
- `IdentityProofs`, sessions: `TypeCorrect`, `UsedAreReplaced` (`UsedHasSuccessor`),
  `TokensAreSingleUse` (`OneUsablePerFamily`), `EndIsFinal` (`EndedHasNone`). The
  last two support each other: `RequestsOK` says that two requests in one family
  are known to overlap, and that a refresh alone in its family holds the only row
  that can still be usable, of a family that has not ended. Every step either
  shrinks the table (`ShrinkStep`) or adds a row (`GrowStep`); the actions
  are reduced to these two.
- `IdentityProofs`, permissions: `RefusalsAreTorn` (`RefusedWasTorn`), `SetsExpire`
  (`KeptSetExpires`) and `RolesAreCurrent` (`OldRoleWasRaced`). Refusals are
  decided at SMEMBERS, so `TornOK` carries the fact from the step that removed the
  set: whoever is between the two calls while there is no set is torn. `RaceOK` is the
  inductive form of the third: until an invalidation fails or is overtaken, no writer
  holds an earlier role, and none is stored.
- `IdentityProofs`, limiter: `WindowsAreBounded` (`WindowIsBounded`), for any limit,
  window and delay. The bound follows at the step that admits a request: it counted all
  those of its window that are not late, because they are still in the set. That
  they are is `CountedOK`: a request leaves the set, by the cut of a later one or
  the expiry of the key, only when no request on its way can need it. `TimesOK` says that
  times are taken in order, by one request each.
- `IdentityProofs`, together: `PartsAreImplemented`, every behaviour of `Identity` is one
  of each part; `PromisesAreKept`, all ten properties hold of the parts running
  at the same time, in any interleaving; hence `IdentityKeepsPromises` and
  `IdentityTypeCorrect`.
- `AccountsProofs`: `AccountTypeCorrect`, `NobodyIsLockedOut` (`WaitingIsVerifiable`),
  `PasswordIsTheVerifiedOne` (`VerifiedItsPassword`) and `WorkspaceIsUnique`
  (`SessionsShareWorkspace`). `WaitingOK` says that a waiting account has one row,
  and that every renewal has it in hand; so whoever commits last writes both the
  password and that row's token. `InTurn` is what holds until a writer overtakes
  another: one writer, one row, and nothing pending once there is a workspace.
- `IntegrationWorkerProofs`: `TypeCorrect` (`TypeOK`) and `NoProviderIsForgotten`
  (`ConsumedIsRouted`) for any workers, events and workspaces: jobs are never removed
  (`JobsRemain`), only missing ones are queued (`OnlyMissing`), and those an event
  has stay one per provider and of its workspace (`JobsFit`); `RetryLimitIsExact` (`AttemptsExact`),
  `OutcomesAreHonest` (`OutcomeIsHonest`) and `JobPromiseIsKept`, the refinement of
  `JobDelivery` (`JobsKeepPromise`), for a single one, which alone writes the
  job it has claimed. The invariant of all three, `LoneInv`, says of the job in hand
  that it is Dispatching from the claim on, has an attempt left, and is accepted only
  when its send was answered; and of a job that may still be sent that it was
  not accepted. For the refinement, queueing is `Accept` of all jobs of an event, the
  claim is a stutter, an arriving payload is `Reach`, and what is recorded is `Close`,
  `Retry`, `GiveUp` or `Cancel`; a worker that dies leaves the promise where it was.
- `PipelineProofs`: `TypeCorrect`, `RunsKeepTheirRows` (`RunsOwnTheirRows`) and
  `IndexTracesBack` (`IndexIsTraceable`) for any workers in each stage. A new row is
  one that was absent, and rows in the hands of a run are not; a run holds an event
  that has arrived, and an event that has arrived is of a row that was announced
  (`SpeechTraced`, `IntelligenceTraced`, `IndexingTraced`). Once a report is
  announced, what it came from does not change (`OriginIsFinal`), so the meeting named
  in the payload stays the right one. `IndexingBased` says of an index report past its
  loads that its utterances are of an announced transcript of its meeting, and of
  its report's own unless that has none or the meeting has another; announced
  transcripts and their recordings stay what they are (`ArrivedStays`,
  `TranscriptsStay`). The integration workers' types are cited from
  `IntegrationWorkerProofs`.
  For a single worker in the stage, which the theorems say as `SpeechWorkers = {w}`
  and the like, and any workers in the others: `OneTranscript`
  (`OneTranscriptPerRecording`), `ConsumedIsReported` (`ConsumedHasReport`) and
  `OneRunIsStored` (`OneRunStored`). Nothing comes between that worker's poll
  and its writes: the recording it claimed has no row until it creates one, the event
  of its run is still DELIVERED, and the meeting is empty between delete and insert.

- `PipelineProofs`, the chunks: `PassagesStayWhole` (`PassagesAreWhole`) for transcripts
  of any length. Windows begin at multiples of twelve; the one of the last
  multiple up to an utterance has the utterances that follow closely, and an utterance can only
  be in that one and the one before.
  `ResultsStayRanked` (`ResultsAreRanked`) for tables of any size, queries of any
  length and any limit. `SortedInOrder` says of a stable sort that it orders the rows,
  each in a place of its own. A fused score is at most 2 / 61 (`ScoreIsSmall`),
  which the 0.15 of one word exceeds even after rounding (`BoostIsBounded`); between
  rows with as many words rounding may make scores equal, but does not swap them
  (`BoostIsMonotone`), and equals keep the order of the fusion. A row that is ahead
  in both rankings has the larger sum (`AheadInBoth`); one that is in both, and another
  only in the second, is ahead of it as long as there are 62 rows at most
  (`HitIsAhead`). Every place up to the number of cited rows is taken, so room is left only
  when all are found (`ResultsInOrder`).

The theorems state every invariant and safety property that a passing run checks. Only
model-checked: liveness, which is out of the prover's reach. With more workers in a stage
`OneTranscript`, `ConsumedIsReported` and `OneRunIsStored` are false, as the hazards
say; `AttemptsExact`, `OutcomeIsHonest` and `JobsKeepPromise` are proved for one
integration worker. The run checks the first as a part of `JobsKeepPromise`. What Python's floats do to a sum of two fractions is not modelled.

## 8. Not modelled

- `revoke_all_sessions`, `archive_meeting` and `soft_delete`, which nothing calls.
- The idempotency middleware: it acts on paths that contain `/api/v1/meetings`, and
  no route has one.
- The middleware that binds a token's claims and the flush hook that compares
  workspaces: they keep no state between requests.
- Signing keys, hashing, tracing, metrics, configuration, schemas, health: no
  protocol state.
- Speech recognition, diarization, extraction and gating of reports, embeddings:
  computations on data; their success or failure is an input of the workers.
  `_assign_speakers_to_segments` is a search for a maximum, which a property could
  only repeat.
- Migrations, seed data, the web frontend, the browser extension.

## 9. Plan

In the order of what the system would lose. Done: outbox, pipeline, recordings,
sessions, accounts, permissions, limiter, search.

Modules still to come:

1. A client of `MediaIngestion` that retries, for liveness: when can a session
   still be finished?
2. `IntegrationWorker` with two workers, to show what a second one may send twice.
3. The idempotency middleware, once it is mounted where its routes are.

Abstract specifications: a transcription job (accepted, running, done or given up)
for the speech worker, and an upload (open, whole, lost) for a media session.

Runs: parallel refreshes that fork a family, in the place of a
smaller violation run; a login limit with overlapping logins.

Theorems: what a second integration worker can and cannot do twice; the refinements of
the two abstract specifications above.
