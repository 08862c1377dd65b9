-------------------------- MODULE IntegrationWorker --------------------------
(***************************************************************************)
(* The integration workers of app/workers/integration_worker.py with the   *)
(* adapters of app/services/integrations.py.  One loop alternates between  *)
(* turning a DELIVERED MeetingIntelligenceReady event into jobs, one per   *)
(* active configuration, and sending one job to its provider.  A job is    *)
(* committed as Dispatching before the awaited send and gets its outcome   *)
(* in another transaction afterwards.                                      *)
(***************************************************************************)
EXTENDS Naturals

CONSTANTS
  Report,           \* intelligence reports; one MeetingIntelligenceReady each
  Meeting,
  Config,           \* integration configurations of all workspaces
  ConfigsOf,        \* [Meeting -> configurations of the meeting's workspace]
  Provider,         \* [Config -> providers]
  Worker,           \* running IntegrationWorker instances
  MaxRetries,       \* MAX_RETRIES
  PostCap,          \* bound: posts received are counted exactly below this
  MaxFaults,        \* bound: sends that do not end with a 2xx answer
  MaxCrashes,       \* bound: worker deaths, all together
  MaxChanges,       \* bound: configurations that are switched off or on
  MaxRedeliveries,  \* bound: consumed events that are reopened
  None              \* no job, no meeting

\* What the constants may be; Pipeline assumes it of its instance, too.
ConstantsOK ==
  /\ MaxRetries \in Nat \ {0}
  /\ PostCap \in Nat \ {0}
  /\ MaxFaults \in Nat
  /\ MaxCrashes \in Nat
  /\ MaxChanges \in Nat
  /\ MaxRedeliveries \in Nat
  /\ ConfigsOf \in [Meeting -> SUBSET Config]
  /\ None \notin Report \X Config

ASSUME IntegrationAssumption == ConstantsOK

VARIABLES
  inbox,     \* inbox[p]: status of p's event, as workers see it
  subject,   \* subject[p]: meeting_id in the payload of p's event
  active,    \* configurations with is_active
  job,       \* job[j]: row of job j = <<report, configuration>>
  posts,     \* posts[j]: how often the provider received j's payload
  accepted,  \* jobs the provider has answered with a 2xx status
  turn,      \* turn[w]: which half of the loop w runs next
  task,      \* task[w]: job w has selected
  send,      \* send[w]: how far w is with that job
  faults,
  changes,
  crashes,
  redeliveries

Job == Report \X Config
event == <<inbox, subject>>
config == <<active, changes>>
run == <<turn, task, send>>
far == <<posts, accepted>>
vars == <<event, config, job, far, run, faults, crashes, redeliveries>>

JobStatus ==
  {"absent", "Queued", "Dispatching", "Delivered", "Retrying", "DeadLetter",
   "Cancelled"}

\* Ways a dispatch ends, as far as the worker can tell: a 2xx answer, another
\* answer, a network error or timeout, an error the adapter raises by itself.
Outcome == {"answered", "refused", "unreachable", "invalid"}

TypeOK ==
  /\ inbox \in [Report -> {"absent", "DELIVERED", "CONSUMED"}]
  /\ subject \in [Report -> Meeting \union {None}]
  /\ active \subseteq Config
  /\ job \in [Job -> [status : JobStatus, attempts : Nat]]
  /\ posts \in [Job -> 0..PostCap]
  /\ accepted \subseteq Job
  /\ turn \in [Worker -> {"inbound", "outbound", "backoff"}]
  /\ task \in [Worker -> Job \union {None}]
  /\ send \in [Worker -> {"idle", "selected", "claimed", "sending"} \union Outcome]
  /\ faults \in 0..MaxFaults
  /\ changes \in 0..MaxChanges
  /\ crashes \in 0..MaxCrashes
  /\ redeliveries \in 0..MaxRedeliveries

\* The jobs and workers of this component, before the first event.
InitRun ==
  /\ active \in SUBSET Config
  /\ job = [j \in Job |-> [status |-> "absent", attempts |-> 0]]
  /\ posts = [j \in Job |-> 0]
  /\ accepted = {}
  /\ turn = [w \in Worker |-> "inbound"]
  /\ task = [w \in Worker |-> None]
  /\ send = [w \in Worker |-> "idle"]
  /\ faults = 0
  /\ changes = 0

Init ==
  /\ inbox = [p \in Report |-> "absent"]
  /\ subject = [p \in Report |-> None]
  /\ InitRun
  /\ crashes = 0
  /\ redeliveries = 0

\* The dispatcher commits DELIVERED for the event of p, a report of m.
Deliver(p, m) ==
  /\ inbox[p] = "absent"
  /\ inbox' = [inbox EXCEPT ![p] = "DELIVERED"]
  /\ subject' = [subject EXCEPT ![p] = m]
  /\ UNCHANGED <<job, faults, crashes, redeliveries>>
  /\ UNCHANGED config
  /\ UNCHANGED far
  /\ UNCHANGED run

\* An overlapping dispatcher reopens the event.
Redeliver(p) ==
  /\ inbox[p] = "CONSUMED"
  /\ redeliveries < MaxRedeliveries
  /\ redeliveries' = redeliveries + 1
  /\ inbox' = [inbox EXCEPT ![p] = "DELIVERED"]
  /\ UNCHANGED <<subject, job, faults, crashes>>
  /\ UNCHANGED config
  /\ UNCHANGED far
  /\ UNCHANGED run

\* An administrator switches a configuration off, or on; the first time on is
\* also how one comes to exist.
SwitchConfig(c) ==
  /\ changes < MaxChanges
  /\ changes' = changes + 1
  /\ active' = IF c \in active THEN active \ {c} ELSE active \union {c}
  /\ UNCHANGED <<job, faults, crashes>>
  /\ UNCHANGED event
  /\ UNCHANGED far
  /\ UNCHANGED run

-----------------------------------------------------------------------------
(* poll_and_process_inbound.                                               *)

\* The idempotency key of j leaves the configuration out, but its provider.
SameKey(j, k) == j[1] = k[1] /\ Provider[j[2]] = Provider[k[2]]

\* `configs': the active ones of the meeting's workspace.
Routable(p) == active \intersect ConfigsOf[subject[p]]

\* Mutant: the loop over the configurations ends after the first.
MissingFirst(p) ==
  {c \in Routable(p) : c = CHOOSE d \in Routable(p) : TRUE}

\* Configurations for which the duplicate check finds no job.
Missing(p) ==
  {c \in Routable(p) : \A j \in Job :
     job[j].status # "absent" => ~SameKey(j, <<p, c>>)}

\* Two rows with one key in a transaction: the duplicate check does not see
\* rows that are not flushed, and the unique constraint raises at the commit.
Clash(p) ==
  \E c, d \in Missing(p) : c # d /\ SameKey(<<p, c>>, <<p, d>>)

\* All missing jobs are queued and the event is consumed in one transaction.
Enqueue(w, p) ==
  /\ turn[w] = "inbound"
  /\ inbox[p] = "DELIVERED"
  /\ ~Clash(p)
  /\ job' = [j \in Job |->
       IF j[1] = p /\ j[2] \in Missing(p) THEN [job[j] EXCEPT !.status = "Queued"]
       ELSE job[j]]
  /\ inbox' = [inbox EXCEPT ![p] = "CONSUMED"]
  /\ turn' = [turn EXCEPT ![w] = "outbound"]
  /\ UNCHANGED <<subject, task, send, faults, crashes>>
  /\ UNCHANGED config
  /\ UNCHANGED far

\* The commit raises; start() skips the outbound half and sleeps.
EnqueueRaises(w, p) ==
  /\ turn[w] = "inbound"
  /\ inbox[p] = "DELIVERED"
  /\ Clash(p)
  /\ turn' = [turn EXCEPT ![w] = "backoff"]
  /\ UNCHANGED <<job, task, send, faults, crashes>>
  /\ UNCHANGED event
  /\ UNCHANGED config
  /\ UNCHANGED far

WakeUp(w) ==
  /\ turn[w] = "backoff"
  /\ turn' = [turn EXCEPT ![w] = "inbound"]
  /\ UNCHANGED <<job, task, send, faults, crashes>>
  /\ UNCHANGED event
  /\ UNCHANGED config
  /\ UNCHANGED far

\* Nothing to turn into jobs.
NoEvent(w) ==
  /\ turn[w] = "inbound"
  /\ \A p \in Report : inbox[p] # "DELIVERED"
  /\ turn' = [turn EXCEPT ![w] = "outbound"]
  /\ UNCHANGED <<job, task, send, faults, crashes>>
  /\ UNCHANGED event
  /\ UNCHANGED config
  /\ UNCHANGED far

-----------------------------------------------------------------------------
(* poll_and_process_outbound.                                              *)

\* Mutant: jobs that failed before are not looked at again.
OpenQueuedOnly == {j \in Job : job[j].status = "Queued"}

\* Jobs the query returns; a Retrying job is eligible at once.
Open == {j \in Job : job[j].status \in {"Queued", "Retrying"}}

\* The SELECT takes no row lock.
SelectJob(w) ==
  /\ turn[w] = "outbound"
  /\ task[w] = None
  /\ \E j \in Open : task' = [task EXCEPT ![w] = j]
  /\ send' = [send EXCEPT ![w] = "selected"]
  /\ UNCHANGED <<job, turn, faults, crashes>>
  /\ UNCHANGED event
  /\ UNCHANGED config
  /\ UNCHANGED far

\* Nothing to send: the loop starts over.
NoJob(w) ==
  /\ turn[w] = "outbound"
  /\ task[w] = None
  /\ Open = {}
  /\ turn' = [turn EXCEPT ![w] = "inbound"]
  /\ UNCHANGED <<job, task, send, faults, crashes>>
  /\ UNCHANGED event
  /\ UNCHANGED config
  /\ UNCHANGED far

\* The row of w's job after this transaction, attempts more included.
SetJob(w, status, more) ==
  job' = [job EXCEPT ![task[w]] =
            [status |-> status, attempts |-> @.attempts + more]]

ClaimJob(w) ==
  /\ send[w] = "selected"
  /\ SetJob(w, "Dispatching", 0)
  /\ send' = [send EXCEPT ![w] = "claimed"]
  /\ UNCHANGED <<turn, task, faults, crashes>>
  /\ UNCHANGED event
  /\ UNCHANGED config
  /\ UNCHANGED far

\* The loop starts over without a job.
Release(w) ==
  /\ turn' = [turn EXCEPT ![w] = "inbound"]
  /\ task' = [task EXCEPT ![w] = None]
  /\ send' = [send EXCEPT ![w] = "idle"]

\* The configuration has been switched off since the job was queued.
CancelJob(w) ==
  /\ send[w] = "claimed"
  /\ task[w][2] \notin active
  /\ SetJob(w, "Cancelled", 0)
  /\ Release(w)
  /\ UNCHANGED <<faults, crashes>>
  /\ UNCHANGED event
  /\ UNCHANGED config
  /\ UNCHANGED far

\* The configuration is good; the session closes before the send is awaited.
StartSend(w) ==
  /\ send[w] = "claimed"
  /\ task[w][2] \in active
  /\ send' = [send EXCEPT ![w] = "sending"]
  /\ UNCHANGED <<job, turn, task, faults, crashes>>
  /\ UNCHANGED event
  /\ UNCHANGED config
  /\ UNCHANGED far

\* One more payload at the provider.
Received(j) == posts' = [posts EXCEPT ![j] = IF @ < PostCap THEN @ + 1 ELSE @]

\* The awaited send ends.  After a timeout the provider may have the payload;
\* an error of the adapter itself comes before it sends.
SendEnds(w, outcome) ==
  /\ send[w] = "sending"
  /\ IF outcome = "answered" THEN UNCHANGED faults
     ELSE faults < MaxFaults /\ faults' = faults + 1
  /\ \/ outcome \in {"answered", "refused", "unreachable"} /\ Received(task[w])
     \/ outcome \in {"unreachable", "invalid"} /\ UNCHANGED posts
  /\ accepted' = IF outcome = "answered" THEN accepted \union {task[w]} ELSE accepted
  /\ send' = [send EXCEPT ![w] = outcome]
  /\ UNCHANGED <<job, turn, task, crashes>>
  /\ UNCHANGED event
  /\ UNCHANGED config

\* The adapter returns whatever the HTTP status, and the job is Delivered.
RecordDelivered(w) ==
  /\ send[w] \in {"answered", "refused"}
  /\ SetJob(w, "Delivered", 1)
  /\ Release(w)
  /\ UNCHANGED <<faults, crashes>>
  /\ UNCHANGED event
  /\ UNCHANGED config
  /\ UNCHANGED far

\* That transaction raises: the handler of send errors does not know the
\* exception and takes it for a permanent failure.
RecordRaises(w) ==
  /\ send[w] \in {"answered", "refused"}
  /\ faults < MaxFaults
  /\ faults' = faults + 1
  /\ SetJob(w, "DeadLetter", 1)
  /\ Release(w)
  /\ UNCHANGED crashes
  /\ UNCHANGED event
  /\ UNCHANGED config
  /\ UNCHANGED far

\* Mutant: a status the column's users do not know.
FailedStatusUnknown(outcome, attempts) == "Failed"

\* Mutant: one attempt too many.
FailedStatusLate(outcome, attempts) ==
  IF outcome = "unreachable" /\ attempts < MaxRetries THEN "Retrying" ELSE "DeadLetter"

\* Mutant: a job that cannot be sent is closed as if it had been.
FailedStatusSilent(outcome, attempts) ==
  IF attempts + 1 < MaxRetries THEN "Retrying" ELSE "Delivered"

\* Where a failed attempt sends a job with this many attempts before it.
FailedStatus(outcome, attempts) ==
  IF outcome = "unreachable" /\ attempts + 1 < MaxRetries THEN "Retrying"
  ELSE "DeadLetter"

RecordFailed(w) ==
  /\ send[w] \in {"unreachable", "invalid"}
  /\ SetJob(w, FailedStatus(send[w], job[task[w]].attempts), 1)
  /\ Release(w)
  /\ UNCHANGED <<faults, crashes>>
  /\ UNCHANGED event
  /\ UNCHANGED config
  /\ UNCHANGED far

\* The process dies.
Crash(w) ==
  /\ task[w] # None
  /\ crashes < MaxCrashes
  /\ crashes' = crashes + 1
  /\ Release(w)
  /\ UNCHANGED <<job, faults>>
  /\ UNCHANGED event
  /\ UNCHANGED config
  /\ UNCHANGED far

-----------------------------------------------------------------------------

\* What worker w does of its own accord.
Work(w) ==
  \/ \E p \in Report : Enqueue(w, p) \/ EnqueueRaises(w, p)
  \/ WakeUp(w)
  \/ NoEvent(w)
  \/ SelectJob(w)
  \/ NoJob(w)
  \/ ClaimJob(w)
  \/ CancelJob(w)
  \/ StartSend(w)
  \/ \E outcome \in Outcome : SendEnds(w, outcome)
  \/ RecordDelivered(w)
  \/ RecordFailed(w)

\* Everything but the arrival of events.
WorkerStep ==
  \/ \E c \in Config : SwitchConfig(c)
  \/ \E w \in Worker : Work(w) \/ RecordRaises(w) \/ Crash(w)

Next ==
  \/ \E p \in Report : Redeliver(p) \/ \E m \in Meeting : Deliver(p, m)
  \/ WorkerStep /\ UNCHANGED redeliveries

Spec == Init /\ [][Next]_vars

\* start() loops for ever; nothing obliges a fault, a death or an
\* administrator.
FairSpec ==
  Spec /\ \A w \in Worker : WF_vars(Work(w) /\ UNCHANGED redeliveries)

-----------------------------------------------------------------------------
(* Properties.                                                             *)

Queued(p) == {j \in Job : j[1] = p /\ job[j].status # "absent"}

\* Every provider that is switched on in the meeting's workspace has a job for p,
\* none has two, and no other workspace has one.
Routed(p) ==
  /\ \A c \in Routable(p) : \E j \in Queued(p) : SameKey(j, <<p, c>>)
  /\ \A j, k \in Queued(p) : SameKey(j, k) => j = k
  /\ \A j \in Queued(p) : j[2] \in ConfigsOf[subject[p]]

\* An event is consumed only as routed, the first time and when it comes again:
\* whatever was switched off or on since, no provider is left out and none gets
\* a second job.
ConsumedIsRouted ==
  [][\A p \in Report :
       inbox[p] = "DELIVERED" /\ inbox'[p] = "CONSUMED" => Routed(p)']_vars

\* With one worker the retry limit is exact: a job waits for another attempt
\* only below the limit, and no attempt is made beyond it.
AttemptsExact ==
  \A j \in Job :
    /\ job[j].attempts <= MaxRetries
    /\ job[j].status = "Retrying" => job[j].attempts \in 1..(MaxRetries - 1)

\* A job never says Delivered unless the provider got the payload, and a
\* cancelled job was not accepted, whichever configurations are switched off.
OutcomeIsHonest ==
  \A j \in Job :
    /\ job[j].status = "Delivered" => posts[j] > 0
    /\ job[j].status = "Cancelled" => j \notin accepted

JobEnded == {"Delivered", "DeadLetter", "Cancelled"}

\* The event of some workspace makes every commit of the inbound half raise.
Blocked == \E p \in Report : inbox[p] = "DELIVERED" /\ Clash(p)

\* Every job comes to an end, and one failing provider does not hold up the
\* others' jobs for ever.  Two things can: the death of the worker that has the
\* job, which then stays Dispatching, and an event, of any workspace, that
\* clashes and goes on doing so.
EventuallyEnded ==
  <>[]~Blocked =>
    \A j \in Job : job[j].status = "Queued" ~>
      \/ job[j].status \in JobEnded
      \/ job[j].status = "Dispatching" /\ crashes > 0

-----------------------------------------------------------------------------
(* The promise kept by one worker: JobDelivery.                            *)

\* How far a job with this status has come, as the promise sees it.
Phase(s) ==
  CASE s = "absent" -> "new"
    [] s \in {"Queued", "Dispatching", "Retrying"} -> "open"
    [] s = "Delivered" -> "delivered"
    [] s = "DeadLetter" -> "dead"
    [] s = "Cancelled" -> "cancelled"

PhaseOf == [j \in Job |-> Phase(job[j].status)]
TriesOf == [j \in Job |-> job[j].attempts]
Reached == {j \in Job : posts[j] > 0}

Promise == INSTANCE JobDelivery WITH
  Job <- Job, Limit <- MaxRetries,
  phase <- PhaseOf, tries <- TriesOf, reached <- Reached, taken <- accepted

\* One worker delivers jobs as JobDelivery says, whenever it dies, whatever
\* the provider answers and whichever configurations are switched off: the
\* limit holds, an accepted job is not sent again, and a job is closed only
\* as what became of it.
JobsKeepPromise == Promise!Spec

-----------------------------------------------------------------------------

\* "HTTP Status 5xx Server Error" is retried and "HTTP Status 400" dead-
\* lettered: a Delivered job was accepted by its provider.
DeliveredWasAccepted ==
  \A j \in Job : job[j].status = "Delivered" => j \in accepted

=============================================================================
