-------------------------- MODULE OutboxDispatcher --------------------------
(***************************************************************************)
(* The transactional outbox of app/infrastructure/events.py: rows of       *)
(* outbox_events, the dispatcher loops that lease them, publish them to    *)
(* the Redis stream and record the outcome, and the poller that marks a    *)
(* delivered row CONSUMED.  Every API replica starts one dispatcher        *)
(* (main.py), so Dispatcher may have any number of members.                *)
(*                                                                         *)
(* Each database session is a step of its own: the candidate SELECT, the   *)
(* lease UPDATE, the reload of one row, the awaited publish, and the       *)
(* flush of the outcome.  Transactions run at READ COMMITTED, so another   *)
(* dispatcher may run between any two of them.                             *)
(***************************************************************************)
EXTENDS Naturals, FiniteSets

CONSTANTS
  Event,        \* outbox rows
  Dispatcher,   \* running OutboxDispatcherService instances
  BatchSize,    \* the LIMIT of the candidate query (50 in the code)
  LeaseTicks,   \* the lease duration in ticks of the clock (10 s in the code)
  MaxRetries,   \* failures after which a row is dead-lettered (5 in the code)
  RetryCap,     \* bound: no publish fails from a row with this many retries
  CopyCap,      \* bound: stream copies are counted exactly below this number
  MaxCrashes,   \* bound: how often dispatchers die, all together
  MaxOutages,   \* bound: how often Redis becomes unreachable
  None          \* no row, and the NULL of lease_locked_until

ASSUME NumbersAssumption ==
  /\ BatchSize \in Nat \ {0}
  /\ LeaseTicks \in Nat \ {0}
  /\ MaxRetries \in Nat \ {0}
  /\ RetryCap \in Nat
  /\ CopyCap \in Nat \ {0}
  /\ MaxCrashes \in Nat
  /\ MaxOutages \in Nat

ASSUME NoneAssumption == None \notin Event /\ None \notin Nat

VARIABLES
  status,    \* status[e]: the status column, or "ABSENT" before the INSERT
  retries,   \* retries[e]: the retry_count column
  lease,     \* lease[e]: ticks until lease_locked_until, 0 once passed; None = NULL
  copies,    \* copies[e]: entries of e in the Redis stream
  stage,     \* stage[d]: where dispatcher d is in process_batch
  batch,     \* batch[d]: event_ids still to be processed by d
  current,   \* current[d]: the row of d's open session
  snap,      \* snap[d]: that row as d's session loaded it
  window,    \* window[d]: ticks until d's locked_until = now + lease_duration
  brokerUp,  \* can Redis be reached?
  crashes,   \* dispatcher deaths so far
  outages    \* Redis outages so far

rows == <<status, retries, lease>>
workers == <<stage, batch, current, snap, window>>
world == <<brokerUp, crashes, outages>>
vars == <<status, retries, lease, copies, stage, batch, current, snap, window,
          brokerUp, crashes, outages>>

Statuses ==
  {"ABSENT", "PENDING", "PROCESSING", "DELIVERED", "DEAD_LETTER", "CONSUMED"}
Stages == {"idle", "selected", "leased", "loaded", "published", "failed"}
Leases == 0..LeaseTicks \union {None}
Snapshots == [status : Statuses, retries : Nat, leased : BOOLEAN]
NoSnapshot == [status |-> "ABSENT", retries |-> 0, leased |-> FALSE]

TypeOK ==
  /\ status \in [Event -> Statuses]
  /\ retries \in [Event -> Nat]
  /\ lease \in [Event -> Leases]
  /\ copies \in [Event -> 0..CopyCap]
  /\ stage \in [Dispatcher -> Stages]
  /\ batch \in [Dispatcher -> SUBSET Event]
  /\ current \in [Dispatcher -> Event \union {None}]
  /\ snap \in [Dispatcher -> Snapshots]
  /\ window \in [Dispatcher -> 0..LeaseTicks]
  /\ brokerUp \in BOOLEAN
  /\ crashes \in 0..MaxCrashes
  /\ outages \in 0..MaxOutages

Init ==
  /\ status = [e \in Event |-> "ABSENT"]
  /\ retries = [e \in Event |-> 0]
  /\ lease = [e \in Event |-> None]
  /\ copies = [e \in Event |-> 0]
  /\ stage = [d \in Dispatcher |-> "idle"]
  /\ batch = [d \in Dispatcher |-> {}]
  /\ current = [d \in Dispatcher |-> None]
  /\ snap = [d \in Dispatcher |-> NoSnapshot]
  /\ window = [d \in Dispatcher |-> 0]
  /\ brokerUp = TRUE
  /\ crashes = 0
  /\ outages = 0

-----------------------------------------------------------------------------
(* Producers and consumers of the table.                                   *)

\* enqueue_outbox_event, committed with the aggregate it describes.
Enqueue(e) ==
  /\ status[e] = "ABSENT"
  /\ status' = [status EXCEPT ![e] = "PENDING"]
  /\ UNCHANGED <<retries, lease, copies>>
  /\ UNCHANGED workers
  /\ UNCHANGED world

\* A worker's poll finds a delivered row it has nothing left to do for.
Consume(e) ==
  /\ status[e] = "DELIVERED"
  /\ status' = [status EXCEPT ![e] = "CONSUMED"]
  /\ UNCHANGED <<retries, lease, copies>>
  /\ UNCHANGED workers
  /\ UNCHANGED world

-----------------------------------------------------------------------------
(* OutboxDispatcherService.process_batch, one action per session or await. *)

\* Mutant: the lease column alone decides.
CandidateAnyUnleased(e) == status[e] # "ABSENT" /\ lease[e] \in {None, 0}

\* Mutant: leases are never recovered.
CandidatePendingOnly(e) == status[e] = "PENDING"

\* Rows the candidate query returns: lease_locked_until < now skips a NULL.
Candidate(e) ==
  \/ status[e] = "PENDING"
  \/ status[e] = "PROCESSING" /\ lease[e] = 0

\* One LIMITed, unordered batch of the candidates.
IsBatch(B) ==
  /\ B # {}
  /\ \A e \in B : Candidate(e)
  /\ \/ Cardinality(B) = BatchSize
     \/ Cardinality(B) < BatchSize /\ \A e \in Event : Candidate(e) => e \in B

\* The SELECT takes no row lock; now, and so locked_until, is fixed here.
SelectBatch(d) ==
  /\ stage[d] = "idle"
  /\ \E B \in SUBSET Event :
       /\ IsBatch(B)
       /\ batch' = [batch EXCEPT ![d] = B]
  /\ stage' = [stage EXCEPT ![d] = "selected"]
  /\ window' = [window EXCEPT ![d] = LeaseTicks]
  /\ UNCHANGED rows
  /\ UNCHANGED <<copies, current, snap>>
  /\ UNCHANGED world

\* Mutant: the lease is taken without an expiry.
LockedUntilMissing(d) == None

\* Mutant: the lease is extended beyond lease_duration.
LockedUntilLong(d) == window[d] + 1

\* locked_until, as ticks from the present.
LockedUntil(d) == window[d]

\* UPDATE ... WHERE id IN (event_ids): no condition on the status it replaces.
LeaseBatch(d) ==
  /\ stage[d] = "selected"
  /\ status' = [e \in Event |-> IF e \in batch[d] THEN "PROCESSING" ELSE status[e]]
  /\ lease' = [e \in Event |-> IF e \in batch[d] THEN LockedUntil(d) ELSE lease[e]]
  /\ stage' = [stage EXCEPT ![d] = "leased"]
  /\ UNCHANGED <<retries, copies, batch, current, snap, window>>
  /\ UNCHANGED world

\* The next id of the batch is loaded in a session of its own, whatever its
\* status has become.
ReloadEvent(d, e) ==
  /\ stage[d] = "leased"
  /\ e \in batch[d]
  /\ batch' = [batch EXCEPT ![d] = @ \ {e}]
  /\ current' = [current EXCEPT ![d] = e]
  /\ snap' = [snap EXCEPT ![d] = [status |-> status[e], retries |-> retries[e],
                                  leased |-> lease[e] # None]]
  /\ stage' = [stage EXCEPT ![d] = "loaded"]
  /\ UNCHANGED rows
  /\ UNCHANGED <<copies, window>>
  /\ UNCHANGED world

\* XADD of one more entry for e.
Bump(n) == IF n < CopyCap THEN n + 1 ELSE n

\* The awaited XADD returns.
DispatchSucceeds(d) ==
  /\ stage[d] = "loaded"
  /\ brokerUp
  /\ copies' = [copies EXCEPT ![current[d]] = Bump(@)]
  /\ stage' = [stage EXCEPT ![d] = "published"]
  /\ UNCHANGED rows
  /\ UNCHANGED <<batch, current, snap, window>>
  /\ UNCHANGED world

\* The awaited XADD raises; the entry may have been appended before the reply
\* was lost.
DispatchFails(d) ==
  /\ stage[d] = "loaded"
  /\ ~brokerUp
  /\ snap[d].retries < RetryCap
  /\ \/ copies' = copies
     \/ copies' = [copies EXCEPT ![current[d]] = Bump(@)]
  /\ stage' = [stage EXCEPT ![d] = "failed"]
  /\ UNCHANGED rows
  /\ UNCHANGED <<batch, current, snap, window>>
  /\ UNCHANGED world

\* The session is over: on with the batch, or back to the polling loop.
EndSession(d) ==
  /\ stage' = [stage EXCEPT ![d] = IF batch[d] = {} THEN "idle" ELSE "leased"]
  /\ current' = [current EXCEPT ![d] = None]
  /\ snap' = [snap EXCEPT ![d] = NoSnapshot]
  /\ window' = [window EXCEPT ![d] = IF batch[d] = {} THEN 0 ELSE @]
  /\ UNCHANGED <<copies, batch>>
  /\ UNCHANGED world

\* A flush writes a column only if the value assigned to the attribute differs
\* from the value the session loaded.
Flushed(stored, loaded, assigned) == IF assigned = loaded THEN stored ELSE assigned

\* lease_locked_until = None, flushed.
ReleasedLease(d) == IF snap[d].leased THEN None ELSE lease[current[d]]

\* status = DELIVERED, committed.
CommitDelivered(d) ==
  /\ stage[d] = "published"
  /\ status' = [status EXCEPT ![current[d]] =
                  Flushed(@, snap[d].status, "DELIVERED")]
  /\ lease' = [lease EXCEPT ![current[d]] = ReleasedLease(d)]
  /\ UNCHANGED retries
  /\ EndSession(d)

\* Mutant: one attempt too many.
FailedStatusLate(loaded) ==
  IF loaded >= MaxRetries THEN "DEAD_LETTER" ELSE "PENDING"

\* Mutant: the row that cannot be published is closed as if it had been.
FailedStatusSilent(loaded) ==
  IF loaded + 1 >= MaxRetries THEN "DELIVERED" ELSE "PENDING"

\* Where a failed attempt sends a row that had this many retries when loaded.
FailedStatus(loaded) ==
  IF loaded + 1 >= MaxRetries THEN "DEAD_LETTER" ELSE "PENDING"

\* retry_count += 1 on the loaded value, and DEAD_LETTER or back to PENDING.
CommitFailed(d) ==
  /\ stage[d] = "failed"
  /\ retries' = [retries EXCEPT ![current[d]] = snap[d].retries + 1]
  /\ status' = [status EXCEPT ![current[d]] =
                  Flushed(@, snap[d].status, FailedStatus(snap[d].retries))]
  /\ lease' = [lease EXCEPT ![current[d]] = ReleasedLease(d)]
  /\ EndSession(d)

-----------------------------------------------------------------------------
(* The environment: dispatcher deaths, the clock, Redis.                   *)

\* The process dies, or start() catches an exception of the database: the
\* open session rolls back and the rest of the batch is forgotten.
Crash(d) ==
  /\ stage[d] # "idle"
  /\ crashes < MaxCrashes
  /\ crashes' = crashes + 1
  /\ stage' = [stage EXCEPT ![d] = "idle"]
  /\ batch' = [batch EXCEPT ![d] = {}]
  /\ current' = [current EXCEPT ![d] = None]
  /\ snap' = [snap EXCEPT ![d] = NoSnapshot]
  /\ window' = [window EXCEPT ![d] = 0]
  /\ UNCHANGED rows
  /\ UNCHANGED <<copies, brokerUp, outages>>

\* One tick closer, never past zero.
Sooner(n) == IF n = None \/ n = 0 THEN n ELSE n - 1

\* Clock.now() advances by one tick.
Tick ==
  /\ \/ \E e \in Event : lease[e] \notin {None, 0}
     \/ \E d \in Dispatcher : window[d] # 0
  /\ lease' = [e \in Event |-> Sooner(lease[e])]
  /\ window' = [d \in Dispatcher |-> Sooner(window[d])]
  /\ UNCHANGED <<status, retries, copies, stage, batch, current, snap>>
  /\ UNCHANGED world

BrokerFails ==
  /\ brokerUp
  /\ outages < MaxOutages
  /\ brokerUp' = FALSE
  /\ outages' = outages + 1
  /\ UNCHANGED rows
  /\ UNCHANGED workers
  /\ UNCHANGED <<copies, crashes>>

BrokerRecovers ==
  /\ ~brokerUp
  /\ brokerUp' = TRUE
  /\ UNCHANGED rows
  /\ UNCHANGED workers
  /\ UNCHANGED <<copies, crashes, outages>>

-----------------------------------------------------------------------------

Step(d) ==
  \/ SelectBatch(d)
  \/ LeaseBatch(d)
  \/ \E e \in Event : ReloadEvent(d, e)
  \/ DispatchSucceeds(d)
  \/ DispatchFails(d)
  \/ CommitDelivered(d)
  \/ CommitFailed(d)

Next ==
  \/ \E e \in Event : Enqueue(e) \/ Consume(e)
  \/ \E d \in Dispatcher : Step(d) \/ Crash(d)
  \/ Tick
  \/ BrokerFails
  \/ BrokerRecovers

Spec == Init /\ [][Next]_vars

(* Every dispatcher that is running keeps looping (start), time passes and *)
(* an outage ends.  Nothing obliges a producer, a consumer, a crash or an  *)
(* outage to happen.                                                       *)
Fairness ==
  /\ \A d \in Dispatcher : WF_vars(Step(d))
  /\ WF_vars(Tick)
  /\ WF_vars(BrokerRecovers)

FairSpec == Spec /\ Fairness

-----------------------------------------------------------------------------
(* Properties.                                                             *)

\* A row says DELIVERED, or was taken as such by a consumer, only if at least
\* one entry for it reached the stream, however dispatchers overlap, die or
\* overwrite each other's outcome: process_batch publishes before it marks.
DeliveredWasPublished ==
  \A e \in Event : status[e] \in {"DELIVERED", "CONSUMED"} => copies[e] > 0

\* Rows a dispatcher has leased and not finished with.
Held(d) ==
  IF stage[d] \in {"idle", "selected"} THEN {}
  ELSE batch[d] \union ({current[d]} \ {None})

\* No row is stranded: PROCESSING with a NULL lease matches neither arm of the
\* candidate query, so such a row needs a dispatcher that still holds it.
LeasedRowRecoverable ==
  \A e \in Event :
    status[e] = "PROCESSING" =>
      lease[e] # None \/ \E d \in Dispatcher : e \in Held(d)

Settled == {"DELIVERED", "CONSUMED", "DEAD_LETTER"}

\* Nothing reopens a settled row; the only way on is DELIVERED to CONSUMED.
SettledIsFinal ==
  [][\A e \in Event :
       status[e] \in Settled =>
         \/ status'[e] = status[e]
         \/ status[e] = "DELIVERED" /\ status'[e] = "CONSUMED"]_vars

\* A row is dead-lettered after exactly MaxRetries recorded failures, and no
\* failure is counted afterwards.
DeadLetterExact ==
  \A e \in Event :
    /\ retries[e] <= MaxRetries
    /\ status[e] = "DEAD_LETTER" <=> retries[e] = MaxRetries

\* A row that is put on the table does not stay open for ever: deaths of
\* dispatchers are healed by the lease, failures by the retry limit.
EventuallySettled ==
  \A e \in Event : status[e] = "PENDING" ~> status[e] \in Settled

-----------------------------------------------------------------------------
(* The promise kept by one dispatcher: EventDelivery.                      *)

\* A row's status, as far as the promise is concerned.
Phase(s) ==
  IF s = "ABSENT" THEN "new"
  ELSE IF s \in {"PENDING", "PROCESSING"} THEN "open"
  ELSE IF s = "DEAD_LETTER" THEN "dead"
  ELSE "done"

Promise == INSTANCE EventDelivery WITH
  phase <- [e \in Event |-> Phase(status[e])],
  onStream <- {e \in Event : copies[e] > 0}

\* With a single dispatcher, every step of the loop is a step of the promise
\* or changes nothing it can see, in spite of deaths, outages and expired
\* leases: an event is closed once, and as done only if it was published.
KeepsPromise == Promise!Spec

=============================================================================
