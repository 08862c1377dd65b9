----------------------- MODULE OutboxDispatcherProofs -----------------------
(***************************************************************************)
(* Theorems about OutboxDispatcher, for every set of events and of         *)
(* dispatchers, every batch size, lease and retry limit.                   *)
(***************************************************************************)
EXTENDS OutboxDispatcher, TLAPS

\* A dispatcher between reload and flush has a row in hand.
SessionHasRow ==
  \A d \in Dispatcher :
    stage[d] \in {"loaded", "published", "failed"} => current[d] \in Event

LEMMA BumpBound ==
  ASSUME NEW n \in 0..CopyCap
  PROVE  Bump(n) \in 0..CopyCap /\ Bump(n) > 0
  BY NumbersAssumption DEF Bump

LEMMA SoonerType ==
  /\ \A n \in Leases : Sooner(n) \in Leases
  /\ \A n \in 0..LeaseTicks : Sooner(n) \in 0..LeaseTicks
  BY NumbersAssumption, NoneAssumption DEF Sooner, Leases

LEMMA InitTyped == Init => TypeOK /\ SessionHasRow
  BY NumbersAssumption, NoneAssumption
     DEF Init, TypeOK, SessionHasRow, Statuses, Stages, Leases, Snapshots, NoSnapshot

\* Ending a session keeps the dispatcher's own variables typed.
LEMMA EndSessionTyped ==
  ASSUME TypeOK, SessionHasRow, NEW d \in Dispatcher, EndSession(d)
  PROVE  /\ copies' = copies /\ batch' = batch
         /\ stage' \in [Dispatcher -> Stages]
         /\ current' \in [Dispatcher -> Event \union {None}]
         /\ snap' \in [Dispatcher -> Snapshots]
         /\ window' \in [Dispatcher -> 0..LeaseTicks]
         /\ brokerUp' \in BOOLEAN /\ crashes' \in 0..MaxCrashes
         /\ outages' \in 0..MaxOutages
         /\ SessionHasRow'
  BY NumbersAssumption
     DEF TypeOK, SessionHasRow, EndSession, Stages, Snapshots, NoSnapshot, Statuses, world

LEMMA NextTyped == TypeOK /\ SessionHasRow /\ [Next]_vars => (TypeOK /\ SessionHasRow)'
  <1> SUFFICES ASSUME TypeOK, SessionHasRow, [Next]_vars
               PROVE  TypeOK' /\ SessionHasRow'
    OBVIOUS
  <1> USE NumbersAssumption, NoneAssumption
  <1>1. ASSUME NEW e \in Event, Enqueue(e)
        PROVE  TypeOK' /\ SessionHasRow'
    BY <1>1 DEF TypeOK, SessionHasRow, Enqueue, workers, world, Statuses
  <1>2. ASSUME NEW e \in Event, Consume(e)
        PROVE  TypeOK' /\ SessionHasRow'
    BY <1>2 DEF TypeOK, SessionHasRow, Consume, workers, world, Statuses
  <1>3. ASSUME NEW d \in Dispatcher, SelectBatch(d)
        PROVE  TypeOK' /\ SessionHasRow'
    BY <1>3 DEF TypeOK, SessionHasRow, SelectBatch, rows, world, Stages
  <1>4. ASSUME NEW d \in Dispatcher, LeaseBatch(d)
        PROVE  TypeOK' /\ SessionHasRow'
    BY <1>4 DEF TypeOK, SessionHasRow, LeaseBatch, LockedUntil, world, Stages, Statuses, Leases
  <1>5. ASSUME NEW d \in Dispatcher, NEW e \in Event, ReloadEvent(d, e)
        PROVE  TypeOK' /\ SessionHasRow'
    BY <1>5 DEF TypeOK, SessionHasRow, ReloadEvent, rows, world, Stages, Snapshots
  <1>6. ASSUME NEW d \in Dispatcher, DispatchSucceeds(d)
        PROVE  TypeOK' /\ SessionHasRow'
    BY <1>6, BumpBound DEF TypeOK, SessionHasRow, DispatchSucceeds, rows, world, Stages
  <1>7. ASSUME NEW d \in Dispatcher, DispatchFails(d)
        PROVE  TypeOK' /\ SessionHasRow'
    BY <1>7, BumpBound DEF TypeOK, SessionHasRow, DispatchFails, rows, world, Stages
  <1>8. ASSUME NEW d \in Dispatcher, CommitDelivered(d)
        PROVE  TypeOK' /\ SessionHasRow'
    <2>1. /\ status' \in [Event -> Statuses]
          /\ retries' = retries
          /\ lease' \in [Event -> Leases]
      BY <1>8 DEF TypeOK, SessionHasRow, CommitDelivered, Flushed, ReleasedLease, Statuses, Leases
    <2>2. EndSession(d)
      BY <1>8 DEF CommitDelivered
    <2> QED
      BY <2>1, <2>2, EndSessionTyped DEF TypeOK
  <1>9. ASSUME NEW d \in Dispatcher, CommitFailed(d)
        PROVE  TypeOK' /\ SessionHasRow'
    <2>1. /\ status' \in [Event -> Statuses]
          /\ retries' \in [Event -> Nat]
          /\ lease' \in [Event -> Leases]
      BY <1>9 DEF TypeOK, SessionHasRow, CommitFailed, Flushed, FailedStatus, ReleasedLease,
                  Statuses, Leases, Snapshots
    <2>2. EndSession(d)
      BY <1>9 DEF CommitFailed
    <2> QED
      BY <2>1, <2>2, EndSessionTyped DEF TypeOK
  <1>10. ASSUME NEW d \in Dispatcher, Crash(d)
         PROVE  TypeOK' /\ SessionHasRow'
    BY <1>10 DEF TypeOK, SessionHasRow, Crash, rows, Stages, Snapshots, NoSnapshot, Statuses
  <1>11. CASE Tick
    BY <1>11, SoonerType DEF TypeOK, SessionHasRow, Tick, world
  <1>12. CASE BrokerFails
    <2>1. outages' \in 0..MaxOutages
      BY <1>12 DEF TypeOK, BrokerFails
    <2> QED
      BY <1>12, <2>1 DEF TypeOK, SessionHasRow, BrokerFails, rows, workers
  <1>13. CASE BrokerRecovers
    BY <1>13 DEF TypeOK, SessionHasRow, BrokerRecovers, rows, workers
  <1>14. CASE UNCHANGED vars
    BY <1>14 DEF TypeOK, SessionHasRow, vars
  <1> QED
    BY <1>1, <1>2, <1>3, <1>4, <1>5, <1>6, <1>7, <1>8, <1>9, <1>10, <1>11, <1>12,
       <1>13, <1>14 DEF Next, Step

\* Every reachable state is well typed: no column, counter or dispatcher
\* variable of the outbox leaves its range.
THEOREM TypeCorrect == Spec => []TypeOK
  <1>1. Init => TypeOK /\ SessionHasRow
    BY InitTyped
  <1>2. TypeOK /\ SessionHasRow /\ [Next]_vars => (TypeOK /\ SessionHasRow)'
    BY NextTyped
  <1> QED
    BY <1>1, <1>2, PTL DEF Spec

-----------------------------------------------------------------------------
(* Publication comes before the mark.                                      *)

\* An acknowledged publish is on the stream until its outcome is flushed.
AcknowledgedOnStream ==
  \A d \in Dispatcher : stage[d] = "published" => copies[current[d]] > 0

PublishedInv ==
  /\ TypeOK
  /\ SessionHasRow
  /\ AcknowledgedOnStream
  /\ DeliveredWasPublished

\* The stream only grows.
LEMMA CopiesGrow ==
  ASSUME TypeOK, SessionHasRow, [Next]_vars, NEW e \in Event, copies[e] > 0
  PROVE  copies'[e] > 0
  <1>1. \A n \in 0..CopyCap : Bump(n) > 0
    BY BumpBound
  <1>2. ASSUME NEW d \in Dispatcher, DispatchSucceeds(d) \/ DispatchFails(d)
        PROVE  copies'[e] > 0
    BY <1>1, <1>2 DEF TypeOK, SessionHasRow, DispatchSucceeds, DispatchFails
  <1> QED
    BY <1>2 DEF Next, Step, vars, Enqueue, Consume, SelectBatch, LeaseBatch, ReloadEvent,
                CommitDelivered, CommitFailed, EndSession, Crash, Tick, BrokerFails,
                BrokerRecovers

LEMMA AcknowledgedStep == PublishedInv /\ [Next]_vars => AcknowledgedOnStream'
  <1> SUFFICES ASSUME PublishedInv, [Next]_vars, NEW d \in Dispatcher,
                      stage'[d] = "published"
               PROVE  copies'[current'[d]] > 0
    BY DEF AcknowledgedOnStream
  <1>1. CASE DispatchSucceeds(d)
    BY <1>1, BumpBound
       DEF PublishedInv, TypeOK, SessionHasRow, DispatchSucceeds
  <1>2. CASE ~DispatchSucceeds(d)
    <2>1. stage[d] = "published" /\ current'[d] = current[d]
      BY <1>2 DEF PublishedInv, TypeOK, Next, Step, vars, Enqueue, Consume, SelectBatch,
                  LeaseBatch, ReloadEvent, DispatchSucceeds, DispatchFails,
                  CommitDelivered, CommitFailed, EndSession, Crash, Tick, BrokerFails,
                  BrokerRecovers, workers
    <2> QED
      BY <2>1, CopiesGrow DEF PublishedInv, AcknowledgedOnStream, SessionHasRow
  <1> QED
    BY <1>1, <1>2

\* The only step that takes a row to DELIVERED is a flush after a publish.
LEMMA DeliveredStep == PublishedInv /\ [Next]_vars => DeliveredWasPublished'
  <1> SUFFICES ASSUME PublishedInv, [Next]_vars, NEW e \in Event,
                      status'[e] \in {"DELIVERED", "CONSUMED"}
               PROVE  copies'[e] > 0
    BY DEF DeliveredWasPublished
  <1> USE DEF PublishedInv
  <1>1. CASE status[e] \in {"DELIVERED", "CONSUMED"}
    BY <1>1, CopiesGrow DEF DeliveredWasPublished
  <1>2. CASE status[e] \notin {"DELIVERED", "CONSUMED"}
    <2>1. ASSUME NEW d \in Dispatcher, CommitDelivered(d)
          PROVE  copies[e] > 0
      BY <1>2, <2>1 DEF TypeOK, CommitDelivered, AcknowledgedOnStream
    <2>2. ASSUME NEW d \in Dispatcher, CommitFailed(d)
          PROVE  FALSE
      BY <1>2, <2>2 DEF TypeOK, CommitFailed, Flushed, FailedStatus
    <2>3. \E d \in Dispatcher : CommitDelivered(d)
      BY <1>2, <2>2 DEF TypeOK, Next, Step, vars, rows, Enqueue, Consume, SelectBatch,
                  LeaseBatch, ReloadEvent, DispatchSucceeds, DispatchFails, Crash, Tick,
                  BrokerFails, BrokerRecovers
    <2> QED
      BY <2>1, <2>3, CopiesGrow
  <1> QED
    BY <1>1, <1>2

\* Whatever replicas overlap, crash or overwrite, a row that consumers may act
\* on (DELIVERED, then CONSUMED) has at least one entry in the stream.
THEOREM PublishBeforeMark == Spec => []DeliveredWasPublished
  <1>1. Init => PublishedInv
    BY InitTyped DEF Init, PublishedInv, AcknowledgedOnStream, DeliveredWasPublished
  <1>2. PublishedInv /\ [Next]_vars => PublishedInv'
    BY NextTyped, AcknowledgedStep, DeliveredStep DEF PublishedInv
  <1>3. PublishedInv => DeliveredWasPublished
    BY DEF PublishedInv
  <1> QED
    BY <1>1, <1>2, <1>3, PTL DEF Spec

-----------------------------------------------------------------------------
(* One dispatcher on its own.  What replicas can take from each other, a   *)
(* lone dispatcher keeps: the rows of its batch stay PROCESSING and leased *)
(* until its own flush, so the snapshot it flushes from is the row.        *)

\* The rows d is working on, and d's copy of the one in hand.
HoldsBatch(d) ==
  /\ stage[d] = "selected" =>
       \A e \in batch[d] : status[e] \in {"PENDING", "PROCESSING"}
  /\ stage[d] \notin {"idle", "selected"} =>
       \A e \in batch[d] : status[e] = "PROCESSING" /\ lease[e] # None
  /\ stage[d] \in {"loaded", "published", "failed"} =>
       /\ current[d] \notin batch[d]
       /\ status[current[d]] = "PROCESSING"
       /\ lease[current[d]] # None
       /\ snap[d] = [status |-> "PROCESSING", retries |-> retries[current[d]],
                     leased |-> TRUE]

\* A row in processing can be recovered; a row is dead at the retry limit.
RowsAccounted ==
  \A e \in Event :
    /\ status[e] = "PROCESSING" => lease[e] # None
    /\ status[e] = "DEAD_LETTER" => retries[e] = MaxRetries
    /\ status[e] # "DEAD_LETTER" => retries[e] < MaxRetries

AloneInv(d) == PublishedInv /\ HoldsBatch(d) /\ RowsAccounted

LEMMA AloneInit ==
  ASSUME NEW d \in Dispatcher, Init PROVE AloneInv(d)
  <1>1. PublishedInv
    BY InitTyped DEF Init, PublishedInv, AcknowledgedOnStream, DeliveredWasPublished
  <1> QED
    BY <1>1, NumbersAssumption DEF Init, AloneInv, HoldsBatch, RowsAccounted

\* The clock takes no lease away.
LEMMA TickKeepsLeases ==
  ASSUME TypeOK, Tick, NEW e \in Event, lease[e] # None PROVE lease'[e] # None
  BY NumbersAssumption, NoneAssumption DEF TypeOK, Tick, Sooner, Leases

\* The snapshot is the row, so a flush writes all it means to.
LEMMA FlushIsWhole ==
  ASSUME NEW d \in Dispatcher, AloneInv(d), stage[d] \in {"published", "failed"}
  PROVE  /\ current[d] \in Event
         /\ ReleasedLease(d) = None
         /\ \A s, t : t # "PROCESSING" => Flushed(s, snap[d].status, t) = t
         /\ snap[d].retries = retries[current[d]]
         /\ retries[current[d]] \in Nat /\ retries[current[d]] < MaxRetries
  BY DEF AloneInv, PublishedInv, TypeOK, SessionHasRow, HoldsBatch, RowsAccounted,
         ReleasedLease, Flushed

\* Each step keeps the rows accounted for and the batch in hand.
LEMMA AloneStep ==
  ASSUME NEW d, Dispatcher = {d}, AloneInv(d), [Next]_vars
  PROVE  HoldsBatch(d)' /\ RowsAccounted'
  <1> USE NumbersAssumption, NoneAssumption DEF AloneInv, PublishedInv
  <1> d \in Dispatcher
    OBVIOUS
  <1>1. ASSUME NEW e \in Event, Enqueue(e) \/ Consume(e)
        PROVE  HoldsBatch(d)' /\ RowsAccounted'
    BY <1>1 DEF TypeOK, HoldsBatch, RowsAccounted, Enqueue, Consume, workers, SessionHasRow
  <1>2. CASE SelectBatch(d)
    BY <1>2 DEF TypeOK, HoldsBatch, RowsAccounted, SelectBatch, IsBatch, Candidate, rows
  <1>3. CASE LeaseBatch(d)
    BY <1>3 DEF TypeOK, HoldsBatch, RowsAccounted, LeaseBatch, LockedUntil
  <1>4. ASSUME NEW e \in Event, ReloadEvent(d, e)
        PROVE  HoldsBatch(d)' /\ RowsAccounted'
    BY <1>4 DEF TypeOK, HoldsBatch, RowsAccounted, ReloadEvent, rows
  <1>5. CASE DispatchSucceeds(d) \/ DispatchFails(d)
    BY <1>5 DEF TypeOK, HoldsBatch, RowsAccounted, DispatchSucceeds, DispatchFails, rows
  <1>6. CASE CommitDelivered(d)
    <2>1. /\ status' = [status EXCEPT ![current[d]] = "DELIVERED"]
          /\ lease' = [lease EXCEPT ![current[d]] = None]
          /\ retries' = retries
          /\ EndSession(d)
      <3>1. \A s : Flushed(s, snap[d].status, "DELIVERED") = "DELIVERED"
        BY <1>6, FlushIsWhole DEF CommitDelivered
      <3>2. ReleasedLease(d) = None
        BY <1>6, FlushIsWhole DEF CommitDelivered
      <3> QED
        BY <1>6, <3>1, <3>2, FlushIsWhole DEF CommitDelivered
    <2> QED
      BY <1>6, <2>1, FlushIsWhole
         DEF TypeOK, HoldsBatch, RowsAccounted, EndSession, CommitDelivered
  <1>7. CASE CommitFailed(d)
    <2>1. /\ status' = [status EXCEPT ![current[d]] = FailedStatus(retries[current[d]])]
          /\ lease' = [lease EXCEPT ![current[d]] = None]
          /\ retries' = [retries EXCEPT ![current[d]] = retries[current[d]] + 1]
          /\ EndSession(d)
      <3>1. /\ ReleasedLease(d) = None
            /\ snap[d].retries = retries[current[d]]
            /\ FailedStatus(snap[d].retries) # "PROCESSING"
        BY <1>7, FlushIsWhole DEF CommitFailed, FailedStatus
      <3>2. \A s : Flushed(s, snap[d].status, FailedStatus(snap[d].retries))
                     = FailedStatus(snap[d].retries)
        BY <1>7, <3>1, FlushIsWhole DEF CommitFailed
      <3> QED
        BY <1>7, <3>1, <3>2 DEF CommitFailed
    <2> QED
      BY <1>7, <2>1, FlushIsWhole
         DEF TypeOK, HoldsBatch, RowsAccounted, EndSession, CommitFailed, FailedStatus
  <1>8. CASE Crash(d)
    BY <1>8 DEF TypeOK, HoldsBatch, RowsAccounted, Crash, rows
  <1>9. CASE Tick
    BY <1>9, TickKeepsLeases DEF TypeOK, HoldsBatch, RowsAccounted, Tick, SessionHasRow
  <1>10. CASE BrokerFails \/ BrokerRecovers \/ UNCHANGED vars
    BY <1>10 DEF HoldsBatch, RowsAccounted, BrokerFails, BrokerRecovers, rows, workers, vars
  <1> QED
    BY <1>1, <1>2, <1>3, <1>4, <1>5, <1>6, <1>7, <1>8, <1>9, <1>10 DEF Next, Step

LEMMA AloneInvariance ==
  ASSUME NEW d, Dispatcher = {d} PROVE Spec => []AloneInv(d)
  <1>1. Init => AloneInv(d)
    BY AloneInit
  <1>2. AloneInv(d) /\ [Next]_vars => AloneInv(d)'
    BY AloneStep, NextTyped, AcknowledgedStep, DeliveredStep DEF AloneInv, PublishedInv
  <1> QED
    BY <1>1, <1>2, PTL DEF Spec

\* With one dispatcher, a row is dead-lettered at the retry limit and not before.
THEOREM DeadLetterIsExact ==
  ASSUME NEW d, Dispatcher = {d} PROVE Spec => []DeadLetterExact
  <1>1. AloneInv(d) => DeadLetterExact
    BY NumbersAssumption
       DEF AloneInv, PublishedInv, TypeOK, RowsAccounted, DeadLetterExact
  <1> QED
    BY <1>1, AloneInvariance, PTL

\* With one dispatcher, a row in processing always has a lease that runs out.
THEOREM NoRowIsStranded ==
  ASSUME NEW d, Dispatcher = {d} PROVE Spec => []LeasedRowRecoverable
  <1>1. AloneInv(d) => LeasedRowRecoverable
    BY DEF AloneInv, RowsAccounted, LeasedRowRecoverable
  <1> QED
    BY <1>1, AloneInvariance, PTL

\* What a step does to the row of event e.
LEMMA RowStep ==
  ASSUME NEW d, Dispatcher = {d}, AloneInv(d), [Next]_vars, NEW e \in Event,
         status'[e] # status[e]
  PROVE  \/ status[e] = "ABSENT" /\ status'[e] = "PENDING"
         \/ status[e] = "DELIVERED" /\ status'[e] = "CONSUMED"
         \/ status[e] = "PENDING" /\ status'[e] = "PROCESSING"
         \/ status[e] = "PROCESSING" /\ status'[e] \in {"PENDING", "DEAD_LETTER", "DELIVERED"}
  <1> USE DEF AloneInv, PublishedInv
  <1> d \in Dispatcher
    OBVIOUS
  <1>1. CASE LeaseBatch(d)
    BY <1>1 DEF TypeOK, HoldsBatch, LeaseBatch
  <1>2. CASE CommitDelivered(d)
    BY <1>2, FlushIsWhole DEF TypeOK, HoldsBatch, CommitDelivered
  <1>3. CASE CommitFailed(d)
    BY <1>3, FlushIsWhole DEF TypeOK, HoldsBatch, CommitFailed, FailedStatus
  <1>4. ASSUME NEW f \in Event, Enqueue(f) \/ Consume(f)
        PROVE  \/ status[e] = "ABSENT" /\ status'[e] = "PENDING"
               \/ status[e] = "DELIVERED" /\ status'[e] = "CONSUMED"
    BY <1>4 DEF TypeOK, Enqueue, Consume
  <1> QED
    BY <1>1, <1>2, <1>3, <1>4
       DEF Next, Step, SelectBatch, ReloadEvent, DispatchSucceeds, DispatchFails, Crash, Tick,
           BrokerFails, BrokerRecovers, rows, vars

\* With one dispatcher, nothing reopens a settled row.
THEOREM SettlementIsFinal ==
  ASSUME NEW d, Dispatcher = {d} PROVE Spec => SettledIsFinal
  <1>1. AloneInv(d) /\ [Next]_vars =>
          [\A e \in Event :
             status[e] \in Settled =>
               \/ status'[e] = status[e]
               \/ status[e] = "DELIVERED" /\ status'[e] = "CONSUMED"]_vars
    BY RowStep DEF Settled
  <1> QED
    BY <1>1, AloneInvariance, PTL DEF Spec, SettledIsFinal

-----------------------------------------------------------------------------
(* The promise.  A row's phase changes with its status only, the stream    *)
(* with a publish only, and no step does both.                             *)

OnStream == {e \in Event : copies[e] > 0}
PhaseOf == [e \in Event |-> Phase(status[e])]

\* Only publishing touches the stream, and only for the row in hand.
LEMMA StreamStep ==
  ASSUME NEW d, Dispatcher = {d}, AloneInv(d), [Next]_vars, UNCHANGED status
  PROVE  \/ OnStream' = OnStream
         \/ \E e \in Event : status[e] = "PROCESSING" /\ OnStream' = OnStream \union {e}
  <1> USE DEF AloneInv, PublishedInv
  <1>1. CASE UNCHANGED copies
    BY <1>1 DEF OnStream
  <1>2. CASE copies' # copies
    <2>1. DispatchSucceeds(d) \/ DispatchFails(d)
      BY <1>2 DEF Next, Step, vars, workers, Enqueue, Consume, SelectBatch, LeaseBatch,
                  ReloadEvent, CommitDelivered, CommitFailed, EndSession, Crash, Tick,
                  BrokerFails, BrokerRecovers
    <2>2. /\ copies' = [copies EXCEPT ![current[d]] = Bump(@)]
          /\ stage[d] = "loaded"
      BY <1>2, <2>1 DEF DispatchSucceeds, DispatchFails
    <2>3. current[d] \in Event /\ status[current[d]] = "PROCESSING"
      BY <2>2 DEF SessionHasRow, HoldsBatch
    <2>4. OnStream' = OnStream \union {current[d]}
      BY <2>2, <2>3, BumpBound DEF OnStream, TypeOK
    <2> QED
      BY <2>3, <2>4
  <1> QED
    BY <1>1, <1>2

\* A step that changes a status leaves the stream alone; statuses of several
\* rows change together only from one open status to another.
LEMMA StatusStep ==
  ASSUME NEW d, Dispatcher = {d}, AloneInv(d), [Next]_vars, status' # status
  PROVE  /\ UNCHANGED copies
         /\ \/ \A e \in Event : Phase(status'[e]) = Phase(status[e])
            \/ \E e \in Event : \A f \in Event \ {e} : status'[f] = status[f]
  <1> USE DEF AloneInv, PublishedInv
  <1> d \in Dispatcher
    OBVIOUS
  <1>1. CASE LeaseBatch(d)
    BY <1>1 DEF LeaseBatch, HoldsBatch, TypeOK, Phase
  <1>2. ASSUME NEW e \in Event, Enqueue(e) \/ Consume(e)
        PROVE  UNCHANGED copies /\ \A f \in Event \ {e} : status'[f] = status[f]
    BY <1>2 DEF Enqueue, Consume, TypeOK
  <1>3. CASE CommitDelivered(d) \/ CommitFailed(d)
    BY <1>3, FlushIsWhole DEF CommitDelivered, CommitFailed, EndSession, TypeOK
  <1> QED
    BY <1>1, <1>2, <1>3
       DEF Next, Step, SelectBatch, ReloadEvent, DispatchSucceeds, DispatchFails, Crash, Tick,
           BrokerFails, BrokerRecovers, rows, vars

\* A row that becomes DELIVERED is on the stream already.
LEMMA DeliveredIsOnStream ==
  ASSUME NEW d, Dispatcher = {d}, AloneInv(d), [Next]_vars, NEW e \in Event,
         status'[e] = "DELIVERED", UNCHANGED copies
  PROVE  e \in OnStream
  BY DeliveredStep DEF AloneInv, DeliveredWasPublished, OnStream

\* One dispatcher keeps the promise of EventDelivery: every step of it maps to
\* accepting, publishing, closing or giving up one event, or to nothing.
THEOREM PromiseIsKept ==
  ASSUME NEW d, Dispatcher = {d} PROVE Spec => KeepsPromise
  <1>1. Init => Promise!Init
    BY DEF Init, Promise!Init, Phase
  <1>2. ASSUME AloneInv(d), [Next]_vars PROVE [Promise!Next]_(Promise!vars)
    <2>1. CASE UNCHANGED status
      <3>1. PhaseOf' = PhaseOf
        BY <2>1 DEF PhaseOf
      <3>2. ASSUME NEW e \in Event, status[e] = "PROCESSING",
                   OnStream' = OnStream \union {e}
            PROVE  Promise!Publish(e)
        BY <3>1, <3>2 DEF PhaseOf, OnStream, Promise!Publish, Phase
      <3>3. CASE OnStream' = OnStream
        BY <3>1, <3>3 DEF PhaseOf, OnStream, Promise!vars
      <3> QED
        BY <1>2, <2>1, <3>2, <3>3, StreamStep DEF Promise!Next
    <2>2. CASE status' # status
      <3>1. OnStream' = OnStream
        BY <1>2, <2>2, StatusStep DEF OnStream
      <3>2. CASE \A e \in Event : Phase(status'[e]) = Phase(status[e])
        BY <3>1, <3>2 DEF OnStream, PhaseOf, Promise!vars
      <3>3. ASSUME NEW e \in Event, \A f \in Event \ {e} : status'[f] = status[f],
                   Phase(status'[e]) # Phase(status[e])
            PROVE  Promise!Accept(e) \/ Promise!Close(e) \/ Promise!GiveUp(e)
        <4>1. PhaseOf' = [PhaseOf EXCEPT ![e] = Phase(status'[e])]
          <5>1. \A f \in Event : f # e => Phase(status'[f]) = Phase(status[f])
            BY <3>3
          <5>2. PhaseOf' = [f \in Event |-> Phase(status'[f])]
            BY DEF PhaseOf
          <5>3. [PhaseOf EXCEPT ![e] = Phase(status'[e])]
                  = [f \in Event |-> IF f = e THEN Phase(status'[e]) ELSE Phase(status[f])]
            BY DEF PhaseOf
          <5> QED
            BY <5>1, <5>2, <5>3
        <4>2. CASE status[e] = "ABSENT" /\ status'[e] = "PENDING"
          BY <3>1, <4>1, <4>2 DEF PhaseOf, OnStream, Phase, Promise!Accept
        <4>3. CASE status[e] = "PROCESSING" /\ status'[e] = "DEAD_LETTER"
          BY <3>1, <4>1, <4>3 DEF PhaseOf, OnStream, Phase, Promise!GiveUp
        <4>4. CASE status[e] = "PROCESSING" /\ status'[e] = "DELIVERED"
          <5>1. e \in OnStream
            BY <1>2, <2>2, <4>4, StatusStep, DeliveredIsOnStream
          <5> QED
            BY <3>1, <4>1, <4>4, <5>1 DEF PhaseOf, OnStream, Phase, Promise!Close
        <4> QED
          BY <1>2, <3>3, <4>2, <4>3, <4>4, RowStep DEF Phase
      <3> QED
        BY <1>2, <2>2, <3>2, <3>3, StatusStep DEF Promise!Next
    <2> QED
      BY <2>1, <2>2
  <1> QED
    BY <1>1, <1>2, AloneInvariance, PTL DEF Spec, KeepsPromise, Promise!Spec

=============================================================================
