----------------------- MODULE IntegrationWorkerProofs -----------------------
(***************************************************************************)
(* Theorems about IntegrationWorker.  Types and routing hold for every     *)
(* number of workers.  What is said of attempts and of outcomes holds for  *)
(* one worker: it is the only one to write the job it has in hand, which   *)
(* is Dispatching from the claim to the outcome.                           *)
(***************************************************************************)
EXTENDS IntegrationWorker, TLAPS

\* A worker that is not idle has a job in hand.
HasTask == \A w \in Worker : send[w] # "idle" => task[w] \in Job

-----------------------------------------------------------------------------
(* Any number of workers.                                                  *)

LEMMA NoneIsNoJob == None \notin Job
  BY IntegrationAssumption DEF ConstantsOK, Job

LEMMA InitTyped == Init => TypeOK /\ HasTask
  BY IntegrationAssumption, NoneIsNoJob
     DEF ConstantsOK, Init, InitRun, TypeOK, HasTask, JobStatus, Outcome

\* Writing the job in hand.
LEMMA SetJobTyped ==
  ASSUME TypeOK, HasTask, NEW w \in Worker, send[w] # "idle",
         NEW s \in JobStatus, NEW more \in Nat, SetJob(w, s, more)
  PROVE  /\ job' \in [Job -> [status : JobStatus, attempts : Nat]]
         /\ task[w] \in Job
         /\ job'[task[w]].status = s
         /\ job'[task[w]].attempts = job[task[w]].attempts + more
         /\ \A j \in Job \ {task[w]} : job'[j] = job[j]
  <1>1. task[w] \in Job /\ job[task[w]].attempts \in Nat
    BY DEF TypeOK, HasTask
  <1>2. job' = [job EXCEPT ![task[w]] =
                  [status |-> s, attempts |-> job[task[w]].attempts + more]]
    BY <1>1 DEF SetJob, TypeOK
  <1> QED
    BY <1>1, <1>2 DEF TypeOK

\* Letting go of a job.
LEMMA ReleaseTyped ==
  ASSUME TypeOK, HasTask, NEW w \in Worker, Release(w)
  PROVE  /\ turn' \in [Worker -> {"inbound", "outbound", "backoff"}]
         /\ task' \in [Worker -> Job \union {None}]
         /\ send' \in [Worker -> {"idle", "selected", "claimed", "sending"} \union Outcome]
         /\ HasTask'
         /\ send'[w] = "idle"
         /\ \A v \in Worker \ {w} : send'[v] = send[v] /\ task'[v] = task[v]
  BY DEF TypeOK, HasTask, Release

\* How an outcome is recorded.
LEMMA OutcomeStatus ==
  ASSUME NEW o, NEW n \in Nat
  PROVE  FailedStatus(o, n) \in {"Retrying", "DeadLetter"} /\ FailedStatus(o, n) \in JobStatus
  BY DEF FailedStatus, JobStatus

\* What the job in hand becomes when w records how its turn ended.
Record(w, s, more) == SetJob(w, s, more) /\ Release(w)

\* The steps that let go of the job in hand.
LEMMA RecordShape ==
  ASSUME NEW w \in Worker,
         CancelJob(w) \/ RecordDelivered(w) \/ RecordFailed(w) \/ RecordRaises(w)
  PROVE  /\ UNCHANGED <<inbox, subject, active, changes, posts, accepted, crashes>>
         /\ send[w] \in {"claimed"} \union Outcome
         /\ \/ send[w] = "claimed" /\ Record(w, "Cancelled", 0) /\ UNCHANGED faults
            \/ send[w] \in {"answered", "refused"} /\ Record(w, "Delivered", 1)
                 /\ UNCHANGED faults
            \/ send[w] \in {"answered", "refused"} /\ Record(w, "DeadLetter", 1)
                 /\ faults < MaxFaults /\ faults' = faults + 1
            \/ send[w] \in {"unreachable", "invalid"} /\ UNCHANGED faults
                 /\ Record(w, FailedStatus(send[w], job[task[w]].attempts), 1)
  BY DEF CancelJob, RecordDelivered, RecordFailed, RecordRaises, Record, far, event, config,
         Outcome

LEMMA RecordTyped ==
  ASSUME TypeOK, HasTask, NEW w \in Worker,
         CancelJob(w) \/ RecordDelivered(w) \/ RecordFailed(w) \/ RecordRaises(w),
         redeliveries' \in 0..MaxRedeliveries
  PROVE  TypeOK' /\ HasTask'
  <1>1. PICK s \in JobStatus, more \in Nat : Record(w, s, more)
    <2>1. \A o, n : n \in Nat => FailedStatus(o, n) \in JobStatus
      BY OutcomeStatus
    <2>2. send[w] # "idle" => job[task[w]].attempts \in Nat
      BY DEF TypeOK, HasTask
    <2> QED
      BY RecordShape, <2>1, <2>2 DEF JobStatus, Outcome
  <1>2. job' \in [Job -> [status : JobStatus, attempts : Nat]]
    BY <1>1, SetJobTyped, RecordShape DEF Record, Outcome
  <1>3. faults' \in 0..MaxFaults /\ UNCHANGED <<inbox, subject, active, changes, posts, accepted, crashes>>
    BY RecordShape, IntegrationAssumption DEF ConstantsOK, TypeOK
  <1> QED
    BY <1>1, <1>2, <1>3, ReleaseTyped DEF TypeOK, Record

LEMMA NextTyped == TypeOK /\ HasTask /\ [Next]_vars => (TypeOK /\ HasTask)'
  <1> SUFFICES ASSUME TypeOK, HasTask, [Next]_vars PROVE TypeOK' /\ HasTask'
    OBVIOUS
  <1> USE IntegrationAssumption, NoneIsNoJob DEF ConstantsOK
  <1> USE DEF event, config, far, run
  <1>0. redeliveries' \in 0..MaxRedeliveries
    BY DEF TypeOK, Next, Redeliver, Deliver, vars
  <1> USE <1>0
  <1>1. ASSUME NEW p \in Report, NEW m \in Meeting, Deliver(p, m)
        PROVE  TypeOK' /\ HasTask'
    BY <1>1 DEF TypeOK, HasTask, Deliver
  <1>13. ASSUME NEW p \in Report, Redeliver(p) PROVE TypeOK' /\ HasTask'
    BY <1>13 DEF TypeOK, HasTask, Redeliver
  <1>2. ASSUME NEW c \in Config, SwitchConfig(c) PROVE TypeOK' /\ HasTask'
    BY <1>2 DEF TypeOK, HasTask, SwitchConfig
  <1>3. ASSUME NEW w \in Worker, NEW p \in Report, Enqueue(w, p) PROVE TypeOK' /\ HasTask'
    <2>1. job' \in [Job -> [status : JobStatus, attempts : Nat]]
      BY <1>3 DEF TypeOK, Enqueue, JobStatus
    <2> QED
      BY <1>3, <2>1 DEF TypeOK, HasTask, Enqueue
  <1>4. ASSUME NEW w \in Worker, NEW p \in Report, EnqueueRaises(w, p)
        PROVE  TypeOK' /\ HasTask'
    BY <1>4 DEF TypeOK, HasTask, EnqueueRaises
  <1>5. ASSUME NEW w \in Worker, WakeUp(w) \/ NoEvent(w) \/ NoJob(w)
        PROVE  TypeOK' /\ HasTask'
    BY <1>5 DEF TypeOK, HasTask, WakeUp, NoEvent, NoJob
  <1>6. ASSUME NEW w \in Worker, SelectJob(w) PROVE TypeOK' /\ HasTask'
    BY <1>6 DEF TypeOK, HasTask, SelectJob, Open
  <1>7. ASSUME NEW w \in Worker, ClaimJob(w) PROVE TypeOK' /\ HasTask'
    <2>1. job' \in [Job -> [status : JobStatus, attempts : Nat]]
      BY <1>7, SetJobTyped DEF ClaimJob, JobStatus
    <2> QED
      BY <1>7, <2>1 DEF TypeOK, HasTask, ClaimJob
  <1>8. ASSUME NEW w \in Worker, StartSend(w) PROVE TypeOK' /\ HasTask'
    BY <1>8 DEF TypeOK, HasTask, StartSend
  <1>9. ASSUME NEW w \in Worker, NEW o \in Outcome, SendEnds(w, o)
        PROVE  TypeOK' /\ HasTask'
    <2>1. task[w] \in Job /\ faults' \in 0..MaxFaults
      BY <1>9 DEF SendEnds, HasTask, TypeOK
    <2>2. posts' \in [Job -> 0..PostCap]
      BY <1>9, <2>1 DEF SendEnds, Received, TypeOK
    <2> QED
      BY <1>9, <2>1, <2>2 DEF TypeOK, HasTask, SendEnds
  <1>10. ASSUME NEW w \in Worker,
                CancelJob(w) \/ RecordDelivered(w) \/ RecordFailed(w) \/ RecordRaises(w)
         PROVE  TypeOK' /\ HasTask'
    BY <1>10, RecordTyped
  <1>11. ASSUME NEW w \in Worker, Crash(w) PROVE TypeOK' /\ HasTask'
    <2>1. crashes' \in 0..MaxCrashes /\ UNCHANGED <<event, config, job, far, faults>>
      BY <1>11 DEF Crash, TypeOK
    <2> QED
      BY <1>11, <2>1, ReleaseTyped DEF Crash, TypeOK
  <1>12. CASE UNCHANGED vars
    BY <1>12 DEF TypeOK, HasTask, vars
  <1> QED
    BY <1>1, <1>2, <1>13, <1>3, <1>4, <1>5, <1>6, <1>7, <1>8, <1>9, <1>10, <1>11, <1>12
       DEF Next, WorkerStep, Work

\* Every reachable state is well typed, for any number of workers: no worker
\* writes a job it does not have, and the counters keep to their ranges.
THEOREM TypeCorrect == Spec => []TypeOK
  <1> QED
    BY InitTyped, NextTyped, PTL DEF Spec

-----------------------------------------------------------------------------
(* Routing.                                                                *)

\* A job is never removed.
LEMMA JobsRemain ==
  ASSUME TypeOK, HasTask, [Next]_vars, NEW j \in Job, job[j].status # "absent"
  PROVE  job'[j].status # "absent"
  <1>1. ASSUME NEW w \in Worker, ClaimJob(w) PROVE job'[j].status # "absent"
    BY <1>1, SetJobTyped DEF ClaimJob, JobStatus
  <1>2. ASSUME NEW w \in Worker,
               CancelJob(w) \/ RecordDelivered(w) \/ RecordFailed(w) \/ RecordRaises(w)
        PROVE  job'[j].status # "absent"
    <2>1. PICK s \in JobStatus \ {"absent"}, more \in Nat : Record(w, s, more)
      <3>1. \A o, n : n \in Nat => FailedStatus(o, n) \in JobStatus \ {"absent"}
        BY OutcomeStatus
      <3>2. send[w] # "idle" => job[task[w]].attempts \in Nat
        BY DEF TypeOK, HasTask
      <3> QED
        BY <1>2, RecordShape, <3>1, <3>2 DEF JobStatus, Outcome
    <2> QED
      BY <1>2, <2>1, SetJobTyped, RecordShape DEF Record, Outcome
  <1>3. ASSUME NEW w \in Worker, NEW p \in Report, Enqueue(w, p)
        PROVE  job'[j].status # "absent"
    BY <1>3 DEF Enqueue, TypeOK
  <1> QED
    BY <1>1, <1>2, <1>3
       DEF Next, WorkerStep, Work, vars, Deliver, Redeliver, SwitchConfig, EnqueueRaises,
           WakeUp, NoEvent, SelectJob, NoJob, StartSend, SendEnds, Crash

\* A worker has a job of an event in hand only when that job was queued.
TaskQueued == \A w \in Worker : send[w] # "idle" => job[task[w]].status # "absent"

\* The jobs an event has are of its meeting's workspace, one for each provider.
JobsFit ==
  \A p \in Report :
    /\ inbox[p] = "absent" => Queued(p) = {}
    /\ \A j, k \in Queued(p) : SameKey(j, k) => j = k
    /\ \A j \in Queued(p) : j[2] \in ConfigsOf[subject[p]]

RoutingInv == TypeOK /\ HasTask /\ TaskQueued /\ JobsFit

\* What may happen to an event.
LEMMA EventStep ==
  ASSUME TypeOK, [Next]_vars, NEW p \in Report
  PROVE  \/ inbox'[p] = inbox[p] /\ subject'[p] = subject[p]
         \/ inbox[p] = "absent" /\ inbox'[p] = "DELIVERED"
         \/ inbox[p] = "CONSUMED" /\ inbox'[p] = "DELIVERED" /\ subject'[p] = subject[p]
         \/ /\ inbox[p] = "DELIVERED" /\ inbox'[p] = "CONSUMED" /\ subject'[p] = subject[p]
            /\ \E w \in Worker : Enqueue(w, p)
  <1> USE DEF event
  <1>1. ASSUME NEW q \in Report, NEW m \in Meeting, Deliver(q, m)
        PROVE  \/ inbox'[p] = inbox[p] /\ subject'[p] = subject[p]
               \/ inbox[p] = "absent" /\ inbox'[p] = "DELIVERED"
    BY <1>1 DEF Deliver, TypeOK
  <1>2. ASSUME NEW q \in Report, Redeliver(q)
        PROVE  \/ inbox'[p] = inbox[p] /\ subject'[p] = subject[p]
               \/ inbox[p] = "CONSUMED" /\ inbox'[p] = "DELIVERED" /\ subject'[p] = subject[p]
    BY <1>2 DEF Redeliver, TypeOK
  <1>3. ASSUME NEW w \in Worker, NEW q \in Report, Enqueue(w, q)
        PROVE  \/ inbox'[p] = inbox[p] /\ subject'[p] = subject[p]
               \/ /\ q = p /\ inbox[p] = "DELIVERED" /\ inbox'[p] = "CONSUMED"
                  /\ subject'[p] = subject[p]
    BY <1>3 DEF Enqueue, TypeOK
  <1>4. \/ UNCHANGED event
        \/ \E q \in Report : \E m \in Meeting : Deliver(q, m)
        \/ \E q \in Report : Redeliver(q)
        \/ \E w \in Worker : \E q \in Report : Enqueue(w, q)
    BY DEF Next, WorkerStep, Work, vars, SwitchConfig, EnqueueRaises, WakeUp, NoEvent,
           SelectJob, NoJob, ClaimJob, CancelJob, StartSend, SendEnds, RecordDelivered,
           RecordFailed, RecordRaises, Crash
  <1> QED
    BY <1>1, <1>2, <1>3, <1>4

\* Jobs are queued by Enqueue alone, and only missing ones.
LEMMA OnlyMissing ==
  ASSUME TypeOK, HasTask, TaskQueued, [Next]_vars,
         NEW j \in Job, job[j].status = "absent", job'[j].status # "absent"
  PROVE  \E w \in Worker : Enqueue(w, j[1]) /\ j[2] \in Missing(j[1])
  <1>1. ASSUME NEW w \in Worker, ClaimJob(w) PROVE FALSE
    <2>1. send[w] # "idle" /\ j # task[w]
      BY <1>1 DEF ClaimJob, TaskQueued
    <2> QED
      BY <1>1, <2>1, SetJobTyped DEF ClaimJob, JobStatus
  <1>2. ASSUME NEW w \in Worker,
               CancelJob(w) \/ RecordDelivered(w) \/ RecordFailed(w) \/ RecordRaises(w)
        PROVE  FALSE
    <2>1. send[w] # "idle" /\ task[w] \in Job /\ j # task[w]
      BY <1>2, RecordShape DEF TaskQueued, HasTask, Outcome
    <2>2. \E r : job' = [job EXCEPT ![task[w]] = r]
      BY <1>2 DEF CancelJob, RecordDelivered, RecordFailed, RecordRaises, SetJob
    <2> QED
      BY <2>1, <2>2 DEF TypeOK
  <1>3. ASSUME NEW w \in Worker, NEW p \in Report, Enqueue(w, p)
        PROVE  j[1] = p /\ j[2] \in Missing(p)
    BY <1>3 DEF Enqueue
  <1>4. \/ UNCHANGED job
        \/ \E w \in Worker :
             \/ ClaimJob(w)
             \/ CancelJob(w) \/ RecordDelivered(w) \/ RecordFailed(w) \/ RecordRaises(w)
             \/ \E p \in Report : Enqueue(w, p)
    BY DEF Next, WorkerStep, Work, vars, Deliver, Redeliver, SwitchConfig, EnqueueRaises,
           WakeUp, NoEvent, SelectJob, NoJob, StartSend, SendEnds, Crash
  <1> QED
    BY <1>1, <1>2, <1>3, <1>4

\* A job in hand was one the query returned.
LEMMA TaskQueuedStep ==
  ASSUME TypeOK, HasTask, TaskQueued, [Next]_vars
  PROVE  TaskQueued'
  <1> SUFFICES ASSUME NEW w \in Worker, send'[w] # "idle"
               PROVE  job'[task'[w]].status # "absent"
    BY DEF TaskQueued
  <1>1. CASE send[w] # "idle" /\ task'[w] = task[w]
    BY <1>1, JobsRemain DEF TaskQueued, HasTask
  <1>2. CASE SelectJob(w)
    BY <1>2 DEF SelectJob, Open, TypeOK
  <1>3. SelectJob(w) \/ (send[w] # "idle" /\ task'[w] = task[w])
    <2>1. ASSUME NEW v \in Worker, SelectJob(v) \/ ClaimJob(v) \/ StartSend(v)
          PROVE  SelectJob(w) \/ (send[w] # "idle" /\ task'[w] = task[w])
      BY <2>1 DEF SelectJob, ClaimJob, StartSend, TypeOK
    <2>2. ASSUME NEW v \in Worker, NEW o \in Outcome, SendEnds(v, o)
          PROVE  send[w] # "idle" /\ task'[w] = task[w]
      BY <2>2 DEF SendEnds, TypeOK
    <2>3. ASSUME NEW v \in Worker, Release(v)
          PROVE  send[w] # "idle" /\ task'[w] = task[w]
      BY <2>3, ReleaseTyped
    <2>4. \/ UNCHANGED <<task, send>>
          \/ \E v \in Worker : Release(v) \/ SelectJob(v) \/ ClaimJob(v) \/ StartSend(v)
          \/ \E v \in Worker : \E o \in Outcome : SendEnds(v, o)
      BY DEF Next, WorkerStep, Work, vars, run, Deliver, Redeliver, SwitchConfig, Enqueue,
             EnqueueRaises, WakeUp, NoEvent, NoJob, CancelJob, RecordDelivered, RecordFailed,
             RecordRaises, Crash
    <2> QED
      BY <2>1, <2>2, <2>3, <2>4
  <1> QED
    BY <1>1, <1>2, <1>3

\* A job that is there now was there before, or is one of the missing.
LEMMA FitStep ==
  ASSUME RoutingInv, [Next]_vars
  PROVE  JobsFit'
  <1> USE DEF RoutingInv
  <1> SUFFICES ASSUME NEW p \in Report
               PROVE  /\ inbox'[p] = "absent" => Queued(p)' = {}
                      /\ \A j, k \in Queued(p)' : SameKey(j, k) => j = k
                      /\ \A j \in Queued(p)' : j[2] \in ConfigsOf[subject'[p]]
    BY DEF JobsFit
  <1>1. CASE \E w \in Worker : Enqueue(w, p)
    <2>1. PICK w \in Worker : Enqueue(w, p)
      BY <1>1
    <2>2. /\ inbox'[p] # "absent" /\ subject'[p] = subject[p] /\ ~Clash(p)
      BY <2>1 DEF Enqueue, TypeOK
    <2>3. ASSUME NEW j \in Queued(p)'
          PROVE  /\ j \in Job /\ j[1] = p /\ j = <<p, j[2]>>
                 /\ j \in Queued(p) \/ j[2] \in Missing(p)
      <3>1. j \in Job /\ j[1] = p /\ j = <<p, j[2]>> /\ job'[j].status # "absent"
        BY DEF Queued, Job
      <3> QED
        BY <3>1, OnlyMissing DEF Queued
    <2>4. \A c \in Missing(p) :
            /\ c \in Routable(p)
            /\ \A j \in Queued(p) : ~SameKey(j, <<p, c>>) /\ ~SameKey(<<p, c>>, j)
      BY DEF Missing, Queued, SameKey
    <2>5. \A c, d \in Missing(p) : SameKey(<<p, c>>, <<p, d>>) => c = d
      BY <2>2 DEF Clash
    <2>6. ASSUME NEW j \in Queued(p)', NEW k \in Queued(p)', SameKey(j, k)
          PROVE  j = k
      BY <2>3, <2>4, <2>5, <2>6 DEF JobsFit
    <2>7. ASSUME NEW j \in Queued(p)' PROVE j[2] \in ConfigsOf[subject'[p]]
      BY <2>2, <2>3, <2>4 DEF JobsFit, Routable
    <2> QED
      BY <2>2, <2>6, <2>7
  <1>2. CASE ~\E w \in Worker : Enqueue(w, p)
    <2>1. Queued(p)' \subseteq Queued(p)
      BY <1>2, OnlyMissing DEF Queued
    <2>2. CASE inbox[p] = "absent"
      BY <2>1, <2>2 DEF JobsFit
    <2>3. CASE inbox[p] # "absent"
      <3>1. inbox'[p] # "absent" /\ subject'[p] = subject[p]
        BY <2>3, EventStep
      <3> QED
        BY <2>1, <3>1 DEF JobsFit
    <2> QED
      BY <2>2, <2>3
  <1> QED
    BY <1>1, <1>2

LEMMA RoutingStep ==
  ASSUME RoutingInv, [Next]_vars,
         NEW p \in Report, inbox[p] = "DELIVERED", inbox'[p] = "CONSUMED"
  PROVE  Routed(p)'
  <1> USE DEF RoutingInv
  <1>1. PICK w \in Worker : Enqueue(w, p)
    BY EventStep
  <1>2. Routable(p)' = Routable(p)
    BY <1>1 DEF Enqueue, config, Routable
  <1>3. ASSUME NEW c \in Routable(p)
        PROVE  \E j \in Queued(p)' : SameKey(j, <<p, c>>)
    <2>1. c \in Config
      BY DEF Routable, TypeOK
    <2>2. CASE c \in Missing(p)
      <3>1. <<p, c>> \in Job /\ SameKey(<<p, c>>, <<p, c>>)
        BY <2>1 DEF Job, SameKey
      <3>2. job'[<<p, c>>].status = "Queued"
        BY <1>1, <2>2, <3>1 DEF Enqueue, TypeOK
      <3> QED
        BY <3>1, <3>2 DEF Queued
    <2>3. CASE c \notin Missing(p)
      <3>1. PICK j \in Job : job[j].status # "absent" /\ SameKey(j, <<p, c>>)
        BY <2>3 DEF Missing
      <3>2. job'[j].status # "absent" /\ j[1] = p
        BY <3>1, JobsRemain DEF SameKey
      <3> QED
        BY <3>1, <3>2 DEF Queued
    <2> QED
      BY <2>2, <2>3
  <1>4. JobsFit'
    BY FitStep
  <1> QED
    BY <1>2, <1>3, <1>4 DEF Routed, JobsFit

\* For any number of workers and however often it comes: an event is consumed
\* only when every provider that is switched on in its workspace has a job for it,
\* none two, and no other workspace one.
THEOREM NoProviderIsForgotten == Spec => ConsumedIsRouted
  <1>1. Init => RoutingInv
    <2>1. Init => TaskQueued /\ JobsFit
      BY DEF Init, InitRun, TaskQueued, JobsFit, Queued
    <2> QED
      BY <2>1, InitTyped DEF RoutingInv
  <1>2. RoutingInv /\ [Next]_vars => RoutingInv'
    BY NextTyped, TaskQueuedStep, FitStep DEF RoutingInv
  <1>3. RoutingInv /\ [Next]_vars =>
          [\A p \in Report :
             inbox[p] = "DELIVERED" /\ inbox'[p] = "CONSUMED" => Routed(p)']_vars
    BY RoutingStep
  <1> QED
    BY <1>1, <1>2, <1>3, PTL DEF Spec, ConsumedIsRouted

-----------------------------------------------------------------------------
(* One worker.                                                             *)

\* The job w has in hand: from the claim to the outcome it is Dispatching; it can
\* be attempted once more; it is accepted only with the answer that says so.
InHand(w) ==
  send[w] # "idle" =>
    /\ send[w] = "selected" => job[task[w]].status \in {"Queued", "Retrying"}
    /\ send[w] # "selected" => job[task[w]].status = "Dispatching"
    /\ job[task[w]].attempts < MaxRetries
    /\ send[w] # "answered" => task[w] \notin accepted
    /\ send[w] \in {"answered", "refused"} => posts[task[w]] > 0

\* A job that may still be sent has attempts left and was not accepted.
OpenIsUnsent ==
  \A j \in Job :
    job[j].status \in {"absent", "Queued", "Retrying"} =>
      job[j].attempts < MaxRetries /\ j \notin accepted

LoneInv(w) ==
  /\ TypeOK
  /\ HasTask
  /\ InHand(w)
  /\ OpenIsUnsent
  /\ AttemptsExact
  /\ OutcomeIsHonest

LEMMA LoneInit == ASSUME NEW w \in Worker, Init PROVE LoneInv(w)
  <1>1. TypeOK /\ HasTask
    BY InitTyped
  <1> QED
    BY <1>1, IntegrationAssumption
       DEF ConstantsOK, Init, InitRun, LoneInv, InHand, OpenIsUnsent, AttemptsExact, OutcomeIsHonest

\* A new job is one that can be attempted.
LEMMA LoneEnqueue ==
  ASSUME NEW w, Worker = {w}, LoneInv(w), NEW p \in Report, Enqueue(w, p)
  PROVE  InHand(w)' /\ OpenIsUnsent' /\ AttemptsExact' /\ OutcomeIsHonest'
  <1> USE DEF LoneInv
  <1>1. UNCHANGED <<task, send, posts, accepted>>
    BY DEF Enqueue, far
  <1>2. \A j \in Job :
          \/ job'[j] = job[j]
          \/ /\ job[j].status = "absent" /\ job'[j].status = "Queued"
             /\ job'[j].attempts = job[j].attempts
    <2> SUFFICES ASSUME NEW j \in Job, job'[j] # job[j]
                 PROVE  /\ job[j].status = "absent" /\ job'[j].status = "Queued"
                        /\ job'[j].attempts = job[j].attempts
      OBVIOUS
    <2>1. j[1] = p /\ j[2] \in Missing(p) /\ job'[j] = [job[j] EXCEPT !.status = "Queued"]
      BY DEF Enqueue
    <2>2. job[j].status = "absent"
      BY <2>1 DEF Missing, SameKey, Job
    <2> QED
      BY <2>1, <2>2 DEF TypeOK
  <1>3. InHand(w)'
    BY <1>1, <1>2 DEF InHand, HasTask
  <1> QED
    BY <1>1, <1>2, <1>3 DEF OpenIsUnsent, AttemptsExact, OutcomeIsHonest

\* Recording how a turn ended.
LEMMA LoneRecord ==
  ASSUME NEW w, Worker = {w}, LoneInv(w),
         CancelJob(w) \/ RecordDelivered(w) \/ RecordFailed(w) \/ RecordRaises(w)
  PROVE  InHand(w)' /\ OpenIsUnsent' /\ AttemptsExact' /\ OutcomeIsHonest'
  <1> USE IntegrationAssumption DEF ConstantsOK, LoneInv
  <1> w \in Worker
    OBVIOUS
  <1> DEFINE j == task[w]
  <1>1. /\ j \in Job
        /\ job[j].attempts \in Nat /\ job[j].attempts < MaxRetries
        /\ UNCHANGED <<posts, accepted>>
        /\ send[w] # "idle" /\ send[w] # "selected"
    BY RecordShape DEF HasTask, InHand, TypeOK, Outcome
  <1>2. ASSUME NEW s \in JobStatus, NEW more \in 0..1, Record(w, s, more),
               s = "Delivered" => posts[j] > 0,
               s = "Cancelled" => j \notin accepted,
               s \in {"Retrying", "DeadLetter", "Delivered", "Cancelled"},
               s = "Retrying" =>
                 job[j].attempts + 1 < MaxRetries /\ more = 1 /\ j \notin accepted
        PROVE  InHand(w)' /\ OpenIsUnsent' /\ AttemptsExact' /\ OutcomeIsHonest'
    <2>1. /\ job'[j].status = s
          /\ job'[j].attempts = job[j].attempts + more
          /\ \A k \in Job \ {j} : job'[k] = job[k]
      BY <1>1, <1>2, SetJobTyped DEF Record
    <2>2. send'[w] = "idle"
      BY <1>2, ReleaseTyped DEF Record
    <2>3. InHand(w)'
      BY <2>2 DEF InHand
    <2>4. \A k \in Job : job[k].attempts \in Nat
      BY DEF TypeOK
    <2> HIDE DEF j
    <2>5. OpenIsUnsent'
      BY <1>1, <1>2, <2>1, <2>4 DEF OpenIsUnsent
    <2>6. AttemptsExact'
      BY <1>1, <1>2, <2>1, <2>4 DEF AttemptsExact
    <2>7. OutcomeIsHonest'
      BY <1>1, <1>2, <2>1 DEF OutcomeIsHonest
    <2> QED
      BY <2>3, <2>5, <2>6, <2>7
  <1>3. CASE Record(w, "Cancelled", 0) /\ send[w] = "claimed"
    BY <1>1, <1>2, <1>3 DEF InHand, JobStatus
  <1>4. CASE Record(w, "Delivered", 1) /\ send[w] \in {"answered", "refused"}
    BY <1>1, <1>2, <1>4 DEF InHand, JobStatus
  <1>5. CASE Record(w, "DeadLetter", 1)
    BY <1>1, <1>2, <1>5 DEF JobStatus
  <1>6. CASE /\ Record(w, FailedStatus(send[w], job[j].attempts), 1)
             /\ send[w] \in {"unreachable", "invalid"}
    <2>1. j \notin accepted
      BY <1>1, <1>6 DEF InHand
    <2>2. CASE Record(w, "Retrying", 1) /\ job[j].attempts + 1 < MaxRetries
      BY <1>1, <1>2, <2>1, <2>2 DEF JobStatus
    <2> QED
      BY <1>5, <1>6, <2>2 DEF FailedStatus
  <1> QED
    BY <1>3, <1>4, <1>5, <1>6, RecordShape

LEMMA LoneStep ==
  ASSUME NEW w, Worker = {w}, LoneInv(w), [Next]_vars
  PROVE  InHand(w)' /\ OpenIsUnsent' /\ AttemptsExact' /\ OutcomeIsHonest'
  <1> USE IntegrationAssumption DEF ConstantsOK, LoneInv
  <1> w \in Worker
    OBVIOUS
  <1>1. ASSUME UNCHANGED <<job, posts, accepted>>, InHand(w)'
        PROVE  InHand(w)' /\ OpenIsUnsent' /\ AttemptsExact' /\ OutcomeIsHonest'
    BY <1>1 DEF OpenIsUnsent, AttemptsExact, OutcomeIsHonest
  <1>2. CASE SelectJob(w)
    <2>1. /\ task'[w] \in Open /\ send'[w] = "selected"
          /\ UNCHANGED <<job, posts, accepted>>
      BY <1>2 DEF SelectJob, TypeOK, far
    <2>2. InHand(w)'
      BY <2>1 DEF InHand, Open, OpenIsUnsent
    <2> QED
      BY <1>1, <2>1, <2>2
  <1>3. CASE ClaimJob(w)
    <2> DEFINE j == task[w]
    <2>1. /\ j \in Job /\ send[w] = "selected" /\ send'[w] = "claimed"
          /\ UNCHANGED <<task, posts, accepted>>
      BY <1>3 DEF ClaimJob, HasTask, TypeOK, far
    <2>2. /\ job'[j].status = "Dispatching"
          /\ job'[j].attempts = job[j].attempts + 0
          /\ \A k \in Job \ {j} : job'[k] = job[k]
      BY <1>3, <2>1, SetJobTyped DEF ClaimJob, JobStatus
    <2>3. /\ job[j].attempts \in Nat /\ job[j].attempts < MaxRetries
          /\ j \notin accepted
          /\ \A k \in Job : job[k].attempts \in Nat
      BY <2>1 DEF InHand, TypeOK
    <2>4. InHand(w)'
      BY <2>1, <2>2, <2>3 DEF InHand
    <2> HIDE DEF j
    <2>5. OpenIsUnsent' /\ AttemptsExact' /\ OutcomeIsHonest'
      BY <2>1, <2>2, <2>3 DEF OpenIsUnsent, AttemptsExact, OutcomeIsHonest
    <2> QED
      BY <2>4, <2>5
  <1>4. CASE StartSend(w)
    <2>1. /\ send[w] = "claimed" /\ send'[w] = "sending"
          /\ UNCHANGED <<job, task, posts, accepted>>
      BY <1>4 DEF StartSend, TypeOK, far
    <2>2. InHand(w)'
      BY <2>1 DEF InHand
    <2> QED
      BY <1>1, <2>1, <2>2
  <1>5. ASSUME NEW o \in Outcome, SendEnds(w, o)
        PROVE  InHand(w)' /\ OpenIsUnsent' /\ AttemptsExact' /\ OutcomeIsHonest'
    <2> DEFINE j == task[w]
    <2>1. /\ j \in Job /\ send[w] = "sending" /\ send'[w] = o /\ UNCHANGED <<job, task>>
          /\ o # "idle" /\ o # "selected"
      BY <1>5 DEF SendEnds, HasTask, TypeOK, Outcome
    <2>2. /\ \A k \in Job : posts[k] > 0 => posts'[k] > 0
          /\ o \in {"answered", "refused"} => posts'[j] > 0
      BY <1>5, <2>1 DEF SendEnds, Received, TypeOK
    <2>3. /\ accepted' \subseteq accepted \union {j}
          /\ o # "answered" => accepted' = accepted
      BY <1>5 DEF SendEnds
    <2>4. job[j].status = "Dispatching" /\ j \notin accepted
      BY <2>1 DEF InHand
    <2>5. InHand(w)'
      BY <2>1, <2>2, <2>3, <2>4 DEF InHand
    <2> HIDE DEF j
    <2>6. OpenIsUnsent' /\ AttemptsExact' /\ OutcomeIsHonest'
      BY <2>1, <2>2, <2>3, <2>4 DEF OpenIsUnsent, AttemptsExact, OutcomeIsHonest
    <2> QED
      BY <2>5, <2>6
  <1>6. CASE Crash(w)
    <2>1. UNCHANGED <<job, posts, accepted>> /\ send'[w] = "idle"
      BY <1>6, ReleaseTyped DEF Crash, far
    <2>2. InHand(w)'
      BY <2>1 DEF InHand
    <2> QED
      BY <1>1, <2>1, <2>2
  <1>7. CASE UNCHANGED <<job, posts, accepted, task, send>>
    BY <1>1, <1>7 DEF InHand
  <1>8. ASSUME NEW p \in Report, Redeliver(p) \/ \E m \in Meeting : Deliver(p, m)
        PROVE  UNCHANGED <<job, posts, accepted, task, send>>
    BY <1>8 DEF Deliver, Redeliver, far, run
  <1>9. ASSUME NEW c \in Config, SwitchConfig(c)
        PROVE  UNCHANGED <<job, posts, accepted, task, send>>
    BY <1>9 DEF SwitchConfig, far, run
  <1>10. ASSUME NEW p \in Report,
                EnqueueRaises(w, p) \/ WakeUp(w) \/ NoEvent(w) \/ NoJob(w)
         PROVE  UNCHANGED <<job, posts, accepted, task, send>>
    BY <1>10 DEF EnqueueRaises, WakeUp, NoEvent, NoJob, far
  <1>11. WakeUp(w) \/ NoEvent(w) \/ NoJob(w) \/ UNCHANGED vars =>
           UNCHANGED <<job, posts, accepted, task, send>>
    BY DEF WakeUp, NoEvent, NoJob, far, run, vars
  <1> QED
    BY <1>2, <1>3, <1>4, <1>5, <1>6, <1>7, <1>8, <1>9, <1>10, <1>11, LoneEnqueue, LoneRecord
       DEF Next, WorkerStep, Work

LEMMA LoneInvariance == ASSUME NEW w, Worker = {w} PROVE Spec => []LoneInv(w)
  <1>1. Init => LoneInv(w)
    BY LoneInit
  <1>2. LoneInv(w) /\ [Next]_vars => LoneInv(w)'
    BY NextTyped, LoneStep DEF LoneInv
  <1> QED
    BY <1>1, <1>2, PTL DEF Spec

\* With one worker, no job is tried more often than MAX_RETRIES, and one waits
\* for another attempt only below that.
THEOREM RetryLimitIsExact == ASSUME NEW w, Worker = {w} PROVE Spec => []AttemptsExact
  <1>1. LoneInv(w) => AttemptsExact
    BY DEF LoneInv
  <1> QED
    BY <1>1, LoneInvariance, PTL

\* With one worker, a Delivered job has reached its provider, and a Cancelled
\* one was not accepted by it.
THEOREM OutcomesAreHonest == ASSUME NEW w, Worker = {w} PROVE Spec => []OutcomeIsHonest
  <1>1. LoneInv(w) => OutcomeIsHonest
    BY DEF LoneInv
  <1> QED
    BY <1>1, LoneInvariance, PTL

-----------------------------------------------------------------------------
(* One worker keeps the promise of JobDelivery.                            *)

LEMMA PromiseInit == Init => Promise!Init
  BY DEF Init, InitRun, Promise!Init, PhaseOf, TriesOf, Reached, Phase

\* What the promise sees of a step that writes one job's row.
LEMMA OneRow ==
  ASSUME NEW j \in Job, \A k \in Job \ {j} : job'[k] = job[k],
         UNCHANGED <<posts, accepted>>
  PROVE  /\ PhaseOf' = [PhaseOf EXCEPT ![j] = Phase(job'[j].status)]
         /\ TriesOf' = [TriesOf EXCEPT ![j] = job'[j].attempts]
         /\ UNCHANGED <<Reached, accepted>>
  <1>1. \A k \in Job : k # j => job'[k] = job[k]
    OBVIOUS
  <1>2. PhaseOf' = [PhaseOf EXCEPT ![j] = Phase(job'[j].status)]
    <2>1. PhaseOf' = [k \in Job |-> Phase(job'[k].status)]
      BY DEF PhaseOf
    <2>2. [PhaseOf EXCEPT ![j] = Phase(job'[j].status)]
            = [k \in Job |-> IF k = j THEN Phase(job'[j].status) ELSE Phase(job[k].status)]
      BY DEF PhaseOf
    <2>3. \A k \in Job : k # j => Phase(job'[k].status) = Phase(job[k].status)
      BY <1>1
    <2> QED
      BY <2>1, <2>2, <2>3
  <1>3. TriesOf' = [TriesOf EXCEPT ![j] = job'[j].attempts]
    BY <1>1 DEF TriesOf
  <1>4. Reached' = Reached
    BY DEF Reached
  <1> QED
    BY <1>2, <1>3, <1>4

\* Queueing the jobs of an event is accepting them together.
LEMMA EnqueueAccepts ==
  ASSUME TypeOK, NEW w \in Worker, NEW p \in Report, Enqueue(w, p)
  PROVE  \E jobs \in SUBSET Job : Promise!Accept(jobs)
  <1> DEFINE jobs == {j \in Job : j[1] = p /\ j[2] \in Missing(p)}
  <1>1. \A j \in jobs : job[j].status = "absent"
    BY DEF Missing, SameKey, Job
  <1>2. \A j \in Job :
          /\ job'[j].attempts = job[j].attempts
          /\ job'[j].status = IF j \in jobs THEN "Queued" ELSE job[j].status
    BY DEF Enqueue, TypeOK
  <1>3. UNCHANGED <<posts, accepted>>
    BY DEF Enqueue, far
  <1> HIDE DEF jobs
  <1>4. PhaseOf' = [j \in Job |-> IF j \in jobs THEN "open" ELSE PhaseOf[j]]
    <2>1. \A j \in Job : j \in jobs => Phase(job'[j].status) = "open"
      BY <1>2 DEF Phase
    <2>2. \A j \in Job : j \notin jobs => Phase(job'[j].status) = Phase(job[j].status)
      BY <1>2
    <2> QED
      BY <2>1, <2>2 DEF PhaseOf
  <1>5. TriesOf' = TriesOf /\ Reached' = Reached
    BY <1>2, <1>3 DEF TriesOf, Reached
  <1>6. jobs \in SUBSET Job
    BY DEF jobs
  <1>7. \A j \in jobs : PhaseOf[j] = "new"
    BY <1>1, <1>6 DEF PhaseOf, Phase
  <1> QED
    BY <1>3, <1>4, <1>5, <1>6, <1>7 DEF Promise!Accept

\* A send that ends is the payload arriving, or nothing the promise can see.
LEMMA SendReaches ==
  ASSUME NEW w \in Worker, LoneInv(w), NEW o \in Outcome, SendEnds(w, o)
  PROVE  Promise!Reach(task[w]) \/ UNCHANGED Promise!vars
  <1> USE IntegrationAssumption DEF ConstantsOK
  <1> DEFINE j == task[w]
  <1>1. /\ j \in Job /\ job[j].status = "Dispatching" /\ job[j].attempts < MaxRetries
        /\ j \notin accepted
    BY DEF SendEnds, LoneInv, InHand, HasTask, Outcome
  <1>2. PhaseOf[j] = "open" /\ TriesOf[j] < MaxRetries
    BY <1>1 DEF PhaseOf, TriesOf, Phase
  <1>3. PhaseOf' = PhaseOf /\ TriesOf' = TriesOf
    BY DEF SendEnds, PhaseOf, TriesOf
  <1>4. CASE Received(j)
    <2>1. Reached' = Reached \union {j}
      BY <1>1, <1>4 DEF Received, Reached, LoneInv, TypeOK
    <2>2. accepted' \in {accepted, accepted \union {j}}
      BY DEF SendEnds
    <2> QED
      BY <1>1, <1>2, <1>3, <2>1, <2>2 DEF Promise!Reach
  <1>5. CASE UNCHANGED posts /\ o # "answered"
    BY <1>3, <1>5 DEF SendEnds, Reached, Promise!vars
  <1> QED
    BY <1>4, <1>5 DEF SendEnds

\* Claiming a job changes nothing the promise can see.
LEMMA ClaimIsUnseen ==
  ASSUME NEW w \in Worker, LoneInv(w), ClaimJob(w)
  PROVE  UNCHANGED Promise!vars
  <1> DEFINE j == task[w]
  <1>1. /\ j \in Job /\ job[j].status \in {"Queued", "Retrying"}
        /\ job[j].attempts \in Nat
        /\ UNCHANGED <<posts, accepted>>
    BY DEF ClaimJob, LoneInv, InHand, HasTask, TypeOK, far
  <1>2. /\ job'[j].status = "Dispatching"
        /\ job'[j].attempts = job[j].attempts + 0
        /\ \A k \in Job \ {j} : job'[k] = job[k]
    BY SetJobTyped DEF ClaimJob, LoneInv, JobStatus
  <1> HIDE DEF j
  <1>3. \A k \in Job : Phase(job'[k].status) = Phase(job[k].status)
    BY <1>1, <1>2 DEF Phase
  <1>4. \A k \in Job : job'[k].attempts = job[k].attempts
    BY <1>1, <1>2
  <1>5. PhaseOf' = PhaseOf
    BY <1>3 DEF PhaseOf
  <1>6. TriesOf' = TriesOf /\ Reached' = Reached
    BY <1>1, <1>4 DEF TriesOf, Reached
  <1> QED
    BY <1>1, <1>5, <1>6 DEF Promise!vars

\* Recording an outcome is closing, retrying, giving up or cancelling the job.
LEMMA RecordSettles ==
  ASSUME NEW w \in Worker, LoneInv(w),
         CancelJob(w) \/ RecordDelivered(w) \/ RecordFailed(w) \/ RecordRaises(w)
  PROVE  \E j \in Job :
           Promise!Close(j) \/ Promise!Retry(j) \/ Promise!GiveUp(j) \/ Promise!Cancel(j)
  <1> USE DEF LoneInv
  <1> DEFINE j == task[w]
  <1>1. /\ j \in Job /\ job[j].status = "Dispatching"
        /\ job[j].attempts \in Nat /\ job[j].attempts < MaxRetries
        /\ UNCHANGED <<posts, accepted>>
        /\ send[w] # "idle"
    BY RecordShape DEF HasTask, InHand, TypeOK, Outcome
  <1>2. PhaseOf[j] = "open" /\ TriesOf[j] = job[j].attempts
    BY <1>1 DEF PhaseOf, TriesOf, Phase
  <1>3. ASSUME NEW s \in JobStatus, NEW more \in Nat, Record(w, s, more)
        PROVE  /\ PhaseOf' = [PhaseOf EXCEPT ![j] = Phase(s)]
               /\ TriesOf' = [TriesOf EXCEPT ![j] = TriesOf[j] + more]
               /\ UNCHANGED <<Reached, accepted>>
    <2>1. /\ job'[j].status = s
          /\ job'[j].attempts = job[j].attempts + more
          /\ \A k \in Job \ {j} : job'[k] = job[k]
      BY <1>1, <1>3, SetJobTyped DEF Record
    <2> HIDE DEF j
    <2> QED
      BY <1>1, <1>2, <2>1, OneRow
  <1>4. ASSUME NEW s \in JobStatus, Record(w, s, 1) PROVE Promise!Attempted(j, Phase(s))
    BY <1>1, <1>2, <1>3, <1>4 DEF Promise!Attempted
  <1>5. CASE Record(w, "Cancelled", 0) /\ send[w] = "claimed"
    <2>1. j \notin accepted
      BY <1>1, <1>5 DEF InHand
    <2>2. /\ PhaseOf' = [PhaseOf EXCEPT ![j] = "cancelled"]
          /\ TriesOf' = [TriesOf EXCEPT ![j] = TriesOf[j] + 0]
          /\ UNCHANGED <<Reached, accepted>>
      BY <1>3, <1>5 DEF JobStatus, Phase
    <2>3. TriesOf' = TriesOf
      BY <1>1, <1>2, <2>2 DEF TriesOf
    <2> QED
      BY <1>1, <1>2, <2>1, <2>2, <2>3 DEF Promise!Cancel
  <1>6. CASE Record(w, "Delivered", 1) /\ send[w] \in {"answered", "refused"}
    <2>1. j \in Reached
      BY <1>1, <1>6 DEF InHand, Reached
    <2>2. Promise!Attempted(j, "delivered")
      BY <1>4, <1>6 DEF JobStatus, Phase
    <2> QED
      BY <1>1, <2>1, <2>2 DEF Promise!Close
  <1>7. CASE Record(w, "DeadLetter", 1)
    <2>1. Promise!Attempted(j, "dead")
      BY <1>4, <1>7 DEF JobStatus, Phase
    <2> QED
      BY <1>1, <2>1 DEF Promise!GiveUp
  <1>8. CASE /\ Record(w, FailedStatus(send[w], job[j].attempts), 1)
             /\ send[w] \in {"unreachable", "invalid"}
    <2>1. j \notin accepted
      BY <1>1, <1>8 DEF InHand
    <2>2. CASE Record(w, "Retrying", 1) /\ job[j].attempts + 1 < MaxRetries
      <3>1. Promise!Attempted(j, "open")
        BY <1>4, <2>2 DEF JobStatus, Phase
      <3> QED
        BY <1>1, <1>2, <2>1, <2>2, <3>1 DEF Promise!Retry
    <2> QED
      BY <1>7, <1>8, <2>2 DEF FailedStatus
  <1> QED
    BY <1>5, <1>6, <1>7, <1>8, RecordShape

\* Every step maps to a step of the promise or to none.
LEMMA PromiseStep ==
  ASSUME NEW w, Worker = {w}, LoneInv(w), [Next]_vars
  PROVE  [Promise!Next]_(Promise!vars)
  <1> w \in Worker
    OBVIOUS
  <1>1. CASE UNCHANGED <<job, posts, accepted>>
    BY <1>1 DEF Promise!vars, PhaseOf, TriesOf, Reached
  <1>2. ASSUME NEW p \in Report, Enqueue(w, p) PROVE Promise!Next
    BY <1>2, EnqueueAccepts DEF Promise!Next, LoneInv
  <1>3. ASSUME NEW o \in Outcome, SendEnds(w, o) PROVE [Promise!Next]_(Promise!vars)
    <2>1. task[w] \in Job
      BY <1>3 DEF SendEnds, LoneInv, HasTask
    <2> QED
      BY <1>3, <2>1, SendReaches DEF Promise!Next
  <1>4. CASE ClaimJob(w)
    BY <1>4, ClaimIsUnseen
  <1>5. CASE CancelJob(w) \/ RecordDelivered(w) \/ RecordFailed(w) \/ RecordRaises(w)
    BY <1>5, RecordSettles DEF Promise!Next
  <1>6. ASSUME NEW p \in Report,
               \/ Redeliver(p) \/ EnqueueRaises(w, p)
               \/ \E m \in Meeting : Deliver(p, m)
        PROVE  UNCHANGED <<job, posts, accepted>>
    BY <1>6 DEF Deliver, Redeliver, EnqueueRaises, far
  <1>7. ASSUME NEW c \in Config, SwitchConfig(c) PROVE UNCHANGED <<job, posts, accepted>>
    BY <1>7 DEF SwitchConfig, far
  <1>8. ASSUME \/ WakeUp(w) \/ NoEvent(w) \/ SelectJob(w) \/ NoJob(w) \/ StartSend(w)
               \/ Crash(w) \/ UNCHANGED vars
        PROVE  UNCHANGED <<job, posts, accepted>>
    BY <1>8 DEF WakeUp, NoEvent, SelectJob, NoJob, StartSend, Crash, vars, far
  <1>9. \/ \E p \in Report : Redeliver(p) \/ \E m \in Meeting : Deliver(p, m)
        \/ \E c \in Config : SwitchConfig(c)
        \/ Work(w) \/ RecordRaises(w) \/ Crash(w)
        \/ UNCHANGED vars
    BY DEF Next, WorkerStep
  <1> QED
    BY <1>1, <1>2, <1>3, <1>4, <1>5, <1>6, <1>7, <1>8, <1>9 DEF Work

\* With one worker, for any limit, providers and faults: jobs are delivered as
\* JobDelivery says.
THEOREM JobPromiseIsKept ==
  ASSUME NEW w, Worker = {w} PROVE Spec => JobsKeepPromise
  <1>1. LoneInv(w) /\ [Next]_vars => [Promise!Next]_(Promise!vars)
    BY PromiseStep
  <1> QED
    BY <1>1, PromiseInit, LoneInvariance, PTL DEF Spec, JobsKeepPromise, Promise!Spec

=============================================================================
