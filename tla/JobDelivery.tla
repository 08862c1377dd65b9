----------------------------- MODULE JobDelivery -----------------------------
(***************************************************************************)
(* What the integration outbox promises of each job, without workers,      *)
(* events or configurations                                                *)
(* (docs/rfcs/rfc-006-external-integrations.md and                         *)
(* app/workers/integration_worker.py): a job is attempted at most Limit    *)
(* times and is never sent again once its provider has accepted it; it     *)
(* ends as delivered only if the payload has reached the provider, and as  *)
(* cancelled only if the provider has not accepted it.                     *)
(***************************************************************************)
EXTENDS Naturals

CONSTANTS
  Job,
  Limit      \* attempts a job gets

VARIABLES
  phase,     \* phase[j]: how far job j has come
  tries,     \* tries[j]: attempts whose end is on record
  reached,   \* jobs whose payload has reached the provider
  taken      \* jobs the provider has accepted

vars == <<phase, tries, reached, taken>>

Init ==
  /\ phase = [j \in Job |-> "new"]
  /\ tries = [j \in Job |-> 0]
  /\ reached = {}
  /\ taken = {}

\* The jobs of one event are queued together.
Accept(jobs) ==
  /\ \A j \in jobs : phase[j] = "new"
  /\ phase' = [j \in Job |-> IF j \in jobs THEN "open" ELSE phase[j]]
  /\ UNCHANGED <<tries, reached, taken>>

\* A payload arrives, and the provider may accept it.
Reach(j) ==
  /\ phase[j] = "open"
  /\ tries[j] < Limit
  /\ j \notin taken
  /\ reached' = reached \union {j}
  /\ taken' \in {taken, taken \union {j}}
  /\ UNCHANGED <<phase, tries>>

\* One more attempt is on record, and j's phase after it is p.
Attempted(j, p) ==
  /\ phase[j] = "open"
  /\ tries[j] < Limit
  /\ phase' = [phase EXCEPT ![j] = p]
  /\ tries' = [tries EXCEPT ![j] = @ + 1]
  /\ UNCHANGED <<reached, taken>>

Close(j) == j \in reached /\ Attempted(j, "delivered")

\* The attempt failed and another one is left.
Retry(j) == j \notin taken /\ tries[j] + 1 < Limit /\ Attempted(j, "open")

\* No attempt is left, or the failure is permanent.
GiveUp(j) == Attempted(j, "dead")

\* The job is withdrawn between two attempts.
Cancel(j) ==
  /\ phase[j] = "open"
  /\ j \notin taken
  /\ phase' = [phase EXCEPT ![j] = "cancelled"]
  /\ UNCHANGED <<tries, reached, taken>>

Next ==
  \/ \E jobs \in SUBSET Job : Accept(jobs)
  \/ \E j \in Job : Reach(j) \/ Close(j) \/ Retry(j) \/ GiveUp(j) \/ Cancel(j)

Spec == Init /\ [][Next]_vars
=============================================================================
