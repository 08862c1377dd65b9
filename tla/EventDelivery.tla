---------------------------- MODULE EventDelivery ----------------------------
(***************************************************************************)
(* What the transactional outbox promises of each event, without rows,     *)
(* leases or batches (docs/adrs/adr-011-transactional-outbox.md and        *)
(* app/infrastructure/events.py): an accepted event is put on the stream   *)
(* any number of times while it is open, and closed once, either as done,  *)
(* and then it is on the stream, or as dead.                               *)
(***************************************************************************)
CONSTANT Event

VARIABLES
  phase,     \* phase[e]: how far event e has come
  onStream   \* events with at least one stream entry

vars == <<phase, onStream>>

Phases == {"new", "open", "done", "dead"}

TypeOK ==
  /\ phase \in [Event -> Phases]
  /\ onStream \subseteq Event

Init ==
  /\ phase = [e \in Event |-> "new"]
  /\ onStream = {}

\* The row is committed together with the aggregate.
Accept(e) ==
  /\ phase[e] = "new"
  /\ phase' = [phase EXCEPT ![e] = "open"]
  /\ UNCHANGED onStream

\* One more entry; a repeated one leaves the set as it is.
Publish(e) ==
  /\ phase[e] = "open"
  /\ onStream' = onStream \union {e}
  /\ UNCHANGED phase

\* The event is known to be on the stream.
Close(e) ==
  /\ phase[e] = "open"
  /\ e \in onStream
  /\ phase' = [phase EXCEPT ![e] = "done"]
  /\ UNCHANGED onStream

\* The retry limit was reached; a copy may or may not be out.
GiveUp(e) ==
  /\ phase[e] = "open"
  /\ phase' = [phase EXCEPT ![e] = "dead"]
  /\ UNCHANGED onStream

Next == \E e \in Event : Accept(e) \/ Publish(e) \/ Close(e) \/ GiveUp(e)

Spec == Init /\ [][Next]_vars
=============================================================================
