----------------------------- MODULE RateLimiter -----------------------------
(***************************************************************************)
(* The sliding window of one client address (app/core/rate_limiter.py): a  *)
(* sorted set of the times of its requests, read and written by one Redis  *)
(* transaction per request.  Replicas share the set; a request takes the   *)
(* time first and reaches Redis later.  Time is in ticks, and no two       *)
(* requests take the same time.  The window of a user is never consulted:  *)
(* the limiter runs before the middleware that finds out who the user is.  *)
(***************************************************************************)
EXTENDS Naturals, FiniteSets

CONSTANTS
  Arrival,       \* slots for requests between their clock and Redis
  IpLimit,       \* ip_limit
  Window,        \* window_seconds
  Slack,         \* 5: how much longer the key lives
  MaxTime        \* bound

VARIABLES
  now,           \* the clock
  stamps,        \* the sorted set
  expires,       \* when Redis drops the set
  arrival,       \* arrival[a]: the time a request took, 0 when the slot is free
  admitted,      \* times of the requests that were let through
  late           \* times of the requests that were delayed on their way to Redis

limiterVars == <<now, stamps, expires, arrival, admitted, late>>

ASSUME RateLimiterAssumption ==
  /\ IpLimit \in Nat
  /\ Window \in Nat \ {0}
  /\ Slack \in Nat
  /\ MaxTime \in Nat

Time == 1..MaxTime

LimiterTypeOK ==
  /\ now \in 0..MaxTime
  /\ stamps \subseteq Time
  /\ expires \in 0..(MaxTime + Window + Slack)
  /\ arrival \in [Arrival -> 0..MaxTime]
  /\ admitted \subseteq Time
  /\ late \subseteq Time

LimiterInit ==
  /\ now = 0
  /\ stamps = {}
  /\ expires = 0
  /\ arrival = [a \in Arrival |-> 0]
  /\ admitted = {}
  /\ late = {}

\* The set as Redis has it: dropped as a whole once its time to live is over.
Live == IF now >= expires THEN {} ELSE stamps

Arrive(a) ==
  /\ arrival[a] = 0
  /\ now < MaxTime
  /\ now' = now + 1
  /\ arrival' = [arrival EXCEPT ![a] = now + 1]
  /\ UNCHANGED <<stamps, expires, admitted, late>>

\* What ZREMRANGEBYSCORE leaves of the set.
Within(t) == {s \in Live : s + Window > t}

\* Once the request of time t is counted: earlier ones on their way have been
\* overtaken, and t itself is late if it took longer than the key's extra time.
Delayed(t) ==
  late \union {arrival[a] : a \in {b \in Arrival : 0 < arrival[b] /\ arrival[b] < t}}
       \union {u \in {t} : now > t + Slack}

\* Mutant: the key lives for the extra time only.
CountBriefly(a) ==
  LET t == arrival[a]
      count == Cardinality(Within(t))
  IN  /\ t # 0
      /\ stamps' = Within(t) \union {t}
      /\ expires' = now + Slack
      /\ admitted' = IF count > IpLimit THEN admitted ELSE admitted \union {t}
      /\ late' = Delayed(t)
      /\ arrival' = [arrival EXCEPT ![a] = 0]
      /\ UNCHANGED now

\* One transaction: forget, count, add, prolong.  The count is of the requests
\* before this one, those that were refused as well.
Count(a) ==
  LET t == arrival[a]
      count == Cardinality(Within(t))
  IN  /\ t # 0
      /\ stamps' = Within(t) \union {t}
      /\ expires' = now + Window + Slack
      /\ admitted' = IF count > IpLimit THEN admitted ELSE admitted \union {t}
      /\ late' = Delayed(t)
      /\ arrival' = [arrival EXCEPT ![a] = 0]
      /\ UNCHANGED now

\* Redis raises, before the transaction or after it: the request is let
\* through, and what it counts for is unknown.
Outage(a) ==
  /\ arrival[a] # 0
  /\ \/ UNCHANGED <<stamps, expires, late>>
     \/ /\ stamps' = Within(arrival[a]) \union {arrival[a]}
        /\ expires' = now + Window + Slack
        /\ late' = Delayed(arrival[a])
  /\ arrival' = [arrival EXCEPT ![a] = 0]
  /\ UNCHANGED <<now, admitted>>

Tick ==
  /\ now < MaxTime
  /\ now' = now + 1
  /\ UNCHANGED <<stamps, expires, arrival, admitted, late>>

LimiterNext ==
  \/ \E a \in Arrival : Arrive(a) \/ Count(a) \/ Outage(a)
  \/ Tick

LimiterSpec == LimiterInit /\ [][LimiterNext]_limiterVars

-----------------------------------------------------------------------------
(* Properties.                                                             *)

\* The requests that were counted, let through, and not delayed on their way to
\* Redis are never more than IpLimit + 1 in any window.  (One more than the
\* limit: the count does not include the request itself.)
WindowIsBounded ==
  \A t \in Time :
    Cardinality({s \in admitted \ late : s <= t /\ s + Window > t}) <= IpLimit + 1

=============================================================================
