------------------------- MODULE MediaIngestionProofs -------------------------
(***************************************************************************)
(* Proofs about MediaIngestion, for any sessions, requests, payloads and   *)
(* bounds.  Two facts hold however requests overlap: a merge reads as many *)
(* chunks as it should, and a closed session is in somebody's hands until  *)
(* it is recorded.  The third is for sessions without overlapping          *)
(* requests: a chunk that was answered, or whose checksum is kept, is      *)
(* stored as it was sent until it is merged.                               *)
(***************************************************************************)
EXTENDS MediaIngestion, TLAPS

StageOf(r) == request[r].stage

\* A request that is under way has a payload.  Before the merge nothing is read,
\* during it something is left to read, and after it everything has been read.
ReadsOK ==
  \A r \in Request :
    /\ StageOf(r) = "idle" <=> request[r].of = None
    /\ StageOf(r) # "idle" => request[r].payload \in Payload
    /\ StageOf(r) \notin {"read", "clean", "commit", "purge"} => request[r].read = <<>>
    /\ StageOf(r) = "read" => Len(request[r].read) < request[r].seq
    /\ StageOf(r) \in {"clean", "commit", "purge"} =>
         Len(request[r].read) = request[r].seq

\* Somebody is merging s.
InMerge(s) ==
  \E r \in UnderWay(s) : StageOf(r) \in {"list", "read", "clean", "commit"}

ClosedOK ==
  \A s \in Session :
    session[s].state = "Completed" => recording[s] # <<>> \/ faults > 0 \/ InMerge(s)

-----------------------------------------------------------------------------
(* Sessions whose requests do not overlap.                                 *)

\* All that s has acknowledged is of chunks before n, and is stored.
Current(s, n) ==
  /\ \A a \in answered[s] : a.seq < n /\ chunk[s][a.seq] = a.payload
  /\ \A m \in Seqs : hash[s][m] # None => m < n /\ chunk[s][m] = hash[s][m]

\* All that s has acknowledged, and r's own chunk, are in what r has read.
HasRead(s, r) ==
  /\ \A a \in answered[s] :
       a.seq <= request[r].seq /\ request[r].read[a.seq] = a.payload
  /\ request[r].read[request[r].seq] = request[r].payload

\* The session is Active, and its next chunk is n, unless its key has expired.
Expects(s, n) ==
  \/ session[s] = [state |-> "Active", expected |-> n]
  \/ session[s].state = "gone"

\* What r, of session s, may rely on.
HandlerOK(s, r) ==
  LET n == request[r].seq
      Stored == chunk[s][n] = request[r].payload
      Closed == session[s].state \notin {"unused", "Active"}
  IN  /\ StageOf(r) = "replay" =>
           \/ session[s].state = "gone"
           \/ session[s].state = "Active" /\ n < session[s].expected
      /\ StageOf(r) \in {"write", "save"} => Current(s, n) /\ Expects(s, n)
      /\ StageOf(r) = "save" => Stored
      /\ StageOf(r) = "remember" => Current(s, n) /\ Stored /\ Expects(s, n + 1)
      /\ StageOf(r) = "close" => Current(s, n + 1) /\ Stored /\ Expects(s, n + 1)
      /\ StageOf(r) \in {"list", "read"} => Current(s, n + 1) /\ Stored /\ Closed
      /\ StageOf(r) = "read" =>
           \A i \in 1..Len(request[r].read) : request[r].read[i] = chunk[s][i]
      /\ StageOf(r) \in {"clean", "commit", "purge"} => HasRead(s, r) /\ Closed
      /\ StageOf(r) = "purge" =>
           \A i \in DOMAIN recording[s] :
             recording[s][i] = [final |-> n, content |-> request[r].read]

\* What was answered is in the recordings of s.
AnsweredOK(s) ==
  \A i \in DOMAIN recording[s], a \in answered[s] :
    /\ a.seq <= recording[s][i].final
    /\ recording[s][i].content[a.seq] = a.payload

\* One request at a time.
InTurn(s) ==
  /\ \A r, q \in UnderWay(s) : r = q
  /\ \A r \in UnderWay(s) : HandlerOK(s, r)
  /\ session[s].state = "unused" =>
       /\ session[s] = Unused
       /\ UnderWay(s) = {} /\ answered[s] = {} /\ \A m \in Seqs : hash[s][m] = None
  /\ session[s].state \in {"unused", "Active"} => recording[s] = <<>>
  /\ session[s].state = "Active" => Current(s, session[s].expected)
  /\ recording[s] # <<>> => \A r \in UnderWay(s) : StageOf(r) = "purge"
  /\ AnsweredOK(s)

TurnsOK == \A s \in Session \ overlapped : InTurn(s)

-----------------------------------------------------------------------------
(* Shapes.                                                                 *)

\* A handler that goes on changes its stage only.
LEMMA WentOn ==
  ASSUME TypeOK, NEW r \in Request, NEW st, Goto(r, st)
  PROVE  /\ request'[r] = [request[r] EXCEPT !.stage = st]
         /\ request'[r].stage = st
         /\ request'[r].of = request[r].of
         /\ request'[r].seq = request[r].seq
         /\ request'[r].payload = request[r].payload
         /\ request'[r].read = request[r].read
         /\ \A q \in Request \ {r} : request'[q] = request[q]
  BY DEF TypeOK, Goto

\* A handler that returns is idle.
LEMMA Returned ==
  ASSUME TypeOK, NEW r \in Request, Leave(r)
  PROVE  /\ request'[r] = Idle
         /\ request'[r].of = None
         /\ \A q \in Request \ {r} : request'[q] = request[q]
  BY DEF TypeOK, Leave, Idle

\* The session of a request that is under way.
LEMMA UnderWayOf ==
  ASSUME ConstantsOK, TypeOK, ReadsOK, NEW r \in Request, StageOf(r) # "idle"
  PROVE  request[r].of \in Session
  BY DEF ConstantsOK, TypeOK, ReadsOK, StageOf

-----------------------------------------------------------------------------
(* Types.                                                                  *)

LEMMA InitTyped == ASSUME ConstantsOK, Init PROVE TypeOK /\ ReadsOK
<1> USE DEF ConstantsOK, Init
<1>1. /\ session \in [Session -> [state : {"unused", "gone", "Active", "Completed", "Failed"},
                                  expected : 1..(MaxSeq + 1)]]
      /\ hash \in [Session -> [Seqs -> Payload \union {None}]]
      /\ chunk \in [Session -> [Seqs -> Payload \union {None}]]
  BY DEF Unused
<1>2. recording \in [Session -> Seq([final : Seqs, content : Seq(Payload)])]
  OBVIOUS
<1>3. Idle \in [stage : Stage, of : Session \union {None}, seq : Seqs,
                payload : Payload \union {None}, final : BOOLEAN, read : Seq(Payload)]
  BY DEF Idle, Stage, Seqs
<1>4. request \in [Request -> [stage : Stage, of : Session \union {None}, seq : Seqs,
                               payload : Payload \union {None}, final : BOOLEAN,
                               read : Seq(Payload)]]
  BY <1>3
<1>5. /\ answered \in [Session -> SUBSET [seq : Seqs, payload : Payload]]
      /\ overlapped \subseteq Session
      /\ faults \in 0..MaxFaults
  OBVIOUS
<1>6. ReadsOK
  BY DEF ReadsOK, StageOf, Idle
<1> QED
  BY <1>1, <1>2, <1>4, <1>5, <1>6 DEF TypeOK

\* A request, as the type invariant has it.
Requests ==
  [stage : Stage, of : Session \union {None}, seq : Seqs,
   payload : Payload \union {None}, final : BOOLEAN, read : Seq(Payload)]

LEMMA WentOnTyped ==
  ASSUME ConstantsOK, TypeOK, ReadsOK, NEW r \in Request, StageOf(r) # "idle",
         NEW st \in Stage \ {"idle"}, Goto(r, st)
  PROVE  /\ request' \in [Request -> Requests]
         /\ \A q \in Request : request'[q].stage = "idle" <=> request'[q].of = None
<1>1. request \in [Request -> Requests]
  BY DEF TypeOK, Requests
<1>2. [request[r] EXCEPT !.stage = st] \in Requests
  BY <1>1 DEF Requests
<1>3. request' = [request EXCEPT ![r] = request'[r]]
  BY <1>1, WentOn DEF Goto
<1>4. request' \in [Request -> Requests]
  BY <1>1, <1>2, <1>3, WentOn
<1>5. request[r].of # None
  BY DEF ReadsOK, StageOf
<1> QED
  BY <1>4, <1>5, WentOn DEF ReadsOK, StageOf

LEMMA ReturnedTyped ==
  ASSUME ConstantsOK, TypeOK, ReadsOK, NEW r \in Request, Leave(r)
  PROVE  /\ request' \in [Request -> Requests]
         /\ ReadsOK'
<1>1. request \in [Request -> Requests]
  BY DEF TypeOK, Requests
<1>2. Idle \in Requests
  BY DEF Idle, Requests, Stage, Seqs, ConstantsOK
<1>3. request' \in [Request -> Requests]
  BY <1>1, <1>2 DEF Leave
<1> QED
  BY <1>3, Returned DEF ReadsOK, StageOf, Idle

\* A stage in which nothing has been read yet.
LEMMA GoesOnUnread ==
  ASSUME ConstantsOK, TypeOK, ReadsOK, NEW r \in Request,
         StageOf(r) \in {"write", "save", "remember", "close"},
         NEW st \in {"save", "remember", "close", "list"}, Goto(r, st)
  PROVE  request' \in [Request -> Requests] /\ ReadsOK'
<1>1. st \in Stage \ {"idle"} /\ StageOf(r) # "idle"
  BY DEF Stage
<1>2. /\ request' \in [Request -> Requests]
      /\ \A q \in Request : request'[q].stage = "idle" <=> request'[q].of = None
  BY <1>1, WentOnTyped
<1> QED
  BY <1>2, WentOn DEF ReadsOK, StageOf

\* The first chunk is to be read.
LEMMA GoesOnToRead ==
  ASSUME ConstantsOK, TypeOK, ReadsOK, NEW r \in Request, StageOf(r) = "list", Goto(r, "read")
  PROVE  request' \in [Request -> Requests] /\ ReadsOK'
<1>1. /\ request' \in [Request -> Requests]
      /\ \A q \in Request : request'[q].stage = "idle" <=> request'[q].of = None
  BY WentOnTyped DEF Stage
<1>2. request[r].read = <<>>
  BY DEF ReadsOK, StageOf
<1>3. Len(request[r].read) < request[r].seq
  <2>1. request[r].seq \in 1..MaxSeq
    BY DEF TypeOK, Seqs
  <2> QED
    BY <1>2, <2>1 DEF ConstantsOK
<1> QED
  BY <1>1, <1>3, WentOn DEF ReadsOK, StageOf

\* All chunks have been read.
LEMMA GoesOnRead ==
  ASSUME ConstantsOK, TypeOK, ReadsOK, NEW r \in Request,
         StageOf(r) \in {"clean", "commit"}, NEW st \in {"commit", "purge"}, Goto(r, st)
  PROVE  request' \in [Request -> Requests] /\ ReadsOK'
<1>1. st \in Stage \ {"idle"} /\ StageOf(r) # "idle"
  BY DEF Stage
<1>2. /\ request' \in [Request -> Requests]
      /\ \A q \in Request : request'[q].stage = "idle" <=> request'[q].of = None
  BY <1>1, WentOnTyped
<1> QED
  BY <1>2, WentOn DEF ReadsOK, StageOf

\* One more chunk is read.
LEMMA ReadOne ==
  ASSUME ConstantsOK, TypeOK, ReadsOK, NEW r \in Request, StageOf(r) = "read",
         NEW p \in Payload,
         request' = [request EXCEPT
           ![r].read = Append(@, p),
           ![r].stage = IF Len(request[r].read) + 1 = request[r].seq THEN "clean" ELSE "read"]
  PROVE  /\ request' \in [Request -> Requests]
         /\ ReadsOK'
         /\ request'[r].read = Append(request[r].read, p)
         /\ request'[r].stage = IF Len(request[r].read) + 1 = request[r].seq
                                THEN "clean" ELSE "read"
         /\ request'[r].of = request[r].of
         /\ request'[r].seq = request[r].seq
         /\ request'[r].payload = request[r].payload
         /\ \A q \in Request \ {r} : request'[q] = request[q]
<1> DEFINE more == Append(request[r].read, p)
           st == IF Len(request[r].read) + 1 = request[r].seq THEN "clean" ELSE "read"
<1>1. request \in [Request -> Requests] /\ st \in Stage
  BY DEF TypeOK, Requests, Stage
<1>2. /\ more \in Seq(Payload)
      /\ Len(more) = Len(request[r].read) + 1
      /\ Len(request[r].read) \in Nat
      /\ Len(request[r].read) < request[r].seq
      /\ request[r].seq \in Nat
  BY <1>1 DEF ReadsOK, StageOf, Requests, Seqs
<1>3. /\ request'[r].read = more
      /\ request'[r].stage = st
      /\ request'[r].of = request[r].of
      /\ request'[r].seq = request[r].seq
      /\ request'[r].payload = request[r].payload
      /\ \A q \in Request \ {r} : request'[q] = request[q]
  BY <1>1 DEF Requests
<1>4. request'[r] \in Requests
  BY <1>1, <1>2 DEF Requests
<1>5. request' \in [Request -> Requests]
  BY <1>1, <1>3, <1>4
<1> HIDE DEF more
<1>6. \/ st = "clean" /\ Len(more) = request[r].seq
      \/ st = "read" /\ Len(more) < request[r].seq
  BY <1>2
<1>7. request[r].of # None
  BY DEF ReadsOK, StageOf
<1> HIDE DEF st
<1>8. ReadsOK'
  BY <1>3, <1>6, <1>7 DEF ReadsOK, StageOf
<1> QED
  BY <1>3, <1>5, <1>8 DEF more, st

\* The tables that a handler writes.
LEMMA SavedTyped ==
  ASSUME ConstantsOK, TypeOK, NEW r \in Request, request[r].of \in Session,
         NEW st \in {"Active", "Completed", "Failed"},
         session' = [session EXCEPT ![request[r].of] = HashOf(r, st)]
  PROVE  session' \in [Session -> [state : {"unused", "gone", "Active", "Completed", "Failed"},
                                   expected : 1..(MaxSeq + 1)]]
<1>1. request[r].seq \in 1..MaxSeq /\ MaxSeq \in Nat
  BY DEF TypeOK, Seqs, ConstantsOK
<1>2. request[r].seq + 1 \in 1..(MaxSeq + 1)
  BY <1>1
<1>3. HashOf(r, st) \in [state : {"unused", "gone", "Active", "Completed", "Failed"},
                         expected : 1..(MaxSeq + 1)]
  BY <1>2 DEF HashOf
<1> QED
  BY <1>3 DEF TypeOK

LEMMA AnsweredTyped ==
  ASSUME ConstantsOK, TypeOK, ReadsOK, NEW r \in Request, StageOf(r) # "idle", Answer(r)
  PROVE  /\ answered' \in [Session -> SUBSET [seq : Seqs, payload : Payload]]
         /\ request' \in [Request -> Requests]
         /\ ReadsOK'
<1>1. Leave(r)
  BY DEF Answer
<1>2. [seq |-> request[r].seq, payload |-> request[r].payload] \in [seq : Seqs, payload : Payload]
  BY DEF TypeOK, ReadsOK
<1>3. answered' \in [Session -> SUBSET [seq : Seqs, payload : Payload]]
  BY <1>2 DEF Answer, TypeOK
<1> QED
  BY <1>1, <1>3, ReturnedTyped

\* A merge that fails.
LEMMA FailedTyped ==
  ASSUME ConstantsOK, TypeOK, ReadsOK, NEW r \in Request, StageOf(r) # "idle",
         MergeFails(r), faults' \in 0..MaxFaults
  PROVE  TypeOK' /\ ReadsOK'
<1>1. request[r].of \in Session
  BY UnderWayOf
<1>2. Leave(r) /\ session' = [session EXCEPT ![request[r].of] = HashOf(r, "Failed")]
      /\ UNCHANGED <<hash, store, client>>
  BY DEF MergeFails
<1> QED
  BY <1>1, <1>2, SavedTyped, ReturnedTyped DEF TypeOK, Requests, store, client

\* A handler that returns without any change.
LEMMA LeftTyped ==
  ASSUME ConstantsOK, TypeOK, ReadsOK, NEW r \in Request, Leave(r),
         UNCHANGED <<redis, store, client>>, faults' \in 0..MaxFaults
  PROVE  TypeOK' /\ ReadsOK'
  BY ReturnedTyped DEF TypeOK, Requests, redis, store, client

LEMMA AcceptTyped ==
  ASSUME ConstantsOK, TypeOK, ReadsOK, NEW r \in Request, NEW s \in Session,
         NEW n \in Seqs, NEW p \in Payload, NEW final \in BOOLEAN, Accept(r, s, n, p, final)
  PROVE  TypeOK' /\ ReadsOK'
<1> DEFINE st == IF n < session[s].expected THEN "replay" ELSE "write"
           h == [stage |-> st, of |-> s, seq |-> n, payload |-> p, final |-> final, read |-> <<>>]
<1>1. request' = [request EXCEPT ![r] = h]
  BY DEF Accept
<1>2. st \in {"replay", "write"}
  OBVIOUS
<1> HIDE DEF st
<1>3. h \in Requests
  BY <1>2 DEF Requests, Stage
<1>4. request' \in [Request -> Requests]
  BY <1>1, <1>3 DEF TypeOK, Requests
<1>5. request'[r] = h /\ \A q \in Request \ {r} : request'[q] = request[q]
  BY <1>1 DEF TypeOK
<1>6. s # None
  BY DEF ConstantsOK
<1>7. ReadsOK'
  BY <1>2, <1>5, <1>6 DEF ReadsOK, StageOf
<1>8. overlapped' \subseteq Session /\ UNCHANGED <<redis, store, answered, faults>>
  BY DEF Accept, TypeOK
<1> QED
  BY <1>4, <1>7, <1>8 DEF TypeOK, Requests, redis, store

LEMMA OpenTyped ==
  ASSUME ConstantsOK, TypeOK, ReadsOK, NEW s \in Session, Open(s) PROVE TypeOK' /\ ReadsOK'
<1>1. session' \in [Session -> [state : {"unused", "gone", "Active", "Completed", "Failed"},
                                expected : 1..(MaxSeq + 1)]]
  BY DEF TypeOK, Open, ConstantsOK
<1> QED
  BY <1>1 DEF TypeOK, ReadsOK, StageOf, Open, store, client

LEMMA ExpireTyped ==
  ASSUME ConstantsOK, TypeOK, ReadsOK, NEW s \in Session, Expire(s) PROVE TypeOK' /\ ReadsOK'
<1>1. session' \in [Session -> [state : {"unused", "gone", "Active", "Completed", "Failed"},
                                expected : 1..(MaxSeq + 1)]]
  <2>1. Gone \in [state : {"unused", "gone", "Active", "Completed", "Failed"},
                  expected : 1..(MaxSeq + 1)]
    BY DEF Gone, ConstantsOK
  <2> QED
    BY <2>1 DEF TypeOK, Expire
<1>2. hash' \in [Session -> [Seqs -> Payload \union {None}]]
  <2>1. CASE UNCHANGED hash
    BY <2>1 DEF TypeOK
  <2>2. ASSUME NEW n \in Seqs, hash' = [hash EXCEPT ![s][n] = None]
        PROVE  hash' \in [Session -> [Seqs -> Payload \union {None}]]
    BY <2>2 DEF TypeOK
  <2> QED
    BY <2>1, <2>2 DEF Expire
<1>3. faults' \in 0..MaxFaults /\ UNCHANGED <<store, request, client>>
  BY DEF TypeOK, Expire, Fault, ConstantsOK
<1> QED
  BY <1>1, <1>2, <1>3 DEF TypeOK, ReadsOK, StageOf, store, client

LEMMA WorkTyped ==
  ASSUME ConstantsOK, TypeOK, ReadsOK, NEW r \in Request, Work(r) PROVE TypeOK' /\ ReadsOK'
<1>1. CASE Replay(r)
  <2>1. StageOf(r) # "idle" /\ UNCHANGED <<redis, store, overlapped, faults>>
    BY <1>1 DEF Replay, StageOf
  <2>2. CASE Answer(r)
    BY <2>1, <2>2, AnsweredTyped DEF TypeOK, Requests, redis, store
  <2>3. CASE Leave(r) /\ UNCHANGED answered
    BY <2>1, <2>3, ReturnedTyped DEF TypeOK, Requests, redis, store
  <2> QED
    BY <1>1, <2>2, <2>3 DEF Replay
<1>2. CASE WriteChunk(r)
  <2>1. StageOf(r) = "write" /\ Goto(r, "save") /\ UNCHANGED <<redis, recording, client, faults>>
    BY <1>2 DEF WriteChunk, StageOf
  <2>2. request[r].of \in Session /\ request[r].payload \in Payload
    BY <2>1, UnderWayOf DEF ReadsOK
  <2>3. chunk' \in [Session -> [Seqs -> Payload \union {None}]]
    BY <1>2, <2>2 DEF WriteChunk, TypeOK
  <2> QED
    BY <2>1, <2>3, GoesOnUnread DEF TypeOK, Requests, redis, client
<1>3. CASE SaveSession(r)
  <2>1. StageOf(r) = "save" /\ Goto(r, "remember") /\ UNCHANGED <<hash, store, client, faults>>
        /\ session' = [session EXCEPT ![request[r].of] = HashOf(r, "Active")]
    BY <1>3 DEF SaveSession, StageOf
  <2>2. request[r].of \in Session
    BY <2>1, UnderWayOf
  <2> QED
    BY <2>1, <2>2, SavedTyped, GoesOnUnread DEF TypeOK, Requests, store, client
<1>4. CASE RememberHash(r)
  <2>1. StageOf(r) = "remember" /\ UNCHANGED <<session, store, overlapped, faults>>
    BY <1>4 DEF RememberHash, StageOf
  <2>2. request[r].of \in Session /\ request[r].payload \in Payload
    BY <2>1, UnderWayOf DEF ReadsOK
  <2>3. hash' \in [Session -> [Seqs -> Payload \union {None}]]
    BY <1>4, <2>2 DEF RememberHash, TypeOK
  <2>4. CASE Goto(r, "close") /\ UNCHANGED answered
    BY <2>1, <2>3, <2>4, GoesOnUnread DEF TypeOK, Requests, store
  <2>5. CASE Answer(r)
    BY <2>1, <2>3, <2>5, AnsweredTyped DEF TypeOK, Requests, store
  <2> QED
    BY <1>4, <2>4, <2>5 DEF RememberHash
<1>5. CASE CloseSession(r)
  <2>1. StageOf(r) = "close" /\ Goto(r, "list") /\ UNCHANGED <<hash, store, client, faults>>
        /\ session' = [session EXCEPT ![request[r].of] = HashOf(r, "Completed")]
    BY <1>5 DEF CloseSession, StageOf
  <2>2. request[r].of \in Session
    BY <2>1, UnderWayOf
  <2> QED
    BY <2>1, <2>2, SavedTyped, GoesOnUnread DEF TypeOK, Requests, store, client
<1>6. CASE ListChunks(r)
  <2>1. StageOf(r) = "list" /\ UNCHANGED faults
    BY <1>6 DEF ListChunks, StageOf
  <2>2. CASE Goto(r, "read") /\ UNCHANGED <<redis, store, client>>
    BY <2>1, <2>2, GoesOnToRead DEF TypeOK, Requests, redis, store, client
  <2>3. CASE MergeFails(r)
    BY <2>1, <2>3, FailedTyped DEF TypeOK
  <2> QED
    BY <1>6, <2>2, <2>3 DEF ListChunks
<1>7. CASE ReadChunk(r)
  <2> DEFINE n == Len(request[r].read) + 1
             found == chunk[request[r].of][n]
  <2>1. StageOf(r) = "read" /\ UNCHANGED faults
    BY <1>7 DEF ReadChunk, StageOf
  <2>2. CASE found = None
    BY <1>7, <2>1, <2>2, FailedTyped DEF TypeOK, ReadChunk
  <2>3. CASE found # None
    <3>1. request[r].of \in Session /\ n \in Seqs
      <4>1. /\ Len(request[r].read) \in Nat /\ request[r].seq \in 1..MaxSeq
            /\ Len(request[r].read) < request[r].seq
        BY <2>1 DEF TypeOK, ReadsOK, Seqs
      <4>2. Len(request[r].read) + 1 \in 1..MaxSeq
        BY <4>1 DEF ConstantsOK
      <4> QED
        BY <2>1, <4>2, UnderWayOf DEF Seqs
    <3>2. found \in Payload
      BY <2>3, <3>1 DEF TypeOK
    <3>3. /\ request' = [request EXCEPT
               ![r].read = Append(@, found),
               ![r].stage = IF Len(request[r].read) + 1 = request[r].seq THEN "clean" ELSE "read"]
          /\ UNCHANGED <<redis, store, client>>
      BY <1>7, <2>3 DEF ReadChunk
    <3> HIDE DEF found
    <3>4. request' \in [Request -> Requests] /\ ReadsOK'
      BY <2>1, <3>2, <3>3, ReadOne
    <3> QED
      BY <2>1, <3>3, <3>4 DEF TypeOK, Requests, redis, store, client
  <2> QED
    BY <2>2, <2>3
<1>8. CASE DeleteChunks(r)
  <2>1. StageOf(r) = "clean" /\ Goto(r, "commit") /\ UNCHANGED <<redis, recording, client, faults>>
    BY <1>8 DEF DeleteChunks, StageOf
  <2>2. request[r].of \in Session
    BY <2>1, UnderWayOf
  <2>3. chunk' \in [Session -> [Seqs -> Payload \union {None}]]
    BY <1>8, <2>2 DEF DeleteChunks, TypeOK
  <2> QED
    BY <2>1, <2>3, GoesOnRead DEF TypeOK, Requests, redis, client
<1>9. CASE CommitRecording(r)
  <2>1. StageOf(r) = "commit" /\ Goto(r, "purge") /\ UNCHANGED <<redis, chunk, client, faults>>
    BY <1>9 DEF CommitRecording, StageOf
  <2>2. request[r].of \in Session
    BY <2>1, UnderWayOf
  <2>3. [final |-> request[r].seq, content |-> request[r].read]
          \in [final : Seqs, content : Seq(Payload)]
    BY DEF TypeOK
  <2>4. recording' \in [Session -> Seq([final : Seqs, content : Seq(Payload)])]
    <3> DEFINE T == [final : Seqs, content : Seq(Payload)]
               rec == [final |-> request[r].seq, content |-> request[r].read]
    <3>1. rec \in T /\ recording \in [Session -> Seq(T)]
      BY <2>3 DEF TypeOK
    <3>2. recording' = [recording EXCEPT ![request[r].of] = Append(@, rec)]
      BY <1>9 DEF CommitRecording
    <3> HIDE DEF rec, T
    <3>3. Append(recording[request[r].of], rec) \in Seq(T)
      BY <2>2, <3>1
    <3>4. recording' \in [Session -> Seq(T)]
      BY <3>1, <3>2, <3>3
    <3> QED
      BY <3>4 DEF T
  <2> QED
    BY <2>1, <2>4, GoesOnRead DEF TypeOK, Requests, redis, client
<1>10. CASE Purge(r)
  <2>1. StageOf(r) = "purge" /\ Answer(r) /\ UNCHANGED <<store, overlapped, faults>>
    BY <1>10 DEF Purge, StageOf
  <2>2. request[r].of \in Session
    BY <2>1, UnderWayOf
  <2>3. /\ session' \in [Session -> [state : {"unused", "gone", "Active", "Completed", "Failed"},
                                     expected : 1..(MaxSeq + 1)]]
        /\ hash' \in [Session -> [Seqs -> Payload \union {None}]]
    BY <1>10, <2>2 DEF Purge, Gone, TypeOK, ConstantsOK
  <2> QED
    BY <2>1, <2>3, AnsweredTyped DEF TypeOK, Requests, store
<1> QED
  BY <1>1, <1>2, <1>3, <1>4, <1>5, <1>6, <1>7, <1>8, <1>9, <1>10 DEF Work

LEMMA BrokenTyped ==
  ASSUME ConstantsOK, TypeOK, ReadsOK, NEW r \in Request, Raise(r) \/ Crash(r)
  PROVE  TypeOK' /\ ReadsOK'
<1>1. faults' \in 0..MaxFaults
  BY DEF Raise, Crash, Fault, TypeOK, ConstantsOK
<1>2. \/ Leave(r) /\ UNCHANGED <<redis, store, client>>
      \/ StageOf(r) # "idle" /\ MergeFails(r)
  BY DEF Raise, Crash, StageOf
<1> QED
  BY <1>1, <1>2, LeftTyped, FailedTyped

LEMMA NextTyped ==
  ASSUME ConstantsOK, TypeOK, ReadsOK, [Next]_vars PROVE TypeOK' /\ ReadsOK'
<1>1. CASE UNCHANGED vars
  BY <1>1 DEF vars, redis, store, client, TypeOK, ReadsOK, StageOf
<1> QED
  BY <1>1, AcceptTyped, OpenTyped, ExpireTyped, WorkTyped, BrokenTyped DEF Next, Handle

\* Every reachable state is well typed, for any sessions, requests and bounds.
THEOREM TypeCorrect == ASSUME ConstantsOK PROVE Spec => []TypeOK
<1>1. Init => TypeOK /\ ReadsOK
  BY InitTyped
<1>2. TypeOK /\ ReadsOK /\ [Next]_vars => (TypeOK /\ ReadsOK)'
  BY NextTyped
<1> QED
  BY <1>1, <1>2, PTL DEF Spec

-----------------------------------------------------------------------------
(* Whatever overlaps.                                                      *)

WholeInv == TypeOK /\ ReadsOK /\ RecordingIsWhole /\ ClosedOK

\* Only a commit writes recordings.
LEMMA RecordingsStep ==
  ASSUME [Next]_vars PROVE UNCHANGED recording \/ \E r \in Request : CommitRecording(r)
BY DEF Next, Handle, Work, vars, store, client, redis, Open, Expire, Accept, Raise, Crash,
       MergeFails, Replay, WriteChunk, SaveSession, RememberHash, CloseSession, ListChunks,
       ReadChunk, DeleteChunks, Purge

\* What a commit adds.
LEMMA CommitShape ==
  ASSUME ConstantsOK, TypeOK, ReadsOK, NEW r \in Request, CommitRecording(r)
  PROVE  LET s == request[r].of
             rec == [final |-> request[r].seq, content |-> request[r].read]
         IN  /\ s \in Session
             /\ recording'[s] = Append(recording[s], rec)
             /\ recording'[s] # <<>>
             /\ \A t \in Session \ {s} : recording'[t] = recording[t]
             /\ Len(request[r].read) = request[r].seq
<1> DEFINE T == [final : Seqs, content : Seq(Payload)]
           s == request[r].of
           rec == [final |-> request[r].seq, content |-> request[r].read]
<1>1. StageOf(r) = "commit"
  BY DEF CommitRecording, StageOf
<1>2. s \in Session /\ Len(request[r].read) = request[r].seq
  BY <1>1, UnderWayOf DEF ReadsOK
<1>3. recording' = [recording EXCEPT ![s] = Append(@, rec)]
  BY DEF CommitRecording
<1>4. rec \in T /\ recording[s] \in Seq(T) /\ recording \in [Session -> Seq(T)]
  BY <1>2 DEF TypeOK
<1> HIDE DEF T, rec, s
<1>5. Append(recording[s], rec) # <<>>
  <2>1. Len(Append(recording[s], rec)) = Len(recording[s]) + 1 /\ Len(recording[s]) \in Nat
    BY <1>4
  <2>2. Len(<<>>) = 0
    OBVIOUS
  <2> QED
    BY <2>1, <2>2
<1> QED
  BY <1>2, <1>3, <1>4, <1>5 DEF rec, s

LEMMA WholeStep ==
  ASSUME ConstantsOK, TypeOK, ReadsOK, RecordingIsWhole, [Next]_vars PROVE RecordingIsWhole'
<1>1. CASE UNCHANGED recording
  BY <1>1 DEF RecordingIsWhole
<1>2. ASSUME NEW r \in Request, CommitRecording(r) PROVE RecordingIsWhole'
  <2> DEFINE T == [final : Seqs, content : Seq(Payload)]
             rec == [final |-> request[r].seq, content |-> request[r].read]
  <2> SUFFICES ASSUME NEW s \in Session, NEW i \in DOMAIN recording'[s]
               PROVE  Len(recording'[s][i].content) = recording'[s][i].final
    BY DEF RecordingIsWhole
  <2>1. CASE s # request[r].of
    BY <1>2, <2>1, CommitShape DEF RecordingIsWhole
  <2>2. CASE s = request[r].of
    <3>1. recording'[s] = Append(recording[s], rec) /\ Len(rec.content) = rec.final
      BY <1>2, <2>2, CommitShape
    <3>2. recording[s] \in Seq(T) /\ rec \in T
      BY DEF TypeOK
    <3> HIDE DEF rec, T
    <3>3. i \in 1..(Len(recording[s]) + 1) /\ Len(recording[s]) \in Nat
      BY <3>1, <3>2
    <3>4. CASE i = Len(recording[s]) + 1
      BY <3>1, <3>2, <3>4
    <3>5. CASE i # Len(recording[s]) + 1
      <4>1. i \in DOMAIN recording[s] /\ recording'[s][i] = recording[s][i]
        BY <3>1, <3>2, <3>3, <3>5
      <4> QED
        BY <4>1 DEF RecordingIsWhole
    <3> QED
      BY <3>4, <3>5
  <2> QED
    BY <2>1, <2>2
<1> QED
  BY <1>1, <1>2, RecordingsStep

\* Closing is the only way to Completed.
LEMMA CompletedStep ==
  ASSUME ConstantsOK, TypeOK, ReadsOK, [Next]_vars, NEW s \in Session,
         session'[s].state = "Completed", session[s].state # "Completed"
  PROVE  \E r \in Request : CloseSession(r) /\ request[r].of = s
<1>1. ASSUME NEW t \in Session, Open(t) \/ Expire(t) PROVE FALSE
  <2>1. CASE Open(t)
    BY <2>1 DEF Open, TypeOK
  <2>2. CASE session' = [session EXCEPT ![t] = Gone]
    BY <2>2 DEF Gone, TypeOK
  <2>3. CASE UNCHANGED session
    BY <2>3
  <2> QED
    BY <1>1, <2>1, <2>2, <2>3 DEF Expire
<1>2. ASSUME NEW r \in Request, Handle(r)
      PROVE  CloseSession(r) /\ request[r].of = s
  <2>1. CASE CloseSession(r)
    BY <1>2, <2>1 DEF CloseSession, TypeOK
  <2>2. CASE SaveSession(r) \/ Purge(r) \/ MergeFails(r)
    BY <2>2 DEF SaveSession, Purge, MergeFails, HashOf, Gone, TypeOK
  <2>3. CASE UNCHANGED session
    BY <2>3
  <2> QED
    BY <1>2, <2>1, <2>2, <2>3
       DEF Handle, Work, Raise, Crash, Accept, Replay, WriteChunk, RememberHash, ListChunks,
           ReadChunk, DeleteChunks, CommitRecording, redis
<1> QED
  BY <1>1, <1>2 DEF Next, vars, redis

\* A request stays as it is unless it is its own turn.
LEMMA OnlyOwnSteps ==
  ASSUME ConstantsOK, TypeOK, [Next]_vars, NEW r \in Request, ~Handle(r)
  PROVE  request'[r] = request[r]
<1>1. ASSUME NEW q \in Request, Handle(q) PROVE request'[r] = request[r]
  <2>1. q # r
    BY <1>1
  <2>2. \A st : Goto(q, st) => request'[r] = request[r]
    BY <2>1, WentOn
  <2>3. Leave(q) => request'[r] = request[r]
    BY <2>1, Returned
  <2>4. CASE ReadChunk(q)
    BY <2>1, <2>3, <2>4 DEF ReadChunk, MergeFails, TypeOK
  <2>5. CASE \E s \in Session, n \in Seqs, p \in Payload, final \in BOOLEAN :
               Accept(q, s, n, p, final)
    BY <2>1, <2>5 DEF Accept, TypeOK
  <2>6. CASE Raise(q) \/ Crash(q)
    BY <2>3, <2>6 DEF Raise, Crash, MergeFails
  <2> QED
    BY <1>1, <2>2, <2>3, <2>4, <2>5, <2>6
       DEF Handle, Work, Replay, Answer, WriteChunk, SaveSession, RememberHash, CloseSession,
           ListChunks, MergeFails, DeleteChunks, CommitRecording, Purge
<1> QED
  BY <1>1 DEF Next, vars, Open, Expire

\* Whoever merges goes on, records, marks the session Failed, or dies.
LEMMA MergerStep ==
  ASSUME ConstantsOK, TypeOK, ReadsOK, NEW r \in Request, Handle(r),
         StageOf(r) \in {"list", "read", "clean", "commit"}
  PROVE  \/ /\ request'[r].of = request[r].of
            /\ request'[r].stage \in {"list", "read", "clean", "commit"}
         \/ CommitRecording(r)
         \/ session'[request[r].of].state = "Failed"
         \/ faults' = faults + 1
<1>1. MergeFails(r) => session'[request[r].of].state = "Failed"
  <2>1. request[r].of \in Session
    BY UnderWayOf
  <2> QED
    BY <2>1 DEF MergeFails, HashOf, TypeOK
<1>2. CASE Raise(r) \/ Crash(r)
  BY <1>2 DEF Raise, Crash, Fault
<1>3. CASE ListChunks(r)
  BY <1>1, <1>3, WentOn DEF ListChunks
<1>4. CASE ReadChunk(r)
  BY <1>1, <1>4 DEF ReadChunk, TypeOK
<1>5. CASE DeleteChunks(r)
  BY <1>5, WentOn DEF DeleteChunks
<1> QED
  BY <1>2, <1>3, <1>4, <1>5
     DEF Handle, Work, Accept, Idle, StageOf, Replay, WriteChunk, SaveSession, RememberHash,
         CloseSession, Purge

LEMMA ClosedStep ==
  ASSUME ConstantsOK, TypeOK, ReadsOK, ClosedOK, [Next]_vars PROVE ClosedOK'
<1> SUFFICES ASSUME NEW s \in Session, session'[s].state = "Completed",
                    recording'[s] = <<>>, ~(faults' > 0)
             PROVE  \E r \in Request :
                      /\ request'[r].of = s
                      /\ request'[r].stage \in {"list", "read", "clean", "commit"}
  BY DEF ClosedOK, InMerge, UnderWay, StageOf
<1>1. faults \in Nat /\ ~(faults > 0) /\ faults' = faults
  <2>1. faults \in Nat
    BY DEF TypeOK, ConstantsOK
  <2>2. faults' = faults \/ faults' = faults + 1
    BY DEF Next, Handle, Work, vars, store, client, redis, Open, Expire, Accept, Raise, Crash,
           MergeFails, Replay, WriteChunk, SaveSession, RememberHash, CloseSession, ListChunks,
           ReadChunk, DeleteChunks, CommitRecording, Purge, Fault
  <2> QED
    BY <2>1, <2>2
<1>2. recording[s] = <<>> /\ \A r \in Request : CommitRecording(r) => request[r].of # s
  BY RecordingsStep, CommitShape
<1>3. CASE session[s].state # "Completed"
  <2>1. PICK r \in Request : CloseSession(r) /\ request[r].of = s
    BY <1>3, CompletedStep
  <2>2. request'[r].stage = "list" /\ request'[r].of = s
    BY <2>1, WentOn DEF CloseSession
  <2> QED
    BY <2>2
<1>4. CASE session[s].state = "Completed"
  <2>1. PICK r \in Request : request[r].of = s /\ StageOf(r) \in {"list", "read", "clean", "commit"}
    BY <1>1, <1>2, <1>4 DEF ClosedOK, InMerge, UnderWay
  <2>2. CASE ~Handle(r)
    BY <2>1, <2>2, OnlyOwnSteps DEF StageOf
  <2>3. CASE Handle(r)
    BY <1>1, <1>2, <2>1, <2>3, MergerStep
  <2> QED
    BY <2>2, <2>3
<1> QED
  BY <1>3, <1>4

LEMMA WholeInvariance == ASSUME ConstantsOK PROVE Spec => []WholeInv
<1>1. Init => WholeInv
  <2>1. Init => TypeOK /\ ReadsOK
    BY InitTyped
  <2>2. Init => RecordingIsWhole /\ ClosedOK
    BY DEF Init, RecordingIsWhole, ClosedOK, Unused
  <2> QED
    BY <2>1, <2>2 DEF WholeInv
<1>2. WholeInv /\ [Next]_vars => WholeInv'
  BY NextTyped, WholeStep, ClosedStep DEF WholeInv
<1> QED
  BY <1>1, <1>2, PTL DEF Spec

\* However requests of a session overlap and fail, a Recording has as many chunks
\* as the request that made it said.
THEOREM RecordingsAreWhole == ASSUME ConstantsOK PROVE Spec => []RecordingIsWhole
<1>1. WholeInv => RecordingIsWhole
  BY DEF WholeInv
<1> QED
  BY <1>1, WholeInvariance, PTL

\* A closed session that nobody works on is recorded, unless something failed.
THEOREM ClosingIsNotForgotten == ASSUME ConstantsOK PROVE Spec => []ClosedIsRecorded
<1>1. WholeInv => ClosedIsRecorded
  BY DEF WholeInv, ClosedOK, InMerge, ClosedIsRecorded
<1> QED
  BY <1>1, WholeInvariance, PTL

-----------------------------------------------------------------------------
(* Requests in turn.                                                       *)

\* A session that nothing happens to.
LEMMA OtherSession ==
  ASSUME NEW s \in Session, InTurn(s),
         session'[s] = session[s], hash'[s] = hash[s], chunk'[s] = chunk[s],
         recording'[s] = recording[s], answered'[s] = answered[s],
         \A r \in Request : request[r].of = s \/ request'[r].of = s => request'[r] = request[r]
  PROVE  InTurn(s)'
<1>1. UnderWay(s)' = UnderWay(s) /\ \A r \in UnderWay(s) : r \in Request /\ request'[r] = request[r]
  BY DEF UnderWay
<1>2. \A n : Current(s, n)' <=> Current(s, n)
  BY DEF Current
<1>3. ASSUME NEW r \in UnderWay(s) PROVE HandlerOK(s, r)'
  <2>1. HandlerOK(s, r) /\ request'[r] = request[r]
    BY <1>1 DEF InTurn
  <2>2. HasRead(s, r)' <=> HasRead(s, r)
    BY <2>1 DEF HasRead
  <2>3. \A n : Expects(s, n)' <=> Expects(s, n)
    BY DEF Expects
  <2> QED
    BY <1>2, <2>1, <2>2, <2>3 DEF HandlerOK, StageOf
<1>4. AnsweredOK(s)'
  BY DEF InTurn, AnsweredOK
<1> QED
  BY <1>1, <1>2, <1>3, <1>4 DEF InTurn, StageOf

\* What has to be shown when r was the only request of s.
LEMMA TurnTaken ==
  ASSUME NEW s \in Session, NEW r \in Request, (UnderWay(s) \subseteq {r})',
         session'[s].state # "unused",
         session'[s].state = "Active" =>
           Current(s, session[s].expected)' /\ recording'[s] = <<>>,
         request'[r].of = s =>
           HandlerOK(s, r)' /\ (recording'[s] # <<>> => request'[r].stage = "purge"),
         AnsweredOK(s)'
  PROVE  InTurn(s)'
<1>1. \A q \in UnderWay(s)' : q = r /\ request'[r].of = s
  BY DEF UnderWay
<1> QED
  BY <1>1 DEF InTurn, StageOf

\* What r knows of its session when no other request is under way.
LEMMA TurnFacts ==
  ASSUME ConstantsOK, TypeOK, ReadsOK, NEW s \in Session, NEW r \in Request,
         request[r].of = s, InTurn(s)
  PROVE  /\ HandlerOK(s, r)
         /\ session[s].state # "unused"
         /\ StageOf(r) # "idle"
         /\ request[r].seq \in Seqs /\ request[r].seq \in Nat \ {0}
         /\ request[r].payload \in Payload /\ request[r].payload # None
         /\ StageOf(r) # "purge" => recording[s] = <<>>
         /\ session[s].state = "Active" =>
              Current(s, session[s].expected) /\ recording[s] = <<>>
         /\ \A q \in Request \ {r} : request[q].of # s
         /\ s # None
<1>1. r \in UnderWay(s) /\ s # None
  BY DEF UnderWay, ConstantsOK
<1>2. StageOf(r) # "idle"
  BY <1>1 DEF ReadsOK
<1>3. request[r].seq \in Seqs /\ request[r].seq \in Nat \ {0}
  BY DEF TypeOK, Seqs, ConstantsOK
<1>4. request[r].payload \in Payload /\ request[r].payload # None
  BY <1>2 DEF ReadsOK, ConstantsOK
<1> QED
  BY <1>1, <1>2, <1>3, <1>4 DEF InTurn, UnderWay

\* Nothing is recorded, so nothing is missing from a recording.
LEMMA NothingRecorded ==
  ASSUME NEW s \in Session, recording'[s] = <<>> PROVE AnsweredOK(s)'
BY DEF AnsweredOK

\* r returns, and at most marks its session Failed.
LEMMA TurnLeft ==
  ASSUME ConstantsOK, TypeOK, ReadsOK, NEW s \in Session, NEW r \in Request,
         request[r].of = s, InTurn(s), Leave(r),
         hash'[s] = hash[s], chunk'[s] = chunk[s], recording'[s] = recording[s],
         answered'[s] = answered[s],
         session'[s] = session[s] \/ session'[s].state = "Failed"
  PROVE  InTurn(s)'
<1>1. (UnderWay(s) \subseteq {r})' /\ request'[r].of # s
  BY Returned, TurnFacts DEF UnderWay
<1>2. session'[s].state = "Active" =>
        Current(s, session[s].expected)' /\ recording'[s] = <<>>
  BY TurnFacts DEF Current
<1>3. AnsweredOK(s)'
  BY DEF InTurn, AnsweredOK
<1>4. session'[s].state # "unused"
  BY TurnFacts
<1> QED
  BY <1>1, <1>2, <1>3, <1>4, TurnTaken

\* r goes on.
LEMMA TurnGoesOn ==
  ASSUME ConstantsOK, TypeOK, ReadsOK, NEW s \in Session, NEW r \in Request,
         request[r].of = s, InTurn(s),
         request'[r].of = s, \A q \in Request \ {r} : request'[q] = request[q],
         session'[s].state # "unused",
         session'[s].state = "Active" => Current(s, session[s].expected)',
         recording'[s] = recording[s], StageOf(r) # "purge",
         HandlerOK(s, r)'
  PROVE  InTurn(s)'
<1>1. (UnderWay(s) \subseteq {r})'
  BY TurnFacts DEF UnderWay
<1>2. recording'[s] = <<>>
  BY TurnFacts
<1> QED
  BY <1>1, <1>2, NothingRecorded, TurnTaken

LEMMA WriteTurn ==
  ASSUME ConstantsOK, TypeOK, ReadsOK, NEW s \in Session, NEW r \in Request,
         request[r].of = s, InTurn(s), WriteChunk(r)
  PROVE  InTurn(s)'
<1> DEFINE n == request[r].seq
<1>1. /\ StageOf(r) = "write" /\ Goto(r, "save")
      /\ session' = session /\ hash' = hash /\ recording' = recording /\ answered' = answered
  BY DEF WriteChunk, StageOf, redis, client
<1>2. Current(s, n) /\ Expects(s, n)
  BY <1>1, TurnFacts DEF HandlerOK
<1>3. /\ chunk'[s][n] = request[r].payload
      /\ \A m \in Seqs \ {n} : chunk'[s][m] = chunk[s][m]
  BY TurnFacts DEF WriteChunk, TypeOK
<1>4. n \in Nat /\ \A a \in answered[s] : a.seq \in Seqs /\ a.seq \in Nat
  BY TurnFacts DEF TypeOK, Seqs
<1>5. ASSUME NEW k, k = n PROVE Current(s, k)'
  <2>1. \A a \in answered[s] : a.seq < k /\ chunk'[s][a.seq] = a.payload
    BY <1>2, <1>3, <1>4, <1>5 DEF Current
  <2>2. \A m \in Seqs : hash[s][m] # None => m < k /\ chunk'[s][m] = hash[s][m]
    BY <1>2, <1>3, <1>4, <1>5 DEF Current
  <2> QED
    BY <1>1, <2>1, <2>2 DEF Current
<1>6. session'[s].state = "Active" => Current(s, session[s].expected)'
  BY <1>1, <1>2, <1>5 DEF Expects
<1>7. HandlerOK(s, r)'
  <2>1. request'[r].stage = "save" /\ request'[r].seq = n /\ request'[r].payload = request[r].payload
    BY <1>1, WentOn
  <2>2. Current(s, request[r].seq)'
    BY <1>5, <2>1 DEF Current
  <2>3. Expects(s, request[r].seq)'
    BY <1>1, <1>2, <2>1 DEF Expects
  <2> QED
    BY <1>3, <2>1, <2>2, <2>3 DEF HandlerOK, StageOf
<1> QED
  BY <1>1, <1>6, <1>7, WentOn, TurnFacts, TurnGoesOn

LEMMA SaveTurn ==
  ASSUME ConstantsOK, TypeOK, ReadsOK, NEW s \in Session, NEW r \in Request,
         request[r].of = s, InTurn(s), SaveSession(r)
  PROVE  InTurn(s)'
<1> DEFINE n == request[r].seq
<1>1. /\ StageOf(r) = "save" /\ Goto(r, "remember")
      /\ chunk' = chunk /\ hash' = hash /\ recording' = recording /\ answered' = answered
  BY DEF SaveSession, StageOf, store, client
<1>2. Current(s, n) /\ chunk[s][n] = request[r].payload
  BY <1>1, TurnFacts DEF HandlerOK
<1>3. session'[s] = [state |-> "Active", expected |-> n + 1]
  BY TurnFacts DEF SaveSession, HashOf, TypeOK
<1>4. n \in Nat /\ \A a \in answered[s] : a.seq \in Nat
  BY TurnFacts DEF TypeOK, Seqs
<1>5. ASSUME NEW k \in {n, n + 1} PROVE Current(s, k)'
  <2>1. \A a \in answered[s] : a.seq < k /\ chunk[s][a.seq] = a.payload
    BY <1>2, <1>4 DEF Current
  <2>2. \A m \in Seqs : hash[s][m] # None => m < k /\ chunk[s][m] = hash[s][m]
    BY <1>2, <1>4 DEF Current, Seqs
  <2> QED
    BY <1>1, <2>1, <2>2 DEF Current
<1>6. Current(s, session[s].expected)'
  BY <1>3, <1>5 DEF Current
<1>7. HandlerOK(s, r)'
  <2>1. request'[r].stage = "remember" /\ request'[r].seq = n
        /\ request'[r].payload = request[r].payload
    BY <1>1, WentOn
  <2>2. Current(s, request[r].seq)'
    BY <1>5, <2>1 DEF Current
  <2>3. Expects(s, request[r].seq + 1)'
    BY <1>3, <2>1 DEF Expects
  <2> QED
    BY <1>1, <1>2, <2>1, <2>2, <2>3 DEF HandlerOK, StageOf
<1>8. session'[s].state # "unused"
  BY <1>3
<1> QED
  BY <1>1, <1>6, <1>7, <1>8, WentOn, TurnFacts, TurnGoesOn

\* What a request that is answered adds.
LEMMA AnswerShape ==
  ASSUME TypeOK, NEW s \in Session, NEW r \in Request, request[r].of = s, Answer(r)
  PROVE  /\ answered'[s] = answered[s] \union
              {[seq |-> request[r].seq, payload |-> request[r].payload]}
         /\ Leave(r)
BY DEF Answer, TypeOK

\* The checksum is kept; all that was acknowledged, and r's chunk, is stored.
LEMMA RememberShape ==
  ASSUME ConstantsOK, TypeOK, ReadsOK, NEW s \in Session, NEW r \in Request,
         request[r].of = s, InTurn(s), RememberHash(r)
  PROVE  /\ StageOf(r) = "remember"
         /\ UNCHANGED <<session, chunk, recording>>
         /\ chunk[s][request[r].seq] = request[r].payload
         /\ Expects(s, request[r].seq + 1)
         /\ \A a \in answered[s] : a.seq < request[r].seq + 1 /\ chunk[s][a.seq] = a.payload
         /\ \A m \in Seqs : hash'[s][m] # None =>
              m < request[r].seq + 1 /\ chunk[s][m] = hash'[s][m]
<1> DEFINE n == request[r].seq
<1>1. StageOf(r) = "remember" /\ UNCHANGED <<session, chunk, recording>>
  BY DEF RememberHash, StageOf, store
<1>2. Current(s, n) /\ chunk[s][n] = request[r].payload /\ Expects(s, n + 1)
  BY <1>1, TurnFacts DEF HandlerOK
<1>3. /\ hash'[s][n] = request[r].payload
      /\ \A m \in Seqs \ {n} : hash'[s][m] = hash[s][m]
  BY TurnFacts DEF RememberHash, TypeOK
<1>4. n \in Nat /\ (\A a \in answered[s] : a.seq \in Nat) /\ \A m \in Seqs : m \in Nat
  BY TurnFacts DEF TypeOK, Seqs
<1>5. \A a \in answered[s] : a.seq < n + 1 /\ chunk[s][a.seq] = a.payload
  BY <1>2, <1>4 DEF Current
<1>6. \A m \in Seqs : hash'[s][m] # None => m < n + 1 /\ chunk[s][m] = hash'[s][m]
  BY <1>2, <1>3, <1>4 DEF Current
<1> QED
  BY <1>1, <1>2, <1>5, <1>6

LEMMA RememberTurn ==
  ASSUME ConstantsOK, TypeOK, ReadsOK, NEW s \in Session, NEW r \in Request,
         request[r].of = s, InTurn(s), RememberHash(r)
  PROVE  InTurn(s)'
<1> DEFINE n == request[r].seq
<1>1. recording'[s] = <<>> /\ session'[s].state # "unused"
  BY RememberShape, TurnFacts
<1>2. CASE Goto(r, "close") /\ UNCHANGED answered
  <2>1. ASSUME NEW k, k = n + 1 PROVE Current(s, k)'
    BY <1>2, <2>1, RememberShape DEF Current
  <2>2. session'[s].state = "Active" => Current(s, session[s].expected)'
    <3>1. session'[s].state = "Active" => session'[s].expected = n + 1
      <4>1. Expects(s, n + 1) /\ session' = session
        BY RememberShape
      <4> QED
        BY <4>1 DEF Expects
    <3> QED
      BY <2>1, <3>1 DEF Current
  <2>3. HandlerOK(s, r)'
    <3>1. request'[r].stage = "close" /\ request'[r].seq = n
          /\ request'[r].payload = request[r].payload
      BY <1>2, WentOn
    <3>2. Current(s, request[r].seq + 1)'
      BY <2>1, <3>1 DEF Current
    <3>3. Expects(s, request[r].seq + 1)'
      BY <3>1, RememberShape DEF Expects
    <3> QED
      BY <3>1, <3>2, <3>3, RememberShape DEF HandlerOK, StageOf
  <2> QED
    BY <1>1, <1>2, <2>2, <2>3, WentOn, TurnFacts, TurnGoesOn, RememberShape
<1>3. CASE Answer(r)
  <2>1. ASSUME NEW k, k = n + 1 PROVE Current(s, k)'
    <3>1. \A a \in answered'[s] : a.seq < k /\ chunk'[s][a.seq] = a.payload
      <4>1. n \in Nat
        BY TurnFacts
      <4> QED
        BY <1>3, <2>1, <4>1, AnswerShape, RememberShape
    <3> QED
      BY <2>1, <3>1, RememberShape DEF Current
  <2>2. session'[s].state = "Active" => Current(s, session[s].expected)'
    <3>1. session'[s].state = "Active" => session'[s].expected = n + 1
      <4>1. Expects(s, n + 1) /\ session' = session
        BY RememberShape
      <4> QED
        BY <4>1 DEF Expects
    <3> QED
      BY <2>1, <3>1 DEF Current
  <2>3. (UnderWay(s) \subseteq {r})' /\ request'[r].of # s
    BY <1>3, AnswerShape, Returned, TurnFacts DEF UnderWay
  <2> QED
    BY <1>1, <2>2, <2>3, NothingRecorded, TurnTaken
<1> QED
  BY <1>2, <1>3 DEF RememberHash

LEMMA CloseTurn ==
  ASSUME ConstantsOK, TypeOK, ReadsOK, NEW s \in Session, NEW r \in Request,
         request[r].of = s, InTurn(s), CloseSession(r)
  PROVE  InTurn(s)'
<1> DEFINE n == request[r].seq
<1>1. /\ StageOf(r) = "close" /\ Goto(r, "list")
      /\ chunk' = chunk /\ hash' = hash /\ recording' = recording /\ answered' = answered
  BY DEF CloseSession, StageOf, store, client
<1>2. Current(s, n + 1) /\ chunk[s][n] = request[r].payload
  BY <1>1, TurnFacts DEF HandlerOK
<1>3. session'[s].state = "Completed"
  BY DEF CloseSession, HashOf, TypeOK
<1>4. HandlerOK(s, r)'
  <2>1. request'[r].stage = "list" /\ request'[r].seq = n
        /\ request'[r].payload = request[r].payload
    BY <1>1, WentOn
  <2>2. Current(s, request[r].seq + 1)'
    BY <1>1, <1>2, <2>1 DEF Current
  <2> QED
    BY <1>1, <1>2, <1>3, <2>1, <2>2 DEF HandlerOK, StageOf
<1> QED
  BY <1>1, <1>3, <1>4, WentOn, TurnFacts, TurnGoesOn

LEMMA ListTurn ==
  ASSUME ConstantsOK, TypeOK, ReadsOK, NEW s \in Session, NEW r \in Request,
         request[r].of = s, InTurn(s), StageOf(r) = "list", Goto(r, "read"),
         UNCHANGED <<redis, store, client>>
  PROVE  InTurn(s)'
<1>1. session' = session /\ chunk' = chunk /\ hash' = hash /\ recording' = recording
      /\ answered' = answered
  BY DEF redis, store, client
<1>2. /\ Current(s, request[r].seq + 1) /\ chunk[s][request[r].seq] = request[r].payload
      /\ session[s].state \notin {"unused", "Active"}
  BY TurnFacts DEF HandlerOK
<1>3. request'[r].stage = "read" /\ request'[r].seq = request[r].seq
      /\ request'[r].payload = request[r].payload /\ request'[r].read = <<>>
  BY WentOn DEF ReadsOK
<1>4. Current(s, request[r].seq + 1)'
  BY <1>1, <1>2, <1>3 DEF Current
<1>5. \A i \in 1..Len(request'[r].read) : request'[r].read[i] = chunk'[s][i]
  BY <1>3
<1>6. HandlerOK(s, r)'
  BY <1>1, <1>2, <1>3, <1>4, <1>5 DEF HandlerOK, StageOf
<1> QED
  BY <1>1, <1>2, <1>6, WentOn, TurnFacts, TurnGoesOn

LEMMA ReadTurn ==
  ASSUME ConstantsOK, TypeOK, ReadsOK, NEW s \in Session, NEW r \in Request,
         request[r].of = s, InTurn(s), StageOf(r) = "read", NEW p \in Payload,
         p = chunk[s][Len(request[r].read) + 1],
         request' = [request EXCEPT
           ![r].read = Append(@, p),
           ![r].stage = IF Len(request[r].read) + 1 = request[r].seq THEN "clean" ELSE "read"],
         UNCHANGED <<redis, store, client>>
  PROVE  InTurn(s)'
<1> DEFINE n == request[r].seq
           before == request[r].read
           more == request'[r].read
<1>1. session' = session /\ chunk' = chunk /\ hash' = hash /\ recording' = recording
      /\ answered' = answered
  BY DEF redis, store, client
<1>2. /\ Current(s, n + 1) /\ chunk[s][n] = request[r].payload
      /\ session[s].state \notin {"unused", "Active"}
      /\ \A i \in 1..Len(before) : before[i] = chunk[s][i]
  BY TurnFacts DEF HandlerOK
<1>3. /\ more = Append(before, p)
      /\ request'[r].stage = IF Len(before) + 1 = n THEN "clean" ELSE "read"
      /\ request'[r].of = s /\ request'[r].seq = n /\ request'[r].payload = request[r].payload
      /\ \A q \in Request \ {r} : request'[q] = request[q]
  BY ReadOne
<1>4. before \in Seq(Payload)
  BY DEF TypeOK
<1> HIDE DEF before, more
<1>5. /\ Len(more) = Len(before) + 1 /\ Len(before) \in Nat
      /\ more[Len(before) + 1] = p
      /\ \A i \in 1..Len(before) : more[i] = before[i]
  BY <1>3, <1>4
<1>6. \A i \in 1..Len(more) : more[i] = chunk[s][i]
  BY <1>2, <1>5 DEF before
<1>7. Current(s, request[r].seq + 1)'
  BY <1>1, <1>2, <1>3 DEF Current
<1>8. ASSUME Len(before) + 1 = n PROVE HasRead(s, r)'
  <2>1. \A a \in answered[s] : a.seq \in 1..n /\ chunk[s][a.seq] = a.payload
    <3>1. \A a \in answered[s] : a.seq \in Nat \ {0} /\ a.seq < n + 1 /\ chunk[s][a.seq] = a.payload
      BY <1>2 DEF Current, TypeOK, Seqs, ConstantsOK
    <3> QED
      BY <3>1, TurnFacts
  <2>2. n \in 1..Len(more) /\ 1..Len(more) = 1..n
    BY <1>5, <1>8, TurnFacts
  <2>3. \A a \in answered[s] : a.seq <= n /\ more[a.seq] = a.payload
    BY <1>6, <2>1, <2>2
  <2>4. more[n] = request[r].payload
    BY <1>2, <1>6, <2>2
  <2> QED
    BY <1>1, <1>3, <2>3, <2>4 DEF HasRead, more
<1>9. HandlerOK(s, r)'
  <2>1. CASE Len(before) + 1 = n
    <3>1. request'[r].stage = "clean"
      BY <1>3, <2>1
    <3>2. HasRead(s, r)' /\ session'[s].state \notin {"unused", "Active"}
      BY <1>1, <1>2, <1>8, <2>1
    <3> QED
      BY <3>1, <3>2 DEF HandlerOK, StageOf
  <2>2. CASE Len(before) + 1 # n
    <3>1. \A i \in 1..Len(request'[r].read) : request'[r].read[i] = chunk'[s][i]
      BY <1>1, <1>6 DEF more
    <3> QED
      BY <1>1, <1>2, <1>3, <1>7, <2>2, <3>1 DEF HandlerOK, StageOf
  <2> QED
    BY <2>1, <2>2
<1> QED
  BY <1>1, <1>2, <1>3, <1>9, TurnFacts, TurnGoesOn

LEMMA DeleteTurn ==
  ASSUME ConstantsOK, TypeOK, ReadsOK, NEW s \in Session, NEW r \in Request,
         request[r].of = s, InTurn(s), DeleteChunks(r)
  PROVE  InTurn(s)'
<1>1. /\ StageOf(r) = "clean" /\ Goto(r, "commit")
      /\ session' = session /\ hash' = hash /\ recording' = recording /\ answered' = answered
  BY DEF DeleteChunks, StageOf, redis, client
<1>2. HasRead(s, r) /\ session[s].state \notin {"unused", "Active"}
  BY <1>1, TurnFacts DEF HandlerOK
<1>3. request'[r].stage = "commit" /\ request'[r].of = s /\ request'[r].seq = request[r].seq
      /\ request'[r].payload = request[r].payload /\ request'[r].read = request[r].read
  BY <1>1, WentOn
<1>4. HasRead(s, r)'
  BY <1>1, <1>2, <1>3 DEF HasRead
<1>5. HandlerOK(s, r)'
  BY <1>1, <1>2, <1>3, <1>4 DEF HandlerOK, StageOf
<1> QED
  BY <1>1, <1>2, <1>5, WentOn, TurnFacts, TurnGoesOn

LEMMA CommitTurn ==
  ASSUME ConstantsOK, TypeOK, ReadsOK, NEW s \in Session, NEW r \in Request,
         request[r].of = s, InTurn(s), CommitRecording(r)
  PROVE  InTurn(s)'
<1> DEFINE rec == [final |-> request[r].seq, content |-> request[r].read]
<1>1. /\ StageOf(r) = "commit" /\ Goto(r, "purge")
      /\ session' = session /\ hash' = hash /\ chunk' = chunk /\ answered' = answered
  BY DEF CommitRecording, StageOf, redis, client
<1>2. HasRead(s, r) /\ session[s].state \notin {"unused", "Active"}
  BY <1>1, TurnFacts DEF HandlerOK
<1>3. request'[r].stage = "purge" /\ request'[r].of = s /\ request'[r].seq = request[r].seq
      /\ request'[r].payload = request[r].payload /\ request'[r].read = request[r].read
      /\ \A q \in Request \ {r} : request'[q] = request[q]
  BY <1>1, WentOn
<1>4. \A i \in DOMAIN recording'[s] : recording'[s][i] = rec
  <2>1. recording'[s] = Append(recording[s], rec) /\ recording[s] = <<>>
    BY <1>1, CommitShape, TurnFacts
  <2> HIDE DEF rec
  <2>2. recording'[s] = <<rec>>
    BY <2>1
  <2> QED
    BY <2>2
<1>5. HasRead(s, r)'
  BY <1>1, <1>2, <1>3 DEF HasRead
<1>6. HandlerOK(s, r)'
  BY <1>1, <1>2, <1>3, <1>4, <1>5 DEF HandlerOK, StageOf
<1>7. AnsweredOK(s)'
  <2> SUFFICES ASSUME NEW i \in DOMAIN recording'[s], NEW a \in answered[s]
               PROVE  /\ a.seq <= recording'[s][i].final
                      /\ recording'[s][i].content[a.seq] = a.payload
    BY <1>1 DEF AnsweredOK
  <2>1. recording'[s][i] = rec
    BY <1>4
  <2> QED
    BY <1>2, <2>1 DEF HasRead
<1>8. (UnderWay(s) \subseteq {r})'
  BY <1>3, TurnFacts DEF UnderWay
<1> QED
  BY <1>1, <1>2, <1>3, <1>6, <1>7, <1>8, TurnTaken

LEMMA PurgeTurn ==
  ASSUME ConstantsOK, TypeOK, ReadsOK, NEW s \in Session, NEW r \in Request,
         request[r].of = s, InTurn(s), Purge(r)
  PROVE  InTurn(s)'
<1>1. StageOf(r) = "purge" /\ Answer(r) /\ recording' = recording
  BY DEF Purge, StageOf, store
<1>2. session'[s].state = "gone"
  BY DEF Purge, Gone, TypeOK
<1>3. /\ HasRead(s, r)
      /\ \A i \in DOMAIN recording[s] :
           recording[s][i] = [final |-> request[r].seq, content |-> request[r].read]
  BY <1>1, TurnFacts DEF HandlerOK
<1>4. AnsweredOK(s)'
  <2> SUFFICES ASSUME NEW i \in DOMAIN recording[s], NEW a \in answered'[s]
               PROVE  /\ a.seq <= recording[s][i].final
                      /\ recording[s][i].content[a.seq] = a.payload
    BY <1>1 DEF AnsweredOK
  <2>1. /\ recording[s][i].final = request[r].seq
        /\ recording[s][i].content = request[r].read
    BY <1>3
  <2>2. CASE a \in answered[s]
    BY <1>3, <2>1, <2>2 DEF HasRead
  <2>3. CASE a = [seq |-> request[r].seq, payload |-> request[r].payload]
    <3>1. request[r].seq <= request[r].seq
      BY TurnFacts
    <3> QED
      BY <1>3, <2>1, <2>3, <3>1 DEF HasRead
  <2> QED
    BY <1>1, <2>2, <2>3, AnswerShape
<1>5. (UnderWay(s) \subseteq {r})' /\ request'[r].of # s
  BY <1>1, AnswerShape, Returned, TurnFacts DEF UnderWay
<1> QED
  BY <1>2, <1>4, <1>5, TurnTaken

\* A replay that is answered is of a chunk that is stored as it was sent.
LEMMA ReplayTurn ==
  ASSUME ConstantsOK, TypeOK, ReadsOK, NEW s \in Session, NEW r \in Request,
         request[r].of = s, InTurn(s), Replay(r)
  PROVE  InTurn(s)'
<1> DEFINE n == request[r].seq
<1>1. /\ StageOf(r) = "replay"
      /\ session' = session /\ hash' = hash /\ chunk' = chunk /\ recording' = recording
  BY DEF Replay, StageOf, redis, store
<1>2. CASE Leave(r) /\ UNCHANGED answered
  BY <1>1, <1>2, TurnLeft
<1>3. CASE SameChunk(r) /\ Answer(r)
  <2>1. \/ session[s].state = "gone"
        \/ session[s].state = "Active" /\ n < session[s].expected
    BY <1>1, TurnFacts DEF HandlerOK
  <2>2. hash[s][n] = request[r].payload /\ hash[s][n] # None
    BY <1>3, TurnFacts DEF SameChunk
  <2>3. session'[s].state = "Active" => Current(s, session[s].expected)'
    <3> SUFFICES ASSUME session[s].state = "Active"
                 PROVE  Current(s, session[s].expected)'
      BY <1>1
    <3>1. Current(s, session[s].expected)
      BY TurnFacts
    <3>2. chunk[s][n] = request[r].payload /\ n < session[s].expected
      BY <2>1, <2>2, <3>1, TurnFacts DEF Current
    <3>3. \A a \in answered'[s] : a.seq < session[s].expected /\ chunk[s][a.seq] = a.payload
      BY <1>3, <3>1, <3>2, AnswerShape DEF Current
    <3> QED
      BY <1>1, <3>1, <3>3 DEF Current
  <2>4. (UnderWay(s) \subseteq {r})' /\ request'[r].of # s
    BY <1>3, AnswerShape, Returned, TurnFacts DEF UnderWay
  <2>5. recording'[s] = <<>> /\ session'[s].state # "unused"
    BY <1>1, TurnFacts
  <2> QED
    BY <2>3, <2>4, <2>5, NothingRecorded, TurnTaken
<1> QED
  BY <1>2, <1>3 DEF Replay

LEMMA AcceptTurn ==
  ASSUME ConstantsOK, TypeOK, ReadsOK, NEW s \in Session, NEW r \in Request, NEW n \in Seqs,
         NEW p \in Payload, NEW final \in BOOLEAN,
         Accept(r, s, n, p, final), InTurn(s), UnderWay(s) = {}
  PROVE  InTurn(s)'
<1>1. /\ session' = session /\ hash' = hash /\ chunk' = chunk /\ recording' = recording
      /\ answered' = answered
      /\ session[s].state = "Active" /\ n <= session[s].expected
  BY DEF Accept, redis, store
<1>2. /\ request'[r].of = s /\ request'[r].seq = n /\ request'[r].payload = p
      /\ request'[r].stage = IF n < session[s].expected THEN "replay" ELSE "write"
      /\ \A q \in Request \ {r} : request'[q] = request[q]
  BY DEF Accept, TypeOK
<1>3. Current(s, session[s].expected) /\ recording[s] = <<>>
  BY <1>1 DEF InTurn
<1>4. (UnderWay(s) \subseteq {r})'
  BY <1>2 DEF UnderWay
<1>5. Current(s, session[s].expected)'
  BY <1>1, <1>3 DEF Current
<1>6. HandlerOK(s, r)'
  <2>1. CASE n < session[s].expected
    BY <1>1, <1>2, <2>1 DEF HandlerOK, StageOf
  <2>2. CASE ~(n < session[s].expected)
    <3>1. session[s].expected = n
      BY <1>1, <2>2 DEF TypeOK, Seqs, ConstantsOK
    <3>2. Current(s, request[r].seq)'
      BY <1>1, <1>2, <1>3, <3>1 DEF Current
    <3>3. session[s] = [state |-> "Active", expected |-> n]
      BY <1>1, <3>1 DEF TypeOK
    <3>4. Expects(s, request[r].seq)'
      BY <1>1, <1>2, <3>3 DEF Expects
    <3> QED
      BY <1>2, <2>2, <3>2, <3>4 DEF HandlerOK, StageOf
  <2> QED
    BY <2>1, <2>2
<1>7. recording'[s] = <<>> /\ session'[s].state # "unused"
  BY <1>1, <1>3
<1> QED
  BY <1>4, <1>5, <1>6, <1>7, NothingRecorded, TurnTaken

LEMMA OpenTurn ==
  ASSUME ConstantsOK, TypeOK, NEW s \in Session, Open(s), InTurn(s) PROVE InTurn(s)'
<1>1. /\ session[s].state = "unused" /\ session'[s] = [state |-> "Active", expected |-> 1]
      /\ hash' = hash /\ chunk' = chunk /\ recording' = recording /\ answered' = answered
      /\ request' = request
  BY DEF Open, Unused, TypeOK, store, client
<1>2. UnderWay(s) = {} /\ answered[s] = {} /\ (\A m \in Seqs : hash[s][m] = None)
      /\ recording[s] = <<>>
  BY <1>1 DEF InTurn
<1>3. UnderWay(s)' = {}
  BY <1>1, <1>2 DEF UnderWay
<1>4. Current(s, session[s].expected)'
  BY <1>1, <1>2 DEF Current
<1>5. AnsweredOK(s)'
  BY <1>1, <1>2 DEF AnsweredOK
<1> QED
  BY <1>1, <1>2, <1>3, <1>4, <1>5 DEF InTurn

\* A key that is gone is not missed: what is stored stays.
LEMMA ExpireTurn ==
  ASSUME ConstantsOK, TypeOK, NEW s \in Session, Expire(s), InTurn(s) PROVE InTurn(s)'
<1>1. /\ chunk' = chunk /\ recording' = recording /\ answered' = answered /\ request' = request
      /\ UnderWay(s)' = UnderWay(s)
  BY DEF Expire, store, client, UnderWay
<1>2. /\ session'[s] = session[s] \/ session'[s].state = "gone"
      /\ session[s].state = "unused" => session'[s] = session[s]
  <2>1. CASE UNCHANGED session
    BY <2>1
  <2>2. CASE session[s] \notin {Unused, Gone} /\ session' = [session EXCEPT ![s] = Gone]
    <3>1. session'[s].state = "gone"
      BY <2>2 DEF Gone, TypeOK
    <3>2. session[s].state # "unused"
      BY <2>2 DEF InTurn
    <3> QED
      BY <3>1, <3>2
  <2> QED
    BY <2>1, <2>2 DEF Expire
<1>3. \A m \in Seqs : hash'[s][m] = hash[s][m] \/ hash'[s][m] = None
  BY DEF Expire, TypeOK
<1>4. \A n : Current(s, n) => Current(s, n)'
  BY <1>1, <1>3 DEF Current
<1>5. ASSUME NEW r \in UnderWay(s) PROVE HandlerOK(s, r)'
  <2>1. HandlerOK(s, r) /\ request'[r] = request[r] /\ session[s].state # "unused"
    BY <1>1 DEF InTurn
  <2>2. HasRead(s, r) => HasRead(s, r)'
    BY <1>1 DEF HasRead
  <2>3. \A n : Expects(s, n) => Expects(s, n)'
    BY <1>2 DEF Expects
  <2> QED
    BY <1>1, <1>2, <1>4, <2>1, <2>2, <2>3 DEF HandlerOK, StageOf
<1> QED
  BY <1>1, <1>2, <1>3, <1>4, <1>5 DEF InTurn, AnsweredOK, StageOf

-----------------------------------------------------------------------------
(* Every step, for every session.                                          *)

\* A step of s itself, or of a request of s.
LEMMA HandlerTurn ==
  ASSUME ConstantsOK, TypeOK, ReadsOK, NEW s \in Session, NEW r \in Request,
         request[r].of = s, InTurn(s), Work(r) \/ Raise(r) \/ Crash(r)
  PROVE  InTurn(s)'
<1>1. Leave(r) /\ UNCHANGED <<redis, store, client>> => InTurn(s)'
  BY TurnLeft DEF redis, store, client
<1>2. MergeFails(r) => InTurn(s)'
  <2>1. MergeFails(r) => session'[s].state = "Failed"
    BY DEF MergeFails, HashOf, TypeOK
  <2> QED
    BY <2>1, TurnLeft DEF MergeFails, store, client
<1>3. CASE Raise(r) \/ Crash(r)
  BY <1>1, <1>2, <1>3 DEF Raise, Crash
<1>4. CASE ListChunks(r)
  BY <1>2, <1>4, ListTurn DEF ListChunks, StageOf
<1>5. CASE ReadChunk(r)
  <2> DEFINE n == Len(request[r].read) + 1
             found == chunk[s][n]
  <2>1. CASE found = None
    BY <1>2, <1>5, <2>1 DEF ReadChunk
  <2>2. CASE found # None
    <3>1. StageOf(r) = "read"
      BY <1>5 DEF ReadChunk, StageOf
    <3>2. Len(request[r].read) < request[r].seq /\ request[r].read \in Seq(Payload)
      BY <3>1 DEF ReadsOK, TypeOK
    <3>3. n \in Seqs
      BY <3>2, TurnFacts DEF Seqs, ConstantsOK
    <3>4. found \in Payload
      BY <2>2, <3>3 DEF TypeOK
    <3>5. /\ request' = [request EXCEPT
               ![r].read = Append(@, found),
               ![r].stage = IF Len(request[r].read) + 1 = request[r].seq
                            THEN "clean" ELSE "read"]
          /\ UNCHANGED <<redis, store, client>>
      BY <1>5, <2>2 DEF ReadChunk
    <3> QED
      BY <3>1, <3>4, <3>5, ReadTurn
  <2> QED
    BY <2>1, <2>2
<1> QED
  BY <1>3, <1>4, <1>5, ReplayTurn, WriteTurn, SaveTurn, RememberTurn, CloseTurn, DeleteTurn,
     CommitTurn, PurgeTurn DEF Work

\* A step of a request touches nothing of another session.
LEMMA Elsewhere ==
  ASSUME ConstantsOK, TypeOK, ReadsOK, NEW s \in Session, NEW r \in Request,
         request[r].of # s, Work(r) \/ Raise(r) \/ Crash(r)
  PROVE  /\ session'[s] = session[s] /\ hash'[s] = hash[s] /\ chunk'[s] = chunk[s]
         /\ recording'[s] = recording[s] /\ answered'[s] = answered[s]
         /\ request'[r].of # s /\ \A q \in Request \ {r} : request'[q] = request[q]
<1> DEFINE t == request[r].of
<1>1. t \in Session \/ UNCHANGED <<redis, store, client>>
  <2>1. StageOf(r) # "idle" \/ UNCHANGED <<redis, store, client>>
    BY DEF StageOf, Work, Replay, WriteChunk, SaveSession, RememberHash, CloseSession,
           ListChunks, ReadChunk, DeleteChunks, CommitRecording, Purge, Raise, Crash
  <2> QED
    BY <2>1, UnderWayOf
<1>2. request'[r].of # s /\ \A q \in Request \ {r} : request'[q] = request[q]
  <2>1. Leave(r) => request'[r].of # s /\ \A q \in Request \ {r} : request'[q] = request[q]
    BY Returned DEF ConstantsOK
  <2>2. \A st : Goto(r, st) =>
          request'[r].of # s /\ \A q \in Request \ {r} : request'[q] = request[q]
    BY WentOn
  <2>3. CASE ReadChunk(r)
    BY <2>1, <2>3 DEF ReadChunk, MergeFails, TypeOK
  <2>4. CASE Raise(r) \/ Crash(r)
    BY <2>1, <2>4 DEF Raise, Crash, MergeFails
  <2> QED
    BY <2>1, <2>2, <2>3, <2>4
       DEF Work, Replay, Answer, WriteChunk, SaveSession, RememberHash, CloseSession,
           ListChunks, MergeFails, DeleteChunks, CommitRecording, Purge
<1>3. session'[s] = session[s]
  BY <1>1 DEF TypeOK, Work, Replay, WriteChunk, SaveSession, RememberHash, CloseSession,
     ListChunks, ReadChunk, DeleteChunks, CommitRecording, Purge, Raise, Crash, MergeFails,
     redis, store, client
<1>4. hash'[s] = hash[s]
  BY <1>1 DEF TypeOK, Work, Replay, WriteChunk, SaveSession, RememberHash, CloseSession,
     ListChunks, ReadChunk, DeleteChunks, CommitRecording, Purge, Raise, Crash, MergeFails,
     redis, store, client
<1>5. chunk'[s] = chunk[s] /\ recording'[s] = recording[s]
  BY <1>1 DEF TypeOK, Work, Replay, WriteChunk, SaveSession, RememberHash, CloseSession,
     ListChunks, ReadChunk, DeleteChunks, CommitRecording, Purge, Raise, Crash, MergeFails,
     redis, store, client
<1>6. answered'[s] = answered[s]
  BY <1>1 DEF TypeOK, Work, Replay, Answer, WriteChunk, SaveSession, RememberHash,
     CloseSession, ListChunks, ReadChunk, DeleteChunks, CommitRecording, Purge, Raise, Crash,
     MergeFails, redis, store, client
<1> QED
  BY <1>2, <1>3, <1>4, <1>5, <1>6

LEMMA ElsewhereTurn ==
  ASSUME ConstantsOK, TypeOK, ReadsOK, NEW s \in Session, NEW r \in Request,
         request[r].of # s, InTurn(s), Work(r) \/ Raise(r) \/ Crash(r)
  PROVE  InTurn(s)'
BY Elsewhere, OtherSession

\* A chunk is accepted while nothing else of its session is under way, or the
\* session's requests overlap.
LEMMA AcceptedTurn ==
  ASSUME ConstantsOK, TypeOK, ReadsOK, NEW s \in Session, s \notin overlapped', InTurn(s),
         NEW r \in Request, NEW t \in Session, NEW n \in Seqs, NEW p \in Payload,
         NEW final \in BOOLEAN, Accept(r, t, n, p, final)
  PROVE  InTurn(s)'
<1>1. CASE t = s
  <2>1. UnderWay(s) = {}
    BY <1>1 DEF Accept
  <2> QED
    BY <1>1, <2>1, AcceptTurn
<1>2. CASE t # s
  <2>1. request'[r].of # s /\ request[r].of # s
    BY <1>2 DEF Accept, Idle, TypeOK, ConstantsOK
  <2>2. \A q \in Request \ {r} : request'[q] = request[q]
    BY DEF Accept, TypeOK
  <2> QED
    BY <2>1, <2>2, OtherSession DEF Accept, redis, store
<1> QED
  BY <1>1, <1>2

LEMMA TurnsStep ==
  ASSUME ConstantsOK, TypeOK, ReadsOK, TurnsOK, [Next]_vars PROVE TurnsOK'
<1> SUFFICES ASSUME NEW s \in Session, s \notin overlapped' PROVE InTurn(s)'
  BY DEF TurnsOK
<1>1. overlapped \subseteq overlapped'
  BY DEF Next, Handle, Work, vars, store, client, redis, Open, Expire, Accept, Raise, Crash,
         MergeFails, Replay, WriteChunk, SaveSession, RememberHash, CloseSession, ListChunks,
         ReadChunk, DeleteChunks, CommitRecording, Purge
<1>2. InTurn(s)
  BY <1>1 DEF TurnsOK
<1>3. ASSUME NEW r \in Request, Handle(r) PROVE InTurn(s)'
  BY <1>2, <1>3, HandlerTurn, ElsewhereTurn, AcceptedTurn DEF Handle
<1>4. ASSUME NEW t \in Session, Open(t) \/ Expire(t) PROVE InTurn(s)'
  <2>1. CASE t = s
    BY <1>2, <1>4, <2>1, OpenTurn, ExpireTurn
  <2>2. CASE t # s
    <3>1. session'[s] = session[s] /\ hash'[s] = hash[s]
      BY <1>4, <2>2 DEF Open, Expire, TypeOK
    <3>2. UNCHANGED <<store, request, client>>
      BY <1>4 DEF Open, Expire
    <3> QED
      BY <1>2, <3>1, <3>2, OtherSession DEF store, client
  <2> QED
    BY <2>1, <2>2
<1>5. CASE UNCHANGED vars
  BY <1>2, <1>5, OtherSession DEF vars, redis, store, client
<1> QED
  BY <1>3, <1>4, <1>5 DEF Next

\* A client that waits for each answer finds what it was told was received in the
\* recording, as it sent it.
THEOREM AnsweredAreRecorded == ASSUME ConstantsOK PROVE Spec => []AnsweredIsRecorded
<1> DEFINE Inv == TypeOK /\ ReadsOK /\ TurnsOK
<1>1. Init => Inv
  <2> SUFFICES ASSUME Init PROVE TurnsOK
    BY InitTyped
  <2>1. \A s \in Session : UnderWay(s) = {}
    BY DEF Init, UnderWay, Idle, ConstantsOK
  <2> QED
    BY <2>1 DEF TurnsOK, InTurn, Init, Unused, AnsweredOK
<1>2. Inv /\ [Next]_vars => Inv'
  BY NextTyped, TurnsStep
<1>3. Inv => AnsweredIsRecorded
  BY DEF TurnsOK, InTurn, AnsweredOK, AnsweredIsRecorded
<1> QED
  BY <1>1, <1>2, <1>3, PTL DEF Spec

-----------------------------------------------------------------------------
(* Sessions that were never opened.                                        *)

NothingOf(s) == session[s] = Unused /\ recording[s] = <<>> /\ UnderWay(s) = {}

\* Nothing happens to a session before it is opened.
LEMMA OnlyOpened ==
  ASSUME ConstantsOK, TypeOK, ReadsOK, NEW s \in Session, NothingOf(s),
         \/ \E r \in Request : Handle(r)
         \/ \E t \in Session : Expire(t)
         \/ UNCHANGED vars
  PROVE  NothingOf(s)'
<1>1. \A r \in Request : request[r].of # s
  BY DEF NothingOf, UnderWay
<1>2. NothingOf(s)' <=> /\ session'[s] = Unused /\ recording'[s] = <<>>
                        /\ \A r \in Request : request'[r].of # s
  BY DEF NothingOf, UnderWay
<1>3. ASSUME NEW r \in Request, Work(r) \/ Raise(r) \/ Crash(r) PROVE NothingOf(s)'
  <2>1. /\ session'[s] = session[s] /\ recording'[s] = recording[s]
        /\ request'[r].of # s /\ \A q \in Request \ {r} : request'[q] = request[q]
    BY <1>1, <1>3, Elsewhere
  <2> QED
    BY <1>1, <1>2, <2>1 DEF NothingOf
<1>4. ASSUME NEW r \in Request, NEW t \in Session, NEW n \in Seqs, NEW p \in Payload,
             NEW final \in BOOLEAN, Accept(r, t, n, p, final)
      PROVE  NothingOf(s)'
  <2>1. session[t].state = "Active" /\ session' = session /\ recording' = recording
    BY <1>4 DEF Accept, redis, store
  <2>2. t # s
    BY <2>1 DEF NothingOf, Unused
  <2>3. request'[r].of = t /\ \A q \in Request \ {r} : request'[q] = request[q]
    BY <1>4 DEF Accept, TypeOK
  <2> QED
    BY <1>1, <1>2, <2>1, <2>2, <2>3 DEF NothingOf
<1>5. ASSUME NEW t \in Session, Expire(t) PROVE NothingOf(s)'
  <2>1. UNCHANGED <<recording, request>>
    BY <1>5 DEF Expire, store
  <2>2. session'[s] = session[s]
    BY <1>5 DEF Expire, TypeOK, NothingOf
  <2> QED
    BY <1>1, <1>2, <2>1, <2>2 DEF NothingOf
<1>6. CASE UNCHANGED vars
  BY <1>6 DEF vars, redis, store, NothingOf, UnderWay
<1> QED
  BY <1>3, <1>4, <1>5, <1>6 DEF Handle

=============================================================================
