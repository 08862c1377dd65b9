---------------------------- MODULE MediaIngestion ----------------------------
(***************************************************************************)
(* Streaming a recording in chunks: MediaSessionManager of                 *)
(* app/services/media.py over the Redis keys of a session and the chunk    *)
(* objects merged by app/infrastructure/storage.py.  Every await is a step *)
(* of its own, so requests of one session interleave between them: a       *)
(* client that gives up waiting and repeats a chunk has two under way.  A  *)
(* request that is refused changes nothing and is no step here.            *)
(***************************************************************************)
EXTENDS Naturals, Sequences, FiniteSets

CONSTANTS
  Session,         \* media sessions of one meeting
  Request,         \* slots for chunk requests that are being handled
  Payload,         \* contents a chunk may have
  MaxSeq,          \* bound: chunks of a session
  MaxRecordings,   \* bound: no chunk is accepted beyond so many recordings
  MaxFaults,       \* bound: keys that expire, calls that raise, deaths: together
  None             \* nothing stored under a key

ConstantsOK ==
  /\ {MaxSeq, MaxRecordings} \subseteq Nat \ {0}
  /\ MaxFaults \in Nat
  /\ None \notin Payload \union Session

VARIABLES
  session,     \* session[s]: the hash media:session:s
  hash,        \* hash[s][n]: checksum kept for chunk n, as the payload it is of
  chunk,       \* chunk[s][n]: the object chunk_n of session s
  recording,   \* recording[s]: contents of s's Recording rows, as committed
  request,     \* request[r]: the chunk r handles, and how far it is
  answered,    \* answered[s]: chunks of s whose requests were answered 200
  overlapped,  \* sessions that had two requests under way at the same time
  faults

redis == <<session, hash>>
store == <<chunk, recording>>
client == <<answered, overlapped>>
vars == <<redis, store, request, client, faults>>

Seqs == 1..MaxSeq
Stage == {"idle", "replay", "write", "save", "remember", "close", "list", "read",
          "clean", "commit", "purge"}
Unused == [state |-> "unused", expected |-> 1]    \* its id is not drawn yet
Gone == [state |-> "gone", expected |-> 1]
Idle == [stage |-> "idle", of |-> None, seq |-> 1, payload |-> None, final |-> FALSE,
         read |-> <<>>]

TypeOK ==
  /\ session \in [Session -> [state : {"unused", "gone", "Active", "Completed", "Failed"},
                              expected : 1..(MaxSeq + 1)]]
  /\ hash \in [Session -> [Seqs -> Payload \union {None}]]
  /\ chunk \in [Session -> [Seqs -> Payload \union {None}]]
  /\ recording \in [Session -> Seq([final : Seqs, content : Seq(Payload)])]
  /\ request \in [Request -> [stage : Stage, of : Session \union {None}, seq : Seqs,
                              payload : Payload \union {None}, final : BOOLEAN,
                              read : Seq(Payload)]]
  /\ answered \in [Session -> SUBSET [seq : Seqs, payload : Payload]]
  /\ overlapped \subseteq Session
  /\ faults \in 0..MaxFaults

Init ==
  /\ session = [s \in Session |-> Unused]
  /\ hash = [s \in Session |-> [n \in Seqs |-> None]]
  /\ chunk = [s \in Session |-> [n \in Seqs |-> None]]
  /\ recording = [s \in Session |-> <<>>]
  /\ request = [r \in Request |-> Idle]
  /\ answered = [s \in Session |-> {}]
  /\ overlapped = {}
  /\ faults = 0

\* initialize_session; that the meeting is Recording is up to the caller.
\* Session ids are fresh.
Open(s) ==
  /\ session[s] = Unused
  /\ session' = [session EXCEPT ![s] = [state |-> "Active", expected |-> 1]]
  /\ UNCHANGED <<hash, store, request, client, faults>>

-----------------------------------------------------------------------------
(* process_chunk.                                                          *)

UnderWay(s) == {r \in Request : request[r].of = s}

\* r goes on with another stage.
Goto(r, stage) == request' = [request EXCEPT ![r].stage = stage]

\* r's handler returns or raises.
Leave(r) == request' = [request EXCEPT ![r] = Idle]

\* 200: the client takes the chunk for received.
Answer(r) ==
  /\ answered' = [answered EXCEPT ![request[r].of] = @ \union
       {[seq |-> request[r].seq, payload |-> request[r].payload]}]
  /\ Leave(r)

\* get_session and the checks up to the first write.  An earlier sequence number
\* is a replay; a later one is a gap, and refused.
Accept(r, s, n, payload, final) ==
  /\ request[r] = Idle
  /\ Len(recording[s]) < MaxRecordings
  /\ session[s].state = "Active"
  /\ n <= session[s].expected
  /\ request' = [request EXCEPT ![r] =
       [stage |-> IF n < session[s].expected THEN "replay" ELSE "write",
        of |-> s, seq |-> n, payload |-> payload, final |-> final, read |-> <<>>]]
  /\ overlapped' = IF UnderWay(s) = {} THEN overlapped ELSE overlapped \union {s}
  /\ UNCHANGED <<redis, store, answered, faults>>

\* Mutant: a replay is not compared with what was stored.
SameChunkAny(r) == TRUE

\* The checksum kept for the chunk is the request's.
SameChunk(r) == hash[request[r].of][request[r].seq] = request[r].payload

\* A replay is answered as if it were new, or refused.
Replay(r) ==
  /\ request[r].stage = "replay"
  /\ IF SameChunk(r) THEN Answer(r) ELSE Leave(r) /\ UNCHANGED answered
  /\ UNCHANGED <<redis, store, overlapped, faults>>

WriteChunk(r) ==
  /\ request[r].stage = "write"
  /\ chunk' = [chunk EXCEPT ![request[r].of][request[r].seq] = request[r].payload]
  /\ Goto(r, "save")
  /\ UNCHANGED <<redis, recording, client, faults>>

\* Mutant: the next sequence number is counted from the stored one each time.
HashOfCounted(r, state) ==
  [state |-> state, expected |-> session[request[r].of].expected + 1]

\* The whole hash is written from r's copy, whatever it holds by now.
HashOf(r, state) == [state |-> state, expected |-> request[r].seq + 1]

SaveSession(r) ==
  /\ request[r].stage = "save"
  /\ session' = [session EXCEPT ![request[r].of] = HashOf(r, "Active")]
  /\ Goto(r, "remember")
  /\ UNCHANGED <<hash, store, client, faults>>

RememberHash(r) ==
  /\ request[r].stage = "remember"
  /\ hash' = [hash EXCEPT ![request[r].of][request[r].seq] = request[r].payload]
  /\ IF request[r].final THEN Goto(r, "close") /\ UNCHANGED answered ELSE Answer(r)
  /\ UNCHANGED <<session, store, overlapped, faults>>

CloseSession(r) ==
  /\ request[r].stage = "close"
  /\ session' = [session EXCEPT ![request[r].of] = HashOf(r, "Completed")]
  /\ Goto(r, "list")
  /\ UNCHANGED <<hash, store, client, faults>>

-----------------------------------------------------------------------------
(* merge_session_chunks, and what process_chunk does with the result.      *)

Listed(s) == {n \in Seqs : chunk[s][n] # None}

\* As many chunks as the final sequence number says, and none missing.
Complete(r) == Listed(request[r].of) = 1..request[r].seq

\* Mutant: the session is left as it is.
MergeFailsSilently(r) ==
  /\ Leave(r)
  /\ UNCHANGED <<redis, store, client>>

\* A merge that raises leaves the session Failed.
MergeFails(r) ==
  /\ session' = [session EXCEPT ![request[r].of] = HashOf(r, "Failed")]
  /\ Leave(r)
  /\ UNCHANGED <<hash, store, client>>

ListChunks(r) ==
  /\ request[r].stage = "list"
  /\ IF Complete(r)
     THEN Goto(r, "read") /\ UNCHANGED <<redis, store, client>>
     ELSE MergeFails(r)
  /\ UNCHANGED faults

\* Mutant: a missing object ends the loop, and what was read is merged.
ReadChunkShort(r) ==
  LET n == Len(request[r].read) + 1
      found == chunk[request[r].of][n]
  IN  /\ request[r].stage = "read"
      /\ IF found = None THEN Goto(r, "clean")
         ELSE request' = [request EXCEPT
                ![r].read = Append(@, found),
                ![r].stage = IF n = request[r].seq THEN "clean" ELSE "read"]
      /\ UNCHANGED <<redis, store, client, faults>>

\* get_object for the next chunk raises if the object is not there any more.
ReadChunk(r) ==
  LET n == Len(request[r].read) + 1
      found == chunk[request[r].of][n]
  IN  /\ request[r].stage = "read"
      /\ IF found = None THEN MergeFails(r)
         ELSE /\ request' = [request EXCEPT
                   ![r].read = Append(@, found),
                   ![r].stage = IF n = request[r].seq THEN "clean" ELSE "read"]
              /\ UNCHANGED <<redis, store, client>>
      /\ UNCHANGED faults

\* The merged object is complete; the chunks are deleted.
DeleteChunks(r) ==
  /\ request[r].stage = "clean"
  /\ chunk' = [chunk EXCEPT ![request[r].of] =
       [n \in Seqs |-> IF n <= request[r].seq THEN None ELSE @[n]]]
  /\ Goto(r, "commit")
  /\ UNCHANGED <<redis, recording, client, faults>>

\* The Recording row, Verified, and its RecordingVerified event, in one
\* transaction: recording[s] stands for both.
CommitRecording(r) ==
  /\ request[r].stage = "commit"
  /\ recording' = [recording EXCEPT ![request[r].of] =
       Append(@, [final |-> request[r].seq, content |-> request[r].read])]
  /\ Goto(r, "purge")
  /\ UNCHANGED <<redis, chunk, client, faults>>

\* The session's keys are deleted; the chunks' hashes in the same step.
Purge(r) ==
  /\ request[r].stage = "purge"
  /\ session' = [session EXCEPT ![request[r].of] = Gone]
  /\ hash' = [hash EXCEPT ![request[r].of] =
       [n \in Seqs |-> IF n <= request[r].seq THEN None ELSE @[n]]]
  /\ Answer(r)
  /\ UNCHANGED <<store, overlapped, faults>>

-----------------------------------------------------------------------------
(* Failures.                                                               *)

Fault == faults < MaxFaults /\ faults' = faults + 1

\* An awaited call raises: inside the merge the session becomes Failed, anywhere
\* else the handler ends where it stands.
Raise(r) ==
  /\ Fault
  /\ request[r] # Idle
  /\ IF request[r].stage \in {"list", "read", "clean"} THEN MergeFails(r)
     ELSE Leave(r) /\ UNCHANGED <<redis, store, client>>

\* The process dies with the request.
Crash(r) ==
  /\ Fault
  /\ request[r] # Idle
  /\ Leave(r)
  /\ UNCHANGED <<redis, store, client>>

\* 900 seconds after its last renewal a key expires, each by itself.
Expire(s) ==
  /\ Fault
  /\ \/ /\ session[s] \notin {Unused, Gone}
        /\ session' = [session EXCEPT ![s] = Gone]
        /\ UNCHANGED hash
     \/ /\ \E n \in Seqs : hash[s][n] # None /\ hash' = [hash EXCEPT ![s][n] = None]
        /\ UNCHANGED session
  /\ UNCHANGED <<store, request, client>>

\* What a handler does once its request was accepted.
Work(r) ==
  \/ Replay(r)
  \/ WriteChunk(r)
  \/ SaveSession(r)
  \/ RememberHash(r)
  \/ CloseSession(r)
  \/ ListChunks(r)
  \/ ReadChunk(r)
  \/ DeleteChunks(r)
  \/ CommitRecording(r)
  \/ Purge(r)

Handle(r) ==
  \/ \E s \in Session, n \in Seqs, p \in Payload, final \in BOOLEAN :
       Accept(r, s, n, p, final)
  \/ Work(r)
  \/ Raise(r)
  \/ Crash(r)

Next ==
  \/ \E s \in Session : Open(s) \/ Expire(s)
  \/ \E r \in Request : Handle(r)

Spec == Init /\ [][Next]_vars

-----------------------------------------------------------------------------
(* Properties.                                                             *)

\* However requests of a session interleave, overwrite each other's chunks or
\* delete them, a Recording has as many chunks as the request that made it said.
RecordingIsWhole ==
  \A s \in Session : \A i \in DOMAIN recording[s] :
    Len(recording[s][i].content) = recording[s][i].final

\* A client that waits for each answer gets what it was told was received, as it
\* sent it: replays, expired keys, failed merges and deaths change no chunk.
AnsweredIsRecorded ==
  \A s \in Session \ overlapped : \A i \in DOMAIN recording[s], a \in answered[s] :
    /\ a.seq <= recording[s][i].final
    /\ recording[s][i].content[a.seq] = a.payload

\* A final chunk does not go unnoticed: a closed session nobody works on is
\* recorded, however requests interleaved; only a failure leaves it as it is.
ClosedIsRecorded ==
  \A s \in Session :
    /\ session[s].state = "Completed"
    /\ UnderWay(s) = {}
    => recording[s] # <<>> \/ faults > 0

=============================================================================
