--------------------------- MODULE RecordingsProofs ---------------------------
(***************************************************************************)
(* Recordings implements both of its parts, so what is proved of a meeting *)
(* alone holds while recordings are streamed to it, and what is proved of  *)
(* the media sessions alone holds of the sessions of a meeting.            *)
(***************************************************************************)
EXTENDS Recordings, TLAPS

Proved == INSTANCE MeetingAggregateProofs
ProvedMedia == INSTANCE MediaIngestionProofs WITH request <- chunkRequest

\* Every step is a step of the meeting or leaves it alone.
THEOREM ImplementsAggregate == Spec => Aggregate!Spec
<1>1. Init => Aggregate!Init
  BY DEF Init
<1>2. ASSUME [Next]_vars PROVE [Aggregate!Next]_(Aggregate!vars)
  <2>1. UNCHANGED meeting => UNCHANGED Aggregate!vars
    BY DEF meeting, Aggregate!vars, Aggregate!row, Aggregate!request
  <2>2. UNCHANGED vars => UNCHANGED meeting
    BY DEF vars
  <2>3. Create => Aggregate!Next
    BY DEF Create, Aggregate!Next
  <2>4. ASSUME NEW s \in Session, OpenSession(s) \/ Expire(s) PROVE UNCHANGED meeting
    BY <2>4 DEF OpenSession, Expire
  <2>5. ASSUME NEW r \in Request, MeetingRequest(r) PROVE Aggregate!Next
    BY <2>5 DEF MeetingRequest, Aggregate!Next
  <2>6. ASSUME NEW r \in Request, ChunkRequest(r) PROVE UNCHANGED meeting
    BY <2>6 DEF ChunkRequest
  <2> QED
    BY <1>2, <2>1, <2>2, <2>3, <2>4, <2>5, <2>6 DEF Next
<1> QED
  BY <1>1, <1>2, PTL DEF Spec, Aggregate!Spec

\* Every step is a step of the media sessions or leaves them alone.
THEOREM ImplementsMedia == Spec => Media!Spec
<1>1. Init => Media!Init
  BY DEF Init
<1>2. ASSUME [Next]_vars PROVE [Media!Next]_(Media!vars)
  <2>1. UNCHANGED media => UNCHANGED Media!vars
    BY DEF media, Media!vars, Media!redis, Media!store, Media!client
  <2>2. UNCHANGED vars => UNCHANGED media
    BY DEF vars
  <2>3. Create => UNCHANGED media
    BY DEF Create
  <2>4. ASSUME NEW s \in Session, OpenSession(s) \/ Expire(s) PROVE Media!Next
    BY <2>4 DEF OpenSession, Expire, Media!Next
  <2>5. ASSUME NEW r \in Request, MeetingRequest(r) PROVE UNCHANGED media
    BY <2>5 DEF MeetingRequest
  <2>6. ASSUME NEW r \in Request, ChunkRequest(r) PROVE Media!Next
    BY <2>6 DEF ChunkRequest, Media!Next
  <2> QED
    BY <1>2, <2>1, <2>2, <2>3, <2>4, <2>5, <2>6 DEF Next
<1> QED
  BY <1>1, <1>2, PTL DEF Spec, Media!Spec

\* The meeting that the theorems of MeetingAggregateProofs are about.
LEMMA MeetingIsProved == Spec => Proved!Spec
<1>1. Aggregate!Init <=> Proved!Init
  BY DEF Aggregate!Init, Proved!Init
<1>2. [Aggregate!Next]_(Aggregate!vars) <=> [Proved!Next]_(Proved!vars)
  BY DEF Aggregate!Next, Proved!Next, Aggregate!Handle, Proved!Handle,
      Aggregate!Create, Proved!Create, Aggregate!Enqueue,
      Proved!Enqueue, Aggregate!Return, Proved!Return, Aggregate!Load,
      Proved!Load, Aggregate!Allowed, Proved!Allowed,
      Aggregate!MeetingLifecycle, Proved!MeetingLifecycle,
      Aggregate!Fresh, Proved!Fresh, Aggregate!Transition,
      Proved!Transition, Aggregate!CommitStart, Proved!CommitStart,
      Aggregate!CommitEnd, Proved!CommitEnd, Aggregate!OpenUpload,
      Proved!OpenUpload, Aggregate!SendFile, Proved!SendFile,
      Aggregate!VerifyUpload, Proved!VerifyUpload, Aggregate!Abandon,
      Proved!Abandon, Aggregate!vars, Proved!vars, Aggregate!row,
      Proved!row, Aggregate!request, Proved!request
<1> QED
  BY <1>1, <1>2, ImplementsAggregate, PTL DEF Aggregate!Spec, Proved!Spec

\* A meeting is Ended exactly when its end is in the outbox, whatever is streamed
\* to it meanwhile.
THEOREM EndIsFinal == Spec => []EndedIffAnnounced
<1>1. EndedIffAnnounced <=> Proved!EndedIffAnnounced
  BY DEF EndedIffAnnounced, Aggregate!EndedIffAnnounced, Proved!EndedIffAnnounced
<1> QED
  BY <1>1, MeetingIsProved, Proved!EndIsFinal, PTL

\* A Verified upload has its file, its event and its queued transcription, while
\* other recordings are streamed.
THEOREM UploadsAreComplete == Spec => []VerifiedIsComplete
<1>1. VerifiedIsComplete <=> Proved!VerifiedIsComplete
  BY DEF VerifiedIsComplete, Aggregate!VerifiedIsComplete, Proved!VerifiedIsComplete
<1> QED
  BY <1>1, MeetingIsProved, Proved!UploadsAreComplete, PTL

-----------------------------------------------------------------------------
(* Streaming.                                                              *)

\* The constants are as the theorems about media sessions want them.
LEMMA MediaConstants == ProvedMedia!ConstantsOK
BY RecordingsAssumption DEF Media!ConstantsOK, ProvedMedia!ConstantsOK

\* The actions of media sessions that those theorems speak of.
LEMMA MediaActions ==
  /\ \A r \in Request : Media!Handle(r) <=> ProvedMedia!Handle(r)
  /\ \A s \in Session : Media!Expire(s) <=> ProvedMedia!Expire(s)
BY DEF Media!Handle, ProvedMedia!Handle, Media!Work, ProvedMedia!Work, Media!Accept,
       ProvedMedia!Accept, Media!Replay, ProvedMedia!Replay, Media!WriteChunk,
       ProvedMedia!WriteChunk, Media!SaveSession, ProvedMedia!SaveSession,
       Media!RememberHash, ProvedMedia!RememberHash, Media!CloseSession,
       ProvedMedia!CloseSession, Media!ListChunks, ProvedMedia!ListChunks,
       Media!ReadChunk, ProvedMedia!ReadChunk, Media!DeleteChunks,
       ProvedMedia!DeleteChunks, Media!CommitRecording, ProvedMedia!CommitRecording,
       Media!Purge, ProvedMedia!Purge, Media!Raise, ProvedMedia!Raise, Media!Crash,
       ProvedMedia!Crash, Media!Expire, ProvedMedia!Expire, Media!UnderWay,
       ProvedMedia!UnderWay, Media!Goto, ProvedMedia!Goto, Media!Leave, ProvedMedia!Leave,
       Media!Answer, ProvedMedia!Answer, Media!SameChunk, ProvedMedia!SameChunk,
       Media!HashOf, ProvedMedia!HashOf, Media!Listed, ProvedMedia!Listed, Media!Complete,
       ProvedMedia!Complete, Media!MergeFails, ProvedMedia!MergeFails, Media!Fault,
       ProvedMedia!Fault, Media!Seqs, ProvedMedia!Seqs, Media!Unused, ProvedMedia!Unused,
       Media!Gone, ProvedMedia!Gone, Media!Idle, ProvedMedia!Idle, Media!redis,
       ProvedMedia!redis, Media!store, ProvedMedia!store, Media!client, ProvedMedia!client

\* The media sessions that the theorems of MediaIngestionProofs are about.
LEMMA MediaIsProved == Spec => ProvedMedia!Spec
<1>1. Media!Init <=> ProvedMedia!Init
  BY DEF Media!Init, ProvedMedia!Init, Media!Unused, ProvedMedia!Unused, Media!Idle,
      ProvedMedia!Idle, Media!Seqs, ProvedMedia!Seqs
<1>2. [Media!Next]_(Media!vars) <=> [ProvedMedia!Next]_(ProvedMedia!vars)
  BY MediaActions
     DEF Media!Next, ProvedMedia!Next, Media!Open, ProvedMedia!Open, Media!Unused,
         ProvedMedia!Unused, Media!vars, ProvedMedia!vars, Media!redis, ProvedMedia!redis,
         Media!store, ProvedMedia!store, Media!client, ProvedMedia!client
<1> QED
  BY <1>1, <1>2, ImplementsMedia, PTL DEF Media!Spec, ProvedMedia!Spec

\* Every reachable state of the composition is well typed.
THEOREM TypeCorrect == Spec => []TypeOK
<1>1. ProvedMedia!Spec => []ProvedMedia!TypeOK
  BY MediaConstants, ProvedMedia!TypeCorrect
<1>2. Proved!IInv => Proved!TypeOK
  BY DEF Proved!IInv
<1>3. Proved!TypeOK /\ ProvedMedia!TypeOK => TypeOK
  BY DEF TypeOK, Proved!TypeOK, Aggregate!TypeOK, Proved!MeetingLifecycle,
      Aggregate!MeetingLifecycle, Proved!Event, Aggregate!Event, Media!TypeOK,
      ProvedMedia!TypeOK, Media!Seqs, ProvedMedia!Seqs, Media!Stage, ProvedMedia!Stage
<1> QED
  BY <1>1, <1>2, <1>3, MediaIsProved, MeetingIsProved, Proved!Invariance, PTL

\* However requests overlap and fail, a Recording has as many chunks as the request
\* that made it said, whatever becomes of its meeting.
THEOREM RecordingsAreWhole == Spec => []RecordingIsWhole
<1>1. RecordingIsWhole <=> ProvedMedia!RecordingIsWhole
  BY DEF RecordingIsWhole, Media!RecordingIsWhole, ProvedMedia!RecordingIsWhole
<1>2. ProvedMedia!Spec => []ProvedMedia!RecordingIsWhole
  BY MediaConstants, ProvedMedia!RecordingsAreWhole
<1> QED
  BY <1>1, <1>2, MediaIsProved, PTL

\* A client that waits for each answer finds what was answered in the recording.
THEOREM AnsweredAreRecorded == Spec => []AnsweredIsRecorded
<1>1. AnsweredIsRecorded <=> ProvedMedia!AnsweredIsRecorded
  BY DEF AnsweredIsRecorded, Media!AnsweredIsRecorded, ProvedMedia!AnsweredIsRecorded
<1>2. ProvedMedia!Spec => []ProvedMedia!AnsweredIsRecorded
  BY MediaConstants, ProvedMedia!AnsweredAreRecorded
<1> QED
  BY <1>1, <1>2, MediaIsProved, PTL

\* A closed session that nobody works on is recorded, unless something failed.
THEOREM ClosingIsNotForgotten == Spec => []ClosedIsRecorded
<1>1. ClosedIsRecorded <=> ProvedMedia!ClosedIsRecorded
  BY DEF ClosedIsRecorded, Media!ClosedIsRecorded, ProvedMedia!ClosedIsRecorded,
      Media!UnderWay, ProvedMedia!UnderWay
<1>2. ProvedMedia!Spec => []ProvedMedia!ClosedIsRecorded
  BY MediaConstants, ProvedMedia!ClosingIsNotForgotten
<1> QED
  BY <1>1, <1>2, MediaIsProved, PTL

\* Sessions are opened while the meeting is being recorded, and nothing is streamed
\* to a session that was not: a streamed recording is of a meeting that started.
THEOREM StreamsAreOfStarted == Spec => []StreamedWasStarted
<1> DEFINE Started == "MeetingStarted" \in announced
           StreamOK == \A s \in Session : Started \/ ProvedMedia!NothingOf(s)
           Known == ProvedMedia!WholeInv /\ Proved!StartAnnounced
<1>1. Spec => []Known /\ [][Proved!Next]_(Proved!vars)
  <2>1. ProvedMedia!Spec => []ProvedMedia!WholeInv
    BY MediaConstants, ProvedMedia!WholeInvariance
  <2>2. Proved!Spec => []Proved!StartAnnounced
    BY Proved!StartIsAnnounced
  <2> QED
    BY <2>1, <2>2, MediaIsProved, MeetingIsProved, PTL DEF Proved!Spec
<1>2. Init => StreamOK
  BY MediaConstants
     DEF Init, Media!Init, ProvedMedia!NothingOf, Media!Unused, ProvedMedia!Unused,
         ProvedMedia!UnderWay, Media!Idle, ProvedMedia!ConstantsOK
<1>3. ASSUME StreamOK, [Next]_vars, Known, [Proved!Next]_(Proved!vars) PROVE StreamOK'
  <2>1. announced \subseteq announced'
    BY <1>3, Proved!AnnouncedGrows
  <2> SUFFICES ASSUME NEW s \in Session, ProvedMedia!NothingOf(s), ~Started
               PROVE  ProvedMedia!NothingOf(s)'
    BY <1>3, <2>1
  <2>2. ASSUME NEW t \in Session, OpenSession(t) PROVE FALSE
    BY <1>3, <2>2 DEF OpenSession, MayOpen, Proved!StartAnnounced
  <2>3. \/ \E r \in Request : ProvedMedia!Handle(r)
        \/ \E t \in Session : ProvedMedia!Expire(t)
        \/ UNCHANGED ProvedMedia!vars
    <3>1. \/ \E r \in Request : Media!Handle(r)
          \/ \E t \in Session : Media!Expire(t)
          \/ UNCHANGED media
      BY <1>3, <2>2 DEF Next, Create, MeetingRequest, ChunkRequest, Expire, vars
    <3>2. UNCHANGED media => UNCHANGED ProvedMedia!vars
      BY DEF media, ProvedMedia!vars, ProvedMedia!redis, ProvedMedia!store, ProvedMedia!client
    <3> QED
      BY <3>1, <3>2, MediaActions
  <2> QED
    BY <1>3, <2>3, MediaConstants, ProvedMedia!OnlyOpened DEF ProvedMedia!WholeInv
<1>4. StreamOK => StreamedWasStarted
  BY DEF StreamedWasStarted, ProvedMedia!NothingOf
<1> QED
  BY <1>1, <1>2, <1>3, <1>4, PTL DEF Spec

=============================================================================
