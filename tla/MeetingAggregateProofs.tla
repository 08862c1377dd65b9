------------------------ MODULE MeetingAggregateProofs ------------------------
(***************************************************************************)
(* Proofs about MeetingAggregate, for every set of requests and uploads    *)
(* and every bound.  The point is optimistic locking: a copy that has the  *)
(* row's version is the row.                                               *)
(***************************************************************************)
EXTENDS MeetingAggregate, TLAPS

\* No handler is older than the row, and none knows a version the row has not
\* had; a copy with the row's version has the row's lifecycle.  What a handler
\* may do with its copy was checked when it was loaded.
CopiesOK ==
  \A r \in Request : command[r] \in {"start", "end"} =>
    /\ lifecycle # "absent"
    /\ loaded[r].version <= version
    /\ loaded[r].version = version => loaded[r].lifecycle = lifecycle
    /\ command[r] = "start" => loaded[r].lifecycle # "Ended"

\* A file that was sent is complete.
FilesOK ==
  \A r \in Request :
    /\ command[r] \in {"sending", "sent"} => target[r] \in Upload
    /\ command[r] = "sent" => target[r] \in object

IInv == TypeOK /\ CopiesOK /\ FilesOK /\ EndedIffAnnounced /\ VerifiedIsComplete

-----------------------------------------------------------------------------

\* Initially nothing exists.
LEMMA InitIInv == Init => IInv
  BY DEF Init, IInv, TypeOK, CopiesOK, FilesOK, EndedIffAnnounced, VerifiedIsComplete,
     MeetingLifecycle, Event, row, request

\* A handler that returns leaves every other one as it was.
LEMMA ReturnOthers ==
  ASSUME TypeOK, NEW r \in Request, Return(r), NEW q \in Request
  PROVE  /\ q # r => /\ command'[q] = command[q]
                     /\ loaded'[q] = loaded[q]
                     /\ target'[q] = target[q]
         /\ command'[r] = "none"
  BY DEF TypeOK, Return

\* The state stays well typed: a file is only sent for a known recording.
LEMMA TypeStep == ASSUME TypeOK, FilesOK, [Next]_vars PROVE TypeOK'
<1>1. CASE UNCHANGED vars
  BY <1>1 DEF vars, row, request, TypeOK
<1>2. ASSUME NEW initial \in {"Scheduled", "Waiting"}, Create(initial) PROVE TypeOK'
  BY <1>2 DEF Create, Enqueue, TypeOK, MeetingLifecycle, Event, request
<1>3. ASSUME NEW r \in Request, Handle(r) PROVE TypeOK'
  <2>1. ASSUME Return(r)
        PROVE  /\ command' \in [Request -> {"none", "start", "end", "upload", "sending", "sent"}]
               /\ loaded' \in [Request -> [lifecycle : MeetingLifecycle \union {"absent"}, version : Nat]]
               /\ target' \in [Request -> Upload \union {None}]
    BY <2>1 DEF Return, TypeOK
  <2>2. ASSUME NEW c \in {"start", "end", "upload"}, Load(r, c) PROVE TypeOK'
    BY <2>2 DEF Load, TypeOK, row
  <2>3. CASE CommitStart(r)
    BY <2>1, <2>3 DEF CommitStart, Transition, Enqueue, TypeOK, MeetingLifecycle, Event, row
  <2>4. CASE CommitEnd(r)
    BY <2>1, <2>4 DEF CommitEnd, Transition, Enqueue, TypeOK, MeetingLifecycle, Event
  <2>5. CASE OpenUpload(r)
    BY <2>5 DEF OpenUpload, TypeOK, row
  <2>6. CASE SendFile(r)
    BY <2>6 DEF SendFile, TypeOK, FilesOK, row
  <2>7. CASE VerifyUpload(r)
    BY <2>1, <2>7 DEF VerifyUpload, Enqueue, TypeOK, Event, row
  <2>8. CASE Abandon(r)
    BY <2>1, <2>8 DEF Abandon, TypeOK, row
  <2> QED
    BY <1>3, <2>2, <2>3, <2>4, <2>5, <2>6, <2>7, <2>8 DEF Handle
<1> QED
  BY <1>1, <1>2, <1>3 DEF Next

\* The copies stay good: who changes the row makes every other copy old.
LEMMA CopiesStep == ASSUME TypeOK, CopiesOK, [Next]_vars PROVE CopiesOK'
<1>1. CASE UNCHANGED vars
  BY <1>1 DEF vars, row, request, CopiesOK
<1>2. ASSUME NEW initial \in {"Scheduled", "Waiting"}, Create(initial) PROVE CopiesOK'
  BY <1>2 DEF Create, CopiesOK, request
<1>3. ASSUME NEW r \in Request, Handle(r) PROVE CopiesOK'
  <2>1. ASSUME Return(r), UNCHANGED row PROVE CopiesOK'
    BY <2>1, ReturnOthers DEF CopiesOK, row
  <2>2. ASSUME Return(r), NEW state \in MeetingLifecycle, Transition(r, state) PROVE CopiesOK'
    BY <2>2, ReturnOthers DEF CopiesOK, Transition, TypeOK, MeetingLifecycle
  <2>3. ASSUME NEW c \in {"start", "end", "upload"}, Load(r, c) PROVE CopiesOK'
    <3>1. lifecycle # "absent" /\ (c = "start" => lifecycle # "Ended")
      BY <2>3 DEF Load, Allowed, MeetingLifecycle
    <3>2. /\ command'[r] = c
          /\ loaded'[r] = [lifecycle |-> lifecycle, version |-> version]
          /\ UNCHANGED row
      BY <2>3 DEF Load, TypeOK
    <3>3. ASSUME NEW q \in Request, q # r
          PROVE  command'[q] = command[q] /\ loaded'[q] = loaded[q]
      BY <2>3, <3>3 DEF Load, TypeOK
    <3> QED
      BY <3>1, <3>2, <3>3 DEF CopiesOK, TypeOK, row
  <2>4. CASE CommitStart(r)
    BY <2>1, <2>2, <2>4 DEF CommitStart, MeetingLifecycle
  <2>5. CASE CommitEnd(r)
    BY <2>2, <2>5 DEF CommitEnd, MeetingLifecycle
  <2>6. CASE OpenUpload(r)
    BY <2>6 DEF OpenUpload, CopiesOK, TypeOK, row
  <2>7. CASE SendFile(r)
    BY <2>7 DEF SendFile, CopiesOK, TypeOK, row
  <2>8. CASE VerifyUpload(r) \/ Abandon(r)
    BY <2>1, <2>8 DEF VerifyUpload, Abandon
  <2> QED
    BY <1>3, <2>3, <2>4, <2>5, <2>6, <2>7, <2>8 DEF Handle
<1> QED
  BY <1>1, <1>2, <1>3 DEF Next

\* Files stay complete, and nobody takes another handler's target.
LEMMA FilesStep == ASSUME TypeOK, FilesOK, [Next]_vars PROVE FilesOK'
<1>1. CASE UNCHANGED vars
  BY <1>1 DEF vars, request, FilesOK
<1>2. ASSUME NEW initial \in {"Scheduled", "Waiting"}, Create(initial) PROVE FilesOK'
  BY <1>2 DEF Create, FilesOK, request
<1>3. ASSUME NEW r \in Request, Handle(r) PROVE FilesOK'
  <2>1. ASSUME Return(r), UNCHANGED object PROVE FilesOK'
    BY <2>1, ReturnOthers DEF FilesOK
  <2>2. ASSUME NEW c \in {"start", "end", "upload"}, Load(r, c) PROVE FilesOK'
    BY <2>2 DEF Load, FilesOK, TypeOK
  <2>3. CASE OpenUpload(r)
    BY <2>3 DEF OpenUpload, FilesOK, TypeOK
  <2>4. CASE SendFile(r)
    BY <2>4 DEF SendFile, FilesOK, TypeOK
  <2>5. CASE CommitStart(r) \/ CommitEnd(r) \/ VerifyUpload(r) \/ Abandon(r)
    BY <2>1, <2>5 DEF CommitStart, CommitEnd, VerifyUpload, Abandon
  <2> QED
    BY <1>3, <2>2, <2>3, <2>4, <2>5 DEF Handle
<1> QED
  BY <1>1, <1>2, <1>3 DEF Next

\* No step ends a meeting silently, announces an end that is not one, or brings
\* an ended meeting back: that would take a fresh copy that is not Ended.
LEMMA EndedStep ==
  ASSUME TypeOK, CopiesOK, EndedIffAnnounced, [Next]_vars PROVE EndedIffAnnounced'
<1>1. CASE UNCHANGED <<lifecycle, announced>>
  BY <1>1 DEF EndedIffAnnounced
<1>2. ASSUME NEW initial \in {"Scheduled", "Waiting"}, Create(initial) PROVE EndedIffAnnounced'
  BY <1>2 DEF Create, Enqueue, EndedIffAnnounced
<1>3. ASSUME NEW r \in Request, CommitStart(r) PROVE EndedIffAnnounced'
  <2>1. announced' = announced \union {"MeetingStarted"}
    BY <1>3 DEF CommitStart, Enqueue
  <2>2. CASE loaded[r].lifecycle = "Recording"
    BY <1>3, <2>1, <2>2 DEF CommitStart, EndedIffAnnounced, row
  <2>3. CASE loaded[r].lifecycle # "Recording"
    <3>1. lifecycle' = "Recording" /\ loaded[r].version = version
      BY <1>3, <2>3 DEF CommitStart, Transition, Fresh
    <3>2. lifecycle # "Ended"
      BY <1>3, <3>1 DEF CommitStart, CopiesOK
    <3> QED
      BY <2>1, <3>1, <3>2 DEF EndedIffAnnounced
  <2> QED
    BY <2>2, <2>3
<1>4. ASSUME NEW r \in Request, CommitEnd(r) PROVE EndedIffAnnounced'
  BY <1>4 DEF CommitEnd, Transition, Enqueue, EndedIffAnnounced
<1>5. ASSUME NEW r \in Request, VerifyUpload(r) PROVE EndedIffAnnounced'
  BY <1>5 DEF VerifyUpload, Enqueue, EndedIffAnnounced, row
<1> QED
  BY <1>1, <1>2, <1>3, <1>4, <1>5
  DEF Next, Handle, Load, OpenUpload, SendFile, Abandon, vars, row

\* A recording becomes Verified together with all it promises, and no promise is
\* taken back.
LEMMA VerifiedStep ==
  ASSUME TypeOK, FilesOK, VerifiedIsComplete, [Next]_vars PROVE VerifiedIsComplete'
<1>1. CASE UNCHANGED <<upload, object, announced, transcription>>
  BY <1>1 DEF VerifiedIsComplete
<1>2. CASE UNCHANGED <<upload, object, transcription>> /\ \E e \in Event : Enqueue(e)
  BY <1>2 DEF Enqueue, VerifiedIsComplete
<1>3. ASSUME NEW r \in Request, OpenUpload(r) PROVE VerifiedIsComplete'
  BY <1>3 DEF OpenUpload, TypeOK, VerifiedIsComplete
<1>4. ASSUME NEW r \in Request, SendFile(r) PROVE VerifiedIsComplete'
  BY <1>4 DEF SendFile, VerifiedIsComplete
<1>5. ASSUME NEW r \in Request, VerifyUpload(r) PROVE VerifiedIsComplete'
  <2>1. target[r] \in Upload /\ target[r] \in object
    BY <1>5 DEF VerifyUpload, FilesOK
  <2> QED
    BY <1>5, <2>1 DEF VerifyUpload, Enqueue, TypeOK, VerifiedIsComplete
<1>6. ASSUME NEW r \in Request, CommitStart(r) \/ CommitEnd(r) PROVE VerifiedIsComplete'
  BY <1>2, <1>6 DEF CommitStart, CommitEnd, Event
<1>7. ASSUME NEW initial \in {"Scheduled", "Waiting"}, Create(initial) PROVE VerifiedIsComplete'
  BY <1>2, <1>7 DEF Create, Event
<1> QED
  BY <1>1, <1>3, <1>4, <1>5, <1>6, <1>7 DEF Next, Handle, Load, Abandon, vars

-----------------------------------------------------------------------------

\* The invariant holds in every reachable state.
THEOREM Invariance == Spec => []IInv
<1>1. ASSUME IInv, [Next]_vars PROVE IInv'
  BY <1>1, TypeStep, CopiesStep, FilesStep, EndedStep, VerifiedStep DEF IInv
<1> QED
  BY <1>1, InitIInv, PTL DEF Spec

\* A meeting is Ended exactly when its end is in the outbox: no request that
\* was under way when it ended, in whatever replica, brings it back.
THEOREM EndIsFinal == Spec => []EndedIffAnnounced
<1>1. IInv => EndedIffAnnounced
  BY DEF IInv
<1> QED
  BY <1>1, Invariance, PTL

\* A Verified recording has its file, its event and its queued transcription,
\* wherever the handlers stop.
THEOREM UploadsAreComplete == Spec => []VerifiedIsComplete
<1>1. IInv => VerifiedIsComplete
  BY DEF IInv
<1> QED
  BY <1>1, Invariance, PTL

\* What has been announced stays announced.
LEMMA AnnouncedGrows == ASSUME [Next]_vars PROVE announced \subseteq announced'
BY DEF Next, Handle, Create, Load, CommitStart, CommitEnd, OpenUpload, SendFile,
       VerifyUpload, Abandon, Enqueue, vars

StartAnnounced == lifecycle = "Recording" => "MeetingStarted" \in announced

\* A meeting that is being recorded was announced as started.
THEOREM StartIsAnnounced == Spec => []StartAnnounced
<1>1. Init => StartAnnounced
  BY DEF Init, StartAnnounced
<1>2. ASSUME StartAnnounced, [Next]_vars PROVE StartAnnounced'
  <2>1. announced \subseteq announced'
    BY <1>2, AnnouncedGrows
  <2>2. lifecycle' # "Recording" \/ lifecycle' = lifecycle \/ "MeetingStarted" \in announced'
    BY <1>2 DEF Next, Handle, Create, Load, CommitStart, CommitEnd, OpenUpload, SendFile,
           VerifyUpload, Abandon, Enqueue, Transition, vars, row
  <2> QED
    BY <1>2, <2>1, <2>2 DEF StartAnnounced
<1> QED
  BY <1>1, <1>2, PTL DEF Spec

=============================================================================
