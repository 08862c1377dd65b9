---------------------------- MODULE PipelineProofs ----------------------------
(***************************************************************************)
(* Proofs about Pipeline, for any meetings, recordings, rows, workers and  *)
(* bounds.  A row belongs to the run that created it, and a run holds an   *)
(* event that has arrived: what is in the index can be followed back from  *)
(* run to run, and no two runs share a row.  With one worker in a stage    *)
(* nothing comes between its poll and its writes.  At the end, what is     *)
(* computed with the chunks, for transcripts and tables of any size.       *)
(***************************************************************************)
EXTENDS MCPipeline, FiniteSetTheorems, TLAPS

Status == {"absent", "DELIVERED", "CONSUMED"}

-----------------------------------------------------------------------------
(* The speech workers.                                                     *)

SpeechTyped ==
  /\ recordingVerified \in [Recording -> Status]
  /\ recordingOf \in [Transcript -> Recording \union {None}]
  /\ transcriptState \in [Transcript -> Speech!TranscriptStatus \union {"absent"}]
  /\ retryCount \in [Transcript -> Nat]
  /\ announced \in [Transcript ->
       SUBSET {"TranscriptReady", "TranscriptionFailed", "dead_letter"}]
  /\ speechClaim \in [SpeechWorkers -> Recording \union {None}]
  /\ speechDraft \in [SpeechWorkers -> Transcript \union {None}]

\* A run holds an event that has arrived, and so does a row.
SpeechTraced ==
  /\ \A w \in SpeechWorkers :
       /\ speechDraft[w] # None => speechClaim[w] # None
       /\ speechClaim[w] # None => recordingVerified[speechClaim[w]] # "absent"
  /\ \A t \in Transcript :
       /\ transcriptState[t] # "absent" <=> recordingOf[t] # None
       /\ recordingOf[t] # None => recordingVerified[recordingOf[t]] # "absent"
       /\ announced[t] # {} => transcriptState[t] # "absent"

SpeechInv == SpeechTyped /\ SpeechTraced /\ Speech!DraftOwned

SpeechDone(w) == Speech!Work(w) \/ Speech!Fail(w) \/ Speech!Crash(w)

LEMMA SpeechNone == None \notin Recording /\ None \notin Transcript
BY PipelineAssumption DEF Speech!ConstantsOK

\* The row of an INSERT is one that was absent.
LEMMA SpeechNewRow ==
  ASSUME \E t \in Transcript : transcriptState[t] = "absent"
  PROVE  Speech!NewRow \in Transcript /\ transcriptState[Speech!NewRow] = "absent"
BY DEF Speech!NewRow

LEMMA SpeechInit == Init => SpeechInv
BY SpeechNone
   DEF Init, Speech!Init, SpeechInv, SpeechTyped, SpeechTraced, Speech!DraftOwned, Status

\* A run that returns leaves the others as they were.
LEMMA SpeechReleased ==
  ASSUME SpeechTyped, NEW w \in SpeechWorkers, Speech!Release(w)
  PROVE  /\ speechClaim' \in [SpeechWorkers -> Recording \union {None}]
         /\ speechDraft' \in [SpeechWorkers -> Transcript \union {None}]
         /\ speechClaim'[w] = None /\ speechDraft'[w] = None
         /\ \A v \in SpeechWorkers \ {w} :
              speechClaim'[v] = speechClaim[v] /\ speechDraft'[v] = speechDraft[v]
BY DEF SpeechTyped, Speech!Release

LEMMA SpeechEventStep ==
  ASSUME SpeechInv, NEW r \in Recording, Speech!Deliver(r) \/ Speech!Redeliver(r)
  PROVE  SpeechInv'
<1>1. /\ recordingVerified' = [recordingVerified EXCEPT ![r] = "DELIVERED"]
      /\ UNCHANGED <<recordingOf, transcriptState, retryCount, announced, speechClaim,
                     speechDraft>>
  BY DEF Speech!Deliver, Speech!Redeliver, Speech!table
<1>2. SpeechTyped'
  BY <1>1 DEF SpeechInv, SpeechTyped, Status
<1>3. SpeechTraced'
  BY <1>1 DEF SpeechInv, SpeechTyped, SpeechTraced
<1>4. Speech!DraftOwned'
  BY <1>1 DEF SpeechInv, Speech!DraftOwned
<1> QED
  BY <1>2, <1>3, <1>4 DEF SpeechInv

LEMMA SpeechWorkStep ==
  ASSUME SpeechInv, NEW w \in SpeechWorkers, SpeechDone(w) PROVE SpeechInv'
<1> USE SpeechNone DEF SpeechInv
<1>1. ASSUME NEW r \in Recording, Speech!ConsumeEvent(w, r) PROVE SpeechInv'
  <2>1. /\ recordingVerified' = [recordingVerified EXCEPT ![r] = "CONSUMED"]
        /\ UNCHANGED <<recordingOf, transcriptState, retryCount, announced, speechClaim,
                       speechDraft>>
    BY <1>1 DEF Speech!ConsumeEvent, Speech!table
  <2>2. SpeechTyped'
    BY <2>1 DEF SpeechTyped, Status
  <2>3. SpeechTraced'
    BY <2>1 DEF SpeechTyped, SpeechTraced
  <2>4. Speech!DraftOwned'
    BY <2>1 DEF Speech!DraftOwned
  <2> QED
    BY <2>2, <2>3, <2>4
<1>2. ASSUME NEW r \in Recording, Speech!ClaimRecording(w, r) PROVE SpeechInv'
  <2>1. /\ speechClaim[w] = None /\ recordingVerified[r] = "DELIVERED"
        /\ speechClaim' = [speechClaim EXCEPT ![w] = r]
        /\ UNCHANGED <<recordingVerified, recordingOf, transcriptState, retryCount, announced,
                       speechDraft>>
    BY <1>2 DEF Speech!ClaimRecording, Speech!table
  <2>2. SpeechTyped'
    BY <2>1 DEF SpeechTyped
  <2>3. SpeechTraced'
    BY <2>1 DEF SpeechTyped, SpeechTraced
  <2>4. Speech!DraftOwned'
    BY <2>1 DEF SpeechTyped, SpeechTraced, Speech!DraftOwned
  <2> QED
    BY <2>2, <2>3, <2>4
<1>3. CASE Speech!CreateDraft(w)
  <2> DEFINE n == Speech!NewRow
  <2>1. n \in Transcript /\ transcriptState[n] = "absent"
    BY <1>3, SpeechNewRow DEF Speech!CreateDraft
  <2>2. /\ speechClaim[w] # None /\ speechDraft[w] = None
        /\ recordingOf' = [recordingOf EXCEPT ![n] = speechClaim[w]]
        /\ transcriptState' = [transcriptState EXCEPT ![n] = "Queued"]
        /\ speechDraft' = [speechDraft EXCEPT ![w] = n]
        /\ UNCHANGED <<recordingVerified, retryCount, announced, speechClaim>>
    BY <1>3 DEF Speech!CreateDraft
  <2> HIDE DEF n
  <2>3. SpeechTyped'
    BY <2>1, <2>2 DEF SpeechTyped, Speech!TranscriptStatus, Speech!Running
  <2>4. SpeechTraced'
    BY <2>1, <2>2 DEF SpeechTyped, SpeechTraced
  <2>5. \A v \in SpeechWorkers : speechDraft[v] # None => speechDraft[v] # n
    BY <2>1 DEF Speech!DraftOwned, Speech!Running
  <2>6. Speech!DraftOwned'
    BY <2>1, <2>2, <2>5 DEF SpeechTyped, Speech!DraftOwned, Speech!Running
  <2> QED
    BY <2>3, <2>4, <2>6
<1>4. CASE Speech!Advance(w)
  <2>1. /\ speechDraft[w] # None
        /\ transcriptState[speechDraft[w]] \in Speech!Running
        /\ transcriptState' = [transcriptState EXCEPT ![speechDraft[w]] = Speech!NextStatus(@)]
        /\ UNCHANGED <<recordingVerified, recordingOf, retryCount, announced, speechClaim,
                       speechDraft>>
    BY <1>4 DEF Speech!Advance
  <2>2. \A s : Speech!NextStatus(s) \in Speech!Running
    BY DEF Speech!NextStatus, Speech!Running
  <2>3. SpeechTyped'
    BY <2>1, <2>2 DEF SpeechTyped, Speech!TranscriptStatus
  <2>4. SpeechTraced'
    BY <2>1, <2>2 DEF SpeechTyped, SpeechTraced, Speech!Running
  <2>5. Speech!DraftOwned'
    BY <2>1, <2>2 DEF SpeechTyped, Speech!DraftOwned
  <2> QED
    BY <2>3, <2>4, <2>5
<1>5. CASE Speech!Complete(w)
  <2>1. /\ speechDraft[w] # None
        /\ transcriptState[speechDraft[w]] = "Persisting"
        /\ transcriptState' = [transcriptState EXCEPT ![speechDraft[w]] = "Completed"]
        /\ announced' = [announced EXCEPT ![speechDraft[w]] = @ \union {"TranscriptReady"}]
        /\ UNCHANGED <<recordingVerified, recordingOf, retryCount, speechClaim, speechDraft>>
    BY <1>5 DEF Speech!Complete
  <2>2. SpeechTyped'
    BY <2>1 DEF SpeechTyped, Speech!TranscriptStatus
  <2>3. SpeechTraced'
    BY <2>1 DEF SpeechTyped, SpeechTraced
  <2>4. Speech!DraftOwned'
    BY <2>1 DEF SpeechTyped, Speech!DraftOwned
  <2> QED
    BY <2>2, <2>3, <2>4
<1>6. CASE Speech!Finish(w) \/ Speech!Crash(w)
  <2>1. /\ Speech!Release(w)
        /\ UNCHANGED <<recordingVerified, recordingOf, transcriptState, retryCount, announced>>
    BY <1>6 DEF Speech!Finish, Speech!Crash, Speech!table
  <2>2. SpeechTyped'
    BY <2>1, SpeechReleased DEF SpeechTyped
  <2>3. SpeechTraced'
    BY <2>1, SpeechReleased DEF SpeechTraced
  <2>4. Speech!DraftOwned'
    BY <2>1, SpeechReleased DEF Speech!DraftOwned
  <2> QED
    BY <2>2, <2>3, <2>4
<1>7. CASE Speech!Fail(w)
  <2> DEFINE t == speechDraft[w]
             e == IF retryCount[t] < MaxRetries THEN "TranscriptionFailed" ELSE "dead_letter"
  <2>1. /\ t # None
        /\ transcriptState' = [transcriptState EXCEPT ![t] = "Failed"]
        /\ retryCount' = [retryCount EXCEPT ![t] = @ + 1]
        /\ announced' = [announced EXCEPT ![t] = @ \union {e}]
        /\ Speech!Release(w)
        /\ UNCHANGED <<recordingVerified, recordingOf>>
    BY <1>7 DEF Speech!Fail
  <2>2. t \in Transcript /\ e \in {"TranscriptionFailed", "dead_letter"}
        /\ transcriptState[t] # "absent"
    BY <2>1 DEF SpeechTyped, Speech!DraftOwned, Speech!Running
  <2> HIDE DEF e
  <2>3. SpeechTyped'
    BY <2>1, <2>2, SpeechReleased DEF SpeechTyped, Speech!TranscriptStatus
  <2>4. SpeechTraced'
    BY <2>1, <2>2, SpeechReleased DEF SpeechTyped, SpeechTraced
  <2>5. Speech!DraftOwned'
    BY <2>1, <2>2, SpeechReleased DEF SpeechTyped, Speech!DraftOwned
  <2> QED
    BY <2>3, <2>4, <2>5
<1> QED
  BY <1>1, <1>2, <1>3, <1>4, <1>5, <1>6, <1>7 DEF SpeechDone, Speech!Work

\* Only the speech workers and the arrival of their events touch their rows.
LEMMA SpeechOrNot ==
  ASSUME [Next]_vars
  PROVE  \/ \E r \in Recording : Speech!Deliver(r) \/ Speech!Redeliver(r)
         \/ \E w \in SpeechWorkers : SpeechDone(w)
         \/ UNCHANGED speech
BY DEF Next, DeliverRecordingVerified, RedeliverRecordingVerified, DeliverTranscriptReady,
       DeliverIntelligenceReady, SpeechStep, IntelligenceStep, IndexingStep, IntegrationStep,
       vars, SpeechDone

LEMMA SpeechInvStep == SpeechInv /\ [Next]_vars => SpeechInv'
<1>1. SpeechInv /\ UNCHANGED speech => SpeechInv'
  BY DEF speech, SpeechInv, SpeechTyped, SpeechTraced, Speech!DraftOwned
<1> QED
  BY <1>1, SpeechOrNot, SpeechEventStep, SpeechWorkStep

-----------------------------------------------------------------------------
(* The intelligence workers.                                               *)

IntelligenceTyped ==
  /\ transcriptReady \in [Transcript -> Status]
  /\ transcriptOf \in [Report -> Transcript \union {None}]
  /\ reportState \in [Report -> Intelligence!IntelligenceReportStatus \union {"absent"}]
  /\ ready \subseteq Report
  /\ reportClaim \in [IntelligenceWorkers -> Transcript \union {None}]
  /\ reportDraft \in [IntelligenceWorkers -> Report \union {None}]

\* A run holds an event that has arrived, and so does a row; an event that has
\* arrived is of a transcript that was announced.
IntelligenceTraced ==
  /\ \A w \in IntelligenceWorkers :
       /\ reportDraft[w] # None => reportClaim[w] # None
       /\ reportClaim[w] # None => transcriptReady[reportClaim[w]] # "absent"
  /\ \A p \in Report :
       /\ reportState[p] # "absent" <=> transcriptOf[p] # None
       /\ transcriptOf[p] # None => transcriptReady[transcriptOf[p]] # "absent"
       /\ p \in ready => reportState[p] # "absent"
  /\ \A t \in Transcript :
       transcriptReady[t] # "absent" => "TranscriptReady" \in announced[t]

IntelligenceInv == IntelligenceTyped /\ IntelligenceTraced /\ Intelligence!DraftOwned

IntelligenceDone(w) == Intelligence!Work(w) \/ Intelligence!Fail(w) \/ Intelligence!Crash(w)

LEMMA IntelligenceNone == None \notin Transcript /\ None \notin Report
BY PipelineAssumption DEF Intelligence!ConstantsOK

LEMMA IntelligenceNewRow ==
  ASSUME \E p \in Report : reportState[p] = "absent"
  PROVE  Intelligence!NewRow \in Report /\ reportState[Intelligence!NewRow] = "absent"
BY DEF Intelligence!NewRow

LEMMA IntelligenceInit == Init => IntelligenceInv
BY IntelligenceNone
   DEF Init, Intelligence!Init, IntelligenceInv, IntelligenceTyped, IntelligenceTraced,
       Intelligence!DraftOwned, Status

LEMMA IntelligenceReleased ==
  ASSUME IntelligenceTyped, NEW w \in IntelligenceWorkers, Intelligence!Release(w)
  PROVE  /\ reportClaim' \in [IntelligenceWorkers -> Transcript \union {None}]
         /\ reportDraft' \in [IntelligenceWorkers -> Report \union {None}]
         /\ reportClaim'[w] = None /\ reportDraft'[w] = None
         /\ \A v \in IntelligenceWorkers \ {w} :
              reportClaim'[v] = reportClaim[v] /\ reportDraft'[v] = reportDraft[v]
BY DEF IntelligenceTyped, Intelligence!Release

LEMMA IntelligenceEventStep ==
  ASSUME IntelligenceInv, NEW t \in Transcript, HasReadyEvent(t), Intelligence!Deliver(t),
         UNCHANGED announced
  PROVE  IntelligenceInv'
<1>1. /\ transcriptReady' = [transcriptReady EXCEPT ![t] = "DELIVERED"]
      /\ UNCHANGED <<transcriptOf, reportState, ready, reportClaim, reportDraft>>
  BY DEF Intelligence!Deliver, Intelligence!table, Intelligence!run
<1>2. IntelligenceTyped'
  BY <1>1 DEF IntelligenceInv, IntelligenceTyped, Status
<1>3. IntelligenceTraced'
  BY <1>1 DEF IntelligenceInv, IntelligenceTyped, IntelligenceTraced, HasReadyEvent
<1>4. Intelligence!DraftOwned'
  BY <1>1 DEF IntelligenceInv, Intelligence!DraftOwned
<1> QED
  BY <1>2, <1>3, <1>4 DEF IntelligenceInv

LEMMA IntelligenceWorkStep ==
  ASSUME IntelligenceInv, NEW w \in IntelligenceWorkers, IntelligenceDone(w),
         UNCHANGED announced
  PROVE  IntelligenceInv'
<1> USE IntelligenceNone DEF IntelligenceInv
<1>1. ASSUME NEW t \in Transcript, Intelligence!ConsumeEvent(w, t) PROVE IntelligenceInv'
  <2>1. /\ transcriptReady[t] = "DELIVERED"
        /\ transcriptReady' = [transcriptReady EXCEPT ![t] = "CONSUMED"]
        /\ UNCHANGED <<transcriptOf, reportState, ready, reportClaim, reportDraft>>
    BY <1>1 DEF Intelligence!ConsumeEvent, Intelligence!table, Intelligence!run
  <2>2. IntelligenceTyped'
    BY <2>1 DEF IntelligenceTyped, Status
  <2>3. IntelligenceTraced'
    BY <2>1 DEF IntelligenceTyped, IntelligenceTraced
  <2>4. Intelligence!DraftOwned'
    BY <2>1 DEF Intelligence!DraftOwned
  <2> QED
    BY <2>2, <2>3, <2>4
<1>2. ASSUME NEW t \in Transcript, Intelligence!ClaimTranscript(w, t) PROVE IntelligenceInv'
  <2>1. /\ reportClaim[w] = None /\ transcriptReady[t] = "DELIVERED"
        /\ reportClaim' = [reportClaim EXCEPT ![w] = t]
        /\ UNCHANGED <<transcriptReady, transcriptOf, reportState, ready, reportDraft>>
    BY <1>2 DEF Intelligence!ClaimTranscript, Intelligence!table
  <2>2. IntelligenceTyped'
    BY <2>1 DEF IntelligenceTyped
  <2>3. IntelligenceTraced'
    BY <2>1 DEF IntelligenceTyped, IntelligenceTraced
  <2>4. Intelligence!DraftOwned'
    BY <2>1 DEF IntelligenceTyped, IntelligenceTraced, Intelligence!DraftOwned
  <2> QED
    BY <2>2, <2>3, <2>4
<1>3. CASE Intelligence!CreateReport(w)
  <2> DEFINE n == Intelligence!NewRow
  <2>1. n \in Report /\ reportState[n] = "absent"
    BY <1>3, IntelligenceNewRow DEF Intelligence!CreateReport
  <2>2. /\ reportClaim[w] # None /\ reportDraft[w] = None
        /\ transcriptOf' = [transcriptOf EXCEPT ![n] = reportClaim[w]]
        /\ reportState' = [reportState EXCEPT ![n] = "Pending"]
        /\ reportDraft' = [reportDraft EXCEPT ![w] = n]
        /\ UNCHANGED <<transcriptReady, ready, reportClaim>>
    BY <1>3 DEF Intelligence!CreateReport
  <2> HIDE DEF n
  <2>3. IntelligenceTyped'
    BY <2>1, <2>2 DEF IntelligenceTyped, Intelligence!IntelligenceReportStatus
  <2>4. IntelligenceTraced'
    BY <2>1, <2>2 DEF IntelligenceTyped, IntelligenceTraced
  <2>5. \A v \in IntelligenceWorkers : reportDraft[v] # None => reportDraft[v] # n
    BY <2>1 DEF Intelligence!DraftOwned
  <2>6. Intelligence!DraftOwned'
    BY <2>1, <2>2, <2>5 DEF IntelligenceTyped, Intelligence!DraftOwned
  <2> QED
    BY <2>3, <2>4, <2>6
<1>4. CASE Intelligence!MarkProcessing(w) \/ Intelligence!SaveResults(w)
  <2>1. PICK s \in {"Processing", "Completed"} :
          /\ reportDraft[w] # None
          /\ reportState' = [reportState EXCEPT ![reportDraft[w]] = s]
          /\ ready' \in {ready, ready \union {reportDraft[w]}}
          /\ UNCHANGED <<transcriptReady, transcriptOf, reportClaim, reportDraft>>
    BY <1>4 DEF Intelligence!MarkProcessing, Intelligence!SaveResults, Intelligence!run
  <2>2. reportDraft[w] \in Report /\ reportState[reportDraft[w]] # "absent"
    BY <2>1 DEF IntelligenceTyped, Intelligence!DraftOwned
  <2>3. IntelligenceTyped'
    BY <2>1, <2>2 DEF IntelligenceTyped, Intelligence!IntelligenceReportStatus
  <2>4. IntelligenceTraced'
    BY <2>1, <2>2 DEF IntelligenceTyped, IntelligenceTraced
  <2>5. Intelligence!DraftOwned'
    BY <2>1, <2>2 DEF IntelligenceTyped, Intelligence!DraftOwned
  <2> QED
    BY <2>3, <2>4, <2>5
<1>5. CASE Intelligence!Finish(w) \/ Intelligence!Crash(w)
  <2>1. Intelligence!Release(w) /\ UNCHANGED <<transcriptReady, transcriptOf, reportState, ready>>
    BY <1>5 DEF Intelligence!Finish, Intelligence!Crash, Intelligence!table
  <2>2. IntelligenceTyped'
    BY <2>1, IntelligenceReleased DEF IntelligenceTyped
  <2>3. IntelligenceTraced'
    BY <2>1, IntelligenceReleased DEF IntelligenceTraced
  <2>4. Intelligence!DraftOwned'
    BY <2>1, IntelligenceReleased DEF Intelligence!DraftOwned
  <2> QED
    BY <2>2, <2>3, <2>4
<1>6. CASE Intelligence!Fail(w)
  <2> DEFINE p == reportDraft[w]
  <2>1. /\ p # None
        /\ reportState' = [reportState EXCEPT ![p] = "Failed"]
        /\ Intelligence!Release(w)
        /\ UNCHANGED <<transcriptReady, transcriptOf, ready>>
    BY <1>6 DEF Intelligence!Fail
  <2>2. p \in Report /\ reportState[p] # "absent"
    BY <2>1 DEF IntelligenceTyped, Intelligence!DraftOwned
  <2>3. IntelligenceTyped'
    BY <2>1, <2>2, IntelligenceReleased
       DEF IntelligenceTyped, Intelligence!IntelligenceReportStatus
  <2>4. IntelligenceTraced'
    BY <2>1, <2>2, IntelligenceReleased DEF IntelligenceTyped, IntelligenceTraced
  <2>5. Intelligence!DraftOwned'
    BY <2>1, <2>2, IntelligenceReleased DEF IntelligenceTyped, Intelligence!DraftOwned
  <2> QED
    BY <2>3, <2>4, <2>5
<1> QED
  BY <1>1, <1>2, <1>3, <1>4, <1>5, <1>6 DEF IntelligenceDone, Intelligence!Work

\* Only the intelligence workers and the arrival of their events touch their rows.
LEMMA IntelligenceOrNot ==
  ASSUME [Next]_vars
  PROVE  \/ /\ \E t \in Transcript : HasReadyEvent(t) /\ Intelligence!Deliver(t)
            /\ UNCHANGED announced
         \/ /\ \E w \in IntelligenceWorkers : IntelligenceDone(w)
            /\ UNCHANGED announced
         \/ UNCHANGED intelligence
BY DEF Next, DeliverRecordingVerified, RedeliverRecordingVerified, DeliverTranscriptReady,
       DeliverIntelligenceReady, SpeechStep, IntelligenceStep, IndexingStep, IntegrationStep,
       vars, IntelligenceDone, speech

\* What was announced stays announced.
LEMMA AnnouncedGrows ==
  ASSUME SpeechTyped, [Next]_vars, NEW t \in Transcript PROVE announced[t] \subseteq announced'[t]
<1>1. \A w \in SpeechWorkers : SpeechDone(w) => announced[t] \subseteq announced'[t]
  BY DEF SpeechTyped, SpeechDone, Speech!Work, Speech!ConsumeEvent, Speech!ClaimRecording,
         Speech!CreateDraft, Speech!Advance, Speech!Complete, Speech!Finish, Speech!Fail,
         Speech!Crash, Speech!table
<1> QED
  BY <1>1, SpeechOrNot DEF speech, Speech!Deliver, Speech!Redeliver, Speech!table

LEMMA IntelligenceInvStep ==
  SpeechTyped /\ IntelligenceInv /\ [Next]_vars => IntelligenceInv'
<1>1. ASSUME SpeechTyped, [Next]_vars, IntelligenceInv, UNCHANGED intelligence
      PROVE  IntelligenceInv'
  <2>1. IntelligenceTyped' /\ Intelligence!DraftOwned'
    BY <1>1 DEF intelligence, IntelligenceInv, IntelligenceTyped, Intelligence!DraftOwned
  <2>2. IntelligenceTraced'
    BY <1>1, AnnouncedGrows DEF intelligence, IntelligenceInv, IntelligenceTraced
  <2> QED
    BY <2>1, <2>2 DEF IntelligenceInv
<1> QED
  BY <1>1, IntelligenceOrNot, IntelligenceEventStep, IntelligenceWorkStep

\* Runs of speech workers, and of intelligence workers, never meet in one row,
\* however many there are and wherever they fail or die.
THEOREM RunsKeepTheirRows == Spec => []RunsOwnTheirRows
<1>1. Init => SpeechInv /\ IntelligenceInv
  BY SpeechInit, IntelligenceInit
<1>2. (SpeechInv /\ IntelligenceInv) /\ [Next]_vars => (SpeechInv /\ IntelligenceInv)'
  BY SpeechInvStep, IntelligenceInvStep DEF SpeechInv
<1>3. SpeechInv /\ IntelligenceInv => RunsOwnTheirRows
  BY DEF SpeechInv, IntelligenceInv, RunsOwnTheirRows
<1> QED
  BY <1>1, <1>2, <1>3, PTL DEF Spec

-----------------------------------------------------------------------------
(* The indexing workers.                                                   *)

IndexingTyped ==
  /\ intelligenceReady \in [Report -> Status]
  /\ meetingOfReport \in [Report -> Meeting \union {None}]
  /\ reportOf \in [IndexReport -> Report \union {None}]
  /\ indexState \in [IndexReport -> Indexing!IndexStatus \union {"absent"}]
  /\ basis \in [IndexReport -> Transcript \union {None}]
  /\ stored \in [Meeting -> SUBSET IndexReport]
  /\ indexClaim \in [IndexingWorkers -> Report \union {None}]
  /\ indexDraft \in [IndexingWorkers -> IndexReport \union {None}]
  /\ progress \in [IndexingWorkers -> {"nothing", "loaded", "deleted", "inserted"}]

\* A run holds an event that has arrived and a row of its own; an event that has
\* arrived is of a report that was announced and names its meeting; chunks are of
\* a row whose event names their meeting.
IndexingTraced ==
  /\ \A w \in IndexingWorkers :
       /\ indexDraft[w] # None =>
            /\ indexClaim[w] # None
            /\ indexState[indexDraft[w]] # "absent"
            /\ reportOf[indexDraft[w]] = indexClaim[w]
       /\ indexClaim[w] # None => intelligenceReady[indexClaim[w]] # "absent"
       /\ progress[w] # "nothing" => indexDraft[w] # None
  /\ \A x \in IndexReport :
       indexState[x] # "absent" =>
         reportOf[x] # None /\ intelligenceReady[reportOf[x]] # "absent"
  /\ \A p \in Report : intelligenceReady[p] # "absent" =>
       /\ p \in ready
       /\ meetingOfReport[p] = MeetingOf[recordingOf[transcriptOf[p]]]
  /\ \A m \in Meeting : \A x \in stored[m] :
       indexState[x] # "absent" /\ meetingOfReport[reportOf[x]] = m

IndexingInv == IndexingTyped /\ IndexingTraced

IndexingDone(w) == Indexing!Work(w) \/ Indexing!Fail(w) \/ Indexing!Crash(w)

LEMMA IndexingNone == None \notin Meeting /\ None \notin Report /\ None \notin IndexReport
BY PipelineAssumption DEF Indexing!ConstantsOK

LEMMA IndexingNewRow ==
  ASSUME \E x \in IndexReport : indexState[x] = "absent"
  PROVE  Indexing!NewRow \in IndexReport /\ indexState[Indexing!NewRow] = "absent"
BY DEF Indexing!NewRow

LEMMA IndexingInit == Init => IndexingInv
BY IndexingNone
   DEF Init, Indexing!Init, Indexing!InitRun, IndexingInv, IndexingTyped, IndexingTraced, Status

LEMMA IndexingReleased ==
  ASSUME IndexingTyped, NEW w \in IndexingWorkers, Indexing!Release(w)
  PROVE  /\ indexClaim' \in [IndexingWorkers -> Report \union {None}]
         /\ indexDraft' \in [IndexingWorkers -> IndexReport \union {None}]
         /\ progress' \in [IndexingWorkers -> {"nothing", "loaded", "deleted", "inserted"}]
         /\ indexClaim'[w] = None /\ indexDraft'[w] = None /\ progress'[w] = "nothing"
         /\ \A v \in IndexingWorkers \ {w} :
              /\ indexClaim'[v] = indexClaim[v]
              /\ indexDraft'[v] = indexDraft[v]
              /\ progress'[v] = progress[v]
BY DEF IndexingTyped, Indexing!Release

\* The meeting a report is of.
MeetingOfRow(p) == MeetingOf[recordingOf[transcriptOf[p]]]

\* Announced reports are of a meeting.
LEMMA AnnouncedHasMeeting ==
  ASSUME SpeechInv, IntelligenceInv, NEW p \in ready
  PROVE  /\ p \in Report
         /\ transcriptOf[p] \in Transcript
         /\ "TranscriptReady" \in announced[transcriptOf[p]]
         /\ recordingOf[transcriptOf[p]] \in Recording
         /\ recordingVerified[recordingOf[transcriptOf[p]]] # "absent"
         /\ MeetingOfRow(p) \in Meeting
<1>1. p \in Report /\ transcriptOf[p] \in Transcript
  BY DEF IntelligenceInv, IntelligenceTyped, IntelligenceTraced
<1>2. "TranscriptReady" \in announced[transcriptOf[p]]
  BY <1>1, IntelligenceNone DEF IntelligenceInv, IntelligenceTraced
<1>3. /\ recordingOf[transcriptOf[p]] \in Recording
      /\ recordingVerified[recordingOf[transcriptOf[p]]] # "absent"
  BY <1>1, <1>2 DEF SpeechInv, SpeechTyped, SpeechTraced
<1>4. MeetingOfRow(p) \in Meeting
  BY <1>3, PipelineAssumption DEF MeetingOfRow
<1> QED
  BY <1>1, <1>2, <1>3, <1>4

\* A transcript stays with its recording.
LEMMA RecordingIsFinal ==
  ASSUME SpeechInv, [Next]_vars, NEW t \in Transcript, transcriptState[t] # "absent"
  PROVE  recordingOf'[t] = recordingOf[t]
<1>1. ASSUME NEW w \in SpeechWorkers, Speech!CreateDraft(w)
      PROVE  recordingOf'[t] = recordingOf[t]
  <2>1. Speech!NewRow # t
    BY <1>1, SpeechNewRow DEF Speech!CreateDraft
  <2> QED
    BY <1>1, <2>1 DEF Speech!CreateDraft, SpeechInv, SpeechTyped
<1> QED
  BY <1>1, SpeechOrNot
     DEF SpeechDone, Speech!Work, Speech!Deliver, Speech!Redeliver, Speech!ConsumeEvent,
         Speech!ClaimRecording, Speech!Advance, Speech!Complete, Speech!Finish, Speech!Fail,
         Speech!Crash, Speech!table, speech

\* Whose report an announced report is does not change any more.
LEMMA OriginIsFinal ==
  ASSUME SpeechInv, IntelligenceInv, [Next]_vars, NEW p \in ready
  PROVE  p \in ready' /\ transcriptOf'[p] = transcriptOf[p] /\ MeetingOfRow(p)' = MeetingOfRow(p)
<1>1. p \in Report /\ reportState[p] # "absent"
  BY DEF IntelligenceInv, IntelligenceTyped, IntelligenceTraced
<1>2. p \in ready' /\ transcriptOf'[p] = transcriptOf[p]
  <2>1. ASSUME NEW w \in IntelligenceWorkers, Intelligence!CreateReport(w)
        PROVE  p \in ready' /\ transcriptOf'[p] = transcriptOf[p]
    <3>1. Intelligence!NewRow # p
      BY <1>1, <2>1, IntelligenceNewRow DEF Intelligence!CreateReport
    <3> QED
      BY <1>1, <2>1, <3>1 DEF Intelligence!CreateReport, IntelligenceInv, IntelligenceTyped
  <2> QED
    BY <2>1, IntelligenceOrNot
       DEF IntelligenceDone, Intelligence!Work, Intelligence!Deliver, Intelligence!ConsumeEvent,
           Intelligence!ClaimTranscript, Intelligence!MarkProcessing, Intelligence!SaveResults,
           Intelligence!Finish, Intelligence!Fail, Intelligence!Crash, Intelligence!table,
           Intelligence!run, intelligence
<1>3. transcriptOf[p] \in Transcript /\ transcriptState[transcriptOf[p]] # "absent"
  BY AnnouncedHasMeeting, SpeechNone DEF SpeechInv, SpeechTraced
<1>4. recordingOf'[transcriptOf[p]] = recordingOf[transcriptOf[p]]
  BY <1>3, RecordingIsFinal
<1> QED
  BY <1>2, <1>4 DEF MeetingOfRow

LEMMA IndexingEventStep ==
  ASSUME SpeechInv, IntelligenceInv, IndexingInv, NEW p \in ready,
         Indexing!Deliver(p, MeetingOfRow(p)), UNCHANGED <<speech, intelligence>>
  PROVE  IndexingInv'
<1>1. p \in Report /\ MeetingOfRow(p) \in Meeting
  BY AnnouncedHasMeeting
<1>2. /\ intelligenceReady[p] = "absent"
      /\ intelligenceReady' = [intelligenceReady EXCEPT ![p] = "DELIVERED"]
      /\ meetingOfReport' = [meetingOfReport EXCEPT ![p] = MeetingOfRow(p)]
      /\ UNCHANGED <<reportOf, indexState, basis, stored, indexClaim, indexDraft, progress,
                     ready, recordingOf, transcriptOf>>
  BY DEF Indexing!Deliver, Indexing!table, Indexing!run, speech, intelligence
<1>3. IndexingTyped'
  BY <1>1, <1>2 DEF IndexingInv, IndexingTyped, Status
<1>4. \A x \in IndexReport : indexState[x] # "absent" => reportOf[x] # p
  BY <1>2 DEF IndexingInv, IndexingTraced
<1>5. \A m \in Meeting : \A x \in stored[m] :
        x \in IndexReport /\ reportOf[x] \in Report \ {p}
  BY <1>4 DEF IndexingInv, IndexingTyped, IndexingTraced
<1>6. IndexingTraced'
  <2>1. \A w \in IndexingWorkers : indexClaim[w] # None =>
          intelligenceReady'[indexClaim[w]] # "absent"
    BY <1>1, <1>2 DEF IndexingInv, IndexingTyped, IndexingTraced
  <2>2. \A x \in IndexReport : indexState[x] # "absent" =>
          reportOf[x] # None /\ intelligenceReady'[reportOf[x]] # "absent"
    BY <1>1, <1>2 DEF IndexingInv, IndexingTyped, IndexingTraced
  <2>3. \A q \in Report : intelligenceReady'[q] # "absent" =>
          q \in ready /\ meetingOfReport'[q] = MeetingOf[recordingOf[transcriptOf[q]]]
    BY <1>1, <1>2 DEF IndexingInv, IndexingTyped, IndexingTraced, MeetingOfRow
  <2>4. \A m \in Meeting : \A x \in stored[m] :
          indexState[x] # "absent" /\ meetingOfReport'[reportOf[x]] = m
    BY <1>1, <1>2, <1>5 DEF IndexingInv, IndexingTyped, IndexingTraced
  <2> QED
    BY <1>2, <2>1, <2>2, <2>3, <2>4 DEF IndexingInv, IndexingTraced
<1> QED
  BY <1>3, <1>6 DEF IndexingInv

\* Consuming an event, in whichever of the two pollers, keeps what it is of.
LEMMA IndexingConsumedStep ==
  ASSUME IndexingInv, NEW p \in Report, intelligenceReady[p] = "DELIVERED",
         intelligenceReady' = [intelligenceReady EXCEPT ![p] = "CONSUMED"],
         UNCHANGED <<indexing, meetingOfReport, ready, recordingOf, transcriptOf>>
  PROVE  IndexingInv'
<1>1. IndexingTyped'
  BY DEF IndexingInv, IndexingTyped, Status, indexing
<1>2. \A q : intelligenceReady'[q] = "absent" <=> intelligenceReady[q] = "absent"
  BY DEF IndexingInv, IndexingTyped
<1>3. IndexingTraced'
  BY <1>2 DEF IndexingInv, IndexingTraced, indexing
<1> QED
  BY <1>1, <1>3 DEF IndexingInv

LEMMA IndexingWorkStep ==
  ASSUME SpeechInv, IntelligenceInv, IndexingInv, NEW w \in IndexingWorkers, IndexingDone(w),
         UNCHANGED <<speech, intelligence>>
  PROVE  IndexingInv'
<1> USE IndexingNone DEF IndexingInv
<1>0. UNCHANGED <<ready, recordingOf, transcriptOf>>
  BY DEF speech, intelligence
<1>1. ASSUME NEW p \in Report, Indexing!ConsumeEvent(w, p) PROVE IndexingInv'
  BY <1>0, <1>1, IndexingConsumedStep
     DEF Indexing!ConsumeEvent, Indexing!table, Indexing!run, indexing
<1>2. ASSUME NEW p \in Report, Indexing!ClaimReport(w, p) PROVE IndexingInv'
  <2>1. /\ indexClaim[w] = None /\ intelligenceReady[p] = "DELIVERED"
        /\ indexClaim' = [indexClaim EXCEPT ![w] = p]
        /\ UNCHANGED <<intelligenceReady, meetingOfReport, reportOf, indexState, basis,
                       stored, indexDraft, progress>>
    BY <1>2 DEF Indexing!ClaimReport, Indexing!table
  <2>2. IndexingTyped'
    BY <2>1 DEF IndexingTyped
  <2>3. IndexingTraced'
    BY <1>0, <2>1 DEF IndexingTyped, IndexingTraced
  <2> QED
    BY <2>2, <2>3
<1>3. CASE Indexing!CreateIndexReport(w)
  <2> DEFINE n == Indexing!NewRow
  <2>1. n \in IndexReport /\ indexState[n] = "absent"
    BY <1>3, IndexingNewRow DEF Indexing!CreateIndexReport
  <2>2. /\ indexClaim[w] # None /\ indexDraft[w] = None
        /\ reportOf' = [reportOf EXCEPT ![n] = indexClaim[w]]
        /\ indexState' = [indexState EXCEPT ![n] = "Queued"]
        /\ indexDraft' = [indexDraft EXCEPT ![w] = n]
        /\ UNCHANGED <<intelligenceReady, meetingOfReport, basis, stored, indexClaim,
                       progress>>
    BY <1>3 DEF Indexing!CreateIndexReport
  <2> HIDE DEF n
  <2>3. IndexingTyped'
    BY <2>1, <2>2 DEF IndexingTyped, Indexing!IndexStatus
  <2>4. \A x : indexState[x] # "absent" => x # n
    BY <2>1
  <2>5. \A v \in IndexingWorkers :
          /\ indexDraft'[v] # None =>
               /\ indexClaim[v] # None
               /\ indexState'[indexDraft'[v]] # "absent"
               /\ reportOf'[indexDraft'[v]] = indexClaim[v]
          /\ progress[v] # "nothing" => indexDraft'[v] # None
    BY <2>1, <2>2, <2>4 DEF IndexingTyped, IndexingTraced
  <2>6. \A x \in IndexReport : indexState'[x] # "absent" =>
          reportOf'[x] # None /\ intelligenceReady[reportOf'[x]] # "absent"
    BY <2>1, <2>2, <2>4 DEF IndexingTyped, IndexingTraced
  <2>7. \A m \in Meeting : \A x \in stored[m] :
          indexState'[x] # "absent" /\ meetingOfReport[reportOf'[x]] = m
    BY <2>1, <2>2, <2>4 DEF IndexingTyped, IndexingTraced
  <2>8. IndexingTraced'
    BY <1>0, <2>2, <2>5, <2>6, <2>7 DEF IndexingTraced
  <2> QED
    BY <2>3, <2>8
<1>4. CASE Indexing!Advance(w) \/ Indexing!MarkIndexed(w) \/ Indexing!Fail(w)
  <2> DEFINE d == indexDraft[w]
  <2>1. PICK s \in Indexing!IndexStatus :
          /\ d # None
          /\ indexState' = [indexState EXCEPT ![d] = s]
          /\ \/ UNCHANGED <<indexClaim, indexDraft, progress>>
             \/ Indexing!Release(w)
          /\ UNCHANGED <<intelligenceReady, meetingOfReport, reportOf, basis, stored>>
    <3>1. CASE Indexing!Advance(w)
      BY <3>1 DEF Indexing!Advance, Indexing!NextStatus, Indexing!IndexStatus, Indexing!run
    <3>2. CASE Indexing!MarkIndexed(w) \/ Indexing!Fail(w)
      BY <3>2 DEF Indexing!MarkIndexed, Indexing!Fail, Indexing!IndexStatus
    <3> QED
      BY <1>4, <3>1, <3>2
  <2>2. d \in IndexReport /\ s # "absent"
    BY <2>1 DEF IndexingTyped, Indexing!IndexStatus
  <2> HIDE DEF d
  <2>3. \A x \in IndexReport : indexState'[x] # "absent" <=> indexState[x] # "absent" \/ x = d
    BY <2>1, <2>2 DEF IndexingTyped
  <2>4. indexState[d] # "absent"
    BY <2>1 DEF d, IndexingTraced
  <2>5. \A x \in IndexReport : indexState'[x] # "absent" <=> indexState[x] # "absent"
    BY <2>3, <2>4
  <2>6. IndexingTyped'
    BY <2>1, <2>2, IndexingReleased DEF IndexingTyped
  <2>7. \A v \in IndexingWorkers :
          \/ /\ indexClaim'[v] = indexClaim[v] /\ indexDraft'[v] = indexDraft[v]
             /\ progress'[v] = progress[v]
          \/ indexClaim'[v] = None /\ indexDraft'[v] = None /\ progress'[v] = "nothing"
    BY <2>1, IndexingReleased
  <2>8. IndexingTraced'
    BY <1>0, <2>1, <2>5, <2>7 DEF IndexingTyped, IndexingTraced
  <2> QED
    BY <2>6, <2>8
<1>5. CASE Indexing!DeleteOldChunks(w) \/ Indexing!InsertNewChunks(w)
  <2> DEFINE m == meetingOfReport[indexClaim[w]]
  <2>1. PICK X \in {{}, stored[m] \union {indexDraft[w]}} :
          /\ indexDraft[w] # None
          /\ stored' = [stored EXCEPT ![m] = X]
          /\ progress' = [progress EXCEPT ![w] =
               IF progress[w] = "loaded" THEN "deleted" ELSE "inserted"]
          /\ UNCHANGED <<intelligenceReady, meetingOfReport, reportOf, indexState, basis,
                         indexClaim, indexDraft>>
    <3>1. CASE Indexing!DeleteOldChunks(w)
      BY <3>1 DEF Indexing!DeleteOldChunks, Indexing!Remaining, Indexing!table
    <3>2. CASE Indexing!InsertNewChunks(w)
      BY <3>2 DEF Indexing!InsertNewChunks, Indexing!table, IndexingTraced, IndexingTyped
    <3> QED
      BY <1>5, <3>1, <3>2
  <2>2. /\ indexDraft[w] \in IndexReport
        /\ indexState[indexDraft[w]] # "absent"
        /\ meetingOfReport[reportOf[indexDraft[w]]] = m
    BY <2>1 DEF IndexingTyped, IndexingTraced
  <2>3. IndexingTyped'
    <3>1. \A k \in Meeting : stored'[k] \subseteq IndexReport
      BY <2>1, <2>2 DEF IndexingTyped
    <3>2. stored' \in [Meeting -> SUBSET IndexReport]
      BY <2>1, <3>1 DEF IndexingTyped
    <3> QED
      BY <2>1, <3>2 DEF IndexingTyped
  <2>4. \A k \in Meeting : \A x \in stored'[k] :
          indexState[x] # "absent" /\ meetingOfReport[reportOf[x]] = k
    BY <2>1, <2>2 DEF IndexingTyped, IndexingTraced
  <2>5. \A v \in IndexingWorkers : progress'[v] # "nothing" => indexDraft[v] # None
    BY <2>1 DEF IndexingTyped, IndexingTraced
  <2>6. IndexingTraced'
    BY <1>0, <2>1, <2>4, <2>5 DEF IndexingTraced
  <2> QED
    BY <2>3, <2>6
<1>6. CASE Indexing!Crash(w)
  <2>1. /\ Indexing!Release(w)
        /\ UNCHANGED <<intelligenceReady, meetingOfReport, reportOf, indexState, basis,
                       stored>>
    BY <1>6 DEF Indexing!Crash, Indexing!table
  <2>2. IndexingTyped'
    BY <2>1, IndexingReleased DEF IndexingTyped
  <2>3. IndexingTraced'
    BY <1>0, <2>1, IndexingReleased DEF IndexingTraced
  <2> QED
    BY <2>2, <2>3
<1>7. CASE Indexing!LoadArtifacts(w)
  <2>1. /\ indexDraft[w] # None
        /\ progress' = [progress EXCEPT ![w] = "loaded"]
        /\ UNCHANGED <<intelligenceReady, meetingOfReport, reportOf, indexState, stored,
                       indexClaim, indexDraft>>
    BY <1>7 DEF Indexing!LoadArtifacts
  <2>2. basis' \in [IndexReport -> Transcript \union {None}]
    BY <1>7 DEF Indexing!LoadArtifacts, Indexing!LoadedTranscripts, Indexing!TranscriptsOf,
                IndexingTyped
  <2>3. IndexingTyped'
    BY <2>1, <2>2 DEF IndexingTyped
  <2>4. IndexingTraced'
    BY <1>0, <2>1 DEF IndexingTyped, IndexingTraced
  <2> QED
    BY <2>3, <2>4
<1> QED
  BY <1>1, <1>2, <1>3, <1>4, <1>5, <1>6, <1>7 DEF IndexingDone, Indexing!Work

\* The integration workers consume events.
LEMMA IntegrationConsumes ==
  ASSUME IntegrationStep
  PROVE  /\ UNCHANGED meetingOfReport
         /\ \/ UNCHANGED intelligenceReady
            \/ \E p \in Report :
                 /\ intelligenceReady[p] = "DELIVERED"
                 /\ intelligenceReady' = [intelligenceReady EXCEPT ![p] = "CONSUMED"]
BY DEF IntegrationStep, Integration!event, Integration!WorkerStep, Integration!Work,
       Integration!SwitchConfig, Integration!Enqueue, Integration!EnqueueRaises,
       Integration!WakeUp, Integration!NoEvent, Integration!SelectJob, Integration!NoJob,
       Integration!ClaimJob, Integration!CancelJob, Integration!StartSend,
       Integration!SendEnds, Integration!RecordDelivered, Integration!RecordRaises,
       Integration!RecordFailed, Integration!Crash

\* They touch nothing else of the index's.
LEMMA IntegrationStepKeeps ==
  ASSUME IndexingInv, IntegrationStep PROVE IndexingInv'
<1>1. UNCHANGED <<indexing, meetingOfReport, ready, recordingOf, transcriptOf>>
  BY IntegrationConsumes DEF IntegrationStep, speech, intelligence
<1>3. CASE UNCHANGED intelligenceReady
  <2>1. IndexingTyped'
    BY <1>1, <1>3 DEF IndexingInv, IndexingTyped, indexing
  <2>2. IndexingTraced'
    BY <1>1, <1>3 DEF IndexingInv, IndexingTraced, indexing
  <2> QED
    BY <2>1, <2>2 DEF IndexingInv
<1> QED
  BY <1>1, <1>3, IntegrationConsumes, IndexingConsumedStep

\* Only the two pollers of the event and its arrival touch what is indexed.
LEMMA IndexingOrNot ==
  ASSUME [Next]_vars
  PROVE  \/ /\ \E p \in ready : Indexing!Deliver(p, MeetingOfRow(p))
            /\ UNCHANGED <<speech, intelligence>>
         \/ /\ \E w \in IndexingWorkers : IndexingDone(w)
            /\ UNCHANGED <<speech, intelligence>>
         \/ IntegrationStep
         \/ UNCHANGED <<indexing, shared>>
BY DEF Next, DeliverRecordingVerified, RedeliverRecordingVerified, DeliverTranscriptReady,
       DeliverIntelligenceReady, SpeechStep, IntelligenceStep, IndexingStep, vars,
       IndexingDone, MeetingOfRow

LEMMA IndexingInvStep ==
  SpeechInv /\ IntelligenceInv /\ IndexingInv /\ [Next]_vars => IndexingInv'
<1>1. ASSUME SpeechInv, IntelligenceInv, IndexingInv, [Next]_vars, UNCHANGED <<indexing, shared>>
      PROVE  IndexingInv'
  <2>1. IndexingTyped'
    BY <1>1 DEF IndexingInv, IndexingTyped, indexing, shared
  <2>2. \A p \in ready : p \in ready' /\ MeetingOfRow(p)' = MeetingOfRow(p)
    BY <1>1, OriginIsFinal
  <2>3. IndexingTraced'
    BY <1>1, <2>2 DEF IndexingInv, IndexingTraced, indexing, shared, MeetingOfRow
  <2> QED
    BY <2>1, <2>3 DEF IndexingInv
<1> QED
  BY <1>1, IndexingOrNot, IndexingEventStep, IndexingWorkStep, IntegrationStepKeeps

\* The meeting that the event of x's report names, and that report's transcript.
MeetingOfIndex(x) == meetingOfReport[reportOf[x]]
TranscriptOfIndex(x) == transcriptOf[reportOf[x]]

OwnUnlessShared(x) ==
  \/ basis[x] = TranscriptOfIndex(x)
  \/ TranscriptOfIndex(x) \in Silent
  \/ HasAnother(TranscriptOfIndex(x), MeetingOfIndex(x))

\* A run takes utterances of its meeting only, and has taken some when its chunks
\* are saved.
IndexingBased ==
  /\ \A x \in IndexReport : basis[x] # None =>
       indexState[x] # "absent" /\ AnnouncedOf(basis[x], MeetingOfIndex(x))
  /\ \A w \in IndexingWorkers : progress[w] # "nothing" => OwnUnlessShared(indexDraft[w])
  /\ \A m \in Meeting : \A x \in stored[m] : OwnUnlessShared(x)

\* An event that has arrived stays known.
LEMMA ArrivedStays ==
  ASSUME SpeechTyped, [Next]_vars, NEW r \in Recording, recordingVerified[r] # "absent"
  PROVE  recordingVerified'[r] # "absent"
BY SpeechOrNot
   DEF SpeechTyped, SpeechDone, Speech!Work, Speech!Deliver, Speech!Redeliver,
       Speech!ConsumeEvent, Speech!ClaimRecording, Speech!CreateDraft, Speech!Advance,
       Speech!Complete, Speech!Finish, Speech!Fail, Speech!Crash, Speech!table, speech

\* What is known of a transcript stays known.
LEMMA TranscriptsStay ==
  ASSUME SpeechInv, [Next]_vars, NEW t, NEW m
  PROVE  /\ AnnouncedOf(t, m) => AnnouncedOf(t, m)'
         /\ HasAnother(t, m) => HasAnother(t, m)'
<1>1. ASSUME NEW u \in Transcript, recordingOf[u] # None PROVE recordingOf'[u] = recordingOf[u]
  BY <1>1, RecordingIsFinal DEF SpeechInv, SpeechTraced
<1>2. ASSUME AnnouncedOf(t, m) PROVE AnnouncedOf(t, m)'
  <2>1. /\ t \in Transcript
        /\ "TranscriptReady" \in announced[t]
        /\ recordingOf[t] \in Recording
        /\ MeetingOf[recordingOf[t]] = m
        /\ recordingVerified[recordingOf[t]] # "absent"
    BY <1>2 DEF AnnouncedOf, ArrivedOf
  <2>2. "TranscriptReady" \in announced'[t]
    BY <2>1, AnnouncedGrows DEF SpeechInv
  <2>3. recordingOf'[t] = recordingOf[t]
    BY <1>1, <2>1, SpeechNone
  <2>4. recordingVerified'[recordingOf[t]] # "absent"
    BY <2>1, ArrivedStays DEF SpeechInv
  <2> QED
    BY <2>1, <2>2, <2>3, <2>4 DEF AnnouncedOf, ArrivedOf
<1>3. ASSUME HasAnother(t, m) PROVE HasAnother(t, m)'
  <2>1. PICK u \in Transcript \ {t} : recordingOf[u] # None /\ MeetingOf[recordingOf[u]] = m
    BY <1>3 DEF HasAnother
  <2>2. recordingOf'[u] = recordingOf[u]
    BY <1>1, <2>1
  <2> QED
    BY <2>1, <2>2 DEF HasAnother
<1> QED
  BY <1>2, <1>3

\* A row's event has arrived, and what it is of stays the same.
LEMMA IndexRowStays ==
  ASSUME SpeechInv, IntelligenceInv, IndexingInv, [Next]_vars,
         NEW x \in IndexReport, indexState[x] # "absent"
  PROVE  /\ reportOf[x] \in ready
         /\ reportOf'[x] = reportOf[x]
         /\ indexState'[x] # "absent"
         /\ MeetingOfIndex(x)' = MeetingOfIndex(x)
         /\ TranscriptOfIndex(x)' = TranscriptOfIndex(x)
<1>1. /\ reportOf[x] \in Report
      /\ intelligenceReady[reportOf[x]] # "absent"
      /\ reportOf[x] \in ready
  BY DEF IndexingInv, IndexingTyped, IndexingTraced
<1>2. reportOf'[x] = reportOf[x] /\ indexState'[x] # "absent"
  <2>1. ASSUME NEW w \in IndexingWorkers, Indexing!CreateIndexReport(w)
        PROVE  reportOf'[x] = reportOf[x] /\ indexState'[x] # "absent"
    <3>1. Indexing!NewRow # x
      BY <2>1, IndexingNewRow DEF Indexing!CreateIndexReport
    <3> QED
      BY <2>1, <3>1 DEF Indexing!CreateIndexReport, IndexingInv, IndexingTyped
  <2>2. ASSUME NEW w \in IndexingWorkers, IndexingDone(w), ~Indexing!CreateIndexReport(w)
        PROVE  reportOf'[x] = reportOf[x] /\ indexState'[x] # "absent"
    BY <2>2
       DEF IndexingDone, Indexing!Work, Indexing!ConsumeEvent, Indexing!ClaimReport,
           Indexing!LoadArtifacts, Indexing!Advance, Indexing!NextStatus,
           Indexing!DeleteOldChunks, Indexing!InsertNewChunks, Indexing!MarkIndexed,
           Indexing!Fail, Indexing!Crash, Indexing!table, IndexingInv, IndexingTyped
  <2> QED
    BY <2>1, <2>2, IndexingOrNot DEF Indexing!Deliver, Indexing!table, IntegrationStep, indexing
<1>3. meetingOfReport'[reportOf[x]] = meetingOfReport[reportOf[x]]
  BY <1>1, IndexingOrNot, IntegrationConsumes
     DEF Indexing!Deliver, IndexingDone, Indexing!Work, Indexing!ConsumeEvent,
         Indexing!ClaimReport, Indexing!CreateIndexReport, Indexing!LoadArtifacts,
         Indexing!Advance, Indexing!DeleteOldChunks, Indexing!InsertNewChunks,
         Indexing!MarkIndexed, Indexing!Fail, Indexing!Crash, IntegrationStep, shared,
         IndexingInv, IndexingTyped
<1>4. transcriptOf'[reportOf[x]] = transcriptOf[reportOf[x]]
  BY <1>1, OriginIsFinal
<1> QED
  BY <1>1, <1>2, <1>3, <1>4 DEF MeetingOfIndex, TranscriptOfIndex

\* Utterances that are loaded are of the meeting, and the report's own if there
\* are no others.
LEMMA LoadedIsOfMeeting ==
  ASSUME SpeechInv, IntelligenceInv, IndexingInv, NEW w \in IndexingWorkers,
         Indexing!LoadArtifacts(w), UNCHANGED <<speech, intelligence>>
  PROVE  LET x == indexDraft[w]
         IN  /\ x \in IndexReport /\ indexState[x] # "absent"
             /\ basis' = [basis EXCEPT ![x] = basis'[x]]
             /\ basis'[x] # None => AnnouncedOf(basis'[x], MeetingOfIndex(x))
             /\ \/ basis'[x] = TranscriptOfIndex(x)
                \/ TranscriptOfIndex(x) \in Silent
                \/ HasAnother(TranscriptOfIndex(x), MeetingOfIndex(x))
<1> DEFINE x == indexDraft[w]
           t == TranscriptOfIndex(x)
           m == MeetingOfIndex(x)
<1>1. /\ x \in IndexReport /\ indexState[x] # "absent"
      /\ reportOf[x] = indexClaim[w]
      /\ reportOf[x] \in ready
      /\ m = MeetingOfRow(reportOf[x])
  BY DEF Indexing!LoadArtifacts, IndexingInv, IndexingTyped, IndexingTraced, MeetingOfIndex,
         MeetingOfRow
<1>2. t \in Transcript /\ "TranscriptReady" \in announced[t] /\ m \in Meeting
  BY <1>1, AnnouncedHasMeeting DEF TranscriptOfIndex
<1>3. PICK u \in Transcript :
        /\ MeetingOfTranscript[u] = m
        /\ basis' = [basis EXCEPT ![x] = IF u \in Uttered THEN u ELSE None]
  BY <1>1 DEF Indexing!LoadArtifacts, Indexing!LoadedTranscripts, Indexing!TranscriptsOf,
              MeetingOfIndex
<1>4. recordingOf[u] # None /\ MeetingOf[recordingOf[u]] = m
  BY <1>2, <1>3, IndexingNone DEF MeetingOfTranscript
<1>5. basis'[x] = IF u \in Uttered THEN u ELSE None
  BY <1>1, <1>3 DEF IndexingInv, IndexingTyped
<1>6. ASSUME u \in Uttered PROVE AnnouncedOf(u, m)
  BY <1>4, <1>6 DEF Uttered, AnnouncedOf, ArrivedOf, SpeechInv, SpeechTyped, SpeechTraced
<1>7. \/ basis'[x] = t
      \/ t \in Silent
      \/ HasAnother(t, m)
  <2>1. CASE u = t
    BY <1>2, <1>5, <2>1 DEF Uttered
  <2>2. CASE u # t
    BY <1>4, <2>2 DEF HasAnother
  <2> QED
    BY <2>1, <2>2
<1>8. basis'[x] # None => AnnouncedOf(basis'[x], m)
  BY <1>5, <1>6
<1>9. basis' = [basis EXCEPT ![x] = basis'[x]]
  BY <1>3, <1>5
<1> QED
  BY <1>1, <1>7, <1>8, <1>9

\* A step that loads nothing changes no row's basis, and saves only chunks of runs
\* that have loaded.
LEMMA OnlyLoadedIsStored ==
  ASSUME SpeechInv, IntelligenceInv, IndexingInv, [Next]_vars,
         \A w \in IndexingWorkers : ~Indexing!LoadArtifacts(w)
  PROVE  /\ basis' = basis
         /\ \A v \in IndexingWorkers : progress'[v] # "nothing" =>
              progress[v] # "nothing" /\ indexDraft'[v] = indexDraft[v]
         /\ \A m \in Meeting : \A x \in stored'[m] :
              \/ x \in stored[m]
              \/ \E v \in IndexingWorkers : progress[v] # "nothing" /\ x = indexDraft[v]
<1> DEFINE Kept ==
      /\ basis' = basis
      /\ \A v \in IndexingWorkers : progress'[v] # "nothing" =>
           progress[v] # "nothing" /\ indexDraft'[v] = indexDraft[v]
      /\ \A m \in Meeting : \A x \in stored'[m] :
           \/ x \in stored[m]
           \/ \E v \in IndexingWorkers : progress[v] # "nothing" /\ x = indexDraft[v]
<1>1. ASSUME UNCHANGED <<basis, stored, indexDraft, progress>> PROVE Kept
  BY <1>1
<1>2. ASSUME NEW w \in IndexingWorkers, Indexing!Release(w), UNCHANGED <<basis, stored>>
      PROVE  Kept
  BY <1>2, IndexingReleased DEF IndexingInv
<1>3. ASSUME NEW w \in IndexingWorkers, Indexing!CreateIndexReport(w) PROVE Kept
  <2>1. /\ indexDraft[w] = None
        /\ indexDraft' = [indexDraft EXCEPT ![w] = Indexing!NewRow]
        /\ UNCHANGED <<basis, stored, progress>>
    BY <1>3 DEF Indexing!CreateIndexReport
  <2>2. progress[w] = "nothing"
    BY <2>1 DEF IndexingInv, IndexingTraced
  <2> QED
    BY <2>1, <2>2 DEF IndexingInv, IndexingTyped
<1>4. ASSUME NEW w \in IndexingWorkers,
             Indexing!DeleteOldChunks(w) \/ Indexing!InsertNewChunks(w)
      PROVE  Kept
  <2> DEFINE m == meetingOfReport[indexClaim[w]]
  <2>1. /\ progress[w] # "nothing"
        /\ \/ progress' = [progress EXCEPT ![w] = "deleted"]
           \/ progress' = [progress EXCEPT ![w] = "inserted"]
        /\ \/ stored' = [stored EXCEPT ![m] = {}]
           \/ stored' = [stored EXCEPT ![m] = @ \union {indexDraft[w]}]
        /\ UNCHANGED <<basis, indexDraft>>
    BY <1>4 DEF Indexing!DeleteOldChunks, Indexing!InsertNewChunks, Indexing!Remaining,
                Indexing!table
  <2> HIDE DEF m
  <2>2. \A k \in Meeting : \A x \in stored'[k] :
          x \in stored[k] \/ x = indexDraft[w]
    BY <2>1 DEF IndexingInv, IndexingTyped
  <2>3. \A v \in IndexingWorkers : progress'[v] # "nothing" => progress[v] # "nothing"
    BY <2>1 DEF IndexingInv, IndexingTyped
  <2> QED
    BY <2>1, <2>2, <2>3
<1>5. ASSUME NEW w \in IndexingWorkers, IndexingDone(w) PROVE Kept
  BY <1>1, <1>2, <1>3, <1>4, <1>5
     DEF IndexingDone, Indexing!Work, Indexing!ConsumeEvent, Indexing!ClaimReport,
         Indexing!Advance, Indexing!MarkIndexed, Indexing!Fail, Indexing!Crash,
         Indexing!table, Indexing!run
<1>6. ASSUME NEW p, NEW m, Indexing!Deliver(p, m) PROVE Kept
  BY <1>1, <1>6 DEF Indexing!Deliver, Indexing!table, Indexing!run
<1> HIDE DEF Kept
<1>7. Kept
  BY <1>1, <1>5, <1>6, IndexingOrNot DEF IntegrationStep, indexing
<1> QED
  BY <1>7 DEF Kept

LEMMA IndexingBasedStep ==
  ASSUME SpeechInv, IntelligenceInv, IndexingInv, IndexingBased, [Next]_vars
  PROVE  IndexingBased'
<1>1. ASSUME NEW x \in IndexReport, indexState[x] # "absent"
      PROVE  /\ \A u : AnnouncedOf(u, MeetingOfIndex(x)) => AnnouncedOf(u, MeetingOfIndex(x))'
             /\ HasAnother(TranscriptOfIndex(x), MeetingOfIndex(x))
                  => HasAnother(TranscriptOfIndex(x), MeetingOfIndex(x))'
             /\ TranscriptOfIndex(x)' = TranscriptOfIndex(x)
             /\ indexState'[x] # "absent"
  <2> DEFINE m == MeetingOfIndex(x)
             t == TranscriptOfIndex(x)
  <2>1. MeetingOfIndex(x)' = m /\ TranscriptOfIndex(x)' = t /\ indexState'[x] # "absent"
    BY <1>1, IndexRowStays
  <2> QED
    BY <2>1, TranscriptsStay DEF AnnouncedOf, ArrivedOf, HasAnother
<1>2. ASSUME NEW x \in IndexReport, indexState[x] # "absent", basis'[x] = basis[x]
      PROVE  OwnUnlessShared(x) => OwnUnlessShared(x)'
  BY <1>1, <1>2 DEF OwnUnlessShared
<1>3. ASSUME NEW x \in IndexReport, indexState[x] # "absent", basis'[x] = basis[x],
              AnnouncedOf(basis[x], MeetingOfIndex(x))
       PROVE  AnnouncedOf(basis[x], MeetingOfIndex(x))'
  <2>1. PICK u : u = basis[x]
    OBVIOUS
  <2>2. AnnouncedOf(u, MeetingOfIndex(x))'
    BY <1>1, <1>3, <2>1
  <2> QED
    BY <1>3, <2>1, <2>2 DEF AnnouncedOf, ArrivedOf
<1>4. /\ \A v \in IndexingWorkers : progress[v] # "nothing" =>
           indexDraft[v] \in IndexReport /\ indexState[indexDraft[v]] # "absent"
      /\ \A m \in Meeting : \A x \in stored[m] :
           x \in IndexReport /\ indexState[x] # "absent"
  BY DEF IndexingInv, IndexingTyped, IndexingTraced
\* What the rows and runs have kept, if each of their bases is still good.
<1>5. ASSUME \A x \in IndexReport : basis'[x] # None =>
               (indexState[x] # "absent" /\ AnnouncedOf(basis[x], MeetingOfIndex(x)))',
             \A v \in IndexingWorkers : progress'[v] # "nothing" =>
               \E x \in IndexReport : x = indexDraft'[v] /\ OwnUnlessShared(x)',
             \A m \in Meeting : \A x \in stored'[m] : OwnUnlessShared(x)'
      PROVE  IndexingBased'
  <2>1. ASSUME NEW v \in IndexingWorkers, progress'[v] # "nothing"
        PROVE  OwnUnlessShared(indexDraft[v])'
    <3>1. PICK x \in IndexReport : x = indexDraft'[v] /\ OwnUnlessShared(x)'
      BY <1>5, <2>1
    <3> QED
      BY <3>1 DEF OwnUnlessShared, TranscriptOfIndex, MeetingOfIndex, HasAnother
  <2> QED
    BY <1>5, <2>1 DEF IndexingBased
<1>6. CASE \A w \in IndexingWorkers : ~Indexing!LoadArtifacts(w)
  <2>1. /\ basis' = basis
        /\ \A v \in IndexingWorkers : progress'[v] # "nothing" =>
             progress[v] # "nothing" /\ indexDraft'[v] = indexDraft[v]
        /\ \A m \in Meeting : \A x \in stored'[m] :
             \/ x \in stored[m]
             \/ \E v \in IndexingWorkers : progress[v] # "nothing" /\ x = indexDraft[v]
    BY <1>6, OnlyLoadedIsStored
  <2>2. ASSUME NEW x \in IndexReport, basis'[x] # None
        PROVE  (indexState[x] # "absent" /\ AnnouncedOf(basis[x], MeetingOfIndex(x)))'
    BY <1>1, <1>3, <2>1, <2>2 DEF IndexingBased
  <2>3. ASSUME NEW v \in IndexingWorkers, progress[v] # "nothing"
        PROVE  \E x \in IndexReport : x = indexDraft[v] /\ OwnUnlessShared(x)'
    <3>1. PICK x \in IndexReport : x = indexDraft[v] /\ indexState[x] # "absent"
      BY <1>4, <2>3
    <3>2. OwnUnlessShared(x)
      BY <2>3, <3>1 DEF IndexingBased
    <3> QED
      BY <1>2, <2>1, <3>1, <3>2
  <2>4. ASSUME NEW m \in Meeting, NEW x \in stored[m] PROVE OwnUnlessShared(x)'
    BY <1>2, <1>4, <2>1 DEF IndexingBased
  <2>5. ASSUME NEW m \in Meeting, NEW x \in stored'[m] PROVE OwnUnlessShared(x)'
    BY <2>1, <2>3, <2>4
  <2> QED
    BY <1>5, <2>1, <2>2, <2>3, <2>5
<1>7. ASSUME NEW w \in IndexingWorkers, Indexing!LoadArtifacts(w) PROVE IndexingBased'
  <2>1. UNCHANGED <<speech, intelligence, stored, indexDraft>>
    <3>1. progress'[w] # progress[w]
      BY <1>7 DEF Indexing!LoadArtifacts, IndexingInv, IndexingTyped
    <3>2. UNCHANGED <<speech, intelligence>>
      BY <3>1, IndexingOrNot
         DEF Indexing!Deliver, Indexing!run, IntegrationStep, indexing, speech, intelligence
    <3> QED
      BY <1>7, <3>2 DEF Indexing!LoadArtifacts
  <2>2. PICK d \in IndexReport :
          /\ d = indexDraft[w]
          /\ indexState[d] # "absent"
          /\ basis' = [basis EXCEPT ![d] = basis'[d]]
          /\ basis'[d] # None => AnnouncedOf(basis'[d], MeetingOfIndex(d))
          /\ \/ basis'[d] = TranscriptOfIndex(d)
             \/ TranscriptOfIndex(d) \in Silent
             \/ HasAnother(TranscriptOfIndex(d), MeetingOfIndex(d))
    BY <1>7, <2>1, LoadedIsOfMeeting
  <2>3. basis'[d] # None => AnnouncedOf(basis[d], MeetingOfIndex(d))'
    <3>1. PICK u : u = basis'[d]
      OBVIOUS
    <3>2. u # None => AnnouncedOf(u, MeetingOfIndex(d))'
      BY <1>1, <2>2, <3>1
    <3> QED
      BY <3>1, <3>2 DEF AnnouncedOf, ArrivedOf
  <2>4. OwnUnlessShared(d)'
    BY <1>1, <2>2 DEF OwnUnlessShared
  <2>5. \A x \in IndexReport \ {d} : basis'[x] = basis[x]
    BY <2>2 DEF IndexingInv, IndexingTyped
  <2>6. ASSUME NEW x \in IndexReport, basis'[x] # None
        PROVE  (indexState[x] # "absent" /\ AnnouncedOf(basis[x], MeetingOfIndex(x)))'
    <3>1. CASE x = d
      BY <1>1, <2>2, <2>3, <2>6, <3>1
    <3>2. CASE x # d
      BY <1>1, <1>3, <2>5, <2>6, <3>2 DEF IndexingBased
    <3> QED
      BY <3>1, <3>2
  <2>7. ASSUME NEW x \in IndexReport, indexState[x] # "absent", OwnUnlessShared(x)
        PROVE  OwnUnlessShared(x)'
    <3>1. CASE x = d
      BY <2>4, <3>1
    <3>2. CASE x # d
      BY <1>2, <2>5, <2>7, <3>2
    <3> QED
      BY <3>1, <3>2
  <2>8. ASSUME NEW v \in IndexingWorkers, progress'[v] # "nothing"
        PROVE  \E x \in IndexReport : x = indexDraft'[v] /\ OwnUnlessShared(x)'
    <3>1. CASE v = w
      BY <2>1, <2>2, <2>4, <3>1
    <3>2. CASE v # w
      <4>1. progress[v] # "nothing"
        BY <1>7, <2>8, <3>2 DEF Indexing!LoadArtifacts, IndexingInv, IndexingTyped
      <4>2. PICK x \in IndexReport : x = indexDraft[v] /\ indexState[x] # "absent"
        BY <1>4, <4>1
      <4>3. OwnUnlessShared(x)
        BY <4>1, <4>2 DEF IndexingBased
      <4> QED
        BY <2>1, <2>7, <4>2, <4>3
    <3> QED
      BY <3>1, <3>2
  <2>9. ASSUME NEW m \in Meeting, NEW x \in stored[m] PROVE OwnUnlessShared(x)'
    BY <1>4, <2>7 DEF IndexingBased
  <2> QED
    BY <1>5, <2>1, <2>6, <2>8, <2>9
<1> QED
  BY <1>6, <1>7

\* What is in the index can be traced back through both hand-overs, with any
\* number of workers in every stage and whatever fails in between.
THEOREM IndexTracesBack == Spec => []IndexIsTraceable
<1> DEFINE Inv == SpeechInv /\ IntelligenceInv /\ IndexingInv /\ IndexingBased
<1>1. Init => Inv
  <2>1. Init => IndexingBased
    BY DEF Init, Indexing!Init, Indexing!InitRun, IndexingBased
  <2> QED
    BY <2>1, SpeechInit, IntelligenceInit, IndexingInit
<1>2. Inv /\ [Next]_vars => Inv'
  BY SpeechInvStep, IntelligenceInvStep, IndexingInvStep, IndexingBasedStep DEF SpeechInv
<1>3. Inv => IndexIsTraceable
  <2> SUFFICES ASSUME Inv, NEW m \in Meeting, NEW x \in stored[m]
      PROVE  LET p == reportOf[x] t == transcriptOf[p]
             IN  /\ p \in ready
                 /\ AnnouncedOf(t, m)
                 /\ basis[x] # None => AnnouncedOf(basis[x], m)
                 /\ basis[x] = t \/ t \in Silent \/ HasAnother(t, m)
    BY DEF IndexIsTraceable
  <2>1. x \in IndexReport /\ reportOf[x] \in Report
    BY DEF IndexingInv, IndexingTyped, IndexingTraced
  <2>2. /\ reportOf[x] \in ready
        /\ MeetingOfRow(reportOf[x]) = m
        /\ MeetingOfIndex(x) = m
    BY <2>1 DEF IndexingInv, IndexingTraced, MeetingOfRow, MeetingOfIndex
  <2>3. AnnouncedOf(transcriptOf[reportOf[x]], m)
    BY <2>2, AnnouncedHasMeeting DEF MeetingOfRow, AnnouncedOf, ArrivedOf
  <2>4. OwnUnlessShared(x) /\ (basis[x] # None => AnnouncedOf(basis[x], m))
    BY <2>1, <2>2 DEF IndexingBased
  <2> QED
    BY <2>2, <2>3, <2>4 DEF OwnUnlessShared, TranscriptOfIndex
<1> HIDE DEF Inv
<1> QED
  BY <1>1, <1>2, <1>3, PTL DEF Spec

-----------------------------------------------------------------------------
(* One worker in a stage: nothing comes between its poll and its writes.   *)

\* A recording that is about to get its row has none.
SpeechAlone ==
  /\ OneTranscriptPerRecording
  /\ \A w \in SpeechWorkers : speechClaim[w] # None /\ speechDraft[w] = None =>
       \A t \in Transcript : recordingOf[t] # speechClaim[w]

LEMMA SpeechAloneStep ==
  ASSUME NEW w, SpeechWorkers = {w}, SpeechInv, SpeechAlone, [Next]_vars
  PROVE  SpeechAlone'
<1> USE DEF SpeechAlone, OneTranscriptPerRecording, Speech!OneTranscriptPerRecording
<1>1. ASSUME UNCHANGED <<recordingOf, speechClaim, speechDraft>> PROVE SpeechAlone'
  BY <1>1
<1>2. CASE Speech!CreateDraft(w)
  <2> DEFINE n == Speech!NewRow
  <2>1. n \in Transcript /\ recordingOf[n] = None
    BY <1>2, SpeechNewRow DEF Speech!CreateDraft, SpeechInv, SpeechTraced
  <2>2. /\ speechClaim[w] # None /\ speechDraft[w] = None
        /\ recordingOf' = [recordingOf EXCEPT ![n] = speechClaim[w]]
        /\ speechDraft' = [speechDraft EXCEPT ![w] = n]
    BY <1>2 DEF Speech!CreateDraft
  <2> HIDE DEF n
  <2>3. speechDraft'[w] # None
    BY <2>1, <2>2, SpeechNone DEF SpeechInv, SpeechTyped
  <2>4. \A t, u \in Transcript :
          recordingOf'[t] # None /\ recordingOf'[t] = recordingOf'[u] => t = u
    BY <2>1, <2>2 DEF SpeechInv, SpeechTyped
  <2> QED
    BY <2>3, <2>4
<1>3. ASSUME NEW r \in Recording, Speech!ClaimRecording(w, r) PROVE SpeechAlone'
  <2>1. /\ \A t \in Transcript : recordingOf[t] # r
        /\ speechClaim' = [speechClaim EXCEPT ![w] = r]
        /\ UNCHANGED recordingOf
    BY <1>3 DEF Speech!ClaimRecording, Speech!HasTranscript, Speech!table
  <2> QED
    BY <2>1 DEF SpeechInv, SpeechTyped
<1>4. ASSUME Speech!Release(w), UNCHANGED recordingOf PROVE SpeechAlone'
  BY <1>4, SpeechReleased DEF SpeechInv
<1>5. CASE \E r \in Recording :
             Speech!Deliver(r) \/ Speech!Redeliver(r) \/ Speech!ConsumeEvent(w, r)
  BY <1>1, <1>5 DEF Speech!Deliver, Speech!Redeliver, Speech!ConsumeEvent, Speech!table
<1>6. CASE Speech!Advance(w) \/ Speech!Complete(w)
  BY <1>1, <1>6 DEF Speech!Advance, Speech!Complete
<1>7. CASE Speech!Finish(w) \/ Speech!Fail(w) \/ Speech!Crash(w)
  BY <1>4, <1>7 DEF Speech!Finish, Speech!Fail, Speech!Crash, Speech!table
<1>8. CASE UNCHANGED speech
  BY <1>1, <1>8 DEF speech
<1> QED
  BY <1>2, <1>3, <1>5, <1>6, <1>7, <1>8, SpeechOrNot DEF SpeechDone, Speech!Work

\* One speech worker transcribes a recording into one row, for any number of
\* events that come back and wherever it fails or dies.
THEOREM OneTranscript ==
  ASSUME NEW CONSTANT w, SpeechWorkers = {w}
  PROVE  Spec => []OneTranscriptPerRecording
<1>1. Init => SpeechInv /\ SpeechAlone
  BY SpeechInit
     DEF Init, Speech!Init, SpeechAlone, OneTranscriptPerRecording,
         Speech!OneTranscriptPerRecording
<1>2. (SpeechInv /\ SpeechAlone) /\ [Next]_vars => (SpeechInv /\ SpeechAlone)'
  BY SpeechInvStep, SpeechAloneStep
<1>3. SpeechInv /\ SpeechAlone => OneTranscriptPerRecording
  BY DEF SpeechAlone
<1> QED
  BY <1>1, <1>2, <1>3, PTL DEF Spec

\* The event of a run that goes on is not consumed.
IntelligenceAlone ==
  /\ ConsumedHasReport
  /\ \A w \in IntelligenceWorkers :
       reportClaim[w] # None => transcriptReady[reportClaim[w]] = "DELIVERED"

LEMMA IntelligenceAloneStep ==
  ASSUME NEW w, IntelligenceWorkers = {w}, IntelligenceInv, IntelligenceAlone, [Next]_vars
  PROVE  IntelligenceAlone'
<1> USE DEF IntelligenceAlone, ConsumedHasReport, Intelligence!ConsumedHasReport,
            Intelligence!ReportsOf
<1>1. ASSUME NEW t \in Transcript, Intelligence!Deliver(t) PROVE IntelligenceAlone'
  BY <1>1 DEF Intelligence!Deliver, Intelligence!table, Intelligence!run, IntelligenceInv,
              IntelligenceTyped
<1>2. ASSUME NEW t \in Transcript, Intelligence!ConsumeEvent(w, t) PROVE IntelligenceAlone'
  BY <1>2 DEF Intelligence!ConsumeEvent, Intelligence!SeenCompleted, Intelligence!table,
              Intelligence!run, IntelligenceInv, IntelligenceTyped
<1>3. ASSUME NEW t \in Transcript, Intelligence!ClaimTranscript(w, t) PROVE IntelligenceAlone'
  BY <1>3 DEF Intelligence!ClaimTranscript, Intelligence!table, IntelligenceInv,
              IntelligenceTyped
<1>4. CASE Intelligence!CreateReport(w)
  <2> DEFINE n == Intelligence!NewRow
  <2>1. n \in Report /\ reportState[n] = "absent"
    BY <1>4, IntelligenceNewRow DEF Intelligence!CreateReport
  <2>2. /\ transcriptOf' = [transcriptOf EXCEPT ![n] = reportClaim[w]]
        /\ reportState' = [reportState EXCEPT ![n] = "Pending"]
        /\ UNCHANGED <<transcriptReady, reportClaim>>
    BY <1>4 DEF Intelligence!CreateReport
  <2> HIDE DEF n
  <2>3. \A p \in Report : reportState[p] = "Completed" =>
          reportState'[p] = "Completed" /\ transcriptOf'[p] = transcriptOf[p]
    BY <2>1, <2>2 DEF IntelligenceInv, IntelligenceTyped
  <2> QED
    BY <2>2, <2>3
<1>5. CASE Intelligence!MarkProcessing(w) \/ Intelligence!SaveResults(w)
  <2>1. /\ UNCHANGED <<transcriptReady, transcriptOf, reportClaim>>
        /\ reportDraft[w] # None
        /\ \/ /\ reportState[reportDraft[w]] = "Pending"
              /\ reportState' = [reportState EXCEPT ![reportDraft[w]] = "Processing"]
           \/ reportState' = [reportState EXCEPT ![reportDraft[w]] = "Completed"]
    BY <1>5 DEF Intelligence!MarkProcessing, Intelligence!SaveResults, Intelligence!run
  <2>2. \A p \in Report : reportState[p] = "Completed" => reportState'[p] = "Completed"
    BY <2>1 DEF IntelligenceInv, IntelligenceTyped
  <2> QED
    BY <2>1, <2>2
<1>6. CASE Intelligence!Finish(w) \/ Intelligence!Crash(w)
  <2>1. Intelligence!Release(w) /\ UNCHANGED <<transcriptReady, transcriptOf, reportState>>
    BY <1>6 DEF Intelligence!Finish, Intelligence!Crash, Intelligence!table
  <2> QED
    BY <2>1, IntelligenceReleased DEF IntelligenceInv
<1>7. CASE Intelligence!Fail(w)
  <2> DEFINE d == reportDraft[w]
  <2>1. /\ d # None
        /\ reportState' = [reportState EXCEPT ![d] = "Failed"]
        /\ Intelligence!Release(w)
        /\ UNCHANGED <<transcriptReady, transcriptOf>>
    BY <1>7 DEF Intelligence!Fail
  <2>2. transcriptOf[d] = reportClaim[w] /\ reportClaim[w] # None
    BY <2>1 DEF IntelligenceInv, IntelligenceTraced, Intelligence!DraftOwned
  <2>3. transcriptReady[transcriptOf[d]] = "DELIVERED"
    BY <2>2
  <2> HIDE DEF d
  <2>4. \A p \in Report : p # d => reportState'[p] = reportState[p]
    BY <2>1 DEF IntelligenceInv, IntelligenceTyped
  <2>5. ConsumedHasReport'
    BY <2>1, <2>3, <2>4
  <2> QED
    BY <2>1, <2>5, IntelligenceReleased DEF IntelligenceInv
<1>8. CASE UNCHANGED intelligence
  BY <1>8 DEF intelligence
<1> QED
  BY <1>1, <1>2, <1>3, <1>4, <1>5, <1>6, <1>7, <1>8, IntelligenceOrNot
     DEF IntelligenceDone, Intelligence!Work

\* With one intelligence worker, a transcript whose event was consumed has a
\* report that readers find Completed, whatever failed on the way.
THEOREM ConsumedIsReported ==
  ASSUME NEW CONSTANT w, IntelligenceWorkers = {w}
  PROVE  Spec => []ConsumedHasReport
<1> DEFINE Inv == SpeechInv /\ IntelligenceInv /\ IntelligenceAlone
<1>1. Init => Inv
  BY SpeechInit, IntelligenceInit
     DEF Init, Intelligence!Init, IntelligenceAlone, ConsumedHasReport,
         Intelligence!ConsumedHasReport
<1>2. Inv /\ [Next]_vars => Inv'
  BY SpeechInvStep, IntelligenceInvStep, IntelligenceAloneStep DEF SpeechInv
<1>3. Inv => ConsumedHasReport
  BY DEF IntelligenceAlone
<1> HIDE DEF Inv
<1> QED
  BY <1>1, <1>2, <1>3, PTL DEF Spec

\* Between its two transactions, a run finds the meeting without chunks.
IndexingAlone ==
  /\ OneRunStored
  /\ \A w \in IndexingWorkers :
       progress[w] = "deleted" => stored[meetingOfReport[indexClaim[w]]] = {}

LEMMA IndexingAloneStep ==
  ASSUME NEW w, IndexingWorkers = {w}, SpeechInv, IntelligenceInv, IndexingInv,
         IndexingAlone, [Next]_vars
  PROVE  IndexingAlone'
<1> USE DEF IndexingAlone, OneRunStored, Indexing!OneRunStored
<1>0. progress[w] # "nothing" =>
        /\ indexClaim[w] \in Report
        /\ indexDraft[w] \in IndexReport
        /\ intelligenceReady[indexClaim[w]] # "absent"
  BY DEF IndexingInv, IndexingTyped, IndexingTraced
<1>1. ASSUME NEW p \in ready, Indexing!Deliver(p, MeetingOfRow(p)) PROVE IndexingAlone'
  <2>1. /\ intelligenceReady[p] = "absent"
        /\ meetingOfReport' = [meetingOfReport EXCEPT ![p] = MeetingOfRow(p)]
        /\ UNCHANGED <<stored, indexClaim, progress>>
    BY <1>1 DEF Indexing!Deliver, Indexing!run
  <2>2. progress[w] # "nothing" =>
          meetingOfReport'[indexClaim[w]] = meetingOfReport[indexClaim[w]]
    BY <1>0, <2>1 DEF IndexingInv, IndexingTyped
  <2> QED
    BY <2>1, <2>2
<1>2. ASSUME UNCHANGED <<stored, meetingOfReport>>, UNCHANGED <<indexClaim, progress>>
      PROVE  IndexingAlone'
  BY <1>2
<1>3. ASSUME NEW p \in Report, Indexing!ClaimReport(w, p) PROVE IndexingAlone'
  <2>1. /\ indexClaim[w] = None
        /\ UNCHANGED <<stored, progress>>
    BY <1>3 DEF Indexing!ClaimReport
  <2>2. progress[w] = "nothing"
    BY <1>0, <2>1, IndexingNone DEF IndexingInv, IndexingTyped
  <2> QED
    BY <2>1, <2>2
<1>4. CASE Indexing!DeleteOldChunks(w)
  <2> DEFINE m == meetingOfReport[indexClaim[w]]
  <2>1. /\ stored' = [stored EXCEPT ![m] = {}]
        /\ UNCHANGED <<meetingOfReport, indexClaim>>
    BY <1>4 DEF Indexing!DeleteOldChunks, Indexing!Remaining
  <2>2. m \in Meeting
    <3>1. indexDraft[w] # None
      BY <1>4 DEF Indexing!DeleteOldChunks
    <3>2. indexClaim[w] \in ready /\ m = MeetingOfRow(indexClaim[w])
      BY <3>1 DEF IndexingInv, IndexingTyped, IndexingTraced, MeetingOfRow
    <3> QED
      BY <3>2, AnnouncedHasMeeting
  <2> QED
    BY <2>1, <2>2 DEF IndexingInv, IndexingTyped
<1>5. CASE Indexing!InsertNewChunks(w)
  <2> DEFINE m == meetingOfReport[indexClaim[w]]
  <2>1. /\ progress[w] = "deleted"
        /\ stored' = [stored EXCEPT ![m] = @ \union {indexDraft[w]}]
        /\ progress' = [progress EXCEPT ![w] = "inserted"]
    BY <1>5 DEF Indexing!InsertNewChunks
  <2>2. stored[m] = {}
    BY <2>1
  <2> HIDE DEF m
  <2> QED
    BY <2>1, <2>2 DEF IndexingInv, IndexingTyped
<1>6. CASE Indexing!MarkIndexed(w) \/ Indexing!Fail(w) \/ Indexing!Crash(w)
  <2>1. Indexing!Release(w) /\ UNCHANGED stored
    BY <1>6 DEF Indexing!MarkIndexed, Indexing!Fail, Indexing!Crash
  <2> QED
    BY <2>1, IndexingReleased DEF IndexingInv
<1>7. CASE \/ \E p \in Report : Indexing!ConsumeEvent(w, p)
           \/ Indexing!CreateIndexReport(w) \/ Indexing!Advance(w)
  BY <1>2, <1>7
     DEF Indexing!ConsumeEvent, Indexing!CreateIndexReport, Indexing!Advance, Indexing!run
<1>8. CASE Indexing!LoadArtifacts(w)
  BY <1>8 DEF Indexing!LoadArtifacts, IndexingInv, IndexingTyped
<1>9. CASE IntegrationStep \/ UNCHANGED <<indexing, shared>>
  BY <1>2, <1>9, IntegrationConsumes DEF IntegrationStep, indexing, shared
<1> QED
  BY <1>1, <1>3, <1>4, <1>5, <1>6, <1>7, <1>8, <1>9, IndexingOrNot
     DEF IndexingDone, Indexing!Work

\* With one indexing worker, a meeting's chunks are those of one run, wherever
\* earlier runs failed or died between their two transactions.
THEOREM OneRunIsStored ==
  ASSUME NEW CONSTANT w, IndexingWorkers = {w}
  PROVE  Spec => []OneRunStored
<1> DEFINE Inv == SpeechInv /\ IntelligenceInv /\ IndexingInv /\ IndexingAlone
<1>1. Init => Inv
  BY SpeechInit, IntelligenceInit, IndexingInit
     DEF Init, Indexing!Init, Indexing!InitRun, IndexingAlone, OneRunStored,
         Indexing!OneRunStored
<1>2. Inv /\ [Next]_vars => Inv'
  BY SpeechInvStep, IntelligenceInvStep, IndexingInvStep, IndexingAloneStep DEF SpeechInv
<1>3. Inv => OneRunStored
  BY DEF IndexingAlone
<1> HIDE DEF Inv
<1> QED
  BY <1>1, <1>2, <1>3, PTL DEF Spec

-----------------------------------------------------------------------------
(* Types of everything, any number of workers.                             *)

ProvedIntegration == INSTANCE IntegrationWorkerProofs WITH
  Worker <- IntegrationWorkers, inbox <- intelligenceReady, subject <- meetingOfReport,
  MaxRetries <- MaxAttempts

\* The counters keep to their bounds.
CountersOK ==
  /\ failures \in 0..MaxFailures
  /\ crashes \in 0..MaxCrashes
  /\ redeliveries \in 0..MaxRedeliveries

IntegrationInv == Integration!TypeOK /\ ProvedIntegration!HasTask

AllTyped ==
  /\ SpeechInv /\ IntelligenceInv /\ IndexingInv
  /\ CountersOK
  /\ IntegrationInv

LEMMA Bounds ==
  MaxFailures \in Nat /\ MaxCrashes \in Nat /\ MaxRedeliveries \in Nat
BY PipelineAssumption DEF Speech!ConstantsOK

LEMMA CountersStep == CountersOK /\ [Next]_vars => CountersOK'
<1> SUFFICES ASSUME CountersOK, [Next]_vars PROVE CountersOK'
  OBVIOUS
<1>1. /\ UNCHANGED failures \/ (failures < MaxFailures /\ failures' = failures + 1)
      /\ UNCHANGED crashes \/ (crashes < MaxCrashes /\ crashes' = crashes + 1)
      /\ \/ UNCHANGED redeliveries
         \/ redeliveries < MaxRedeliveries /\ redeliveries' = redeliveries + 1
  <2>1. CASE \E r \in Recording : DeliverRecordingVerified(r) \/ RedeliverRecordingVerified(r)
    BY <2>1 DEF DeliverRecordingVerified, RedeliverRecordingVerified, Speech!Deliver,
                Speech!Redeliver, Speech!bounds
  <2>2. CASE \/ \E t \in Transcript : DeliverTranscriptReady(t)
             \/ \E p \in Report : DeliverIntelligenceReady(p)
    BY <2>2 DEF DeliverTranscriptReady, DeliverIntelligenceReady, Intelligence!Deliver,
                Intelligence!bounds, Indexing!Deliver, Indexing!bounds, speech
  <2>3. CASE \E w \in SpeechWorkers : SpeechStep(w)
    BY <2>3 DEF SpeechStep, Speech!Work, Speech!ConsumeEvent, Speech!ClaimRecording,
                Speech!CreateDraft, Speech!Advance, Speech!Complete, Speech!Finish,
                Speech!Fail, Speech!Crash, Speech!bounds
  <2>4. CASE \E w \in IntelligenceWorkers : IntelligenceStep(w)
    BY <2>4 DEF IntelligenceStep, Intelligence!Work, Intelligence!ConsumeEvent,
                Intelligence!ClaimTranscript, Intelligence!CreateReport,
                Intelligence!MarkProcessing, Intelligence!SaveResults, Intelligence!Finish,
                Intelligence!Fail, Intelligence!Crash, Intelligence!bounds, speech
  <2>5. CASE \E w \in IndexingWorkers : IndexingStep(w)
    BY <2>5 DEF IndexingStep, Indexing!Work, Indexing!ConsumeEvent, Indexing!ClaimReport,
                Indexing!CreateIndexReport, Indexing!LoadArtifacts, Indexing!Advance,
                Indexing!DeleteOldChunks, Indexing!InsertNewChunks, Indexing!MarkIndexed,
                Indexing!Fail, Indexing!Crash, Indexing!bounds, speech
  <2>6. CASE IntegrationStep
    BY <2>6 DEF IntegrationStep, speech, Integration!WorkerStep, Integration!Work,
                Integration!SwitchConfig, Integration!Enqueue, Integration!EnqueueRaises,
                Integration!WakeUp, Integration!NoEvent, Integration!SelectJob,
                Integration!NoJob, Integration!ClaimJob, Integration!CancelJob,
                Integration!StartSend, Integration!SendEnds, Integration!RecordDelivered,
                Integration!RecordRaises, Integration!RecordFailed, Integration!Crash
  <2>7. CASE UNCHANGED vars
    BY <2>7 DEF vars, speech
  <2> QED
    BY <2>1, <2>2, <2>3, <2>4, <2>5, <2>6, <2>7 DEF Next
<1> QED
  BY <1>1, Bounds DEF CountersOK

LEMMA IntegrationInit == Init => IntegrationInv
BY PipelineAssumption
   DEF Init, Speech!Init, Indexing!Init, Integration!InitRun, IntegrationInv, Integration!TypeOK,
       Integration!ConstantsOK, Integration!JobStatus, Integration!Job, Integration!Outcome,
       ProvedIntegration!HasTask, ProvedIntegration!Job

\* What the theorems about the integration workers speak of, and their constants.
LEMMA IntegrationIsProved ==
  /\ Integration!WorkerStep /\ UNCHANGED redeliveries => ProvedIntegration!Next
  /\ Integration!TypeOK <=> ProvedIntegration!TypeOK
  /\ ProvedIntegration!ConstantsOK
<1>1. Integration!WorkerStep /\ UNCHANGED redeliveries => ProvedIntegration!Next
  <2> USE DEF Integration!event, ProvedIntegration!event, Integration!config,
              ProvedIntegration!config, Integration!far, ProvedIntegration!far,
              Integration!run, ProvedIntegration!run
  <2>0. \A c \in Config : Integration!SwitchConfig(c) <=> ProvedIntegration!SwitchConfig(c)
    BY DEF Integration!SwitchConfig, ProvedIntegration!SwitchConfig
  <2>1. \A w \in IntegrationWorkers, p \in Report :
          /\ Integration!Enqueue(w, p) <=> ProvedIntegration!Enqueue(w, p)
          /\ Integration!EnqueueRaises(w, p) <=> ProvedIntegration!EnqueueRaises(w, p)
    BY DEF Integration!Enqueue, ProvedIntegration!Enqueue, Integration!EnqueueRaises,
           ProvedIntegration!EnqueueRaises, Integration!Missing,
           ProvedIntegration!Missing, Integration!Clash, ProvedIntegration!Clash,
           Integration!Routable, ProvedIntegration!Routable, Integration!SameKey,
           ProvedIntegration!SameKey, Integration!Job, ProvedIntegration!Job
  <2>2. \A w \in IntegrationWorkers :
          /\ Integration!WakeUp(w) <=> ProvedIntegration!WakeUp(w)
          /\ Integration!NoEvent(w) <=> ProvedIntegration!NoEvent(w)
          /\ Integration!SelectJob(w) <=> ProvedIntegration!SelectJob(w)
          /\ Integration!NoJob(w) <=> ProvedIntegration!NoJob(w)
          /\ Integration!StartSend(w) <=> ProvedIntegration!StartSend(w)
    BY DEF Integration!WakeUp, ProvedIntegration!WakeUp, Integration!NoEvent,
           ProvedIntegration!NoEvent, Integration!SelectJob,
           ProvedIntegration!SelectJob, Integration!NoJob, ProvedIntegration!NoJob,
           Integration!StartSend, ProvedIntegration!StartSend, Integration!Open,
           ProvedIntegration!Open, Integration!Job, ProvedIntegration!Job
  <2>3. \A w \in IntegrationWorkers :
          /\ Integration!ClaimJob(w) <=> ProvedIntegration!ClaimJob(w)
          /\ Integration!CancelJob(w) <=> ProvedIntegration!CancelJob(w)
          /\ Integration!Crash(w) <=> ProvedIntegration!Crash(w)
    BY DEF Integration!ClaimJob, ProvedIntegration!ClaimJob, Integration!CancelJob,
           ProvedIntegration!CancelJob, Integration!Crash, ProvedIntegration!Crash,
           Integration!SetJob, ProvedIntegration!SetJob, Integration!Release,
           ProvedIntegration!Release
  <2>4. \A w \in IntegrationWorkers, o \in Integration!Outcome :
          Integration!SendEnds(w, o) <=> ProvedIntegration!SendEnds(w, o)
    BY DEF Integration!SendEnds, ProvedIntegration!SendEnds, Integration!Received,
           ProvedIntegration!Received
  <2>5. \A w \in IntegrationWorkers :
          /\ Integration!RecordDelivered(w) <=> ProvedIntegration!RecordDelivered(w)
          /\ Integration!RecordFailed(w) <=> ProvedIntegration!RecordFailed(w)
          /\ Integration!RecordRaises(w) <=> ProvedIntegration!RecordRaises(w)
    BY DEF Integration!RecordDelivered, ProvedIntegration!RecordDelivered,
           Integration!RecordFailed, ProvedIntegration!RecordFailed,
           Integration!RecordRaises, ProvedIntegration!RecordRaises,
           Integration!FailedStatus, ProvedIntegration!FailedStatus,
           Integration!SetJob, ProvedIntegration!SetJob, Integration!Release,
           ProvedIntegration!Release
  <2> QED
    BY <2>0, <2>1, <2>2, <2>3, <2>4, <2>5
       DEF Integration!Work, ProvedIntegration!Work, Integration!Outcome,
           ProvedIntegration!Outcome, ProvedIntegration!Next, Integration!WorkerStep,
           ProvedIntegration!WorkerStep
<1>2. Integration!TypeOK <=> ProvedIntegration!TypeOK
  BY DEF Integration!TypeOK, ProvedIntegration!TypeOK, Integration!JobStatus,
         ProvedIntegration!JobStatus, Integration!Job, ProvedIntegration!Job,
         Integration!Outcome, ProvedIntegration!Outcome
<1>3. ProvedIntegration!ConstantsOK
  BY PipelineAssumption DEF Integration!ConstantsOK, ProvedIntegration!ConstantsOK
<1> QED
  BY <1>1, <1>2, <1>3

LEMMA IntegrationInvStep ==
  ASSUME AllTyped, IndexingInv', CountersOK', [Next]_vars PROVE IntegrationInv'
<1>1. CASE IntegrationStep
  <2>1. /\ ProvedIntegration!TypeOK /\ ProvedIntegration!HasTask
        /\ [ProvedIntegration!Next]_(ProvedIntegration!vars)
    BY <1>1, IntegrationIsProved DEF AllTyped, IntegrationInv, IntegrationStep, speech
  <2>2. (ProvedIntegration!TypeOK /\ ProvedIntegration!HasTask)'
    BY <2>1, IntegrationIsProved, ProvedIntegration!NextTyped
  <2>3. Integration!TypeOK' <=> ProvedIntegration!TypeOK'
    BY DEF Integration!TypeOK, ProvedIntegration!TypeOK, Integration!JobStatus,
           ProvedIntegration!JobStatus, Integration!Job, ProvedIntegration!Job,
           Integration!Outcome, ProvedIntegration!Outcome
  <2> QED
    BY <2>2, <2>3 DEF IntegrationInv
<1>2. CASE UNCHANGED integration
  <2>1. Integration!TypeOK'
    BY <1>2 DEF AllTyped, IntegrationInv, Integration!TypeOK, IndexingInv, IndexingTyped,
                CountersOK, Status, integration
  <2>2. ProvedIntegration!HasTask'
    BY <1>2 DEF AllTyped, IntegrationInv, ProvedIntegration!HasTask, integration
  <2> QED
    BY <2>1, <2>2 DEF IntegrationInv
<1> QED
  BY <1>1, <1>2
     DEF Next, DeliverRecordingVerified, RedeliverRecordingVerified, DeliverTranscriptReady,
         DeliverIntelligenceReady, SpeechStep, IntelligenceStep, IndexingStep, vars

\* Every reachable state is well typed: no worker writes a row it does not have,
\* and the rows that two workers share stay in their range.
THEOREM TypeCorrect == Spec => []TypeOK
<1>1. Init => AllTyped
  BY SpeechInit, IntelligenceInit, IndexingInit, IntegrationInit, Bounds
     DEF AllTyped, CountersOK, Init, Speech!Init
<1>2. AllTyped /\ [Next]_vars => AllTyped'
  BY SpeechInvStep, IntelligenceInvStep, IndexingInvStep, CountersStep, IntegrationInvStep
     DEF AllTyped, SpeechInv
<1>3. AllTyped => TypeOK
  <2>1. SpeechTyped => /\ MeetingOfTranscript \in [Transcript -> Meeting \union {None}]
                       /\ Uttered \subseteq Transcript
    BY PipelineAssumption DEF SpeechTyped, MeetingOfTranscript, Uttered
  <2> QED
    BY <2>1
       DEF AllTyped, TypeOK, IntegrationInv, CountersOK, SpeechInv, SpeechTyped, Speech!TypeOK,
           IntelligenceInv, IntelligenceTyped, Intelligence!TypeOK, IndexingInv,
           IndexingTyped, Indexing!TypeOK, Status
<1> QED
  BY <1>1, <1>2, <1>3, PTL DEF Spec

-----------------------------------------------------------------------------
(* What is computed with the chunks (KnowledgeSearch).                     *)

\* The windows begin with every twelfth utterance.
LEMMA WindowsBegin ==
  ASSUME NEW n \in Nat, NEW w \in Windows(n)
  PROVE  \E k \in Nat : 12 * k < n /\ w = Slice(12 * k, n)
<1>1. PICK f \in {Step * k : k \in 0..n} \intersect 0..(n - 1) : w = Slice(f, n)
  BY DEF Windows
<1>2. PICK k \in 0..n : f = 12 * k
  BY <1>1 DEF Step, ChunkSize, Overlap
<1>3. k \in Nat /\ 12 * k < n
  BY <1>1, <1>2
<1> QED
  BY <1>1, <1>2, <1>3

\* Among them is one for every utterance that is a multiple of twelve.
LEMMA WindowsAreRegular ==
  ASSUME NEW n \in Nat, NEW k \in Nat, 12 * k < n
  PROVE  Slice(12 * k, n) \in Windows(n)
<1>1. k \in 0..n /\ 12 * k \in 0..(n - 1)
  OBVIOUS
<1>2. Step * k = 12 * k
  BY DEF Step, ChunkSize, Overlap
<1> QED
  BY <1>1, <1>2 DEF Windows

\* Every utterance follows a multiple of twelve.
LEMMA Twelfths ==
  ASSUME NEW i \in Nat
  PROVE  \E k \in Nat : 12 * k <= i /\ i < 12 * k + 12
<1>1. i \div 12 \in Nat /\ 12 * (i \div 12) <= i /\ i < 12 * (i \div 12) + 12
  OBVIOUS
<1> QED
  BY <1>1

\* A set of one or two elements.
LEMMA Pair ==
  ASSUME NEW a, NEW b
  PROVE  IsFiniteSet({a, b}) /\ Cardinality({a, b}) \in Nat /\ Cardinality({a, b}) <= 2
<1>1. IsFiniteSet({a}) /\ Cardinality({a}) = 1
  BY FS_Singleton
<1>2. {a, b} = {a} \union {b}
  OBVIOUS
<1>3. /\ IsFiniteSet({a} \union {b})
      /\ \/ Cardinality({a} \union {b}) = Cardinality({a})
         \/ Cardinality({a} \union {b}) = Cardinality({a}) + 1
  BY <1>1, FS_AddElement
<1> QED
  BY <1>1, <1>2, <1>3

\* Transcripts of any length are cut so that close utterances are together, and
\* none is stored more than twice.
LEMMA WindowsCover ==
  ASSUME NEW n \in Nat, NEW i \in 0..(n - 1)
  PROVE  /\ \E w \in Windows(n) : {j \in i..(i + Overlap) : j < n} \subseteq w
         /\ Cardinality({w \in Windows(n) : i \in w}) <= 2
<1>1. PICK k \in Nat : 12 * k <= i /\ i < 12 * k + 12
  BY Twelfths
<1>2. \E w \in Windows(n) : {j \in i..(i + Overlap) : j < n} \subseteq w
  <2>1. Slice(12 * k, n) \in Windows(n)
    BY <1>1, WindowsAreRegular
  <2>2. {j \in i..(i + Overlap) : j < n} \subseteq Slice(12 * k, n)
    BY <1>1 DEF Slice, Overlap, ChunkSize
  <2> QED
    BY <2>1, <2>2
<1>3. Cardinality({w \in Windows(n) : i \in w}) <= 2
  <2> DEFINE W == {w \in Windows(n) : i \in w}
             Two == {Slice(12 * k, n), Slice(12 * (k - 1), n)}
  <2>1. ASSUME NEW w \in W PROVE w \in Two
    <3>1. PICK m \in Nat : 12 * m < n /\ w = Slice(12 * m, n)
      BY WindowsBegin
    <3>2. 12 * m <= i /\ i < 12 * m + 15
      BY <3>1 DEF Slice, ChunkSize
    <3>3. m = k \/ m = k - 1
      BY <1>1, <3>2
    <3> QED
      BY <3>1, <3>3
  <2>2. W \subseteq Two
    BY <2>1
  <2>3. IsFiniteSet(Two) /\ Cardinality(Two) \in Nat /\ Cardinality(Two) <= 2
    BY Pair
  <2> HIDE DEF W, Two
  <2>4. IsFiniteSet(W) /\ Cardinality(W) <= Cardinality(Two)
    BY <2>2, <2>3, FS_Subset
  <2>5. Cardinality(W) \in Nat
    BY <2>4, FS_CardinalityType
  <2> QED
    BY <2>3, <2>4, <2>5 DEF W
<1> QED
  BY <1>2, <1>3

\* However long its transcript, no passage of a meeting that can be searched is torn
\* apart.
THEOREM PassagesStayWhole == Spec => []PassagesAreWhole
<1>1. \A n \in 0..MaxUtterances : n \in Nat
  OBVIOUS
<1>2. PassagesAreWhole
  BY <1>1, WindowsCover DEF PassagesAreWhole, WindowsOverlap
<1> QED
  BY <1>2, PTL

-----------------------------------------------------------------------------
(* Rankings.                                                               *)

\* A relation that puts any two rows in an order.
Orders(ahead, rows) ==
  /\ \A i \in rows : <<i, i>> \notin ahead
  /\ \A i, j \in rows : i # j => <<i, j>> \in ahead \/ <<j, i>> \in ahead
  /\ \A i, j, k \in rows : <<i, j>> \in ahead /\ <<j, k>> \in ahead => <<i, k>> \in ahead

\* What is ahead of a row has an earlier place, and places are not larger than the
\* number of rows.
LEMMA NumberedInOrder ==
  ASSUME NEW rows, IsFiniteSet(rows), NEW ahead, Orders(ahead, rows)
  PROVE  /\ Numbered(rows, ahead) \in [rows -> 1..Cardinality(rows)]
         /\ \A i, j \in rows :
              <<i, j>> \in ahead <=> Numbered(rows, ahead)[i] < Numbered(rows, ahead)[j]
<1> DEFINE Before(i) == {j \in rows : <<j, i>> \in ahead}
<1>1. Cardinality(rows) \in Nat
  BY FS_CardinalityType
<1>2. ASSUME NEW i \in rows
      PROVE  /\ IsFiniteSet(Before(i)) /\ Cardinality(Before(i)) \in Nat
             /\ Cardinality(Before(i)) < Cardinality(rows)
  <2>1. Before(i) \in SUBSET rows /\ Before(i) # rows
    BY DEF Orders
  <2> HIDE DEF Before
  <2>2. IsFiniteSet(Before(i)) /\ Cardinality(Before(i)) <= Cardinality(rows)
        /\ Cardinality(Before(i)) # Cardinality(rows)
    BY <2>1, FS_Subset
  <2> QED
    BY <1>1, <2>2, FS_CardinalityType
<1>3. ASSUME NEW i \in rows, NEW j \in rows, <<i, j>> \in ahead
      PROVE  Cardinality(Before(i)) < Cardinality(Before(j))
  <2>1. Before(i) \in SUBSET Before(j) /\ Before(i) # Before(j)
    BY <1>3 DEF Orders
  <2> HIDE DEF Before
  <2>2. Cardinality(Before(i)) <= Cardinality(Before(j))
        /\ Cardinality(Before(i)) # Cardinality(Before(j))
    BY <1>2, <2>1, FS_Subset
  <2> QED
    BY <1>2, <2>2
<1>4. \A i \in rows : Numbered(rows, ahead)[i] = 1 + Cardinality(Before(i))
  BY DEF Numbered
<1>5. Numbered(rows, ahead) = [i \in rows |-> Numbered(rows, ahead)[i]]
  BY DEF Numbered
<1> HIDE DEF Before
<1>6. \A i \in rows : Numbered(rows, ahead)[i] \in 1..Cardinality(rows)
  BY <1>1, <1>2, <1>4
<1>7. ASSUME NEW i \in rows, NEW j \in rows
      PROVE  <<i, j>> \in ahead <=> Numbered(rows, ahead)[i] < Numbered(rows, ahead)[j]
  <2>1. CASE i = j
    BY <1>2, <1>4, <2>1 DEF Orders
  <2>2. CASE i # j /\ <<i, j>> \in ahead
    BY <1>2, <1>3, <1>4, <2>2
  <2>3. CASE i # j /\ <<j, i>> \in ahead
    <3>1. <<i, j>> \notin ahead
      BY <2>3 DEF Orders
    <3>2. Cardinality(Before(j)) < Cardinality(Before(i))
      BY <1>3, <2>3
    <3> QED
      BY <1>2, <1>4, <3>1, <3>2
  <2> QED
    BY <2>1, <2>2, <2>3 DEF Orders
<1> QED
  BY <1>5, <1>6, <1>7

\* No two rows have the same place, so every place up to their number is taken.
LEMMA NumberedIsBijection ==
  ASSUME NEW rows, IsFiniteSet(rows), NEW ahead, Orders(ahead, rows)
  PROVE  Numbered(rows, ahead) \in Bijection(rows, 1..Cardinality(rows))
<1> DEFINE r == Numbered(rows, ahead)
           N == Cardinality(rows)
<1>1. N \in Nat
  BY FS_CardinalityType
<1>2. /\ r \in [rows -> 1..N]
      /\ \A i, j \in rows : <<i, j>> \in ahead <=> r[i] < r[j]
  BY NumberedInOrder
<1>3. IsFiniteSet(1..N) /\ Cardinality(1..N) = N
  BY <1>1, FS_Interval
<1> HIDE DEF r
<1>4. ASSUME NEW i \in rows, NEW j \in rows, r[i] = r[j] PROVE i = j
  <2>1. ~(r[i] < r[j]) /\ ~(r[j] < r[i])
    BY <1>2, <1>4
  <2> QED
    BY <1>2, <2>1 DEF Orders
<1>5. r \in Injection(rows, 1..N)
  BY <1>2, <1>4 DEF Injection, IsInjective
<1> HIDE DEF N
<1>6. r \in Surjection(rows, 1..N)
  BY <1>3, <1>5, FS_Injection DEF N
<1> QED
  BY <1>5, <1>6 DEF Bijection, r, N

\* The terms of a comparison may be multiplied, and a common factor left out.
LEMMA Multiplied ==
  ASSUME NEW a \in Nat, NEW b \in Nat, NEW c \in Nat \ {0}
  PROVE  a > b <=> a * c > b * c
  BY Z3

Fraction == [num : Nat, den : Nat \ {0}]

\* A fraction that is not below another is not below one the other is not below.
LEMMA MoreIsTransitive ==
  ASSUME NEW a \in Fraction, NEW b \in Fraction, NEW c \in Fraction,
         ~More(b, a), ~More(c, b)
  PROVE  ~More(c, a)
<1>1. /\ a.num \in Nat /\ b.num \in Nat /\ c.num \in Nat
      /\ a.den \in Nat \ {0} /\ b.den \in Nat \ {0} /\ c.den \in Nat \ {0}
  BY DEF Fraction
<1>2. \A x, y, z \in Nat : x * y * z = x * z * y /\ x * y \in Nat
  OBVIOUS
<1>3. ~(b.num * a.den * c.den > a.num * b.den * c.den)
  <2>1. b.num * a.den \in Nat /\ a.num * b.den \in Nat
    BY <1>1
  <2> QED
    BY <1>1, <2>1, Multiplied DEF More
<1>4. ~(c.num * b.den * a.den > b.num * c.den * a.den)
  <2>1. c.num * b.den \in Nat /\ b.num * c.den \in Nat
    BY <1>1
  <2> QED
    BY <1>1, <2>1, Multiplied DEF More
<1>5. ~(c.num * a.den * b.den > a.num * c.den * b.den)
  <2>1. /\ b.num * a.den * c.den = b.num * c.den * a.den
        /\ a.num * b.den * c.den = a.num * c.den * b.den
        /\ c.num * b.den * a.den = c.num * a.den * b.den
    BY <1>1, <1>2
  <2>2. /\ b.num * c.den * a.den \in Nat /\ a.num * c.den * b.den \in Nat
        /\ c.num * a.den * b.den \in Nat
    BY <1>1
  <2> QED
    BY <1>3, <1>4, <2>1, <2>2
<1>6. c.num * a.den \in Nat /\ a.num * c.den \in Nat
  BY <1>1
<1> QED
  BY <1>1, <1>5, <1>6, Multiplied DEF More

\* A stable sort puts any two rows in an order.
LEMMA AheadOrders ==
  ASSUME NEW rows, NEW score \in [rows -> Fraction], NEW before,
         \A i \in rows : before[i] \in Nat,
         \A i, j \in rows : before[i] = before[j] => i = j
  PROVE  Orders(Ahead(score, before), rows)
<1>1. \A a \in Fraction : ~More(a, a)
  BY DEF More, Fraction
<1>2. \A a, b \in Fraction : More(a, b) => ~More(b, a)
  BY DEF More, Fraction
<1>3. \A i \in rows : score[i] \in Fraction
  OBVIOUS
<1>4. \A i, j \in rows :
        <<i, j>> \in Ahead(score, before)
          <=> \/ More(score[i], score[j])
              \/ ~More(score[j], score[i]) /\ before[i] < before[j]
  BY DEF Ahead
<1>5. \A i \in rows : <<i, i>> \notin Ahead(score, before)
  BY <1>1, <1>3, <1>4
<1>6. ASSUME NEW i \in rows, NEW j \in rows, i # j
      PROVE  <<i, j>> \in Ahead(score, before) \/ <<j, i>> \in Ahead(score, before)
  <2>1. before[i] < before[j] \/ before[j] < before[i]
    BY <1>6
  <2> QED
    BY <1>4, <2>1
<1>7. ASSUME NEW i \in rows, NEW j \in rows, NEW k \in rows,
             <<i, j>> \in Ahead(score, before), <<j, k>> \in Ahead(score, before)
      PROVE  <<i, k>> \in Ahead(score, before)
  <2>1. ~More(score[j], score[i]) /\ ~More(score[k], score[j])
    BY <1>2, <1>3, <1>4, <1>7
  <2>2. ~More(score[k], score[i])
    BY <1>3, <2>1, MoreIsTransitive
  <2>3. CASE before[i] < before[k]
    BY <1>4, <2>2, <2>3
  <2>4. CASE ~(before[i] < before[k])
    <3>1. ~(before[i] < before[j]) \/ ~(before[j] < before[k])
      BY <2>4
    <3>2. More(score[i], score[j]) \/ More(score[j], score[k])
      BY <1>4, <1>7, <3>1
    <3>3. ASSUME ~More(score[i], score[k]) PROVE FALSE
      <4>1. CASE More(score[i], score[j])
        <5>1. ~More(score[i], score[j])
          BY <1>3, <2>1, <3>3, MoreIsTransitive
        <5> QED
          BY <4>1, <5>1
      <4>2. CASE More(score[j], score[k])
        <5>1. ~More(score[j], score[k])
          BY <1>3, <2>1, <3>3, MoreIsTransitive
        <5> QED
          BY <4>2, <5>1
      <4> QED
        BY <3>2, <4>1, <4>2
    <3> QED
      BY <1>4, <3>3
  <2> QED
    BY <2>3, <2>4
<1> QED
  BY <1>5, <1>6, <1>7 DEF Orders

\* Rows that are sorted have different places, from 1 to their number: those with a
\* higher score, or an equal one and an earlier place before, come earlier.
LEMMA SortedInOrder ==
  ASSUME NEW rows, IsFiniteSet(rows), NEW score \in [rows -> Fraction], NEW before,
         \A i \in rows : before[i] \in Nat,
         \A i, j \in rows : before[i] = before[j] => i = j
  PROVE  /\ Sorted(score, before) \in Bijection(rows, 1..Cardinality(rows))
         /\ \A i, j \in rows :
              More(score[i], score[j]) => Sorted(score, before)[i] < Sorted(score, before)[j]
         /\ \A i, j \in rows :
              ~More(score[j], score[i]) /\ before[i] < before[j]
                => Sorted(score, before)[i] < Sorted(score, before)[j]
<1>1. Orders(Ahead(score, before), rows)
  BY AheadOrders
<1>2. Sorted(score, before) = Numbered(rows, Ahead(score, before))
  BY DEF Sorted
<1>3. \A i, j \in rows :
        \/ More(score[i], score[j])
        \/ ~More(score[j], score[i]) /\ before[i] < before[j]
        => <<i, j>> \in Ahead(score, before)
  BY DEF Ahead
<1>4. \A i, j \in rows : <<i, j>> \in Ahead(score, before)
        => Sorted(score, before)[i] < Sorted(score, before)[j]
  BY <1>1, <1>2, NumberedInOrder
<1>5. Sorted(score, before) \in Bijection(rows, 1..Cardinality(rows))
  BY <1>1, <1>2, NumberedIsBijection
<1> QED
  BY <1>3, <1>4, <1>5

\* Whole numbers are compared as they are.
LEMMA Whole ==
  ASSUME NEW a \in Nat, NEW b \in Nat
  PROVE  Score(a, 1) \in Fraction /\ (More(Score(a, 1), Score(b, 1)) <=> a > b)
  BY DEF Score, Fraction, More

-----------------------------------------------------------------------------
(* Tables and their two rankings.                                          *)

\* The rows of a table are numbered from 1.
LEMMA TableRows ==
  ASSUME NEW table \in Tables
  PROVE  \E n \in Nat : /\ table \in [1..n -> Chunk]
                        /\ IsFiniteSet(1..n) /\ Cardinality(1..n) = n
<1>1. PICK n \in 0..MaxRows : table \in [1..n -> Chunk]
  BY DEF Tables
<1>2. n \in Nat
  OBVIOUS
<1>3. IsFiniteSet(1..n) /\ Cardinality(1..n) = n
  BY <1>2, FS_Interval
<1> QED
  BY <1>1, <1>2, <1>3

\* What is known of a row are numbers, and whether its citation is valid.
LEMMA ChunkTyped ==
  ASSUME NEW c \in Chunk
  PROVE  c.contains \in Nat /\ c.whole \in Nat /\ c.near \in Nat /\ c.valid \in BOOLEAN
  BY DEF Chunk

\* The keyword ranking has the rows with a word of the query, those with more words
\* first.
LEMMA KeywordRanking ==
  ASSUME NEW n \in Nat, NEW table \in [1..n -> Chunk], NEW hits,
         hits = {k \in 1..n : table[k].contains > 0}
  PROVE  /\ KeywordHits(table) \in Bijection(hits, 1..Cardinality(hits))
         /\ \A i, j \in hits : table[i].contains > table[j].contains
              => KeywordHits(table)[i] < KeywordHits(table)[j]
<1> DEFINE score == [i \in hits |-> Score(table[i].contains, 1)]
           before == [i \in 1..n |-> i]
<1>1. IsFiniteSet(hits)
  <2>1. IsFiniteSet(1..n) /\ hits \in SUBSET (1..n)
    BY FS_Interval
  <2> QED
    BY <2>1, FS_Subset
<1>2. \A i \in hits : table[i].contains \in Nat
  BY ChunkTyped
<1>3. score \in [hits -> Fraction]
  BY <1>2, Whole
<1>4. /\ \A i \in hits : before[i] \in Nat
      /\ \A i, j \in hits : before[i] = before[j] => i = j
  OBVIOUS
<1>5. \A i, j \in hits : More(score[i], score[j]) <=> table[i].contains > table[j].contains
  BY <1>2, Whole
<1>6. KeywordHits(table) = Sorted(score, before)
  BY DEF KeywordHits
<1> HIDE DEF score, before
<1>7. /\ Sorted(score, before) \in Bijection(hits, 1..Cardinality(hits))
      /\ \A i, j \in hits :
           More(score[i], score[j]) => Sorted(score, before)[i] < Sorted(score, before)[j]
  BY <1>1, <1>3, <1>4, SortedInOrder
<1> QED
  BY <1>5, <1>6, <1>7

\* The vector ranking has all rows, nearer ones first.
LEMMA VectorRanking ==
  ASSUME NEW n \in Nat, NEW table \in [1..n -> Chunk], NEW order \in Bijection(1..n, 1..n)
  PROVE  /\ VectorHits(table, order) \in Bijection(1..n, 1..n)
         /\ \A i, j \in 1..n : table[i].near > table[j].near
              => VectorHits(table, order)[i] < VectorHits(table, order)[j]
<1> DEFINE score == [i \in 1..n |-> Score(table[i].near, 1)]
<1>1. IsFiniteSet(1..n) /\ Cardinality(1..n) = n
  BY FS_Interval
<1>2. \A i \in 1..n : table[i].near \in Nat
  BY ChunkTyped
<1>3. score \in [1..n -> Fraction]
  BY <1>2, Whole
<1>4. /\ \A i \in 1..n : order[i] \in Nat
      /\ \A i, j \in 1..n : order[i] = order[j] => i = j
  BY DEF Bijection, Injection, IsInjective
<1>5. \A i, j \in 1..n : More(score[i], score[j]) <=> table[i].near > table[j].near
  BY <1>2, Whole
<1>6. VectorHits(table, order) = Sorted(score, order)
  BY DEF VectorHits
<1> HIDE DEF score
<1>7. /\ Sorted(score, order) \in Bijection(1..n, 1..Cardinality(1..n))
      /\ \A i, j \in 1..n :
           More(score[i], score[j]) => Sorted(score, order)[i] < Sorted(score, order)[j]
  BY <1>1, <1>3, <1>4, SortedInOrder
<1> QED
  BY <1>1, <1>5, <1>6, <1>7

-----------------------------------------------------------------------------
(* Scores.                                                                 *)

\* A row in both rankings has the sum of two scores; a place counts at least 61.
LEMMA SumIsSmall ==
  ASSUME NEW p \in Nat, NEW s \in Nat, p >= 61, s >= 61
  PROVE  p * s \in Nat \ {0} /\ 61 * (p + s) <= 2 * (p * s)
<1>1. 61 * s <= p * s /\ 61 * p <= p * s
  BY Z3
<1> QED
  BY <1>1

\* Earlier places in both rankings have the larger sum.
LEMMA SumIsLarger ==
  ASSUME NEW p \in Nat \ {0}, NEW s \in Nat \ {0}, NEW q \in Nat, NEW t \in Nat, p < q, s < t
  PROVE  (p + s) * (q * t) > (q + t) * (p * s)
<1>1. p * q * t > p * q * s
  BY Z3
<1>2. s * t * q > s * t * p
  BY Z3
<1>3. (p + s) * (q * t) = p * q * t + s * t * q
  BY Z3
<1>4. (q + t) * (p * s) = p * q * s + s * t * p
  BY Z3
<1>5. p * q * t \in Nat /\ p * q * s \in Nat /\ s * t * q \in Nat /\ s * t * p \in Nat
  OBVIOUS
<1> QED
  BY <1>1, <1>2, <1>3, <1>4, <1>5

\* Any second score is more than a later place alone.
LEMMA SumIsMore ==
  ASSUME NEW p \in Nat \ {0}, NEW s \in Nat \ {0}, NEW t \in Nat, s < t
  PROVE  (p + s) * t > 1 * (p * s)
<1>1. p * t > p * s
  BY Z3
<1>2. (p + s) * t = p * t + s * t
  BY Z3
<1>3. p * t \in Nat /\ p * s \in Nat /\ s * t \in Nat
  OBVIOUS
<1> QED
  BY <1>1, <1>2, <1>3

\* The last places of 62 rows are together more than the first of one ranking.
LEMMA SumIsEnough ==
  ASSUME NEW p \in Nat \ {0}, NEW s \in Nat \ {0}, NEW t \in Nat, p <= 121, s <= 122, t >= 61
  PROVE  (p + s) * t > 1 * (p * s)
<1>1. s * p <= 122 * p /\ p * s <= 121 * s
  BY Z3
<1>2. (p + s) * 61 <= (p + s) * t
  BY Z3
<1>3. s * p = p * s /\ p * s \in Nat /\ (p + s) * t \in Nat
  OBVIOUS
<1> QED
  BY <1>1, <1>2, <1>3

\* Division rounds down.
LEMMA Quotient ==
  ASSUME NEW x \in Nat, NEW y \in Nat \ {0}
  PROVE  /\ x \div y \in Nat
         /\ y * (x \div y) <= x
         /\ x < y * (x \div y) + y
  BY Z3

\* The rounded score is within one of the exact one.
LEMMA BoostIsQuotient ==
  ASSUME NEW a \in Fraction, NEW w \in Nat
  PROVE  LET x == 20000 * a.num + 3000 * w * a.den + a.den
             b == BoostedScore(a, w)
         IN  b \in Nat /\ 2 * a.den * b <= x /\ x < 2 * a.den * b + 2 * a.den
<1> DEFINE x == 20000 * a.num + 3000 * w * a.den + a.den
           y == 2 * a.den
<1>1. a.num \in Nat /\ a.den \in Nat \ {0}
  BY DEF Fraction
<1>2. x \in Nat /\ y \in Nat \ {0}
  BY <1>1
<1>3. BoostedScore(a, w) = x \div y
  BY DEF BoostedScore
<1> HIDE DEF x
<1>4. /\ x \div y \in Nat
      /\ y * (x \div y) <= x
      /\ x < y * (x \div y) + y
  <2> HIDE DEF y
  <2> QED
    BY <1>2, Quotient
<1> QED
  BY <1>3, <1>4 DEF x

\* What the words add is more than what any two places make.
LEMMA BoostIsBounded ==
  ASSUME NEW a \in Fraction, 61 * a.num <= 2 * a.den, NEW w \in Nat
  PROVE  /\ BoostedScore(a, w) \in Nat
         /\ 1500 * w <= BoostedScore(a, w)
         /\ BoostedScore(a, w) <= 1500 * w + 328
<1> DEFINE e == a.den
           x == 20000 * a.num + 3000 * w * a.den + a.den
           b == BoostedScore(a, w)
<1>1. a.num \in Nat /\ e \in Nat \ {0} /\ 61 * a.num <= 2 * e
  BY DEF Fraction
<1>2. w * e \in Nat /\ 3000 * w * e = 3000 * (w * e)
  BY <1>1
<1>3. x \in Nat /\ x = 20000 * a.num + 3000 * (w * e) + e
  BY <1>1, <1>2
<1>4. b \in Nat /\ 2 * e * b <= x /\ x < 2 * e * b + 2 * e
  BY BoostIsQuotient
<1>5. 61 * x <= 40000 * e + 183000 * (w * e) + 61 * e
  BY <1>1, <1>2, <1>3
<1> HIDE DEF b, x, e
<1>6. b * e \in Nat /\ 2 * e * b = 2 * (b * e)
  BY <1>1, <1>4
<1>7. 3000 * (w * e) + e < 2 * (b * e) + 2 * e
  BY <1>1, <1>2, <1>3, <1>4, <1>6
<1>8. 1500 * w <= b
  <2>1. SUFFICES ASSUME b + 1 <= 1500 * w PROVE FALSE
    BY <1>4
  <2>2. (b + 1) * e <= 1500 * w * e
    BY <1>1, <1>4, <2>1, Z3
  <2>3. (b + 1) * e = b * e + e /\ 1500 * w * e = 1500 * (w * e)
    BY <1>1, <1>4
  <2> QED
    BY <1>1, <1>2, <1>6, <1>7, <2>2, <2>3
<1>9. b <= 1500 * w + 328
  <2>1. SUFFICES ASSUME 1500 * w + 329 <= b PROVE FALSE
    BY <1>4
  <2>2. (1500 * w + 329) * e <= b * e
    BY <1>1, <1>4, <2>1, Z3
  <2>3. (1500 * w + 329) * e = 1500 * (w * e) + 329 * e
    BY <1>1
  <2> QED
    BY <1>1, <1>2, <1>3, <1>4, <1>5, <1>6, <2>2, <2>3
<1> QED
  BY <1>4, <1>8, <1>9 DEF b

\* With as many words, a higher score is not lower after rounding.
LEMMA BoostIsMonotone ==
  ASSUME NEW a \in Fraction, NEW c \in Fraction, NEW w \in Nat, More(a, c)
  PROVE  BoostedScore(c, w) <= BoostedScore(a, w)
<1> DEFINE e == a.den
           f == c.den
           x == 20000 * a.num + 3000 * w * a.den + a.den
           y == 20000 * c.num + 3000 * w * c.den + c.den
           b == BoostedScore(a, w)
           d == BoostedScore(c, w)
<1>1. /\ a.num \in Nat /\ e \in Nat \ {0}
      /\ c.num \in Nat /\ f \in Nat \ {0}
  BY DEF Fraction
<1>2. a.num * f > c.num * e
  BY DEF More
<1>3. x \in Nat /\ y \in Nat
  BY <1>1
<1>4. /\ b \in Nat /\ x < 2 * e * b + 2 * e
      /\ d \in Nat /\ 2 * f * d <= y
  BY BoostIsQuotient
<1>5. x * f = 20000 * (a.num * f) + 3000 * (w * e * f) + e * f
  BY <1>1, Z3
<1>6. y * e = 20000 * (c.num * e) + 3000 * (w * e * f) + e * f
  BY <1>1, Z3
<1>7. /\ a.num * f \in Nat /\ c.num * e \in Nat /\ w * e * f \in Nat
      /\ e * f \in Nat /\ e * f # 0
  BY <1>1, Z3
<1> HIDE DEF b, d, x, y, e, f
<1>8. y * e <= x * f
  BY <1>2, <1>5, <1>6, <1>7
<1>9. SUFFICES ASSUME b + 1 <= d PROVE FALSE
  BY <1>4 DEF b, d
<1>10. (e * f) * (b + 1) <= (e * f) * d
  BY <1>4, <1>7, <1>9, Z3
<1>11. 2 * ((e * f) * d) <= y * e
  <2>1. 2 * f * d * e <= y * e
    BY <1>1, <1>3, <1>4, Z3
  <2>2. 2 * f * d * e = 2 * ((e * f) * d)
    BY <1>1, <1>4, Z3
  <2> QED
    BY <2>1, <2>2
<1>12. x * f < 2 * ((e * f) * (b + 1))
  <2>1. x * f < (2 * e * b + 2 * e) * f
    BY <1>1, <1>3, <1>4, Z3
  <2>2. (2 * e * b + 2 * e) * f = 2 * ((e * f) * (b + 1))
    BY <1>1, <1>4, Z3
  <2> QED
    BY <2>1, <2>2
<1>13. /\ x * f \in Nat /\ y * e \in Nat
       /\ (e * f) * (b + 1) \in Nat /\ (e * f) * d \in Nat
  BY <1>1, <1>3, <1>4
<1> QED
  BY <1>8, <1>10, <1>11, <1>12, <1>13

-----------------------------------------------------------------------------
(* Fusion, reranking, results.                                             *)

\* A ranking of some of the rows, and one of all.
TwoRankings(n, hits, first, second) ==
  /\ hits \subseteq 1..n
  /\ first \in Bijection(hits, 1..Cardinality(hits))
  /\ second \in Bijection(1..n, 1..n)

\* A row has one place in each ranking, and no other row has it.
LEMMA Places ==
  ASSUME NEW n \in Nat, NEW hits, NEW first, NEW second, TwoRankings(n, hits, first, second)
  PROVE  /\ IsFiniteSet(hits) /\ Cardinality(hits) \in Nat /\ Cardinality(hits) <= n
         /\ DOMAIN first = hits /\ DOMAIN second = 1..n
         /\ \A i \in hits : first[i] \in 1..Cardinality(hits)
         /\ \A i \in 1..n : second[i] \in 1..n
         /\ \A i, j \in hits : first[i] = first[j] => i = j
         /\ \A i, j \in 1..n : second[i] = second[j] => i = j
<1>1. IsFiniteSet(1..n) /\ Cardinality(1..n) = n
  BY FS_Interval
<1>2. hits \in SUBSET (1..n)
  BY DEF TwoRankings
<1>3. IsFiniteSet(hits) /\ Cardinality(hits) <= n
  BY <1>1, <1>2, FS_Subset
<1>4. Cardinality(hits) \in Nat
  BY <1>3, FS_CardinalityType
<1>5. /\ first \in [hits -> 1..Cardinality(hits)]
      /\ \A i, j \in hits : first[i] = first[j] => i = j
  BY DEF TwoRankings, Bijection, Injection, IsInjective
<1>6. /\ second \in [1..n -> 1..n]
      /\ \A i, j \in 1..n : second[i] = second[j] => i = j
  BY DEF TwoRankings, Bijection, Injection, IsInjective
<1> QED
  BY <1>3, <1>4, <1>5, <1>6

\* Every score is a positive fraction of at most 2 / 61.
LEMMA ScoreIsSmall ==
  ASSUME NEW n \in Nat, NEW hits, NEW first, NEW second, TwoRankings(n, hits, first, second),
         NEW i \in 1..n
  PROVE  /\ FusedScore(first, second, i) \in Fraction
         /\ 61 * FusedScore(first, second, i).num <= 2 * FusedScore(first, second, i).den
<1>1. second[i] \in Nat /\ second[i] >= 1
  BY Places
<1> DEFINE p == RankConstant + first[i]
           s == RankConstant + second[i]
<1>2. s \in Nat /\ s >= 61
  BY <1>1 DEF RankConstant
<1>3. CASE i \in hits
  <2>1. first[i] \in Nat /\ first[i] >= 1
    BY <1>3, Places
  <2>2. p \in Nat /\ p >= 61
    BY <2>1 DEF RankConstant
  <2>3. FusedScore(first, second, i) = [num |-> p + s, den |-> p * s]
    BY <1>3, Places DEF FusedScore, Score, Place
  <2> HIDE DEF p, s
  <2>4. p * s \in Nat \ {0} /\ 61 * (p + s) <= 2 * (p * s)
    BY <1>2, <2>2, SumIsSmall
  <2> QED
    BY <1>2, <2>2, <2>3, <2>4 DEF Fraction
<1>4. CASE i \notin hits
  <2>1. FusedScore(first, second, i) = [num |-> 1, den |-> s]
    BY <1>4, Places DEF FusedScore, Score, Place
  <2> QED
    BY <1>2, <2>1 DEF Fraction
<1> QED
  BY <1>3, <1>4

\* The fusion puts higher scores first.
LEMMA FusedRanking ==
  ASSUME NEW n \in Nat, NEW hits, NEW first, NEW second, TwoRankings(n, hits, first, second)
  PROVE  /\ Fused(first, second) \in Bijection(1..n, 1..n)
         /\ \A i, j \in 1..n :
              More(FusedScore(first, second, i), FusedScore(first, second, j))
                => Fused(first, second)[i] < Fused(first, second)[j]
<1> DEFINE score == [i \in 1..n |-> FusedScore(first, second, i)]
           before == [i \in 1..n |-> IF i \in hits THEN first[i]
                                    ELSE Cardinality(hits) + second[i]]
<1>1. IsFiniteSet(1..n) /\ Cardinality(1..n) = n
  BY FS_Interval
<1>2. score \in [1..n -> Fraction]
  BY ScoreIsSmall
<1>3. \A i \in 1..n : before[i] \in Nat
  BY Places
<1>4. ASSUME NEW i \in 1..n, NEW j \in 1..n, before[i] = before[j] PROVE i = j
  <2>1. \A k \in 1..n : k \in hits <=> before[k] <= Cardinality(hits)
    BY Places
  <2>2. i \in hits <=> j \in hits
    BY <1>4, <2>1
  <2>3. CASE i \in hits
    BY <1>4, <2>2, <2>3, Places
  <2>4. CASE i \notin hits
    <3>1. second[i] = second[j]
      BY <1>4, <2>2, <2>4, Places
    <3> QED
      BY <3>1, Places
  <2> QED
    BY <2>3, <2>4
<1>5. Fused(first, second) = Sorted(score, before)
  <2>1. DOMAIN first = hits /\ DOMAIN second = 1..n
    BY Places
  <2>2. (DOMAIN first) \union (DOMAIN second) = 1..n
    BY <2>1 DEF TwoRankings
  <2>3. before = [i \in 1..n |-> IF i \in DOMAIN first THEN first[i]
                                 ELSE Cardinality(DOMAIN first) + second[i]]
    BY <2>1
  <2> QED
    BY <2>2, <2>3 DEF Fused
<1>6. \A i, j \in 1..n :
        More(score[i], score[j])
          <=> More(FusedScore(first, second, i), FusedScore(first, second, j))
  OBVIOUS
<1> HIDE DEF score, before
<1>7. /\ Sorted(score, before) \in Bijection(1..n, 1..Cardinality(1..n))
      /\ \A i, j \in 1..n :
           More(score[i], score[j]) => Sorted(score, before)[i] < Sorted(score, before)[j]
  BY <1>1, <1>2, <1>3, <1>4, SortedInOrder
<1> QED
  BY <1>1, <1>5, <1>6, <1>7

\* What a row has after the boost.
LEMMA BoostedRow ==
  ASSUME NEW n \in Nat, NEW hits, NEW first, NEW second, TwoRankings(n, hits, first, second),
         NEW i \in 1..n, NEW w \in Nat
  PROVE  LET b == BoostedScore(FusedScore(first, second, i), w)
         IN  b \in Nat /\ 1500 * w <= b /\ b <= 1500 * w + 328
  BY ScoreIsSmall, BoostIsBounded

\* It is a whole number.
LEMMA BoostedTyped ==
  ASSUME NEW n \in Nat, NEW hits, NEW first, NEW second, TwoRankings(n, hits, first, second),
         NEW i \in 1..n, NEW w \in Nat
  PROVE  BoostedScore(FusedScore(first, second, i), w) \in Nat
  BY BoostedRow

\* More words come first; with as many words, no row overtakes one with a higher score.
LEMMA BoostedOrder ==
  ASSUME NEW n \in Nat, NEW hits, NEW first, NEW second, TwoRankings(n, hits, first, second),
         NEW i \in 1..n, NEW j \in 1..n, NEW v \in Nat, NEW w \in Nat
  PROVE  LET b == BoostedScore(FusedScore(first, second, i), v)
             c == BoostedScore(FusedScore(first, second, j), w)
         IN  /\ v > w => b > c
             /\ v = w /\ More(FusedScore(first, second, i), FusedScore(first, second, j))
                  => ~(c > b)
<1> DEFINE b == BoostedScore(FusedScore(first, second, i), v)
           c == BoostedScore(FusedScore(first, second, j), w)
<1>1. b \in Nat /\ 1500 * v <= b
  BY BoostedRow
<1>2. c \in Nat /\ c <= 1500 * w + 328
  BY BoostedRow
<1>3. ASSUME v = w, More(FusedScore(first, second, i), FusedScore(first, second, j))
      PROVE  c <= b
  BY <1>3, ScoreIsSmall, BoostIsMonotone
<1> HIDE DEF b, c
<1>4. v > w => b > c
  BY <1>1, <1>2
<1>5. ASSUME v = w, More(FusedScore(first, second, i), FusedScore(first, second, j))
      PROVE  ~(c > b)
  <2>1. c <= b
    BY <1>3, <1>5
  <2> QED
    BY <1>1, <1>2, <2>1
<1> QED
  BY <1>4, <1>5 DEF b, c

\* The reranking goes by the words of the query, then by the score of the fusion.
LEMMA RerankedRanking ==
  ASSUME NEW n \in Nat, NEW hits, NEW first, NEW second, TwoRankings(n, hits, first, second),
         NEW table \in [1..n -> Chunk]
  PROVE  /\ Reranked(table, first, second) \in Bijection(1..n, 1..n)
         /\ \A i, j \in 1..n :
              \/ table[i].whole > table[j].whole
              \/ /\ table[i].whole = table[j].whole
                 /\ More(FusedScore(first, second, i), FusedScore(first, second, j))
              => Reranked(table, first, second)[i] < Reranked(table, first, second)[j]
<1> DEFINE boosted == [i \in 1..n |->
                        BoostedScore(FusedScore(first, second, i), table[i].whole)]
           score == [i \in 1..n |-> Score(boosted[i], 1)]
           before == Fused(first, second)
<1>1. IsFiniteSet(1..n) /\ Cardinality(1..n) = n
  BY FS_Interval
<1>2. \A i \in 1..n : table[i].whole \in Nat
  BY ChunkTyped
<1>3. ASSUME NEW i \in 1..n PROVE boosted[i] \in Nat
  <2>1. table[i].whole \in Nat
    BY <1>2
  <2>2. BoostedScore(FusedScore(first, second, i), table[i].whole) \in Nat
    BY <2>1, BoostedTyped
  <2> QED
    BY <2>2
<1>4. /\ \A i \in 1..n : before[i] \in Nat
      /\ \A i, j \in 1..n : before[i] = before[j] => i = j
  <2>1. before \in Bijection(1..n, 1..n)
    BY FusedRanking
  <2>2. /\ before \in [1..n -> 1..n]
        /\ \A i, j \in 1..n : before[i] = before[j] => i = j
    BY <2>1 DEF Bijection, Injection, IsInjective
  <2> HIDE DEF before
  <2> QED
    BY <2>2
<1>5. \A i, j \in 1..n : More(FusedScore(first, second, i), FusedScore(first, second, j))
                            => before[i] < before[j]
  BY FusedRanking
<1>6. Reranked(table, first, second) = Sorted(score, before)
  BY DEF Reranked
<1>7. ASSUME NEW i \in 1..n, NEW j \in 1..n
      PROVE  /\ table[i].whole > table[j].whole => boosted[i] > boosted[j]
             /\ /\ table[i].whole = table[j].whole
                /\ More(FusedScore(first, second, i), FusedScore(first, second, j))
                => ~(boosted[j] > boosted[i])
  BY <1>2, BoostedOrder
<1> HIDE DEF before, boosted
<1>8. score \in [1..n -> Fraction]
  BY <1>3, Whole
<1>9. \A i, j \in 1..n : More(score[i], score[j]) <=> boosted[i] > boosted[j]
  BY <1>3, Whole
<1> HIDE DEF score
<1>10. /\ Sorted(score, before) \in Bijection(1..n, 1..n)
       /\ \A i, j \in 1..n :
            More(score[i], score[j]) => Sorted(score, before)[i] < Sorted(score, before)[j]
       /\ \A i, j \in 1..n :
            ~More(score[j], score[i]) /\ before[i] < before[j]
              => Sorted(score, before)[i] < Sorted(score, before)[j]
  BY <1>1, <1>4, <1>8, SortedInOrder
<1>11. ASSUME NEW i \in 1..n, NEW j \in 1..n, table[i].whole > table[j].whole
       PROVE  Sorted(score, before)[i] < Sorted(score, before)[j]
  BY <1>7, <1>9, <1>10, <1>11
<1>12. ASSUME NEW i \in 1..n, NEW j \in 1..n, table[i].whole = table[j].whole,
              More(FusedScore(first, second, i), FusedScore(first, second, j))
       PROVE  Sorted(score, before)[i] < Sorted(score, before)[j]
  <2>1. ~More(score[j], score[i]) /\ before[i] < before[j]
    BY <1>5, <1>7, <1>9, <1>12
  <2> QED
    BY <1>10, <2>1
<1> QED
  BY <1>6, <1>10, <1>11, <1>12

\* A row that is ahead in both rankings has the higher score.
LEMMA AheadInBoth ==
  ASSUME NEW n \in Nat, NEW hits, NEW first, NEW second, TwoRankings(n, hits, first, second),
         NEW i \in hits, NEW j \in 1..n,
         j \in hits => first[i] < first[j], second[i] < second[j]
  PROVE  More(FusedScore(first, second, i), FusedScore(first, second, j))
<1> DEFINE p == RankConstant + first[i]
           s == RankConstant + second[i]
           q == RankConstant + first[j]
           t == RankConstant + second[j]
<1>1. i \in 1..n
  BY DEF TwoRankings
<1>2. first[i] \in Nat /\ second[i] \in Nat /\ second[j] \in Nat
  BY <1>1, Places
<1>3. p \in Nat \ {0} /\ s \in Nat \ {0} /\ t \in Nat /\ s < t
  BY <1>2 DEF RankConstant
<1>4. FusedScore(first, second, i) = [num |-> p + s, den |-> p * s]
  BY <1>1, Places DEF FusedScore, Score, Place
<1>5. CASE j \in hits
  <2>1. first[j] \in Nat
    BY <1>5, Places
  <2>2. q \in Nat /\ p < q
    BY <1>2, <1>5, <2>1 DEF RankConstant
  <2>3. FusedScore(first, second, j) = [num |-> q + t, den |-> q * t]
    BY <1>5, Places DEF FusedScore, Score, Place
  <2> HIDE DEF p, s, q, t
  <2>4. (p + s) * (q * t) > (q + t) * (p * s)
    BY <1>3, <2>2, SumIsLarger
  <2> QED
    BY <1>4, <2>3, <2>4 DEF More
<1>6. CASE j \notin hits
  <2>1. FusedScore(first, second, j) = [num |-> 1, den |-> t]
    BY <1>6, Places DEF FusedScore, Score, Place
  <2> HIDE DEF p, s, t
  <2>2. (p + s) * t > 1 * (p * s)
    BY <1>3, SumIsMore
  <2> QED
    BY <1>4, <2>1, <2>2 DEF More
<1> QED
  BY <1>5, <1>6

\* A row of the first ranking has a higher score than one it lacks, if there are no
\* more than 62 rows.
LEMMA HitIsAhead ==
  ASSUME NEW n \in Nat, NEW hits, NEW first, NEW second, TwoRankings(n, hits, first, second),
         NEW i \in hits, NEW j \in 1..n, j \notin hits, n <= RankConstant + 2
  PROVE  More(FusedScore(first, second, i), FusedScore(first, second, j))
<1> DEFINE p == RankConstant + first[i]
           s == RankConstant + second[i]
           t == RankConstant + second[j]
<1>1. i \in 1..n
  BY DEF TwoRankings
<1>2. Cardinality(hits) <= n - 1
  <2>1. IsFiniteSet(1..n) /\ Cardinality(1..n) = n
    BY FS_Interval
  <2>2. IsFiniteSet((1..n) \ {j}) /\ Cardinality((1..n) \ {j}) = n - 1
    BY <2>1, FS_RemoveElement
  <2>3. hits \in SUBSET ((1..n) \ {j})
    BY DEF TwoRankings
  <2> DEFINE others == (1..n) \ {j}
  <2>4. Cardinality(others) = n - 1
    BY <2>2
  <2>5. Cardinality(hits) <= Cardinality(others)
    <3> HIDE DEF others
    <3>1. IsFiniteSet(others) /\ hits \in SUBSET others
      BY <2>2, <2>3 DEF others
    <3> QED
      BY <3>1, FS_Subset
  <2> QED
    BY <2>4, <2>5
<1>3. /\ first[i] \in Nat /\ first[i] <= 61
      /\ second[i] \in Nat /\ second[i] <= 62
      /\ second[j] \in Nat /\ second[j] >= 1
  <2>1. /\ first[i] \in 1..Cardinality(hits) /\ Cardinality(hits) \in Nat
        /\ second[i] \in 1..n /\ second[j] \in 1..n
    BY <1>1, Places
  <2> QED
    BY <1>2, <2>1 DEF RankConstant
<1>4. /\ p \in Nat \ {0} /\ p <= 121
      /\ s \in Nat \ {0} /\ s <= 122
      /\ t \in Nat /\ t >= 61
  BY <1>3 DEF RankConstant
<1>5. FusedScore(first, second, i) = [num |-> p + s, den |-> p * s]
  BY <1>1, Places DEF FusedScore, Score, Place
<1>6. FusedScore(first, second, j) = [num |-> 1, den |-> t]
  BY Places DEF FusedScore, Score, Place
<1> HIDE DEF p, s, t
<1>7. (p + s) * t > 1 * (p * s)
  BY <1>4, SumIsEnough
<1> QED
  BY <1>5, <1>6, <1>7 DEF More

\* The reranking has what deserves it ahead.
LEMMA RerankedAsDeserved ==
  ASSUME NEW n \in Nat, NEW table \in [1..n -> Chunk], NEW order \in Bijection(1..n, 1..n)
  PROVE  LET ranking == Reranked(table, KeywordHits(table), VectorHits(table, order))
         IN  /\ ranking \in Bijection(1..n, 1..n)
             /\ \A i, j \in 1..n : Deserves(table, i, j) => ranking[i] < ranking[j]
<1> DEFINE hits == {k \in 1..n : table[k].contains > 0}
           first == KeywordHits(table)
           second == VectorHits(table, order)
<1>1. /\ first \in Bijection(hits, 1..Cardinality(hits))
      /\ \A i, j \in hits : table[i].contains > table[j].contains => first[i] < first[j]
  BY KeywordRanking
<1>2. /\ second \in Bijection(1..n, 1..n)
      /\ \A i, j \in 1..n : table[i].near > table[j].near => second[i] < second[j]
  BY VectorRanking
<1>3. TwoRankings(n, hits, first, second)
  BY <1>1, <1>2 DEF TwoRankings
<1>4. \A i \in 1..n : table[i].contains \in Nat
  BY ChunkTyped
<1>5. n = Cardinality(DOMAIN table)
  BY FS_Interval
<1> HIDE DEF first, second
<1>6. ASSUME NEW i \in 1..n, NEW j \in 1..n, Deserves(table, i, j)
      PROVE  \/ table[i].whole > table[j].whole
             \/ /\ table[i].whole = table[j].whole
                /\ More(FusedScore(first, second, i), FusedScore(first, second, j))
  <2>1. CASE table[i].whole > table[j].whole
    BY <2>1
  <2>2. CASE /\ table[i].whole = table[j].whole
             /\ table[i].contains > table[j].contains /\ table[i].near > table[j].near
    <3>1. i \in hits
      BY <1>4, <2>2
    <3>2. (j \in hits => first[i] < first[j]) /\ second[i] < second[j]
      BY <1>1, <1>2, <2>2, <3>1
    <3> HIDE DEF hits
    <3> QED
      BY <1>3, <2>2, <3>1, <3>2, AheadInBoth
  <2>3. CASE /\ table[i].whole = table[j].whole
             /\ table[i].contains > 0 /\ table[j].contains = 0
             /\ Cardinality(DOMAIN table) <= RankConstant + 2
    <3>1. i \in hits /\ j \notin hits
      BY <2>3
    <3> HIDE DEF hits
    <3> QED
      BY <1>3, <1>5, <2>3, <3>1, HitIsAhead
  <2> QED
    BY <1>6, <2>1, <2>2, <2>3 DEF Deserves
<1> HIDE DEF hits
<1>7. /\ Reranked(table, first, second) \in Bijection(1..n, 1..n)
      /\ \A i, j \in 1..n :
           \/ table[i].whole > table[j].whole
           \/ /\ table[i].whole = table[j].whole
              /\ More(FusedScore(first, second, i), FusedScore(first, second, j))
           => Reranked(table, first, second)[i] < Reranked(table, first, second)[j]
  BY <1>3, RerankedRanking
<1> QED
  BY <1>6, <1>7 DEF first, second

\* The results are the first rows with a valid citation, in the order of the ranking.
LEMMA ResultsInOrder ==
  ASSUME NEW n \in Nat, NEW table \in [1..n -> Chunk], NEW order \in Bijection(1..n, 1..n),
         NEW limit \in Nat
  PROVE  LET ranking == Reranked(table, KeywordHits(table), VectorHits(table, order))
             found == Results(Cited(table, order), limit)
         IN  /\ DOMAIN found \subseteq 1..n
             /\ \A i \in 1..n : \A j \in DOMAIN found :
                  table[i].valid /\ ranking[i] < ranking[j]
                    => i \in DOMAIN found /\ found[i] < found[j]
             /\ \A i \in 1..n :
                  table[i].valid /\ Cardinality(DOMAIN found) < limit => i \in DOMAIN found
<1> DEFINE ranking == Reranked(table, KeywordHits(table), VectorHits(table, order))
           valid == {i \in 1..n : table[i].valid}
           ahead == {p \in valid \X valid : ranking[p[1]] < ranking[p[2]]}
           place == Numbered(valid, ahead)
           within == {i \in valid : place[i] <= limit}
           found == Results(Cited(table, order), limit)
           N == Cardinality(valid)
<1>1. /\ \A i \in 1..n : ranking[i] \in Nat
      /\ \A i, j \in 1..n : ranking[i] = ranking[j] => i = j
  <2>1. ranking \in Bijection(1..n, 1..n)
    BY RerankedAsDeserved
  <2> HIDE DEF ranking
  <2>2. /\ ranking \in [1..n -> 1..n]
        /\ \A i, j \in 1..n : ranking[i] = ranking[j] => i = j
    BY <2>1 DEF Bijection, Injection, IsInjective
  <2> QED
    BY <2>2
<1>2. found = [i \in within |-> place[i]]
  <2>1. valid = {i \in DOMAIN table : table[i].valid}
    OBVIOUS
  <2>2. Cited(table, order) = place
    BY <2>1 DEF Cited
  <2>3. DOMAIN place = valid
    BY DEF Numbered
  <2> HIDE DEF place, valid
  <2> QED
    BY <2>2, <2>3 DEF Results, Restrict
<1> HIDE DEF ranking, found
<1>3. IsFiniteSet(valid) /\ N \in Nat
  <2>1. IsFiniteSet(1..n) /\ valid \in SUBSET (1..n)
    BY FS_Interval
  <2> HIDE DEF valid
  <2>2. IsFiniteSet(valid)
    BY <2>1, FS_Subset
  <2> QED
    BY <2>2, FS_CardinalityType
<1>4. \A i, j \in valid : <<i, j>> \in ahead <=> ranking[i] < ranking[j]
  OBVIOUS
<1>5. Orders(ahead, valid)
  <2>1. valid \subseteq 1..n
    OBVIOUS
  <2> HIDE DEF valid, ahead
  <2>2. \A i \in valid : <<i, i>> \notin ahead
    BY <1>1, <1>4, <2>1
  <2>3. \A i, j \in valid : i # j => <<i, j>> \in ahead \/ <<j, i>> \in ahead
    BY <1>1, <1>4, <2>1
  <2>4. \A i, j, k \in valid : <<i, j>> \in ahead /\ <<j, k>> \in ahead => <<i, k>> \in ahead
    BY <1>1, <1>4, <2>1
  <2> QED
    BY <2>2, <2>3, <2>4 DEF Orders
<1>6. valid \subseteq 1..n /\ \A i \in 1..n : i \in valid <=> table[i].valid
  OBVIOUS
<1> HIDE DEF valid, ahead
<1>7. /\ place \in [valid -> 1..N]
      /\ \A i, j \in valid : ranking[i] < ranking[j] => place[i] < place[j]
  BY <1>3, <1>4, <1>5, NumberedInOrder
<1>8. place \in Bijection(valid, 1..N)
  BY <1>3, <1>5, NumberedIsBijection
<1> HIDE DEF place, N
<1>9. DOMAIN found = within /\ \A i \in within : found[i] = place[i]
  BY <1>2
<1>10. within \subseteq valid /\ \A i \in valid : i \in within <=> place[i] <= limit
  OBVIOUS
<1> HIDE DEF within
<1>11. ASSUME NEW i \in 1..n, NEW j \in within, table[i].valid, ranking[i] < ranking[j]
       PROVE  i \in within /\ found[i] < found[j]
  <2>1. i \in valid /\ j \in valid /\ place[i] \in Nat /\ place[j] \in Nat
    BY <1>6, <1>7, <1>10, <1>11
  <2>2. place[i] < place[j] /\ place[j] <= limit
    BY <1>7, <1>10, <1>11, <2>1
  <2>3. i \in within
    BY <1>10, <2>1, <2>2
  <2> QED
    BY <1>9, <2>2, <2>3
<1>12. ASSUME NEW i \in 1..n, table[i].valid, i \notin within
       PROVE  limit <= Cardinality(within)
  <2>1. i \in valid
    BY <1>6, <1>12
  <2>2. limit < place[i] /\ place[i] \in 1..N
    BY <1>7, <1>10, <1>12, <2>1
  <2>3. \A k \in 1..limit : \E j \in valid : place[j] = k
    BY <1>3, <1>8, <2>2 DEF Bijection, Surjection
  <2>4. IsFiniteSet(within)
    BY <1>3, <1>10, FS_Subset
  <2> DEFINE f == [j \in within |-> place[j]]
  <2>5. f \in Surjection(within, 1..limit)
    <3>1. f \in [within -> 1..limit]
      BY <1>7, <1>10
    <3>2. ASSUME NEW k \in 1..limit PROVE \E j \in within : f[j] = k
      <4>1. PICK j \in valid : place[j] = k
        BY <2>3
      <4>2. j \in within
        BY <1>10, <4>1
      <4> QED
        BY <4>1, <4>2
    <3> QED
      BY <3>1, <3>2 DEF Surjection
  <2> HIDE DEF f
  <2>6. Cardinality(1..limit) <= Cardinality(within)
    BY <2>4, <2>5, FS_Surjection
  <2>7. Cardinality(1..limit) = limit
    BY FS_Interval
  <2> QED
    BY <2>6, <2>7
<1>13. Cardinality(within) \in Nat
  BY <1>3, <1>10, FS_Subset, FS_CardinalityType
<1>14. ASSUME NEW i \in 1..n, table[i].valid, Cardinality(within) < limit
       PROVE  i \in within
  BY <1>12, <1>13, <1>14
<1> QED
  BY <1>6, <1>9, <1>10, <1>11, <1>14 DEF ranking, found

\* What the search finds, it finds in the order it should.
LEMMA SearchIsFair == FoundAsDeserved
<1> SUFFICES ASSUME NEW table \in Tables, NEW limit \in 1..MaxRows,
                    NEW order \in Bijection(DOMAIN table, DOMAIN table),
                    NEW i \in DOMAIN table, table[i].valid
             PROVE  LET found == Results(Cited(table, order), limit)
                    IN  /\ \A j \in DOMAIN found :
                             Deserves(table, i, j) => i \in DOMAIN found /\ found[i] < found[j]
                        /\ Cardinality(DOMAIN found) < limit => i \in DOMAIN found
  BY DEF FoundAsDeserved
<1> DEFINE ranking == Reranked(table, KeywordHits(table), VectorHits(table, order))
           found == Results(Cited(table, order), limit)
<1>1. PICK n \in Nat : table \in [1..n -> Chunk]
  BY TableRows
<1>2. DOMAIN table = 1..n /\ order \in Bijection(1..n, 1..n) /\ i \in 1..n
  BY <1>1
<1>3. limit \in Nat
  OBVIOUS
<1>4. \A j \in 1..n : Deserves(table, i, j) => ranking[i] < ranking[j]
  BY <1>1, <1>2, RerankedAsDeserved
<1>5. /\ DOMAIN found \subseteq 1..n
      /\ \A j \in DOMAIN found :
           table[i].valid /\ ranking[i] < ranking[j]
             => i \in DOMAIN found /\ found[i] < found[j]
      /\ table[i].valid /\ Cardinality(DOMAIN found) < limit => i \in DOMAIN found
  BY <1>1, <1>2, <1>3, ResultsInOrder
<1> HIDE DEF ranking, found
<1> QED
  BY <1>4, <1>5 DEF found

\* For tables of any size and queries of any length: a search over the chunks of
\* meetings has nothing ahead of a chunk that deserves to be found before it.
THEOREM ResultsStayRanked == Spec => []ResultsAreRanked
<1>1. ResultsAreRanked
  BY SearchIsFair DEF ResultsAreRanked
<1> QED
  BY <1>1, PTL

===============================================================================
