----------------------------- MODULE MCPipeline -----------------------------
(* Pipeline on small instances: which recordings belong to which meeting.  *)
(* What is computed with the chunks it leaves is checked along with it.    *)
EXTENDS Pipeline, KnowledgeSearch, TLC

\* All recordings are of one meeting.
SameMeeting == [r \in Recording |-> CHOOSE m \in Meeting : TRUE]

\* All configurations are of one workspace.
SameWorkspace == [m \in Meeting |-> Config]

\* Every configuration has a provider of its own.
Distinct == [c \in Config |-> c]

\* The workers of one stage are interchangeable, and so are the recordings.
Symmetry ==
  UNION {Permutations(S) : S \in
    {SpeechWorkers, IntelligenceWorkers, IndexingWorkers, Recording}}
-----------------------------------------------------------------------------
(* Properties of what the pipeline leaves for searching.                   *)

HasChunks == {m \in Meeting : stored[m] # {}}

\* No passage is torn apart: of a meeting that has chunks, utterances that follow
\* each other closely are in one of them, however long its transcript
\* (IndexingWorker.run_indexing).
PassagesAreWhole == HasChunks # {} => WindowsOverlap

\* Two rankings, a fusion, a boost, a rounding, a test of citations and a limit
\* later, a search over the chunks of meetings has nothing ahead of a chunk that
\* deserves to be found before it (search_workspace).
ResultsAreRanked == HasChunks # {} => FoundAsDeserved
=============================================================================
