--------------------------- MODULE KnowledgeSearch ---------------------------
(***************************************************************************)
(* What is computed with the knowledge chunks of a workspace: how          *)
(* utterances are cut into chunks (app/workers/indexing_worker.py) and how *)
(* search_workspace ranks chunks for a query (app/services/knowledge.py).  *)
(* Pure functions.  Of a chunk only the number of query words in it, its   *)
(* nearness to the query and the validity of its citation matter; a table  *)
(* is a sequence of chunks, and a ranking a function from its positions.   *)
(***************************************************************************)
EXTENDS Naturals, FiniteSets, Functions

CONSTANTS
  MaxUtterances,  \* bound: utterances of a transcript
  MaxRows,        \* bound: chunks of a workspace
  MaxWords        \* bound: words of a query

-----------------------------------------------------------------------------
(* Chunks of a transcript.                                                 *)

ChunkSize == 15
Overlap == 3

\* Mutant: windows that do not overlap.
StepWhole == ChunkSize

\* From the first utterance of a window to that of the next.
Step == ChunkSize - Overlap

\* utterances[first:first + chunk_size], of n utterances numbered from 0.
Slice(first, n) == {i \in first..(first + ChunkSize - 1) : i < n}

\* The windows of n utterances.
Windows(n) == {Slice(f, n) : f \in {Step * k : k \in 0..n} \intersect 0..(n - 1)}

-----------------------------------------------------------------------------
(* Rankings.  A ranking gives each of its rows a place, from 1.            *)

\* contains: query words somewhere in the text; whole: those that are words of
\* the text; near: the cosine, of which only the order matters.  (Equals come in
\* any order, so two degrees give every ranking.)
Chunk == {c \in [contains : 0..MaxWords, whole : 0..MaxWords, near : 1..2, valid : BOOLEAN] :
            c.whole <= c.contains}

Tables == UNION {[1..n -> Chunk] : n \in 0..MaxRows}

\* The rows in the order of a relation that orders them: so many are ahead of each.
Numbered(rows, ahead) ==
  [i \in rows |-> 1 + Cardinality({j \in rows : <<j, i>> \in ahead})]

\* A score is a fraction.
Score(num, den) == [num |-> num, den |-> den]
More(a, b) == a.num * b.den > b.num * a.den

\* sort(reverse=True): a higher score is ahead, equals stay as they were before.
Ahead(score, before) ==
  {p \in (DOMAIN score) \X (DOMAIN score) :
     \/ More(score[p[1]], score[p[2]])
     \/ ~More(score[p[2]], score[p[1]]) /\ before[p[1]] < before[p[2]]}

Sorted(score, before) == Numbered(DOMAIN score, Ahead(score, before))

\* _bm25_text_search.
KeywordHits(table) ==
  Sorted([i \in {k \in DOMAIN table : table[k].contains > 0} |-> Score(table[i].contains, 1)],
         [i \in DOMAIN table |-> i])

\* _vector_semantic_search; its query may return the rows in another order.
VectorHits(table, order) ==
  Sorted([i \in DOMAIN table |-> Score(table[i].near, 1)], order)

\* The k of _reciprocal_rank_fusion.
RankConstant == 60

\* k + rank + 1, with ranks from 0.
Place(ranking, i) == RankConstant + ranking[i]

\* Mutant: the second ranking's score replaces the first one's.
FusedScoreOfLast(first, second, i) ==
  Score(1, Place(IF i \in DOMAIN second THEN second ELSE first, i))

\* The sum of 1 / Place over the rankings i is in.
FusedScore(first, second, i) ==
  IF i \in DOMAIN first \intersect DOMAIN second
  THEN Score(Place(first, i) + Place(second, i), Place(first, i) * Place(second, i))
  ELSE Score(1, Place(IF i \in DOMAIN first THEN first ELSE second, i))

\* _reciprocal_rank_fusion: by score, and else in the order of the dict, which has
\* the rows of the first ranking and then what the second one adds.
Fused(first, second) ==
  LET rows == DOMAIN first \union DOMAIN second
  IN  Sorted([i \in rows |-> FusedScore(first, second, i)],
             [i \in rows |-> IF i \in DOMAIN first THEN first[i]
                             ELSE Cardinality(DOMAIN first) + second[i]])

\* The score with 0.15 more for every word, in ten-thousandths, rounded.
BoostedScore(score, words) ==
  (20000 * score.num + 3000 * words * score.den + score.den) \div (2 * score.den)

\* rerank of MockRerankerEngine.
Reranked(table, first, second) ==
  Sorted([i \in DOMAIN table |->
            Score(BoostedScore(FusedScore(first, second, i), table[i].whole), 1)],
         Fused(first, second))

\* The loop of search_workspace takes the rows with a valid citation,
Cited(table, order) ==
  LET ranking == Reranked(table, KeywordHits(table), VectorHits(table, order))
      valid == {i \in DOMAIN table : table[i].valid}
  IN  Numbered(valid, {p \in valid \X valid : ranking[p[1]] < ranking[p[2]]})

\* and ends with the last one the limit allows.
Results(cited, limit) == Restrict(cited, {i \in DOMAIN cited : cited[i] <= limit})

-----------------------------------------------------------------------------
(* What is expected of them.                                               *)

\* Utterances no further apart than Overlap are in one chunk, at the end of the
\* transcript too, and no utterance is in more than two.
WindowsOverlap ==
  \A n \in 0..MaxUtterances : \A i \in 0..(n - 1) :
    /\ \E w \in Windows(n) : {j \in i..(i + Overlap) : j < n} \subseteq w
    /\ Cardinality({w \in Windows(n) : i \in w}) <= 2

\* Row i must be found before row j: it has more words of the query; or as many
\* and is ahead of j in both rankings; or as many and, unlike j, parts of words.  (The
\* last in workspaces of up to RankConstant + 2 chunks: in larger ones the nearest
\* chunk outweighs the last of both rankings.)
Deserves(table, i, j) ==
  \/ table[i].whole > table[j].whole
  \/ /\ table[i].whole = table[j].whole
     /\ \/ table[i].contains > table[j].contains /\ table[i].near > table[j].near
        \/ /\ table[i].contains > 0 /\ table[j].contains = 0
           /\ Cardinality(DOMAIN table) <= RankConstant + 2

\* No result is ahead of a chunk with a valid citation that deserves to be found
\* before it, or is there without it; and room is left only when there is nothing
\* else to cite.
FoundAsDeserved ==
  \A table \in Tables : \A order \in Bijection(DOMAIN table, DOMAIN table) :
    LET cited == Cited(table, order)
    IN  \A limit \in 1..MaxRows :
          LET found == Results(cited, limit)
          IN  \A i \in DOMAIN table : table[i].valid =>
                /\ \A j \in DOMAIN found :
                     Deserves(table, i, j) => i \in DOMAIN found /\ found[i] < found[j]
                /\ Cardinality(DOMAIN found) < limit => i \in DOMAIN found
=============================================================================
