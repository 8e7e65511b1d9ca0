----------------------------- MODULE SearchRanking -----------------------------
(***************************************************************************)
(* `rekol search`: the curated chunks nearest to the query are fetched,    *)
(* filtered and ranked again by age; the session messages that the keyword *)
(* index and the vector index return are merged.  Scores are small         *)
(* integers, higher is better; equal scores come in any order from an      *)
(* index, and in the order that they had from a sort of the code.          *)
(***************************************************************************)
EXTENDS Integers, Sequences, FiniteSets
LOCAL INSTANCE SequencesExt

CONSTANTS Chunks, Messages,
          Scores,    \* of the similarity to a query; 0 is the worst
          Boosts,    \* of the recency, the weight already applied
          OverFetch, \* the factor by which top_k is exceeded, 5, and the minimum, 25
          TopKs

Penalty == 1000

ASSUME RankingAssumption ==
    /\ IsFiniteSet(Chunks) /\ IsFiniteSet(Messages)
    /\ Scores \subseteq Nat /\ Boosts \subseteq Nat /\ TopKs \subseteq Nat \ {0}
    /\ \A s \in Scores, b \in Boosts : s + b < Penalty
    /\ OverFetch \in [factor: Nat \ {0}, least: Nat]

VARIABLES memory,    \* the chunks indexed -> similarity, boost and state
          sessions,  \* message -> its scores, in the indexes that have it
          query,     \* the arguments of the search
          answer     \* its result, NoAnswer before

rankingVars == <<memory, sessions, query, answer>>

NoAnswer == [returned |-> FALSE]

\* The k best of S by Score, in some order of those that are equal.
IsBest(seq, S, k, Score(_)) ==
    /\ Len(seq) = (IF Cardinality(S) < k THEN Cardinality(S) ELSE k)
    /\ ToSet(seq) \subseteq S /\ Cardinality(ToSet(seq)) = Len(seq)
    /\ \A i, j \in DOMAIN seq : i < j => Score(seq[i]) >= Score(seq[j])
    /\ \A x \in S \ ToSet(seq), i \in DOMAIN seq : Score(seq[i]) >= Score(x)

Best(S, k, Score(_)) ==
    {seq \in UNION {[1..n -> S] : n \in 0..Cardinality(S)} : IsBest(seq, S, k, Score)}

\* A sort of the code, which is stable, by descending Score.
Ranked(seq, Score(_)) ==
    LET before(i, j) == \/ Score(seq[i]) > Score(seq[j])
                        \/ Score(seq[i]) = Score(seq[j]) /\ i < j
        order == SetToSortSeq(DOMAIN seq, before)
    IN [i \in DOMAIN seq |-> seq[order[i]]]

FirstOf(seq, k) == SubSeq(seq, 1, IF Len(seq) < k THEN Len(seq) ELSE k)

\* apply_temporal_ranking drops what is not yet valid and what is invalidated ...
Dropped(c) ==
    \/ memory[c].state = "future" /\ query.respectValidFrom
    \/ memory[c].state = "invalidated" /\ query.excludeInvalidated
         /\ ~query.includeInvalidated

\* ... and scores the rest: an exempt layer and a fresh file have the full boost.
FinalScore(c) ==
    memory[c].cosine + memory[c].boost
      - (IF memory[c].state = "invalidated" THEN Penalty ELSE 0)

Fetched(k) ==
    IF k * OverFetch.factor > OverFetch.least THEN k * OverFetch.factor ELSE OverFetch.least

\* As if the first copy were kept, whatever its score.
FirstCopy(list, m) ==
    LET copies == {i \in DOMAIN list : list[i].message = m}
    IN CHOOSE i \in copies : \A j \in copies : i <= j

\* The copy with the higher score, the keyword's when they are equal.
KeptCopy(list, m) ==
    LET copies == {i \in DOMAIN list : list[i].message = m}
    IN CHOOSE i \in copies :
         \A j \in copies : \/ list[i].score > list[j].score
                           \/ list[i].score = list[j].score /\ i <= j

\* _merge_session_hits: a dict keyed by message, in the order of first insertion.
MergeHits(fts, vec, k) ==
    LET list == fts \o vec
        IsFirst(i) == \A j \in 1..(i - 1) : list[j].message # list[i].message
        firsts == SetToSortSeq({i \in DOMAIN list : IsFirst(i)}, LAMBDA i, j : i < j)
        merged == [n \in DOMAIN firsts |-> list[KeptCopy(list, list[firsts[n]].message)]]
    IN FirstOf(Ranked(merged, LAMBDA hit : hit.score), k)

Hits(seq, index) ==
    [i \in DOMAIN seq |-> [message |-> seq[i], score |-> sessions[seq[i]][index]]]

In(index) == {m \in Messages : sessions[m][index] >= 0}

\* search_all.
SearchAll ==
    /\ answer = NoAnswer
    /\ \E raw \in Best(DOMAIN memory, Fetched(query.k), LAMBDA c : memory[c].cosine),
          fts \in Best(In("fts"), query.k, LAMBDA m : sessions[m].fts),
          vec \in Best(In("vec"), query.k, LAMBDA m : sessions[m].vec) :
         LET kept == SelectSeq(raw, LAMBDA c : ~Dropped(c))
         IN answer' =
              [returned |-> TRUE,
               memory |-> IF query.source = "sessions" THEN <<>>
                          ELSE FirstOf(Ranked(kept, FinalScore), query.k),
               filtered |-> IF query.source = "sessions" THEN 0 ELSE Len(raw) - Len(kept),
               sessions |-> IF query.source = "memory" THEN <<>>
                            ELSE MergeHits(Hits(fts, "fts"), Hits(vec, "vec"),
                                           query.k)]
    /\ UNCHANGED <<memory, sessions, query>>

\* is_promotion_candidate.
IsPromotionCandidate ==
    /\ query.source # "sessions"
    /\ answer.memory = <<>> /\ answer.filtered = 0 /\ answer.sessions # <<>>

\* One of the indexes varies, the other holds little.
RankingInit ==
    /\ query \in [source: {"memory", "sessions", "all"}, k: TopKs, includeInvalidated: BOOLEAN,
                  excludeInvalidated: BOOLEAN, respectValidFrom: BOOLEAN]
    /\ \/ /\ query.source # "sessions"
          /\ \E S \in SUBSET Chunks :
               memory \in [S -> [cosine: Scores, boost: Boosts,
                                state: {"live", "invalidated", "future"}]]
          /\ \E found \in {-1, 0} : sessions = [m \in Messages |-> [fts |-> found, vec |-> -1]]
       \/ /\ query.source # "memory"
          /\ memory = [c \in {} |-> 0]
          /\ sessions \in [Messages -> [fts: Scores \union {-1}, vec: Scores \union {-1}]]
    /\ answer = NoAnswer

RankingSpec == RankingInit /\ [][SearchAll]_rankingVars

-----------------------------------------------------------------------------

Indexed == DOMAIN memory
Eligible == {c \in Indexed : ~Dropped(c)}

\* As many chunks as are fetched are as near to the query as c.
Crowded(c) ==
    Cardinality({d \in Indexed \ {c} : memory[d].cosine >= memory[c].cosine}) >= Fetched(query.k)

\* The score that a merge of the whole lists would rank a message by.
BestScore(m) ==
    IF sessions[m].fts > sessions[m].vec THEN sessions[m].fts ELSE sessions[m].vec

\* Fetching more than is asked for makes up for what is filtered: an eligible chunk
\* is missing only if the answer is full of chunks ranked as high, or if it was
\* crowded out of what is fetched, and no live chunk comes after an invalidated
\* one.  Cutting the two session lists before they are merged loses nothing: the
\* answer is one that whole lists give.  And a topic is a promotion candidate only
\* when the curated index has nothing at all, not even what is filtered
\* (search_combined.py:40-80, 83-134).
SearchKeepsBest ==
    answer.returned =>
      LET shown == ToSet(answer.memory)
          found == In("fts") \union In("vec")
      IN /\ query.source # "sessions" =>
              /\ shown \subseteq Eligible /\ Cardinality(shown) = Len(answer.memory)
              /\ \A c \in Eligible \ shown :
                   \/ Crowded(c)
                   \/ /\ Len(answer.memory) = query.k
                      /\ \A d \in shown : FinalScore(d) >= FinalScore(c)
              /\ \A i, j \in DOMAIN answer.memory :
                   (i < j /\ memory[answer.memory[j]].state # "invalidated")
                     => memory[answer.memory[i]].state # "invalidated"
         /\ query.source # "memory" =>
              /\ IsBest([i \in DOMAIN answer.sessions |-> answer.sessions[i].message],
                        found, query.k, BestScore)
              /\ \A i \in DOMAIN answer.sessions :
                   answer.sessions[i].score = BestScore(answer.sessions[i].message)
         /\ IsPromotionCandidate <=> (query.source = "all" /\ Indexed = {} /\ found # {})
=============================================================================
