------------------------------- MODULE Ranking -------------------------------
(***************************************************************************)
(* How the results of several engines become one list: the plain merge of  *)
(* pkg/search/hybrid/hybrid.go and the scoring of pkg/search/enhance       *)
(* (enhance.go, mmr.go).  A result is a record [url, engine, score]; the   *)
(* floating-point scores the pipeline computes from the texts are an       *)
(* argument, any function of the merged results.                           *)
(***************************************************************************)
EXTENDS Integers, Sequences, FiniteSets

CONSTANTS
  Key(_),          \* normalizeURLKey: what two spellings of a URL have in common
  NoKey,           \* the key of the empty URL
  DefaultEngineMax \* defaultEngineMaxSize

Take(s, n) == SubSeq(s, 1, IF n < Len(s) THEN n ELSE Len(s))

\* The elements of S, from the first in the order R to the last.
InOrder(S, R) ==
  LET rank == [x \in S |-> Cardinality({y \in S : <<y, x>> \in R})]
  IN [k \in 1..Cardinality(S) |-> CHOOSE x \in S : rank[x] = k]

\* The elements of s at some of its indexes, and s in another order of them.
Pick(s, ix) ==
  LET at == InOrder(ix, {p \in ix \X ix : p[1] <= p[2]}) IN [k \in DOMAIN at |-> s[at[k]]]
Arranged(s, R) == LET at == InOrder(DOMAIN s, R) IN [k \in DOMAIN at |-> s[at[k]]]

\* Lists one after another.
Lexicographic(S) ==
  {p \in S \X S : p[1][1] < p[2][1] \/ (p[1][1] = p[2][1] /\ p[1][2] <= p[2][2])}
Flat(lists) ==
  LET places == UNION {{e} \X (DOMAIN lists[e]) : e \in DOMAIN lists}
      at == InOrder(places, Lexicographic(places))
  IN [k \in DOMAIN at |-> lists[at[k][1]][at[k][2]]]

\* The first result of each url (or key) stays.
FirstPer(id(_), s) == Pick(s, {i \in DOMAIN s : \A j \in 1..(i-1) : id(s[j]) # id(s[i])})
Url(r) == r.url
UrlKey(r) == Key(r.url)

Scored(s) == \E i \in DOMAIN s : s[i].score > 0

\* By the scores; equal ones keep their order, as in the short lists there are.
HigherFirst(s) ==
  {p \in (DOMAIN s) \X (DOMAIN s) :
     \/ s[p[1]].score > s[p[2]].score
     \/ s[p[1]].score = s[p[2]].score /\ p[1] <= p[2]}
ByScore(s) == Arranged(s, HigherFirst(s))

-----------------------------------------------------------------------------
\* One engine: the minimum score is for engines that return scores, and
\* engines that return none share the room in the answer.
AboveMinimum(minScore, s) ==
  IF minScore > 0 /\ Scored(s) THEN Pick(s, {i \in DOMAIN s : s[i].score >= minScore}) ELSE s

Share(maxSize, engines) == (maxSize + engines - 1) \div engines

EngineRoom(conf, e, s) ==
  LET own == IF conf.max[e] = 0 THEN DefaultEngineMax ELSE conf.max[e]
      share == Share(conf.maxSize, Len(conf.max))
  IN IF ~conf.enhance /\ conf.maxSize > 0 /\ ~Scored(s) /\ share < own THEN share ELSE own

Bucket(conf, e, s) ==
  LET unique == AboveMinimum(conf.min[e], FirstPer(Url, s))
  IN Take(unique, EngineRoom(conf, e, unique))

-----------------------------------------------------------------------------
\* What place a result has among those of its engine.
PlaceOf(s, i) == Cardinality({j \in 1..i : s[j].engine = s[i].engine})

\* Fault: the list is cut where it stands.
RoundRobin_Head(s, limit) == Take(s, limit)

\* The first results of the engines, then the second ones, and so on.
InRounds(s) ==
  {p \in (DOMAIN s) \X (DOMAIN s) :
     \/ PlaceOf(s, p[1]) < PlaceOf(s, p[2])
     \/ PlaceOf(s, p[1]) = PlaceOf(s, p[2]) /\ s[p[1]].engine <= s[p[2]].engine}
RoundRobin(s, limit) == Take(Arranged(s, InRounds(s)), limit)

\* Fault: pages are told apart within an engine only.
PlainMerge_WithinEngine(conf, buckets) ==
  LET merged == Flat(buckets)
  IN IF conf.maxSize = 0 \/ Len(merged) <= conf.maxSize THEN merged
     ELSE IF Scored(merged) THEN Take(ByScore(merged), conf.maxSize)
     ELSE RoundRobin(merged, conf.maxSize)

\* The merge without scoring: buckets in the order of the engines.
PlainMerge(conf, buckets) ==
  LET merged == FirstPer(Url, Flat(buckets))
  IN IF conf.maxSize = 0 \/ Len(merged) <= conf.maxSize THEN merged
     ELSE IF Scored(merged) THEN Take(ByScore(merged), conf.maxSize)
     ELSE RoundRobin(merged, conf.maxSize)

-----------------------------------------------------------------------------
\* The best result always stays, and a second one where there is one.
ScoreFloor(threshold, s) ==
  LET above == {i \in 2..Len(s) : s[i].score >= threshold}
  IN IF above = {} THEN Take(s, 2) ELSE Pick(s, {1} \cup above)

\* The reranking keeps the head and picks the others by relevance and
\* dissimilarity: here in any order.
Reranked(target, s) ==
  LET n == IF target = 0 \/ target > Len(s) THEN Len(s) ELSE target
  IN IF Len(s) <= 1 THEN {s}
     ELSE {[i \in 1..n |-> s[p[i]]] :
             p \in {q \in [1..n -> 1..Len(s)] :
                      q[1] = 1 /\ \A i, j \in 1..n : q[i] = q[j] => i = j}}

\* The lists the scoring may return for some score of each merged result; a
\* result whose url has no key is dropped.
EnhancedMerges(conf, buckets, Scores) ==
  LET all == Flat(buckets)
      keyed == Pick(all, {i \in DOMAIN all : UrlKey(all[i]) # NoKey})
      merged == FirstPer(UrlKey, keyed)
      scored == {ByScore([i \in DOMAIN merged |-> [merged[i] EXCEPT !.score = f[i]]]) :
                   f \in [DOMAIN merged -> Scores]}
      floored == {ScoreFloor(conf.threshold, s) : s \in scored}
      diverse == IF conf.mmr THEN UNION {Reranked(conf.target, s) : s \in floored} ELSE floored
  IN IF conf.maxSize > 0 THEN {Take(s, conf.maxSize) : s \in diverse} ELSE diverse
=============================================================================
