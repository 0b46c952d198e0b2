----------------------------- MODULE HybridSearch -----------------------------
(***************************************************************************)
(* The hybrid search (pkg/search/hybrid/hybrid.go): one goroutine per      *)
(* engine, each of which records its event and sends its outcome to a      *)
(* channel with room for all; the search waits for all goroutines, closes  *)
(* the channel and merges what it holds.                                   *)
(***************************************************************************)
EXTENDS Ranking, SequencesExt

CONSTANTS
  Confs,       \* configurations: max, min per engine, maxSize, enhance, ...
  Urls,        \* the urls of pages
  Lists(_,_),  \* Lists(n, e): what engine e of n may return, urls with scores
  Scores,      \* scores the pipeline may compute
  Failed       \* an outcome that is no list; also the answer of a failed search

Results == [url : Urls, engine : Nat, score : Nat]

ASSUME HybridAssumption ==
  /\ DefaultEngineMax \in Nat \ {0}
  /\ Scores \subseteq Nat
  /\ Failed \notin Seq(Results)
  /\ \A c \in Confs :
       /\ c.max \in Seq(Nat) /\ c.min \in Seq(Nat) /\ Len(c.min) = Len(c.max)
       /\ {c.maxSize, c.threshold, c.target} \subseteq Nat
       /\ {c.enhance, c.mmr} \subseteq BOOLEAN
       /\ \A e \in DOMAIN c.max : Lists(Len(c.max), e) \subseteq Seq(Urls \X Nat)

VARIABLES
  conf,      \* the configuration
  pc,        \* pc[e]: "idle", "search", "record", "send" or "done"
  outcome,   \* outcome[e]: a result list or Failed
  recorded,  \* the engines with an event in the telemetry store
  channel,   \* the engines whose outcomes are in the channel
  search,    \* "idle", "wait", "merge" or "done"
  answer     \* the merged list, or Failed

vars == <<conf, pc, outcome, recorded, channel, search, answer>>

Engines == DOMAIN conf.max
None == <<>>

Init ==
  /\ conf \in Confs
  /\ pc = [e \in Engines |-> "idle"]
  /\ outcome = [e \in Engines |-> Failed]
  /\ recorded = {}
  /\ channel = <<>>
  /\ search = "idle"
  /\ answer = None

\* A list of urls and scores becomes the results of engine e.
ResultsOf(e, list) == [i \in DOMAIN list |-> [url |-> list[i][1], engine |-> e, score |-> list[i][2]]]

Start ==
  /\ search = "idle"
  /\ search' = "wait"
  /\ pc' = [e \in Engines |-> "search"]
  /\ UNCHANGED <<conf, outcome, recorded, channel, answer>>

Return(e) ==
  /\ pc[e] = "search"
  /\ outcome' = [outcome EXCEPT ![e] = Failed] \/
     \E list \in Lists(Len(conf.max), e) : outcome' = [outcome EXCEPT ![e] = ResultsOf(e, list)]
  /\ pc' = [pc EXCEPT ![e] = "record"]
  /\ UNCHANGED <<conf, recorded, channel, search, answer>>

RecordEvent(e) ==
  /\ pc[e] = "record"
  /\ recorded' = recorded \cup {e}
  /\ pc' = [pc EXCEPT ![e] = "send"]
  /\ UNCHANGED <<conf, outcome, channel, search, answer>>

Room == Len(conf.max)

\* The send, and the deferred wg.Done.
Send(e) ==
  /\ pc[e] = "send"
  /\ Len(channel) < Room
  /\ channel' = Append(channel, e)
  /\ pc' = [pc EXCEPT ![e] = "done"]
  /\ UNCHANGED <<conf, outcome, recorded, search, answer>>

\* wg.Wait, close
Wait ==
  /\ search = "wait"
  /\ \A e \in Engines : pc[e] = "done"
  /\ search' = "merge"
  /\ UNCHANGED <<conf, pc, outcome, recorded, channel, answer>>

\* The successes in the channel, in the order of the configuration.
Successes ==
  LET S == {e \in ToSet(channel) : outcome[e] # Failed}
  IN InOrder(S, {p \in S \X S : p[1] <= p[2]})
EngineBuckets ==
  LET order == Successes IN [i \in DOMAIN order |-> Bucket(conf, order[i], outcome[order[i]])]

OrFailed(list) == IF list = <<>> THEN Failed ELSE list

Answers(buckets) ==
  IF conf.enhance THEN {OrFailed(s) : s \in EnhancedMerges(conf, buckets, Scores)}
  ELSE {OrFailed(PlainMerge(conf, buckets))}

Merge ==
  /\ search = "merge"
  /\ \E buckets \in {EngineBuckets} : answer' \in Answers(buckets)
  /\ search' = "done"
  /\ UNCHANGED <<conf, pc, outcome, recorded, channel>>

Next ==
  \/ Start \/ Wait \/ Merge
  \/ \E e \in Engines : Return(e) \/ RecordEvent(e) \/ Send(e)

Spec == Init /\ [][Next]_vars

-----------------------------------------------------------------------------
Answered == search = "done" /\ answer # Failed

\* What the buckets hold without repetitions, before the list is cut.
Distinct == FirstPer(Url, Flat(EngineBuckets))
Count(s, e) == Cardinality({i \in DOMAIN s : s[i].engine = e})

\* An answer is no longer than configured and holds no page twice, whatever
\* engines returned it and, with scoring, however its url was spelt; a page is
\* credited to the first engine, in the order of the configuration, that
\* returned it, whichever engine was fastest.
AnswerIsClean ==
  Answered =>
    /\ conf.maxSize > 0 => Len(answer) <= conf.maxSize
    /\ \A i, j \in DOMAIN answer :
         LET id(r) == IF conf.enhance THEN UrlKey(r) ELSE Url(r)
         IN id(answer[i]) = id(answer[j]) => i = j
    /\ \A i \in DOMAIN answer, e \in Engines :
         (e < answer[i].engine /\ outcome[e] # Failed) =>
           \A r \in ToSet(Bucket(conf, e, outcome[e])) : r.url # answer[i].url

\* One engine whose first result of some page has the required score is enough,
\* whatever the others do, unless scoring drops all it has room for, which have
\* no url; without scores no engine is crowded out: one with two results
\* fewer than another in the answer had no further page of its own to give; and
\* scoring leaves two results where the engines gave two, unless fewer were
\* asked for.
EnginesAreHeard ==
  LET distinct == Distinct
      found == Cardinality({UrlKey(distinct[i]) : i \in DOMAIN distinct} \ {NoKey})
      asked == {n \in {conf.maxSize, IF conf.mmr THEN conf.target ELSE 0} : n > 0}
  IN /\ (search = "done" /\ answer = Failed) =>
          \A e \in Engines : outcome[e] # Failed =>
            \/ \A i \in DOMAIN outcome[e] :
                 \/ \E j \in 1..(i-1) : outcome[e][j].url = outcome[e][i].url
                 \/ outcome[e][i].score < conf.min[e]
            \/ conf.enhance /\ \A r \in ToSet(Bucket(conf, e, outcome[e])) : UrlKey(r) = NoKey
     /\ (Answered /\ ~conf.enhance /\ ~Scored(distinct)) =>
          \A e, f \in Engines :
            Count(answer, f) >= Count(answer, e) + 2 => Count(answer, e) = Count(distinct, e)
     /\ (Answered /\ conf.enhance /\ found >= 2 /\ \A n \in asked : n >= 2) => Len(answer) >= 2

=============================================================================
