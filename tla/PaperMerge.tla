------------------------------ MODULE PaperMerge ------------------------------
(***************************************************************************)
(* The answer of an academicsearch call from the lists of its engines      *)
(* (pkg/search/adapter/academic_adapter.go, pkg/search/enhance/            *)
(* academic_enhance.go, pkg/antirobot/types.go).  A paper has a DOI and a  *)
(* url, either of which may be missing; two results are one paper when     *)
(* either agrees.  With scoring on, the papers are merged, scored and      *)
(* filtered; without it, they are deduplicated and sorted by the engines'  *)
(* own scores, brought to a common scale.                                  *)
(***************************************************************************)
EXTENDS Ranking, FiniteSetsExt

CONSTANTS
  PaperLists,  \* what the engines of a call may return: tuples of lists
  NoDoi,       \* a missing DOI; a missing url is NoKey
  PaperScores, \* scores the pipeline may compute
  MinPaperScore \* its threshold

VARIABLES
  papers,   \* papers[e]: the results of engine e, <<>> when it failed
  todo,     \* the results the merge has still to take
  merged,   \* the entries so far, each [doi, url, from], and by which DOI and
            \* url the loop finds them
  ranked    \* the answer, or Unranked

paperVars == <<papers, todo, merged, ranked>>

Unranked == <<>>
NoPapers == <<>>
Empty == [order |-> <<>>, byDOI |-> [d \in {} |-> 0], byURL |-> [u \in {} |-> 0]]

PMInit == papers = NoPapers /\ todo = <<>> /\ merged = Empty /\ ranked = Unranked

-----------------------------------------------------------------------------
\* The merge, one result after another: byDOI and byURL say which entry a DOI
\* or a url was last seen with, and a DOI is looked up first.
\* Fault: the url is looked up first.
EntryOf_UrlFirst(m, r) ==
  CASE r.url \in DOMAIN m.byURL -> m.byURL[r.url]
    [] r.doi \in DOMAIN m.byDOI /\ r.url \notin DOMAIN m.byURL -> m.byDOI[r.doi]
    [] OTHER -> Len(m.order) + 1

EntryOf(m, r) ==
  CASE r.doi \in DOMAIN m.byDOI -> m.byDOI[r.doi]
    [] r.url \in DOMAIN m.byURL /\ r.doi \notin DOMAIN m.byDOI -> m.byURL[r.url]
    [] OTHER -> Len(m.order) + 1

Put(f, key, none, v) == IF key = none THEN f ELSE [k \in DOMAIN f \cup {key} |-> IF k = key THEN v ELSE f[k]]

\* A new entry, or one that gains the DOI it lacked.
AddTo(order, n, r) ==
  IF n > Len(order) THEN Append(order, [doi |-> r.doi, url |-> r.url, from |-> {r}])
  ELSE [order EXCEPT ![n].from = @ \cup {r}, ![n].doi = IF @ = NoDoi THEN r.doi ELSE @]

MergeOne(m, r) ==
  IF r.doi = NoDoi /\ r.url = NoKey THEN m
  ELSE LET n == EntryOf(m, r)
       IN [order |-> AddTo(m.order, n, r),
           byDOI |-> Put(m.byDOI, r.doi, NoDoi, n),
           byURL |-> Put(m.byURL, r.url, NoKey, n)]

KeysOf(p) == (IF p.doi = NoDoi THEN {} ELSE {<<"doi", p.doi>>})
               \cup (IF p.url = NoKey THEN {} ELSE {<<"url", p.url>>})

-----------------------------------------------------------------------------
\* Above the threshold, first overall, or known by a key of some engine's
\* first result; s is sorted, and what stays keeps its order.
PaperFloor(s, lists) ==
  LET firsts == UNION {KeysOf(lists[e][1]) : e \in {f \in DOMAIN lists : lists[f] # <<>>}}
  IN Pick(s, {i \in DOMAIN s : i = 1 \/ s[i].score >= MinPaperScore \/ KeysOf(s[i]) \cap firsts # {}})

\* An engine that returns scores ranks its list by them before the merge.
Buckets(lists) == [e \in DOMAIN lists |-> IF Scored(lists[e]) THEN ByScore(lists[e]) ELSE lists[e]]

ScoredPapers(order, f) ==
  ByScore([i \in DOMAIN order |-> [doi |-> order[i].doi, url |-> order[i].url, score |-> f[i]]])

-----------------------------------------------------------------------------
\* Without scoring: duplicates are results with the same DOI or, where both
\* lack one, the same url.
ResultKey(r) == IF r.doi = NoDoi THEN <<"url", r.url>> ELSE <<"doi", r.doi>>

\* The score of the i-th result, a fraction: of the best of its engine where
\* that returns scores, else one over its place in the engine's list.
CommonScale(s) ==
  [i \in DOMAIN s |->
     LET own == {j \in DOMAIN s : s[j].engine = s[i].engine}
         top == Max({s[j].score : j \in own})
     IN IF top > 0 THEN <<s[i].score, top>>
        ELSE <<1, Cardinality({j \in own : j <= i})>>]

PlainPapers(lists) ==
  LET all == FirstPer(ResultKey, Flat(lists))
      scale == CommonScale(all)
      lead(i, j) == scale[i][1] * scale[j][2] - scale[j][1] * scale[i][2]
  IN Arranged(all, {p \in (DOMAIN all) \X (DOMAIN all) :
                      lead(p[1], p[2]) > 0 \/ (lead(p[1], p[2]) = 0 /\ p[1] <= p[2])})

-----------------------------------------------------------------------------
\* The engines have answered or failed; scoring is on, and their results are
\* to be merged in the order of the engines, or it is off.
PapersReturn ==
  /\ papers = NoPapers
  /\ papers' \in PaperLists
  /\ \/ todo' = Flat(Buckets(papers')) /\ UNCHANGED ranked
     \/ todo' = <<>> /\ ranked' = PlainPapers(papers')
  /\ UNCHANGED merged

MergePaper ==
  /\ todo # <<>>
  /\ merged' = MergeOne(merged, Head(todo))
  /\ todo' = Tail(todo)
  /\ UNCHANGED <<papers, ranked>>

RankPapers ==
  /\ todo = <<>> /\ merged # Empty /\ ranked = Unranked
  /\ \E f \in [DOMAIN merged.order -> PaperScores] :
       ranked' = PaperFloor(ScoredPapers(merged.order, f), Buckets(papers))
  /\ UNCHANGED <<papers, todo, merged>>

PMNext == PapersReturn \/ MergePaper \/ RankPapers

PMSpec == PMInit /\ [][PMNext]_paperVars

-----------------------------------------------------------------------------
\* Scoring puts every result into one entry, all results with one DOI into the
\* same, and no two entries show a DOI or a url of each other.
PapersMergedOnce ==
  LET entries == merged.order
  IN \A i, j \in DOMAIN entries : i # j =>
       /\ KeysOf(entries[i]) \cap KeysOf(entries[j]) = {}
       /\ \A r \in entries[i].from, t \in entries[j].from : r.doi = t.doi => r.doi = NoDoi

=============================================================================
