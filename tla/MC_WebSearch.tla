----------------------------- MODULE MC_WebSearch -----------------------------
EXTENDS WebSearch, TLC
CONSTANTS r1, r2, i1, i2, none, summaryless
MCQueries == {"query", "query|fetch_top_n"}
Symmetry == Permutations(Requests)

\* Plain lists of results, without bodies.
MCContents == {Plain}

\* The calls of WebSearch while the clock stands still: without bodies, for
\* any intent; with bodies or without, for one; and with bodies that may be
\* cut.  Or the cache in time: the rows of one query, by intent.
VARIABLE part
Parts == {"intents", "bodies", "cuts", "time"}

MCParams ==
  CASE part = "intents" -> [intent : Intents \cup {NoIntent}, fetch : {FALSE}]
    [] part = "bodies"  -> [intent : {i1, NoIntent}, fetch : FetchModes]
    [] part = "cuts"    -> [intent : {i1}, fetch : {TRUE}]
    [] part = "time"    -> {}

AgeKeys == {<<"query", i, FALSE>> : i \in {i1, NoIntent}}

MCInit == Init /\ part \in Parts

MCNext ==
  /\ UNCHANGED part
  /\ \/ /\ part # "time" /\ Next
        /\ \A r \in Requests : ask'[r] # ask[r] => ask'[r] \in MCParams
        /\ part # "cuts" => \A r \in Requests : list'[r].body # "cut"
     \/ part = "time" /\ SCNext(AgeKeys) /\ UNCHANGED <<pc, ask, list, answer, tasks>>

MCSpec == MCInit /\ [][MCNext]_<<vars, part>>
=============================================================================
