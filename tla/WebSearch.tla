------------------------------ MODULE WebSearch ------------------------------
(***************************************************************************)
(* smartsearch, from doWebSearch (mcp/tool_search.go) over the cache       *)
(* (module SearchCache): the lookups, the engine and its Bing fallback,    *)
(* the fetching of page bodies, the summary and the store; and the         *)
(* background summaries asyncSummarize starts on a hit.  Concurrent calls  *)
(* ask for the same words; academic calls store rows of their own, whose   *)
(* key may be spelled like a web key.                                      *)
(*                                                                         *)
(* A result list is what the properties tell apart: whether page bodies    *)
(* were fetched ("yes": every result to be fetched has its body, a note    *)
(* why there is none, or long content of its own; "cut": the client        *)
(* cancelled, and what was not fetched has neither), and whether it is     *)
(* academic.  Results without a URL have nothing to fetch.  The clock      *)
(* stands still (MaxTime = 0), so that any row of a query may be the one   *)
(* hit last; rows go by Clear at any time.  How a summary is streamed is   *)
(* the subject of module SummaryStream.                                    *)
(***************************************************************************)
EXTENDS SearchCache, FiniteSets

CONSTANTS
  AcademicKeys, \* the keys academic calls have in common with web calls
  FetchModes  \* values of fetch_top_n: TRUE for 1 to 5, FALSE for 0

\* Concurrent callers, each calling again and again.
Requests == Readers

VARIABLES
  pc,     \* pc[r]: where the call of r is
  ask,    \* ask[r]: the parameters of the call
  list,   \* list[r]: the result list in hand
  answer, \* answer[r]: the last answer of r
  tasks   \* the background summaries running

vars == <<cacheVars, pc, ask, list, answer, tasks>>

\* webSearchCacheQuery: bodies have a key of their own.
CacheQuery(fetch) == IF fetch THEN "query|fetch_top_n" ELSE "query"

ASSUME WebSearchAssumption ==
  /\ Queries = {"query", "query|fetch_top_n"}
  /\ AcademicKeys \subseteq Queries
  /\ FetchModes \subseteq BOOLEAN

Results(body, academic) == [body |-> body, academic |-> academic]
Plain == Results("no", FALSE)
Summary(intent, results) == [for |-> intent, from |-> results]
Raw(results) == [kind |-> "raw", of |-> results]
Summed(summary) == [kind |-> "summary", of |-> summary]
Failure == [kind |-> "error", of |-> Plain]
NoAnswer == [kind |-> "none", of |-> Plain]

Params == [intent : Intents \cup {NoIntent}, fetch : FetchModes]
RowKey(params) == <<CacheQuery(params.fetch), params.intent, FALSE>>
PlainKey(params) == <<CacheQuery(FALSE), params.intent, FALSE>>

Init ==
  /\ SCInit
  /\ pc = [r \in Requests |-> "idle"]
  /\ ask = [r \in Requests |-> [intent |-> NoIntent, fetch |-> FALSE]]
  /\ list = [r \in Requests |-> Plain]
  /\ answer = [r \in Requests |-> NoAnswer]
  /\ tasks = {}

Goto(r, label) == pc' = [pc EXCEPT ![r] = label]

Reply(r, a) ==
  /\ Goto(r, "idle")
  /\ answer' = [answer EXCEPT ![r] = a]
  /\ list' = [list EXCEPT ![r] = Plain]

Call(r, params) ==
  /\ pc[r] = "idle"
  /\ ask' = [ask EXCEPT ![r] = params]
  /\ answer' = [answer EXCEPT ![r] = NoAnswer]
  /\ Goto(r, "lookup")
  /\ Ask(r, RowKey(params))
  /\ UNCHANGED <<rows, stillVars, list, tasks>>

-----------------------------------------------------------------------------
(* The cache                                                               *)

\* A statement of the lookup of r.
LookUp(r) ==
  /\ Seek(r)
  /\ UNCHANGED <<stillVars, pc, ask, list, answer, tasks>>

\* The lookup has returned a web row of this type.
Served(r, type) == look[r].at = "hit" /\ ~ look[r].academic /\ look[r].type = type

\* The record of the lookup is taken, or dropped.
Took(r) ==
  /\ look' = [look EXCEPT ![r] = NoLook]
  /\ UNCHANGED <<rows, stillVars>>

\* go asyncSummarize: for an intent, when the row had no summary.
Background(r) ==
  IF ask[r].intent # NoIntent /\ look[r].summary = NoSummary
    THEN tasks' = tasks \cup {[query |-> CacheQuery(ask[r].fetch), intent |-> ask[r].intent,
                               results |-> look[r].results]}
    ELSE UNCHANGED tasks

\* finishCachedWebSearch: a hit is answered with its summary, if the summary
\* is for this intent, and with its raw results otherwise.
LookUpHit(r) ==
  /\ pc[r] = "lookup"
  /\ \/ /\ Served(r, "exact_intent")
        /\ Reply(r, Summed(look[r].summary)) /\ UNCHANGED tasks
     \/ /\ Served(r, "query_only")
        /\ Reply(r, Raw(look[r].results)) /\ Background(r)
  /\ Took(r)
  /\ UNCHANGED ask

\* No row, an error, an academic row, or a list that cannot be parsed or
\* formatted: a call with bodies tries the plain rows next.
LookUpMiss(r) ==
  /\ pc[r] = "lookup"
  /\ \/ look[r].at = "miss"
     \/ look[r].at = "hit" /\ look[r].academic
     \/ Served(r, "query_only")
  /\ IF ask[r].fetch
       THEN /\ Goto(r, "lookup2") /\ Ask(r, PlainKey(ask[r]))
            /\ UNCHANGED <<rows, stillVars>>
       ELSE Goto(r, "search") /\ Took(r)
  /\ UNCHANGED <<ask, list, answer, tasks>>

\* A plain hit without a summary of its own: its bodies are fetched.
LookUpPlain(r) ==
  /\ pc[r] = "lookup2"
  /\ Served(r, "query_only")
  /\ list' = [list EXCEPT ![r] = look[r].results]
  /\ Goto(r, "enrich")
  /\ Took(r)
  /\ UNCHANGED <<ask, answer, tasks>>

\* None, or one that is academic, has a summary of its own, or cannot be
\* parsed: the call searches.
LookUpPlainMiss(r) ==
  /\ pc[r] = "lookup2"
  /\ look[r].at \in {"hit", "miss"}
  /\ Goto(r, "search")
  /\ Took(r)
  /\ UNCHANGED <<ask, list, answer, tasks>>

-----------------------------------------------------------------------------
(* The search                                                              *)

Search(r) ==
  /\ pc[r] = "search"
  /\ \/ /\ list' = [list EXCEPT ![r] = Plain]
        /\ Goto(r, "enrich") /\ UNCHANGED answer
     \/ Goto(r, "bing") /\ UNCHANGED <<list, answer>>
  /\ UNCHANGED <<cacheVars, ask, tasks>>

\* The fallback engine.
Bing(r) ==
  /\ pc[r] = "bing"
  /\ \/ /\ list' = [list EXCEPT ![r] = Plain]
        /\ Goto(r, "enrich") /\ UNCHANGED answer
     \/ Reply(r, Failure)
  /\ UNCHANGED <<cacheVars, ask, tasks>>

Enriched(r, body) ==
  /\ pc[r] = "enrich"
  /\ list' = [list EXCEPT ![r].body = body]
  /\ Goto(r, IF ask[r].intent # NoIntent THEN "summarize" ELSE "store")
  /\ UNCHANGED <<cacheVars, ask, answer, tasks>>

\* Fault: results that come from the cache are not enriched.
Enrich_SearchedOnly(r) ==
  IF ask[r].fetch /\ PlainKey(ask[r]) \notin Present
    THEN \E body \in {"yes", "cut"} : Enriched(r, body) ELSE Enriched(r, "no")

\* enrichFetchedTopN: a fetch that has not begun when the client cancels the
\* call is skipped; the call goes on.
Enrich(r) ==
  IF ask[r].fetch
    THEN \E body \in {"yes", "cut"} : Enriched(r, body) ELSE Enriched(r, "no")

\* finishWebSearch: the summary is stored and answered; when the stream and
\* the plain call have failed, the raw results.
Summarize(r) ==
  /\ pc[r] = "summarize"
  /\ \/ LET summary == Summary(ask[r].intent, list[r]) IN
          /\ Store(RowKey(ask[r]), list[r], summary)
          /\ Reply(r, Summed(summary))
          /\ UNCHANGED stillVars
     \/ Goto(r, "store") /\ UNCHANGED <<cacheVars, list, answer>>
  /\ UNCHANGED <<ask, tasks>>

\* The raw results are stored and answered, unless they cannot be formatted.
StoreRaw(r) ==
  /\ pc[r] = "store"
  /\ \/ /\ Store(RowKey(ask[r]), list[r], NoSummary)
        /\ Reply(r, Raw(list[r]))
        /\ UNCHANGED stillVars
     \/ Reply(r, Failure) /\ UNCHANGED cacheVars
  /\ UNCHANGED <<ask, tasks>>

\* A background summary ends; it, or its UPDATE, may fail.
AsyncSummarize(t) ==
  /\ t \in tasks
  /\ tasks' = tasks \ {t}
  /\ \/ UpdateSummary(t.query, t.intent, Summary(t.intent, t.results))
     \/ UNCHANGED rows
  /\ UNCHANGED <<stillVars, look, pc, ask, list, answer>>

\* doAcademicSearch stores its results, without intent or summary.
AcademicStore ==
  /\ \E q \in AcademicKeys : Store(<<q, NoIntent, TRUE>>, Results("no", TRUE), NoSummary)
  /\ UNCHANGED <<stillVars, pc, ask, list, answer, tasks>>

Empty == Wipe /\ UNCHANGED <<pc, ask, list, answer, tasks>>

Step(r) ==
  \/ LookUp(r) \/ LookUpHit(r) \/ LookUpMiss(r) \/ LookUpPlain(r) \/ LookUpPlainMiss(r)
  \/ Search(r) \/ Bing(r) \/ Enrich(r) \/ Summarize(r) \/ StoreRaw(r)

Next ==
  \/ \E r \in Requests : Step(r) \/ \E p \in Params : Call(r, p)
  \/ \E t \in tasks : AsyncSummarize(t)
  \/ AcademicStore \/ Empty

Spec == Init /\ [][Next]_vars

-----------------------------------------------------------------------------
\* A row under a key for bodies went through the fetch, so that a list of a
\* call without is never taken for a complete hit, and a call is answered with
\* a list that went through the fetch if, and only if, it asked for one; no
\* web answer comes from academic results and no academic row gets a summary:
\* from whatever row, lookup or background task it comes.  (A cancelled call
\* leaves a row cut short, which is served as complete.)
ResultsFitTheCall ==
  /\ \A k \in Present : ~ k[3] => (rows[k].results.body = "no" <=> k[1] # CacheQuery(TRUE))
  /\ \A k \in Present : k[3] => rows[k].summary = NoSummary
  /\ \A r \in Requests : answer[r].kind \in {"raw", "summary"} =>
       LET served == IF answer[r].kind = "raw" THEN answer[r].of ELSE answer[r].of.from
       IN  ~ served.academic /\ (served.body = "no" <=> ~ ask[r].fetch)

\* A summary is answered only to the intent it was written for, also when a
\* background task fills a row that other calls replaced meanwhile.
SummaryFitsIntent ==
  \A r \in Requests :
    answer[r].kind = "summary" => answer[r].of.for = ask[r].intent

=============================================================================
