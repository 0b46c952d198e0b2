---------------------------- MODULE AcademicSearch ----------------------------
(***************************************************************************)
(* An academicsearch call, from doAcademicSearch (mcp/tool_academic.go)    *)
(* through SearchAcademicRaw (pkg/search/adapter/academic_adapter.go) to   *)
(* the parallel searcher (pkg/antirobot/searcher.go): the cache is asked;  *)
(* on a miss the range is written into the shared searcher and one job per *)
(* engine is spawned; a job waits for one of Concurrency slots, starts a   *)
(* goroutine that reads the range and calls the engine, and waits for it   *)
(* or for the timeout, which leaves the goroutine behind.  Papers without  *)
(* a PDF are then looked up in Unpaywall, through a gate all calls share   *)
(* (unpaywall.go); the responses are merged, recorded and stored.          *)
(*                                                                         *)
(* A query that is a DOI or an arXiv id (paperid.go) is looked up in one   *)
(* or two sources instead (lookup.go), of which the first to answer wins.  *)
(*                                                                         *)
(* Calls of a kind ask for the same words, DOI or id; the scoring of the   *)
(* results is the subject of modules PaperMerge and Ranking.               *)
(***************************************************************************)
EXTENDS Naturals, Sequences, FiniteSets

CONSTANTS
  Requests,    \* the calls, one after another or at the same time
  Engines,     \* the registered academic engines
  Concurrency, \* Searcher.Concurrency (5)
  GateSize,    \* the capacity of unpaywallGate (4)
  Ranges,      \* values of time_range, the empty one included
  NoRange,     \* TimeRangeNone, the initial one
  Pages,       \* values of page
  Names,       \* what engines may name: those registered, and others
  Enhance,     \* academic.enhance: the results then name their engines
  Papers,      \* results with a DOI and without a PDF
  Calls        \* the calls of a behaviour: functions from Requests to Params

Params == [kind : {"words", "doi", "arxiv"}, range : Ranges, page : Pages,
           engines : SUBSET Names,  \* {}: all
           papers : SUBSET Papers]  \* those its results will have

ASSUME ConcurrencyAssumption == Concurrency \in Nat \ {0} /\ GateSize \in Nat \ {0}
ASSUME EnhanceAssumption == Enhance \in BOOLEAN
ASSUME CallsAssumption == Engines \subseteq Names /\ Calls \subseteq [Requests -> Params]

VARIABLES
  timeRange, \* a.searcher.TimeRange, shared by all calls
  pc,        \* pc[r]: "new", "write", "spawn", "wait", "lookup", "enrich",
             \* "answered" or "failed"
  opt,       \* opt[r]: the parameters of the call
  job,       \* job[r][e]: "none", "queued", "slot" (execOne waits) or "done"
  engine,    \* engine[r][e]: its goroutine: "none", "started", "calling", "over"
  used,      \* used[r][e]: what the engine is searched with: no or one range and page
  resp,      \* resp[r][e]: "none", "results", "empty", "error" or "timeout"
  asked,     \* asked[r]: the sources a lookup waits for
  found,     \* found[r]: what the results came from, searched with what
  pdf,       \* pdf[r][p]: the search for a PDF: "none", "gate", "asking", "over"
  cache,     \* rows: key -> found
  answer,    \* answer[r]: what was found for it, by itself or by an earlier call
  recorded   \* recorded[r][e]: the provider event: "none", "ok" or "failed"

jobVars == <<job, engine, used, resp>>
callVars == <<jobVars, asked, found, pdf>>
endVars == <<cache, answer, recorded>>
vars == <<timeRange, pc, opt, callVars, endVars>>

Off == [e \in Engines |-> "none"]
Nothing == [k \in {} |-> <<>>]

Init ==
  /\ timeRange = NoRange
  /\ pc = [r \in Requests |-> "new"]
  /\ opt \in Calls
  /\ job = [r \in Requests |-> Off] /\ engine = [r \in Requests |-> Off]
  /\ resp = [r \in Requests |-> Off]
  /\ used = [r \in Requests |-> [e \in Engines |-> {}]]
  /\ asked = [r \in Requests |-> {}] /\ found = [r \in Requests |-> Nothing]
  /\ pdf = [r \in Requests |-> [p \in Papers |-> "none"]]
  /\ cache = Nothing
  /\ answer = [r \in Requests |-> Nothing]
  /\ recorded = [r \in Requests |-> Off]

Goto(r, label) == pc' = [pc EXCEPT ![r] = label]

\* query + "|" + timeRange + "|" + engines
CacheKey(r) == <<opt[r].kind, opt[r].range, opt[r].engines>>

\* Those named, or all.
Selected(r) == IF opt[r].engines = {} THEN Engines ELSE opt[r].engines \cap Engines

\* Fault: a searcher built for named engines takes the shared range.
RangeOf_Shared(r) == timeRange

\* s.TimeRange: a searcher built for named engines has its own.
RangeOf(r) == IF opt[r].engines = {} THEN timeRange ELSE opt[r].range

\* recordAcademicProviderEvents: one event for each engine given, or that has
\* a result, or an error.
Record(r, ran, failed) ==
  recorded' = [recorded EXCEPT ![r] = [e \in Engines |->
    IF e \in failed THEN "failed" ELSE IF e \in ran THEN "ok" ELSE "none"]]

-----------------------------------------------------------------------------
(* The call                                                                *)

\* The engines the results of a row name: toSearchResults leaves them out.
Named(k) == IF Enhance /\ k[1] = "words" THEN DOMAIN cache[k] ELSE {}

\* A hit is recorded for the engines its results name.  No row, an error, a
\* list that cannot be parsed, or one that is recorded and then cannot be
\* formatted: the call searches.
LookUp(r) ==
  /\ pc[r] = "new"
  /\ \/ /\ CacheKey(r) \in DOMAIN cache
        /\ answer' = [answer EXCEPT ![r] = cache[CacheKey(r)]]
        /\ Record(r, Named(CacheKey(r)), {})
        /\ Goto(r, "answered") /\ UNCHANGED asked
     \/ /\ \/ UNCHANGED recorded
           \/ CacheKey(r) \in DOMAIN cache /\ Record(r, Named(CacheKey(r)), {})
        /\ asked' = [asked EXCEPT ![r] =
                       CASE opt[r].kind = "doi" -> {"openalex", "crossref"}
                         [] opt[r].kind = "arxiv" -> {"arxiv"}
                         [] opt[r].kind = "words" -> {}]
        /\ Goto(r, IF opt[r].kind = "words" THEN "write" ELSE "lookup")
        /\ UNCHANGED answer
  /\ UNCHANGED <<timeRange, opt, jobVars, found, pdf, cache>>

\* The shared field is written, also by a call that names its engines, and
\* by one that fails because it names none that is registered.
WriteRange(r) ==
  /\ pc[r] = "write"
  /\ timeRange' = opt[r].range
  /\ Goto(r, IF Selected(r) = {} THEN "failed" ELSE "spawn")
  /\ UNCHANGED <<opt, callVars, endVars>>

Spawn(r) ==
  /\ pc[r] = "spawn"
  /\ job' = [job EXCEPT ![r] = [e \in Engines |->
               IF e \in Selected(r) THEN "queued" ELSE "none"]]
  /\ Goto(r, "wait")
  /\ UNCHANGED <<timeRange, opt, engine, used, resp, asked, found, pdf, endVars>>

\* sem <- struct{}{}: execOne starts the engine's goroutine.
Acquire(r, e) ==
  /\ job[r][e] = "queued"
  /\ Cardinality({f \in Engines : job[r][f] = "slot"}) < Concurrency
  /\ job' = [job EXCEPT ![r][e] = "slot"]
  /\ engine' = [engine EXCEPT ![r][e] = "started"]
  /\ UNCHANGED <<timeRange, pc, opt, used, resp, asked, found, pdf, endVars>>

\* The goroutine reads s.TimeRange and calls the engine.
CallEngine(r, e) ==
  /\ engine[r][e] = "started"
  /\ used' = [used EXCEPT ![r][e] = {[range |-> RangeOf(r), page |-> opt[r].page]}]
  /\ engine' = [engine EXCEPT ![r][e] = "calling"]
  /\ UNCHANGED <<timeRange, pc, opt, job, resp, asked, found, pdf, endVars>>

Outcomes == {"results", "empty", "error"}

\* Fault: a late answer is written into the slot of the response.
EngineEnds_Overwrites(r, e) ==
  /\ engine[r][e] = "calling"
  /\ engine' = [engine EXCEPT ![r][e] = "over"]
  /\ \E outcome \in Outcomes :
       /\ resp' = [resp EXCEPT ![r][e] = outcome]
       /\ job' = [job EXCEPT ![r][e] = "done"]
  /\ UNCHANGED <<timeRange, pc, opt, used, asked, found, pdf, endVars>>

\* The engine answers; after the timeout nobody reads its answer.
EngineEnds(r, e) ==
  /\ engine[r][e] = "calling"
  /\ engine' = [engine EXCEPT ![r][e] = "over"]
  /\ IF job[r][e] = "slot"
       THEN \E outcome \in Outcomes :
              /\ resp' = [resp EXCEPT ![r][e] = outcome]
              /\ job' = [job EXCEPT ![r][e] = "done"]
       ELSE UNCHANGED <<resp, job>>
  /\ UNCHANGED <<timeRange, pc, opt, used, asked, found, pdf, endVars>>

\* Fault: execOne waits for a goroutine that has called its engine.
Timeout_OnlyBeforeCall(r, e) ==
  /\ job[r][e] = "slot"
  /\ engine[r][e] = "started"
  /\ job' = [job EXCEPT ![r][e] = "done"]
  /\ resp' = [resp EXCEPT ![r][e] = "timeout"]
  /\ UNCHANGED <<timeRange, pc, opt, engine, used, asked, found, pdf, endVars>>

\* PerEngineTimeout, or the 30 seconds of the call: execOne gives up and its
\* slot is free, whatever the goroutine does.
Timeout(r, e) ==
  /\ job[r][e] = "slot"
  /\ job' = [job EXCEPT ![r][e] = "done"]
  /\ resp' = [resp EXCEPT ![r][e] = "timeout"]
  /\ UNCHANGED <<timeRange, pc, opt, engine, used, asked, found, pdf, endVars>>

Good(r) == {e \in Engines : resp[r][e] = "results"}
Bad(r) == {e \in Engines : resp[r][e] \in {"error", "timeout"}}

\* The search for the PDFs of the results starts: one goroutine per paper.
StartEnrich(r) ==
  /\ pdf' = [pdf EXCEPT ![r] = [p \in Papers |->
               IF p \in opt[r].papers THEN "gate" ELSE "none"]]
  /\ Goto(r, "enrich")

\* Fault: the errors of a call that fails are lost, as those of a hit are.
Collect_LosesErrors(r) ==
  /\ pc[r] = "wait"
  /\ \A e \in Selected(r) : job[r][e] = "done"
  /\ \/ (Good(r) = {} \/ Enhance) /\ Record(r, Selected(r), {}) /\ Goto(r, "failed")
        /\ UNCHANGED <<found, pdf>>
     \/ /\ Good(r) # {}
        /\ found' = [found EXCEPT ![r] = [e \in Good(r) |-> used[r][e]]]
        /\ StartEnrich(r) /\ UNCHANGED recorded
  /\ UNCHANGED <<timeRange, opt, jobVars, asked, cache, answer>>

\* wg.Wait() and the merge, whose score floor may leave nothing; the errors of
\* a call that fails are read out of the text of its own error.
Collect(r) ==
  /\ pc[r] = "wait"
  /\ \A e \in Selected(r) : job[r][e] = "done"
  /\ \/ (Good(r) = {} \/ Enhance) /\ Record(r, Selected(r), Bad(r)) /\ Goto(r, "failed")
        /\ UNCHANGED <<found, pdf>>
     \/ /\ Good(r) # {}
        /\ found' = [found EXCEPT ![r] = [e \in Good(r) |-> used[r][e]]]
        /\ StartEnrich(r) /\ UNCHANGED recorded
  /\ UNCHANGED <<timeRange, opt, jobVars, asked, cache, answer>>

-----------------------------------------------------------------------------
(* The lookup of a single paper, and its PDF                               *)

\* A source answers or fails.  Their results are one paper; the first stays.
SourceEnds(r, s) ==
  /\ s \in asked[r]
  /\ asked' = [asked EXCEPT ![r] = @ \ {s}]
  /\ \/ UNCHANGED found
     \/ found' = [found EXCEPT ![r] =
                    IF @ = Nothing THEN [o \in {s} |-> {}] ELSE @]
  /\ UNCHANGED <<timeRange, pc, opt, jobVars, pdf, endVars>>

\* wg.Wait(); the registered engines are recorded, though none has run.
Looked(r) ==
  /\ pc[r] = "lookup" /\ asked[r] = {}
  /\ IF found[r] = Nothing
       THEN Record(r, Selected(r), {}) /\ Goto(r, "failed") /\ UNCHANGED pdf
       ELSE StartEnrich(r) /\ UNCHANGED recorded
  /\ UNCHANGED <<timeRange, opt, jobVars, asked, found, cache, answer>>

Asking == {w \in Requests \X Papers : pdf[w[1]][w[2]] = "asking"}

PdfBecomes(r, p, from, to) ==
  /\ pdf[r][p] = from
  /\ pdf' = [pdf EXCEPT ![r][p] = to]
  /\ UNCHANGED <<timeRange, pc, opt, jobVars, asked, found, endVars>>

\* unpaywallGate <- struct{}{}
EnterGate(r, p) == Cardinality(Asking) < GateSize /\ PdfBecomes(r, p, "gate", "asking")

\* <-ctx.Done(): the 30 seconds of the call are over.
GiveUp(r, p) == PdfBecomes(r, p, "gate", "over")

\* Unpaywall answers, or the request times out; the slot is free.
LeaveGate(r, p) == PdfBecomes(r, p, "asking", "over")

\* wg.Wait(), the events, and the row stored under the key.
Finish(r) ==
  /\ pc[r] = "enrich"
  /\ \A p \in Papers : pdf[r][p] \in {"none", "over"}
  /\ Goto(r, "answered")
  /\ answer' = [answer EXCEPT ![r] = found[r]]
  /\ cache' = [k \in DOMAIN cache \cup {CacheKey(r)} |->
                 IF k = CacheKey(r) THEN found[r] ELSE cache[k]]
  /\ Record(r, Selected(r), Bad(r))
  /\ UNCHANGED <<timeRange, opt, callVars>>

-----------------------------------------------------------------------------
Progress(r) ==
  \/ LookUp(r) \/ WriteRange(r) \/ Spawn(r) \/ Collect(r) \/ Looked(r) \/ Finish(r)
  \/ \E e \in Engines : Acquire(r, e) \/ Timeout(r, e)
  \/ \E s \in asked[r] : SourceEnds(r, s)
  \/ \E p \in Papers : EnterGate(r, p) \/ GiveUp(r, p) \/ LeaveGate(r, p)

Next == \E r \in Requests :
          \/ Progress(r)
          \/ \E e \in Engines : CallEngine(r, e) \/ EngineEnds(r, e)

Spec == Init /\ [][Next]_vars

\* The call's own goroutines run and its timers fire; an engine may hang.
FairSpec == Spec /\ \A r \in Requests : WF_vars(Progress(r))

-----------------------------------------------------------------------------
\* A call that names its engines gets what was searched with its own range,
\* whatever other calls write into the shared searcher meanwhile, and also
\* when another call filled the row it is answered from.
SubsetHonoursRange ==
  \A r \in Requests : opt[r].engines # {} =>
    /\ \A e \in Engines : \A s \in used[r][e] : s.range = opt[r].range
    /\ \A e \in DOMAIN answer[r] : \A s \in answer[r][e] : s.range = opt[r].range

\* An engine that timed out stays reported as failed: its late answer reaches
\* neither the responses nor, after it, the answer and the cache.
TimeoutIsFinal ==
  [][\A r \in Requests : \A e \in Engines :
       resp[r][e] = "timeout" => resp'[r][e] = "timeout"]_vars

\* The events of a call tell which engines failed in it: those that ended
\* with an error, or after their time, and no others, whether the call fails
\* as a whole, in which case they are read out of a text, or in part.
FailuresAreRecorded ==
  \A r \in Requests : \A e \in Engines :
    pc[r] \in {"answered", "failed"} =>
      (recorded[r][e] = "failed" <=> resp[r][e] \in {"error", "timeout"})

\* A call is answered or fails, though engines may hang for ever and the
\* gate may be full of the papers of other calls.
CallReturns == \A r \in Requests : <>(pc[r] \in {"answered", "failed"})

\* What the call is answered with is the page it asks for (mcp/tool.go, the
\* schema of page).  The key of its row leaves the page out.
PageHonoured ==
  \A r \in Requests : \A e \in DOMAIN answer[r] :
    \A s \in answer[r][e] : s.page = opt[r].page
=============================================================================
