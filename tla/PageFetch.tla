---------------------------- MODULE PageFetch ----------------------------
(* Fetching pages and PDF documents: the tools cleanfetch and pdf_parser    *)
(* and the enrichment of search results (mcp/tool_cleanfetch.go, tool_pdf,  *)
(* tool_search.go), the fetcher they share with its polling of MinerU and   *)
(* its janitor of saved files (webfetch.go, mineru/client.go), Jina as the  *)
(* second layer, and the provider events each attempt leaves.               *)
EXTENDS Telemetry

CONSTANTS
  Calls,        \* calls of the tools
  Pages,        \* urls of pages
  Long,         \* urls whose text is longer than max_inline_lines
  Papers,       \* urls that name a PDF
  Locals,       \* paths of local PDF files
  Settings,     \* configurations, the calls made under each, and bounds
  Errors,       \* kinds of errors of a fetch
  Specs,        \* page specifications a caller of pdf_parser may give
  WidthCap,     \* pageSpecWidthCap
  MaxPages,     \* pdf_parser.max_pages
  MaxCount,     \* pages of the longest document
  MaxBatch,     \* maxBatchFetchURLs
  ChainLimit,   \* events read for the attempt chain
  Slack,        \* time before a call whose events count as its own
  FileTTL,      \* age at which a saved file is removed
  Polls,        \* polls of MinerU before pollTimeout
  EnrichPolls   \* polls before the deadline of an enrichment

Kinds == {"clean", "enrich", "pdf"}
Urls == Pages \cup Papers \cup Locals

ASSUME PageFetchConstants ==
  /\ Retention >= DayLength
  /\ Slack >= Second - 1
  /\ ChainLimit >= 2 * MaxBatch
  /\ {MaxPages, FileTTL, Polls, MaxBatch} \subseteq Nat \ {0}
  /\ {EnrichPolls, WidthCap, MaxCount, ChainLimit, Slack} \subseteq Nat
  /\ IsFiniteSet(Urls)
  /\ Specs \subseteq Seq(Nat \X Nat)
  /\ "none" \notin Errors /\ "none" \notin Calls
  /\ Long \subseteq Urls
  /\ Settings \subseteq [jina : BOOLEAN, mineru : BOOLEAN, ocr : BOOLEAN, fetcher : BOOLEAN,
                          kinds : [Calls -> SUBSET Kinds], urls : [Calls -> SUBSET SUBSET Urls],
                          old : Seq(Nat), start : Nat, end : Nat, restarts : Nat]
  /\ \A s \in Settings : \A i \in DOMAIN s.old : s.old[i] <= Seconds(s.start)

VARIABLES
  conf,      \* the configuration: jina, mineru and ocr, whether they are there;
             \* fetcher, whether it starts at first; kinds and urls, what
             \* each call may be and name; old and start, what the
             \* table of events holds at first and when that is; the
             \* bounds end and restarts
  ready,     \* webfetchInst # nil
  call,      \* the calls
  job,       \* per call and url, the goroutine that fetches it
  inflight,  \* Fetcher.inflight
  files,     \* files in the output directory: who saved them and when
  janitor,   \* files the sweep in progress is about to remove
  restarts   \* restarts so far

vars == <<clock, events, issued, daily, conf, ready, call, job, inflight, files, janitor, restarts>>
static == <<clock, conf, restarts>>

NoCall == [pc |-> "idle", kind |-> "clean", urls |-> {}, started |-> 0, failed |-> FALSE,
           pages |-> {}, count |-> 0, advice |-> <<>>]
NoChain == [attempted |-> {}, winner |-> "none"]
NoJob == [pc |-> "off", left |-> 0, attempt |-> <<>>, now |-> 0, result |-> "none"]

Init ==
  /\ conf \in Settings
  /\ clock = conf.start
  /\ TelemetryInit(conf.old)
  /\ ready = conf.fetcher
  /\ call = [c \in Calls |-> NoCall]
  /\ job = [c \in Calls |-> [u \in Urls |-> NoJob]]
  /\ inflight = 0
  /\ files = {}
  /\ janitor = {}
  /\ restarts = 0

-----------------------------------------------------------------------------
(* Pages of a PDF *)

(* parsePagesSpec: a specification is a sequence of ranges; a single page   *)
(* is a range of one, and what is not a number is a range from 0.           *)
Wellformed(spec) ==
  \A i \in DOMAIN spec :
    LET r == spec[i] IN r[1] >= 1 /\ r[2] >= r[1] /\ r[2] - r[1] + 1 <= WidthCap
PagesOf(spec) == UNION {spec[i][1]..spec[i][2] : i \in DOMAIN spec}

(* parsedPDFPageCount *)
ParsedCount(pages, count) ==
  IF pages # {} THEN Cardinality(IF count <= 0 THEN pages ELSE pages \cap 1..count)
  ELSE IF count <= 0 THEN count ELSE Least(count, MaxPages)

(* Fault: the advice names one page more than a call may ask for. *)
Advice_OnePageMore(pages, count) ==
  IF pages # {} \/ count <= MaxPages THEN <<>>
  ELSE <<MaxPages + 1, Least(MaxPages * 2 + 1, count)>>

(* pdfPagesPreamble: the pages the answer tells the caller to ask for next. *)
Advice(pages, count) ==
  IF pages # {} \/ count <= MaxPages THEN <<>>
  ELSE <<MaxPages + 1, Least(MaxPages * 2, count)>>

-----------------------------------------------------------------------------
(* Calls *)

(* Fault: only events from the second in which the call began are its own. *)
WithinCall_NoSlack(e, started) == e.at * Second >= started
WithinCall(e, started) == e.at * Second >= started - Slack

(* recentAttemptChain: among the newest attempts, those that fall into the  *)
(* time of the call; the newest of each provider decides whether it is the  *)
(* winner.                                                                  *)
AttemptsSince(started) ==
  LET recent == RecentFiltered({i \in DOMAIN events : events[i].kind = "provider"}, ChainLimit)
  IN  {i \in recent : WithinCall(events[i], started)}

AttemptChain(mine) ==
  LET newest == {i \in mine : \A j \in NewerThan(i, mine) : events[j].name # events[i].name}
      won == {i \in newest : events[i].ok}
  IN  [attempted |-> {events[i].name : i \in newest},
       winner |-> IF won = {} THEN "none" ELSE events[First(won)].name]

Left(kind) == IF kind = "enrich" THEN EnrichPolls ELSE Polls

Open(c, kind, urls, pages) ==
  /\ call[c].pc = "idle"
  /\ kind \in conf.kinds[c]
  /\ call' = [call EXCEPT ![c] = [NoCall EXCEPT !.pc = "open", !.kind = kind, !.urls = urls,
                                                !.started = clock, !.pages = pages]]
  /\ job' = [job EXCEPT ![c] = [u \in Urls |-> IF u \in urls
                                               THEN [NoJob EXCEPT !.pc = "start", !.left = Left(kind)]
                                               ELSE NoJob]]
  /\ UNCHANGED <<static, telemetry, ready, inflight, files, janitor>>

(* A call that is refused starts no fetch. *)
Reject(c, kind) ==
  /\ call[c].pc = "idle"
  /\ kind \in conf.kinds[c]
  /\ call' = [call EXCEPT ![c] = [NoCall EXCEPT !.pc = "open", !.kind = kind, !.started = clock, !.failed = TRUE]]
  /\ UNCHANGED <<static, telemetry, ready, job, inflight, files, janitor>>

(* CleanFetch: the urls are merged, then one or a batch of up to MaxBatch.  *)
(* A path is no url to it, nor to an enrichment.                            *)
Clean(c) ==
  \E urls \in {us \in conf.urls[c] : us \cap Locals = {}} :
    IF urls = {} \/ Cardinality(urls) > MaxBatch THEN Reject(c, "clean")
    ELSE Open(c, "clean", urls, {})

(* enrichTopN: a goroutine for each result that has a url and little text.  *)
Enrich(c) ==
  \E urls \in {us \in conf.urls[c] : us # {} /\ us \cap Locals = {}} : Open(c, "enrich", urls, {})

(* PDFParserHandler *)
Pdf(c) ==
  \E spec \in Specs, u \in UNION conf.urls[c] :
    IF ~Wellformed(spec) \/ Cardinality(PagesOf(spec)) > MaxPages \/ ~ready
    THEN Reject(c, "pdf") ELSE Open(c, "pdf", {u}, PagesOf(spec))

(* The call ends with its last goroutine: a single fetch that failed fails  *)
(* it, a batch and an enrichment never do. The tools record themselves; the *)
(* event of an enrichment is that of its search.                            *)
Finish(c) ==
  LET k == call[c]
      failed == k.failed \/ (k.kind # "enrich" /\ \E u \in Urls : k.urls = {u} /\ job[c][u].result = "error")
      tool == IF k.kind = "pdf" THEN "pdf_parser" ELSE "cleanfetch"
  IN  /\ k.pc = "open"
      /\ \A u \in k.urls : job[c][u].pc = "done"
      /\ call' = [call EXCEPT ![c] = [NoCall EXCEPT !.pc = "done"]]
      /\ job' = [job EXCEPT ![c] = [u \in Urls |-> NoJob]]
      /\ IF k.kind = "enrich" THEN UNCHANGED telemetry
         ELSE \E mine \in {AttemptsSince(k.started)} :
                Record(clock, [kind |-> "tool", name |-> tool, ok |-> ~failed,
                               error |-> IF failed THEN "unknown" ELSE "none", of |-> <<c, "none">>,
                               chain |-> AttemptChain(mine)])
      /\ UNCHANGED <<static, ready, inflight, files, janitor>>

-----------------------------------------------------------------------------
(* The goroutine of a url *)

At(c, u, pc) == call[c].pc = "open" /\ job[c][u].pc = pc
Go(c, u, pc) == job' = [job EXCEPT ![c][u].pc = pc]
Done(c, u, result) == job' = [job EXCEPT ![c][u].pc = "done", ![c][u].result = result]

(* validateURLSecurity and headCheck; a local file is not checked. They     *)
(* change nothing others see: a check that passes is part of the next step. *)
Refuse(c, u) ==
  /\ At(c, u, "start") /\ u \notin Locals
  /\ Done(c, u, "error")
  /\ UNCHANGED <<static, telemetry, call, ready, inflight, files, janitor>>

(* ensureWebFetch, under its lock: creates the fetcher unless there is one. *)
Ensure(c, u) ==
  /\ At(c, u, "start") /\ call[c].kind = "enrich"
  /\ \/ ready' = TRUE /\ Go(c, u, "fetch")
     \/ ~ready /\ UNCHANGED ready /\ Done(c, u, "error")
  /\ UNCHANGED <<static, telemetry, call, inflight, files, janitor>>

(* beginActivity, and the first way to read the document. *)
FirstWay(u) ==
  IF u \in Locals THEN "local" ELSE IF u \in Papers /\ conf.mineru THEN "task" ELSE "engine"

Fetch(c, u) ==
  /\ At(c, u, IF call[c].kind = "enrich" THEN "fetch" ELSE "start")
  /\ IF ready THEN Go(c, u, FirstWay(u)) /\ inflight' = inflight + 1
     ELSE /\ IF conf.jina THEN Go(c, u, "jina") ELSE Done(c, u, "error")
          /\ UNCHANGED inflight
  /\ UNCHANGED <<static, telemetry, call, ready, files, janitor>>

Attempt(c, u, provider, error) ==
  [kind |-> "provider", name |-> provider, ok |-> error = "none", error |-> error, of |-> <<c, u>>,
   chain |-> NoChain]
ToCommit(c, u, provider, result, error) ==
  job' = [job EXCEPT ![c][u].pc = "commit", ![c][u].result = result, ![c][u].now = clock,
                     ![c][u].attempt = Attempt(c, u, provider, error)]

(* Fault: a fetch that fails leaves its mark in the count. *)
Leave_OnlySuccess(c, u, result, error, count) ==
  /\ inflight' = IF result = "error" THEN inflight ELSE inflight - 1
  /\ IF call[c].kind = "clean" THEN ToCommit(c, u, "webfetch", result, error) ELSE Done(c, u, result)
  /\ call' = IF call[c].kind # "pdf" THEN call
             ELSE [call EXCEPT ![c].count = count, ![c].advice = Advice(call[c].pages, count)]

(* endActivity: the fetch returns to cleanfetch, which records it, or to a  *)
(* caller that does not. count is what the reader of a PDF told of it.      *)
Leave(c, u, result, error, count) ==
  /\ inflight' = inflight - 1
  /\ IF call[c].kind = "clean" THEN ToCommit(c, u, "webfetch", result, error) ELSE Done(c, u, result)
  /\ call' = IF call[c].kind # "pdf" THEN call
             ELSE [call EXCEPT ![c].count = count, ![c].advice = Advice(call[c].pages, count)]
Fails(c, u, error) == Leave(c, u, "error", error, 0) /\ UNCHANGED files
Returns(c, u, count) ==
  IF u \in Long THEN Leave(c, u, "file", "none", count) /\ files' = files \cup {[of |-> <<c, u>>, at |-> clock]}
  ELSE Leave(c, u, "text", "none", count) /\ UNCHANGED files

(* Engine and library are external. The context of an enrichment may have   *)
(* been used up by the polls before; that of a call of a tool has no end.   *)
Counts(c) == IF call[c].kind = "pdf" THEN 0..MaxCount ELSE {0}
InTime(c, u) == call[c].kind = "enrich" => job[c][u].left > 0
Engine(c, u) ==
  /\ At(c, u, "engine")
  /\ \/ \E e \in Errors : Fails(c, u, e)
     \/ \E n \in Counts(c) : InTime(c, u) /\ Returns(c, u, n)
  /\ UNCHANGED <<static, telemetry, ready, janitor>>

(* parseLocalPDFWithPages: a document without text goes to the OCR of       *)
(* MinerU, when that is enabled.                                            *)
Local(c, u) ==
  /\ At(c, u, "local")
  /\ \/ \E e \in Errors : Fails(c, u, e)
     \/ \E n \in Counts(c) : Returns(c, u, n)
     \/ conf.ocr /\ Go(c, u, "task") /\ UNCHANGED <<call, inflight, files>>
  /\ UNCHANGED <<static, telemetry, ready, janitor>>

(* A failure of MinerU leaves a remote document to the engine and ends the  *)
(* work on a local one.                                                     *)
MineruFails(c, u) ==
  IF u \in Locals THEN \E e \in Errors : Fails(c, u, e)
  ELSE Go(c, u, "engine") /\ UNCHANGED <<call, inflight, files>>

(* createTask, or createFileTask, after which a local document is uploaded. *)
Task(c, u) ==
  /\ At(c, u, "task")
  /\ \/ MineruFails(c, u)
     \/ Go(c, u, IF u \in Locals THEN "upload" ELSE "poll") /\ UNCHANGED <<call, inflight, files>>
  /\ UNCHANGED <<static, telemetry, ready, janitor>>

(* uploadFile, with the default client of net/http, which has no timeout,   *)
(* under the context of the call, which has no deadline.                    *)
Upload(c, u) ==
  /\ At(c, u, "upload")
  /\ MineruFails(c, u) \/ (Go(c, u, "poll") /\ UNCHANGED <<call, inflight, files>>)
  /\ UNCHANGED <<static, telemetry, ready, janitor>>

(* Fault: each poll gets a deadline of its own. *)
Poll_NewDeadline(c, u) ==
  /\ At(c, u, "poll")
  /\ \/ MineruFails(c, u)
     \/ Leave(c, u, "text", "none", 0) /\ UNCHANGED files
     \/ Go(c, u, "sleep") /\ UNCHANGED <<call, inflight, files>>
  /\ UNCHANGED <<static, telemetry, ready, janitor>>

(* pollStandardTask, pollAgentTask and the download: the deadline is asked  *)
(* before each poll, and the sleep after one does not end with the context. *)
Poll(c, u) ==
  /\ At(c, u, "poll")
  /\ \/ MineruFails(c, u)
     \/ /\ job[c][u].left > 0
        /\ \/ Leave(c, u, "text", "none", 0) /\ UNCHANGED files
           \/ /\ job' = [job EXCEPT ![c][u].pc = "sleep", ![c][u].left = @ - 1]
              /\ UNCHANGED <<call, inflight, files>>
  /\ UNCHANGED <<static, telemetry, ready, janitor>>

Wake(c, u) ==
  /\ At(c, u, "sleep")
  /\ Go(c, u, "poll")
  /\ UNCHANGED <<static, telemetry, call, ready, inflight, files, janitor>>

(* Reader.Fetch; its context is not that of the call. *)
Jina(c, u) ==
  /\ At(c, u, "jina")
  /\ ToCommit(c, u, "jina", "text", "none") \/ \E e \in Errors : ToCommit(c, u, "jina", "error", e)
  /\ UNCHANGED <<static, telemetry, call, ready, inflight, files, janitor>>

(* RecordEventContext; after a failure of webfetch Jina is next, if there.  *)
Commit(c, u) ==
  LET e == job[c][u].attempt
  IN  /\ At(c, u, "commit")
      /\ Record(job[c][u].now, e)
      /\ Go(c, u, IF e.name = "webfetch" /\ ~e.ok /\ conf.jina THEN "jina" ELSE "done")
      /\ UNCHANGED <<static, call, ready, inflight, files, janitor>>

-----------------------------------------------------------------------------
(* The janitor, the clock, restarts *)

Expired == {f \in files : f.at <= clock - FileTTL * Second}

(* startFileJanitor, which a fetcher brings with it: a sweep begins when no *)
(* fetch is in flight; that the last one must be a minute ago is left out.  *)
Sweep ==
  /\ ready /\ janitor = {} /\ inflight = 0 /\ Expired # {}
  /\ janitor' = Expired
  /\ UNCHANGED <<static, telemetry, ready, call, job, inflight, files>>

(* A file that cannot be removed is left to the next sweep. *)
RemoveFile ==
  /\ \E f \in janitor : files' = files \ {f} /\ janitor' = janitor \ {f}
  /\ UNCHANGED <<static, telemetry, ready, call, job, inflight>>

Tick ==
  /\ clock < conf.end
  /\ clock' = clock + 1
  /\ UNCHANGED <<telemetry, conf, ready, call, job, inflight, files, janitor, restarts>>

(* The process is killed and started again: its tables and files stay. *)
Restart ==
  /\ restarts < conf.restarts
  /\ restarts' = restarts + 1
  /\ Cleanup
  /\ ready' \in BOOLEAN
  /\ call' = [c \in Calls |-> IF call[c].pc = "open" THEN [NoCall EXCEPT !.pc = "lost"] ELSE call[c]]
  /\ job' = [c \in Calls |-> IF call[c].pc = "open" THEN [u \in Urls |-> NoJob] ELSE job[c]]
  /\ inflight' = 0
  /\ janitor' = {}
  /\ UNCHANGED <<clock, conf, files>>

Step(c, u) ==
  \/ Refuse(c, u) \/ Ensure(c, u) \/ Fetch(c, u) \/ Engine(c, u) \/ Local(c, u)
  \/ Task(c, u) \/ Upload(c, u) \/ Poll(c, u) \/ Wake(c, u) \/ Jina(c, u) \/ Commit(c, u)

Next ==
  \/ \E c \in Calls : Clean(c) \/ Enrich(c) \/ Pdf(c) \/ Finish(c)
  \/ \E c \in Calls : \E u \in call[c].urls : Step(c, u)
  \/ Sweep \/ RemoveFile \/ Tick \/ Restart

Spec == Init /\ [][Next]_vars

(* A goroutine that can go on does: engine, Jina and the client of MinerU   *)
(* have timeouts, and the janitor has its ticker. An upload may hang.       *)
Uploading(c) == \E u \in call[c].urls : job[c][u].pc = "upload"
Work == \E c \in Calls : Finish(c) \/ \E u \in call[c].urls : job[c][u].pc # "upload" /\ Step(c, u)
FairSpec == Spec /\ WF_vars(Work) /\ WF_vars(Sweep \/ RemoveFile)

-----------------------------------------------------------------------------
(* Properties *)

Sources == {<<"provider", "webfetch">>, <<"provider", "jina">>, <<"tool", "cleanfetch">>, <<"tool", "pdf_parser">>}

(* The two views of a day agree: what Metrics counts from the events is     *)
(* what the daily table adds up, through restarts and their clean-up.       *)
MetricsMatchToday == \A s \in Sources : Metrics(s[1], s[2]) = Today(s[1], s[2])

(* health and EvaluateSuspension: a source is shown down or suspended only  *)
(* when its three newest events are failures, whatever the order in which   *)
(* concurrent fetches committed theirs, and suspended_until is within the   *)
(* pause of the newest of them, although the failure that counts is another *)
(* when the newest has no kind. (The state "suspended" itself outlasts the  *)
(* pause: it stays until the newest event is StaleAge old.)                 *)
DownOnThreeFailures ==
  \A s \in Sources :
    LET ids == IdsOf(s[1], s[2])
        rows == Rows(s[1], s[2])
        newer(i) == {j \in ids : Newer(j, i)}
    IN  State(rows) = "suspended" \/ Suspended(rows) =>
          /\ Cardinality(ids) >= 3
          /\ \A i \in ids : Cardinality(newer(i)) < 3 => ~events[i].ok
          /\ Suspended(rows) =>
               \E i \in ids : newer(i) = {} /\ clock < (events[i].at + PauseOf(events[i].error)) * Second

(* recentAttemptChain: the chain of a call beside which no other recorded   *)
(* attempts names exactly the providers of the call's recorded attempts,    *)
(* and for a single fetch a winner exactly when a success is among them, in *)
(* which case the call succeeds.                                            *)
LoneChainIsExact ==
  [][\A c \in Calls :
       call[c].pc = "open" /\ call'[c].pc = "done" /\ call[c].kind # "enrich" /\ issued' # issued =>
       LET attempts == {i \in DOMAIN events : events[i].kind = "provider"}
           own == {i \in attempts : events[i].of[1] = c}
           others == {i \in attempts \ own : events[i].at * Second + Slack >= call[c].started}
           tool == events'[issued']
           chain == tool.chain
       IN  others = {} =>
             /\ chain.attempted = {events[i].name : i \in own}
             /\ call[c].kind = "clean" /\ Cardinality(call[c].urls) = 1 =>
                  /\ chain.winner # "none" <=> \E i \in own : events[i].ok
                  /\ chain.winner # "none" => tool.ok]_vars

(* pdfPagesPreamble: what the answer to a truncated document advises is     *)
(* accepted by the handler, and continues where the answer ended (as long   *)
(* as max_pages is within pageSpecWidthCap, which the configuration leaves  *)
(* to the user).                                                            *)
AdviceIsAccepted ==
  \A c \in Calls :
    LET k == call[c]
    IN  k.advice # <<>> =>
          /\ Wellformed(<<k.advice>>)
          /\ Cardinality(PagesOf(<<k.advice>>)) <= MaxPages
          /\ PagesOf(<<k.advice>>) \subseteq 1..k.count
          /\ ParsedCount(k.pages, k.count) + 1 = k.advice[1]

(* beginActivity, endActivity and the janitor: files that have served their *)
(* time go. The janitor waits for a moment without fetches, so the count of *)
(* those must come back to zero whichever way each of them ends, and a      *)
(* fetch that never ends keeps all files.                                   *)
FilesAreCleared == []<>(Expired = {} \/ ~ready \/ \E c \in Calls : Uploading(c))

(* The calls end: MinerU may answer "running" for ever, but its polls have  *)
(* a deadline, and the layers below have timeouts; only the upload of a     *)
(* local document has none. A call opens only once, so that "never open     *)
(* again" and "each returns" are the same.                                  *)
CallsReturn == []<>(\A c \in Calls : call[c].pc = "open" => Uploading(c))
=============================================================================
