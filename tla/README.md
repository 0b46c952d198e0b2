# Verification of the web-search MCP server

This directory holds TLA+ models of the server in `src/`, the TLC configurations
that check them on small instances, and proofs, checked by TLAPS, of the
properties that matter most. `PROJECT.json` lists the runs, the code lines each
definition stands for, the hazards, and the findings.

## 1. The system

The program is one Go process. It serves MCP tools (`smartsearch`,
`academicsearch`, `cleanfetch`, `pdf_parser`) and a dashboard over HTTP. A call of a
tool is a goroutine of the HTTP server; everything below it is shared by all
calls: key pools, engines, the cache, the telemetry store. A small command-line
program starts, stops and kills the server as a daemon shared by several sessions.

| Component | State it keeps | Operations | Talks to |
|---|---|---|---|
| Key pools (`provider/keypool.go`) | keys, index, time until which each key is invalid, last key handed out | Next, MarkInvalid, MarkLastInvalid, Available | API providers, apipool |
| Key-pool search (`apipool/apipool.go`) | round-robin index; per call: providers tried, error | Search, trySearch, the start strategies | key pools, API providers |
| API providers (`provider/*.go`) | the default time range, a field shared by all calls | SearchRaw, SearchRawWithTimeRange | key pools, HTTP services |
| Streaming summary (`llm`, `tool_summarize.go`) | a token channel, an outcome channel, two contexts | ChatStream, streamSummarize, finishWebSearch | LLM service, cache, client |
| Result cache (`cache/`) | rows (query, intent, results, summary, bodies, kind, times, hits) in SQLite | Lookup, Store, UpdateSummary, EvictStale, Clear, cleaner | the tools |
| smartsearch (`tool_search.go`) | per call: request, rows read, results | doWebSearch, enrichTopN, asyncSummarize | cache, engines, fetcher, LLM |
| academicsearch (`tool_academic.go`, `academic_adapter.go`, `searcher.go`, `lookup.go`, `unpaywall.go`) | one shared searcher with its range, the gate to Unpaywall; per call: jobs, slots, responses | doAcademicSearch, SearchAcademicRaw, searchParallel, LookupDOI, UnpaywallPDF | academic engines, cache, telemetry |
| Rate limiter (`antirobot/limiter.go`) | time stamps of the last second and minute | Allow | scraped engines |
| Limited engines (`ddg`, `google`, `bing`, `baidu`, `arxiv`, `dblp`) | limiter, cooldown, failures in a row, session and its budget | Search, rotateSession, enterCooldown | limiter, web |
| Other engines for papers (`semanticscholar.go`, `google_scholar.go`, `pubmed.go`, `crossref.go`, ...) | whether the key of Semantic Scholar has been given up | Search, with its retries | transport, web |
| Transport (`proxy/proxy.go`) | transports by proxy | RoundTrip: a 429 is waited for and the request sent again | web |
| Hybrid search (`hybrid/hybrid.go`) | per call: one goroutine per engine, a channel | Search, mergeResults | engines, telemetry |
| Telemetry (`telemetry/`) | events and daily aggregates in SQLite | Record, Cleanup, health, suspension, metrics, attempt chain | tools, dashboard |
| Page fetching (`webfetch`, `jina`, `mineru`, `tool_cleanfetch.go`) | temporary files, in-flight count, last activity | Fetch, FetchPDF, polling, the file janitor | web, MinerU, Jina |
| Quota (`quota/quota.go`) | a cached answer under a lock | Get | the vendor, dashboard |
| Daemon (`cmd/main.go`, `daemon/`, `server/`) | reference count, shutdown channel, in-flight requests, PID file, port | start, stop, kill, status, Listen, Shutdown | processes, file system |
| Engine factory and configuration (`config/config.go`, `search/factory.go`, `mode/factory.go`) | the configuration a process was started with, and the engines built from it | Load, NewFromConfig | file system, engines |
| Dashboard (`dashboard/settings.go`, `sources.go`, `handler.go`) | config.yaml, its backups, the file of secrets | applySettings, saveSecret, restart, the view of the sources | file system, telemetry, configuration |
| Routing, logging | no protocol state | construction | all of the above |

### What is hard here

- **Shared objects without a lock held across a call.** A key is taken under a lock
  and marked later, after a request; a provider's time range is saved, set, read
  and restored in a field; the academic searcher's range is set by one call and
  read by the jobs of another; the counters of a session are reset outside the lock.
- **Two channels and a select.** The stream ends by closing one channel and
  sending on another, the consumer picks whichever is ready, the client may leave.
- **Cache keys and their absences.** A row is found by a broad lookup or by an
  exact one, filled by background work, and replaced, cleared or swept meanwhile.
- **Retry loops without a counter**, whose end depends on what a failure marks, and retries below retries.
- **Time**: cooldowns, sliding windows, an expiry that is left to a sweep, restarts.
- **Files replaced in place**, by requests that run beside each other, while a crash may come at any step.
- **Processes**: the shutdown at zero references races with starts and with kill.

### What makes each part correct

- Key pools: a cooldown is served in full; a cooling key is a last resort; only keys
  that failed cool.
- Key-pool search: every provider is tried before a search fails; it ends.
- Providers: a request is sent with the range of its own call.
- Summary: what is answered and stored as a summary is a complete one; the producer
  goroutine and the call end.
- Cache: an answer went through the fetch of page bodies exactly when its call asked for it, and is of its kind; no row older than its expiry
  is served while the cleaner works; no row stored or touched within the expiry is swept; a summary is answered to its intent.
- Academic search: own range and own page; a timeout is final; a hanging engine or a full gate cannot hold a call; what is recorded
  names the engines that failed.
- Engines for papers: the requests of a search are bounded however services refuse and redirect; a key is given up on evidence.
- Quota: the vendor is asked once per period, however many ask and leave.
- Scraped engines: the limiter's rates; a cooldown stops searches that start in it and
  is bounded; the session is rotated within its budget.
- Telemetry: the views of a day agree; a source is called down only on three failures in a row;
  the chain of an undisturbed call is exact.
- Page fetching: files that have served their time go, and a call ends although
  MinerU never finishes, unless an upload to it hangs; the pages an answer advises are accepted.
- Dashboard: its rows are the engines that were built, and count their own attempts; what is saved stays
  saved until a save changes it or is made from an older file; a configuration that is being replaced has its backup.
- Daemon: at rest the count is the number of sessions; zero is followed by the
  shutdown, and no session loses its server otherwise; the cache outlives the requests;
  a process that could not listen leaves no PID file.

## 2. Modules

| Module | Code | State and actions |
|---|---|---|
| `KeyPool` | `provider/keypool.go` | `idx`, `invalid`, `last` per pool and a clock. `Next(p, now)`, `MarkLastInvalid`, `Available`; `now` is an older clock reading, for the code reads the clock before the lock. |
| `Failover` | `apipool.go` (comments and structure) | Abstract promise: a search tries each provider, succeeds with the first that answers, and fails only when all have failed. |
| `Apipool` | `apipool.go`, key use of the providers | Extends `KeyPool`. Per search a `pc`, the order of providers, the key in use. Start, take a key, answer, fail, mark, go on to the next provider. |
| `SummaryStream` | `llm.go`, `summarizer.go`, `tool_summarize.go`, `tool_search.go` | Producer goroutine, bounded channel, outcome channel, select loop, cancel, the chain of fallbacks and the store. |
| `TimeRange` | `tavily.go`, `baidu.go`, `baidu_ai.go`, `exa.go`, `doubao.go` | Save, set, read, restore: four steps on a field shared by the calls. A load or store of the field is one step; that the two words of a Go string may be torn is left out. |
| `AcademicSearch` | `tool_academic.go`, `academic_adapter.go`, `searcher.go`, `paperid.go`, `lookup.go`, `unpaywall.go` | A call from the cache, in which the lookup may fail and a hit be of no use, to the row it stores. A search: shared range, jobs, semaphore, a goroutine and a timer per engine, the merge. A DOI or arXiv id: one or two sources. Then the PDFs, through a gate all calls share, and the events of the engines. |
| `SearchCache` | `cache/sqlite.go`, `cache/cleanup.go` | The rows by their keys. A statement is one step: a lookup reads the clock, then runs one or two SELECTs and, after a hit, an UPDATE by id, with the steps of others between; what it returns is the copy it took. Every statement may fail, and every operation may have waited (`Slow`) since it read the clock. Sweeps, which may fail, and restarts. |
| `WebSearch` | `tool_search.go` | Extends `SearchCache`. A call: the lookup of its row and that of the plain one, engines and fallback, the fetch of bodies, which a client that cancels cuts short, summary, store; background summaries as jobs. |
| `RateLimiter` | `antirobot/limiter.go` | Pure operators over a sequence of time stamps. |
| `ScrapeEngine` | `ddg`, `google`, `bing`, `baidu`, `arxiv`, `dblp` | Extends `RateLimiter`. Per search: look at the cooldown, take from the limiter, rotate, send, settle; one engine of each shape. |
| `PaperEngine` | `semanticscholar.go`, `google_scholar.go`, `pubmed.go`, `crossref.go`, `openalex.go`, `europepmc.go`, `doaj.go`, `proxy.go` | Per search: build the request, send it, the transport's second sending, the redirects the client follows, each sent so again, the answer, the engine's own retry; the flag that gives the key up. |
| `Daemon` | `cmd/main.go`, `daemon/`, `server/server.go` | Commands as processes, server processes, reference count, signals, the dashboard's restart, drain, the closing of the cache and of the telemetry store, PID file. |
| `Ranking` | `hybrid.go`, `enhance.go`, `mmr.go`, `types.go` | Pure operators: merge by url, round robin, target cut, score floor. A list that is filtered, sorted or joined is its elements `InOrder` of a relation on their places, a definition the provers can open. |
| `HybridSearch` | `hybrid.go` | A goroutine per engine, the channel, the event of each engine, then merge, ranking and cut. |
| `PaperMerge` | `academic_enhance.go`, `types.go`, `academic_adapter.go` | The papers of a search merged one at a time under their DOI and url, the floor of an engine's first paper, the plain sort. |
| `SearchMerge` | | Composes `HybridSearch` and `PaperMerge` as two calls of the server. |
| `Telemetry` | `store.go`, `suspension.go`, `metrics.go` | The events by their ids, of which none is given twice, and the daily totals; `Record`, whose transaction may fail, and `Cleanup` change them, the rest are the derived views: `Metrics`, `Today`, `Status`, `State`, `Suspended`. Events of an older version, whose failures have no kind, may be there at first. |
| `PageFetch` | `webfetch.go`, `mineru/client.go`, `jina/reader.go`, `tool_cleanfetch.go`, `tool_pdf.go`, `tool_search.go`, `tool.go` | Extends `Telemetry`. A call opens one goroutine per url; each goes from the checks through the layers (MinerU with its upload and polls, engine or library, Jina) and commits its events; saved files, the janitor's sweep, restarts. |
| `Catalog` | `config.go`, `search/factory.go`, `mode/factory.go`, `academic.go`, `dashboard/sources.go` | Pure operators over a configuration: the engines each mode builds (`Primary`, `PaperEngines`), the name under which an attempt is recorded, and, written apart in the code, the sources the dashboard shows as configured and active and the names it looks for. |
| `Dashboard` | `settings.go`, `handler.go`, `config.go`, `server.go` | Extends `Catalog`. The two files, the backups, the process and what it was built from. A request goes from the checks through read, backup, truncation and write, each of which may fail; the process starts, stops and dies. A write that fails is taken to leave the file empty or in a state that does not parse: that a part of a YAML text may parse is left out. |
| `Quota` | `quota.go`, `handler.go` | Viewers who wait for the lock, look at what is held, ask the vendor, and may leave at any time; a clock. |
| `Apipool_proofs`, `AcademicSearch_proofs`, `SearchMerge_proofs`, `Daemon_proofs`, `ScrapeEngine_proofs`, `WebSearch_proofs`, `Dashboard_proofs`, `PageFetch_proofs` | | Theorems and their proofs. Those about `KeyPool` are in `Apipool_proofs`, `Ranking`, `HybridSearch` and `PaperMerge` in `SearchMerge_proofs`, `RateLimiter` and `PaperEngine` in `ScrapeEngine_proofs`, `SearchCache` and `SummaryStream` in `WebSearch_proofs`, `Catalog` and `Quota` in `Dashboard_proofs`, `Telemetry` in `PageFetch_proofs`. |
| `MC_*` | | Values of constants and symmetry sets for TLC. `MC_WebSearch`, `MC_ScrapeEngine` and `MC_Dashboard` check two specifications in one run: a behaviour is of one of them (`part`), while the variables of the other stay as they were. `MC_Daemon` bounds the kills. |

Atomicity follows the locks and statements of the code: a critical section, a
database statement or a channel operation is one action; what happens between two of
them is two actions. Requests to services are nondeterministic: any outcome the code
distinguishes. Results, pages and tokens are model values or small numbers.

## 3. Runs

| Run | Question | Bounds and why they are enough |
|---|---|---|
| `Apipool_keys` | Do only failed keys cool, are cooldowns served, does every search return? | Two searches, a pool of two keys and a free engine, cooldown 1 within a clock of 2: a key can cool, recover and cool again, while the other search holds a key. |
| `Apipool_failover` | Is the failover promise of `Failover` implemented? | Three providers, pools of two sizes, errors with and without a key, a query too long for one provider, weighted draws incl. weight zero. Two searches share the pools. |
| `SummaryStream_outcome` | Is a failed stream ever answered, do producer and call end? | Buffer of 2 and streams of up to 4 tokens: the producer fills the channel, blocks, and is overtaken by the outcome. |
| `TimeRange_concurrent` | (violated) Is a request sent with its own range? | Two calls, one object. |
| `AcademicSearch_calls` | Own range for calls that name engines, events that name the failed engines, final timeouts, calls that return | Two calls, two engines, one slot and one place at the gate: an engine may hang and hold the slot, and papers of one call keep those of the other waiting. Calls of all engines, of one, of two, of one that is not registered; a search beside a lookup; two lookups. |
| `AcademicSearch_pages` | (violated) Is a call answered with its page? | Two calls for either of two pages. |
| `WebSearch_rows` | Bodies, summaries and kinds under their keys; how old is a hit, is a used row ever swept? | Two calls with two intents, background jobs of both, a row of another kind, `Clear`, while the clock stands still; or the cache in time: expiry 1, interval 2, a wait of 1, clock to 5, which gives two sweeps and a restart between them, and a lookup of two readers across a sweep. Bodies that are cut are in calls of one intent. |
| `ScrapeEngine_shared` | Rates, cooldowns, sessions; requests upstream, the giving up of a key | Two searches at engines of each shape, a clock of 4, and of 3 for DuckDuckGo with its many steps, that covers the minute window (3) and the longest cooldown (3); four searches in a minute, so that a session of lifetime 2 can reach the most it may answer, 2 for each search; a Retry-After that is missing or beyond the longest cooldown. Or two searches at each engine for papers, chains of two requests, with room for one request more than the bound of 12; the code's chains have up to ten. |
| `Daemon_life` | Counts, shutdown, dependencies, who loses a server | Two clients, two server processes (one may lose the port), one request each. The first has a dashboard, and with it a telemetry store and restarts, the second may be reached by signals. At most one kill, begun before the second server is launched; from then on there are no searches, signals or restarts (`MC_Daemon`). The proof of `DependenciesOutliveRequests` has no such bound. |
| `Search_merge` | Are the answers of a hybrid and of an academic search the right ones whatever the order in which engines end? | Two engines with many lists of results and three with few; two urls and their spellings, a blank url, papers with and without DOI and url, scores 0 to 2. Every merge case occurs: same url within and across engines, also with another score, keys that name two entries, lists above and below each cut. |
| `PageFetch_files` | Do the views of the telemetry agree, is a source down only on three failures, are chains and advice right, do files go in the end, do calls end? | Six configurations of two calls (`MC_PageFetch`): a batch of two pages beside a fetch of one of them, which gives three failures of a source; two fetches with Jina; a fetch and a refused call through a restart that cleans up; documents with MinerU beside a parser call and an enrichment; a fetcher created late; fetches after three failures of an older version. Time to 4 half seconds (5 in the last) with a day and a retention of one second: events are stamped in whole seconds, days change, old events go. Documents of 0 to 5 pages with `max_pages` 2, page ranges on either side of each limit. |
| `Dashboard_saves` | Are the rows of the dashboard the engines that run, is anything lost by saves and crashes, how often is the vendor of the quota asked? | Every mode with keys and engines of each kind and two attempts; restarts into another mode; three requests beside each other or in turn, two stops, crashes or failed calls, two seconds, so that backups share a name or do not. Three requests are enough for one that overlaps two others and for one that follows them. Or three viewers of the quota in three periods. |

Bounds on clocks and counts (`MaxTime`, `MaxTokens`, `MaxServers`, `MaxRequests`) only
stop the models; the code has no such limit. Deadlock is checked except in models whose
calls or processes come to an end (`AcademicSearch`, `SummaryStream`, `ScrapeEngine`, `PaperEngine`,
`Daemon`, `SearchMerge`, `PageFetch`, `Dashboard`, `Quota`, where the clock, the calls or the servers run out).

### Fairness

Liveness properties are checked in `Apipool_keys`, `SummaryStream_outcome`,
`AcademicSearch_calls` and `PageFetch_files` only. They assume weak fairness of the steps of a goroutine
(the Go scheduler runs every runnable goroutine) and that a request ends, because the
HTTP clients have timeouts: `client.DefaultClient` with 30 s, the LLM client with its
own. That timeout can be configured to 0, which removes it; the properties do not
speak of that setting. Academic engines are *not* assumed to answer:
they may hang, and only the timer of `execOne` is fair. MinerU is asked with a
client that has a timeout of 60 s, so that each poll ends, but it may answer "running" for ever; and the upload
of a local document goes through `http.DefaultClient`, without a timeout, under a context without a deadline
(`mineru/client.go:301`). It is not assumed to end: `CallsReturn` and `FilesAreCleared` hold unless an upload hangs. Neither a client
that stays nor one that leaves is assumed.

### Mutants

Every property of a passing run has a mutant: a definition changed as a plausible
slip would change it, for which TLC finds the property violated (`PROJECT.json`, "mutants";
the mutated forms stand beside the originals in the modules).

## 4. Proofs

Assumptions are those named in the modules (`ASSUME`): the pools are a subset of the
providers, each has at least one key, times are natural numbers, the buffer is not
empty, the searcher has a slot and the gate a place, clients and the searches at an engine are finitely many. Telemetry
keeps its events for a day at least, the chain may hold two attempts for each url of the largest batch, and a cap on a pause is no
shorter than the pause (`TelemetryConstants`, `PageFetchConstants`: the constants of the code). Whatever waits for the connection of
the cache gets it within the expiry and in less than the interval of the cleaner (`CacheAssumption`). The files a
scenario starts with are texts of configuration or torn, and a request changes settings or secrets, not both (`DashboardAssumption`).
The limits and scores of a hybrid search are natural numbers, and a failed search has no list (`HybridAssumption`).
Nothing bounds the number of calls, engines, providers, keys, tokens, sessions, servers, requests, pages or events.

- `PoolTypeCorrect`, `PoolCooldownServed` (`Apipool_proofs`): callers that take and mark
  keys in any order, with clock readings of any age, leave a cooldown untouched until it is over.
  The action property is proved from the type invariant: every branch of `Next` that
  clears an entry does so for one that has expired by its own reading of the clock, which is never
  ahead of the clock.
- `TypeCorrect` (`Apipool_proofs`): types are not inductive alone. `LocalOK` says what is known of a search at
  each `pc`: which provider is current, that a key in use is a key of its pool, that the
  providers tried are a prefix of its order. `TypeOK /\ LocalOK` is inductive.
- `SearchUsesPool`: each step of a search is a step of the pool or leaves it alone. `CooldownServedBySearches`
  follows from the lemma about the pools.
- `LastResort`: a cooling key is handed out only when every key of the pool cools.
- `KeyErrorsCoolOwnKey`: when every failure names its key (`SoftErrors = FALSE`) and no query is rejected early,
  only keys with which a call failed cool. Needs `BlameInv`: the key a search is about to
  mark is one with which it has failed.
- `RetriesAreBounded`: under the hypothesis that no cooldown can end (`MaxTime <= InvalidTTL`), which is the condition the property names, a provider
  is called at most once per key. `CallInv` bounds the calls of a search by the keys that cool together with the one it holds, which another
  search may have marked meanwhile; the marks of others only add to them. Cardinalities grow by one with a key that did not cool (`OneKeyMore`).
- `SearchKeepsFailoverPromise`: refinement of `Failover`. The mapping reads "tried" off the position
  of the search in its order; retries and marks are stutters.
- `StreamTypeCorrect`, `StreamFailureNotAnswered`, `DrainedSummaryIsWhole` (`WebSearch_proofs`).
  `TokenInv` relates the tokens produced to those in the channel and those
  consumed: consumed followed by buffered is produced. `OutcomeInv` says a stored or answered summary was
  taken on an outcome that was not an error.

- `PaperSpec_UpstreamBounded`, `PaperSpec_KeyGivenUpOnEvidence` (`ScrapeEngine_proofs`). `PaperInv` relates the
  requests a search has sent to its attempt and to the redirects followed in it, two for each request of a chain (`Counted`), and says
  that a search in its third attempt finds the key given up; and, as long as the key is in use, that every attempt
  that was made was refused with it (`Evident`). The bound on requests of the model
  (`MaxPosted`) is any number: the proof does not use it.
- `Spec_SubsetHonoursRange`, `Spec_FailuresAreRecorded`, `Spec_TimeoutIsFinal` (`AcademicSearch_proofs`), from
  `SearchInv`. `RangeInv`: what a call that names engines has used, found and stored, and each row
  under its key, carries the range of the key, also while other calls write the shared field. `JobInv` relates
  job, goroutine, response and event of each engine at each `pc`.
- `Spec_DependenciesOutliveRequests`, `Spec_ZeroIsSignalled`, `Spec_RefCountIsSessions`, `Spec_OnlyLateSessionsAreCut`,
  `Spec_NoDirtyPid` (`Daemon_proofs`), from `IInv`, a conjunction: `TypeInv`; `PlaceInv`, which process holds the port and
  where a command may find it; `BusyInv`, a server closes the cache when no request is left, and has closed its telemetry store only when `Run` has returned;
  `ZeroIsSignalled`; `CountInv`, which holds until a stop reaches a server its session never used (`stray`): the count is the number of `Users`, from the
  request that counts a session to the one that takes it back, and the users of a server that must exit (`Doomed`) are late.
  None of the properties is inductive alone: Add and the answer to it are two steps, between which other commands count.
- `Spec_CooldownStopsSearches` (`ScrapeEngine_proofs`): `CoolInv` says that a search which saw no cooldown, and during which none
  was entered, is in none.
- `Spec_RateKept` (`ScrapeEngine_proofs`), from `RateInv`: the times allowed are in order and not ahead of the clock, each window holds the last of them, and
  what it has lost is older than the window. The lemmas say what `FilterAfter` does to a
  sorted sequence: it drops a prefix (`FilterDrops`), keeps the order and the bounds (`FilterKeeps`, `AllowKeeps`).
- `Spec_SessionRotated`: counts are lost, so no bound on the count alone is inductive. `LoadInv` bounds what the session has answered
  together with what it may answer before the count is full (`Left`): one lifetime less one for each search that is not about to
  reset the count (`Working`), and one more for each that waits to rotate (`Waiting`); and when all that can count wait, the count is full.
- `Spec_ResultsFitTheCall`, `Spec_SummaryFitsIntent` (`WebSearch_proofs`), from `WebInv`: each row fits its key (`RowOK`), what a lookup has
  copied fits the key it looks for, whatever became of the row since (`LookOK`), each background task the rows it may find when it
  ends (`TaskOK`), and the list a call holds its parameters at each `pc` (`HeldOK`).
- `SCSpec_HitIsFresh`, `SCSpec_UsedRowsStay`, from `TimeInv`: a row dates from its last use but for the wait of the statement (`RowInTime`), a lookup
  is no older than such a wait (`LookInTime`), and while the cleaner keeps its rounds the age of a row is at most `MaxAge`, a wait, and what has gone of the round.

- `PMSpec_PapersMergedOnce` (`SearchMerge_proofs`), from `PaperInv`, which relates the two tables of keys to the entries: a DOI, once seen,
  stays with its entry, whereas a url may move on to another entry, and yet none is begun for it again. `MergeOneKeeps` is the step of one paper.
- `Spec_AnswerIsClean`, `Spec_EnginesAreHeard` (`SearchMerge_proofs`). The invariant is short (`HybridInv`: an engine that is done has sent its outcome, and when
  the outcomes are merged all are done); the work is in lemmas about the operators, each stated once. `InOrderEnumerates`: a finite set with
  a linear order is enumerated, from which filtering (`PickIs`), sorting (`ArrangedIs`) and joining (`FlatIs`) follow without induction. `Drawn`: what
  ranking, floors, reranking and cuts do to a list is to draw results from different places of it, which is why none can bring a page back or credit it to
  another engine. `FirstCredited`: the first of each key, in the order of the buckets, is that of the first engine that contributed it.
  `RoundsAreFair`: in a list cut by rounds, the first result of an engine that was left out bounds the places, and so the number, of all that stay.
- `SMSpec_MergesAreRight`: the three hold together of a call of either tool, which is what the run checks.
- `QuotaSpec_VendorIsSpared` (`Dashboard_proofs`), from `QuotaInv`: one viewer is inside the lock (`OneInside`), and unless it is about to write the
  answer down, what is held is no older than the last request (`AskedIsHeld`).
- `Spec_SavedIsKept`, `Spec_TornIsBackedUp` (`Dashboard_proofs`), from `SavesInv`: what a request is about to write agrees with what was owed when it read
  the file (`SaveInv`, through `due`), so that it undoes only what was saved since; a file that can be read has what is owed, and one that cannot has a
  request to blame (`KeptInv`); a request that is alone is the only one to have read its file (`AloneInv`), and its backup holds what it read
  (`BackupInv`). A configuration torn by a lone request can be read by no later one (`TornInv`), so that its backup stays.
- `Spec_SourcesAreTrue`: `ServerInv` says what the process was built from, `LogInv` that an attempt is logged under a name of its source; that the
  rows count their own attempts is the disjointness of the names of different sources, mode by mode.
- `Spec_MetricsMatchToday`, `Spec_DownOnThreeFailures` (`PageFetch_proofs`): `JobsInv` and `RowsInv` say that no recorded time is ahead of the clock and that ids are
  given in order. `CountInv`: the totals of this day *and of those to come* are the counts of their events; not those of earlier days, whose events
  may be gone. The three newest events are the streak whatever the order in which they were committed (`StreakIsNewest`). `KindInv`: failures without a
  kind are older than all others, so that the failure which decides the pause is the newest one, or an older one of no kind, whose pause is the same.
- `Spec_LoneChainIsExact`, from `ChainInv`: how far a goroutine is decides which of its attempts are recorded (`UrlInv`); an open call has at most one
  attempt per provider and url, none older than its start (`CallInv`), which `ChainLimit` has room for.
- `Spec_AdviceIsAccepted` for a `max_pages` of at most `WidthCap`
  (the difference listed below shows why), from `AdviceInv`: advice is given only to a call that
  named no pages, of a document longer than one call may read.

Only model-checked: all liveness (`SearchReturns`, `ProducerEnds`, `CallAnswered`,
`CallReturns`, `CallsReturn`, `FilesAreCleared`; liveness under fairness is beyond the prover)
and the two properties that are violated. What `PaperMerge` ranks and cuts after its merge is modelled and checked but has no theorem. The type invariants of `Apipool`, `SummaryStream`, `AcademicSearch`, `PaperEngine`, `Daemon`,
`ScrapeEngine` and `WebSearch` are proved, and TLC does not check them again.

## 5. Findings

Two runs end in a counterexample that contradicts what a comment or a document says; they are
under "findings":

- `TimeRange_concurrent`: a search is sent with the time range of another.
- `AcademicSearch_pages`: the second page of an academic search is answered with the first, from the cache.

Differences seen while modelling that have no run of their own:

- A query that Doubao rejects before it takes a key (`doubao.go:211`) is retried for ever when no other search has marked its keys: `MarkLastInvalid`
  marks nothing, or a key that cools already (`apipool.go:165`, `184`). `SearchReturns` in `Apipool_keys` is checked without such queries; it fails
  with `LongQueries = TRUE` and `LengthLimited = {0}`. The safety properties are checked with them in `Apipool_failover`.
- `select` may take the nil outcome before the tokens in the buffer: an empty summary is answered and stored
  (`RecvErr` in `SummaryStream`; `tool_summarize.go:44`, against the comment at `summarizer.go:34`).
- An error that names no key cools the key another search was last given (`apipool.go:184`, `keypool.go:107`).
- After a disconnect the fallback asks the LLM again with `context.Background` (`llm.go:57`; `docs/search.en.md:220`).
- The academic searcher's range is shared by calls that name no engine (`academic_adapter.go:117`, `searcher.go:136`).
- The web cache key leaves out the time range (`tool_search.go:153`).
- After a restart, and after a sweep that failed, expired rows are served until the next sweep that works (`cleanup.go:48`; `docs/installation.en.md:416`).
- A lookup is a SELECT and a separate UPDATE, whose error is discarded (`sqlite.go:138`, `187`): a sweep in between takes a row that was just served, and a
  row whose UPDATE fails is swept although it is used. `UsedRowsStay` speaks of rows that were stored or touched.
- When its client cancels a call, pages that are not being fetched yet are skipped (`tool_search.go:257`), and the call goes on: its results
  are stored under the key for bodies and answer later calls as a complete hit, which the comment at `tool_search.go:86` means to prevent
  (`"cut"` in `WebSearch`). Results without a url have nothing to fetch (`tool_search.go:251`).
- A summary is not streamed to a call without a request or a session, but asked for with the plain call only when the stream has failed: such a call
  gets an empty summary, which is stored (`tool_search.go:204`, `210`). Only the MCP library calls the handlers (`mcp/server.go:49`), with both.
- When `Shutdown` gives up on its requests after 5 s, `Run` returns with the error and its deferred call closes the telemetry store
  under them (`server.go:162`, `242`), against the comment at `server.go:239`; the process then exits. The cache stays open: `DependenciesOutliveRequests` tells the two apart.
- A row of another intent keeps an intent from ever being summarised (`tool_search.go:178`, `sqlite.go:222`).
- A concurrent store may replace a good summary with an empty one (`tool_search.go:215`).
- A start may remove the PID file of a live server (`cmd/main.go:58`, `server.go:258`); `kill` on Unix never forces (`daemon_unix.go:13`; `docs/architecture.en.md:82`).
- The retry of arXiv passes by the limiter (`arxiv.go:168`); searches that have looked before a cooldown send during it (`ddg_engine.go:252`).
- A start that overlaps the last stop is told that its reference counts (`cmd/main.go:31`) and loses its server, against
  `docs/installation.md:321`: the server is to exit when all sessions are closed. `OnlyLateSessionsAreCut` shows that no other session does.
- Semantic Scholar and Google Scholar are said to send at most three requests (`semanticscholar.go:70`, `google_scholar.go:84`). The transport below
  them doubles each, and the client follows redirects (`proxy.go:99` sets no `CheckRedirect`), through the same transport: of the 302 to `/sorry` that is answered with
  429, three attempts may make nine requests, and `UpstreamBounded` shows the most to be six for each request of a chain. For the same reason the engine never
  sees the redirect that it means not to retry (`google_scholar.go:83`, `107`).
- A search that gives the key up is said to cost others at most one request (`semanticscholar.go:106`); one that is limited for the first time
  meanwhile fails at once, without an attempt of its own that is anonymous (`semanticscholar.go:99`).
- DuckDuckGo is asked with a POST, whose body the transport has read when it sends it again (`proxy.go:162`): a 429 may end as a transport
  error and never reach the engine's cooldown (`ddg_engine.go:109`). What a resent body does is decided by `net/http`; the model has the engine's part.
- PubMed takes a time range and does not use it (`pubmed.go:37`).
- A paper lookup is recorded as a success of every registered engine though none ran (`tool_academic.go:78`; comment at 115). Without `enhance`, results name no
  engine: the counts of the events are 0, and a hit records none. An error with "; " and ": " in its text names engines that are none (`tool_academic.go:106`).
- An engine's first paper that joined an entry through a chain of keys may miss the floor (`academic_enhance.go:242`; comment at 208):
  with A(doi 1, url 1), C(doi 1, url 2), E(no doi, url 2), E's paper is in the entry of A, whose keys are not E's.
- The same url can end in two entries of papers: A(no doi, url 1), B(doi 2, url 1), C(doi 1, url 1) (`academic_enhance.go:133`).
- A page that one engine returns twice is kept once, with the score of its first place, and the required score is asked of it afterwards: a list whose only good score
  is that of a repetition counts for nothing (`hybrid.go:172` before `hybrid.go:185`). `EnginesAreHeard` therefore speaks of first results.
- The sorts by score of the plain merge need not keep the order of equal scores in lists of more than twelve (`hybrid.go:270`, `types.go:250`); the model keeps it,
  as the code does in shorter ones, and no property speaks of it.
- The cut per engine comes before the merge, so an answer may be short when capped results repeat those of other engines (`hybrid.go:221`).
- A row of a cache that is used may name a saved file that the janitor has removed after 24 h (`webfetch.go:472`, `tool_search.go:330`).
- A fetch may begin between the question whether the fetcher is idle and the sweep (`webfetch.go:456`); files younger than the limit are safe all the same. The janitor
  needs a moment without fetches: an upload that hangs (`mineru/client.go:301`) keeps its call, and every file, until a restart.
- With a `max_pages` above 1000, the range an answer advises may be wider than `pageSpecWidthCap` and is refused (`webfetch.go:286`, `tool_pdf.go:131`); `AdviceIsAccepted` is checked below that.
- The polls of MinerU may use up the 15 s of an enrichment, and then its engine has no time left; Jina works on after the client has left (`reader.go:90`).
- The attempt chain of a call may name providers of other calls within two seconds (`tool.go:92`; its comment speaks of one tool call), in a batch the newest event of a
  provider decides, and `pdf_parser` has no provider events of its own. In single-engine mode the chain is computed before the event of the engine exists (`tool_search.go:52`), and when Bing stands in for it only Bing is recorded (`tool_search.go:113`).
- The daily totals of a tool with two providers overwrite each other (`store.go:568`), while the metrics add them up; the model has one provider per tool.
- The state stays "suspended" after the pause, as long as the last three events are failures and the newest is less than a day old (`store.go:503`), without `suspended_until`;
  `DownOnThreeFailures` bounds the time that is named, and of the state says that it stands for three failures. A failure with a shorter pause shortens a suspension.
- A transaction of the telemetry that fails is dropped (`store.go:226`), and the chain of the call is then shorter.
- A save whose write is overlapped by another may leave a garbled file and still be reported as applied: only the text in memory is parsed again
  (`settings.go:103`; comment at 106). Two saves within a second share the name of their backup (`settings.go:99`). A crash between truncation and write, or a write that fails
  (`settings.go:103`, `238`: nothing is restored), leaves an empty file, with which the server starts on defaults, without its dashboard (`config.go:631`), or a broken one, with which it does not start.
- A save undoes what other requests have saved since it read the file, without a word to them (`settings.go:78`).
- A secret saved over a file that does not parse, or cannot be read, drops all others (`settings.go:225`); the secrets have no backup.
- A provider whose keys are all blank is shown as configured and active, and is not built (`sources.go:231`, `factory.go:85`).
- The name "baidu" is the API in the key pool and the web page elsewhere: after a change between them the history is in the wrong row (`sources.go:291`).
- A mode of one provider without a key and with Bing off returns a fallback that is a typed nil: `searchapi == nil` does not hold for it, and the
  search panics (`mode/factory.go:93`, `tool_search.go:58`). The model has no engines there, and records no attempt.
- Bing may be asked as a fallback while its row says inactive; `smartsearch` is shown as enabled when Bing is (`tools_dashboard.go:22`).
- A threshold of 0 is accepted by the settings and becomes 0.05 at the next start (`settings.go:145`, `config.go:762`).
- The request of a viewer who has left is held as a failed query for everybody for five minutes (`quota.go:100`); `proxy.Detector` is used by nothing.
- The shift of the back-off overflows after about 34 failures (`ddg_engine.go:303`); `rotateSession` writes without the lock (`ddg_engine.go:320`).

## 6. Not modelled, and why

The relevance scores are floating-point arithmetic over text; what is done with them (merging,
floors, cuts) is modelled for any scores. Of a source's status, only "down" and
"suspended" are the subject of a property. Parsing of pages, feeds and
JSON, request building, the layout of the dashboard's views, logging, install scripts and the web
assets are I/O and layout without a protocol. Of the configuration, only the settings
that decide which engines are built are modelled. The adapters convert between types of results around a searcher of one engine, in
its serial strategy; a search that their timeout leaves behind is a search of `ScrapeEngine` like any other, for nothing in the engine
knows who waits. The proxy detector has no caller. What the model of a 429 says of the transport is that it may send a request
twice; when it does, how long it waits, and which answers redirect, is left open.

## 7. Plan

In this order; all of them are done.

1. `KeyPool`, `Failover`, `Apipool`, with proofs.
2. `SummaryStream`, with proofs.
3. `TimeRange`.
4. `AcademicSearch`, with proofs; single-paper lookup, PDFs, events.
5. `SearchCache`, `WebSearch`.
6. `Daemon`, with proofs.
7. `RateLimiter`, `ScrapeEngine`.
8. `Ranking`, `HybridSearch`, `PaperMerge`, `SearchMerge`.
9. `Telemetry`: record, health, suspension, metrics; `PageFetch`: fallback chain, attempt chain, batches, MinerU polling, the file janitor.
10. `Catalog`, `Dashboard`: engine factory, configuration, settings, secrets, the view of the sources.
11. `PaperEngine` with proofs, `Quota`.
12. Proofs about `ScrapeEngine`, `WebSearch` and `SearchCache`.
13. Proofs about `Quota`, `Dashboard`, `PageFetch` with `Telemetry`, `PaperMerge`, `RateLimiter`, and the bound on retries of `Apipool`.
14. Proofs about `Ranking` and `HybridSearch`.
