----------------------------- MODULE Catalog -----------------------------
(* What a configuration means, twice: the engines the factory builds from  *)
(* it, and the sources the dashboard says it has. The two are written      *)
(* apart in the code (pkg/search/factory.go, pkg/search/mode, pkg/academic *)
(* against pkg/dashboard/sources.go) and have to agree.                    *)
(* A configuration is a record: mode; keys, by provider "none", "blank"    *)
(* (white space only) or "key"; on, the web engines that are enabled;      *)
(* direct, for proxy.enabled: false; ai, for enable_ai_search; engines of  *)
(* the key pool; academic, disabled and intl of the academic search.       *)
EXTENDS FiniteSets

Api == {"anysearch", "baidu", "tavily", "exa", "doubao"}
Web == {"baidu_web", "bing", "google", "duckduckgo"}
Sources == Api \cup Web
Abroad == {"semantic_scholar", "google_scholar"}
Papers == {"arxiv", "crossref", "openalex", "pubmed", "europepmc", "dblp", "doaj"} \cup Abroad
Modes == {"hybrid", "engine", "apipool", "baidu", "tavily", "exa", "anysearch", "doubao"}

-----------------------------------------------------------------------------
(* The configuration *)

\* Config.GetMode, of a mode in lower case.
GetMode(m) ==
  IF m \in Modes THEN m ELSE IF m = "hybird" THEN "hybrid" ELSE "baidu"

\* ApipoolConfig.GetEngines: the order is of no interest here.
GetEngines(c) ==
  IF c.engines # {} THEN c.engines ELSE {"anysearch", "baidu", "tavily", "exa"}

-----------------------------------------------------------------------------
(* The factory *)

\* newKeyPoolFromList: NewKeyPool trims the keys and refuses an empty list.
KeyPools(c) == {p \in Api : c.keys[p] = "key"}

\* InitBaiduWebEngine, InitGoogleEngine, InitDuckDuckGoEngine, InitBingEngine:
\* only DuckDuckGo is skipped when the proxy is off for good.
WebEngines(c) == {e \in c.on : e = "duckduckgo" => ~c.direct}

BuildEngineMode(c) == WebEngines(c)

BuildBaiduMode(c) ==
  IF "baidu" \in KeyPools(c) THEN {"baidu"} \cup (WebEngines(c) \cap {"baidu_web"})
  ELSE IF "baidu_web" \in WebEngines(c) THEN {"baidu_web"}
  ELSE WebEngines(c) \cap {"bing"}

\* BuildTavilyMode, BuildExaMode, BuildAnysearchMode, BuildDoubaoMode.
BuildSingleMode(c) ==
  IF c.mode \in KeyPools(c) THEN {c.mode} ELSE WebEngines(c) \cap {"bing"}

BuildApipoolMode(c) ==
  (KeyPools(c) \cap GetEngines(c)) \cup (WebEngines(c) \cap {"baidu_web"})

BuildHybridMode(c) == KeyPools(c) \cup WebEngines(c)

\* NewFromConfig: the engines behind the primary search.
Primary(c) ==
  CASE c.mode = "engine"  -> BuildEngineMode(c)
    [] c.mode = "apipool" -> BuildApipoolMode(c)
    [] c.mode = "hybrid"  -> BuildHybridMode(c)
    [] c.mode = "baidu"   -> BuildBaiduMode(c)
    [] OTHER              -> BuildSingleMode(c)

\* BuildAcademic: two engines are asked through the proxy, and from abroad.
BuildAcademic(enabled, intl, resolver) ==
  {e \in enabled : e \in Abroad => resolver /\ intl}

\* InitAcademicEngine.
PaperEngines(c) ==
  IF c.academic THEN BuildAcademic(Papers \ c.disabled, c.intl, ~c.direct) ELSE {}

\* The name under which an attempt at an engine is recorded: apipool.go has
\* names of its own, elsewhere it is that of the engine's object.
EventName(c, e) ==
  IF c.mode = "apipool" THEN e
  ELSE CASE e = "baidu"     -> IF c.ai /\ ~(c.mode = "baidu" /\ "baidu_web" \in WebEngines(c))
                                 THEN "baidu_ai" ELSE "baidu_api"
         [] e = "tavily"    -> "tavily_api"
         [] e = "baidu_web" -> "baidu"
         [] OTHER           -> e

\* The engines whose attempts are recorded: Bing also stands in for a primary
\* search that failed; BaiduWithFallback hides its second engine.
Recorded(c) ==
  LET hidden == IF c.mode = "baidu" /\ "baidu" \in KeyPools(c) THEN {"baidu_web"} ELSE {}
  IN  IF Primary(c) = {} THEN {} ELSE (Primary(c) \ hidden) \cup (WebEngines(c) \cap {"bing"})

-----------------------------------------------------------------------------
(* The dashboard *)

\* len(EffectiveSKList()) > 0
HasKeys(c, p) == c.keys[p] # "none"

\* webSourceCatalog, Configured.
Configured(c) ==
  {p \in Api : HasKeys(c, p)} \cup {e \in c.on : e # "duckduckgo" \/ ~c.direct}

\* webSourceCatalog, Active.
Active(c) ==
  LET first(S) == IF S \cap Configured(c) # {} THEN S \cap Configured(c)
                  ELSE Configured(c) \cap {"bing"}
  IN  CASE c.mode = "hybrid"  -> Configured(c)
        [] c.mode = "engine"  -> Configured(c) \cap Web
        [] c.mode = "apipool" -> Configured(c) \cap ((GetEngines(c) \cap Api) \cup {"baidu_web"})
        [] c.mode = "baidu"   -> first({"baidu", "baidu_web"})
        [] OTHER              -> first({c.mode})

\* Fault: the names of Baidu do not depend on the mode.
Aliases_SameInEveryMode(c, s) ==
  CASE s = "baidu"     -> {"baidu_ai", "baidu_api"}
    [] s = "baidu_web" -> {"baidu"}
    [] s = "tavily"    -> {"tavily", "tavily_api"}
    [] OTHER           -> {s}

\* webSourceCatalog, aliases.
Aliases(c, s) ==
  CASE s = "baidu"     -> {"baidu_ai", "baidu_api"} \cup (IF c.mode = "apipool" THEN {"baidu"} ELSE {})
    [] s = "baidu_web" -> IF c.mode = "apipool" THEN {"baidu_web"} ELSE {"baidu"}
    [] s = "tavily"    -> {"tavily", "tavily_api"}
    [] OTHER           -> {s}

\* academicSourceCatalog, Active.
AcademicActive(c) ==
  {e \in Papers : c.academic /\ e \notin c.disabled /\ (e \in Abroad => c.intl /\ ~c.direct)}
=============================================================================
