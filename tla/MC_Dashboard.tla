--------------------------- MODULE MC_Dashboard ---------------------------
(* The control center: what it saves and shows, or the allowance it asks a  *)
(* vendor for.  The two share nothing, and a behaviour is of one of them.   *)
EXTENDS Dashboard, Quota, TLC

Keys(have) == [p \in Api |-> IF p \in have THEN "key" ELSE "none"]
Base(have, on, direct, ai) ==
  [mode |-> "baidu", keys |-> Keys(have), on |-> on, direct |-> direct, ai |-> ai, engines |-> {},
   academic |-> TRUE, disabled |-> {"google_scholar"}, intl |-> TRUE]
Doc(mode, bing, engines) ==
  "mode" :> mode @@ "bing.enabled" :> bing @@ "apipool.engines" :> engines

\* Every mode with keys and engines of each kind: a few attempts, and a
\* restart into each other mode.
Asked(file, changes) == [file |-> file, changes |-> changes, confirm |-> TRUE]
Views ==
  {[doc |-> Doc(mode, bing, engines), secrets |-> NoSecrets, base |-> Base(have, on, direct, ai),
    requests |-> <<>>, events |-> 2, clock |-> 0, stops |-> 0] :
      mode \in Modes \cup {"hybird"}, bing \in {"on", "off"}, engines \in {{}, {"baidu", "doubao"}},
      have \in {{}, {"baidu"}, {"tavily"}, {"baidu", "tavily", "doubao"}},
      on \in {{"baidu_web", "google"}, {"duckduckgo"}, {}}, direct \in BOOLEAN, ai \in BOOLEAN}
Modal ==
  {[doc |-> Doc(mode, "on", {}), secrets |-> NoSecrets,
    base |-> Base({"baidu", "tavily"}, {"baidu_web", "bing"}, FALSE, TRUE),
    requests |-> <<Asked("config", "mode" :> next)>>, events |-> 2, clock |-> 0, stops |-> 1] :
      mode \in {"hybrid", "apipool", "baidu"}, next \in {"engine", "apipool", "tavily"}}

\* Requests beside each other, and after each other, within a second and
\* across seconds.
Saves ==
  {[doc |-> Doc("hybrid", bing, {}), secrets |-> NoSecrets, base |-> Base({"baidu"}, {"bing"}, FALSE, TRUE),
    requests |-> asks, events |-> 0, clock |-> 1, stops |-> 2] :
      bing \in {"absent", "null"},
      asks \in {<<Asked("config", "mode" :> "engine"), Asked("config", "bing.enabled" :> "off"),
                  Asked("config", "apipool.engines" :> {"exa"})>>,
                <<Asked("config", "mode" :> "apipool" @@ "bing.enabled" :> "on"),
                  Asked("config", "mode" :> "none"), [Asked("config", "mode" :> "exa") EXCEPT !.confirm = FALSE]>>}}
Hidden ==
  {[doc |-> Doc(mode, "on", {}), secrets |-> [NoSecrets EXCEPT !["exa"] = "key"],
    base |-> Base({"baidu"}, {"bing"}, FALSE, TRUE),
    requests |-> <<Asked("secrets", p :> "key"), Asked("secrets", "exa" :> left), Asked("config", "mode" :> "exa")>>,
    events |-> 0, clock |-> 0, stops |-> 2] :
      mode \in {"tavily", "exa"}, p \in {"tavily", "exa"}, left \in {"none", "blank"}}

MCScenarios == Views \cup Modal \cup Saves \cup Hidden

VARIABLE part

MCInit ==
  /\ Init /\ QuotaInit
  /\ \/ part = "saves" /\ hasKey
     \/ part = "quota" /\ conf = CHOOSE s \in Hidden : TRUE

MCNext ==
  /\ UNCHANGED part
  /\ \/ part = "saves" /\ Next /\ UNCHANGED quotaVars
     \/ part = "quota" /\ QuotaNext /\ UNCHANGED vars

MCSpec == MCInit /\ [][MCNext]_<<vars, quotaVars, part>>
=============================================================================
