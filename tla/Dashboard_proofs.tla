-------------------------- MODULE Dashboard_proofs --------------------------
(* Proofs about the control center, for every set of scenarios and viewers, *)
(* every configuration and any number of requests: the vendor is asked once *)
(* per period, what was saved is kept, what was torn is backed up, and the  *)
(* sources shown are those the process was built from.                      *)
EXTENDS Dashboard, Quota, FiniteSetTheorems, TLAPS

-----------------------------------------------------------------------------
(* The allowance                                                           *)

QuotaType ==
  /\ hasKey \in BOOLEAN
  /\ hour \in Nat /\ cachedAt \in Nat /\ askedAt \in Int
  /\ view \in [Viewers -> Places]

Inside(v) == view[v] \in {"held", "asking"}

\* One viewer at a time is inside the lock.
OneInside == \A v, w \in Viewers : Inside(v) /\ Inside(w) => v = w

\* Unless a viewer is about to write the answer down, what is held is no
\* older than the last request to the vendor, which failed or not.
AskedIsHeld ==
  /\ askedAt <= hour
  /\ (\A v \in Viewers : view[v] # "asking") /\ askedAt # -1 =>
       cached # "nothing" /\ cachedAt >= askedAt

NoKeyNoRequest == ~ hasKey => askedAt = -1 /\ \A v \in Viewers : view[v] # "asking"

QuotaInv == QuotaType /\ OneInside /\ AskedIsHeld /\ NoKeyNoRequest /\ spared

LEMMA QuotaInit_Inv == QuotaInit => QuotaInv
  BY DEF QuotaInit, QuotaInv, QuotaType, OneInside, Inside, AskedIsHeld, NoKeyNoRequest, Places

LEMMA Get_Inv ==
  ASSUME QuotaInv, NEW v \in Viewers, Get(v)
  PROVE  QuotaInv'
<1> USE DEF QuotaInv
<1>0. /\ view[v] = "held" /\ UNCHANGED <<hasKey, hour>>
      /\ See(v, "out") \/ See(v, "asking")
      /\ UNCHANGED cachedAt \/ cachedAt' = hour
      /\ UNCHANGED askedAt \/ askedAt' = hour
  BY DEF Get, Leaves, Hold
<1>1. QuotaType' /\ OneInside'
  BY <1>0 DEF QuotaType, OneInside, Inside, See, Places
<1>2. \A w \in Viewers : view[w] # "asking"
  BY DEF Get, OneInside, Inside
<1>3. CASE Valid /\ Leaves(v) /\ UNCHANGED <<cached, cachedAt, askedAt, spared>>
  BY <1>1, <1>2, <1>3 DEF Get, Leaves, See, AskedIsHeld, NoKeyNoRequest, QuotaType
<1>4. CASE ~ Valid /\ ~ hasKey /\ Leaves(v) /\ Hold("not_configured") /\ UNCHANGED <<askedAt, spared>>
  BY <1>1, <1>2, <1>4 DEF Get, Leaves, See, Hold, AskedIsHeld, NoKeyNoRequest, QuotaType
<1>5. CASE /\ ~ Valid /\ hasKey /\ See(v, "asking")
           /\ spared' = (askedAt = -1 \/ hour - askedAt >= CacheTTL)
           /\ askedAt' = hour /\ UNCHANGED <<gone, cached, cachedAt>>
  <2>1. askedAt = -1 \/ hour - askedAt >= CacheTTL
    BY <1>2, <1>5, QuotaAssumption DEF AskedIsHeld, Valid, QuotaType
  <2>2. AskedIsHeld' /\ NoKeyNoRequest'
    BY <1>5 DEF Get, See, AskedIsHeld, NoKeyNoRequest, QuotaType
  <2> QED
    BY <1>1, <2>1, <2>2, <1>5
<1> QED
  BY <1>3, <1>4, <1>5 DEF Get

LEMMA QuotaNext_Inv == QuotaInv /\ [QuotaNext]_quotaVars => QuotaInv'
<1> SUFFICES ASSUME QuotaInv, [QuotaNext]_quotaVars PROVE QuotaInv'
  OBVIOUS
<1>1. CASE Hour
  BY <1>1 DEF Hour, QuotaInv, QuotaType, OneInside, Inside, AskedIsHeld, NoKeyNoRequest
<1>2. ASSUME NEW v \in Viewers, View(v) \/ Close(v) \/ Lock(v) PROVE QuotaInv'
  BY <1>2 DEF View, Close, Lock, Locked, See, QuotaInv, QuotaType, OneInside, Inside, AskedIsHeld, NoKeyNoRequest, Places
<1>3. ASSUME NEW v \in Viewers, Told(v) PROVE QuotaInv'
  BY <1>3 DEF Told, Leaves, Hold, See, QuotaInv, QuotaType, OneInside, Inside, AskedIsHeld, NoKeyNoRequest, Places
<1>4. CASE UNCHANGED quotaVars
  BY <1>4 DEF quotaVars, QuotaInv, QuotaType, OneInside, Inside, AskedIsHeld, NoKeyNoRequest
<1> QED
  BY <1>1, <1>2, <1>3, <1>4, Get_Inv DEF QuotaNext

LEMMA QuotaInv_Spared == QuotaInv => VendorIsSpared
<1> SUFFICES ASSUME QuotaInv PROVE VendorIsSpared
  OBVIOUS
<1> DEFINE asking == {v \in Viewers : view[v] = "asking"}
<1>1. asking = {} \/ \E v : asking = {v}
  BY DEF QuotaInv, OneInside, Inside
<1>2. Cardinality(asking) <= 1
  <2> HIDE DEF asking
  <2>1. CASE asking = {}
    BY <2>1, FS_EmptySet
  <2>2. ASSUME NEW v, asking = {v} PROVE Cardinality(asking) <= 1
    <3>1. Cardinality({v}) = 1
      BY FS_Singleton
    <3> QED
      BY <2>2, <3>1
  <2> QED
    BY <1>1, <2>1, <2>2
<1> QED
  BY <1>2 DEF QuotaInv, NoKeyNoRequest, VendorIsSpared

\* However many viewers there are and whatever becomes of their requests, the
\* vendor is asked at most once per period, by one of them, and only with a key.
THEOREM QuotaSpec_VendorIsSpared == QuotaSpec => []VendorIsSpared
  BY QuotaInit_Inv, QuotaNext_Inv, QuotaInv_Spared, PTL DEF QuotaSpec

-----------------------------------------------------------------------------
(* What a configuration means                                              *)

Sound(c) ==
  /\ c.mode \in Modes /\ c.on \subseteq Web /\ c.keys \in [Api -> Secret]
  /\ c.direct \in BOOLEAN /\ c.academic \in BOOLEAN /\ c.intl \in BOOLEAN

LEMMA ApiIsNotWeb == Api \cap Web = {} /\ Sources = Api \cup Web
  BY DEF Api, Web, Sources

\* Where no provider's keys are all blank, the factory and the catalog agree.
LEMMA ActiveIsPrimary ==
  ASSUME NEW c, Sound(c), \A p \in Api : c.keys[p] # "blank"
  PROVE  Active(c) = Primary(c)
<1>1. KeyPools(c) = {p \in Api : HasKeys(c, p)}
  BY DEF Sound, Secret, KeyPools, HasKeys
<1>2. WebEngines(c) = {e \in c.on : e # "duckduckgo" \/ ~c.direct}
  BY DEF Sound, WebEngines
<1>3. /\ Configured(c) = KeyPools(c) \cup WebEngines(c)
      /\ KeyPools(c) \subseteq Api /\ WebEngines(c) \subseteq Web
  BY <1>1, <1>2 DEF Configured, Sound
<1> HIDE DEF KeyPools, WebEngines, Configured
<1> USE <1>3
<1>4. CASE c.mode = "engine"
  BY <1>4, ApiIsNotWeb DEF Active, Primary, BuildEngineMode
<1>5. CASE c.mode = "hybrid"
  BY <1>5 DEF Active, Primary, BuildHybridMode
<1>6. CASE c.mode = "apipool"
  BY <1>6 DEF Active, Primary, BuildApipoolMode, Api, Web
<1>7. CASE c.mode = "baidu"
  BY <1>7 DEF Active, Primary, BuildBaiduMode, Api, Web
<1>8. CASE c.mode \in {"tavily", "exa", "anysearch", "doubao"}
  BY <1>8 DEF Active, Primary, BuildSingleMode, Api, Web
<1> QED
  BY <1>4, <1>5, <1>6, <1>7, <1>8 DEF Sound, Modes

LEMMA PapersAreActive == ASSUME NEW c, Sound(c) PROVE AcademicActive(c) = PaperEngines(c)
  BY DEF Sound, AcademicActive, PaperEngines, BuildAcademic

\* The names under which an engine's attempts are recorded outside the key pool.
NamesOf(e) ==
  CASE e = "baidu"     -> {"baidu_ai", "baidu_api"}
    [] e = "tavily"    -> {"tavily_api"}
    [] e = "baidu_web" -> {"baidu"}
    [] OTHER           -> {e}

LEMMA EventHasName ==
  ASSUME NEW c, NEW e \in Sources
  PROVE  /\ c.mode = "apipool" => EventName(c, e) = e
         /\ c.mode # "apipool" => EventName(c, e) \in NamesOf(e)
<1>1. CASE c.mode = "apipool"
  BY <1>1 DEF EventName
<1>2. CASE c.mode # "apipool" /\ e = "baidu"
  <2>1. EventName(c, e) = IF c.ai /\ ~(c.mode = "baidu" /\ "baidu_web" \in WebEngines(c))
                          THEN "baidu_ai" ELSE "baidu_api"
    BY <1>2 DEF EventName
  <2> QED
    BY <1>2, <2>1, Zenon DEF NamesOf
<1>3. CASE c.mode # "apipool" /\ e # "baidu"
  BY <1>3 DEF EventName, NamesOf, Sources, Api, Web
<1> QED
  BY <1>1, <1>2, <1>3

\* The names a row looks for are those of its engine and of no other.
LEMMA AliasesAreNames ==
  ASSUME NEW c, NEW e \in Sources, NEW s \in Sources, NEW name,
         IF c.mode = "apipool" THEN name = e ELSE name \in NamesOf(e)
  PROVE  name \in Aliases(c, s) <=> e = s
<1>1. CASE c.mode = "apipool"
  BY <1>1 DEF Aliases, Sources, Api, Web
<1>2. CASE c.mode # "apipool"
  BY <1>2 DEF Aliases, NamesOf, Sources, Api, Web
<1> QED
  BY <1>1, <1>2

-----------------------------------------------------------------------------
(* Requests, files and backups                                             *)

Labels == {"new", "refused", "read", "failed", "backup", "backing", "open", "write",
           "applied", "torn", "dead"}
Changes(r) == conf.requests[r].changes

\* A request has its fields, and goes on at the file it was made for.
IsRequest(q) ==
  q \in [pc : Labels, file : Files, old : {q.old}, next : {q.next}, due : {q.due},
        name : {q.name}, alone : BOOLEAN]
ReqInv ==
  /\ conf \in Scenarios
  /\ DOMAIN req = Request
  /\ \A r \in Request :
       /\ IsRequest(req[r]) /\ req[r].file = conf.requests[r].file
       /\ req[r].pc \in {"backup", "backing"} => req[r].file = "config"
       /\ req[r].pc = "read" => ValidateSetting(Changes(r))

\* A file is torn or holds a text, and what is about to be written is a text.
TextInv ==
  /\ DOMAIN files = Files /\ DOMAIN owed = Files
  /\ \A f \in Files : files[f] \in Torn \/ IsText(f, files[f])
  /\ \A r \in Request : HasRead(r) => IsText(req[r].file, req[r].next)

\* A request that is alone is the only one to have read its file.
Agree(next, values, but) ==
  \A p \in DOMAIN values \ but : p \in DOMAIN next /\ next[p] = values[p]
AloneInv ==
  \A r, o \in Request :
    HasRead(r) /\ req[r].alone /\ HasRead(o) /\ req[o].file = req[r].file => o = r

\* What a request is about to write has its changes, and beside them what was
\* owed when it read the file; one that is alone leaves the file empty until then.
SaveInv ==
  \A r \in Request : HasRead(r) =>
    /\ Agree(req[r].next, Changes(r), {})
    /\ Agree(req[r].next, req[r].due, DOMAIN Changes(r))
    /\ req[r].pc = "write" /\ req[r].alone => files[req[r].file] = Empty

\* A file that can be read has what is owed; one that cannot has been torn.
Cause(f) ==
  \E r \in Request :
    /\ req[r].file = f
    /\ req[r].pc \in {"write", "torn"} \/ (req[r].pc = "applied" /\ ~ req[r].alone)
KeptInv ==
  \A f \in Files :
    /\ files[f] \notin Torn => Agree(files[f], owed[f], {})
    /\ files[f] \in Torn /\ owed[f] # Nothing => Cause(f)

\* The backup of a request that is alone is its own, from its opening on.
BackupInv ==
  \A r \in Request : req[r].file = "config" /\ req[r].alone =>
    /\ req[r].pc = "backing" => req[r].name \in DOMAIN backups /\ backups[req[r].name] = Empty
    /\ req[r].pc \in {"open", "write", "torn"} =>
         req[r].name \in DOMAIN backups /\ backups[req[r].name] = req[r].old

\* After a request that tore the configuration alone, none can read it.
TornInv ==
  \A r \in Request : req[r].file = "config" /\ req[r].alone /\ req[r].pc = "torn" =>
    /\ files["config"] \in Torn
    /\ \A o \in Request : ~ (HasRead(o) /\ req[o].file = "config")

SavesInv == ReqInv /\ TextInv /\ AloneInv /\ SaveInv /\ KeptInv /\ BackupInv /\ TornInv

-----------------------------------------------------------------------------
(* The process and its log                                                 *)

ServerInv ==
  /\ server.up \in BOOLEAN
  /\ server.up => /\ Sound(server.conf)
                  /\ server.built = Primary(server.conf)
                  /\ server.papers = PaperEngines(server.conf)

Names == UNION {NamesOf(e) \cup {e} : e \in Sources}
Entries ==
  {x \in [name : Names, source : Sources, pooled : BOOLEAN] :
     IF x.pooled THEN x.name = x.source ELSE x.name \in NamesOf(x.source)}
LogInv == log \in Seq(Entries)

-----------------------------------------------------------------------------
(* The steps of a request                                                  *)

\* What a request that goes on leaves as it was.
Moves(r, label) ==
  /\ DOMAIN req' = Request
  /\ \A o \in Request :
       /\ req'[o].pc = (IF o = r THEN label ELSE req[o].pc)
       /\ req'[o].file = req[o].file /\ req'[o].old = req[o].old
       /\ req'[o].next = req[o].next /\ req'[o].name = req[o].name
       /\ req'[o].due = req[o].due /\ req'[o].alone = req[o].alone
       /\ IsRequest(req'[o])

LEMMA SetPc ==
  ASSUME ReqInv, NEW r \in Request, NEW label \in Labels, req' = [req EXCEPT ![r].pc = label]
  PROVE  Moves(r, label)
  BY DEF ReqInv, IsRequest, Moves

\* Request depends on the scenario only, which stays.
LEMMA SameRequests == UNCHANGED conf => Request' = Request /\ \A r : Changes(r)' = Changes(r)
  BY DEF Request, Changes

LEMMA SavesInit == Init => SavesInv
<1> SUFFICES ASSUME Init PROVE SavesInv
  OBVIOUS
<1>1. ReqInv
  BY DashboardAssumption DEF Init, ReqInv, IsRequest, Request, Labels
<1>2. TextInv
  BY DashboardAssumption DEF Init, TextInv, Files, HasRead
<1>3. \A r \in Request : req[r].pc = "new" /\ ~ HasRead(r)
  BY DEF Init, HasRead
<1>4. \A f \in Files : owed[f] = Nothing
  BY DEF Init
<1> QED
  BY <1>1, <1>2, <1>3, <1>4 DEF SavesInv, AloneInv, SaveInv, KeptInv, BackupInv, TornInv, Agree, Nothing

\* A step that only moves a request to a place where it holds nothing.
LEMMA PostSaves ==
  ASSUME SavesInv, NEW r \in Request, Post(r)
  PROVE  SavesInv'
<1> USE DEF SavesInv
<1>1. PICK label \in {"read", "refused"} :
        /\ req' = [req EXCEPT ![r].pc = label]
        /\ label = "read" => ValidateSetting(Changes(r))
  BY DEF Post, Changes
<1>2. Moves(r, label)
  BY <1>1, SetPc DEF Labels
<1>3. /\ UNCHANGED <<conf, files, backups, owed>> /\ req[r].pc = "new"
      /\ Request' = Request /\ \A o : Changes(o)' = Changes(o)
  BY SameRequests DEF Post
<1>4. \A o \in Request : /\ HasRead(o)' <=> HasRead(o)
                         /\ \A l \in {"write", "torn", "applied"} : req'[o].pc = l <=> req[o].pc = l
  BY <1>1, <1>2, <1>3 DEF Moves, HasRead
<1>5. ReqInv'
  BY <1>1, <1>2, <1>3 DEF ReqInv, Moves, ValidateSetting
<1>6. TextInv' /\ AloneInv' /\ SaveInv' /\ KeptInv'
  BY <1>2, <1>3, <1>4 DEF TextInv, AloneInv, SaveInv, KeptInv, Cause, Moves
<1>7. BackupInv' /\ TornInv'
  BY <1>1, <1>2, <1>3, <1>4 DEF BackupInv, TornInv, Moves
<1> QED
  BY <1>5, <1>6, <1>7

\* The text made from a file and valid changes is a text of that file.
LEMMA NextIsText ==
  ASSUME ReqInv, NEW r \in Request, ValidateSetting(Changes(r)),
         NEW text, IsText(req[r].file, text)
  PROVE  IsText(req[r].file, Over(Changes(r), text))
<1> DEFINE f == req[r].file
           c == Changes(r)
           d == Over(c, text)
<1>1. f \in Files /\ conf \in Scenarios /\ f = conf.requests[r].file
  BY DEF ReqInv, IsRequest
<1>2. DOMAIN c \cap (IF f = "secrets" THEN Paths ELSE Api) = {}
  BY <1>1, DashboardAssumption DEF Request, Changes
<1>3. \A p \in DOMAIN c : c[p] \in Allowed(p) /\ p \in Paths \cup Api
  BY DEF ValidateSetting, Allowed, Paths
<1>4. CASE f = "secrets"
  <2>1. DOMAIN c \subseteq Api
    BY <1>2, <1>3, <1>4
  <2>2. \A p \in DOMAIN c : c[p] \in Secret
    BY <2>1, <1>3 DEF Allowed, Api
  <2>3. IsText("secrets", text)
    BY <1>4
  <2>4. DOMAIN d = Api /\ \A p \in Api : d[p] \in Secret
    BY <2>1, <2>2, <2>3, <1>4 DEF IsText, Over
  <2> QED
    BY <2>4, <1>4 DEF IsText
<1>5. CASE f = "config"
  <2>1. DOMAIN c \subseteq Paths
    BY <1>2, <1>3, <1>5
  <2>2. IsText("config", text)
    BY <1>5
  <2> QED
    BY <2>1, <2>2, <1>5 DEF IsText, Over
<1> QED
  BY <1>1, <1>4, <1>5 DEF Files

\* A request that ends without having touched a file.
LEMMA FailedSaves ==
  ASSUME SavesInv, NEW r \in Request, req[r].pc \in {"read", "backup", "open"},
         req' = [req EXCEPT ![r].pc = "failed"], UNCHANGED <<conf, files, backups, owed>>
  PROVE  SavesInv'
<1> USE DEF SavesInv
<1>1. Request' = Request /\ \A o : Changes(o)' = Changes(o)
  BY SameRequests
<1>2. Moves(r, "failed")
  BY SetPc DEF Labels
<1>3. \A o \in Request : /\ HasRead(o)' => HasRead(o)
                         /\ \A l \in {"write", "torn", "applied"} : req'[o].pc = l <=> req[o].pc = l
  BY <1>1, <1>2 DEF Moves, HasRead
<1>4. ReqInv'
  BY <1>1, <1>2 DEF ReqInv, Moves, ValidateSetting
<1>5. TextInv' /\ AloneInv' /\ SaveInv' /\ KeptInv'
  BY <1>1, <1>2, <1>3 DEF TextInv, AloneInv, SaveInv, KeptInv, Cause, Moves
<1>6. BackupInv' /\ TornInv'
  BY <1>1, <1>2, <1>3 DEF BackupInv, TornInv, Moves
<1> QED
  BY <1>4, <1>5, <1>6

\* A request that has read a text with what is owed goes on.
LEMMA GoOnSaves ==
  ASSUME SavesInv, NEW r \in Request, req[r].pc = "read",
         NEW text, NEW values, GoOn(r, text, values),
         IsText(req[r].file, text), Agree(text, values, {}),
         req[r].file = "config" => files["config"] \notin Torn,
         UNCHANGED <<conf, files, backups, owed>>
  PROVE  SavesInv'
<1> USE DEF SavesInv
<1> DEFINE f == req[r].file
           d == Over(Changes(r), text)
           others == Overlapping(r)
<1>1. /\ Request' = Request /\ \A o : Changes(o)' = Changes(o)
      /\ ValidateSetting(Changes(r)) /\ IsRequest(req[r]) /\ f \in Files
  BY SameRequests DEF ReqInv, IsRequest
<1>2. /\ DOMAIN req' = Request
      /\ IsRequest(req'[r]) /\ req'[r].file = f /\ req'[r].next = d /\ req'[r].due = values
      /\ req'[r].alone => others = {}
      /\ req'[r].pc = (IF f = "config" THEN "backup" ELSE "open")
  BY <1>1 DEF GoOn, IsRequest, Labels, Changes
<1>3. \A o \in Request \ {r} :
        /\ IsRequest(req'[o]) /\ req'[o].file = req[o].file /\ req'[o].pc = req[o].pc
        /\ req'[o].next = req[o].next /\ req'[o].name = req[o].name /\ req'[o].old = req[o].old
        /\ req'[o].due = req[o].due
        /\ req'[o].alone => req[o].alone /\ o \notin others
        /\ ~ HasRead(o) => req'[o].alone = req[o].alone
  BY DEF GoOn, IsRequest, ReqInv, Overlapping
<1>4. IsText(f, d)
  BY <1>1, NextIsText
<1>5. /\ \A o \in Request \ {r} : HasRead(o)' <=> HasRead(o)
      /\ ~ HasRead(r) /\ HasRead(r)'
      /\ \A o \in Request :
           /\ req'[o].file = req[o].file
           /\ \A l \in {"write", "torn", "applied"} : req'[o].pc = l <=> req[o].pc = l
  BY <1>1, <1>2, <1>3 DEF HasRead, IsRequest
<1>6. ReqInv' /\ TextInv'
  BY <1>1, <1>2, <1>3, <1>4, <1>5 DEF ReqInv, TextInv, ValidateSetting
<1>7. AloneInv'
  BY <1>1, <1>2, <1>3, <1>5 DEF AloneInv, Overlapping
<1>8. Agree(d, Changes(r), {}) /\ Agree(d, values, DOMAIN Changes(r))
  BY DEF Agree, Over
<1>9. SaveInv'
  <2> HIDE DEF d, f
  <2> QED
    BY <1>1, <1>2, <1>3, <1>5, <1>8 DEF SaveInv, f
<1>10. KeptInv'
  <2>1. \A g \in Files : Cause(g) => Cause(g)'
    BY <1>1, <1>3, <1>5 DEF Cause, HasRead
  <2> QED
    BY <2>1 DEF KeptInv
<1>11. BackupInv'
  BY <1>1, <1>2, <1>3 DEF BackupInv
<1>12. TornInv'
  <2> SUFFICES ASSUME NEW o \in Request, req'[o].file = "config", req'[o].alone, req'[o].pc = "torn"
               PROVE  /\ files["config"] \in Torn
                      /\ \A q \in Request : ~ (HasRead(q)' /\ req'[q].file = "config")
    BY <1>1 DEF TornInv
  <2>1. o # r /\ req[o].file = "config" /\ req[o].alone /\ req[o].pc = "torn"
    BY <1>2, <1>3
  <2>2. files["config"] \in Torn /\ f # "config"
    BY <2>1 DEF TornInv
  <2> QED
    BY <1>5, <2>1, <2>2 DEF TornInv
<1> QED
  BY <1>6, <1>7, <1>9, <1>10, <1>11, <1>12

LEMMA ReadFileSaves ==
  ASSUME SavesInv, NEW r \in Request, ReadFile(r)
  PROVE  SavesInv'
<1> DEFINE f == req[r].file
           values == IF files[f] \in Torn THEN Nothing ELSE owed[f]
<1>1. req[r].pc = "read" /\ UNCHANGED <<conf, files, backups, owed>> /\ f \in Files
  BY DEF ReadFile, SavesInv, ReqInv, IsRequest
<1>2. CASE req' = [req EXCEPT ![r].pc = "failed"]
  BY <1>1, <1>2, FailedSaves
<1>3. CASE (f = "config" => files[f] \notin Torn) /\ GoOn(r, OldText(f), values)
  <2>1. IsText(f, OldText(f))
    BY <1>1, <1>3 DEF SavesInv, TextInv, IsText, OldText, Files, NoSecrets, Secret
  <2>2. Agree(OldText(f), values, {})
    <3>1. CASE files[f] \in Torn
      BY <3>1 DEF Agree, Nothing
    <3>2. CASE files[f] \notin Torn
      BY <1>1, <3>2 DEF OldText, SavesInv, KeptInv
    <3> QED
      BY <3>1, <3>2
  <2> HIDE DEF values
  <2> QED
    BY <1>1, <1>3, <2>1, <2>2, GoOnSaves
<1> QED
  BY <1>2, <1>3 DEF ReadFile

LEMMA OpenBackupSaves ==
  ASSUME SavesInv, NEW r \in Request, OpenBackup(r)
  PROVE  SavesInv'
<1> USE DEF SavesInv
<1>1. /\ UNCHANGED <<conf, files, owed>> /\ req[r].pc = "backup" /\ req[r].file = "config"
      /\ Request' = Request /\ \A o : Changes(o)' = Changes(o)
      /\ backups' = [t \in DOMAIN backups \cup {clock} |-> IF t = clock THEN Empty ELSE backups[t]]
      /\ req' = [req EXCEPT ![r].pc = "backing", ![r].name = clock]
  BY SameRequests DEF OpenBackup, ReqInv
<1>2. /\ DOMAIN req' = Request
      /\ \A o \in Request : /\ IsRequest(req'[o])
                            /\ req'[o].pc = (IF o = r THEN "backing" ELSE req[o].pc)
                            /\ req'[o].file = req[o].file /\ req'[o].next = req[o].next
                            /\ req'[o].old = req[o].old /\ req'[o].alone = req[o].alone
                            /\ req'[o].due = req[o].due
                            /\ o # r => req'[o].name = req[o].name
      /\ req'[r].name = clock
  <2>1. /\ DOMAIN req' = Request
        /\ \A o \in Request \ {r} : req'[o] = req[o]
        /\ req'[r] = [req[r] EXCEPT !.pc = "backing", !.name = clock]
    BY <1>1 DEF ReqInv
  <2>2. \A o \in Request : IsRequest(req[o])
    BY DEF ReqInv
  <2>3. /\ IsRequest(req'[r]) /\ req'[r].pc = "backing" /\ req'[r].name = clock
        /\ req'[r].file = req[r].file /\ req'[r].next = req[r].next
        /\ req'[r].old = req[r].old /\ req'[r].alone = req[r].alone /\ req'[r].due = req[r].due
    BY <2>1, <2>2 DEF IsRequest, Labels
  <2> QED
    BY <2>1, <2>2, <2>3
<1>3. \A o \in Request : /\ HasRead(o)' <=> HasRead(o)
                         /\ \A l \in {"write", "torn", "applied"} : req'[o].pc = l <=> req[o].pc = l
  BY <1>1, <1>2 DEF HasRead
<1>4. ReqInv' /\ TextInv' /\ AloneInv' /\ SaveInv' /\ KeptInv'
  BY <1>1, <1>2, <1>3 DEF ReqInv, TextInv, AloneInv, SaveInv, KeptInv, Cause, ValidateSetting
<1>5. \A o \in Request : ~ (req[o].file = "config" /\ req[o].alone /\ req[o].pc = "torn")
  BY <1>1 DEF TornInv, HasRead
<1>6. BackupInv'
  <2> SUFFICES ASSUME NEW o \in Request, req[o].file = "config", req[o].alone
               PROVE  /\ req'[o].pc = "backing" => req'[o].name \in DOMAIN backups' /\ backups'[req'[o].name] = Empty
                      /\ req'[o].pc \in {"open", "write", "torn"} =>
                           req'[o].name \in DOMAIN backups' /\ backups'[req'[o].name] = req'[o].old
    <3> HIDE DEF SavesInv
    <3>1. Request' = Request /\ \A o \in Request : req'[o].file = req[o].file /\ req'[o].alone = req[o].alone
      BY <1>1, <1>2
    <3> QED
      BY <3>1 DEF BackupInv
  <2>1. CASE o = r
    BY <1>1, <1>2, <2>1
  <2>2. CASE o # r
    BY <1>1, <1>2, <1>5, <2>2 DEF AloneInv, HasRead
  <2> QED
    BY <2>1, <2>2
<1>7. TornInv'
  BY <1>1, <1>2, <1>5 DEF TornInv
<1> QED
  BY <1>4, <1>6, <1>7

LEMMA WriteBackupSaves ==
  ASSUME SavesInv, NEW r \in Request, WriteBackup(r)
  PROVE  SavesInv'
<1> USE DEF SavesInv
<1>1. /\ UNCHANGED <<conf, files, owed>> /\ req[r].pc = "backing" /\ req[r].file = "config"
      /\ Request' = Request /\ \A o : Changes(o)' = Changes(o)
      /\ req' = [req EXCEPT ![r].pc = "open"]
  BY SameRequests DEF WriteBackup, ReqInv
<1>2. Moves(r, "open")
  BY <1>1, SetPc DEF Labels
<1>3. \A o \in Request : /\ HasRead(o)' <=> HasRead(o)
                         /\ \A l \in {"write", "torn", "applied"} : req'[o].pc = l <=> req[o].pc = l
  BY <1>1, <1>2 DEF HasRead, Moves
<1>4. ReqInv' /\ TextInv' /\ AloneInv' /\ SaveInv' /\ KeptInv'
  BY <1>1, <1>2, <1>3 DEF ReqInv, TextInv, AloneInv, SaveInv, KeptInv, Cause, ValidateSetting, Moves
<1>5. \A o \in Request : ~ (req[o].file = "config" /\ req[o].alone /\ req[o].pc = "torn")
  BY <1>1 DEF TornInv, HasRead
<1>6. PICK text \in Written(backups[req[r].name], req[r].old) :
        backups' = [backups EXCEPT ![req[r].name] = text]
  BY DEF WriteBackup, BackupText
<1>7. BackupInv'
  <2> SUFFICES ASSUME NEW o \in Request, req[o].file = "config", req[o].alone
               PROVE  /\ req'[o].pc = "backing" => req[o].name \in DOMAIN backups' /\ backups'[req[o].name] = Empty
                      /\ req'[o].pc \in {"open", "write", "torn"} =>
                           req[o].name \in DOMAIN backups' /\ backups'[req[o].name] = req[o].old
    BY <1>1, <1>2 DEF BackupInv, Moves
  <2>1. CASE o = r
    BY <1>1, <1>2, <1>6, <2>1 DEF BackupInv, Moves, Written
  <2>2. CASE o # r
    BY <1>1, <1>2, <1>5, <2>2 DEF AloneInv, HasRead, Moves
  <2> QED
    BY <2>1, <2>2
<1>8. TornInv'
  BY <1>1, <1>2, <1>5 DEF TornInv, Moves
<1> QED
  BY <1>4, <1>7, <1>8

LEMMA OpenFileSaves ==
  ASSUME SavesInv, NEW r \in Request, OpenFile(r)
  PROVE  SavesInv'
<1> USE DEF SavesInv
<1> DEFINE f == req[r].file
<1>1. /\ UNCHANGED <<conf, backups, owed>> /\ req[r].pc = "open"
      /\ Request' = Request /\ \A o : Changes(o)' = Changes(o)
      /\ req' = [req EXCEPT ![r].pc = "write"] /\ files' = [files EXCEPT ![f] = Empty]
      /\ f \in Files
  BY SameRequests DEF OpenFile, ReqInv, IsRequest
<1>2. Moves(r, "write")
  BY <1>1, SetPc DEF Labels
<1>3. \A o \in Request : HasRead(o)' <=> HasRead(o)
  BY <1>1, <1>2 DEF HasRead, Moves
<1>4. ReqInv' /\ TextInv' /\ AloneInv'
  BY <1>1, <1>2, <1>3 DEF ReqInv, TextInv, AloneInv, ValidateSetting, Moves, Torn
<1>5. SaveInv'
  <2> SUFFICES ASSUME NEW o \in Request, HasRead(o)
               PROVE  /\ Agree(req[o].next, Changes(o), {})
                      /\ Agree(req[o].next, req[o].due, DOMAIN Changes(o))
                      /\ req'[o].pc = "write" /\ req[o].alone => files'[req[o].file] = Empty
    BY <1>1, <1>2, <1>3 DEF SaveInv, Moves
  <2>1. CASE o = r
    BY <1>1, <2>1 DEF SaveInv, TextInv
  <2>2. CASE o # r
    BY <1>1, <1>2, <2>2 DEF SaveInv, TextInv, Moves
  <2> QED
    BY <2>1, <2>2
<1>6. KeptInv'
  <2> SUFFICES ASSUME NEW g \in Files
               PROVE  /\ files'[g] \notin Torn => Agree(files'[g], owed[g], {})
                      /\ files'[g] \in Torn /\ owed[g] # Nothing => Cause(g)'
    BY <1>1 DEF KeptInv
  <2>1. CASE g = f
    <3>1. files'[g] \in Torn
      BY <1>1, <2>1 DEF TextInv, Torn
    <3>2. Cause(g)'
      BY <1>1, <1>2, <2>1 DEF Cause, Moves
    <3> QED
      BY <3>1, <3>2
  <2>2. CASE g # f
    <3>1. Cause(g) => Cause(g)'
      BY <1>1, <1>2, <2>2 DEF Cause, Moves
    <3> QED
      BY <1>1, <2>2, <3>1 DEF KeptInv, TextInv
  <2> QED
    BY <2>1, <2>2
<1>7. BackupInv'
  BY <1>1, <1>2 DEF BackupInv, Moves
<1>8. TornInv'
  <2>1. files["config"] \in Torn => files'["config"] \in Torn
    BY <1>1 DEF TextInv, Torn, Files
  <2> QED
    BY <1>1, <1>2, <1>3, <2>1 DEF TornInv, Moves
<1> QED
  BY <1>4, <1>5, <1>6, <1>7, <1>8

\* The file of a request that writes it alone is empty until then.
LEMMA OthersWait ==
  ASSUME AloneInv, SaveInv, NEW r \in Request, HasRead(r)
  PROVE  \A o \in Request \ {r} : HasRead(o) /\ req[o].alone => req[o].file # req[r].file
  BY DEF AloneInv

LEMMA WriteFileSaves ==
  ASSUME SavesInv, NEW r \in Request, WriteFile(r)
  PROVE  SavesInv'
<1> USE DEF SavesInv
<1> DEFINE f == req[r].file
<1>1. /\ UNCHANGED <<conf, backups>> /\ req[r].pc = "write"
      /\ Request' = Request /\ \A o : Changes(o)' = Changes(o)
      /\ req' = [req EXCEPT ![r].pc = "applied"]
      /\ owed' = [owed EXCEPT ![f] = OwedBy(r)]
      /\ f \in Files /\ HasRead(r)
  BY SameRequests DEF WriteFile, ReqInv, IsRequest, HasRead
<1>2. PICK text \in Written(files[f], req[r].next) : files' = [files EXCEPT ![f] = text]
  BY DEF WriteFile
<1>3. Moves(r, "applied")
  BY <1>1, SetPc DEF Labels
<1>4. \A o \in Request : HasRead(o)' <=> HasRead(o) /\ o # r
  BY <1>1, <1>3 DEF HasRead, Moves
<1>5. ReqInv' /\ AloneInv'
  BY <1>1, <1>3, <1>4 DEF ReqInv, AloneInv, ValidateSetting, Moves
<1>6. /\ files'[f] = text /\ owed'[f] = OwedBy(r)
      /\ \A g \in Files \ {f} : files'[g] = files[g] /\ owed'[g] = owed[g]
      /\ DOMAIN files' = Files /\ DOMAIN owed' = Files
  BY <1>1, <1>2 DEF TextInv
<1>7. IsText(f, req[r].next) /\ req[r].next \notin Torn
  <2>1. IsText(f, req[r].next)
    BY <1>1 DEF TextInv
  <2> QED
    BY <1>1, <2>1 DEF IsText, Torn, Empty, Nothing, Garbled, Api, Paths
<1>8. text = req[r].next \/ (text = Garbled /\ files[f] # Empty)
  BY DEF Written
<1>9. TextInv'
  <2>1. \A g \in Files : files'[g] \in Torn \/ IsText(g, files'[g])
    <3> HIDE DEF f
    <3> QED
      BY <1>6, <1>7, <1>8 DEF TextInv, Torn
  <2>2. \A o \in Request : HasRead(o)' => IsText(req'[o].file, req'[o].next)
    BY <1>3, <1>4 DEF TextInv, Moves
  <2> QED
    BY <1>1, <1>6, <2>1, <2>2 DEF TextInv
<1>10. SaveInv'
  <2> SUFFICES ASSUME NEW o \in Request, HasRead(o), o # r
               PROVE  /\ Agree(req[o].next, Changes(o), {})
                      /\ Agree(req[o].next, req[o].due, DOMAIN Changes(o))
                      /\ req[o].pc = "write" /\ req[o].alone => files'[req[o].file] = Empty
    BY <1>1, <1>3, <1>4 DEF SaveInv, Moves
  <2>1. req[o].alone => req[o].file # f /\ req[o].file \in Files
    BY <1>1, OthersWait DEF ReqInv, IsRequest
  <2> QED
    BY <1>6, <2>1 DEF SaveInv
<1>11. KeptInv'
  <2> SUFFICES ASSUME NEW g \in Files
               PROVE  /\ files'[g] \notin Torn => Agree(files'[g], owed'[g], {})
                      /\ files'[g] \in Torn /\ owed'[g] # Nothing => Cause(g)'
    BY DEF KeptInv
  <2>1. CASE g # f
    <3>1. Cause(g) => Cause(g)'
      BY <1>1, <1>3, <2>1 DEF Cause, Moves
    <3> QED
      BY <1>6, <2>1, <3>1 DEF KeptInv
  <2>2. CASE g = f /\ text = req[r].next
    <3>1. Agree(req[r].next, Changes(r), {}) /\ Agree(req[r].next, req[r].due, DOMAIN Changes(r))
      BY <1>1 DEF SaveInv
    <3>2. Agree(req[r].next, OwedBy(r), {})
      BY <3>1 DEF Agree, OwedBy, Over, Changes
    <3> QED
      BY <1>6, <1>7, <2>2, <3>2
  <2>3. CASE g = f /\ text = Garbled /\ files[f] # Empty
    <3>1. ~ req[r].alone
      BY <1>1, <2>3 DEF SaveInv
    <3>2. req'[r].pc = "applied" /\ req'[r].file = f /\ ~ req'[r].alone
      BY <1>3, <3>1 DEF Moves
    <3>3. Cause(g)'
      BY <1>1, <2>3, <3>2 DEF Cause
    <3> QED
      BY <1>6, <2>3, <3>3 DEF Torn
  <2> QED
    BY <1>8, <2>1, <2>2, <2>3
<1>12. BackupInv'
  BY <1>1, <1>3 DEF BackupInv, Moves
<1>13. TornInv'
  <2> SUFFICES ASSUME NEW o \in Request, o # r, req[o].file = "config", req[o].alone, req[o].pc = "torn"
               PROVE  /\ files'["config"] \in Torn
                      /\ \A q \in Request : ~ (HasRead(q)' /\ req'[q].file = "config")
    BY <1>1, <1>3 DEF TornInv, Moves
  <2>1. f # "config" /\ files["config"] \in Torn
    BY <1>1 DEF TornInv
  <2> QED
    BY <1>3, <1>4, <1>6, <2>1 DEF TornInv, Moves, Files
<1> QED
  BY <1>5, <1>9, <1>10, <1>11, <1>12, <1>13

LEMMA BackupFailsSaves ==
  ASSUME SavesInv, NEW r \in Request, BackupFails(r), UNCHANGED <<conf, owed>>
  PROVE  SavesInv'
<1> USE DEF SavesInv
<1>1. /\ UNCHANGED files /\ req[r].pc = "backing" /\ req[r].file = "config"
      /\ Request' = Request /\ \A o : Changes(o)' = Changes(o)
      /\ req' = [req EXCEPT ![r].pc = "failed"]
      /\ DOMAIN backups' = DOMAIN backups
  BY SameRequests DEF BackupFails, ReqInv
<1>2. Moves(r, "failed")
  BY <1>1, SetPc DEF Labels
<1>3. \A o \in Request : /\ HasRead(o)' => HasRead(o)
                         /\ \A l \in {"write", "torn", "applied"} : req'[o].pc = l <=> req[o].pc = l
  BY <1>1, <1>2 DEF HasRead, Moves
<1>4. ReqInv' /\ TextInv' /\ AloneInv' /\ SaveInv' /\ KeptInv' /\ TornInv'
  BY <1>1, <1>2, <1>3 DEF ReqInv, TextInv, AloneInv, SaveInv, KeptInv, TornInv, Cause, ValidateSetting, Moves
<1>5. \A o \in Request \ {r} : req[o].file = "config" /\ req[o].alone =>
        req[o].pc \notin {"backing", "open", "write", "torn"}
  BY <1>1 DEF AloneInv, TornInv, HasRead
<1>6. BackupInv'
  BY <1>1, <1>2, <1>5 DEF BackupInv, Moves
<1> QED
  BY <1>4, <1>6

LEMMA WriteFailsSaves ==
  ASSUME SavesInv, NEW r \in Request, WriteFails(r), UNCHANGED <<conf, owed>>
  PROVE  SavesInv'
<1> USE DEF SavesInv
<1> DEFINE f == req[r].file
<1>1. /\ UNCHANGED backups /\ req[r].pc = "write"
      /\ Request' = Request /\ \A o : Changes(o)' = Changes(o)
      /\ req' = [req EXCEPT ![r].pc = "torn"]
      /\ f \in Files /\ HasRead(r)
  BY SameRequests DEF WriteFails, ReqInv, IsRequest, HasRead
<1>2. PICK left \in {files[f], Garbled} : files' = [files EXCEPT ![f] = left]
  BY DEF WriteFails
<1>3. Moves(r, "torn")
  BY <1>1, SetPc DEF Labels
<1>4. \A o \in Request : HasRead(o)' <=> HasRead(o) /\ o # r
  BY <1>1, <1>3 DEF HasRead, Moves
<1>5. ReqInv' /\ AloneInv' /\ BackupInv'
  BY <1>1, <1>3, <1>4 DEF ReqInv, AloneInv, BackupInv, ValidateSetting, Moves
<1>6. /\ files'[f] \in {files[f], Garbled} /\ DOMAIN files' = Files
      /\ \A g \in Files \ {f} : files'[g] = files[g]
  BY <1>1, <1>2 DEF TextInv
<1>7. TextInv'
  <2>1. \A g \in Files : files'[g] \in Torn \/ IsText(g, files'[g])
    <3> HIDE DEF f
    <3> QED
      BY <1>6 DEF TextInv, Torn
  <2>2. \A o \in Request : HasRead(o)' => IsText(req'[o].file, req'[o].next)
    BY <1>3, <1>4 DEF TextInv, Moves
  <2> QED
    BY <1>1, <1>6, <2>1, <2>2 DEF TextInv
<1>8. SaveInv'
  <2> SUFFICES ASSUME NEW o \in Request, HasRead(o), o # r
               PROVE  /\ Agree(req[o].next, Changes(o), {})
                      /\ Agree(req[o].next, req[o].due, DOMAIN Changes(o))
                      /\ req[o].pc = "write" /\ req[o].alone => files'[req[o].file] = Empty
    BY <1>1, <1>3, <1>4 DEF SaveInv, Moves
  <2>1. req[o].alone => req[o].file # f /\ req[o].file \in Files
    BY <1>1, OthersWait DEF ReqInv, IsRequest
  <2> QED
    BY <1>6, <2>1 DEF SaveInv
<1>9. KeptInv'
  <2> SUFFICES ASSUME NEW g \in Files
               PROVE  /\ files'[g] \notin Torn => Agree(files'[g], owed[g], {})
                      /\ files'[g] \in Torn /\ owed[g] # Nothing => Cause(g)'
    BY DEF KeptInv
  <2>1. Cause(g) => Cause(g)'
    BY <1>1, <1>3 DEF Cause, Moves
  <2>2. g = f => Cause(g)'
    BY <1>1, <1>3 DEF Cause, Moves
  <2>3. files'[g] = files[g] \/ (g = f /\ files'[g] \in Torn)
    BY <1>6 DEF Torn
  <2> HIDE DEF f
  <2>4. CASE g = f /\ files'[g] \in Torn
    BY <2>2, <2>4
  <2>5. CASE files'[g] = files[g]
    BY <2>1, <2>5 DEF KeptInv
  <2> QED
    BY <2>3, <2>4, <2>5
<1>10. TornInv'
  <2> SUFFICES ASSUME NEW o \in Request, req[o].file = "config", req[o].alone, req'[o].pc = "torn"
               PROVE  /\ files'["config"] \in Torn
                      /\ \A q \in Request : ~ (HasRead(q)' /\ req'[q].file = "config")
    BY <1>1, <1>3 DEF TornInv, Moves
  <2>1. CASE o = r
    <3>1. files["config"] = Empty
      BY <1>1, <2>1 DEF SaveInv
    <3>2. \A q \in Request : HasRead(q) /\ req[q].file = "config" => q = r
      BY <1>1, <2>1 DEF AloneInv
    <3> QED
      BY <1>3, <1>4, <1>6, <2>1, <3>1, <3>2 DEF Moves, Torn
  <2>2. CASE o # r
    <3>1. req[o].pc = "torn"
      BY <1>3, <2>2 DEF Moves
    <3>2. f # "config" /\ files["config"] \in Torn
      BY <1>1, <3>1 DEF TornInv
    <3> QED
      BY <1>3, <1>4, <1>6, <3>1, <3>2 DEF TornInv, Moves, Files
  <2> QED
    BY <2>1, <2>2
<1> QED
  BY <1>5, <1>7, <1>8, <1>9, <1>10

LEMMA FailSaves ==
  ASSUME SavesInv, NEW r \in Request, Fail(r)
  PROVE  SavesInv'
<1>1. UNCHANGED <<conf, owed>>
  BY DEF Fail
<1>2. CASE Refused(r)
  BY <1>1, <1>2, FailedSaves DEF Refused
<1>3. CASE Unread(r)
  <2>1. IsText("secrets", NoSecrets)
    BY DEF IsText, NoSecrets, Secret
  <2>2. Agree(NoSecrets, Nothing, {})
    BY DEF Agree, Nothing
  <2> QED
    BY <1>1, <1>3, <2>1, <2>2, GoOnSaves DEF Unread
<1>4. CASE BackupFails(r) \/ WriteFails(r)
  BY <1>1, <1>4, BackupFailsSaves, WriteFailsSaves
<1> QED
  BY <1>2, <1>3, <1>4 DEF Fail

\* A step of the process alone.
LEMMA ProcessSaves ==
  ASSUME SavesInv, UNCHANGED <<conf, files, backups, req, owed>>
  PROVE  SavesInv'
<1>1. Request' = Request /\ \A o : Changes(o)' = Changes(o)
  BY SameRequests
<1>2. ReqInv' /\ TextInv' /\ AloneInv' /\ SaveInv' /\ KeptInv' /\ BackupInv' /\ TornInv'
  BY <1>1 DEF SavesInv, ReqInv, TextInv, AloneInv, SaveInv, KeptInv, BackupInv, TornInv, Cause, HasRead,
              ValidateSetting
<1> QED
  BY <1>2 DEF SavesInv

LEMMA CrashSaves ==
  ASSUME SavesInv, Crash
  PROVE  SavesInv'
<1> USE DEF SavesInv
<1>1. /\ UNCHANGED <<conf, files, backups, owed>>
      /\ Request' = Request /\ \A o : Changes(o)' = Changes(o)
  BY SameRequests DEF Crash
<1>2. /\ DOMAIN req' = Request
      /\ \A o \in Request :
           req'[o] = IF req[o].pc = "write" THEN [req[o] EXCEPT !.pc = "torn"]
                     ELSE IF InFlight(o) THEN [req[o] EXCEPT !.pc = "dead"] ELSE req[o]
  BY DEF Crash
<1>3. \A o \in Request :
        /\ IsRequest(req'[o]) /\ req'[o].file = req[o].file /\ req'[o].alone = req[o].alone
        /\ req'[o].name = req[o].name /\ req'[o].old = req[o].old
        /\ req'[o].pc \notin {"read", "backup", "backing", "open", "write"}
        /\ req'[o].pc = "torn" <=> req[o].pc \in {"write", "torn"}
        /\ req[o].pc = "applied" => req'[o].pc = "applied"
  <2> SUFFICES ASSUME NEW o \in Request
               PROVE  /\ IsRequest(req'[o]) /\ req'[o].file = req[o].file /\ req'[o].alone = req[o].alone
                      /\ req'[o].name = req[o].name /\ req'[o].old = req[o].old
                      /\ req'[o].pc \notin {"read", "backup", "backing", "open", "write"}
                      /\ req'[o].pc = "torn" <=> req[o].pc \in {"write", "torn"}
                      /\ req[o].pc = "applied" => req'[o].pc = "applied"
    OBVIOUS
  <2>0. IsRequest(req[o])
    BY DEF ReqInv
  <2>1. CASE req[o].pc = "write"
    BY <1>2, <2>0, <2>1 DEF IsRequest, Labels
  <2>2. CASE req[o].pc # "write" /\ InFlight(o)
    BY <1>2, <2>0, <2>2 DEF IsRequest, Labels, InFlight, HasRead
  <2>3. CASE ~ InFlight(o)
    BY <1>2, <2>0, <2>3 DEF InFlight, HasRead
  <2> QED
    BY <2>1, <2>2, <2>3
<1>4. \A o \in Request : ~ HasRead(o)'
  BY <1>3 DEF HasRead
<1>5. ReqInv' /\ AloneInv' /\ SaveInv' /\ TextInv'
  BY <1>1, <1>2, <1>3, <1>4 DEF ReqInv, AloneInv, SaveInv, TextInv
<1>6. KeptInv'
  <2>1. \A f \in Files : Cause(f) => Cause(f)'
    BY <1>1, <1>3 DEF Cause
  <2> QED
    BY <1>1, <2>1 DEF KeptInv
<1>7. BackupInv'
  BY <1>1, <1>3 DEF BackupInv
<1>8. TornInv'
  <2> SUFFICES ASSUME NEW o \in Request, req[o].file = "config", req[o].alone, req[o].pc \in {"write", "torn"}
               PROVE  files["config"] \in Torn
    BY <1>1, <1>3, <1>4 DEF TornInv
  <2>1. CASE req[o].pc = "write"
    BY <2>1 DEF SaveInv, HasRead, Torn
  <2>2. CASE req[o].pc = "torn"
    BY <2>2 DEF TornInv
  <2> QED
    BY <2>1, <2>2
<1> QED
  BY <1>5, <1>6, <1>7, <1>8

LEMMA SavesNext == SavesInv /\ [Next]_vars => SavesInv'
<1> SUFFICES ASSUME SavesInv, [Next]_vars PROVE SavesInv'
  OBVIOUS
<1>1. CASE \E r \in Request : Post(r) \/ ReadFile(r) \/ OpenBackup(r) \/ WriteBackup(r) \/ OpenFile(r) \/ WriteFile(r)
                                \/ Fail(r)
  BY <1>1, PostSaves, ReadFileSaves, OpenBackupSaves, WriteBackupSaves, OpenFileSaves, WriteFileSaves,
     FailSaves
<1>2. CASE Start
  BY <1>2, ProcessSaves DEF Start
<1>3. CASE Stop
  BY <1>3, ProcessSaves DEF Stop
<1>4. CASE Tick \/ (\E e \in Sources : Attempt(e)) \/ UNCHANGED vars
  BY <1>4, ProcessSaves DEF Tick, Attempt, vars
<1> HIDE DEF SavesInv
<1> QED
  BY <1>1, <1>2, <1>3, <1>4, CrashSaves DEF Next

\* What a request reported as applied has put into its file stays there, beside
\* other saves and through crashes and failed writes, as far as applySettings
\* and saveSecret can keep it: a save only undoes what it has not read.
THEOREM Spec_SavedIsKept == Spec => []SavedIsKept
<1>1. SavesInv => SavedIsKept
  BY DEF SavesInv, KeptInv, Cause, Agree, SavedIsKept
<1> QED
  BY <1>1, SavesInit, SavesNext, PTL DEF Spec

\* While the configuration is torn, a backup holds what it was.
THEOREM Spec_TornIsBackedUp == Spec => []TornIsBackedUp
<1>1. SavesInv => TornIsBackedUp
  BY DEF SavesInv, BackupInv, TornIsBackedUp
<1> QED
  BY <1>1, SavesInit, SavesNext, PTL DEF Spec

-----------------------------------------------------------------------------
(* What is shown                                                           *)

LEMMA BootIsSound ==
  ASSUME SavesInv, files["config"] # Garbled, server' = Boot(files["config"], files["secrets"])
  PROVE  ServerInv'
<1> DEFINE base == conf.base
           doc == files["config"]
           secrets == files["secrets"]
<1>1. base \in Configurations
  BY DashboardAssumption DEF SavesInv, ReqInv
<1>2. Sound(Defaults)
  BY <1>1 DEF Defaults, Configurations, Sound, Modes, Web, NoSecrets, Secret
<1>3. ASSUME doc # Empty PROVE Sound(ApplyDashboardSecrets(LoadFile(doc), secrets))
  <2> DEFINE c == LoadFile(doc)
  <2>1. GetMode(doc["mode"]) \in Modes
    BY DEF GetMode, Modes
  <2>2. Sound(c) /\ DOMAIN c = DOMAIN base /\ "keys" \in DOMAIN c
    BY <1>1, <2>1 DEF LoadFile, Configurations, Sound, Web
  <2>3. CASE secrets \in Torn
    BY <2>2, <2>3 DEF ApplyDashboardSecrets
  <2>4. CASE secrets \notin Torn
    <3>1. \A p \in Api : secrets[p] \in Secret
      BY <2>4 DEF SavesInv, TextInv, IsText, Files
    <3> DEFINE keys == [p \in Api |-> IF secrets[p] # "none" THEN secrets[p] ELSE c.keys[p]]
    <3>2. keys \in [Api -> Secret]
      BY <2>2, <3>1 DEF Sound
    <3>3. ApplyDashboardSecrets(c, secrets) = [c EXCEPT !.keys = keys]
      BY <2>4 DEF ApplyDashboardSecrets
    <3> HIDE DEF c, keys
    <3> QED
      BY <2>2, <3>2, <3>3 DEF Sound, c
  <2> QED
    BY <2>3, <2>4
<1>4. PICK c : /\ Sound(c) /\ server'.up = TRUE /\ server'.conf = c
               /\ server'.built = Primary(c) /\ server'.papers = PaperEngines(c)
  <2>1. CASE doc = Empty
    BY <1>2, <2>1 DEF Boot
  <2>2. CASE doc # Empty
    BY <1>3, <2>2 DEF Boot
  <2> QED
    BY <2>1, <2>2
<1> QED
  BY <1>4 DEF ServerInv, Sound, Primary, PaperEngines

LEMMA ServerNext == SavesInv /\ ServerInv /\ [Next]_vars => ServerInv'
<1> SUFFICES ASSUME SavesInv, ServerInv, [Next]_vars PROVE ServerInv'
  OBVIOUS
<1>1. CASE Start
  BY <1>1, BootIsSound DEF Start
<1>2. CASE server' = Down
  BY <1>2 DEF Down, ServerInv
<1>3. CASE UNCHANGED server
  BY <1>3 DEF ServerInv
<1> QED
  BY <1>1, <1>2, <1>3
     DEF Next, Post, ReadFile, OpenBackup, WriteBackup, OpenFile, WriteFile, Fail, Stop, Crash, Tick, Attempt,
         vars

LEMMA LogNext == LogInv /\ [Next]_vars => LogInv'
<1> SUFFICES ASSUME LogInv, [Next]_vars PROVE LogInv'
  OBVIOUS
<1>1. ASSUME NEW e \in Sources, Attempt(e) PROVE LogInv'
  <2> DEFINE c == server.conf
             x == [name |-> EventName(c, e), source |-> e, pooled |-> c.mode = "apipool"]
  <2>1. EventName(c, e) \in Names
    BY EventHasName DEF Names
  <2>2. x \in Entries
    BY <2>1, EventHasName DEF Entries
  <2> QED
    BY <1>1, <2>2 DEF Attempt, LogInv
<1>2. CASE UNCHANGED log
  BY <1>2 DEF LogInv
<1> QED
  BY <1>1, <1>2
     DEF Next, Post, ReadFile, OpenBackup, WriteBackup, OpenFile, WriteFile, Fail, Start, Stop, Crash, Tick, vars

LEMMA SourcesFromInv ==
  ASSUME ServerInv, LogInv, Serving
  PROVE  LET c == server.conf
         IN  /\ (\A p \in Api : c.keys[p] # "blank") =>
                  Active(c) = server.built /\ AcademicActive(c) = server.papers
             /\ (\A i \in DOMAIN log : log[i].pooled = (c.mode = "apipool")) =>
                  \A s \in Active(c) : Attempts(s) = Cardinality({i \in DOMAIN log : log[i].source = s})
<1> DEFINE c == server.conf
<1>1. Sound(c) /\ server.built = Primary(c) /\ server.papers = PaperEngines(c)
  BY DEF Serving, ServerInv
<1>2. Active(c) \subseteq Configured(c) /\ Configured(c) \subseteq Sources
  BY <1>1 DEF Active, Configured, Sound, Sources
<1>3. ASSUME \A i \in DOMAIN log : log[i].pooled = (c.mode = "apipool"), NEW s \in Active(c)
      PROVE  Attempts(s) = Cardinality({i \in DOMAIN log : log[i].source = s})
  <2>1. ASSUME NEW i \in DOMAIN log
        PROVE  log[i].name \in Aliases(c, s) <=> log[i].source = s
    <3>1. log[i] \in Entries
      BY DEF LogInv
    <3>2. IF c.mode = "apipool" THEN log[i].name = log[i].source ELSE log[i].name \in NamesOf(log[i].source)
      BY <1>3, <3>1 DEF Entries
    <3> QED
      BY <1>2, <3>1, <3>2, AliasesAreNames DEF Entries
  <2>2. {i \in DOMAIN log : log[i].name \in Aliases(c, s)} = {i \in DOMAIN log : log[i].source = s}
    BY <2>1
  <2>3. s \in Configured(c) \cap Active(c)
    BY <1>2
  <2> HIDE DEF c
  <2> QED
    BY <2>2, <2>3 DEF Attempts, c
<1> QED
  BY <1>1, <1>3, ActiveIsPrimary, PapersAreActive

\* The sources shown are the engines the process was built with, and each
\* attempt counts in the row of its engine only.
THEOREM Spec_SourcesAreTrue == Spec => []SourcesAreTrue
<1>1. Init => ServerInv /\ LogInv
  BY DEF Init, Down, ServerInv, LogInv
<1>2. ServerInv /\ LogInv => SourcesAreTrue
  BY SourcesFromInv DEF SourcesAreTrue
<1> QED
  BY <1>1, <1>2, SavesInit, SavesNext, ServerNext, LogNext, PTL DEF Spec
=============================================================================
