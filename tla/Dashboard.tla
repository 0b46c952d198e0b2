---------------------------- MODULE Dashboard ----------------------------
(* The dashboard's changes to the configuration (pkg/dashboard/settings.go) *)
(* and its view of the sources, over the life of a server: config.yaml and  *)
(* the file of secrets are read, backed up, truncated and written by        *)
(* requests that run beside each other, the server keeps the configuration  *)
(* it was started with, a crash may come between any two steps, and a call  *)
(* of the system may fail.                                                  *)
EXTENDS Catalog, Integers, Sequences

CONSTANTS
  Scenarios    \* configurations, and what is asked of the dashboard

VARIABLES
  conf,      \* the scenario
  clock,     \* seconds: a backup is named by the second
  files,     \* content of config.yaml ("config") and of the secrets ("secrets")
  backups,   \* content of the backups, by name
  server,    \* the process: up or not, and what it was built from
  req,       \* the requests to change a file
  log,       \* provider events of the telemetry, in their order
  stops,     \* stops, crashes and failed calls of the system so far
  owed       \* for the properties: what saves that were reported as applied have
             \* put into each file, and no later one has changed or undone

vars == <<conf, clock, files, backups, server, req, log, stops, owed>>

(* A text gives a value to each path that is of interest: to the settings of *)
(* config.yaml, or to the providers of the secrets. A file that was truncated *)
(* and not written yet gives none, one in which two writers have left parts   *)
(* of theirs cannot be read.                                                  *)
Files == {"config", "secrets"}
Paths == {"mode", "bing.enabled", "apipool.engines"}
Secret == {"none", "blank", "key"}
Nothing == [p \in {} |-> "none"]
Empty == Nothing
Garbled == [p \in {"garbled"} |-> "none"]
Torn == {Empty, Garbled}
NoSecrets == [p \in Api |-> "none"]
IsText(f, d) ==
  IF f = "secrets" THEN DOMAIN d = Api /\ \A p \in Api : d[p] \in Secret ELSE DOMAIN d = Paths

Configurations ==
  [mode : Modes, keys : [Api -> Secret], on : SUBSET Web, direct : BOOLEAN, ai : BOOLEAN,
   engines : SUBSET Api, academic : BOOLEAN, disabled : SUBSET Papers, intl : BOOLEAN]

(* The two files have handlers of their own: a request to one of them names   *)
(* nothing of the other.                                                      *)
ASSUME DashboardAssumption ==
  \A s \in Scenarios :
    /\ s.base \in Configurations
    /\ s.doc \in Torn \/ IsText("config", s.doc)
    /\ s.secrets \in Torn \/ IsText("secrets", s.secrets)
    /\ \A r \in 1..Len(s.requests) :
         /\ s.requests[r].file \in Files
         /\ DOMAIN s.requests[r].changes \cap (IF s.requests[r].file = "secrets" THEN Paths ELSE Api) = {}

(* The changes, in the text they are applied to. *)
Over(changes, text) ==
  [p \in DOMAIN changes \cup DOMAIN text |-> IF p \in DOMAIN changes THEN changes[p] ELSE text[p]]
Request == 1..Len(conf.requests)
HasRead(r) == req[r].pc \in {"backup", "backing", "open", "write"}
InFlight(r) == HasRead(r) \/ req[r].pc = "read"
Overlapping(r) == {o \in Request \ {r} : HasRead(o) /\ req[o].file = req[r].file}

-----------------------------------------------------------------------------
(* The configuration of a process *)

\* config.Load of a file that is whole. base stands for what no request changes,
\* the keys of the environment and of the file included.
LoadFile(doc) ==
  [conf.base EXCEPT
     !.mode = GetMode(doc["mode"]),
     !.engines = doc["apipool.engines"],
     !.on = IF doc["bing.enabled"] = "off" THEN @ \ {"bing"} ELSE @ \cup {"bing"}]

\* applyDashboardSecrets: a secret that is not empty takes the place of all
\* keys of its provider; a file that does not parse is ignored.
ApplyDashboardSecrets(c, secrets) ==
  IF secrets \in Torn THEN c
  ELSE [c EXCEPT !.keys = [p \in Api |-> IF secrets[p] # "none" THEN secrets[p] ELSE @[p]]]

\* config.Load of an empty file: every default. The dashboard's is to be off, the
\* secrets' is another path; keys are taken to come from the file.
Defaults ==
  [conf.base EXCEPT !.mode = "baidu", !.engines = {}, !.on = {"bing", "duckduckgo"},
                    !.direct = FALSE, !.keys = NoSecrets, !.ai = TRUE,
                    !.academic = TRUE, !.disabled = {}, !.intl = FALSE]

Down == [up |-> FALSE]

\* Server.Run: what is built and what the dashboard shows is of this moment.
Boot(doc, secrets) ==
  LET c == IF doc = Empty THEN Defaults ELSE ApplyDashboardSecrets(LoadFile(doc), secrets)
  IN  [up |-> TRUE, dashboard |-> doc # Empty, conf |-> c,
       built |-> Primary(c), papers |-> PaperEngines(c)]

Serving == server.up /\ server.dashboard

-----------------------------------------------------------------------------
(* A request: POST settings or POST secrets *)

Allowed(path) ==
  CASE path = "mode"            -> Modes
    [] path = "bing.enabled"    -> {"on", "off"}
    [] path = "apipool.engines" -> SUBSET Api \ {{}}
    [] path \in Api             -> Secret
    [] OTHER                    -> {}

\* validateSetting for each change.
ValidateSetting(changes) == \A p \in DOMAIN changes : changes[p] \in Allowed(p)

\* setYAMLPath for each change: "bing: null" cannot be descended into.
Settable(doc, changes) == ~("bing.enabled" \in DOMAIN changes /\ doc["bing.enabled"] = "null")

\* applySettings, saveSecret: what ends before the file is looked at.
Post(r) ==
  /\ Serving /\ req[r].pc = "new"
  /\ LET ask == conf.requests[r]
     IN  req' = [req EXCEPT ![r].pc =
           IF ask.changes # Nothing /\ ValidateSetting(ask.changes) /\ ask.confirm THEN "read" ELSE "refused"]
  /\ UNCHANGED <<conf, clock, files, backups, server, log, stops, owed>>

\* Fault: the changes are applied to the running configuration.
OldText_Running(f) ==
  IF f = "secrets" /\ files[f] \in Torn THEN NoSecrets
  ELSE IF f = "config"
    THEN [files[f] EXCEPT !["mode"] = server.conf.mode, !["apipool.engines"] = server.conf.engines,
                          !["bing.enabled"] = IF "bing" \in server.conf.on THEN "on" ELSE "off"]
  ELSE files[f]

\* os.ReadFile: secrets that are not there or do not parse are none.
OldText(f) == IF f = "secrets" /\ files[f] \in Torn THEN NoSecrets ELSE files[f]

\* Request r goes on with the new text that it makes from text, in which it
\* has to find values.
GoOn(r, text, values) ==
  req' = [o \in Request |->
    IF o = r
      THEN [req[r] EXCEPT !.pc = IF req[r].file = "config" THEN "backup" ELSE "open",
                          !.old = text, !.next = Over(conf.requests[r].changes, text),
                          !.due = values, !.alone = Overlapping(r) = {}]
      ELSE IF o \in Overlapping(r) THEN [req[o] EXCEPT !.alone = FALSE] ELSE req[o]]

\* The file is read and the new text made from it; a configuration that is
\* empty, does not parse or cannot be changed ends the request.
ReadFile(r) ==
  LET f == req[r].file
  IN  /\ req[r].pc = "read"
      /\ IF f = "config" /\ (files[f] \in Torn \/ ~Settable(files[f], conf.requests[r].changes))
           THEN req' = [req EXCEPT ![r].pc = "failed"]
           ELSE GoOn(r, OldText(f), IF files[f] \in Torn THEN Nothing ELSE owed[f])
      /\ UNCHANGED <<conf, clock, files, backups, server, log, stops, owed>>

\* The backup is opened, which empties it, under a name made of the second.
OpenBackup(r) ==
  /\ req[r].pc = "backup"
  /\ req' = [req EXCEPT ![r].pc = "backing", ![r].name = clock]
  /\ backups' = [t \in DOMAIN backups \cup {clock} |-> IF t = clock THEN Empty ELSE backups[t]]
  /\ UNCHANGED <<conf, clock, files, server, log, stops, owed>>

\* What a file holds when a writer that has truncated it writes text: the tail
\* of what another one has written meanwhile stays if that was longer.
Written(held, text) ==
  IF held \in {Empty, text} THEN {text} ELSE {text, Garbled}

\* Fault: the new text goes into the backup.
BackupText_New(r) == req[r].next

BackupText(r) == req[r].old

WriteBackup(r) ==
  /\ req[r].pc = "backing"
  /\ req' = [req EXCEPT ![r].pc = "open"]
  /\ \E text \in Written(backups[req[r].name], BackupText(r)) :
       backups' = [backups EXCEPT ![req[r].name] = text]
  /\ UNCHANGED <<conf, clock, files, server, log, stops, owed>>

\* os.WriteFile opens the file with O_TRUNC.
OpenFile(r) ==
  /\ req[r].pc = "open"
  /\ req' = [req EXCEPT ![r].pc = "write"]
  /\ files' = [files EXCEPT ![req[r].file] = Empty]
  /\ UNCHANGED <<conf, clock, backups, server, log, stops, owed>>

\* What is owed in the file of r when r has written it: its changes, and what
\* was owed when it read the file and has not been changed since.
OwedBy(r) ==
  LET now == owed[req[r].file]
      same == {p \in DOMAIN now \cap DOMAIN req[r].due : now[p] = req[r].due[p]}
  IN  Over(conf.requests[r].changes, [p \in same |-> now[p]])

\* os.WriteFile writes, and the request is answered as applied: only the text
\* in memory is parsed again, and it always parses.
WriteFile(r) ==
  LET f == req[r].file
  IN  /\ req[r].pc = "write"
      /\ req' = [req EXCEPT ![r].pc = "applied"]
      /\ \E text \in Written(files[f], req[r].next) : files' = [files EXCEPT ![f] = text]
      /\ owed' = [owed EXCEPT ![f] = OwedBy(r)]
      /\ UNCHANGED <<conf, clock, backups, server, log, stops>>

\* A call of the system fails, which ends the request with an error: one that
\* makes a directory, reads or opens a file, ...
Refused(r) ==
  /\ req[r].pc \in {"read", "backup", "open"}
  /\ req' = [req EXCEPT ![r].pc = "failed"]
  /\ UNCHANGED <<files, backups>>

\* ... the reading of the secrets, which then count as none, ...
Unread(r) ==
  /\ req[r].pc = "read" /\ req[r].file = "secrets"
  /\ GoOn(r, NoSecrets, Nothing)
  /\ UNCHANGED <<files, backups>>

\* ... the writing of the backup, or of the file, of which it may leave a part.
BackupFails(r) ==
  LET name == req[r].name
  IN  /\ req[r].pc = "backing"
      /\ req' = [req EXCEPT ![r].pc = "failed"]
      /\ \E left \in {backups[name], Garbled} : backups' = [backups EXCEPT ![name] = left]
      /\ UNCHANGED files

WriteFails(r) ==
  LET f == req[r].file
  IN  /\ req[r].pc = "write"
      /\ req' = [req EXCEPT ![r].pc = "torn"]
      /\ \E left \in {files[f], Garbled} : files' = [files EXCEPT ![f] = left]
      /\ UNCHANGED backups

Fail(r) ==
  /\ stops < conf.stops
  /\ stops' = stops + 1
  /\ Refused(r) \/ Unread(r) \/ BackupFails(r) \/ WriteFails(r)
  /\ UNCHANGED <<conf, clock, server, log, owed>>

-----------------------------------------------------------------------------
(* The process *)

\* A file that does not parse keeps the server from starting.
Start ==
  /\ ~server.up /\ files["config"] # Garbled
  /\ server' = Boot(files["config"], files["secrets"])
  /\ UNCHANGED <<conf, clock, files, backups, req, log, stops, owed>>

\* restartService, or any other stop: requests in flight are waited for.
Stop ==
  /\ server.up /\ \A r \in Request : ~InFlight(r)
  /\ stops < conf.stops
  /\ stops' = stops + 1
  /\ server' = Down
  /\ UNCHANGED <<conf, clock, files, backups, req, log, owed>>

\* The process dies between two steps of its requests.
Crash ==
  /\ server.up /\ stops < conf.stops /\ \E r \in Request : InFlight(r)
  /\ stops' = stops + 1
  /\ server' = Down
  /\ req' = [r \in Request |->
       IF req[r].pc = "write" THEN [req[r] EXCEPT !.pc = "torn"]
       ELSE IF InFlight(r) THEN [req[r] EXCEPT !.pc = "dead"] ELSE req[r]]
  /\ UNCHANGED <<conf, clock, files, backups, log, owed>>

\* A search has asked engine e: the attempt is recorded under its name.
Attempt(e) ==
  /\ server.up /\ Len(log) < conf.events /\ e \in Recorded(server.conf)
  /\ log' = Append(log, [name |-> EventName(server.conf, e), source |-> e,
                         pooled |-> server.conf.mode = "apipool"])
  /\ UNCHANGED <<conf, clock, files, backups, server, req, stops, owed>>

Tick ==
  /\ clock < conf.clock
  /\ clock' = clock + 1
  /\ UNCHANGED <<conf, files, backups, server, req, log, stops, owed>>

Init ==
  /\ conf \in Scenarios
  /\ clock = 0
  /\ files = [f \in Files |-> IF f = "config" THEN conf.doc ELSE conf.secrets]
  /\ backups = Nothing
  /\ server = Down
  /\ req = [r \in Request |-> [pc |-> "new", file |-> conf.requests[r].file, old |-> Empty,
                               next |-> Empty, due |-> Nothing, name |-> 0, alone |-> FALSE]]
  /\ log = <<>>
  /\ stops = 0
  /\ owed = [f \in Files |-> Nothing]

Next ==
  \/ \E r \in Request : Post(r) \/ ReadFile(r) \/ OpenBackup(r) \/ WriteBackup(r)
                          \/ OpenFile(r) \/ WriteFile(r) \/ Fail(r)
  \/ Start \/ Stop \/ Crash \/ Tick
  \/ \E e \in Sources : Attempt(e)

Spec == Init /\ [][Next]_vars

-----------------------------------------------------------------------------
(* The dashboard's view *)

\* joinSources: the attempts in the row of source s.
Attempts(s) ==
  LET c == server.conf
  IN  IF s \in Configured(c) \cap Active(c)
        THEN Cardinality({i \in DOMAIN log : log[i].name \in Aliases(c, s)}) ELSE 0

-----------------------------------------------------------------------------
(* Properties *)

\* webSourceCatalog, academicSourceCatalog, joinSources: the sources shown as
\* active are the engines the process was built with, whatever was saved since
\* and whatever the files have gone through (unless the keys of a provider are
\* all blank); and an attempt at an engine counts in the row of that engine and
\* in no other, also after a restart with another mode (only between the key
\* pool and the other modes the name "baidu" changes its meaning).
SourcesAreTrue ==
  Serving =>
    LET c == server.conf
    IN  /\ (\A p \in Api : c.keys[p] # "blank") =>
             Active(c) = server.built /\ AcademicActive(c) = server.papers
        /\ (\A i \in DOMAIN log : log[i].pooled = (c.mode = "apipool")) =>
             \A s \in Active(c) : Attempts(s) = Cardinality({i \in DOMAIN log : log[i].source = s})

\* applySettings, saveSecret: what a request reported as applied has put into
\* its file is there whenever the file can be read, beside other saves, after
\* stops, crashes and failures, until a save changes it, or undoes it: one that
\* had read the file before, or could not read it. That the file cannot be read
\* is the work of a save between its truncation and its writing, one that died
\* or failed there, or two that wrote at once.
SavedIsKept ==
  \A f \in Files :
    IF files[f] \notin Torn THEN \A p \in DOMAIN owed[f] : files[f][p] = owed[f][p]
    ELSE owed[f] # Nothing => \E r \in Request :
           /\ req[r].file = f
           /\ req[r].pc \in {"write", "torn"} \/ (req[r].pc = "applied" /\ ~req[r].alone)

\* applySettings: from the moment at which the configuration is emptied until it
\* is whole again, and for ever if the process dies or the writing fails in
\* between, a backup holds what it was, unless another save is under way.
TornIsBackedUp ==
  \A r \in Request :
    req[r].file = "config" /\ req[r].pc \in {"write", "torn"} /\ req[r].alone =>
      \E t \in DOMAIN backups : backups[t] = req[r].old
=============================================================================
