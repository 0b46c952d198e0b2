-------------------------------- MODULE Daemon --------------------------------
(***************************************************************************)
(* The life of the HTTP daemon: the commands start, stop, kill and status  *)
(* (cmd/main.go), the admin requests and files they use (pkg/daemon), and  *)
(* the server that handles them, shuts down and exits (server/server.go).  *)
(*                                                                         *)
(* A client is a session that starts the server and stops it again.  A     *)
(* start that finds no server becomes one: server processes are numbered   *)
(* in the order of their launch.  Whoever listens on the port answers the  *)
(* health and admin requests; the PID file is shared by all.               *)
(***************************************************************************)
EXTENDS Integers, FiniteSets

CONSTANTS
  Clients,     \* sessions, each running one command at a time
  MaxServers,  \* bound on the server processes launched
  MaxRequests, \* bound on the requests a server handles at a time
  Kills,       \* whether kill may be run
  Signals,     \* servers that SIGINT or SIGTERM may reach
  Dashboard,   \* servers whose configuration enables the dashboard, with its
               \* store of telemetry
  IsRunning    \* whether IsRunning can report a live process

ASSUME DaemonAssumption ==
  /\ MaxServers \in Nat \ {0} /\ MaxRequests \in Nat
  /\ {Kills, IsRunning} \subseteq BOOLEAN
  /\ IsFiniteSet(Clients)

Servers == 1 .. MaxServers
Nobody == 0

VARIABLES
  proc,    \* proc[s]: where the main goroutine of server s is
  port,    \* the server that listens, or Nobody
  ref,     \* ref[s]: its refCount
  token,   \* token[s]: whether shutdownCh, of capacity 1, is full
  reqs,    \* reqs[s]: its search requests in flight
  cache,   \* cache[s]: "open" or "closed"
  metrics, \* metrics[s]: likewise the telemetry store
  pid,     \* the server the PID file names, or Nobody: no file
  pc,      \* pc[c]: where the command of c is
  at,      \* at[c]: the server the command deals with
  val,     \* val[c]: newVal in the handler of the command's request
  session, \* history: the server a successful start of c counted on
  stray,   \* history: whether a stop reached a server its session never used
  late     \* history: clients whose server had to exit when they joined it,
           \* or was asked to by a kill or by the dashboard

serverVars == <<proc, port, token, reqs, cache, metrics>>
clientVars == <<pc, at, val, session, stray, late>>
vars == <<serverVars, ref, pid, clientVars>>

Init ==
  /\ proc = [s \in Servers |-> "none"]
  /\ port = Nobody /\ pid = Nobody
  /\ ref = [s \in Servers |-> 0] /\ reqs = [s \in Servers |-> 0]
  /\ token = [s \in Servers |-> FALSE]
  /\ cache = [s \in Servers |-> "open"] /\ metrics = cache
  /\ pc = [c \in Clients |-> "idle"]
  /\ at = [c \in Clients |-> Nobody] /\ val = [c \in Clients |-> 0]
  /\ session = [c \in Clients |-> Nobody]
  /\ stray = FALSE /\ late = {}

Goto(c, label) == pc' = [pc EXCEPT ![c] = label]
Becomes(s, label) == proc' = [proc EXCEPT ![s] = label]

\* The command exits.
Exit(c) ==
  /\ Goto(c, "idle")
  /\ at' = [at EXCEPT ![c] = Nobody] /\ val' = [val EXCEPT ![c] = 0]

\* A command looks whether the server is healthy: something listens or not.
Check(c, running, stopped) ==
  /\ pc[c] = "idle"
  /\ Goto(c, IF port # Nobody THEN running ELSE stopped)
  /\ UNCHANGED <<serverVars, ref, pid, at, val, session, stray, late>>

\* RemovePID, as the last thing a command does.
Unlink(c) ==
  /\ pc[c] = "unlink"
  /\ pid' = Nobody
  /\ Exit(c)
  /\ UNCHANGED <<serverVars, ref, session, stray, late>>

-----------------------------------------------------------------------------
(* start                                                                   *)

Start(c) == session[c] = Nobody /\ Check(c, "join", "launch")

\* The PID file that may be left over goes, and the process sets itself up.
Launch(c) ==
  /\ pc[c] = "launch"
  /\ \E s \in Servers :
       /\ \A o \in Servers : proc[o] = "none" <=> s <= o
       /\ Becomes(s, "init")
       /\ at' = [at EXCEPT ![c] = s]
  /\ pid' = Nobody
  /\ Goto(c, "listen")
  /\ UNCHANGED <<port, ref, token, reqs, cache, metrics, val, session, stray, late>>

\* Fault: the reference count of a new server starts at zero.
Listen_NoInitialRef(c) ==
  /\ pc[c] = "listen"
  /\ IF port = Nobody
       THEN /\ port' = at[c]
            /\ Becomes(at[c], "bound")
            /\ session' = [session EXCEPT ![c] = at[c]]
       ELSE Becomes(at[c], "refused") /\ UNCHANGED <<port, session>>
  /\ Exit(c)
  /\ late' = late \ {c}
  /\ UNCHANGED <<token, reqs, cache, metrics, ref, pid, stray>>

\* net.Listen: one process gets the port, the start of another one fails.
Listen(c) ==
  /\ pc[c] = "listen"
  /\ IF port = Nobody
       THEN /\ port' = at[c]
            /\ Becomes(at[c], "bound")
            /\ ref' = [ref EXCEPT ![at[c]] = 1]
            /\ session' = [session EXCEPT ![c] = at[c]]
       ELSE Becomes(at[c], "refused") /\ UNCHANGED <<port, ref, session>>
  /\ Exit(c)
  /\ late' = late \ {c}
  /\ UNCHANGED <<token, reqs, cache, metrics, pid, stray>>

\* PostRefCount(+1) or (-1): nobody answers and the command fails, or the
\* handler adds.
Post(c, delta, from, to) ==
  /\ pc[c] = from
  /\ IF port = Nobody
       THEN Exit(c) /\ UNCHANGED ref
       ELSE /\ ref' = [ref EXCEPT ![port] = @ + delta]
            /\ val' = [val EXCEPT ![c] = ref[port] + delta]
            /\ at' = [at EXCEPT ![c] = port]
            /\ Goto(c, to)
  /\ UNCHANGED <<serverVars, pid>>

\* Server s has a token, or a handler is about to send one.
Doomed(s) ==
  \/ token[s]
  \/ \E c \in Clients : at[c] = s /\ pc[c] \in {"joined", "left"} /\ val[c] <= 0

Join(c) ==
  /\ Post(c, 1, "join", "joined")
  /\ late' = IF port # Nobody /\ Doomed(port) THEN late \union {c} ELSE late \ {c}
  /\ UNCHANGED <<session, stray>>

\* A process that is gone answers nobody: the command fails.
Lost(c) ==
  /\ pc[c] \in {"joined", "left"}
  /\ proc[at[c]] = "gone"
  /\ Exit(c)
  /\ UNCHANGED <<serverVars, ref, pid, session, stray, late>>

\* Fault: the last session but one shuts the server down.
Settle_AtOne(c) ==
  /\ ref' = IF val[c] < 0 THEN [ref EXCEPT ![at[c]] = 0] ELSE ref
  /\ token' = IF val[c] <= 1 THEN [token EXCEPT ![at[c]] = TRUE] ELSE token

\* Fault: only a count below zero shuts the server down.
Settle_BelowZero(c) ==
  IF val[c] < 0
    THEN /\ ref' = [ref EXCEPT ![at[c]] = 0]
         /\ token' = [token EXCEPT ![at[c]] = TRUE]
    ELSE UNCHANGED <<ref, token>>

\* The rest of the handler: a count below zero is set to zero, and zero
\* puts a token into shutdownCh, unless there is one.
Settle(c) ==
  /\ ref' = IF val[c] < 0 THEN [ref EXCEPT ![at[c]] = 0] ELSE ref
  /\ token' = IF val[c] <= 0 THEN [token EXCEPT ![at[c]] = TRUE] ELSE token

Joined(c) ==
  /\ pc[c] = "joined" /\ proc[at[c]] # "gone"
  /\ Settle(c)
  /\ session' = [session EXCEPT ![c] = at[c]]
  /\ Exit(c)
  /\ UNCHANGED <<proc, port, reqs, cache, metrics, pid, stray, late>>

-----------------------------------------------------------------------------
(* stop, kill, status                                                      *)

\* The session is over, whatever becomes of the command.
Stop(c) ==
  /\ session[c] # Nobody
  /\ pc[c] = "idle"
  /\ Goto(c, IF port # Nobody THEN "leave" ELSE "unlink")
  /\ IF port = Nobody THEN session' = [session EXCEPT ![c] = Nobody]
                      ELSE UNCHANGED session
  /\ UNCHANGED <<serverVars, ref, pid, at, val, stray, late>>

Leave(c) ==
  /\ Post(c, -1, "leave", "left")
  /\ session' = [session EXCEPT ![c] = Nobody]
  /\ stray' = (stray \/ port \notin {Nobody, session[c]})
  /\ late' = late \ {c}

Left(c) ==
  /\ pc[c] = "left" /\ proc[at[c]] # "gone"
  /\ Settle(c)
  /\ IF val[c] > 0 THEN Exit(c) ELSE Goto(c, "wait") /\ UNCHANGED <<at, val>>
  /\ UNCHANGED <<proc, port, reqs, cache, metrics, pid, session, stray, late>>

\* waitForHealthDown: nobody listens, or the time is up.
Wait(c) ==
  /\ pc[c] = "wait"
  /\ \/ port = Nobody /\ Goto(c, "unlink") /\ UNCHANGED <<at, val>>
     \/ port # Nobody /\ Exit(c)
  /\ UNCHANGED <<serverVars, ref, pid, session, stray, late>>

Kill(c) == Kills /\ Check(c, "shutdown", "unlink")

\* PostShutdown
Shutdown(c) ==
  /\ pc[c] = "shutdown"
  /\ token' = [s \in Servers |-> token[s] \/ s = port]
  /\ at' = [at EXCEPT ![c] = port]
  /\ Goto(c, "killing")
  /\ late' = late \union {o \in Clients : port \in {session[o], at[o]} \ {Nobody}}
  /\ UNCHANGED <<proc, port, reqs, cache, metrics, ref, pid, val, session, stray>>

Killing(c) ==
  /\ pc[c] = "killing"
  /\ Goto(c, IF port = Nobody THEN "unlink" ELSE "force")
  /\ UNCHANGED <<serverVars, ref, pid, at, val, session, stray, late>>

Alive(s) == proc[s] \notin {"none", "refused", "gone"}

\* The process named in the PID file is killed, if it is found to run.
ForceKill(c) ==
  /\ pc[c] = "force"
  /\ IF pid # Nobody /\ IsRunning /\ Alive(pid)
       THEN /\ Becomes(pid, "gone")
            /\ port' = IF port = pid THEN Nobody ELSE port
            /\ reqs' = [reqs EXCEPT ![pid] = 0]
            /\ Goto(c, "unlink")
       ELSE Goto(c, "failed") /\ UNCHANGED <<proc, port, reqs>>
  /\ UNCHANGED <<token, cache, metrics, ref, pid, at, val, session, stray, late>>

\* "server did not respond to shutdown request"
Failed(c) ==
  /\ pc[c] = "failed"
  /\ Exit(c)
  /\ UNCHANGED <<serverVars, ref, pid, session, stray, late>>

Status(c) == Check(c, "idle", "unlink")

-----------------------------------------------------------------------------
(* The server                                                              *)

\* The callback of Run.
WritePid(s) ==
  /\ proc[s] = "bound"
  /\ pid' = s
  /\ Becomes(s, "up")
  /\ UNCHANGED <<port, ref, token, reqs, cache, metrics, clientVars>>

Arrive(s) ==
  /\ port = s /\ reqs[s] < MaxRequests
  /\ reqs' = [reqs EXCEPT ![s] = @ + 1]
  /\ UNCHANGED <<proc, port, ref, token, cache, metrics, pid, clientVars>>

Answer(s) ==
  /\ reqs[s] > 0
  /\ reqs' = [reqs EXCEPT ![s] = @ - 1]
  /\ UNCHANGED <<proc, port, ref, token, cache, metrics, pid, clientVars>>

\* select: a signal or a token; then the cleaner is stopped.
BeginShutdown(s) ==
  /\ proc[s] = "up"
  /\ \/ token[s] /\ token' = [token EXCEPT ![s] = FALSE]
     \/ s \in Signals /\ UNCHANGED token
  /\ Becomes(s, "stopping")
  /\ UNCHANGED <<port, ref, reqs, cache, metrics, pid, clientVars>>

\* srv.Shutdown closes the listener ...
CloseListener(s) ==
  /\ proc[s] = "stopping"
  /\ port' = Nobody
  /\ Becomes(s, "drain")
  /\ UNCHANGED <<ref, token, reqs, cache, metrics, pid, clientVars>>

Busy(s) == reqs[s] > 0 \/ \E c \in Clients : at[c] = s /\ pc[c] \in {"joined", "left"}

\* The dashboard's restart, 350 ms after a request for it was answered: a
\* token, unless there is one. Later ones are not read any more.
Restart(s) ==
  /\ s \in Dashboard /\ proc[s] = "up" /\ ~ token[s]
  /\ token' = [token EXCEPT ![s] = TRUE]
  /\ late' = late \union {c \in Clients : s \in {session[c], at[c]}}
  /\ UNCHANGED <<proc, port, ref, reqs, cache, metrics, pid, pc, at, val, session, stray>>

\* Fault: the error of Shutdown is only logged.
Drain_IgnoresError(s) ==
  /\ proc[s] = "drain"
  /\ Becomes(s, "close")
  /\ UNCHANGED <<port, ref, token, reqs, cache, metrics, pid, clientVars>>

\* Run returns: its deferred call closes the telemetry store.
CloseMetrics(s) ==
  metrics' = IF s \in Dashboard THEN [metrics EXCEPT ![s] = "closed"] ELSE metrics

\* ... and waits for the requests; after five seconds it returns an error,
\* with which Run returns, while the requests go on.
Drain(s) ==
  /\ proc[s] = "drain"
  /\ IF Busy(s)
       THEN Becomes(s, "exit") /\ CloseMetrics(s)
       ELSE Becomes(s, "close") /\ UNCHANGED metrics
  /\ UNCHANGED <<port, ref, token, reqs, cache, pid, clientVars>>

\* WebFetch and the cache are closed.
CloseDeps(s) ==
  /\ proc[s] = "close"
  /\ cache' = [cache EXCEPT ![s] = "closed"]
  /\ Becomes(s, "remove")
  /\ UNCHANGED <<port, ref, token, reqs, metrics, pid, clientVars>>

\* RemovePID, and the end of the process.
RemovePid(s) ==
  /\ proc[s] = "remove"
  /\ pid' = Nobody
  /\ CloseMetrics(s)
  /\ Becomes(s, "gone")
  /\ UNCHANGED <<port, ref, token, reqs, cache, clientVars>>

\* The end of the process after an error, and of the requests that are left.
Quit(s) ==
  /\ proc[s] = "exit"
  /\ reqs' = [reqs EXCEPT ![s] = 0]
  /\ Becomes(s, "gone")
  /\ UNCHANGED <<port, ref, token, cache, metrics, pid, clientVars>>

Command(c) ==
  \/ Unlink(c) \/ Launch(c) \/ Listen(c) \/ Join(c) \/ Lost(c) \/ Joined(c)
  \/ Leave(c) \/ Left(c) \/ Wait(c)
  \/ Shutdown(c) \/ Killing(c) \/ ForceKill(c) \/ Failed(c)

Run(s) ==
  \/ WritePid(s) \/ BeginShutdown(s) \/ CloseListener(s) \/ Drain(s)
  \/ CloseDeps(s) \/ RemovePid(s) \/ Quit(s)

Next ==
  \/ \E c \in Clients : Command(c) \/ Start(c) \/ Stop(c) \/ Kill(c) \/ Status(c)
  \/ \E s \in Servers : Run(s) \/ Arrive(s) \/ Answer(s) \/ Restart(s)

Spec == Init /\ [][Next]_vars

-----------------------------------------------------------------------------
\* Server.Run stops HTTP first and closes what requests use afterwards: the
\* cache is never closed while a search or an admin request is in flight at
\* the server, nor while it listens; the telemetry store, whose deferred
\* close also runs when Shutdown has given up on the requests, only in the
\* last moments of a process that keeps its cache open.
DependenciesOutliveRequests ==
  \A s \in Servers :
    /\ "closed" \in {cache[s], metrics[s]} => port # s
    /\ Busy(s) => cache[s] = "open" /\ (metrics[s] = "closed" => proc[s] \in {"exit", "gone"})

\* At rest, the count of a running server is the number of sessions that use
\* it, whatever starts and stops overlapped; unless a session that lost its
\* server has stopped another one.
RefCountIsSessions ==
  (\A c \in Clients : pc[c] = "idle") /\ ~ stray =>
    \A s \in Servers :
      proc[s] \in {"bound", "up"} =>
        ref[s] = Cardinality({c \in Clients : session[c] = s})

\* A server whose count has reached zero shuts down, although overlapping
\* commands add to the count and reset it in separate steps: the token that
\* stops it is there, or a handler is about to send it.
ZeroIsSignalled ==
  \A s \in Servers :
    proc[s] \in {"bound", "up"} /\ ref[s] = 0 =>
      Doomed(s)

\* No session loses its server to the reference count, unless it joined when
\* the count had been zero and the server had already decided to exit; or a
\* kill, the dashboard, or the stop of a session that had lost its server, is
\* to blame.
OnlyLateSessionsAreCut ==
  ~ stray =>
    \A s \in Servers, c \in Clients :
      token[s] /\ session[c] = s => c \in late

\* A process that could not listen leaves no PID file behind: the file names
\* a process that had the port.
NoDirtyPid == pid # Nobody => proc[pid] \notin {"none", "init", "refused"}
=============================================================================
