---------------------------- MODULE Daemon_proofs ----------------------------
(* Proofs about Daemon, for any number of clients and of servers, with and  *)
(* without kills, signals and the dashboard: what requests use outlives     *)
(* them, the count of references is the number of sessions, and a server    *)
(* exits when, and (but for late sessions) only when, it has reached zero.  *)
EXTENDS Daemon, FiniteSetTheorems, TLAPS

Young == {"none", "init", "refused"}
Open == {"bound", "up", "stopping"}
Stages == Young \cup Open \cup {"drain", "close", "remove", "exit", "gone"}
Labels == {"idle", "launch", "listen", "join", "joined", "leave", "left", "wait",
           "unlink", "shutdown", "killing", "force", "failed"}
Places == Servers \cup {Nobody}

TypeInv ==
  /\ proc \in [Servers -> Stages]
  /\ port \in Places /\ pid \in Places
  /\ ref \in [Servers -> Int]
  /\ token \in [Servers -> BOOLEAN]
  /\ reqs \in [Servers -> Nat]
  /\ cache \in [Servers -> {"open", "closed"}]
  /\ metrics \in [Servers -> {"open", "closed"}]
  /\ pc \in [Clients -> Labels]
  /\ at \in [Clients -> Places]
  /\ val \in [Clients -> Int]
  /\ session \in [Clients -> Places]
  /\ stray \in BOOLEAN
  /\ late \in SUBSET Clients

\* The server that listens, and what names a server that has listened.
PlaceInv ==
  /\ \A s \in Servers : proc[s] \in Open <=> port = s
  /\ pid # Nobody => proc[pid] \notin Young
  /\ \A c \in Clients : session[c] # Nobody => proc[session[c]] \notin Young
  /\ \A c \in Clients : pc[c] \in {"joined", "left"} =>
       at[c] \in Servers /\ proc[at[c]] \notin Young
  /\ \A c \in Clients : pc[c] = "listen" => at[c] \in Servers /\ proc[at[c]] = "init"
  /\ \A c, d \in Clients :
       pc[c] = "listen" /\ pc[d] = "listen" /\ at[c] = at[d] => c = d
  /\ \A c \in Clients :
       pc[c] \in {"launch", "listen", "join", "joined"} => session[c] = Nobody
  /\ \A s \in Servers : proc[s] \in Young => ~ token[s] /\ reqs[s] = 0
       /\ cache[s] = "open" /\ metrics[s] = "open"

\* No request is left when a server closes the cache, and none comes; the
\* telemetry store is closed by the step with which Run returns.
BusyInv ==
  \A s \in Servers :
    /\ proc[s] \in {"close", "remove"} => ~ Busy(s)
    /\ cache[s] = "closed" => proc[s] \in {"remove", "gone"} /\ ~ Busy(s)
    /\ metrics[s] = "closed" => proc[s] \in {"exit", "gone"}

-----------------------------------------------------------------------------
LEMMA Places_Facts == Nobody \notin Servers /\ Servers \subseteq Int /\ Nobody \in Int
  BY DaemonAssumption DEF Servers, Nobody

\* The types hold at the start.
LEMMA Init_Type == Init => TypeInv
  <1> SUFFICES ASSUME Init PROVE TypeInv OBVIOUS
  <1> USE DEF Init
  <1>1. proc \in [Servers -> Stages] BY DEF Stages, Young
  <1>2. token \in [Servers -> BOOLEAN] /\ stray \in BOOLEAN /\ late \in SUBSET Clients
    OBVIOUS
  <1>3. pc \in [Clients -> Labels] BY DEF Labels
  <1>4. Nobody \in Places BY DEF Places
  <1>5. ref \in [Servers -> Int] /\ reqs \in [Servers -> Nat] /\ val \in [Clients -> Int]
    OBVIOUS
  <1>6. at \in [Clients -> Places] /\ session \in [Clients -> Places]
    BY <1>4
  <1>7. cache \in [Servers -> {"open", "closed"}] /\ metrics = cache
    OBVIOUS
  <1> QED BY <1>1, <1>2, <1>3, <1>4, <1>5, <1>6, <1>7 DEF TypeInv

\* So after a handler has settled the count.
LEMMA Settle_Type ==
  ASSUME TypeInv, NEW c \in Clients, Settle(c)
  PROVE  ref' \in [Servers -> Int] /\ token' \in [Servers -> BOOLEAN]
  <1>1. ref' \in [Servers -> Int]
    <2>1. ref' = ref \/ ref' = [ref EXCEPT ![at[c]] = 0]
      BY DEF Settle
    <2> QED BY <2>1 DEF TypeInv
  <1>2. token' = token \/ token' = [token EXCEPT ![at[c]] = TRUE]
    BY DEF Settle
  <1>3. token' \in [Servers -> BOOLEAN]
    BY <1>2 DEF TypeInv
  <1> QED BY <1>1, <1>3

\* Every command keeps them, the server's steps too.
LEMMA Client_Type ==
  ASSUME TypeInv, NEW c \in Clients,
         Command(c) \/ Start(c) \/ Stop(c) \/ Kill(c) \/ Status(c)
  PROVE  TypeInv'
  <1> USE DEF TypeInv, serverVars, Goto, Labels
  <1>1. CASE Start(c) \/ Kill(c) \/ Status(c)
    BY <1>1 DEF Start, Kill, Status, Check
  <1>2. CASE Stop(c)
    BY <1>2, Places_Facts DEF Stop, Places
  <1>3. CASE Unlink(c) \/ Lost(c) \/ Failed(c) \/ Wait(c) \/ Killing(c)
    BY <1>3, Places_Facts DEF Unlink, Lost, Failed, Wait, Killing, Exit, Places
  <1>4. CASE Launch(c)
    BY <1>4, Places_Facts DEF Launch, Becomes, Places, Stages, Young
  <1>5. CASE Listen(c)
    <2>1. CASE port = Nobody
      BY <1>5, <2>1, Places_Facts DEF Listen, Becomes, Exit, Places, Stages, Open
    <2>2. CASE port # Nobody
      BY <1>5, <2>2, Places_Facts DEF Listen, Becomes, Exit, Places, Stages, Young
    <2> QED BY <2>1, <2>2
  <1>6. CASE Join(c)
    <2>1. CASE port = Nobody
      BY <1>6, <2>1, Places_Facts DEF Join, Post, Exit, Places
    <2>2. CASE port # Nobody
      BY <1>6, <2>2, Places_Facts DEF Join, Post, Places
    <2> QED BY <2>1, <2>2
  <1>7. CASE Joined(c)
    <2>1. Settle(c) BY <1>7 DEF Joined
    <2> QED BY <1>7, <2>1, Settle_Type, Places_Facts DEF Joined, Exit, Places
  <1>8. CASE Leave(c)
    <2>1. CASE port = Nobody
      BY <1>8, <2>1, Places_Facts DEF Leave, Post, Exit, Places
    <2>2. CASE port # Nobody
      BY <1>8, <2>2, Places_Facts DEF Leave, Post, Places
    <2> QED BY <2>1, <2>2
  <1>9. CASE Left(c)
    <2>1. Settle(c) BY <1>9 DEF Left
    <2>2. CASE val[c] > 0
      BY <1>9, <2>1, <2>2, Settle_Type, Places_Facts DEF Left, Exit, Places
    <2>3. CASE ~ (val[c] > 0)
      BY <1>9, <2>1, <2>3, Settle_Type DEF Left
    <2> QED BY <2>2, <2>3
  <1>10. CASE Shutdown(c)
    BY <1>10, Places_Facts DEF Shutdown, Places
  <1>11. CASE ForceKill(c)
    <2>1. CASE UNCHANGED <<proc, port, reqs>>
      BY <1>11, <2>1 DEF ForceKill
    <2>2. CASE /\ Becomes(pid, "gone")
               /\ port' = IF port = pid THEN Nobody ELSE port
               /\ reqs' = [reqs EXCEPT ![pid] = 0]
      BY <1>11, <2>2, Places_Facts DEF ForceKill, Becomes, Places, Stages
    <2> QED BY <1>11, <2>1, <2>2 DEF ForceKill
  <1> HIDE DEF TypeInv
  <1> QED BY <1>1, <1>2, <1>3, <1>4, <1>5, <1>6, <1>7, <1>8, <1>9, <1>10, <1>11 DEF Command

LEMMA Server_Type ==
  ASSUME TypeInv, NEW s \in Servers, Run(s) \/ Arrive(s) \/ Answer(s)
  PROVE  TypeInv'
  <1> USE DEF TypeInv, clientVars, Becomes, Stages, Open, Places
  <1>1. CASE WritePid(s) \/ CloseListener(s) \/ CloseDeps(s) \/ Quit(s)
    BY <1>1 DEF WritePid, CloseListener, CloseDeps, Quit
  <1>2. CASE BeginShutdown(s)
    BY <1>2 DEF BeginShutdown
  <1>3. CASE Drain(s) \/ RemovePid(s)
    <2>1. CASE CloseMetrics(s)
      BY <1>3, <2>1 DEF Drain, RemovePid, CloseMetrics
    <2>2. CASE UNCHANGED metrics
      BY <1>3, <2>2 DEF Drain, RemovePid
    <2> QED BY <1>3, <2>1, <2>2 DEF Drain, RemovePid
  <1>4. CASE Arrive(s) \/ Answer(s)
    BY <1>4 DEF Arrive, Answer
  <1> QED BY <1>1, <1>2, <1>3, <1>4 DEF Run

-----------------------------------------------------------------------------
\* PlaceInv holds at the start.
LEMMA Init_Place == Init => PlaceInv
  BY Places_Facts DEF Init, PlaceInv, Young, Open

\* It is kept by commands that only look, wait, or take the PID file away.
LEMMA Quiet_Place ==
  ASSUME TypeInv, PlaceInv, NEW c \in Clients,
         Start(c) \/ Stop(c) \/ Kill(c) \/ Status(c) \/ Unlink(c) \/ Lost(c)
           \/ Failed(c) \/ Wait(c) \/ Killing(c)
  PROVE  PlaceInv'
  <1> USE Places_Facts DEF TypeInv, PlaceInv, serverVars, Goto, Exit
  <1>1. CASE Start(c) BY <1>1 DEF Start, Check
  <1>2. CASE Kill(c) \/ Status(c) BY <1>2 DEF Kill, Status, Check
  <1>3. CASE Stop(c) BY <1>3 DEF Stop
  <1>4. CASE Unlink(c) \/ Lost(c) \/ Failed(c) BY <1>4 DEF Unlink, Lost, Failed
  <1>5. CASE Wait(c) \/ Killing(c) BY <1>5 DEF Wait, Killing
  <1> HIDE DEF PlaceInv
  <1> QED BY <1>1, <1>2, <1>3, <1>4, <1>5

\* It is kept when a server is launched and listens ...
LEMMA Launch_Place ==
  ASSUME TypeInv, PlaceInv, NEW c \in Clients, Launch(c)
  PROVE  PlaceInv'
  <1> USE Places_Facts DEF TypeInv
  <1>1. PICK s \in Servers :
          /\ \A o \in Servers : proc[o] = "none" <=> s <= o
          /\ Becomes(s, "init") /\ at' = [at EXCEPT ![c] = s]
    BY DEF Launch
  <1>2. proc[s] = "none"
    BY <1>1
  <1>3. pc[c] = "launch" /\ pc' = [pc EXCEPT ![c] = "listen"] /\ pid' = Nobody
        /\ UNCHANGED <<port, ref, token, reqs, cache, metrics, val, session, stray, late>>
    BY DEF Launch, Goto
  <1>4. proc' = [proc EXCEPT ![s] = "init"]
    BY <1>1 DEF Becomes
  <1>5. \A d \in Clients : pc[d] = "listen" => at[d] # s
    BY <1>2 DEF PlaceInv
  <1> QED BY <1>1, <1>2, <1>3, <1>4, <1>5 DEF PlaceInv, Young, Open

LEMMA Listen_Place ==
  ASSUME TypeInv, PlaceInv, NEW c \in Clients, Listen(c)
  PROVE  PlaceInv'
  <1> USE Places_Facts DEF TypeInv
  <1> DEFINE s == at[c]
  <1>1. s \in Servers /\ proc[s] = "init" /\ pc[c] = "listen"
    BY DEF Listen, PlaceInv
  <1>2. pc' = [pc EXCEPT ![c] = "idle"] /\ at' = [at EXCEPT ![c] = Nobody]
        /\ UNCHANGED <<token, reqs, cache, metrics, pid, stray>>
    BY DEF Listen, Exit, Goto
  <1>3. \A d \in Clients : pc[d] = "listen" /\ d # c => at[d] # s
    BY <1>1 DEF PlaceInv
  <1>4. CASE port = Nobody
    <2>1. port' = s /\ proc' = [proc EXCEPT ![s] = "bound"] /\ session' = [session EXCEPT ![c] = s]
      BY <1>4 DEF Listen, Becomes
    <2> QED BY <1>1, <1>2, <1>3, <1>4, <2>1 DEF PlaceInv, Young, Open
  <1>5. CASE port # Nobody
    <2>1. UNCHANGED <<port, session>> /\ proc' = [proc EXCEPT ![s] = "refused"]
      BY <1>5 DEF Listen, Becomes
    <2> QED BY <1>1, <1>2, <1>3, <1>5, <2>1 DEF PlaceInv, Young, Open
  <1> QED BY <1>4, <1>5

\* ... when the count is posted to it, and settled ...
LEMMA Post_Place ==
  ASSUME TypeInv, PlaceInv, NEW c \in Clients, Join(c) \/ Leave(c)
  PROVE  PlaceInv'
  <1> USE Places_Facts DEF TypeInv
  <1>1. UNCHANGED <<proc, port, token, reqs, cache, metrics, pid>>
        /\ session' \in {session, [session EXCEPT ![c] = Nobody]}
    BY DEF Join, Leave, Post, serverVars
  <1>2. CASE port = Nobody
    <2>1. pc' = [pc EXCEPT ![c] = "idle"] /\ at' = [at EXCEPT ![c] = Nobody]
      BY <1>2 DEF Join, Leave, Post, Exit, Goto
    <2> QED BY <1>1, <2>1 DEF PlaceInv
  <1>3. CASE port # Nobody
    <2>1. at' = [at EXCEPT ![c] = port] /\ port \in Servers /\ proc[port] \notin Young
      BY <1>3 DEF Join, Leave, Post, Places, PlaceInv, Open, Young
    <2>2. \/ pc[c] = "join" /\ pc' = [pc EXCEPT ![c] = "joined"]
          \/ pc[c] = "leave" /\ pc' = [pc EXCEPT ![c] = "left"]
      BY <1>3 DEF Join, Leave, Post, Goto
    <2> QED BY <1>1, <2>1, <2>2 DEF PlaceInv
  <1> QED BY <1>2, <1>3

LEMMA Settle_Place ==
  ASSUME TypeInv, PlaceInv, NEW c \in Clients, Joined(c) \/ Left(c)
  PROVE  PlaceInv'
  <1> USE Places_Facts DEF TypeInv
  <1> DEFINE s == at[c]
  <1>1. s \in Servers /\ proc[s] \notin Young
    BY DEF Joined, Left, PlaceInv
  <1>2. UNCHANGED <<proc, port, reqs, cache, metrics, pid>>
        /\ session' \in {session, [session EXCEPT ![c] = s]}
    BY DEF Joined, Left
  <1>3. token' = token \/ token' = [token EXCEPT ![s] = TRUE]
    BY DEF Joined, Left, Settle
  <1>4. /\ pc' = [pc EXCEPT ![c] = "idle"] \/ pc' = [pc EXCEPT ![c] = "wait"]
        /\ at' = at \/ at' = [at EXCEPT ![c] = Nobody]
    BY DEF Joined, Left, Exit, Goto
  <1>5. \A d \in Clients : d # c => pc'[d] = pc[d] /\ at'[d] = at[d]
    BY <1>4
  <1>6. pc'[c] \in {"idle", "wait"}
    BY <1>4
  <1> QED BY <1>1, <1>2, <1>3, <1>5, <1>6 DEF PlaceInv

\* ... when it is asked to end, or killed ...
LEMMA Kill_Place ==
  ASSUME TypeInv, PlaceInv, NEW c \in Clients, Shutdown(c) \/ ForceKill(c)
  PROVE  PlaceInv'
  <1> USE Places_Facts DEF TypeInv
  <1>1. CASE Shutdown(c)
    <2>1. \A s \in Servers : token'[s] => token[s] \/ proc[s] \in Open
      BY <1>1 DEF Shutdown, PlaceInv
    <2> QED BY <1>1, <2>1 DEF Shutdown, Goto, PlaceInv, Open, Young
  <1>2. CASE ForceKill(c)
    <2>1. pc' = [pc EXCEPT ![c] = "unlink"] \/ pc' = [pc EXCEPT ![c] = "failed"]
      BY <1>2 DEF ForceKill, Goto
    <2>2. UNCHANGED <<token, cache, metrics, pid, at, session>>
      BY <1>2 DEF ForceKill
    <2>3. CASE UNCHANGED <<proc, port, reqs>>
      BY <2>1, <2>2, <2>3 DEF PlaceInv
    <2>4. CASE /\ pid # Nobody /\ Becomes(pid, "gone")
               /\ port' = IF port = pid THEN Nobody ELSE port
               /\ reqs' = [reqs EXCEPT ![pid] = 0]
      <3>1. pid \in Servers /\ proc[pid] \notin Young
        BY <2>4 DEF Places, PlaceInv
      <3>2. proc' = [proc EXCEPT ![pid] = "gone"]
        BY <2>4 DEF Becomes
      <3> QED BY <2>1, <2>2, <2>4, <3>1, <3>2 DEF PlaceInv, Open, Young
    <2> QED BY <1>2, <2>3, <2>4 DEF ForceKill
  <1> QED BY <1>1, <1>2

\* ... and by what the server does itself.
LEMMA Server_Place ==
  ASSUME TypeInv, PlaceInv, NEW s \in Servers, Run(s) \/ Arrive(s) \/ Answer(s)
  PROVE  PlaceInv'
  <1> USE Places_Facts DEF TypeInv, PlaceInv, clientVars, Becomes, Open, Young
  <1>1. CASE WritePid(s) BY <1>1 DEF WritePid
  <1>2. CASE BeginShutdown(s) BY <1>2 DEF BeginShutdown
  <1>3. CASE CloseListener(s) BY <1>3 DEF CloseListener
  <1>4. CASE Drain(s)
    <2>1. proc[s] = "drain" /\ UNCHANGED <<port, token, reqs, cache, pid, clientVars>>
          /\ \E label \in {"close", "exit"} : proc' = [proc EXCEPT ![s] = label]
      BY <1>4 DEF Drain
    <2>2. \A o \in Servers : o # s => metrics'[o] = metrics[o]
      BY <1>4 DEF Drain, CloseMetrics
    <2> QED BY <2>1, <2>2
  <1>5. CASE CloseDeps(s) BY <1>5 DEF CloseDeps
  <1>6. CASE RemovePid(s) \/ Quit(s)
    <2>1. CASE RemovePid(s) BY <2>1 DEF RemovePid, CloseMetrics
    <2>2. CASE Quit(s) BY <2>2 DEF Quit
    <2> QED BY <1>6, <2>1, <2>2
  <1>7. CASE Arrive(s) \/ Answer(s) BY <1>7 DEF Arrive, Answer
  <1> HIDE DEF PlaceInv
  <1> QED BY <1>1, <1>2, <1>3, <1>4, <1>5, <1>6, <1>7 DEF Run

-----------------------------------------------------------------------------
\* BusyInv holds at the start.
LEMMA Init_Busy == Init => BusyInv
  BY DEF Init, BusyInv

\* It is kept by a step that adds no work to a server that has none.
LEMMA Less_Busy ==
  ASSUME BusyInv, UNCHANGED <<proc, cache, metrics>>,
         \A s \in Servers : Busy(s)' => Busy(s) \/ proc[s] \in Open
  PROVE  BusyInv'
  BY DEF BusyInv, Open

LEMMA Client_Busy ==
  ASSUME TypeInv, PlaceInv, BusyInv, NEW c \in Clients,
         Command(c) \/ Start(c) \/ Stop(c) \/ Kill(c) \/ Status(c)
  PROVE  BusyInv'
  <1> USE Places_Facts
  <1>1. CASE Start(c) \/ Kill(c) \/ Status(c) \/ Stop(c)
    <2>1. UNCHANGED <<proc, cache, metrics, reqs, at>> /\ pc' = [pc EXCEPT ![c] = pc'[c]]
          /\ pc'[c] \notin {"joined", "left"}
      BY <1>1 DEF Start, Kill, Status, Check, Stop, serverVars, Goto, TypeInv
    <2> QED BY <2>1, Less_Busy DEF Busy, TypeInv
  <1>2. CASE Unlink(c) \/ Lost(c) \/ Failed(c) \/ Wait(c) \/ Killing(c)
    <2>1. UNCHANGED <<proc, cache, metrics, reqs>> /\ pc'[c] \notin {"joined", "left"}
      BY <1>2 DEF Unlink, Lost, Failed, Wait, Killing, Exit, serverVars, Goto, TypeInv
    <2>2. \A d \in Clients : d # c => pc'[d] = pc[d] /\ at'[d] = at[d]
      BY <1>2 DEF Unlink, Lost, Failed, Wait, Killing, Exit, Goto, TypeInv
    <2> QED BY <2>1, <2>2, Less_Busy DEF Busy
  <1>3. CASE Joined(c) \/ Left(c)
    <2>1. UNCHANGED <<proc, cache, metrics, reqs>> /\ pc'[c] \notin {"joined", "left"}
      BY <1>3 DEF Joined, Left, Exit, Goto, TypeInv
    <2>2. \A d \in Clients : d # c => pc'[d] = pc[d] /\ at'[d] = at[d]
      BY <1>3 DEF Joined, Left, Exit, Goto, TypeInv
    <2> QED BY <2>1, <2>2, Less_Busy DEF Busy
  <1>4. CASE Join(c) \/ Leave(c)
    <2>1. UNCHANGED <<proc, cache, metrics, reqs>>
      BY <1>4 DEF Join, Leave, Post, serverVars
    <2>2. \A d \in Clients : d # c => pc'[d] = pc[d] /\ at'[d] = at[d]
      BY <1>4 DEF Join, Leave, Post, Exit, Goto, TypeInv
    <2>3. pc'[c] \notin {"joined", "left"} \/ at'[c] = port
      BY <1>4 DEF Join, Leave, Post, Exit, Goto, TypeInv
    <2>4. \A s \in Servers : port = s => proc[s] \in Open
      BY DEF PlaceInv
    <2> QED BY <2>1, <2>2, <2>3, <2>4, Less_Busy DEF Busy
  <1>5. CASE Shutdown(c)
    <2>1. UNCHANGED <<proc, cache, metrics, reqs>> /\ pc'[c] \notin {"joined", "left"}
      BY <1>5 DEF Shutdown, Goto, TypeInv
    <2>2. \A d \in Clients : d # c => pc'[d] = pc[d] /\ at'[d] = at[d]
      BY <1>5 DEF Shutdown, Goto, TypeInv
    <2> QED BY <2>1, <2>2, Less_Busy DEF Busy
  <1>6. CASE Launch(c) \/ Listen(c) \/ ForceKill(c)
    <2>1. PICK s \in Places, t \in {"init", "bound", "refused", "gone"} :
            /\ proc' = [proc EXCEPT ![s] = t] \/ proc' = proc
            /\ s \in Servers => t = "gone" \/ proc[s] \in Young
      <3>1. CASE Launch(c)
        <4>1. PICK s \in Servers : /\ \A o \in Servers : proc[o] = "none" <=> s <= o
                                  /\ proc' = [proc EXCEPT ![s] = "init"]
          BY <3>1 DEF Launch, Becomes
        <4>2. proc[s] = "none"
          BY <4>1
        <4> QED BY <4>1, <4>2 DEF Places, Young
      <3>2. CASE Listen(c)
        <4>1. at[c] \in Servers /\ proc[at[c]] = "init"
          BY <3>2 DEF Listen, PlaceInv
        <4> QED BY <3>2, <4>1 DEF Listen, Becomes, Places, Young
      <3>3. CASE ForceKill(c)
        BY <3>3 DEF ForceKill, Becomes, TypeInv
      <3> QED BY <1>6, <3>1, <3>2, <3>3
    <2>2. UNCHANGED <<cache, metrics>> /\ \A o \in Servers : reqs'[o] = reqs[o] \/ reqs'[o] = 0
      BY <1>6 DEF Launch, Listen, ForceKill, TypeInv
    <2>3. pc'[c] \notin {"joined", "left"}
      BY <1>6 DEF Launch, Listen, ForceKill, Exit, Goto, TypeInv
    <2>4. \A d \in Clients : d # c => pc'[d] = pc[d] /\ at'[d] = at[d]
      BY <1>6 DEF Launch, Listen, ForceKill, Exit, Goto, TypeInv
    <2>5. \A o \in Servers : Busy(o)' => Busy(o)
      <3> TAKE o \in Servers
      <3>1. reqs'[o] > 0 => reqs[o] > 0 BY <2>2
      <3> QED BY <2>3, <2>4, <3>1 DEF Busy
    <2>6. \A o \in Servers : proc[o] \in Young => cache[o] = "open" /\ metrics[o] = "open"
      BY DEF PlaceInv
    <2> QED BY <2>1, <2>2, <2>5, <2>6 DEF BusyInv, TypeInv
  <1> HIDE DEF BusyInv
  <1> QED BY <1>1, <1>2, <1>3, <1>4, <1>5, <1>6 DEF Command

LEMMA Server_Busy ==
  ASSUME TypeInv, PlaceInv, BusyInv, NEW s \in Servers, Run(s) \/ Arrive(s) \/ Answer(s)
  PROVE  BusyInv'
  <1>1. UNCHANGED <<pc, at>>
    BY DEF Run, Arrive, Answer, WritePid, BeginShutdown, CloseListener, Drain, CloseDeps,
           RemovePid, Quit, clientVars
  <1>2. CASE WritePid(s) \/ BeginShutdown(s) \/ CloseListener(s)
    <2>1. UNCHANGED <<reqs, cache, metrics>> /\ proc[s] \in Open
          /\ \E t \in {"up", "stopping", "drain"} : proc' = [proc EXCEPT ![s] = t]
      BY <1>2 DEF WritePid, BeginShutdown, CloseListener, Becomes, Open
    <2> QED BY <1>1, <2>1 DEF BusyInv, Busy, TypeInv, Open
  <1>3. CASE Drain(s)
    <2>1. proc[s] = "drain" /\ UNCHANGED <<reqs, cache>>
      BY <1>3 DEF Drain
    <2>2. CASE ~ Busy(s) /\ proc' = [proc EXCEPT ![s] = "close"] /\ UNCHANGED metrics
      BY <1>1, <2>1, <2>2 DEF BusyInv, Busy, TypeInv
    <2>3. CASE proc' = [proc EXCEPT ![s] = "exit"] /\ CloseMetrics(s)
      BY <1>1, <2>1, <2>3 DEF BusyInv, Busy, TypeInv, CloseMetrics
    <2> QED BY <1>3, <2>2, <2>3 DEF Drain, Becomes
  <1>4. CASE CloseDeps(s)
    BY <1>1, <1>4 DEF CloseDeps, Becomes, BusyInv, Busy, TypeInv
  <1>5. CASE RemovePid(s)
    BY <1>1, <1>5 DEF RemovePid, CloseMetrics, Becomes, BusyInv, Busy, TypeInv
  <1>6. CASE Arrive(s)
    <2>1. proc[s] \in Open BY <1>6 DEF Arrive, PlaceInv
    <2> QED BY <1>1, <1>6, <2>1, Less_Busy DEF Arrive, Busy, TypeInv
  <1>7. CASE Answer(s)
    BY <1>1, <1>7, Less_Busy DEF Answer, Busy, TypeInv
  <1>8. CASE Quit(s)
    BY <1>1, <1>8 DEF Quit, Becomes, BusyInv, Busy, TypeInv
  <1> HIDE DEF BusyInv
  <1> QED BY <1>2, <1>3, <1>4, <1>5, <1>6, <1>7, <1>8 DEF Run

-----------------------------------------------------------------------------
\* Whether client c is about to send the token that stops server s.
Witness(c, s) == at[c] = s /\ pc[c] \in {"joined", "left"} /\ val[c] <= 0

LEMMA Doomed_Witness ==
  ASSUME NEW s \in Servers
  PROVE  Doomed(s) <=> token[s] \/ \E c \in Clients : Witness(c, s)
  BY DEF Doomed, Witness

\* ZeroIsSignalled is kept by a step that neither counts nor takes a token or
\* a handler away from a server that runs.
LEMMA Same_Zero ==
  ASSUME ZeroIsSignalled,
         \A s \in Servers : proc'[s] \in {"bound", "up"} =>
           /\ proc[s] \in {"bound", "up"} /\ ref'[s] = ref[s]
           /\ token[s] => token'[s]
           /\ \A c \in Clients : Witness(c, s) => Witness(c, s)'
  PROVE  ZeroIsSignalled'
  BY DEF ZeroIsSignalled, Doomed, Witness

LEMMA Client_Zero ==
  ASSUME TypeInv, PlaceInv, ZeroIsSignalled, NEW c \in Clients,
         Command(c) \/ Start(c) \/ Stop(c) \/ Kill(c) \/ Status(c)
  PROVE  ZeroIsSignalled'
  <1> USE Places_Facts
  <1>1. CASE Start(c) \/ Kill(c) \/ Status(c) \/ Stop(c)
    <2>1. UNCHANGED <<proc, ref, token, at, val>> /\ pc[c] = "idle"
          /\ \A d \in Clients : d # c => pc'[d] = pc[d]
      BY <1>1 DEF Start, Kill, Status, Check, Stop, serverVars, Goto, TypeInv
    <2> QED BY <2>1, Same_Zero DEF Witness
  <1>2. CASE Unlink(c) \/ Lost(c) \/ Failed(c) \/ Wait(c) \/ Killing(c)
    <2>1. UNCHANGED <<proc, ref, token>>
      BY <1>2 DEF Unlink, Lost, Failed, Wait, Killing, serverVars
    <2>2. \A d \in Clients : d # c => pc'[d] = pc[d] /\ at'[d] = at[d] /\ val'[d] = val[d]
      BY <1>2 DEF Unlink, Lost, Failed, Wait, Killing, Exit, Goto, TypeInv
    <2>3. pc[c] \notin {"joined", "left"} \/ proc[at[c]] = "gone"
      BY <1>2 DEF Unlink, Lost, Failed, Wait, Killing
    <2> QED BY <2>1, <2>2, <2>3, Same_Zero DEF Witness
  <1>3. CASE Launch(c)
    <2>1. PICK s \in Servers : proc' = [proc EXCEPT ![s] = "init"]
      BY <1>3 DEF Launch, Becomes
    <2>2. UNCHANGED <<ref, token, val>> /\ pc[c] = "launch"
          /\ \A d \in Clients : d # c => pc'[d] = pc[d] /\ at'[d] = at[d]
      BY <1>3 DEF Launch, Goto, TypeInv
    <2> QED BY <2>1, <2>2, Same_Zero DEF Witness, TypeInv
  <1>4. CASE Listen(c)
    <2>1. at[c] \in Servers /\ pc[c] = "listen" /\ UNCHANGED token
          /\ \A d \in Clients : d # c => pc'[d] = pc[d] /\ at'[d] = at[d] /\ val'[d] = val[d]
      BY <1>4 DEF Listen, Exit, Goto, TypeInv, PlaceInv
    <2>2. CASE port = Nobody
      <3>1. ref' = [ref EXCEPT ![at[c]] = 1] /\ proc' = [proc EXCEPT ![at[c]] = "bound"]
        BY <1>4, <2>2 DEF Listen, Becomes
      <3>2. ref'[at[c]] = 1 /\ \A s \in Servers : s # at[c] => ref'[s] = ref[s] /\ proc'[s] = proc[s]
        BY <2>1, <3>1 DEF TypeInv
      <3>3. \A s \in Servers, d \in Clients : Witness(d, s) => Witness(d, s)'
        BY <2>1 DEF Witness
      <3>4. \A s \in Servers : Doomed(s) => Doomed(s)'
        BY <2>1, <3>3 DEF Doomed, Witness
      <3>5. \A s \in Servers : proc'[s] \in {"bound", "up"} /\ ref'[s] = 0 =>
              proc[s] \in {"bound", "up"} /\ ref[s] = 0
        BY <3>2
      <3> QED BY <3>4, <3>5 DEF ZeroIsSignalled
    <2>3. CASE port # Nobody
      <3>1. UNCHANGED ref /\ proc' = [proc EXCEPT ![at[c]] = "refused"]
        BY <1>4, <2>3 DEF Listen, Becomes
      <3> QED BY <2>1, <3>1, Same_Zero DEF Witness, TypeInv
    <2> QED BY <2>2, <2>3
  <1>5. CASE Join(c) \/ Leave(c)
    <2>1. UNCHANGED <<proc, token, port>> /\ pc[c] \notin {"joined", "left"}
          /\ \A d \in Clients : d # c => pc'[d] = pc[d] /\ at'[d] = at[d] /\ val'[d] = val[d]
      BY <1>5 DEF Join, Leave, Post, Exit, Goto, serverVars, TypeInv
    <2>2. CASE port = Nobody
      <3>1. UNCHANGED ref BY <1>5, <2>2 DEF Join, Leave, Post
      <3> QED BY <2>1, <3>1, Same_Zero DEF Witness
    <2>3. CASE port # Nobody
      <3>1. PICK delta \in {1, -1} :
              /\ ref' = [ref EXCEPT ![port] = @ + delta]
              /\ val' = [val EXCEPT ![c] = ref[port] + delta]
        BY <1>5, <2>3 DEF Join, Leave, Post
      <3>2. at'[c] = port /\ pc'[c] \in {"joined", "left"} /\ port \in Servers
        BY <1>5, <2>3 DEF Join, Leave, Post, Goto, TypeInv, Places
      <3>3. val'[c] = ref'[port] /\ \A s \in Servers : s # port => ref'[s] = ref[s]
        BY <3>1, <3>2 DEF TypeInv
      <3>4. \A s \in Servers, d \in Clients : Witness(d, s) => Witness(d, s)'
        BY <2>1 DEF Witness
      <3>5. ref'[port] = 0 => Witness(c, port)'
        BY <2>1, <3>2, <3>3 DEF Witness
      <3> QED BY <2>1, <3>2, <3>3, <3>4, <3>5 DEF ZeroIsSignalled, Doomed, Witness
    <2> QED BY <2>2, <2>3
  <1>6. CASE Joined(c) \/ Left(c)
    <2>1. UNCHANGED proc /\ at[c] \in Servers
          /\ \A d \in Clients : d # c => pc'[d] = pc[d] /\ at'[d] = at[d] /\ val'[d] = val[d]
      BY <1>6 DEF Joined, Left, Exit, Goto, TypeInv, PlaceInv
    <2>2. Settle(c) /\ val[c] \in Int
      BY <1>6 DEF Joined, Left, TypeInv
    <2>3. CASE val[c] <= 0
      <3>1. token' = [token EXCEPT ![at[c]] = TRUE]
        BY <2>2, <2>3 DEF Settle
      <3>2. token'[at[c]] /\ \A s \in Servers : s # at[c] => token'[s] = token[s]
        BY <2>1, <3>1 DEF TypeInv
      <3>3. ref' = ref \/ ref' = [ref EXCEPT ![at[c]] = 0]
        BY <2>2 DEF Settle
      <3>4. \A s \in Servers : s # at[c] => ref'[s] = ref[s]
        BY <3>3 DEF TypeInv
      <3>5. \A s \in Servers, d \in Clients : s # at[c] /\ Witness(d, s) => Witness(d, s)'
        BY <2>1 DEF Witness
      <3> SUFFICES ASSUME NEW s \in Servers, proc[s] \in {"bound", "up"}, ref'[s] = 0
                   PROVE  token'[s] \/ \E d \in Clients : Witness(d, s)'
        BY <2>1 DEF ZeroIsSignalled, Doomed, Witness
      <3>6. CASE s = at[c] BY <3>2, <3>6
      <3>7. CASE s # at[c]
        BY <3>2, <3>4, <3>5, <3>7, Doomed_Witness DEF ZeroIsSignalled
      <3> QED BY <3>6, <3>7
    <2>4. CASE val[c] > 0
      <3>1. UNCHANGED <<ref, token>>
        BY <2>2, <2>4 DEF Settle
      <3>2. \A s \in Servers : ~ Witness(c, s)
        BY <2>2, <2>4 DEF Witness
      <3> QED BY <2>1, <3>1, <3>2, Same_Zero DEF Witness
    <2> QED BY <2>2, <2>3, <2>4
  <1>7. CASE Shutdown(c) \/ ForceKill(c)
    <2>1. \A d \in Clients : d # c => pc'[d] = pc[d] /\ at'[d] = at[d]
      BY <1>7 DEF Shutdown, ForceKill, Goto, TypeInv
    <2>2. UNCHANGED <<ref, val>> /\ pc[c] \notin {"joined", "left"}
      BY <1>7 DEF Shutdown, ForceKill
    <2>3. \A s \in Servers : (token[s] => token'[s]) /\ proc'[s] \in {proc[s], "gone"}
      BY <1>7 DEF Shutdown, ForceKill, Becomes, TypeInv
    <2> QED BY <2>1, <2>2, <2>3, Same_Zero DEF Witness
  <1> HIDE DEF ZeroIsSignalled
  <1> QED BY <1>1, <1>2, <1>3, <1>4, <1>5, <1>6, <1>7 DEF Command

LEMMA Server_Zero ==
  ASSUME TypeInv, ZeroIsSignalled, NEW s \in Servers, Run(s) \/ Arrive(s) \/ Answer(s)
  PROVE  ZeroIsSignalled'
  <1>1. UNCHANGED <<pc, at, val, ref>>
    BY DEF Run, Arrive, Answer, WritePid, BeginShutdown, CloseListener, Drain, CloseDeps,
           RemovePid, Quit, clientVars
  <1>2. \A o \in Servers : proc'[o] \in {"bound", "up"} =>
          proc[o] \in {"bound", "up"} /\ token'[o] = token[o]
    BY DEF Run, Arrive, Answer, WritePid, BeginShutdown, CloseListener, Drain, CloseDeps,
           RemovePid, Quit, Becomes, TypeInv
  <1> QED BY <1>1, <1>2, Same_Zero DEF Witness

-----------------------------------------------------------------------------
\* Whether client c counts on server s, from the request that said so to the
\* one that takes it back; and the invariant about the count: it is the
\* number of those clients, a handler has seen it as it was, and the clients
\* of a server that must exit are late.
Uses(c, s) == session[c] = s \/ (pc[c] = "joined" /\ at[c] = s)
Users(s) == {c \in Clients : Uses(c, s)}
InHandler(c) == pc[c] \in {"joined", "left"}

CountInv ==
  ~ stray =>
    /\ \A s \in Servers : port = s => ref[s] = Cardinality(Users(s))
    /\ \A c \in Clients : InHandler(c) => val[c] >= 0
    /\ \A s \in Servers : Doomed(s) => Users(s) \subseteq late

LEMMA Init_Count == Init => CountInv
  BY Places_Facts DEF Init, CountInv, Doomed, InHandler

LEMMA Users_Finite ==
  ASSUME NEW s
  PROVE  IsFiniteSet(Users(s)) /\ Cardinality(Users(s)) \in Nat
  <1>1. IsFiniteSet(Clients) /\ Users(s) \in SUBSET Clients
    BY DaemonAssumption DEF Users
  <1>2. IsFiniteSet(Users(s))
    BY <1>1, FS_Subset
  <1> QED BY <1>2, FS_CardinalityType

\* CountInv is kept by a step that leaves the count of the server that
\* listens, and its clients, as they are, and dooms no other server.
LEMMA Less_Count ==
  ASSUME CountInv, stray' = stray \/ stray',
         \A s \in Servers, c \in Clients : Uses(c, s)' => Uses(c, s),
         \A s \in Servers : port' = s =>
           /\ port = s /\ ref'[s] = ref[s]
           /\ \A c \in Clients : Uses(c, s) => Uses(c, s)',
         \A c \in Clients : InHandler(c)' => InHandler(c) /\ val'[c] = val[c],
         \A s \in Servers : Doomed(s)' => Doomed(s),
         \A s \in Servers, c \in Clients : Uses(c, s)' /\ c \in late => c \in late'
  PROVE  CountInv'
  <1> SUFFICES ASSUME ~ stray' PROVE CountInv'
    BY DEF CountInv
  <1>1. \A s \in Servers : port' = s => ref'[s] = Cardinality(Users(s)')
    <2> SUFFICES ASSUME NEW s \in Servers, port' = s PROVE ref'[s] = Cardinality(Users(s)')
      OBVIOUS
    <2>1. Users(s)' = Users(s) BY DEF Users
    <2> QED BY <2>1 DEF CountInv
  <1>2. \A c \in Clients : InHandler(c)' => val'[c] >= 0
    BY DEF CountInv
  <1>3. \A s \in Servers : Doomed(s)' => Users(s)' \subseteq late'
    BY DEF CountInv, Users
  <1> QED BY <1>1, <1>2, <1>3 DEF CountInv

\* A new server has the client that launched it.
LEMMA Listen_Count ==
  ASSUME TypeInv, PlaceInv, CountInv, NEW c \in Clients, Listen(c)
  PROVE  CountInv'
  <1> USE Places_Facts DEF TypeInv
  <1>0. PICK s \in Servers : s = at[c]
    BY DEF Listen, PlaceInv
  <1>1. proc[s] = "init" /\ pc[c] = "listen" /\ session[c] = Nobody
    BY <1>0 DEF Listen, PlaceInv
  <1>2. pc' = [pc EXCEPT ![c] = "idle"] /\ at' = [at EXCEPT ![c] = Nobody]
        /\ val' = [val EXCEPT ![c] = 0]
        /\ UNCHANGED <<token, stray>> /\ late' = late \ {c}
    BY DEF Listen, Exit, Goto
  <1>3. \A d \in Clients : d # c => pc'[d] = pc[d] /\ at'[d] = at[d] /\ val'[d] = val[d]
    BY <1>2
  <1>4. pc'[c] = "idle"
    BY <1>2
  <1>5. \A o \in Servers : Doomed(o)' => Doomed(o)
    BY <1>2, <1>3, <1>4 DEF Doomed
  <1>6. CASE port # Nobody
    <2>1. UNCHANGED <<port, session, ref>> BY <1>6 DEF Listen
    <2>2. \A o \in Servers, d \in Clients : Uses(d, o)' <=> Uses(d, o)
      BY <1>1, <1>3, <1>4, <2>1 DEF Uses
    <2>3. \A o \in Servers : ~ Uses(c, o)
      BY <1>1 DEF Uses
    <2> QED BY <1>2, <1>3, <1>4, <1>5, <2>1, <2>2, <2>3, Less_Count DEF InHandler
  <1>7. CASE port = Nobody
    <2>1. port' = s /\ ref' = [ref EXCEPT ![s] = 1] /\ session' = [session EXCEPT ![c] = s]
      BY <1>0, <1>7 DEF Listen
    <2>2. ref'[s] = 1 /\ session'[c] = s /\ \A d \in Clients : d # c => session'[d] = session[d]
      BY <1>1, <2>1
    <2>3. \A d \in Clients : d # c => ~ Uses(d, s)'
      BY <1>1, <1>2, <1>3, <2>2 DEF Uses, PlaceInv, Young
    <2>4. Uses(c, s)'
      BY <2>2 DEF Uses
    <2>5. ~ Doomed(s)
      BY <1>1 DEF Doomed, PlaceInv, Young
    <2>6. Users(s)' = {c}
      BY <2>3, <2>4 DEF Users
    <2>7. \A o \in Servers, d \in Clients : o # s /\ Uses(d, o)' => d # c /\ Uses(d, o)
      BY <1>2, <1>3, <1>4, <2>2 DEF Uses
    <2>8. \A o \in Servers : o # s => (Users(o)' \subseteq Users(o) /\ c \notin Users(o)')
      BY <2>7 DEF Users
    <2>9. \A d \in Clients : InHandler(d)' => InHandler(d) /\ val'[d] = val[d]
      BY <1>3, <1>4 DEF InHandler
    <2>10. Cardinality({c}) = 1
      BY FS_Singleton
    <2> SUFFICES ASSUME ~ stray' PROVE CountInv'
      BY DEF CountInv
    <2>11. \A o \in Servers : port' = o => ref'[o] = Cardinality(Users(o)')
      <3> SUFFICES ASSUME NEW o \in Servers, port' = o PROVE ref'[o] = Cardinality(Users(o)')
        OBVIOUS
      <3>1. o = s BY <2>1
      <3> QED BY <2>2, <2>6, <2>10, <3>1
    <2>12. \A d \in Clients : InHandler(d)' => val'[d] >= 0
      BY <1>2, <2>9 DEF CountInv
    <2>13. \A o \in Servers : Doomed(o)' => Users(o)' \subseteq late'
      <3> SUFFICES ASSUME NEW o \in Servers, Doomed(o)' PROVE Users(o)' \subseteq late'
        OBVIOUS
      <3>1. Doomed(o) /\ o # s
        BY <1>5, <2>5
      <3>2. Users(o) \subseteq late
        BY <1>2, <3>1 DEF CountInv
      <3> QED BY <1>2, <2>8, <3>1, <3>2
    <2> QED BY <2>11, <2>12, <2>13 DEF CountInv
  <1> QED BY <1>6, <1>7

\* One that joins adds to the count, and is late if the server must exit.
LEMMA Join_Count ==
  ASSUME TypeInv, PlaceInv, CountInv, NEW c \in Clients, Join(c)
  PROVE  CountInv'
  <1> USE Places_Facts DEF TypeInv
  <1>1. pc[c] = "join" /\ session[c] = Nobody
    BY DEF Join, Post, PlaceInv
  <1>2. UNCHANGED <<port, token, session, stray>>
    BY DEF Join, Post, serverVars
  <1>3. \A d \in Clients : d # c => pc'[d] = pc[d] /\ at'[d] = at[d] /\ val'[d] = val[d]
    BY DEF Join, Post, Exit, Goto
  <1>4. CASE port = Nobody
    <2>1. pc'[c] = "idle" /\ UNCHANGED ref /\ late' = late \ {c}
      BY <1>4 DEF Join, Post, Exit, Goto
    <2>2. \A o \in Servers, d \in Clients : Uses(d, o)' => d # c /\ Uses(d, o)
      BY <1>1, <1>2, <1>3, <2>1 DEF Uses
    <2>3. \A o \in Servers : Doomed(o)' => Doomed(o)
      BY <1>2, <1>3, <2>1 DEF Doomed
    <2>4. \A d \in Clients : InHandler(d)' => InHandler(d) /\ val'[d] = val[d]
      BY <1>3, <2>1 DEF InHandler
    <2> QED BY <1>2, <1>4, <2>1, <2>2, <2>3, <2>4, Less_Count
  <1>5. CASE port # Nobody
    <2>0. PICK s \in Servers : s = port
      BY <1>5 DEF Places
    <2>1. pc'[c] = "joined" /\ at'[c] = s /\ val'[c] = ref[s] + 1
          /\ ref' = [ref EXCEPT ![s] = ref[s] + 1]
          /\ late' = (IF Doomed(s) THEN late \union {c} ELSE late \ {c})
      BY <1>5, <2>0 DEF Join, Post, Goto
    <2>2. Uses(c, s)' /\ ~ Uses(c, s) /\ \A o \in Servers : o # s => ~ Uses(c, o)'
      BY <1>1, <1>2, <2>1 DEF Uses
    <2>3. \A o \in Servers, d \in Clients : d # c => (Uses(d, o)' <=> Uses(d, o))
      BY <1>2, <1>3 DEF Uses
    <2>4. Users(s)' = Users(s) \cup {c} /\ c \notin Users(s)
      BY <2>2, <2>3 DEF Users
    <2>5. Cardinality(Users(s)') = Cardinality(Users(s)) + 1
      <3>1. IsFiniteSet(Users(s))
        BY Users_Finite
      <3> QED BY <2>4, <3>1, FS_AddElement
    <2> SUFFICES ASSUME ~ stray' PROVE CountInv'
      BY DEF CountInv
    <2>6. ref[s] = Cardinality(Users(s)) /\ ref'[s] = ref[s] + 1
          /\ val'[c] >= 0 /\ ~ (val'[c] <= 0)
      BY <1>2, <2>0, <2>1, Users_Finite DEF CountInv
    <2>7. \A o \in Servers : port' = o => ref'[o] = Cardinality(Users(o)')
      <3> SUFFICES ASSUME NEW o \in Servers, port' = o PROVE ref'[o] = Cardinality(Users(o)')
        OBVIOUS
      <3>1. o = s BY <1>2, <2>0
      <3> QED BY <2>5, <2>6, <3>1
    <2>8. \A d \in Clients : InHandler(d)' => val'[d] >= 0
      <3> TAKE d \in Clients
      <3>1. CASE d = c BY <2>6, <3>1
      <3>2. CASE d # c BY <1>2, <1>3, <3>2 DEF CountInv, InHandler
      <3> QED BY <3>1, <3>2
    <2>9. \A o \in Servers : Doomed(o)' => Doomed(o)
      <3>1. \A d \in Clients : val'[d] <= 0 => d # c
        BY <2>6
      <3> QED BY <1>2, <1>3, <3>1 DEF Doomed
    <2>10. \A o \in Servers : Doomed(o)' => Users(o)' \subseteq late'
      <3> SUFFICES ASSUME NEW o \in Servers, Doomed(o), NEW d \in Clients, Uses(d, o)'
                   PROVE  d \in late'
        BY <2>9 DEF Users
      <3>1. CASE d = c
        <4>1. o = s BY <2>2, <3>1
        <4> QED BY <2>1, <3>1, <4>1
      <3>2. CASE d # c
        <4>1. d \in late
          BY <1>2, <2>3, <3>2 DEF CountInv, Users
        <4> QED BY <2>1, <3>2, <4>1
      <3> QED BY <3>1, <3>2
    <2> QED BY <2>7, <2>8, <2>10 DEF CountInv
  <1> QED BY <1>4, <1>5

\* One that leaves takes one from it; a stop that reaches a server its
\* session never used is a stray one.
LEMMA Leave_Count ==
  ASSUME TypeInv, PlaceInv, CountInv, NEW c \in Clients, Leave(c)
  PROVE  CountInv'
  <1> USE Places_Facts DEF TypeInv
  <1>1. pc[c] = "leave" /\ late' = late \ {c}
        /\ stray' = (stray \/ port \notin {Nobody, session[c]})
        /\ session' = [session EXCEPT ![c] = Nobody]
    BY DEF Leave, Post
  <1>2. UNCHANGED <<port, token>>
    BY DEF Leave, Post, serverVars
  <1>3. \A d \in Clients : d # c =>
          pc'[d] = pc[d] /\ at'[d] = at[d] /\ val'[d] = val[d] /\ session'[d] = session[d]
    BY DEF Leave, Post, Exit, Goto
  <1>4. pc'[c] \in {"idle", "left"} /\ session'[c] = Nobody
    BY DEF Leave, Post, Exit, Goto
  <1>5. \A o \in Servers : ~ Uses(c, o)'
    BY <1>4 DEF Uses
  <1>6. \A o \in Servers, d \in Clients : d # c => (Uses(d, o)' <=> Uses(d, o))
    BY <1>3 DEF Uses
  <1>7. CASE port = Nobody
    <2>1. pc'[c] = "idle" /\ UNCHANGED ref
      BY <1>7 DEF Leave, Post, Exit, Goto
    <2>2. \A o \in Servers, d \in Clients : Uses(d, o)' => d # c /\ Uses(d, o)
      BY <1>5, <1>6
    <2>3. \A o \in Servers : Doomed(o)' => Doomed(o)
      BY <1>2, <1>3, <2>1 DEF Doomed
    <2>4. \A d \in Clients : InHandler(d)' => InHandler(d) /\ val'[d] = val[d]
      BY <1>3, <2>1 DEF InHandler
    <2>5. stray' = stray \/ stray'
      BY <1>1
    <2>6. \A o \in Servers, d \in Clients : Uses(d, o)' /\ d \in late => d \in late'
      BY <1>1, <2>2
    <2>7. \A o \in Servers : port' # o
      BY <1>2, <1>7
    <2> QED BY <2>2, <2>3, <2>4, <2>5, <2>6, <2>7, Less_Count
  <1>8. CASE port # Nobody
    <2>0. PICK s \in Servers : s = port
      BY <1>8 DEF Places
    <2>1. pc'[c] = "left" /\ at'[c] = s /\ val'[c] = ref[s] - 1 /\ ref'[s] = ref[s] - 1
      BY <1>8, <2>0 DEF Leave, Post, Goto
    <2> SUFFICES ASSUME ~ stray' PROVE CountInv'
      BY DEF CountInv
    <2>2. ~ stray /\ session[c] = s
      BY <1>1, <2>0
    <2>3. Users(s)' = Users(s) \ {c} /\ c \in Users(s)
      BY <1>5, <1>6, <2>2 DEF Users, Uses
    <2>4. Cardinality(Users(s)') = Cardinality(Users(s)) - 1
      BY <2>3, Users_Finite, FS_RemoveElement
    <2>5. ref[s] = Cardinality(Users(s))
      BY <2>0, <2>2 DEF CountInv
    <2>6. IsFiniteSet(Users(s)')
      BY <2>3, Users_Finite, FS_RemoveElement
    <2>7. Cardinality(Users(s)') \in Nat
      BY <2>6, FS_CardinalityType
    <2>8. val'[c] = Cardinality(Users(s)') /\ ref'[s] = Cardinality(Users(s)')
      BY <2>1, <2>4, <2>5
    <2>9. val'[c] <= 0 => Users(s)' = {}
      BY <2>6, <2>7, <2>8, FS_EmptySet
    <2>10. \A o \in Servers : port' = o => ref'[o] = Cardinality(Users(o)')
      <3> SUFFICES ASSUME NEW o \in Servers, port' = o PROVE ref'[o] = Cardinality(Users(o)')
        OBVIOUS
      <3>1. o = s BY <1>2, <2>0
      <3> QED BY <2>8, <3>1
    <2>11. \A d \in Clients : InHandler(d)' => val'[d] >= 0
      BY <1>3, <2>2, <2>7, <2>8 DEF CountInv, InHandler
    <2>12. \A o \in Servers : Doomed(o)' => Doomed(o) \/ (o = s /\ Users(s)' = {})
      BY <1>2, <1>3, <2>1, <2>9 DEF Doomed
    <2>13. \A o \in Servers : Doomed(o)' => Users(o)' \subseteq late'
      <3> SUFFICES ASSUME NEW o \in Servers, Doomed(o)' PROVE Users(o)' \subseteq late'
        OBVIOUS
      <3>1. CASE o = s /\ Users(s)' = {}
        <4>1. Users(o)' = {} BY <3>1
        <4> QED BY <4>1
      <3>2. CASE Doomed(o)
        <4>1. Users(o) \subseteq late BY <2>2, <3>2 DEF CountInv
        <4>2. Users(o)' \subseteq Users(o) \ {c} BY <1>5, <1>6 DEF Users
        <4> QED BY <1>1, <4>1, <4>2
      <3> QED BY <2>12, <3>1, <3>2
    <2> QED BY <2>10, <2>11, <2>13 DEF CountInv
  <1> QED BY <1>7, <1>8

\* The handlers that finish, and the kills, count nothing.
LEMMA Rest_Count ==
  ASSUME TypeInv, PlaceInv, CountInv, NEW c \in Clients,
         \/ Start(c) \/ Stop(c) \/ Kill(c) \/ Status(c) \/ Unlink(c) \/ Lost(c) \/ Failed(c)
         \/ Wait(c) \/ Killing(c) \/ Launch(c) \/ ForceKill(c)
  PROVE  CountInv'
  <1> USE Places_Facts DEF TypeInv
  <1>1. UNCHANGED <<ref, token, stray, late>>
    BY DEF Start, Stop, Kill, Status, Check, Unlink, Lost, Failed, Wait, Killing, Launch,
           ForceKill, serverVars
  <1>2. \A d \in Clients : d # c =>
          pc'[d] = pc[d] /\ at'[d] = at[d] /\ val'[d] = val[d] /\ session'[d] = session[d]
    BY DEF Start, Stop, Kill, Status, Check, Unlink, Lost, Failed, Wait, Killing, Launch,
           ForceKill, Exit, Goto
  <1>3. pc'[c] \notin {"joined", "left"}
    BY DEF Start, Stop, Kill, Status, Check, Unlink, Lost, Failed, Wait, Killing, Launch,
           ForceKill, Exit, Goto
  <1>4. session'[c] = session[c] \/ (port = Nobody /\ session'[c] = Nobody)
    BY DEF Start, Stop, Kill, Status, Check, Unlink, Lost, Failed, Wait, Killing, Launch,
           ForceKill
  <1>5. port' = port \/ port' = Nobody
    BY DEF Start, Stop, Kill, Status, Check, Unlink, Lost, Failed, Wait, Killing, Launch,
           ForceKill, serverVars
  <1>6. pc[c] = "joined" => proc[at[c]] = "gone" /\ at[c] # port
    <2>1. pc[c] = "joined" => proc[at[c]] = "gone" /\ at[c] \in Servers
      BY DEF Start, Stop, Kill, Status, Check, Unlink, Lost, Failed, Wait, Killing, Launch,
             ForceKill, PlaceInv
    <2> QED BY <2>1 DEF PlaceInv, Open
  <1>7. \A o \in Servers, d \in Clients : Uses(d, o)' => Uses(d, o)
    BY <1>2, <1>3, <1>4 DEF Uses
  <1>8. \A o \in Servers : port' = o =>
          port = o /\ ref'[o] = ref[o] /\ \A d \in Clients : Uses(d, o) => Uses(d, o)'
    BY <1>1, <1>2, <1>4, <1>5, <1>6 DEF Uses
  <1>9. \A d \in Clients : InHandler(d)' => InHandler(d) /\ val'[d] = val[d]
    BY <1>2, <1>3 DEF InHandler
  <1>10. \A o \in Servers : Doomed(o)' => Doomed(o)
    BY <1>1, <1>2, <1>3 DEF Doomed
  <1> QED BY <1>1, <1>7, <1>8, <1>9, <1>10, Less_Count

LEMMA Settle_Count ==
  ASSUME TypeInv, PlaceInv, CountInv, NEW c \in Clients, Joined(c) \/ Left(c)
  PROVE  CountInv'
  <1> USE Places_Facts DEF TypeInv
  <1> SUFFICES ASSUME ~ stray PROVE CountInv'
    BY DEF CountInv, Joined, Left
  <1>0. PICK s \in Servers : s = at[c]
    BY DEF Joined, Left, PlaceInv
  <1>1. val[c] >= 0
    BY DEF CountInv, InHandler, Joined, Left
  <1>2. UNCHANGED <<port, ref, stray, late>>
    BY <1>1 DEF Joined, Left, Settle
  <1>3. token' = IF val[c] <= 0 THEN [token EXCEPT ![s] = TRUE] ELSE token
    BY <1>0 DEF Joined, Left, Settle
  <1>4. \A d \in Clients : d # c =>
          pc'[d] = pc[d] /\ at'[d] = at[d] /\ val'[d] = val[d] /\ session'[d] = session[d]
    BY DEF Joined, Left, Exit, Goto
  <1>5. pc'[c] \notin {"joined", "left"}
    BY DEF Joined, Left, Exit, Goto
  <1>6. \A o \in Servers : Uses(c, o)' <=> Uses(c, o)
    <2>1. CASE Joined(c)
      <3>1. session[c] = Nobody /\ session'[c] = s /\ pc[c] = "joined"
        BY <1>0, <2>1 DEF Joined, PlaceInv
      <3> QED BY <1>0, <1>5, <3>1 DEF Uses
    <2>2. CASE Left(c)
      <3>1. session' = session /\ pc[c] = "left"
        BY <2>2 DEF Left
      <3> QED BY <1>5, <3>1 DEF Uses
    <2> QED BY <2>1, <2>2
  <1>7. \A o \in Servers, d \in Clients : Uses(d, o)' <=> Uses(d, o)
    BY <1>4, <1>6 DEF Uses
  <1>8. \A d \in Clients : InHandler(d)' => InHandler(d) /\ val'[d] = val[d]
    BY <1>4, <1>5 DEF InHandler
  <1>9. val[c] <= 0 => Doomed(s)
    BY <1>0 DEF Doomed, Joined, Left
  <1>10. \A o \in Servers : Doomed(o)' => Doomed(o)
    <2>1. \A o \in Servers : token'[o] => token[o] \/ (o = s /\ val[c] <= 0)
      BY <1>3
    <2>2. \A o \in Servers, d \in Clients : Witness(d, o)' => Witness(d, o)
      BY <1>4, <1>5 DEF Witness
    <2> QED BY <1>9, <2>1, <2>2 DEF Doomed, Witness
  <1> QED BY <1>2, <1>7, <1>8, <1>10, Less_Count

LEMMA Shutdown_Count ==
  ASSUME TypeInv, PlaceInv, CountInv, NEW c \in Clients, Shutdown(c)
  PROVE  CountInv'
  <1> USE Places_Facts DEF TypeInv
  <1>1. UNCHANGED <<port, ref, val, session, stray>> /\ pc[c] = "shutdown"
        /\ token' = [s \in Servers |-> token[s] \/ s = port]
        /\ late' = late \union {o \in Clients : port \in {session[o], at[o]} \ {Nobody}}
    BY DEF Shutdown
  <1>2. \A d \in Clients : d # c => pc'[d] = pc[d] /\ at'[d] = at[d]
    BY DEF Shutdown, Goto
  <1>3. pc'[c] = "killing"
    BY DEF Shutdown, Goto
  <1>4. \A o \in Servers, d \in Clients : Uses(d, o)' <=> Uses(d, o)
    BY <1>1, <1>2, <1>3 DEF Uses
  <1>5. \A d \in Clients : InHandler(d)' => InHandler(d)
    BY <1>2, <1>3 DEF InHandler
  <1>6. \A o \in Servers : Doomed(o)' => Doomed(o) \/ o = port
    BY <1>1, <1>2, <1>3 DEF Doomed
  <1>7. \A o \in Servers, d \in Clients : o = port /\ Uses(d, o) => d \in late'
    BY <1>1 DEF Uses
  <1>8. \A o \in Servers : Users(o)' = Users(o)
    BY <1>4 DEF Users
  <1> SUFFICES ASSUME ~ stray PROVE CountInv'
    BY <1>1 DEF CountInv
  <1>9. \A o \in Servers : port' = o => ref'[o] = Cardinality(Users(o)')
    <2> SUFFICES ASSUME NEW o \in Servers, port' = o PROVE ref'[o] = Cardinality(Users(o)')
      OBVIOUS
    <2> QED BY <1>1, <1>8 DEF CountInv
  <1>10. \A d \in Clients : InHandler(d)' => val'[d] >= 0
    BY <1>1, <1>5 DEF CountInv
  <1>11. \A o \in Servers : Doomed(o)' => Users(o)' \subseteq late'
    BY <1>1, <1>4, <1>6, <1>7 DEF CountInv, Users
  <1> QED BY <1>9, <1>10, <1>11 DEF CountInv

LEMMA Server_Count ==
  ASSUME TypeInv, PlaceInv, CountInv, NEW s \in Servers, Run(s) \/ Arrive(s) \/ Answer(s)
  PROVE  CountInv'
  <1>1. UNCHANGED <<pc, at, val, session, ref, stray, late>>
    BY DEF Run, Arrive, Answer, WritePid, BeginShutdown, CloseListener, Drain, CloseDeps,
           RemovePid, Quit, clientVars
  <1>2. port' = port \/ port' = Nobody
    BY DEF Run, Arrive, Answer, WritePid, BeginShutdown, CloseListener, Drain, CloseDeps,
           RemovePid, Quit
  <1>3. \A o \in Servers : token'[o] => token[o]
    BY DEF Run, Arrive, Answer, WritePid, BeginShutdown, CloseListener, Drain, CloseDeps,
           RemovePid, Quit, TypeInv
  <1> QED BY <1>1, <1>2, <1>3, Less_Count, Places_Facts DEF Uses, InHandler, Doomed

-----------------------------------------------------------------------------
IInv == TypeInv /\ PlaceInv /\ BusyInv /\ ZeroIsSignalled /\ CountInv

LEMMA Init_IInv == Init => IInv
  <1>1. Init => ZeroIsSignalled
    BY DEF Init, ZeroIsSignalled
  <1> QED BY <1>1, Init_Type, Init_Place, Init_Busy, Init_Count DEF IInv

LEMMA Client_IInv ==
  ASSUME IInv, NEW c \in Clients, Command(c) \/ Start(c) \/ Stop(c) \/ Kill(c) \/ Status(c)
  PROVE  IInv'
  <1>1. TypeInv' BY Client_Type DEF IInv
  <1>2. PlaceInv'
    BY Quiet_Place, Launch_Place, Listen_Place, Post_Place, Settle_Place, Kill_Place
       DEF IInv, Command
  <1>3. BusyInv' BY Client_Busy DEF IInv
  <1>4. ZeroIsSignalled' BY Client_Zero DEF IInv
  <1>5. CountInv'
    BY Rest_Count, Listen_Count, Join_Count, Leave_Count, Settle_Count, Shutdown_Count
       DEF IInv, Command
  <1> QED BY <1>1, <1>2, <1>3, <1>4, <1>5 DEF IInv

LEMMA Stutter_IInv == IInv /\ UNCHANGED vars => IInv'
  <1> SUFFICES ASSUME IInv, UNCHANGED vars PROVE IInv' OBVIOUS
  <1> USE DEF IInv, vars, serverVars, clientVars
  <1>1. TypeInv' BY DEF TypeInv
  <1>2. PlaceInv' BY DEF PlaceInv
  <1>3. BusyInv' BY DEF BusyInv, Busy
  <1>4. ZeroIsSignalled' BY DEF ZeroIsSignalled, Doomed
  <1>5. CountInv' BY Less_Count DEF Uses, InHandler, Doomed
  <1> QED BY <1>1, <1>2, <1>3, <1>4, <1>5

\* The dashboard's restart only puts a token, and the clients of the server
\* are late from then on.
LEMMA Restart_IInv ==
  ASSUME IInv, NEW s \in Servers, Restart(s)
  PROVE  IInv'
  <1> USE Places_Facts DEF IInv
  <1>1. /\ proc[s] = "up" /\ token' = [token EXCEPT ![s] = TRUE]
        /\ late' = late \union {c \in Clients : s \in {session[c], at[c]}}
        /\ UNCHANGED <<proc, port, ref, reqs, cache, metrics, pid, pc, at, val, session, stray>>
    BY DEF Restart
  <1>2. token'[s] /\ \A o \in Servers : o # s => token'[o] = token[o]
    BY <1>1 DEF TypeInv
  <1>3. TypeInv'
    BY <1>1 DEF TypeInv
  <1>4. PlaceInv'
    BY <1>1, <1>2 DEF PlaceInv, Young
  <1>5. BusyInv'
    BY <1>1 DEF BusyInv, Busy
  <1>6. ZeroIsSignalled'
    BY <1>1, <1>2, Same_Zero DEF Witness
  <1>7. CountInv'
    <2>1. \A o \in Servers, d \in Clients : Uses(d, o)' <=> Uses(d, o)
      BY <1>1 DEF Uses
    <2>2. \A o \in Servers : Users(o)' = Users(o)
      BY <2>1 DEF Users
    <2>3. Users(s) \subseteq late' /\ late \subseteq late'
      BY <1>1 DEF Users, Uses
    <2>4. \A o \in Servers : Doomed(o)' => Doomed(o) \/ o = s
      BY <1>1, <1>2 DEF Doomed
    <2>5. \A d \in Clients : InHandler(d)' => InHandler(d) /\ val'[d] = val[d]
      BY <1>1 DEF InHandler
    <2> SUFFICES ASSUME ~ stray PROVE CountInv'
      BY <1>1 DEF CountInv
    <2>6. \A o \in Servers : port' = o => ref'[o] = Cardinality(Users(o)')
      <3> SUFFICES ASSUME NEW o \in Servers, port' = o PROVE ref'[o] = Cardinality(Users(o)')
        OBVIOUS
      <3> QED BY <1>1, <2>2 DEF CountInv
    <2>7. \A d \in Clients : InHandler(d)' => val'[d] >= 0
      BY <2>5 DEF CountInv
    <2>8. \A o \in Servers : Doomed(o)' => Users(o)' \subseteq late'
      BY <2>2, <2>3, <2>4 DEF CountInv
    <2> QED BY <2>6, <2>7, <2>8 DEF CountInv
  <1> QED BY <1>3, <1>4, <1>5, <1>6, <1>7

LEMMA Next_IInv == IInv /\ [Next]_vars => IInv'
  <1> SUFFICES ASSUME IInv, [Next]_vars PROVE IInv' OBVIOUS
  <1>1. CASE UNCHANGED vars BY <1>1, Stutter_IInv
  <1>2. ASSUME NEW c \in Clients, Command(c) \/ Start(c) \/ Stop(c) \/ Kill(c) \/ Status(c)
        PROVE  IInv'
    BY <1>2, Client_IInv
  <1>3. ASSUME NEW s \in Servers, Run(s) \/ Arrive(s) \/ Answer(s) PROVE IInv'
    BY <1>3, Server_Type, Server_Place, Server_Busy, Server_Zero, Server_Count DEF IInv
  <1>4. ASSUME NEW s \in Servers, Restart(s) PROVE IInv'
    BY <1>4, Restart_IInv
  <1> QED BY <1>1, <1>2, <1>3, <1>4 DEF Next

\* The state of every process and of every command is one the code knows.
THEOREM Spec_TypeInv == Spec => []TypeInv
  BY Init_IInv, Next_IInv, PTL DEF Spec, IInv

\* The cache is closed when no request can use it any more, the telemetry
\* store under requests only by a process that ends because Shutdown gave up
\* on them (server.go, Run).
THEOREM Spec_DependenciesOutliveRequests == Spec => []DependenciesOutliveRequests
  <1>1. IInv => DependenciesOutliveRequests
    <2> SUFFICES ASSUME IInv, NEW s \in Servers
                 PROVE  /\ cache[s] = "closed" \/ metrics[s] = "closed" => port # s
                        /\ Busy(s) => /\ cache[s] = "open"
                                      /\ metrics[s] = "closed" => proc[s] \in {"exit", "gone"}
      BY DEF DependenciesOutliveRequests
    <2>1. cache[s] \in {"open", "closed"} /\ (proc[s] \in Open <=> port = s)
      BY DEF IInv, TypeInv, PlaceInv
    <2> QED BY <2>1 DEF IInv, BusyInv, Open
  <1> QED BY <1>1, Init_IInv, Next_IInv, PTL DEF Spec

\* A count of zero stops the server (the handler of /admin/refcount).
THEOREM Spec_ZeroIsSignalled == Spec => []ZeroIsSignalled
  BY Init_IInv, Next_IInv, PTL DEF Spec, IInv

\* The PID file names a process that had the port.
THEOREM Spec_NoDirtyPid == Spec => []NoDirtyPid
  <1>1. IInv => NoDirtyPid
    BY DEF IInv, PlaceInv, NoDirtyPid, Young
  <1> QED BY <1>1, Init_IInv, Next_IInv, PTL DEF Spec

\* At rest the count is the number of sessions, if no stop went astray.
THEOREM Spec_RefCountIsSessions == Spec => []RefCountIsSessions
  <1>1. IInv => RefCountIsSessions
    <2> SUFFICES ASSUME IInv, \A c \in Clients : pc[c] = "idle", ~ stray,
                        NEW s \in Servers, proc[s] \in {"bound", "up"}
                 PROVE  ref[s] = Cardinality({c \in Clients : session[c] = s})
      BY DEF RefCountIsSessions
    <2>1. port = s BY DEF IInv, PlaceInv, Open
    <2>2. ref[s] = Cardinality(Users(s)) BY <2>1 DEF IInv, CountInv
    <2>3. Users(s) = {c \in Clients : session[c] = s} BY DEF Users, Uses
    <2> QED BY <2>2, <2>3
  <1> QED BY <1>1, Init_IInv, Next_IInv, PTL DEF Spec

\* Only a session that joined a server that had to exit, or that was killed,
\* loses its server, if no stop went astray.
THEOREM Spec_OnlyLateSessionsAreCut == Spec => []OnlyLateSessionsAreCut
  <1>1. IInv => OnlyLateSessionsAreCut
    BY DEF IInv, CountInv, OnlyLateSessionsAreCut, Users, Uses, Doomed
  <1> QED BY <1>1, Init_IInv, Next_IInv, PTL DEF Spec
=============================================================================
