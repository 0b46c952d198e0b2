------------------------------ MODULE MC_Daemon ------------------------------
EXTENDS Daemon, TLC
CONSTANTS c1, c2
Symmetry == Permutations(Clients)

\* At most one kill, begun before the last server is launched and while no
\* search is in flight; from then on neither searches, nor signals, nor
\* restarts from the dashboard.
VARIABLE killed

MCInit == Init /\ killed = FALSE

BeginKill == \E c \in Clients : pc[c] = "idle" /\ pc'[c] = "shutdown"

\* Search requests, restarts and signals show at the server they disturb.
Disturbed(s) ==
  \/ reqs'[s] > 0
  \/ token'[s] /\ ~ token[s] /\ pc' = pc
  \/ proc[s] = "up" /\ proc'[s] = "stopping" /\ ~ token[s]

MCNext ==
  /\ Next
  /\ killed' = (killed \/ BeginKill)
  /\ BeginKill => ~ killed /\ proc[MaxServers] = "none"
  /\ killed' => {s \in Servers : Disturbed(s)} = {}

MCSpec == MCInit /\ [][MCNext]_<<vars, killed>>
=============================================================================
