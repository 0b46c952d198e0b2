------------------------------- MODULE Failover -------------------------------
(***************************************************************************)
(* What a multi-provider search promises its caller, whatever the number   *)
(* of upstream calls, keys and retries behind it: each provider is given   *)
(* up at most once per search, the search fails only when every provider   *)
(* has been given up, and an answer comes from a provider that has not.    *)
(***************************************************************************)
EXTENDS Naturals

CONSTANTS Requests, Providers

VARIABLES
  phase,  \* phase[r]: "idle", "running", "ok" or "fail"
  gaveUp  \* gaveUp[r]: providers given up by the search r is running

foVars == <<phase, gaveUp>>

FOInit ==
  /\ phase = [r \in Requests |-> "idle"]
  /\ gaveUp = [r \in Requests |-> {}]

Accept(r) ==
  /\ phase[r] = "idle"
  /\ phase' = [phase EXCEPT ![r] = "running"]
  /\ UNCHANGED gaveUp

Answer(r) ==
  /\ phase[r] = "running"
  /\ gaveUp[r] # Providers
  /\ phase' = [phase EXCEPT ![r] = "ok"]
  /\ UNCHANGED gaveUp

GiveUp(r, p) ==
  /\ phase[r] = "running"
  /\ p \notin gaveUp[r]
  /\ gaveUp' = [gaveUp EXCEPT ![r] = @ \cup {p}]
  /\ phase' = [phase EXCEPT ![r] =
                 IF gaveUp[r] \cup {p} = Providers THEN "fail" ELSE @]

Finish(r) ==
  /\ phase[r] \in {"ok", "fail"}
  /\ phase' = [phase EXCEPT ![r] = "idle"]
  /\ gaveUp' = [gaveUp EXCEPT ![r] = {}]

FONext ==
  \E r \in Requests :
    \/ Accept(r) \/ Answer(r) \/ Finish(r)
    \/ \E p \in Providers : GiveUp(r, p)

FOSpec == FOInit /\ [][FONext]_foVars
=============================================================================
