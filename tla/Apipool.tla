------------------------------- MODULE Apipool -------------------------------
(***************************************************************************)
(* The key-pool search of pkg/search/apipool/apipool.go: concurrent        *)
(* searches share the providers' key pools (module KeyPool), each starting *)
(* at a provider chosen by the strategy, retrying inside a provider while  *)
(* it has a usable key and failing over to the next one.                   *)
(*                                                                         *)
(* Providers are 0 .. NumProviders-1 in configured order.  Those not in    *)
(* Pools are free engines (pool = nil).  A search is one goroutine; the    *)
(* steps below are the stretches between two accesses to shared state.     *)
(* Telemetry and result truncation change no state that a step reads.      *)
(***************************************************************************)
EXTENDS KeyPool

CONSTANTS
  Requests,     \* the goroutines that run searches, each one after another
  NumProviders, \* len(a.providers)
  Strategies,   \* the strategies in use: one, for one configured searcher
  ZeroWeight,   \* pooled providers whose configured weight is 0 or less
  SoftErrors,   \* whether upstreams may answer "no result" (not a KeyError)
  LengthLimited,\* pooled providers that reject a long query before Next()
  LongQueries   \* whether callers may send such a query

Providers == 0 .. NumProviders - 1

ASSUME ProvidersAssumption ==
  /\ NumProviders \in Nat \ {0}
  /\ Pools \subseteq Providers
  /\ ZeroWeight \subseteq Pools /\ LengthLimited \subseteq Pools
  /\ Strategies \subseteq {"round-robin", "priority", "weighted"}
  /\ SoftErrors \in BOOLEAN /\ LongQueries \in BOOLEAN

VARIABLES
  rr,     \* the round-robin cursor idx, modulo NumProviders
  pc,     \* pc[r]: where goroutine r is
  long,   \* long[r]: its query exceeds the limit of LengthLimited providers
  start,  \* start[r]: index of the provider its search started at
  off,    \* off[r]: providers given up so far, the loop variable i
  weigh,  \* weigh[r]: [next |-> provider to weigh next, cand |-> positive ones]
  clk,    \* clk[r]: the clock reading Next() took before the lock
  key,    \* key[r]: the key of the call in flight
  mark,   \* mark[r]: the key the failed call is about to mark
  result, \* result[r]: "none", "ok" or "fail"
  calls,  \* history: callSingle invocations on the current provider
  blamed  \* history: <<p, k>> for every key k a call with which has failed

searchVars == <<rr, pc, long, start, off, weigh, clk, key, mark, result>>
vars == <<kpVars, searchVars, calls, blamed>>

NoWeigh == [next |-> 0, cand |-> {}]

Init ==
  /\ KPInit
  /\ rr = 0
  /\ pc = [r \in Requests |-> "idle"]
  /\ long = [r \in Requests |-> FALSE]
  /\ start = [r \in Requests |-> 0]
  /\ off = [r \in Requests |-> 0]
  /\ weigh = [r \in Requests |-> NoWeigh]
  /\ clk = [r \in Requests |-> 0]
  /\ key = [r \in Requests |-> NoKey]
  /\ mark = [r \in Requests |-> NoKey]
  /\ result = [r \in Requests |-> "none"]
  /\ calls = [r \in Requests |-> 0]
  /\ blamed = {}

Goto(r, label) == pc' = [pc EXCEPT ![r] = label]

\* providers[(start+i) % n]
At(s, i) == IF s + i < NumProviders THEN s + i ELSE s + i - NumProviders
Current(r) == At(start[r], off[r])

-----------------------------------------------------------------------------
(* pickStartIndex                                                          *)

StartAt(r, p) ==
  /\ start' = [start EXCEPT ![r] = p]
  /\ Goto(r, "enter")

StartRoundRobin(r) ==
  /\ StartAt(r, rr)
  /\ rr' = IF rr + 1 < NumProviders THEN rr + 1 ELSE 0

Begin(r) ==
  /\ pc[r] = "idle"
  /\ \E q \in {FALSE, LongQueries} : long' = [long EXCEPT ![r] = q]
  /\ \/ "priority" \in Strategies /\ StartAt(r, 0) /\ UNCHANGED rr
     \/ "round-robin" \in Strategies /\ StartRoundRobin(r)
     \/ "weighted" \in Strategies /\ Goto(r, "weigh") /\ UNCHANGED <<start, rr>>
  /\ UNCHANGED <<kpVars, off, weigh, clk, key, mark, result, calls, blamed>>

\* effectiveWeight(p) > 0
HasWeight(p) ==
  p \in Pools => p \notin ZeroWeight /\ ~ NoneAvailable(p, now)

\* pickWeighted reads the pools one after the other.
Weigh(r) ==
  /\ pc[r] = "weigh"
  /\ weigh[r].next < NumProviders
  /\ weigh' = [weigh EXCEPT ![r] =
       [next |-> @.next + 1,
        cand |-> IF HasWeight(@.next) THEN @.cand \cup {@.next} ELSE @.cand]]
  /\ UNCHANGED <<kpVars, rr, pc, long, start, off, clk, key, mark, result,
                 calls, blamed>>

\* The draw; all weights zero degrades to round-robin.
WeighDone(r) ==
  /\ pc[r] = "weigh"
  /\ weigh[r].next = NumProviders
  /\ \/ \E p \in weigh[r].cand : StartAt(r, p) /\ UNCHANGED rr
     \/ weigh[r].cand = {} /\ StartRoundRobin(r)
  /\ weigh' = [weigh EXCEPT ![r] = NoWeigh]
  /\ UNCHANGED <<kpVars, long, off, clk, key, mark, result, calls, blamed>>

-----------------------------------------------------------------------------
(* callSingle: one call of the provider's engine                           *)

\* The bookkeeping of a call; capped, as the retry loop need not end.
CountCall(r) ==
  calls' = [calls EXCEPT ![r] =
              IF Current(r) \in Pools /\ @ > NumKeys[Current(r)] THEN @ ELSE @ + 1]

\* The engine is entered.  A free engine makes its request; a provider that
\* rejects the query fails without having taken a key; any other one reads
\* the clock in Next() and waits for the pool's lock.
Enter(r) ==
  /\ pc[r] = "enter"
  /\ CountCall(r)
  /\ \/ /\ Current(r) \notin Pools
        /\ Goto(r, "call") /\ UNCHANGED clk
     \/ /\ Current(r) \in LengthLimited /\ long[r]
        /\ Goto(r, "load") /\ UNCHANGED clk
     \/ /\ Current(r) \in Pools
        /\ ~ (Current(r) \in LengthLimited /\ long[r])
        /\ Goto(r, "next") /\ clk' = [clk EXCEPT ![r] = now]
  /\ UNCHANGED <<kpVars, rr, long, start, off, weigh, key, mark, result, blamed>>

\* Next() hands out a key, with which the upstream is called.
TakeKey(r) ==
  /\ pc[r] = "next"
  /\ \E k \in Keys(Current(r)) :
       /\ NextKey(Current(r), clk[r], k)
       /\ key' = [key EXCEPT ![r] = k]
  /\ Goto(r, "call")
  /\ clk' = [clk EXCEPT ![r] = 0]
  /\ UNCHANGED <<now, rr, long, start, off, weigh, mark, result, calls, blamed>>

Succeed(r) ==
  /\ pc[r] = "call"
  /\ Goto(r, "done")
  /\ result' = [result EXCEPT ![r] = "ok"]
  /\ key' = [key EXCEPT ![r] = NoKey]
  /\ UNCHANGED <<kpVars, rr, long, start, off, weigh, clk, mark, calls, blamed>>

\* Fault: the last provider of the rotation is never tried.
NextProvider_Early(r) ==
  /\ off' = [off EXCEPT ![r] = @ + 1]
  /\ IF off[r] + 2 < NumProviders
       THEN Goto(r, "enter") /\ UNCHANGED result
       ELSE Goto(r, "done") /\ result' = [result EXCEPT ![r] = "fail"]
  /\ calls' = [calls EXCEPT ![r] = 0]

\* The provider is given up: the next one, or the search fails.
NextProvider(r) ==
  /\ off' = [off EXCEPT ![r] = @ + 1]
  /\ IF off[r] + 1 < NumProviders
       THEN Goto(r, "enter") /\ UNCHANGED result
       ELSE Goto(r, "done") /\ result' = [result EXCEPT ![r] = "fail"]
  /\ calls' = [calls EXCEPT ![r] = 0]

FreeEngineFails(r) ==
  /\ pc[r] = "call"
  /\ Current(r) \notin Pools
  /\ NextProvider(r)
  /\ UNCHANGED <<kpVars, rr, long, start, weigh, clk, key, mark, blamed>>

-----------------------------------------------------------------------------
(* callProviderWithRetry: the loop over the keys of one provider           *)

Blame(r) == blamed' = blamed \cup {<<Current(r), key[r]>>}

\* Fault: a KeyError is treated like any other error.
KeyFails_NotExtracted(r) ==
  /\ pc[r] = "call"
  /\ Current(r) \in Pools
  /\ Blame(r)
  /\ key' = [key EXCEPT ![r] = NoKey]
  /\ Goto(r, "load")
  /\ UNCHANGED <<kpVars, rr, long, start, off, weigh, clk, mark, result, calls>>

\* The call fails with a KeyError, which names the key it used.
KeyFails(r) ==
  /\ pc[r] = "call"
  /\ Current(r) \in Pools
  /\ Blame(r)
  /\ mark' = [mark EXCEPT ![r] = key[r]]
  /\ key' = [key EXCEPT ![r] = NoKey]
  /\ Goto(r, "mark")
  /\ UNCHANGED <<kpVars, rr, long, start, off, weigh, clk, result, calls>>

\* The call fails with an error that names no key, such as an empty result.
SoftFails(r) ==
  /\ SoftErrors
  /\ pc[r] = "call"
  /\ Current(r) \in Pools
  /\ Blame(r)
  /\ key' = [key EXCEPT ![r] = NoKey]
  /\ Goto(r, "load")
  /\ UNCHANGED <<kpVars, rr, long, start, off, weigh, clk, mark, result, calls>>

\* Fault: an error that names no key marks none.
LoadLast_MarksNone(r) ==
  /\ pc[r] = "load"
  /\ Goto(r, "check")
  /\ UNCHANGED <<kpVars, rr, long, start, off, weigh, clk, key, mark, result,
                 calls, blamed>>

\* MarkLastInvalid loads the key Next() returned last, to any goroutine.
LoadLast(r) ==
  /\ pc[r] = "load"
  /\ IF lastKey[Current(r)] = NoKey
       THEN Goto(r, "check") /\ UNCHANGED mark
       ELSE Goto(r, "mark") /\ mark' = [mark EXCEPT ![r] = lastKey[Current(r)]]
  /\ UNCHANGED <<kpVars, rr, long, start, off, weigh, clk, key, result, calls, blamed>>

Mark(r) ==
  /\ pc[r] = "mark"
  /\ MarkInvalid(Current(r), mark[r])
  /\ mark' = [mark EXCEPT ![r] = NoKey]
  /\ Goto(r, "check")
  /\ UNCHANGED <<now, rr, long, start, off, weigh, clk, key, result, calls, blamed>>

\* Another key is left: retry.
Retry(r) ==
  /\ pc[r] = "check"
  /\ ~ NoneAvailable(Current(r), now)
  /\ Goto(r, "enter")
  /\ UNCHANGED <<kpVars, rr, long, start, off, weigh, clk, key, mark, result,
                 calls, blamed>>

\* No key is left: the provider has failed.
Exhausted(r) ==
  /\ pc[r] = "check"
  /\ NoneAvailable(Current(r), now)
  /\ NextProvider(r)
  /\ UNCHANGED <<kpVars, rr, long, start, weigh, clk, key, mark, blamed>>

\* The search returns; its local variables are gone.
Return(r) ==
  /\ pc[r] = "done"
  /\ Goto(r, "idle")
  /\ long' = [long EXCEPT ![r] = FALSE]
  /\ start' = [start EXCEPT ![r] = 0]
  /\ off' = [off EXCEPT ![r] = 0]
  /\ result' = [result EXCEPT ![r] = "none"]
  /\ calls' = [calls EXCEPT ![r] = 0]
  /\ UNCHANGED <<kpVars, rr, weigh, clk, key, mark, blamed>>

Pass == Tick /\ UNCHANGED <<searchVars, calls, blamed>>

\* A search in progress, without the arrival of a new one.
Step(r) ==
  \/ Weigh(r) \/ WeighDone(r) \/ Enter(r) \/ TakeKey(r)
  \/ Succeed(r) \/ FreeEngineFails(r) \/ KeyFails(r) \/ SoftFails(r)
  \/ LoadLast(r) \/ Mark(r) \/ Retry(r) \/ Exhausted(r) \/ Return(r)

Next == Pass \/ \E r \in Requests : Begin(r) \/ Step(r)

Spec == Init /\ [][Next]_vars

\* The Go scheduler runs every goroutine that can run and every HTTP call
\* ends (client timeouts); new searches and the clock owe nothing.
FairSpec == Spec /\ \A r \in Requests : WF_vars(Step(r))

-----------------------------------------------------------------------------
InCall(r) == pc[r] = "call" /\ Current(r) \in Pools

\* What the label of a goroutine says about its local variables.
LocalOK(r) ==
  /\ pc[r] # "done" => off[r] < NumProviders
  /\ InCall(r) => key[r] \in Keys(Current(r))
  /\ key[r] # NoKey => InCall(r)
  /\ pc[r] = "mark" => mark[r] \in Keys(Current(r))
  /\ mark[r] # NoKey => pc[r] = "mark"
  /\ pc[r] \in {"next", "load", "mark", "check"} => Current(r) \in Pools

Labels == {"idle", "weigh", "enter", "next", "call", "load", "mark", "check", "done"}

Shapes ==
  /\ rr \in Providers
  /\ pc \in [Requests -> Labels]
  /\ long \in [Requests -> BOOLEAN]
  /\ start \in [Requests -> Providers]
  /\ off \in [Requests -> 0 .. NumProviders]
  /\ weigh \in [Requests -> [next : 0 .. NumProviders, cand : SUBSET Providers]]
  /\ clk \in [Requests -> Nat] /\ \A r \in Requests : clk[r] <= now
  /\ key \in [Requests -> Int] /\ mark \in [Requests -> Int]
  /\ result \in [Requests -> {"none", "ok", "fail"}]
  /\ calls \in [Requests -> Nat]
  /\ \A b \in blamed : b[1] \in Pools /\ b[2] \in Keys(b[1])

\* The types of the variables and what every program point may rely on.
TypeOK == KPTypeOK /\ Shapes /\ \A r \in Requests : LocalOK(r)

\* A search is handed a cooling key only as a last resort: at the moment it
\* takes a key that cools, every key of that pool cools, although the scan
\* worked with a clock reading taken before the lock.
CoolingKeyOnlyAsLastResort ==
  [][\A r \in Requests :
       pc[r] = "next" /\ pc'[r] = "call" =>
         LET p == Current(r) IN
         Usable(p, key'[r], now) \/ NoneAvailable(p, now)]_vars

\* Each failed call cools the key it used and no other: a key no call with
\* which ever failed never cools, however the searches interleave.  (It holds
\* when every failure is a KeyError; an error without a key is charged to
\* whatever key the pool handed out last.)
OnlyFailedKeysCool ==
  \A p \in Pools : \A k \in Keys(p) : until[p][k] # 0 => <<p, k>> \in blamed

\* The retry loop of one provider makes at most as many upstream calls as
\* the provider has keys, as long as no cooldown expires meanwhile, even
\* when the searches mark each other's keys; unless the provider rejects the
\* query before it takes a key.
CallsBounded ==
  \A r \in Requests :
    Current(r) \in Pools /\ ~ long[r] => calls[r] <= NumKeys[Current(r)]

\* Every search returns to its caller.
SearchReturns == \A r \in Requests : pc[r] # "idle" ~> pc[r] = "idle"

\* A search seen from outside: its answer is a step, its retries stutter.
Phase(r) == CASE pc[r] = "idle" -> "idle"
              [] pc[r] = "done" -> result[r]
              [] OTHER -> "running"

FO == INSTANCE Failover WITH
        phase  <- [r \in Requests |-> Phase(r)],
        gaveUp <- [r \in Requests |-> {At(start[r], i) : i \in 0 .. off[r] - 1}]

\* The search keeps the failover promise of SearchRawWithTimeRange, whatever
\* the pools, the retries and the other searches do: it fails only when every
\* provider was given up, each once, and answers from one that was not.
FailoverPromise == FO!FOSpec
=============================================================================
