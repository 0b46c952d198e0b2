-------------------------------- MODULE Quota --------------------------------
(***************************************************************************)
(* The allowance shown in the control center (pkg/quota/quota.go): viewers *)
(* of the dashboard ask for it beside each other, and Tavily, the one      *)
(* vendor that tells it, is asked under a lock and seldom.                 *)
(*                                                                         *)
(* A viewer may close the page at any time, also while it waits for the    *)
(* lock, which does not look at its context.                               *)
(***************************************************************************)
EXTENDS Integers, FiniteSets

CONSTANTS
  Viewers,  \* requests to the dashboard, each one after another
  CacheTTL, \* cacheTTL
  MaxHours  \* bound on the clock

ASSUME QuotaAssumption == CacheTTL \in Nat \ {0} /\ MaxHours \in Nat

VARIABLES
  hasKey,   \* whether a key of Tavily is configured
  hour,     \* the clock
  view,     \* view[v]: where viewer v is
  gone,     \* viewers whose context has ended
  cached,   \* status of the item that is held, or "nothing"
  cachedAt, \* when it was put there
  askedAt,  \* history: when the vendor was asked last, or -1
  spared    \* history: whether the vendor was left alone for a period before

quotaVars == <<hasKey, hour, view, gone, cached, cachedAt, askedAt, spared>>

Places == {"out", "lock", "held", "asking"}

QuotaInit ==
  /\ hasKey \in BOOLEAN
  /\ hour = 0
  /\ view = [v \in Viewers |-> "out"]
  /\ gone = {}
  /\ cached = "nothing" /\ cachedAt = 0
  /\ askedAt = -1 /\ spared = TRUE

See(v, place) == view' = [view EXCEPT ![v] = place]

\* s.mu is held from the look at the cache to the change of it.
Locked == \E v \in Viewers : view[v] \in {"held", "asking"}

Valid == cached # "nothing" /\ hour - cachedAt < CacheTTL

View(v) ==
  /\ view[v] = "out"
  /\ See(v, "lock")
  /\ UNCHANGED <<hasKey, hour, gone, cached, cachedAt, askedAt, spared>>

\* The page is closed, or fifteen seconds are over.
Close(v) ==
  /\ view[v] # "out"
  /\ gone' = gone \union {v}
  /\ UNCHANGED <<hasKey, hour, view, cached, cachedAt, askedAt, spared>>

Lock(v) ==
  /\ view[v] = "lock" /\ ~ Locked
  /\ See(v, "held")
  /\ UNCHANGED <<hasKey, hour, gone, cached, cachedAt, askedAt, spared>>

\* The item is returned, and the lock with it.
Leaves(v) == See(v, "out") /\ gone' = gone \ {v}

\* Fault: only what the vendor has told is held.
Hold_OnlyAllowances(status) ==
  IF status = "query_failed" THEN UNCHANGED <<cached, cachedAt>>
  ELSE cached' = status /\ cachedAt' = hour

\* Whatever became of the request is held.
Hold(status) == cached' = status /\ cachedAt' = hour

\* Get: what is held is returned, or the vendor asked.
Get(v) ==
  /\ view[v] = "held"
  /\ \/ Valid /\ Leaves(v) /\ UNCHANGED <<cached, cachedAt, askedAt, spared>>
     \/ /\ ~ Valid /\ ~ hasKey
        /\ Leaves(v) /\ Hold("not_configured")
        /\ UNCHANGED <<askedAt, spared>>
     \/ /\ ~ Valid /\ hasKey
        /\ See(v, "asking")
        /\ spared' = (askedAt = -1 \/ hour - askedAt >= CacheTTL)
        /\ askedAt' = hour
        /\ UNCHANGED <<gone, cached, cachedAt>>
  /\ UNCHANGED <<hasKey, hour>>

\* tavily: the vendor tells the allowance, or the request fails; that of a
\* viewer who is gone fails at once.
Told(v) ==
  /\ view[v] = "asking"
  /\ \E status \in {"available", "query_failed"} :
       /\ v \in gone => status = "query_failed"
       /\ Hold(status)
  /\ Leaves(v)
  /\ UNCHANGED <<hasKey, hour, askedAt, spared>>

Hour ==
  /\ hour < MaxHours
  /\ hour' = hour + 1
  /\ UNCHANGED <<hasKey, view, gone, cached, cachedAt, askedAt, spared>>

QuotaNext == Hour \/ \E v \in Viewers : View(v) \/ Close(v) \/ Lock(v) \/ Get(v) \/ Told(v)

QuotaSpec == QuotaInit /\ [][QuotaNext]_quotaVars

-----------------------------------------------------------------------------
\* However many viewers wait, and although requests fail, or are given up by
\* the viewer who caused them, the vendor is asked at most once per period,
\* by one viewer, and never without a key.
VendorIsSpared ==
  /\ spared
  /\ Cardinality({v \in Viewers : view[v] = "asking"}) <= 1
  /\ ~ hasKey => askedAt = -1
=============================================================================
