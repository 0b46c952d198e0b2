---------------------------- MODULE ScrapeEngine ----------------------------
(***************************************************************************)
(* A search engine that is scraped, shared by concurrent searches: the     *)
(* shapes the code has.                                                    *)
(*   "plain"  google, bing and baidu (pkg/search/engine): limiter, delay,  *)
(*            request, rotation of the HTTP session;                       *)
(*   "ddg"    DuckDuckGo (ddg_engine.go): also a cooldown once the server  *)
(*            limits, or one retry when that fits the budget;              *)
(*   "arxiv"  pkg/academic/arxiv.go: the cooldown comes first, the limiter *)
(*            is waited for, and there is no session to rotate;            *)
(*   "dblp"   pkg/academic/dblp.go: the limiter is waited for, for ever.    *)
(*                                                                         *)
(* The fields of an engine are locked one access at a time, and not at all *)
(* by rotateSession.  The delay before a request (base, jitter and the     *)
(* back-off) is any delay; user agents and pages of results are left out.  *)
(* So is the transport that resends after a 429 (PaperEngine), which only  *)
(* delays the answer; to a POST, DuckDuckGo's, it makes it an error.       *)
(***************************************************************************)
EXTENDS RateLimiter

CONSTANTS
  Requests,    \* concurrent searches, each one after another
  Kinds,       \* the shapes, of which a behaviour has one
  MinInterval, \* arxivMinInterval: the limiter's gap
  MaxDelay,    \* the longest delay of preDelay
  Cooldown,    \* ddgRateCooldown, arxivRateCooldown
  CooldownMax, \* and its limit
  RetryAfters, \* what Retry-After may say; 0: nothing
  Budget,      \* searchBudget()
  Estimate,    \* what the retried request is expected to take
  Lifetime,    \* searches per session
  MaxTime      \* bound on the clock

ASSUME EngineAssumption ==
  /\ Kinds \subseteq {"plain", "ddg", "arxiv", "dblp"}
  /\ {MinInterval, MaxDelay, Budget, Estimate, MaxTime} \subseteq Nat
  /\ Cooldown \in Nat \ {0} /\ CooldownMax \in Nat \ {0}
  /\ RetryAfters \subseteq Nat
  /\ Lifetime \in Nat \ {0} /\ IsFiniteSet(Requests) /\ Requests # {}

VARIABLES
  kind,     \* the shape of the engine
  now,      \* the clock
  cooldown, \* the length of the last cooldown; 0: none since a success
  until,    \* cooldownUntil
  reqCount, \* searches the session has answered
  pc,       \* pc[r]: where search r is
  began,    \* began[r]: when it started
  wake,     \* wake[r]: when its sleep ends
  asked,    \* asked[r]: the Retry-After of the limited answer
  retried,  \* retried[r]: whether its request is the retry
  length,   \* length[r]: the cooldown it is about to enter
  fresh,    \* history: no cooldown was entered since r saw that none was on
  load      \* history: searches answered since the session was replaced

engineVars == <<cooldown, until, reqCount>>
searchVars == <<pc, began, wake, asked, retried, length>>
vars == <<limiterVars, kind, now, engineVars, searchVars, fresh, load>>

Init ==
  /\ LimiterInit
  /\ kind \in Kinds
  /\ now = 0
  /\ cooldown = 0 /\ until = 0 /\ reqCount = 0 /\ load = 0
  /\ pc = [r \in Requests |-> "idle"]
  /\ began = [r \in Requests |-> 0] /\ wake = [r \in Requests |-> 0]
  /\ asked = [r \in Requests |-> 0] /\ length = [r \in Requests |-> 0]
  /\ retried = [r \in Requests |-> FALSE]
  /\ fresh = [r \in Requests |-> FALSE]

Goto(r, label) == pc' = [pc EXCEPT ![r] = label]
Set(f, r, x) == [f EXCEPT ![r] = x]

\* The search returns; its local variables are gone.
Return(r) ==
  /\ Goto(r, "idle")
  /\ began' = Set(began, r, 0) /\ wake' = Set(wake, r, 0)
  /\ asked' = Set(asked, r, 0) /\ length' = Set(length, r, 0)
  /\ retried' = Set(retried, r, FALSE)

Continue(r, label) ==
  /\ Goto(r, label)
  /\ UNCHANGED <<began, wake, asked, retried, length>>

Tick ==
  /\ now < MaxTime
  /\ now' = now + 1
  /\ UNCHANGED <<limiterVars, kind, engineVars, searchVars, fresh, load>>

-----------------------------------------------------------------------------
(* Before the request                                                      *)

Search(r) ==
  /\ pc[r] = "idle"
  /\ Goto(r, IF kind = "arxiv" THEN "check" ELSE "limiter")
  /\ began' = Set(began, r, now)
  /\ fresh' = Set(fresh, r, FALSE)
  /\ UNCHANGED <<limiterVars, kind, now, engineVars, wake, asked, retried, length, load>>

Gap == IF kind = "arxiv" THEN MinInterval ELSE 0

Allowed(r) ==
  /\ pc[r] = "limiter"
  /\ Allow(now, Gap)
  /\ Continue(r, CASE kind = "ddg" -> "check" [] kind \in {"arxiv", "dblp"} -> "post"
                   [] kind = "plain" -> "delay")
  /\ UNCHANGED <<kind, now, engineVars, fresh, load>>

\* Whether a search that is refused tries again: arXiv's while its budget
\* lasts, and DBLP's always.
Persists(r) ==
  \/ kind = "arxiv" /\ now - began[r] + Estimate <= Budget
  \/ kind = "dblp"

\* The others return no results and no error.
Refused(r) ==
  /\ pc[r] = "limiter"
  /\ Refuse(now, Gap)
  /\ IF Persists(r) THEN UNCHANGED searchVars ELSE Return(r)
  /\ UNCHANGED <<kind, now, engineVars, fresh, load>>

\* Fault: what is left of a cooldown is rounded down.
Cooling_RoundedDown == until > now + 1

\* cooldownRemaining() > 0
Cooling == until > now

Check(r) ==
  /\ pc[r] = "check"
  /\ IF Cooling
       THEN Return(r) /\ UNCHANGED fresh
       ELSE /\ Continue(r, IF kind = "arxiv" THEN "limiter" ELSE "delay")
            /\ fresh' = Set(fresh, r, TRUE)
  /\ UNCHANGED <<limiterVars, kind, now, engineVars, load>>

\* preDelay
Delay(r) ==
  /\ pc[r] = "delay"
  /\ \E d \in 0 .. MaxDelay : wake' = Set(wake, r, now + d)
  /\ Goto(r, "post")
  /\ UNCHANGED <<limiterVars, kind, now, engineVars, began, asked, retried, length, fresh, load>>

Post(r) ==
  /\ pc[r] = "post" /\ now >= wake[r]
  /\ Continue(r, "sent")
  /\ UNCHANGED <<limiterVars, kind, now, engineVars, fresh, load>>

-----------------------------------------------------------------------------
(* The answer                                                              *)

\* cooldownDuration: twice the last one, or what the server says.
Longest(x) == IF x > CooldownMax THEN CooldownMax ELSE x

Duration(retryAfter) ==
  Longest(IF retryAfter > 0 THEN retryAfter
          ELSE IF cooldown <= 0 THEN Cooldown ELSE 2 * cooldown)

\* No answer, a status that is not 200, or a page without results; a retry
\* that fails enters the cooldown.
Fails(r) ==
  /\ pc[r] = "sent"
  /\ \/ (retried[r] => kind = "ddg") /\ Return(r)
     \/ retried[r] /\ Continue(r, "enter")
  /\ UNCHANGED <<limiterVars, kind, now, engineVars, fresh, load>>

\* The server limits: the search sleeps and retries, if its budget allows.
Limited(r) ==
  /\ pc[r] = "sent" /\ kind \in {"ddg", "arxiv"} /\ ~ retried[r]
  /\ \E x \in RetryAfters :
       /\ asked' = Set(asked, r, x)
       /\ IF now - began[r] + Duration(x) + Estimate <= Budget
            THEN /\ Goto(r, "post")
                 /\ wake' = Set(wake, r, now + Duration(x))
                 /\ retried' = Set(retried, r, TRUE)
            ELSE Goto(r, "enter") /\ UNCHANGED <<wake, retried>>
  /\ UNCHANGED <<limiterVars, kind, now, engineVars, began, length, fresh, load>>

\* enterCooldown computes the length ...
Measure(r) ==
  /\ pc[r] = "enter"
  /\ length' = Set(length, r, Duration(asked[r]))
  /\ Goto(r, "cool")
  /\ UNCHANGED <<limiterVars, kind, now, engineVars, began, wake, asked, retried, fresh, load>>

\* ... and sets it, under the lock again.
EnterCooldown(r) ==
  /\ pc[r] = "cool"
  /\ cooldown' = length[r]
  /\ until' = now + length[r]
  /\ fresh' = [o \in Requests |-> FALSE]
  /\ Return(r)
  /\ UNCHANGED <<limiterVars, kind, now, reqCount, load>>

\* recordSuccess
Succeeds(r) ==
  /\ pc[r] = "sent"
  /\ IF kind \in {"ddg", "arxiv"} THEN cooldown' = 0 /\ until' = 0 ELSE UNCHANGED <<cooldown, until>>
  /\ IF kind \in {"arxiv", "dblp"} THEN Return(r) ELSE Continue(r, "count")
  /\ UNCHANGED <<limiterVars, kind, now, reqCount, fresh, load>>

\* Fault: only the search that reaches the lifetime replaces the session.
Spent_Exactly(n) == n = Lifetime

Spent(n) == n >= Lifetime

\* rotateSessionIfNeeded counts under the lock ...
Count(r) ==
  /\ pc[r] = "count"
  /\ reqCount' = reqCount + 1
  /\ load' = load + 1
  /\ IF Spent(reqCount + 1) THEN Continue(r, "rotate") ELSE Return(r)
  /\ UNCHANGED <<limiterVars, kind, now, cooldown, until, fresh>>

\* ... and rotateSession replaces the client, and then resets the count,
\* without it.
Rotate(r) ==
  /\ pc[r] = "rotate"
  /\ load' = 0
  /\ Continue(r, "reset")
  /\ UNCHANGED <<limiterVars, kind, now, engineVars, fresh>>

Reset(r) ==
  /\ pc[r] = "reset"
  /\ reqCount' = 0
  /\ Return(r)
  /\ UNCHANGED <<limiterVars, kind, now, cooldown, until, fresh, load>>

Step(r) ==
  \/ Search(r) \/ Allowed(r) \/ Refused(r) \/ Check(r) \/ Delay(r) \/ Post(r)
  \/ Fails(r) \/ Limited(r) \/ Measure(r) \/ EnterCooldown(r)
  \/ Succeeds(r) \/ Count(r) \/ Rotate(r) \/ Reset(r)

Next == Tick \/ \E r \in Requests : Step(r)

Spec == Init /\ [][Next]_vars

-----------------------------------------------------------------------------
\* In every second, and in every minute, not only in those that end with a
\* call, the limiter allows at most PerSec and PerMin searches, although its
\* windows are pruned by calls that are refused; and arXiv's leave the gap.
RateKept ==
  /\ Spread(PerSec, Second) /\ Spread(PerMin, Minute)
  /\ Spread(1, Gap)

\* During a cooldown only searches that looked before it was entered send a
\* request, and retries: the one entered last stops every search that starts
\* after it, unless a success has ended it.
CooldownStopsSearches ==
  [][\A r \in Requests :
       pc[r] = "post" /\ pc'[r] = "sent" /\ until > now =>
         ~ fresh[r]]_vars

\* Concurrent searches may lose counts to each other's reset, and searches that
\* wait to rotate a session count on it meanwhile; but each of them does so for
\* one lifetime at most, and then the session is replaced.
SessionRotated == load <= Cardinality(Requests) * Lifetime
=============================================================================
