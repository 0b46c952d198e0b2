----------------------------- MODULE RateLimiter -----------------------------
(***************************************************************************)
(* The sliding-window limiter of pkg/antirobot/limiter.go: at most PerSec  *)
(* requests a second and PerMin a minute, and, for an engine that asks for *)
(* it, a least gap between two requests.  Allow runs under the limiter's   *)
(* lock and is one step; its two outcomes are Allow and Refuse below.      *)
(***************************************************************************)
EXTENDS Integers, Sequences, FiniteSets

CONSTANTS
  PerSec, PerMin, \* requests per second and per minute
  Second, Minute  \* the two windows, in clock ticks

ASSUME LimitAssumption ==
  /\ PerSec \in Nat \ {0} /\ PerMin \in Nat \ {0}
  /\ Second \in Nat \ {0} /\ Minute \in Nat \ {0}

VARIABLES
  last,      \* the time of the last request allowed, or Never
  secWindow, \* times of requests allowed, as far as they were kept
  minWindow,
  granted    \* history: the times of all requests allowed

limiterVars == <<last, secWindow, minWindow, granted>>

Never == -1

LimiterInit ==
  /\ last = Never
  /\ secWindow = <<>> /\ minWindow = <<>> /\ granted = <<>>

\* filterAfter: what is exactly as old as the window is dropped, and the n-th
\* time kept becomes w[n].
FilterAfter(w, cut) ==
  LET kept == {i \in DOMAIN w : w[i] > cut}
      nth(n) == CHOOSE i \in kept : Cardinality({j \in kept : j <= i}) = n
  IN  [n \in 1 .. Cardinality(kept) |-> w[nth(n)]]

TooSoon(t, gap) == gap > 0 /\ last # Never /\ t - last < gap

\* Fault: one request too many fits.
Full_OffByOne(t) ==
  \/ Len(FilterAfter(secWindow, t - Second)) > PerSec
  \/ Len(FilterAfter(minWindow, t - Minute)) > PerMin

Full(t) ==
  \/ Len(FilterAfter(secWindow, t - Second)) >= PerSec
  \/ Len(FilterAfter(minWindow, t - Minute)) >= PerMin

Allow(t, gap) ==
  /\ ~ TooSoon(t, gap) /\ ~ Full(t)
  /\ last' = t
  /\ secWindow' = Append(FilterAfter(secWindow, t - Second), t)
  /\ minWindow' = Append(FilterAfter(minWindow, t - Minute), t)
  /\ granted' = Append(granted, t)

Refuse(t, gap) ==
  \/ TooSoon(t, gap) /\ UNCHANGED limiterVars
  \/ /\ ~ TooSoon(t, gap) /\ Full(t)
     /\ secWindow' = FilterAfter(secWindow, t - Second)
     /\ minWindow' = FilterAfter(minWindow, t - Minute)
     /\ UNCHANGED <<last, granted>>

-----------------------------------------------------------------------------
\* No n + 1 of the requests allowed fall into a window, wherever it begins.
Spread(n, window) ==
  \A i \in DOMAIN granted :
    i + n \in DOMAIN granted => granted[i + n] - granted[i] >= window
=============================================================================
