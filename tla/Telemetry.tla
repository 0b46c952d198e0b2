---------------------------- MODULE Telemetry ----------------------------
(* The usage telemetry of pkg/telemetry: the table of events, the daily     *)
(* totals kept beside it, and what the dashboard derives from the events:   *)
(* the metrics of a day, the state of a source, its suspension.             *)
EXTENDS Integers, FiniteSets, Sequences

CONSTANTS
  Second,      \* units of the clock in a second: events are stamped in whole seconds
  DayLength,   \* seconds in a day
  Retention,   \* seconds for which events are kept
  Sample,      \* newest events from which the state of a source is derived
  Ban,         \* pause of a source whose last error has no pause of its own
  MaxBan,      \* longest pause
  Pauses,      \* the pause of each kind of error that has one
  StaleAge     \* age of the last event after which a source is "unknown"

ASSUME TelemetryConstants ==
  /\ {Second, DayLength, Sample, Ban} \subseteq Nat \ {0}
  /\ {Retention, StaleAge, MaxBan} \subseteq Nat
  /\ MaxBan >= Ban
  /\ \A k \in DOMAIN Pauses : Pauses[k] \in Nat \ {0}

VARIABLES
  clock,    \* time.Now()
  events,   \* rows of usage_events, by their ids
  issued,   \* the last id that was given; none is given twice
  daily     \* daily_usage: totals by <<day, kind, name>>

telemetry == <<events, issued, daily>>

Seconds(t) == t \div Second
Day(s) == s \div DayLength

(* Open: the tables may hold what a version has left that recorded no kinds *)
(* of errors (the column was added later): failures of webfetch, in the     *)
(* seconds old.                                                             *)
TelemetryInit(old) ==
  /\ events = [i \in DOMAIN old |->
                  [at |-> old[i], kind |-> "provider", name |-> "webfetch", ok |-> FALSE, error |-> "none",
                   of |-> <<"none", "none">>, chain |-> <<>>]]
  /\ issued = Len(old)
  /\ daily = [k \in {<<Day(old[i]), "provider", "webfetch">> : i \in DOMAIN old} |->
                 LET n == Cardinality({i \in DOMAIN old : Day(old[i]) = k[1]})
                 IN  [requests |-> n, failures |-> n]]

(* Fault: DO UPDATE leaves the failures as they were. *)
Count_RequestsOnly(key, ok) ==
  LET old == IF key \in DOMAIN daily THEN daily[key] ELSE [requests |-> 0, failures |-> IF ok THEN 0 ELSE 1]
  IN  [k \in DOMAIN daily \cup {key} |->
         IF k = key THEN [requests |-> old.requests + 1, failures |-> old.failures] ELSE daily[k]]

Total(key) == IF key \in DOMAIN daily THEN daily[key] ELSE [requests |-> 0, failures |-> 0]
Count(key, ok) ==
  [k \in DOMAIN daily \cup {key} |->
     IF k = key THEN [requests |-> Total(key).requests + 1,
                      failures |-> Total(key).failures + (IF ok THEN 0 ELSE 1)]
     ELSE daily[k]]

Row(now, e) ==
  [at |-> Seconds(now), kind |-> e.kind, name |-> e.name, ok |-> e.ok, error |-> e.error,
   of |-> e.of, chain |-> e.chain]

Added(now, e) ==
  /\ issued' = issued + 1
  /\ events' = [i \in DOMAIN events \cup {issued + 1} |-> IF i = issued + 1 THEN Row(now, e) ELSE events[i]]
  /\ daily' = Count(<<Day(Seconds(now)), e.kind, e.name>>, e.ok)

(* Record and Store.Record: one transaction adds the event and counts it;   *)
(* now was read before it began. One that fails leaves the tables as they   *)
(* were, and its error is dropped.                                          *)
Record(now, e) == Added(now, e) \/ UNCHANGED telemetry

(* Store.Cleanup, called when the server starts: old events go, the daily   *)
(* totals stay.                                                             *)
Cleanup ==
  /\ events' = [i \in {j \in DOMAIN events : events[j].at >= Seconds(clock) - Retention} |-> events[i]]
  /\ UNCHANGED <<issued, daily>>

-----------------------------------------------------------------------------
(* Reading *)

Newer(i, j) ==
  \/ events[i].at > events[j].at
  \/ events[i].at = events[j].at /\ i > j

Least(a, b) == IF a < b THEN a ELSE b

NewerThan(i, ids) == {j \in ids : Newer(j, i)}

(* ORDER BY occurred_at DESC, id DESC LIMIT n *)
RecentFiltered(ids, n) == {i \in ids : Cardinality(NewerThan(i, ids)) < n}

IdsOf(kind, name) == {i \in DOMAIN events : events[i].kind = kind /\ events[i].name = name}

(* Store.Metrics: the totals of today, counted from the events. *)
Metrics(kind, name) ==
  LET today == {i \in IdsOf(kind, name) : Day(events[i].at) = Day(Seconds(clock))}
  IN  [requests |-> Cardinality(today), failures |-> Cardinality({i \in today : ~events[i].ok})]

(* Store.todayByName: the totals of today, read from the daily table. *)
Today(kind, name) ==
  Total(<<Day(Seconds(clock)), kind, name>>)

(* health: rows are the newest events of a source. *)
Rows(kind, name) == RecentFiltered(IdsOf(kind, name), Sample)

First(ids) == CHOOSE i \in ids : \A j \in ids : ~Newer(j, i)
Last(ids) == CHOOSE i \in ids : \A j \in ids : ~Newer(i, j)
Failed(rows) == {i \in rows : ~events[i].ok}

(* Fault: the newest success counts as well. *)
Streak_WithSuccess(rows) ==
  Cardinality({i \in rows : NewerThan(i, rows) \subseteq Failed(rows)})

(* The failures before the newest success. *)
Streak(rows) ==
  Cardinality({i \in Failed(rows) : NewerThan(i, rows) \subseteq Failed(rows)})

(* The failure whose time and kind decide the pause: the newest one that    *)
(* has a kind, or the oldest one when none has (the loop reads on while the *)
(* kind it holds is empty).                                                 *)
Anchor(rows) ==
  LET named == {i \in Failed(rows) : events[i].error # "none"}
  IN  events[IF named # {} THEN First(named) ELSE Last(Failed(rows))]

PauseOf(error) == Least(IF error \in DOMAIN Pauses THEN Pauses[error] ELSE Ban, MaxBan)

(* EvaluateSuspension: decides suspended_until and its reason. *)
SuspendedUntil(rows) == (Anchor(rows).at + PauseOf(Anchor(rows).error)) * Second
Suspended(rows) == Streak(rows) >= 3 /\ SuspendedUntil(rows) > clock

Status(rows) ==
  IF rows = {} THEN "unobserved"
  ELSE IF clock - events[First(rows)].at * Second > StaleAge * Second THEN "unknown"
  ELSE IF Streak(rows) >= 3 THEN "down"
  ELSE IF ~events[First(rows)].ok \/ Cardinality(Failed(rows)) * 5 > Cardinality(rows) THEN "degraded"
  ELSE "healthy"

(* Health.State. What the suspension writes is overwritten in every case of *)
(* the switch but that of a source that is down, where the case falls back  *)
(* to the same word: such a source is "suspended" after its pause as well.  *)
State(rows) ==
  IF Status(rows) = "unknown" THEN "stale"
  ELSE IF Status(rows) = "down" THEN "suspended"
  ELSE Status(rows)
=============================================================================
