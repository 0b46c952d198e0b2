----------------------------- MODULE SearchCache -----------------------------
(***************************************************************************)
(* The SQLite result cache of pkg/cache (sqlite.go, cleanup.go).  A row is *)
(* identified by query, intent and whether it is academic (the unique      *)
(* index), and holds the results, a summary that may be empty, and the     *)
(* time of its last hit.  One connection serves the process, so every      *)
(* statement is one step; a lookup is up to three of them (SELECT, SELECT, *)
(* UPDATE by id) with the steps of others between.  Every operation reads  *)
(* the clock before it waits for the connection.                           *)
(*                                                                         *)
(* The cleaner deletes stale rows every Interval while the server is up;   *)
(* a lookup does not look at the age of what it finds.                     *)
(***************************************************************************)
EXTENDS Naturals

CONSTANTS
  Queries,   \* cache keys: the query, with the fetch depth if there is one
  Intents,   \* intents of web calls; academic calls have none
  NoIntent,  \* the empty intent
  NoSummary, \* the empty summary column
  Contents,  \* what a search returned
  Readers,   \* who looks rows up
  MaxAge,    \* StaleMaxAge (6 hours), in clock ticks
  Interval,  \* the cleaner's interval
  Slow,      \* bound on how long an operation waits for its statements
  MaxTime    \* bound on the clock

ASSUME CacheAssumption ==
  /\ NoIntent \notin Intents
  /\ MaxAge \in Nat /\ Interval \in Nat \ {0} /\ MaxTime \in Nat
  /\ Slow \in Nat /\ Slow < Interval /\ Slow <= MaxAge

VARIABLES
  rows,    \* the table: a function from the keys present to rows, each with
           \* the history of when it was last stored or touched (used)
  now,     \* the wall clock
  up,      \* whether the server runs
  timer,   \* time since the ticker last fired, or was started
  look,    \* look[c]: where the lookup of c is, or what it found
  clean    \* history: the sweep was run since the start, and did not fail last

cacheVars == <<rows, now, up, timer, look, clean>>

Keys == Queries \X (Intents \cup {NoIntent}) \X BOOLEAN
Present == DOMAIN rows
NoRows == [k \in {} |-> 0]
NoLook == [at |-> "idle"]

SCInit ==
  /\ rows = NoRows
  /\ now = 0 /\ timer = 0 /\ up = TRUE
  /\ clean = TRUE
  /\ look = [c \in Readers |-> NoLook]

\* The clock as an operation read it before its statement.
Moments == {t \in 0 .. now : now <= t + Slow}

-----------------------------------------------------------------------------
(* Lookup                                                                  *)

\* A lookup of k begins: it reads the clock.
Ask(c, k) == look' = [look EXCEPT ![c] = [at |-> "exact", key |-> k, began |-> now]]

\* A SELECT returns row j: a copy of it, and the id to touch it by (which the
\* row keeps while live).  Of the age of the row, and whether the cleaner is at
\* work, nothing is kept but the history.
Hit(c, j, type) ==
  look' = [look EXCEPT ![c] =
    [at |-> "touch", began |-> look[c].began, row |-> j, live |-> TRUE, type |-> type,
     results |-> rows[j].results, summary |-> rows[j].summary,
     age |-> now - rows[j].lastHit, clean |-> clean]]

Miss(c) == look' = [look EXCEPT ![c] = [at |-> "miss"]]

SelectExact(c) ==
  /\ look[c].at = "exact"
  /\ LET k == look[c].key IN
       IF k \in Present
         THEN Hit(c, k, IF rows[k].summary # NoSummary THEN "exact_intent" ELSE "query_only")
         ELSE look' = [look EXCEPT ![c].at = "query"]
  /\ UNCHANGED rows

\* The rows of query q that were hit last: any of them on a tie.
Latest(q) ==
  {j \in Present :
     /\ j[1] = q
     /\ \A i \in Present : i[1] = q => rows[i].lastHit <= rows[j].lastHit}

\* The second SELECT: web and academic rows alike, and also the exact row if
\* it came meanwhile.
SelectQuery(c) ==
  /\ look[c].at = "query"
  /\ LET found == Latest(look[c].key[1]) IN
       \/ \E j \in found : Hit(c, j, "query_only")
       \/ found = {} /\ Miss(c)
  /\ UNCHANGED rows

\* An error of either SELECT; its callers treat it as a miss.
SelectFails(c) ==
  /\ look[c].at \in {"exact", "query"}
  /\ Miss(c)
  /\ UNCHANGED rows

Touched(c, lastHit) ==
  rows' = [rows EXCEPT ![look[c].row].lastHit = lastHit, ![look[c].row].used = now]

\* Fault: a hit by query alone is not touched.
Touch_ExactOnly(c) ==
  LET j == look[c].row IN
  Touched(c, IF look[c].type = "exact_intent" THEN look[c].began ELSE rows[j].lastHit)

\* UPDATE ... SET last_hit_at = now WHERE id = ?: with the time the lookup
\* began.
Touch(c) == Touched(c, look[c].began)

\* touchLastHit: a row that went since the SELECT, or came anew, has not this
\* id, and an error is discarded.  The lookup returns its copy.
TouchLastHit(c) ==
  /\ look[c].at = "touch"
  /\ \/ look[c].live /\ Touch(c)
     \/ UNCHANGED rows
  /\ look' = [look EXCEPT ![c] =
       [at |-> "hit", academic |-> look[c].row[3], type |-> look[c].type,
        results |-> look[c].results, summary |-> look[c].summary]]

Seek(c) == SelectExact(c) \/ SelectQuery(c) \/ SelectFails(c) \/ TouchLastHit(c)

-----------------------------------------------------------------------------
(* Store, UpdateSummary, Clear, EvictStale                                 *)

\* INSERT ... ON CONFLICT DO UPDATE: also an empty summary replaces.  The
\* callers discard an error.
Store(k, results, summary) ==
  /\ \/ \E at \in Moments :
          rows' = [j \in Present \cup {k} |->
                     IF j = k
                       THEN [results |-> results, summary |-> summary, lastHit |-> at,
                             used |-> now]
                       ELSE rows[j]]
     \/ UNCHANGED rows
  /\ UNCHANGED look

\* Fault: the summary goes to every row of the query.
UpdateSummary_AnyIntent(q, intent, summary) ==
  rows' = [j \in Present |->
             IF j[1] = q /\ rows[j].summary = NoSummary
               THEN [rows[j] EXCEPT !.summary = summary] ELSE rows[j]]

\* UPDATE ... WHERE query = ? AND intent = ? AND summary = '': the rows of
\* either kind, if there are any.
UpdateSummary(q, intent, summary) ==
  rows' = [j \in Present |->
             IF j[1] = q /\ j[2] = intent /\ rows[j].summary = NoSummary
               THEN [rows[j] EXCEPT !.summary = summary] ELSE rows[j]]

\* Rows are deleted, and their ids with them: AUTOINCREMENT never uses one
\* again.
Delete(K) ==
  /\ rows' = [k \in Present \ K |-> rows[k]]
  /\ look' = [c \in Readers |->
                IF look[c].at = "touch" /\ look[c].row \in K
                  THEN [look[c] EXCEPT !.live = FALSE] ELSE look[c]]

\* Clear(): the dashboard empties the table.
Clear == Delete(Present)

\* Fault: the age is doubled, as by a wrong unit.
EvictStale_TooLate(at) == Delete({k \in Present : rows[k].lastHit + 2 * MaxAge < at})

\* DELETE ... WHERE last_hit_at < at - StaleMaxAge
EvictStale(at) == Delete({k \in Present : rows[k].lastHit + MaxAge < at})

-----------------------------------------------------------------------------
(* The cache in time, used by any caller.                                  *)

stillVars == <<now, up, timer, clean>>

Begin(c, k) ==
  /\ up
  /\ look[c].at \in {"idle", "hit", "miss"}
  /\ Ask(c, k)
  /\ UNCHANGED <<rows, stillVars>>

Lookup(c) == up /\ Seek(c) /\ UNCHANGED stillVars

Insert(k) ==
  /\ up
  /\ \E c \in Contents : Store(k, c, NoSummary)
  /\ UNCHANGED stillVars

Wipe == up /\ Clear /\ UNCHANGED stillVars

\* The ticker fired when timer reached Interval; the cutoff is of that time,
\* and the DELETE runs now, or fails, which is only logged.
Sweep ==
  /\ up /\ timer >= Interval
  /\ \/ EvictStale(now - (timer - Interval)) /\ clean' = TRUE
     \/ clean' = FALSE /\ UNCHANGED <<rows, look>>
  /\ timer' = timer - Interval
  /\ UNCHANGED <<now, up>>

\* Time passes; whatever waits for the connection gets it within Slow.
Tick ==
  /\ now < MaxTime
  /\ up => timer < Interval + Slow
  /\ \A c \in Readers : look[c].at \in {"exact", "query", "touch"} => now < look[c].began + Slow
  /\ now' = now + 1
  /\ timer' = IF up THEN timer + 1 ELSE timer
  /\ UNCHANGED <<rows, up, look, clean>>

\* The process ends, and its lookups with it; the table survives.
Stop ==
  /\ up
  /\ up' = FALSE
  /\ look' = [c \in Readers |-> NoLook]
  /\ UNCHANGED <<rows, now, timer, clean>>

\* The ticker starts anew.
Start ==
  /\ ~ up
  /\ up' = TRUE /\ timer' = 0 /\ clean' = FALSE
  /\ UNCHANGED <<rows, now, look>>

SCNext(K) ==
  \/ \E k \in K : Insert(k) \/ \E c \in Readers : Begin(c, k)
  \/ \E c \in Readers : Lookup(c)
  \/ Wipe \/ Sweep \/ Tick \/ Stop \/ Start

SCSpec == SCInit /\ [][SCNext(Keys)]_cacheVars

-----------------------------------------------------------------------------
\* Nothing older than the six hours, one round of the cleaner and the wait of
\* its statement is served, though a lookup does not look at the age; except
\* after a restart or a failed sweep, until the cleaner has run.
HitIsFresh ==
  \A c \in Readers :
    look[c].at = "touch" /\ look[c].clean => look[c].age <= MaxAge + Interval + Slow

\* The six hours count from the last use, exact or by query alone: the
\* cleaner takes no row that was stored or touched since, however lookups,
\* stores and sweeps interleave, but that the use dates from before its wait
\* for the connection.  (A row served and not touched yet, or whose touch
\* failed, is taken.)
UsedRowsStay ==
  [][\A k \in Present : k \notin DOMAIN rows' /\ timer' # timer =>
       rows[k].used + MaxAge < now + Slow]_cacheVars
=============================================================================
