------------------------------- MODULE KeyPool -------------------------------
(***************************************************************************)
(* The API key pools of pkg/search/provider/keypool.go.                    *)
(*                                                                         *)
(* A pool holds the keys 0 .. NumKeys[p]-1 of one provider (the trimmed,   *)
(* non-empty, deduplicated list NewKeyPool builds).  A key is either       *)
(* usable or cooling: until[p][k] is its invalidUntil, 0 being Go's zero   *)
(* time.  NextKey, MarkInvalid and Available run under the pool's mutex,   *)
(* so each is one step; but Next reads the clock before it takes the lock, *)
(* so its reading may be older than the clock, and MarkLastInvalid loads   *)
(* lastKey before it takes the lock.                                       *)
(***************************************************************************)
EXTENDS Integers, FiniteSets

CONSTANTS
  Pools,      \* the pools, one per provider that has keys
  NumKeys,    \* number of distinct keys of each pool
  InvalidTTL, \* keyInvalidTTL (30 minutes), in clock ticks
  MaxTime     \* bound on the clock: the model stops ticking there

ASSUME NumKeysAssumption == NumKeys \in [Pools -> Nat \ {0}]
ASSUME TTLAssumption     == InvalidTTL \in Nat \ {0}
ASSUME MaxTimeAssumption == MaxTime \in Nat

VARIABLES
  now,     \* the wall clock
  until,   \* until[p][k]: states[k].invalidUntil of pool p
  cursor,  \* cursor[p]: idx modulo the number of keys
  lastKey  \* lastKey[p]: the key the last NextKey returned, NoKey before any

poolVars == <<until, cursor, lastKey>>
kpVars   == <<now, until, cursor, lastKey>>

Keys(p) == 0 .. NumKeys[p] - 1
NoKey   == -1

KPInit ==
  /\ now = 0
  /\ until = [p \in Pools |-> [k \in Keys(p) |-> 0]]
  /\ cursor = [p \in Pools |-> 0]
  /\ lastKey = [p \in Pools |-> NoKey]

\* invalidUntil.IsZero() || t.After(invalidUntil)
Usable(p, k, t) == until[p][k] = 0 \/ t > until[p][k]

\* Available() = 0
NoneAvailable(p, t) == \A k \in Keys(p) : ~ Usable(p, k, t)

\* The slot of the i-th probe of a scan: (idx + i) % n.
Slot(p, i) ==
  IF cursor[p] + i < NumKeys[p] THEN cursor[p] + i
                                ELSE cursor[p] + i - NumKeys[p]

\* Fault: the cursor moves on before the key is taken.
UsableProbe_MovedCursor(p, t, i) ==
  LET Probed(j) == Slot(p, IF j = NumKeys[p] - 1 THEN 0 ELSE j + 1) IN
  /\ i \in 0 .. NumKeys[p] - 1
  /\ Usable(p, Probed(i), t)
  /\ \A j \in 0 .. i - 1 : ~ Usable(p, Probed(j), t)

\* The scan stops at probe i, the first usable slot.
UsableProbe(p, t, i) ==
  /\ i \in 0 .. NumKeys[p] - 1
  /\ Usable(p, Slot(p, i), t)
  /\ \A j \in 0 .. i - 1 : ~ Usable(p, Slot(p, j), t)

\* The key of pool p that leaves its cooldown first (lowest index on a tie).
EarliestRecover(p, k) ==
  /\ k \in Keys(p)
  /\ \A j \in Keys(p) : until[p][k] <= until[p][j]
  /\ \A j \in Keys(p) : until[p][j] = until[p][k] => k <= j

\* Fault: the key handed out as a last resort leaves its cooldown.
NextKey_ClearsLastResort(p, t, k) ==
  /\ lastKey' = [lastKey EXCEPT ![p] = k]
  /\ until' = [until EXCEPT ![p][k] = 0]
  /\ \/ \E i \in 0 .. NumKeys[p] - 1 :
          /\ UsableProbe(p, t, i)
          /\ k = Slot(p, i)
          /\ cursor' = [cursor EXCEPT ![p] = IF k + 1 < NumKeys[p] THEN k + 1 ELSE 0]
     \/ /\ \A i \in 0 .. NumKeys[p] - 1 : ~ UsableProbe(p, t, i)
        /\ EarliestRecover(p, k)
        /\ UNCHANGED cursor

\* Next(), clock read at t, returning k: the first usable slot from the
\* cursor, whose expired cooldown is cleared and behind which the cursor
\* stops; when every key cools, the one that recovers first, after a whole
\* turn of the cursor.
NextKey(p, t, k) ==
  /\ lastKey' = [lastKey EXCEPT ![p] = k]
  /\ \/ \E i \in 0 .. NumKeys[p] - 1 :
          /\ UsableProbe(p, t, i)
          /\ k = Slot(p, i)
          /\ until' = [until EXCEPT ![p][k] = 0]
          /\ cursor' = [cursor EXCEPT ![p] = IF k + 1 < NumKeys[p] THEN k + 1 ELSE 0]
     \/ /\ \A i \in 0 .. NumKeys[p] - 1 : ~ UsableProbe(p, t, i)
        /\ EarliestRecover(p, k)
        /\ UNCHANGED <<until, cursor>>

\* Fault: a mark clears the key's entry.
MarkInvalid_Clears(p, k) ==
  /\ until' = [until EXCEPT ![p][k] = 0]
  /\ UNCHANGED <<cursor, lastKey>>

\* MarkInvalid(k): the key cools for InvalidTTL from now on, also when it
\* cools already.
MarkInvalid(p, k) ==
  /\ until' = [until EXCEPT ![p][k] = now + InvalidTTL]
  /\ UNCHANGED <<cursor, lastKey>>

\* Time passes.
Tick ==
  /\ now < MaxTime
  /\ now' = now + 1
  /\ UNCHANGED poolVars

\* The pool as its callers may use it: any goroutine may take a key by a
\* clock reading that is not in the future, and mark any key.
KPNext ==
  \/ Tick
  \/ \E p \in Pools : \E k \in Keys(p) :
       /\ UNCHANGED now
       /\ \/ \E t \in 0 .. now : NextKey(p, t, k)
          \/ MarkInvalid(p, k)

KPSpec == KPInit /\ [][KPNext]_kpVars

-----------------------------------------------------------------------------
KPTypeOK ==
  /\ now \in 0 .. MaxTime
  /\ DOMAIN until = Pools
  /\ \A p \in Pools : until[p] \in [Keys(p) -> 0 .. MaxTime + InvalidTTL]
  /\ DOMAIN cursor = Pools
  /\ \A p \in Pools : cursor[p] \in Keys(p)
  /\ DOMAIN lastKey = Pools
  /\ \A p \in Pools : lastKey[p] \in Keys(p) \cup {NoKey}

\* A cooldown is served in full: the end of a key's cooldown changes only by
\* a mark, which moves it to InvalidTTL from now, or by a scan that clears it
\* once it has passed -- even when the scan works with an old clock reading.
CooldownServed ==
  [][\A p \in Pools : \A k \in Keys(p) :
       until'[p][k] # until[p][k] =>
         \/ until'[p][k] = now + InvalidTTL
         \/ until'[p][k] = 0 /\ now > until[p][k]]_kpVars
=============================================================================
