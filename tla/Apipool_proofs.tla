---------------------------- MODULE Apipool_proofs ----------------------------
(***************************************************************************)
(* Proofs about the key pools, for any number of pools, keys and callers   *)
(* and any cooldown, and about the key-pool search that uses them, for any *)
(* number of searches and providers and any strategy.  The step lemmas of  *)
(* the pools are stated about NextKey, MarkInvalid and Tick, so that the   *)
(* search can cite them for its own steps.                                 *)
(***************************************************************************)
EXTENDS Apipool, FiniteSetTheorems, TLAPS

\* A scan keeps the pools well-typed, whatever clock reading it works with.
LEMMA NextKeyType ==
  ASSUME KPTypeOK, NEW p \in Pools, NEW k \in Keys(p), NEW t,
         NextKey(p, t, k), UNCHANGED now
  PROVE  KPTypeOK'
<1>1. lastKey' = [lastKey EXCEPT ![p] = k]
  BY DEF NextKey
<1>2. \/ /\ until' = [until EXCEPT ![p][k] = 0]
         /\ cursor' = [cursor EXCEPT ![p] = IF k + 1 < NumKeys[p] THEN k + 1 ELSE 0]
      \/ UNCHANGED <<until, cursor>>
  BY DEF NextKey
<1>3. NumKeys[p] \in Nat \ {0}
  BY NumKeysAssumption
<1>4. DOMAIN until' = Pools /\ \A q \in Pools : until'[q] \in [Keys(q) -> 0 .. MaxTime + InvalidTTL]
  BY <1>2, TTLAssumption, MaxTimeAssumption DEF KPTypeOK
<1>5. DOMAIN cursor' = Pools /\ \A q \in Pools : cursor'[q] \in Keys(q)
  BY <1>2, <1>3 DEF KPTypeOK, Keys
<1>6. DOMAIN lastKey' = Pools /\ \A q \in Pools : lastKey'[q] \in Keys(q) \cup {NoKey}
  BY <1>1 DEF KPTypeOK
<1> QED
  BY <1>4, <1>5, <1>6 DEF KPTypeOK, Keys, NoKey

LEMMA MarkInvalidType ==
  ASSUME KPTypeOK, NEW p \in Pools, NEW k \in Keys(p),
         MarkInvalid(p, k), UNCHANGED now
  PROVE  KPTypeOK'
BY NumKeysAssumption, TTLAssumption, MaxTimeAssumption
   DEF KPTypeOK, MarkInvalid, Keys, NoKey

LEMMA TickType == KPTypeOK /\ Tick => KPTypeOK'
BY NumKeysAssumption, TTLAssumption, MaxTimeAssumption
   DEF KPTypeOK, Tick, Keys, NoKey, poolVars

LEMMA InitType == KPInit => KPTypeOK
BY NumKeysAssumption, TTLAssumption, MaxTimeAssumption
   DEF KPInit, KPTypeOK, Keys, NoKey

\* The step relation of the pools preserves their type.
LEMMA NextType == KPTypeOK /\ [KPNext]_kpVars => KPTypeOK'
<1> SUFFICES ASSUME KPTypeOK, [KPNext]_kpVars PROVE KPTypeOK'
  OBVIOUS
<1>1. CASE Tick
  BY <1>1, TickType
<1>2. ASSUME NEW p \in Pools, NEW k \in Keys(p), NEW t \in 0 .. now,
             NextKey(p, t, k), UNCHANGED now
      PROVE  KPTypeOK'
  BY <1>2, NextKeyType
<1>3. ASSUME NEW p \in Pools, NEW k \in Keys(p), MarkInvalid(p, k), UNCHANGED now
      PROVE  KPTypeOK'
  BY <1>3, MarkInvalidType
<1>4. CASE UNCHANGED kpVars
  BY <1>4 DEF kpVars, KPTypeOK
<1> QED
  BY <1>1, <1>2, <1>3, <1>4 DEF KPNext

\* The pools stay well-typed: every slot the cursor points at and every key
\* Next() remembers exists.
THEOREM PoolTypeCorrect == KPSpec => []KPTypeOK
<1>1. KPInit => KPTypeOK
  BY InitType
<1>2. KPTypeOK /\ [KPNext]_kpVars => KPTypeOK'
  BY NextType
<1> QED
  BY <1>1, <1>2, PTL DEF KPSpec

-----------------------------------------------------------------------------
\* What one scan does to a pool, if its clock reading is not in the future:
\* it clears the cooldown of the key it returns only once that has passed,
\* and touches no other one.
LEMMA NextKeyServesCooldown ==
  ASSUME KPTypeOK, NEW p \in Pools, NEW k \in Keys(p), NEW t \in 0 .. now,
         NextKey(p, t, k),
         NEW q \in Pools, NEW j \in Keys(q), until'[q][j] # until[q][j]
  PROVE  until'[q][j] = 0 /\ now > until[q][j]
<1>1. PICK i \in 0 .. NumKeys[p] - 1 :
        /\ UsableProbe(p, t, i)
        /\ k = Slot(p, i)
        /\ until' = [until EXCEPT ![p][k] = 0]
  BY DEF NextKey
<1>2. q = p /\ j = k /\ until'[q][j] = 0
  BY <1>1 DEF KPTypeOK
<1>3. until[p][k] = 0 \/ t > until[p][k]
  BY <1>1 DEF UsableProbe, Usable
<1>4. until[p][k] \in Nat /\ t \in Nat /\ now \in Nat
  BY MaxTimeAssumption, TTLAssumption DEF KPTypeOK
<1> QED
  BY <1>2, <1>3, <1>4

\* A key a scan returns while it cools was the last resort: by the clock at
\* that moment no other key of the pool is usable.
LEMMA CoolingMeansExhausted ==
  ASSUME KPTypeOK, NEW p \in Pools, NEW k \in Keys(p), NEW t \in 0 .. now,
         NextKey(p, t, k)
  PROVE  Usable(p, k, now) \/ NoneAvailable(p, now)
<1>0. \A j \in Keys(p) : until[p][j] \in Nat
  BY MaxTimeAssumption, TTLAssumption DEF KPTypeOK
<1>t. t \in Nat /\ now \in Nat /\ t <= now
  BY MaxTimeAssumption DEF KPTypeOK
<1>1. ASSUME NEW i \in 0 .. NumKeys[p] - 1, UsableProbe(p, t, i), k = Slot(p, i)
      PROVE  Usable(p, k, now)
  <2>1. until[p][k] = 0 \/ t > until[p][k]
    BY <1>1 DEF UsableProbe, Usable
  <2> QED
    BY <2>1, <1>0, <1>t DEF Usable
<1>2. ASSUME EarliestRecover(p, k), ~ Usable(p, k, now)
      PROVE  NoneAvailable(p, now)
  <2> SUFFICES ASSUME NEW j \in Keys(p), Usable(p, j, now) PROVE FALSE
    BY DEF NoneAvailable
  <2>1. until[p][k] <= until[p][j] /\ until[p][k] # 0 /\ ~ (now > until[p][k])
    BY <1>2 DEF EarliestRecover, Usable
  <2>2. until[p][j] = 0 \/ now > until[p][j]
    BY DEF Usable
  <2> QED
    BY <2>1, <2>2, <1>0, <1>t
<1> QED
  BY <1>1, <1>2 DEF NextKey

\* A cooldown ends early for no key: a pool only ever clears one that has
\* passed, or moves it to InvalidTTL from now.
THEOREM PoolCooldownServed == KPSpec => CooldownServed
<1> DEFINE Served == \A p \in Pools : \A k \in Keys(p) :
             until'[p][k] # until[p][k] =>
               \/ until'[p][k] = now + InvalidTTL
               \/ until'[p][k] = 0 /\ now > until[p][k]
<1>1. KPTypeOK /\ [KPNext]_kpVars => [Served]_kpVars
  <2> SUFFICES ASSUME KPTypeOK, KPNext,
                      NEW q \in Pools, NEW j \in Keys(q),
                      until'[q][j] # until[q][j]
               PROVE  \/ until'[q][j] = now + InvalidTTL
                      \/ until'[q][j] = 0 /\ now > until[q][j]
    OBVIOUS
  <2>1. ASSUME NEW p \in Pools, NEW k \in Keys(p), NEW t \in 0 .. now,
               NextKey(p, t, k)
        PROVE  until'[q][j] = 0 /\ now > until[q][j]
    BY <2>1, NextKeyServesCooldown
  <2>2. ASSUME NEW p \in Pools, NEW k \in Keys(p), MarkInvalid(p, k)
        PROVE  until'[q][j] = now + InvalidTTL
    BY <2>2 DEF MarkInvalid, KPTypeOK
  <2>3. ~ Tick
    BY DEF Tick, poolVars
  <2> QED
    BY <2>1, <2>2, <2>3 DEF KPNext
<1> QED
  BY <1>1, PoolTypeCorrect, PTL DEF KPSpec, CooldownServed

-----------------------------------------------------------------------------
(* The search                                                              *)

\* The rotation stays inside the list of providers.
LEMMA AtProvider ==
  ASSUME NEW s \in Providers, NEW i \in 0 .. NumProviders
  PROVE  At(s, i) \in Providers
BY ProvidersAssumption DEF At, Providers

LEMMA CurrentProvider ==
  ASSUME TypeOK, NEW r \in Requests
  PROVE  Current(r) \in Providers
BY AtProvider DEF TypeOK, Shapes, Current

LEMMA KPFrame == KPTypeOK /\ UNCHANGED kpVars => KPTypeOK'
BY DEF KPTypeOK, kpVars

\* The local facts of a goroutine that does not move.
LEMMA LocalFrame ==
  ASSUME NEW q, LocalOK(q), pc'[q] = pc[q], start'[q] = start[q], off'[q] = off[q],
         key'[q] = key[q], mark'[q] = mark[q]
  PROVE  LocalOK(q)'
BY DEF LocalOK, InCall, Current, At, Keys

LEMMA SearchInitType == Init => TypeOK
BY InitType, ProvidersAssumption, MaxTimeAssumption
   DEF Init, TypeOK, Shapes, Labels, LocalOK, Providers, NoWeigh, NoKey, InCall, KPInit

LEMMA BeginType ==
  ASSUME TypeOK, NEW r \in Requests, Begin(r)
  PROVE  TypeOK'
<1>0. KPTypeOK /\ Shapes /\ \A q \in Requests : LocalOK(q)
  BY DEF TypeOK
<1>1. KPTypeOK'
  BY <1>0, KPFrame DEF Begin
<1>2. Shapes'
  <2>1. long' \in [Requests -> BOOLEAN]
    BY <1>0, ProvidersAssumption, Zenon DEF Shapes, Begin
  <2>2. rr' \in Providers
    BY <1>0, ProvidersAssumption DEF Shapes, Begin, StartAt, StartRoundRobin, Providers
  <2>3. start' \in [Requests -> Providers]
    BY <1>0, ProvidersAssumption DEF Shapes, Begin, StartAt, StartRoundRobin, Providers
  <2>4. pc' \in [Requests -> Labels]
    BY <1>0 DEF Shapes, Begin, StartAt, StartRoundRobin, Goto, Labels
  <2> QED
    BY <1>0, <2>1, <2>2, <2>3, <2>4 DEF Shapes, Begin, kpVars
<1>3. ASSUME NEW q \in Requests, q # r PROVE LocalOK(q)'
  BY <1>0, <1>3, LocalFrame DEF Shapes, Begin, Goto, StartAt, StartRoundRobin
<1>4. LocalOK(r)'
  BY <1>0, ProvidersAssumption DEF Shapes, Begin, Goto, LocalOK, InCall, Current, At, NoKey, Providers, Keys, StartAt, StartRoundRobin
<1> QED
  BY <1>1, <1>2, <1>3, <1>4 DEF TypeOK

LEMMA WeighType ==
  ASSUME TypeOK, NEW r \in Requests, Weigh(r)
  PROVE  TypeOK'
<1>0. KPTypeOK /\ Shapes /\ \A q \in Requests : LocalOK(q)
  BY DEF TypeOK
<1>1. KPTypeOK'
  BY <1>0, KPFrame DEF Weigh
<1>2. Shapes'
  BY <1>0, ProvidersAssumption, MaxTimeAssumption, NumKeysAssumption
     DEF Shapes, Weigh, Goto, LocalOK, Labels, Providers, NoKey, kpVars
<1>3. ASSUME NEW q \in Requests, q # r PROVE LocalOK(q)'
  BY <1>0, <1>3, LocalFrame DEF Shapes, Weigh, Goto
<1>4. LocalOK(r)'
  BY <1>0, ProvidersAssumption DEF Shapes, Weigh, Goto, LocalOK, InCall, Current, At, NoKey, Providers, Keys
<1> QED
  BY <1>1, <1>2, <1>3, <1>4 DEF TypeOK

LEMMA WeighDoneType ==
  ASSUME TypeOK, NEW r \in Requests, WeighDone(r)
  PROVE  TypeOK'
<1>0. KPTypeOK /\ Shapes /\ \A q \in Requests : LocalOK(q)
  BY DEF TypeOK
<1>1. KPTypeOK'
  BY <1>0, KPFrame DEF WeighDone
<1>2. Shapes'
  <2>1. weigh[r].cand \subseteq Providers
    BY <1>0 DEF Shapes
  <2>2. rr' \in Providers
    BY <1>0, ProvidersAssumption DEF Shapes, WeighDone, StartAt, StartRoundRobin, Providers
  <2>3. start' \in [Requests -> Providers]
    BY <1>0, <2>1 DEF Shapes, WeighDone, StartAt, StartRoundRobin
  <2>4. pc' \in [Requests -> Labels]
    BY <1>0 DEF Shapes, WeighDone, StartAt, StartRoundRobin, Goto, Labels
  <2>5. weigh' \in [Requests -> [next : 0 .. NumProviders, cand : SUBSET Providers]]
    BY <1>0, ProvidersAssumption DEF Shapes, WeighDone, NoWeigh
  <2> QED
    BY <1>0, <2>2, <2>3, <2>4, <2>5 DEF Shapes, WeighDone, kpVars
<1>3. ASSUME NEW q \in Requests, q # r PROVE LocalOK(q)'
  BY <1>0, <1>3, LocalFrame DEF Shapes, WeighDone, Goto, StartAt, StartRoundRobin
<1>4. LocalOK(r)'
  BY <1>0, ProvidersAssumption DEF Shapes, WeighDone, Goto, LocalOK, InCall, Current, At, NoKey, Providers, Keys, StartAt, StartRoundRobin
<1> QED
  BY <1>1, <1>2, <1>3, <1>4 DEF TypeOK

LEMMA EnterType ==
  ASSUME TypeOK, NEW r \in Requests, Enter(r)
  PROVE  TypeOK'
<1>0. KPTypeOK /\ Shapes /\ \A q \in Requests : LocalOK(q)
  BY DEF TypeOK
<1>1. KPTypeOK'
  BY <1>0, KPFrame DEF Enter
<1>2. Shapes'
  <2>1. calls' \in [Requests -> Nat]
    BY <1>0 DEF Shapes, Enter, CountCall
  <2>2. pc' \in [Requests -> Labels]
    BY <1>0 DEF Shapes, Enter, Goto, Labels
  <2>3. clk' \in [Requests -> Nat] /\ \A q \in Requests : clk'[q] <= now'
    <3>1. now \in Nat /\ now' = now
      BY <1>0, MaxTimeAssumption DEF KPTypeOK, Enter, kpVars
    <3>2. clk' = clk \/ clk' = [clk EXCEPT ![r] = now]
      BY DEF Enter
    <3>3. clk \in [Requests -> Nat] /\ \A q \in Requests : clk[q] <= now
      BY <1>0 DEF Shapes
    <3> QED
      BY <3>1, <3>2, <3>3
  <2> QED
    BY <1>0, <2>1, <2>2, <2>3 DEF Shapes, Enter, kpVars
<1>3. ASSUME NEW q \in Requests, q # r PROVE LocalOK(q)'
  BY <1>0, <1>3, LocalFrame DEF Shapes, Enter, Goto
<1>4. LocalOK(r)'
  BY <1>0, ProvidersAssumption DEF Shapes, Enter, Goto, LocalOK, InCall, Current, At, NoKey, Providers, Keys
<1> QED
  BY <1>1, <1>2, <1>3, <1>4 DEF TypeOK

LEMMA TakeKeyType ==
  ASSUME TypeOK, NEW r \in Requests, TakeKey(r)
  PROVE  TypeOK'
<1>0. KPTypeOK /\ Shapes /\ \A q \in Requests : LocalOK(q)
  BY DEF TypeOK
<1>1. KPTypeOK'
  BY <1>0, NextKeyType DEF TakeKey, LocalOK
<1>2. Shapes'
  <2>1. key' \in [Requests -> Int]
    BY <1>0 DEF Shapes, TakeKey, Keys
  <2>2. pc' \in [Requests -> Labels]
    BY <1>0 DEF Shapes, TakeKey, Goto, Labels
  <2>3. clk' \in [Requests -> Nat] /\ \A q \in Requests : clk'[q] <= now'
    BY <1>0, MaxTimeAssumption DEF Shapes, KPTypeOK, TakeKey
  <2> QED
    BY <1>0, <2>1, <2>2, <2>3 DEF Shapes, TakeKey
<1>3. ASSUME NEW q \in Requests, q # r PROVE LocalOK(q)'
  BY <1>0, <1>3, LocalFrame DEF Shapes, TakeKey, Goto
<1>4. LocalOK(r)'
  BY <1>0, ProvidersAssumption DEF Shapes, TakeKey, Goto, LocalOK, InCall, Current, At, NoKey, Providers, Keys
<1> QED
  BY <1>1, <1>2, <1>3, <1>4 DEF TypeOK

LEMMA SucceedType ==
  ASSUME TypeOK, NEW r \in Requests, Succeed(r)
  PROVE  TypeOK'
<1>0. KPTypeOK /\ Shapes /\ \A q \in Requests : LocalOK(q)
  BY DEF TypeOK
<1>1. KPTypeOK'
  BY <1>0, KPFrame DEF Succeed
<1>2. Shapes'
  BY <1>0, ProvidersAssumption, MaxTimeAssumption, NumKeysAssumption
     DEF Shapes, Succeed, Goto, LocalOK, Labels, Providers, NoKey, kpVars
<1>3. ASSUME NEW q \in Requests, q # r PROVE LocalOK(q)'
  BY <1>0, <1>3, LocalFrame DEF Shapes, Succeed, Goto
<1>4. LocalOK(r)'
  BY <1>0, ProvidersAssumption DEF Shapes, Succeed, Goto, LocalOK, InCall, Current, At, NoKey, Providers, Keys
<1> QED
  BY <1>1, <1>2, <1>3, <1>4 DEF TypeOK

LEMMA FreeEngineFailsType ==
  ASSUME TypeOK, NEW r \in Requests, FreeEngineFails(r)
  PROVE  TypeOK'
<1>0. KPTypeOK /\ Shapes /\ \A q \in Requests : LocalOK(q)
  BY DEF TypeOK
<1>1. KPTypeOK'
  BY <1>0, KPFrame DEF FreeEngineFails
<1>2. Shapes'
  BY <1>0, ProvidersAssumption, MaxTimeAssumption, NumKeysAssumption
     DEF Shapes, FreeEngineFails, Goto, LocalOK, Labels, Providers, NoKey, kpVars, NextProvider
<1>3. ASSUME NEW q \in Requests, q # r PROVE LocalOK(q)'
  BY <1>0, <1>3, LocalFrame DEF Shapes, FreeEngineFails, Goto, NextProvider
<1>4. LocalOK(r)'
  BY <1>0, ProvidersAssumption DEF Shapes, FreeEngineFails, Goto, LocalOK, InCall, Current, At, NoKey, Providers, Keys, NextProvider
<1> QED
  BY <1>1, <1>2, <1>3, <1>4 DEF TypeOK

LEMMA KeyFailsType ==
  ASSUME TypeOK, NEW r \in Requests, KeyFails(r)
  PROVE  TypeOK'
<1>0. KPTypeOK /\ Shapes /\ \A q \in Requests : LocalOK(q)
  BY DEF TypeOK
<1>1. KPTypeOK'
  BY <1>0, KPFrame DEF KeyFails
<1>2. Shapes'
  BY <1>0, ProvidersAssumption, MaxTimeAssumption, NumKeysAssumption
     DEF Shapes, KeyFails, Goto, LocalOK, Labels, Providers, NoKey, kpVars, Blame, InCall
<1>3. ASSUME NEW q \in Requests, q # r PROVE LocalOK(q)'
  BY <1>0, <1>3, LocalFrame DEF Shapes, KeyFails, Goto, Blame
<1>4. LocalOK(r)'
  BY <1>0, ProvidersAssumption DEF Shapes, KeyFails, Goto, LocalOK, InCall, Current, At, NoKey, Providers, Keys, Blame
<1> QED
  BY <1>1, <1>2, <1>3, <1>4 DEF TypeOK

LEMMA SoftFailsType ==
  ASSUME TypeOK, NEW r \in Requests, SoftFails(r)
  PROVE  TypeOK'
<1>0. KPTypeOK /\ Shapes /\ \A q \in Requests : LocalOK(q)
  BY DEF TypeOK
<1>1. KPTypeOK'
  BY <1>0, KPFrame DEF SoftFails
<1>2. Shapes'
  BY <1>0, ProvidersAssumption, MaxTimeAssumption, NumKeysAssumption
     DEF Shapes, SoftFails, Goto, LocalOK, Labels, Providers, NoKey, kpVars, Blame, InCall
<1>3. ASSUME NEW q \in Requests, q # r PROVE LocalOK(q)'
  BY <1>0, <1>3, LocalFrame DEF Shapes, SoftFails, Goto, Blame
<1>4. LocalOK(r)'
  BY <1>0, ProvidersAssumption DEF Shapes, SoftFails, Goto, LocalOK, InCall, Current, At, NoKey, Providers, Keys, Blame
<1> QED
  BY <1>1, <1>2, <1>3, <1>4 DEF TypeOK

LEMMA LoadLastType ==
  ASSUME TypeOK, NEW r \in Requests, LoadLast(r)
  PROVE  TypeOK'
<1>0. KPTypeOK /\ Shapes /\ \A q \in Requests : LocalOK(q)
  BY DEF TypeOK
<1>1. KPTypeOK'
  BY <1>0, KPFrame DEF LoadLast
<1>2. Shapes'
  <2>1. lastKey[Current(r)] \in Int
    BY <1>0 DEF KPTypeOK, LocalOK, LoadLast, Keys, NoKey
  <2>2. mark' \in [Requests -> Int] /\ pc' \in [Requests -> Labels]
    BY <1>0, <2>1 DEF Shapes, LoadLast, Goto, Labels
  <2> QED
    BY <1>0, <2>2 DEF Shapes, LoadLast, kpVars
<1>3. ASSUME NEW q \in Requests, q # r PROVE LocalOK(q)'
  BY <1>0, <1>3, LocalFrame DEF Shapes, LoadLast, Goto, KPTypeOK
<1>4. LocalOK(r)'
  BY <1>0, ProvidersAssumption DEF Shapes, LoadLast, Goto, LocalOK, InCall, Current, At, NoKey, Providers, Keys, KPTypeOK
<1> QED
  BY <1>1, <1>2, <1>3, <1>4 DEF TypeOK

LEMMA MarkType ==
  ASSUME TypeOK, NEW r \in Requests, Mark(r)
  PROVE  TypeOK'
<1>0. KPTypeOK /\ Shapes /\ \A q \in Requests : LocalOK(q)
  BY DEF TypeOK
<1>1. KPTypeOK'
  BY <1>0, MarkInvalidType DEF LocalOK, Mark
<1>2. Shapes'
  BY <1>0, ProvidersAssumption, MaxTimeAssumption, NumKeysAssumption
     DEF Shapes, Mark, Goto, LocalOK, Labels, Providers, NoKey, kpVars
<1>3. ASSUME NEW q \in Requests, q # r PROVE LocalOK(q)'
  BY <1>0, <1>3, LocalFrame DEF Shapes, Mark, Goto
<1>4. LocalOK(r)'
  BY <1>0, ProvidersAssumption DEF Shapes, Mark, Goto, LocalOK, InCall, Current, At, NoKey, Providers, Keys
<1> QED
  BY <1>1, <1>2, <1>3, <1>4 DEF TypeOK

LEMMA RetryType ==
  ASSUME TypeOK, NEW r \in Requests, Retry(r)
  PROVE  TypeOK'
<1>0. KPTypeOK /\ Shapes /\ \A q \in Requests : LocalOK(q)
  BY DEF TypeOK
<1>1. KPTypeOK'
  BY <1>0, KPFrame DEF Retry
<1>2. Shapes'
  BY <1>0, ProvidersAssumption, MaxTimeAssumption, NumKeysAssumption
     DEF Shapes, Retry, Goto, LocalOK, Labels, Providers, NoKey, kpVars
<1>3. ASSUME NEW q \in Requests, q # r PROVE LocalOK(q)'
  BY <1>0, <1>3, LocalFrame DEF Shapes, Retry, Goto
<1>4. LocalOK(r)'
  BY <1>0, ProvidersAssumption DEF Shapes, Retry, Goto, LocalOK, InCall, Current, At, NoKey, Providers, Keys
<1> QED
  BY <1>1, <1>2, <1>3, <1>4 DEF TypeOK

LEMMA ExhaustedType ==
  ASSUME TypeOK, NEW r \in Requests, Exhausted(r)
  PROVE  TypeOK'
<1>0. KPTypeOK /\ Shapes /\ \A q \in Requests : LocalOK(q)
  BY DEF TypeOK
<1>1. KPTypeOK'
  BY <1>0, KPFrame DEF Exhausted
<1>2. Shapes'
  BY <1>0, ProvidersAssumption, MaxTimeAssumption, NumKeysAssumption
     DEF Shapes, Exhausted, Goto, LocalOK, Labels, Providers, NoKey, kpVars, NextProvider
<1>3. ASSUME NEW q \in Requests, q # r PROVE LocalOK(q)'
  BY <1>0, <1>3, LocalFrame DEF Shapes, Exhausted, Goto, NextProvider
<1>4. LocalOK(r)'
  BY <1>0, ProvidersAssumption DEF Shapes, Exhausted, Goto, LocalOK, InCall, Current, At, NoKey, Providers, Keys, NextProvider
<1> QED
  BY <1>1, <1>2, <1>3, <1>4 DEF TypeOK

LEMMA ReturnType ==
  ASSUME TypeOK, NEW r \in Requests, Return(r)
  PROVE  TypeOK'
<1>0. KPTypeOK /\ Shapes /\ \A q \in Requests : LocalOK(q)
  BY DEF TypeOK
<1>1. KPTypeOK'
  BY <1>0, KPFrame DEF Return
<1>2. Shapes'
  BY <1>0, ProvidersAssumption, MaxTimeAssumption, NumKeysAssumption
     DEF Shapes, Return, Goto, LocalOK, Labels, Providers, NoKey, kpVars
<1>3. ASSUME NEW q \in Requests, q # r PROVE LocalOK(q)'
  BY <1>0, <1>3, LocalFrame DEF Shapes, Return, Goto
<1>4. LocalOK(r)'
  BY <1>0, ProvidersAssumption DEF Shapes, Return, Goto, LocalOK, InCall, Current, At, NoKey, Providers, Keys
<1> QED
  BY <1>1, <1>2, <1>3, <1>4 DEF TypeOK

LEMMA SearchNextType == TypeOK /\ [Next]_vars => TypeOK'
<1> SUFFICES ASSUME TypeOK, [Next]_vars PROVE TypeOK'
  OBVIOUS
<1>1. CASE Pass
  <2>1. KPTypeOK'
    BY <1>1, TickType DEF TypeOK, Pass
  <2>2. now <= now' /\ now \in Nat /\ now' \in Nat
    BY <1>1, MaxTimeAssumption DEF TypeOK, KPTypeOK, Pass, Tick
  <2>3. Shapes'
    BY <1>1, <2>2 DEF TypeOK, Shapes, Pass, searchVars
  <2>4. \A q \in Requests : LocalOK(q)'
    BY <1>1, LocalFrame DEF TypeOK, Pass, searchVars
  <2> QED
    BY <2>1, <2>3, <2>4 DEF TypeOK
<1>2. ASSUME NEW r \in Requests, Begin(r) \/ Step(r) PROVE TypeOK'
  BY <1>2, BeginType, WeighType, WeighDoneType, EnterType, TakeKeyType, SucceedType, FreeEngineFailsType,
     KeyFailsType, SoftFailsType, LoadLastType, MarkType, RetryType, ExhaustedType, ReturnType
     DEF Step
<1>3. CASE UNCHANGED vars
  <2>1. KPTypeOK'
    BY <1>3, KPFrame DEF TypeOK, vars
  <2>2. Shapes'
    BY <1>3 DEF TypeOK, Shapes, vars, searchVars, kpVars
  <2>3. \A q \in Requests : LocalOK(q)'
    BY <1>3, LocalFrame DEF TypeOK, vars, searchVars
  <2> QED
    BY <2>1, <2>2, <2>3 DEF TypeOK
<1> QED
  BY <1>1, <1>2, <1>3 DEF Next

\* Type correctness of the key-pool search: in particular every key in use or
\* about to be marked is a key of the provider the search is at, and the loop
\* over the providers stays inside the list.
THEOREM TypeCorrect == Spec => []TypeOK
<1>1. Init => TypeOK
  BY SearchInitType
<1>2. TypeOK /\ [Next]_vars => TypeOK'
  BY SearchNextType
<1> QED
  BY <1>1, <1>2, PTL DEF Spec

-----------------------------------------------------------------------------
(* The search uses its pools as KeyPool allows.                            *)

LEMMA UsesPool == TypeOK /\ [Next]_vars => [KPNext]_kpVars
<1> SUFFICES ASSUME TypeOK, [Next]_vars PROVE [KPNext]_kpVars
  OBVIOUS
<1>1. CASE Pass
  BY <1>1 DEF Pass, KPNext
<1>2. ASSUME NEW r \in Requests, TakeKey(r) PROVE KPNext
  <2>1. PICK k \in Keys(Current(r)) : NextKey(Current(r), clk[r], k)
    BY <1>2 DEF TakeKey
  <2>2. Current(r) \in Pools /\ clk[r] \in 0 .. now /\ now' = now
    BY <1>2, MaxTimeAssumption DEF TakeKey, TypeOK, KPTypeOK, Shapes, LocalOK
  <2> QED
    BY <2>1, <2>2 DEF KPNext
<1>3. ASSUME NEW r \in Requests, Mark(r) PROVE KPNext
  <2>1. Current(r) \in Pools /\ mark[r] \in Keys(Current(r))
    BY <1>3 DEF Mark, TypeOK, LocalOK
  <2> QED
    BY <1>3, <2>1 DEF Mark, KPNext
<1>4. ASSUME NEW r \in Requests,
             \/ Begin(r) \/ Weigh(r) \/ WeighDone(r) \/ Enter(r) \/ Succeed(r)
             \/ FreeEngineFails(r) \/ KeyFails(r) \/ SoftFails(r) \/ LoadLast(r)
             \/ Retry(r) \/ Exhausted(r) \/ Return(r)
      PROVE  UNCHANGED kpVars
  BY <1>4 DEF Begin, Weigh, WeighDone, Enter, Succeed, FreeEngineFails, KeyFails,
              SoftFails, LoadLast, Retry, Exhausted, Return
<1>5. CASE UNCHANGED vars
  BY <1>5 DEF vars
<1> QED
  BY <1>1, <1>2, <1>3, <1>4, <1>5 DEF Next, Step

\* Every behaviour of the search is, seen from the pools, one of KeyPool's:
\* whatever the searches do, a pool changes by scans with a clock reading that
\* is not in the future and by marks.
THEOREM SearchUsesPool == Spec => KPSpec
<1>1. Init => KPInit
  BY DEF Init
<1> QED
  BY <1>1, TypeCorrect, UsesPool, PTL DEF Spec, KPSpec

\* A cooldown is served in full under any interleaving of searches.
THEOREM CooldownServedBySearches == Spec => CooldownServed
BY SearchUsesPool, PoolCooldownServed, PTL

-----------------------------------------------------------------------------
\* A goroutine only moves by a step of its own.
LEMMA OnlyOwnSteps ==
  ASSUME TypeOK, NEW r \in Requests, NEW q \in Requests, q # r, Begin(q) \/ Step(q)
  PROVE  pc'[r] = pc[r]
BY DEF TypeOK, Shapes, Step, Begin, Weigh, WeighDone, Enter, TakeKey, Succeed,
       FreeEngineFails, KeyFails, SoftFails, LoadLast, Mark, Retry, Exhausted,
       Return, Goto, StartAt, StartRoundRobin, NextProvider

\* A search is handed a cooling key only when all keys of the pool cool.
THEOREM LastResort == Spec => CoolingKeyOnlyAsLastResort
<1> DEFINE Resort(r) ==
      pc[r] = "next" /\ pc'[r] = "call" =>
         LET p == Current(r) IN
         Usable(p, key'[r], now) \/ NoneAvailable(p, now)
<1>1. TypeOK /\ [Next]_vars => [\A r \in Requests : Resort(r)]_vars
  <2> SUFFICES ASSUME TypeOK, Next, NEW r \in Requests,
                      pc[r] = "next", pc'[r] = "call"
               PROVE  \/ Usable(Current(r), key'[r], now)
                      \/ NoneAvailable(Current(r), now)
    OBVIOUS
  <2>1. ~ Pass
    BY DEF Pass, searchVars
  <2>2. Begin(r) \/ Step(r)
    BY <2>1, OnlyOwnSteps DEF Next
  <2>3. TakeKey(r)
    BY <2>2 DEF Step, Begin, Weigh, WeighDone, Enter, Succeed, FreeEngineFails,
               KeyFails, SoftFails, LoadLast, Mark, Retry, Exhausted, Return
  <2>4. PICK k \in Keys(Current(r)) : /\ NextKey(Current(r), clk[r], k)
                                     /\ key' = [key EXCEPT ![r] = k]
    BY <2>3 DEF TakeKey
  <2>5. key'[r] = k
    BY <2>4 DEF TypeOK, Shapes
  <2>6. Current(r) \in Pools /\ clk[r] \in 0 .. now
    BY MaxTimeAssumption DEF TypeOK, KPTypeOK, Shapes, LocalOK
  <2> QED
    BY <2>4, <2>5, <2>6, CoolingMeansExhausted DEF TypeOK
<1> QED
  BY <1>1, TypeCorrect, PTL DEF Spec, CoolingKeyOnlyAsLastResort

-----------------------------------------------------------------------------
(* Failures that name their key cool no other key.                         *)

\* The strengthening: a key about to be marked is one a call with which has
\* failed, and no goroutine falls back on the pool's last key.
BlameInv ==
  /\ OnlyFailedKeysCool
  /\ \A r \in Requests :
       /\ pc[r] = "mark" => <<Current(r), mark[r]>> \in blamed
       /\ pc[r] # "load"
       /\ ~ long[r]

LEMMA BlameStep ==
  ASSUME TypeOK, BlameInv, ~ SoftErrors, ~ LongQueries, [Next]_vars
  PROVE  BlameInv'
<1> DEFINE Innocent(r) == /\ pc[r] = "mark" => <<Current(r), mark[r]>> \in blamed
                          /\ pc[r] # "load"
                          /\ ~ long[r]
<1>0. blamed \subseteq blamed'
  BY DEF Next, Step, Pass, Begin, Weigh, WeighDone, Enter, TakeKey, Succeed,
         FreeEngineFails, KeyFails, SoftFails, LoadLast, Mark, Retry, Exhausted,
         Return, Blame, vars
<1>1. ASSUME NEW p \in Pools, NEW k \in Keys(p), until'[p][k] # 0
      PROVE  <<p, k>> \in blamed'
  <2>1. CASE until[p][k] # 0
    BY <1>0, <2>1 DEF BlameInv, OnlyFailedKeysCool
  <2>2. CASE until[p][k] = 0
    <3>1. \A q \in Requests : ~ TakeKey(q)
      <4> SUFFICES ASSUME NEW q \in Requests, TakeKey(q) PROVE FALSE
        OBVIOUS
      <4>1. PICK j \in Keys(Current(q)) : NextKey(Current(q), clk[q], j)
        BY DEF TakeKey
      <4>2. Current(q) \in Pools /\ clk[q] \in 0 .. now
        BY MaxTimeAssumption DEF TakeKey, TypeOK, KPTypeOK, Shapes, LocalOK
      <4> QED
        BY <1>1, <2>2, <4>1, <4>2, NextKeyServesCooldown DEF TypeOK
    <3>2. PICK r \in Requests : Mark(r)
      BY <1>1, <2>2, <3>1
         DEF Next, Step, Pass, Tick, poolVars, kpVars, Begin, Weigh, WeighDone, Enter,
             Succeed, FreeEngineFails, KeyFails, SoftFails, LoadLast, Retry,
             Exhausted, Return, vars
    <3>3. p = Current(r) /\ k = mark[r]
      BY <1>1, <2>2, <3>2 DEF Mark, MarkInvalid, TypeOK, KPTypeOK
    <3> QED
      BY <1>0, <3>2, <3>3 DEF Mark, BlameInv
  <2> QED
    BY <2>1, <2>2
<1>2. ASSUME NEW r \in Requests PROVE Innocent(r)'
  <2>1. CASE Pass \/ UNCHANGED vars
    BY <1>0, <2>1 DEF BlameInv, Pass, vars, searchVars, Current, At
  <2>2. ASSUME NEW q \in Requests, q # r, Begin(q) \/ Step(q)
        PROVE  Innocent(r)'
    <3>1. pc'[r] = pc[r] /\ long'[r] = long[r]
      BY <2>2, OnlyOwnSteps
         DEF TypeOK, Shapes, Step, Begin, Weigh, WeighDone, Enter, TakeKey, Succeed,
             FreeEngineFails, KeyFails, SoftFails, LoadLast, Mark, Retry, Exhausted, Return
    <3>2. start'[r] = start[r] /\ off'[r] = off[r] /\ mark'[r] = mark[r]
      BY <2>2
         DEF TypeOK, Shapes, Step, Begin, Weigh, WeighDone, Enter, TakeKey, Succeed,
             FreeEngineFails, KeyFails, SoftFails, LoadLast, Mark, Retry, Exhausted,
             Return, StartAt, StartRoundRobin, NextProvider
    <3> QED
      BY <1>0, <3>1, <3>2 DEF BlameInv, Current, At
  <2>3. CASE KeyFails(r)
    BY <2>3 DEF KeyFails, Blame, Goto, BlameInv, Current, At, TypeOK, Shapes
  <2>4. CASE Begin(r)
    <3>1. PICK q \in {FALSE, LongQueries} : long' = [long EXCEPT ![r] = q]
      BY <2>4 DEF Begin
    <3>2. LongQueries = FALSE
      BY ProvidersAssumption
    <3>3. q = FALSE
      BY <3>2
    <3>4. ~ long'[r]
      BY <3>1, <3>3 DEF TypeOK, Shapes
    <3>5. pc'[r] \in {"enter", "weigh"}
      BY <2>4 DEF Begin, StartAt, StartRoundRobin, Goto, TypeOK, Shapes
    <3> QED
      BY <3>4, <3>5
  <2>5. CASE Step(r) /\ ~ KeyFails(r)
    BY <2>5 DEF Step, Weigh, WeighDone, Enter, TakeKey, Succeed, FreeEngineFails,
                SoftFails, LoadLast, Mark, Retry, Exhausted, Return, StartAt,
                StartRoundRobin, NextProvider, Goto, BlameInv, TypeOK, Shapes
  <2> QED
    BY <2>1, <2>2, <2>3, <2>4, <2>5 DEF Next
<1> QED
  BY <1>1, <1>2 DEF BlameInv, OnlyFailedKeysCool

\* When every failure is a KeyError and no query is rejected before a key is
\* taken, a key with which no call ever failed never cools, for any number of
\* concurrent searches.
THEOREM KeyErrorsCoolOwnKey ==
  ASSUME ~ SoftErrors, ~ LongQueries
  PROVE  Spec => []OnlyFailedKeysCool
<1>1. Init => BlameInv
  BY DEF Init, KPInit, BlameInv, OnlyFailedKeysCool
<1>2. TypeOK /\ BlameInv /\ [Next]_vars => BlameInv'
  BY BlameStep
<1>3. BlameInv => OnlyFailedKeysCool
  BY DEF BlameInv
<1> QED
  BY <1>1, <1>2, <1>3, TypeCorrect, PTL DEF Spec

-----------------------------------------------------------------------------
(* A provider is called once per key.                                      *)

\* The keys of a pool that cool.
Cooling(p) == {k \in Keys(p) : until[p][k] # 0}

\* No cooldown is over before the cooldown of a key marked at the start is.
CoolInv == \A p \in Pools : \A k \in Keys(p) : until[p][k] # 0 => until[p][k] >= InvalidTTL

\* Every call of the retry loop but the one in progress has left a key of its
\* own that cools: the key of the call in progress, or the one that is charged
\* for it, is not among those, or they all cool.
CallInv(r) ==
  LET p == Current(r)
      cools == Cooling(p)
  IN  /\ pc[r] \in {"idle", "weigh"} => calls[r] = 0
      /\ p \in Pools /\ ~ long[r] =>
           /\ calls[r] <= NumKeys[p]
           /\ pc[r] = "enter" => calls[r] < NumKeys[p] /\ calls[r] <= Cardinality(cools)
           /\ pc[r] = "next" => calls[r] <= Cardinality(cools) + 1
           /\ pc[r] = "call" => calls[r] <= Cardinality(cools \cup {key[r]})
           /\ pc[r] \in {"call", "load"} => /\ lastKey[p] \in Keys(p)
                                            /\ calls[r] <= Cardinality(cools \cup {lastKey[p]})
           /\ pc[r] = "mark" => calls[r] <= Cardinality(cools \cup {mark[r]})
           /\ pc[r] = "check" => calls[r] <= Cardinality(cools)

BoundInv == CoolInv /\ \A r \in Requests : CallInv(r)

\* A pool has as many keys as it has slots.
LEMMA KeysCount ==
  ASSUME NEW p \in Pools
  PROVE  IsFiniteSet(Keys(p)) /\ Cardinality(Keys(p)) = NumKeys[p] /\ NumKeys[p] \in Nat \ {0}
<1>1. NumKeys[p] \in Nat \ {0}
  BY NumKeysAssumption
<1>2. IsFiniteSet(0 .. NumKeys[p] - 1) /\ Cardinality(0 .. NumKeys[p] - 1) = NumKeys[p]
  <2>1. 0 \in Int /\ NumKeys[p] - 1 \in Int /\ ~ (0 > NumKeys[p] - 1)
    BY <1>1
  <2>2. /\ IsFiniteSet(0 .. NumKeys[p] - 1)
        /\ Cardinality(0 .. NumKeys[p] - 1) = (NumKeys[p] - 1) - 0 + 1
    BY <2>1, FS_Interval
  <2> QED
    BY <1>1, <2>2
<1> QED
  BY <1>1, <1>2 DEF Keys

\* How sets of keys count.
LEMMA KeySetsCount ==
  ASSUME NEW p \in Pools, NEW D \in SUBSET Keys(p), NEW C \in SUBSET D
  PROVE  /\ Cardinality(C) \in Nat /\ Cardinality(D) \in Nat
         /\ Cardinality(C) <= Cardinality(D) /\ Cardinality(D) <= NumKeys[p]
         /\ C # D => Cardinality(C) < Cardinality(D)
<1>1. IsFiniteSet(D) /\ Cardinality(D) <= Cardinality(Keys(p))
  BY KeysCount, FS_Subset
<1>2. IsFiniteSet(C) /\ Cardinality(C) <= Cardinality(D) /\ (Cardinality(C) = Cardinality(D) => C = D)
  BY <1>1, FS_Subset
<1>3. Cardinality(C) \in Nat /\ Cardinality(D) \in Nat
  BY <1>1, <1>2, FS_CardinalityType
<1> QED
  BY <1>1, <1>2, <1>3, KeysCount

\* One key more counts at most one, and a key that is new exactly one.
LEMMA OneKeyMore ==
  ASSUME NEW p \in Pools, NEW C \in SUBSET Keys(p), NEW k \in Keys(p)
  PROVE  /\ Cardinality(C \cup {k}) <= Cardinality(C) + 1
         /\ k \notin C => Cardinality(C \cup {k}) = Cardinality(C) + 1
<1>1. IsFiniteSet(C) /\ Cardinality(C) \in Nat
  BY KeysCount, FS_Subset, FS_CardinalityType
<1>2. CASE k \in C
  <2>1. C \cup {k} = C
    BY <1>2
  <2>2. Cardinality(C \cup {k}) = Cardinality(C)
    BY <2>1
  <2> QED
    BY <1>1, <1>2, <2>2
<1>3. CASE k \notin C
  <2>1. Cardinality(C \cup {k}) = Cardinality(C) + 1
    BY <1>1, <1>3, FS_AddElement
  <2> QED
    BY <1>1, <2>1
<1> QED
  BY <1>2, <1>3

\* What is known of a call outlives a scan that hands out another key, and
\* more keys that cool.
LEMMA CountGrows ==
  ASSUME NEW p \in Pools, NEW D \in SUBSET Keys(p), NEW C \in SUBSET D,
         NEW l \in Keys(p), NEW m \in Keys(p), m = l \/ m \notin C \/ C = Keys(p),
         NEW n \in Nat, n <= Cardinality(C \cup {l})
  PROVE  n <= Cardinality(D \cup {m})
<1>1. C \cup {m} \in SUBSET (D \cup {m}) /\ D \cup {m} \in SUBSET Keys(p) /\ C \in SUBSET Keys(p)
      /\ C \cup {l} \in SUBSET Keys(p)
  OBVIOUS
<1>2. Cardinality(C \cup {m}) <= Cardinality(D \cup {m})
      /\ Cardinality(C \cup {m}) \in Nat /\ Cardinality(D \cup {m}) \in Nat
  BY <1>1, KeySetsCount
<1>3. Cardinality(C) \in Nat /\ Cardinality(C \cup {l}) \in Nat
  BY <1>1, KeySetsCount
<1>4. Cardinality(C \cup {l}) <= Cardinality(C \cup {m})
  <2>1. CASE m = l
    BY <1>3, <2>1
  <2>2. CASE m \notin C
    BY <1>1, <1>3, <2>2, OneKeyMore
  <2>3. CASE C = Keys(p)
    <3>1. C \cup {l} = C \cup {m}
      BY <2>3
    <3> QED
      BY <1>3, <3>1
  <2> QED
    BY <2>1, <2>2, <2>3
<1> QED
  BY <1>2, <1>3, <1>4

\* While no cooldown ends, a scan clears none, and the key it hands out does
\* not cool unless they all do.
LEMMA ScanCools ==
  ASSUME KPTypeOK, CoolInv, MaxTime <= InvalidTTL,
         NEW p \in Pools, NEW k \in Keys(p), NEW t \in 0 .. now, NextKey(p, t, k)
  PROVE  /\ \A q \in Pools : \A j \in Keys(q) : until'[q][j] = until[q][j]
         /\ k \notin Cooling(p) \/ Cooling(p) = Keys(p)
         /\ \A q \in Pools : lastKey'[q] = IF q = p THEN k ELSE lastKey[q]
<1>0. /\ now \in Nat /\ now <= MaxTime /\ MaxTime \in Nat /\ InvalidTTL \in Nat \ {0}
      /\ \A q \in Pools : \A j \in Keys(q) : until[q][j] \in Nat
  BY MaxTimeAssumption, TTLAssumption DEF KPTypeOK
<1>1. ASSUME NEW q \in Pools, NEW j \in Keys(q), until'[q][j] # until[q][j] PROVE FALSE
  <2>1. until'[q][j] = 0 /\ now > until[q][j]
    BY <1>1, NextKeyServesCooldown
  <2> QED
    BY <1>0, <1>1, <2>1 DEF CoolInv
<1>2. k \notin Cooling(p) \/ Cooling(p) = Keys(p)
  <2>1. \A j \in Keys(p) : Usable(p, j, now) <=> until[p][j] = 0
    BY <1>0 DEF Usable, CoolInv
  <2>2. Usable(p, k, now) \/ NoneAvailable(p, now)
    BY CoolingMeansExhausted
  <2> QED
    BY <2>1, <2>2 DEF NoneAvailable, Cooling
<1>3. \A q \in Pools : lastKey'[q] = IF q = p THEN k ELSE lastKey[q]
  BY DEF NextKey, KPTypeOK
<1> QED
  BY <1>1, <1>2, <1>3

\* While no cooldown ends, keys only begin to cool, and a key newly handed
\* out does not cool unless they all do.
LEMMA PoolCools ==
  ASSUME KPTypeOK, CoolInv, MaxTime <= InvalidTTL, [KPNext]_kpVars
  PROVE  /\ CoolInv'
         /\ \A p \in Pools :
              /\ Cooling(p) \subseteq Cooling(p)' /\ Cooling(p)' \subseteq Keys(p)
              /\ \/ lastKey'[p] = lastKey[p]
                 \/ lastKey'[p] \in Keys(p) /\ (lastKey'[p] \notin Cooling(p) \/ Cooling(p) = Keys(p))
<1> DEFINE Kept == \A p \in Pools : \A k \in Keys(p) :
                     until'[p][k] = until[p][k] \/ (until'[p][k] # 0 /\ until'[p][k] >= InvalidTTL)
<1>0. /\ now \in Nat /\ now <= MaxTime /\ MaxTime \in Nat /\ InvalidTTL \in Nat \ {0}
      /\ \A p \in Pools : \A k \in Keys(p) : until[p][k] \in Nat
  BY MaxTimeAssumption, TTLAssumption DEF KPTypeOK
<1>1. ASSUME Kept PROVE CoolInv' /\ \A p \in Pools : Cooling(p) \subseteq Cooling(p)' /\ Cooling(p)' \subseteq Keys(p)
  BY <1>1 DEF CoolInv, Cooling
<1>2. CASE UNCHANGED <<until, lastKey>>
  <2>1. Kept
    BY <1>2
  <2> QED
    BY <1>1, <1>2, <2>1
<1>3. ASSUME NEW p \in Pools, NEW k \in Keys(p), NEW t \in 0 .. now, NextKey(p, t, k)
      PROVE  /\ Kept
             /\ \A q \in Pools : \/ lastKey'[q] = lastKey[q]
                                 \/ lastKey'[q] \in Keys(q) /\ (lastKey'[q] \notin Cooling(q) \/ Cooling(q) = Keys(q))
  BY <1>3, ScanCools
<1>4. ASSUME NEW p \in Pools, NEW k \in Keys(p), MarkInvalid(p, k)
      PROVE  Kept /\ lastKey' = lastKey
  <2>1. \A q \in Pools : \A j \in Keys(q) :
          until'[q][j] = IF q = p /\ j = k THEN now + InvalidTTL ELSE until[q][j]
    BY <1>4 DEF MarkInvalid, KPTypeOK
  <2> QED
    BY <1>0, <1>4, <2>1 DEF MarkInvalid
<1> HIDE DEF Kept
<1>5. CASE Tick
  BY <1>2, <1>5 DEF Tick, poolVars
<1> QED
  BY <1>1, <1>2, <1>3, <1>4, <1>5 DEF KPNext, kpVars

\* A step of another search, or of the clock, leaves what is known of a call.
LEMMA OthersKeepCall ==
  ASSUME TypeOK, CoolInv, MaxTime <= InvalidTTL, [KPNext]_kpVars,
         NEW r \in Requests, CallInv(r),
         pc'[r] = pc[r], start'[r] = start[r], off'[r] = off[r], long'[r] = long[r],
         calls'[r] = calls[r], key'[r] = key[r], mark'[r] = mark[r]
  PROVE  CallInv(r)'
<1>1. Current(r)' = Current(r)
  BY DEF Current, At
<1> PICK p : p = Current(r)
  OBVIOUS
<1>2. CASE p \notin Pools \/ long[r]
  BY <1>1, <1>2 DEF CallInv
<1>3. CASE p \in Pools /\ ~ long[r]
  <2> DEFINE C == Cooling(p)
             D == Cooling(p)'
  <2>1. C \in SUBSET D /\ D \in SUBSET Keys(p) /\ calls[r] \in Nat
        /\ \/ lastKey'[p] = lastKey[p]
           \/ lastKey'[p] \in Keys(p) /\ (lastKey'[p] \notin C \/ C = Keys(p))
    BY <1>3, PoolCools DEF TypeOK, Shapes
  <2>2. Cardinality(C) \in Nat /\ Cardinality(D) \in Nat /\ Cardinality(C) <= Cardinality(D)
    BY <1>3, <2>1, KeySetsCount
  <2>3. /\ pc[r] = "call" => key[r] \in Keys(p)
        /\ pc[r] = "mark" => mark[r] \in Keys(p)
    BY <1>3 DEF TypeOK, LocalOK, InCall
  <2> HIDE DEF C, D
  <2>4. /\ pc[r] = "call" => calls[r] <= Cardinality(C \cup {key[r]})
        /\ pc[r] = "mark" => calls[r] <= Cardinality(C \cup {mark[r]})
        /\ pc[r] \in {"call", "load"} => /\ lastKey[p] \in Keys(p)
                                         /\ calls[r] <= Cardinality(C \cup {lastKey[p]})
    BY <1>3 DEF CallInv, C
  <2>5. pc[r] = "call" => calls[r] <= Cardinality(D \cup {key[r]})
    BY <1>3, <2>1, <2>3, <2>4, CountGrows
  <2>6. pc[r] = "mark" => calls[r] <= Cardinality(D \cup {mark[r]})
    BY <1>3, <2>1, <2>3, <2>4, CountGrows
  <2>7. pc[r] \in {"call", "load"} => /\ lastKey'[p] \in Keys(p)
                                      /\ calls[r] <= Cardinality(D \cup {lastKey'[p]})
    <3> SUFFICES ASSUME pc[r] \in {"call", "load"}
                 PROVE  lastKey'[p] \in Keys(p) /\ calls[r] <= Cardinality(D \cup {lastKey'[p]})
      OBVIOUS
    <3>1. lastKey'[p] \in Keys(p) /\ lastKey[p] \in Keys(p)
          /\ (lastKey'[p] = lastKey[p] \/ lastKey'[p] \notin C \/ C = Keys(p))
      BY <2>1, <2>4
    <3>2. calls[r] <= Cardinality(C \cup {lastKey[p]})
      BY <2>4
    <3> QED
      BY <1>3, <2>1, <3>1, <3>2, CountGrows
  <2>8. /\ pc[r] \in {"idle", "weigh"} => calls[r] = 0
        /\ calls[r] <= NumKeys[p]
        /\ pc[r] = "enter" => calls[r] < NumKeys[p] /\ calls[r] <= Cardinality(D)
        /\ pc[r] = "next" => calls[r] <= Cardinality(D) + 1
        /\ pc[r] = "check" => calls[r] <= Cardinality(D)
    <3>1. /\ pc[r] \in {"idle", "weigh"} => calls[r] = 0
          /\ calls[r] <= NumKeys[p]
          /\ pc[r] = "enter" => calls[r] < NumKeys[p] /\ calls[r] <= Cardinality(C)
          /\ pc[r] = "next" => calls[r] <= Cardinality(C) + 1
          /\ pc[r] = "check" => calls[r] <= Cardinality(C)
      BY <1>3 DEF CallInv, C
    <3> QED
      BY <2>1, <2>2, <3>1
  <2> QED
    BY <1>1, <2>5, <2>6, <2>7, <2>8 DEF CallInv, D
<1> QED
  BY <1>2, <1>3

\* Nothing is known of a provider before its first call.
LEMMA FreshCall ==
  ASSUME NEW r \in Requests, calls'[r] = 0, pc'[r] \in {"idle", "weigh", "enter", "done"}, TypeOK'
  PROVE  CallInv(r)'
<1> PICK p : p = Current(r)'
  OBVIOUS
<1>1. p \in Pools => NumKeys[p] \in Nat \ {0} /\ Cardinality(Cooling(p)') \in Nat
  <2>1. Cooling(p)' \in SUBSET Keys(p)
    BY DEF Cooling
  <2> QED
    BY <2>1, KeysCount, KeySetsCount
<1> QED
  BY <1>1 DEF CallInv

\* A step of the search keeps what is known of its call.
LEMMA OwnKeepsCall ==
  ASSUME TypeOK, TypeOK', BoundInv, MaxTime <= InvalidTTL, NEW r \in Requests, Begin(r) \/ Step(r)
  PROVE  CallInv(r)'
<1>0. CallInv(r)
  BY DEF BoundInv
<1>t. /\ pc \in [Requests -> Labels] /\ calls \in [Requests -> Nat] /\ long \in [Requests -> BOOLEAN]
      /\ key \in [Requests -> Int] /\ mark \in [Requests -> Int]
  BY DEF TypeOK, Shapes
<1> PICK p : p = Current(r)
  OBVIOUS
<1>1. CASE Begin(r) \/ Weigh(r) \/ WeighDone(r)
  <2>1. pc[r] \in {"idle", "weigh"} /\ calls'[r] = calls[r] /\ pc'[r] \in {"weigh", "enter"}
    BY <1>1, <1>t DEF Begin, Weigh, WeighDone, StartAt, StartRoundRobin, Goto
  <2>2. calls'[r] = 0
    BY <1>0, <2>1 DEF CallInv
  <2> QED
    BY <2>1, <2>2, FreshCall
<1>2. CASE FreeEngineFails(r) \/ Exhausted(r) \/ Return(r)
  <2>1. calls'[r] = 0 /\ pc'[r] \in {"idle", "enter", "done"}
    BY <1>2, <1>t DEF FreeEngineFails, Exhausted, Return, NextProvider, Goto
  <2> QED
    BY <2>1, FreshCall
<1>3. CASE Enter(r) \/ TakeKey(r) \/ Succeed(r) \/ KeyFails(r) \/ SoftFails(r) \/ LoadLast(r)
           \/ Mark(r) \/ Retry(r)
  <2> DEFINE C == Cooling(p)
             D == Cooling(p)'
  <2>1. Current(r)' = p /\ long'[r] = long[r]
    <3>1. UNCHANGED <<start, off, long>>
      BY <1>3 DEF Enter, TakeKey, Succeed, KeyFails, SoftFails, LoadLast, Mark, Retry
    <3> QED
      BY <3>1 DEF Current, At
  <2>2. CASE p \notin Pools \/ long[r]
    <3>1. pc'[r] \notin {"idle", "weigh"}
      BY <1>3, <1>t DEF Enter, TakeKey, Succeed, KeyFails, SoftFails, LoadLast, Mark, Retry, Goto
    <3> QED
      BY <2>1, <2>2, <3>1 DEF CallInv
  <2>3. CASE p \in Pools /\ ~ long[r]
    <3> USE <2>3
    <3>1. C \in SUBSET Keys(p) /\ D \in SUBSET Keys(p)
      BY DEF Cooling
    <3>2. /\ Cardinality(C) \in Nat /\ Cardinality(C) <= NumKeys[p] /\ Cardinality(D) \in Nat
          /\ calls[r] \in Nat /\ NumKeys[p] \in Nat
      BY <1>t, <3>1, KeySetsCount, KeysCount
    <3>3. /\ calls[r] <= NumKeys[p]
          /\ pc[r] = "enter" => calls[r] < NumKeys[p] /\ calls[r] <= Cardinality(C)
          /\ pc[r] = "next" => calls[r] <= Cardinality(C) + 1
          /\ pc[r] = "call" => calls[r] <= Cardinality(C \cup {key[r]})
          /\ pc[r] \in {"call", "load"} => /\ lastKey[p] \in Keys(p)
                                           /\ calls[r] <= Cardinality(C \cup {lastKey[p]})
          /\ pc[r] = "mark" => calls[r] <= Cardinality(C \cup {mark[r]})
          /\ pc[r] = "check" => calls[r] <= Cardinality(C)
      BY <1>0 DEF CallInv
    <3> SUFFICES /\ pc'[r] \notin {"idle", "weigh"}
                 /\ calls'[r] <= NumKeys[p]
                 /\ pc'[r] = "enter" => calls'[r] < NumKeys[p] /\ calls'[r] <= Cardinality(D)
                 /\ pc'[r] = "next" => calls'[r] <= Cardinality(D) + 1
                 /\ pc'[r] = "call" => calls'[r] <= Cardinality(D \cup {key'[r]})
                 /\ pc'[r] \in {"call", "load"} => /\ lastKey'[p] \in Keys(p)
                                                   /\ calls'[r] <= Cardinality(D \cup {lastKey'[p]})
                 /\ pc'[r] = "mark" => calls'[r] <= Cardinality(D \cup {mark'[r]})
                 /\ pc'[r] = "check" => calls'[r] <= Cardinality(D)
      BY <2>1 DEF CallInv
    <3>4. UNCHANGED until => D = C
      BY DEF Cooling
    <3> HIDE DEF C, D
    <3>5. CASE Enter(r)
      <4>1. pc'[r] = "next" /\ pc[r] = "enter" /\ D = C
        BY <1>t, <3>4, <3>5 DEF Enter, Goto, kpVars
      <4>2. calls'[r] = calls[r] + 1
        BY <1>t, <3>2, <3>3, <3>5, <4>1 DEF Enter, CountCall
      <4> QED
        BY <3>2, <3>3, <4>1, <4>2
    <3>6. CASE TakeKey(r)
      <4>1. PICK k \in Keys(p) : NextKey(p, clk[r], k) /\ key' = [key EXCEPT ![r] = k]
        BY <3>6 DEF TakeKey
      <4>2. KPTypeOK /\ clk[r] \in 0 .. now
        BY MaxTimeAssumption DEF TypeOK, KPTypeOK, Shapes
      <4>3. /\ \A j \in Keys(p) : until'[p][j] = until[p][j]
            /\ k \notin C \/ C = Keys(p)
            /\ lastKey'[p] = k
        BY <4>1, <4>2, ScanCools DEF BoundInv, C
      <4>4. D = C
        BY <4>3 DEF C, D, Cooling
      <4>5. pc[r] = "next" /\ pc'[r] = "call" /\ calls'[r] = calls[r] /\ key'[r] = k
        BY <1>t, <3>6, <4>1 DEF TakeKey, Goto
      <4>6. calls[r] <= Cardinality(C \cup {k})
        <5>1. CASE k \notin C
          BY <3>1, <3>2, <3>3, <4>5, <5>1, OneKeyMore
        <5>2. CASE C = Keys(p)
          <6>1. C \cup {k} = Keys(p)
            BY <5>2
          <6>2. Cardinality(C \cup {k}) = NumKeys[p]
            BY <6>1, KeysCount
          <6> QED
            BY <3>2, <3>3, <6>2
        <5> QED
          BY <4>3, <5>1, <5>2
      <4> QED
        BY <3>3, <4>3, <4>4, <4>5, <4>6
    <3>7. CASE Succeed(r)
      <4>1. pc'[r] = "done" /\ calls'[r] = calls[r]
        BY <1>t, <3>7 DEF Succeed, Goto
      <4> QED
        BY <3>3, <4>1
    <3>8. CASE KeyFails(r)
      <4>1. pc[r] = "call" /\ pc'[r] = "mark" /\ mark'[r] = key[r] /\ calls' = calls /\ D = C
        BY <1>t, <3>4, <3>8 DEF KeyFails, Goto, kpVars
      <4> QED
        BY <3>3, <4>1
    <3>9. CASE SoftFails(r)
      <4>1. pc[r] = "call" /\ pc'[r] = "load" /\ lastKey' = lastKey /\ calls' = calls /\ D = C
        BY <1>t, <3>4, <3>9 DEF SoftFails, Goto, kpVars
      <4> QED
        BY <3>3, <4>1
    <3>10. CASE LoadLast(r)
      <4>1. pc[r] = "load" /\ lastKey[p] # NoKey
        BY <3>2, <3>3, <3>10 DEF LoadLast, Keys, NoKey
      <4>2. pc'[r] = "mark" /\ mark'[r] = lastKey[p] /\ calls' = calls /\ D = C
        BY <1>t, <3>4, <3>10, <4>1 DEF LoadLast, Goto, kpVars
      <4> QED
        BY <3>3, <4>1, <4>2
    <3>11. CASE Mark(r)
      <4>1. pc[r] = "mark" /\ pc'[r] = "check" /\ calls' = calls /\ mark[r] \in Keys(p)
        BY <1>t, <3>11 DEF Mark, Goto, TypeOK, LocalOK
      <4>2. C \cup {mark[r]} \in SUBSET D
        <5>1. now + InvalidTTL # 0
          BY MaxTimeAssumption, TTLAssumption DEF TypeOK, KPTypeOK
        <5>2. \A j \in Keys(p) : until'[p][j] = IF j = mark[r] THEN now + InvalidTTL ELSE until[p][j]
          BY <3>11 DEF Mark, MarkInvalid, TypeOK, KPTypeOK
        <5> QED
          BY <4>1, <5>1, <5>2 DEF C, D, Cooling
      <4>3. /\ Cardinality(C \cup {mark[r]}) <= Cardinality(D)
            /\ Cardinality(C \cup {mark[r]}) \in Nat
        BY <3>1, <4>2, KeySetsCount
      <4> QED
        BY <3>2, <3>3, <4>1, <4>3
    <3>12. CASE Retry(r)
      <4>1. pc[r] = "check" /\ pc'[r] = "enter" /\ calls' = calls /\ D = C
        BY <1>t, <3>4, <3>12 DEF Retry, Goto, kpVars
      <4>2. PICK k \in Keys(p) : Usable(p, k, now)
        BY <3>12 DEF Retry, NoneAvailable
      <4>3. k \notin C
        <5>1. now \in Nat /\ now <= MaxTime /\ until[p][k] \in Nat
          BY MaxTimeAssumption, TTLAssumption DEF TypeOK, KPTypeOK
        <5> QED
          BY <4>2, <5>1, MaxTimeAssumption, TTLAssumption DEF Usable, C, Cooling, BoundInv, CoolInv
      <4>4. Cardinality(C) < NumKeys[p]
        <5>1. Cardinality(C) < Cardinality(Keys(p))
          BY <3>1, <4>3, KeySetsCount
        <5> QED
          BY <5>1, KeysCount
      <4> QED
        BY <3>2, <3>3, <4>1, <4>4
    <3> QED
      BY <1>3, <3>5, <3>6, <3>7, <3>8, <3>9, <3>10, <3>11, <3>12
  <2> QED
    BY <2>2, <2>3
<1> QED
  BY <1>1, <1>2, <1>3 DEF Step

\* Every step keeps the bound.
LEMMA BoundStep ==
  ASSUME TypeOK, TypeOK', BoundInv, MaxTime <= InvalidTTL, [Next]_vars
  PROVE  BoundInv'
<1>1. [KPNext]_kpVars
  BY UsesPool
<1>2. CoolInv'
  BY <1>1, PoolCools DEF TypeOK, BoundInv
<1>3. ASSUME NEW r \in Requests PROVE CallInv(r)'
  <2>1. CASE Begin(r) \/ Step(r)
    BY <2>1, OwnKeepsCall
  <2>2. CASE Pass \/ UNCHANGED vars
    BY <1>1, <2>2, OthersKeepCall DEF Pass, vars, searchVars, BoundInv
  <2>3. ASSUME NEW q \in Requests, q # r, Begin(q) \/ Step(q)
        PROVE  CallInv(r)'
    <3>1. pc'[r] = pc[r]
      BY <2>3, OnlyOwnSteps
    <3>2. start'[r] = start[r] /\ off'[r] = off[r] /\ long'[r] = long[r]
          /\ calls'[r] = calls[r] /\ key'[r] = key[r] /\ mark'[r] = mark[r]
      BY <2>3
         DEF TypeOK, Shapes, Step, Begin, Weigh, WeighDone, Enter, TakeKey, Succeed,
             FreeEngineFails, KeyFails, SoftFails, LoadLast, Mark, Retry, Exhausted,
             Return, StartAt, StartRoundRobin, NextProvider, CountCall
    <3> QED
      BY <1>1, <3>1, <3>2, OthersKeepCall DEF BoundInv
  <2> QED
    BY <2>1, <2>2, <2>3 DEF Next
<1> QED
  BY <1>2, <1>3 DEF BoundInv

\* CallsBounded: as long as no cooldown can end, the retry loop of a provider
\* calls it at most once per key, for any number of keys and of concurrent
\* searches, which may mark each other's keys and, after an error without a
\* key, the key another one was just handed.
THEOREM RetriesAreBounded ==
  ASSUME MaxTime <= InvalidTTL
  PROVE  Spec => []CallsBounded
<1>1. Init => BoundInv
  <2> SUFFICES ASSUME Init PROVE BoundInv
    OBVIOUS
  <2>1. CoolInv
    BY DEF Init, KPInit, CoolInv
  <2>2. ASSUME NEW r \in Requests PROVE CallInv(r)
    <3> PICK p : p = Current(r)
      OBVIOUS
    <3>1. pc[r] = "idle" /\ calls[r] = 0
      BY DEF Init
    <3>2. p \in Pools => 0 <= NumKeys[p]
      BY NumKeysAssumption
    <3> QED
      BY <3>1, <3>2 DEF CallInv
  <2> QED
    BY <2>1, <2>2 DEF BoundInv
<1>2. TypeOK /\ TypeOK' /\ BoundInv /\ [Next]_vars => BoundInv'
  BY BoundStep
<1>3. BoundInv => CallsBounded
  BY DEF BoundInv, CallInv, CallsBounded
<1> QED
  BY <1>1, <1>2, <1>3, TypeCorrect, PTL DEF Spec

-----------------------------------------------------------------------------
(* The failover promise.                                                   *)

\* The strengthening: a search that has not chosen its start has given up no
\* provider, and one that is done has a result.
ResultInv ==
  \A r \in Requests :
    /\ pc[r] \in {"idle", "weigh"} => off[r] = 0
    /\ pc[r] = "done" => result[r] \in {"ok", "fail"}

LEMMA ResultStep ==
  ASSUME TypeOK, ResultInv, [Next]_vars
  PROVE  ResultInv'
<1> SUFFICES ASSUME NEW r \in Requests
             PROVE  /\ pc'[r] \in {"idle", "weigh"} => off'[r] = 0
                    /\ pc'[r] = "done" => result'[r] \in {"ok", "fail"}
  BY DEF ResultInv
<1>1. CASE Pass \/ UNCHANGED vars
  BY <1>1 DEF ResultInv, Pass, vars, searchVars
<1>2. ASSUME NEW q \in Requests, q # r, Begin(q) \/ Step(q)
      PROVE  pc'[r] = pc[r] /\ off'[r] = off[r] /\ result'[r] = result[r]
  BY <1>2, OnlyOwnSteps
     DEF TypeOK, Shapes, Step, Begin, Weigh, WeighDone, Enter, TakeKey, Succeed,
         FreeEngineFails, KeyFails, SoftFails, LoadLast, Mark, Retry, Exhausted,
         Return, NextProvider
<1>3. CASE Begin(r) \/ Step(r)
  BY <1>3
     DEF ResultInv, TypeOK, Shapes, Step, Begin, Weigh, WeighDone, Enter, TakeKey,
         Succeed, FreeEngineFails, KeyFails, SoftFails, LoadLast, Mark, Retry,
         Exhausted, Return, NextProvider, StartAt, StartRoundRobin, Goto
<1> QED
  BY <1>1, <1>2, <1>3 DEF Next, ResultInv

\* The rotation visits a provider only once, and all of them in one turn.
LEMMA RotationInjective ==
  ASSUME NEW s \in Providers, NEW i \in 0 .. NumProviders - 1,
         NEW j \in 0 .. NumProviders - 1, i # j
  PROVE  At(s, i) # At(s, j)
BY ProvidersAssumption DEF At, Providers

LEMMA RotationSurjective ==
  ASSUME NEW s \in Providers
  PROVE  {At(s, i) : i \in 0 .. NumProviders - 1} = Providers
<1>1. \A p \in Providers : \E i \in 0 .. NumProviders - 1 : At(s, i) = p
  <2> SUFFICES ASSUME NEW p \in Providers
               PROVE  \E i \in 0 .. NumProviders - 1 : At(s, i) = p
    OBVIOUS
  <2>1. CASE s <= p
    <3>1. p - s \in 0 .. NumProviders - 1 /\ At(s, p - s) = p
      BY <2>1, ProvidersAssumption DEF Providers, At
    <3> QED
      BY <3>1
  <2>2. CASE p < s
    <3>1. p - s + NumProviders \in 0 .. NumProviders - 1
      BY <2>2, ProvidersAssumption DEF Providers
    <3>2. At(s, p - s + NumProviders) = p
      BY <2>2, ProvidersAssumption DEF Providers, At
    <3> QED
      BY <3>1, <3>2
  <2> QED
    BY <2>1, <2>2 DEF Providers
<1>2. \A i \in 0 .. NumProviders - 1 : At(s, i) \in Providers
  BY AtProvider, ProvidersAssumption
<1> QED
  BY <1>1, <1>2

GivenUp(r) == {At(start[r], i) : i \in 0 .. off[r] - 1}

\* The provider a search is at is not among those it gave up, and giving it
\* up leaves none exactly when the loop is at its last turn.
LEMMA CurrentNotGivenUp ==
  ASSUME TypeOK, NEW r \in Requests, off[r] < NumProviders
  PROVE  Current(r) \in Providers \ GivenUp(r)
<1>1. start[r] \in Providers /\ off[r] \in 0 .. NumProviders - 1
  BY ProvidersAssumption DEF TypeOK, Shapes
<1>2. \A i \in 0 .. off[r] - 1 : At(start[r], i) # At(start[r], off[r])
  <2> SUFFICES ASSUME NEW i \in 0 .. off[r] - 1 PROVE At(start[r], i) # At(start[r], off[r])
    OBVIOUS
  <2>1. i \in 0 .. NumProviders - 1 /\ i # off[r]
    BY <1>1, ProvidersAssumption
  <2> QED
    BY <1>1, <2>1, RotationInjective
<1> QED
  BY <1>2, CurrentProvider DEF Current, GivenUp

LEMMA GiveUpStep ==
  ASSUME TypeOK, NEW r \in Requests, off[r] < NumProviders, pc[r] # "idle",
         pc[r] # "done", NextProvider(r), UNCHANGED start
  PROVE  FO!GiveUp(r, Current(r))
<1>1. start[r] \in Providers /\ off[r] \in 0 .. NumProviders - 1
  BY ProvidersAssumption DEF TypeOK, Shapes
<1>2. off' = [off EXCEPT ![r] = off[r] + 1]
  BY DEF NextProvider
<1>3. GivenUp(r)' = GivenUp(r) \cup {Current(r)}
  <2>1. off'[r] = off[r] + 1 /\ start' = start
    BY <1>2 DEF TypeOK, Shapes
  <2>2. 0 .. off[r] = (0 .. off[r] - 1) \cup {off[r]}
    BY <1>1
  <2>3. GivenUp(r)' = {At(start[r], i) : i \in 0 .. off[r]}
    BY <1>1, <2>1 DEF GivenUp, At
  <2> QED
    BY <2>2, <2>3 DEF GivenUp, Current
<1>4. GivenUp(r) \cup {Current(r)} = Providers <=> off[r] + 1 = NumProviders
  <2>1. CASE off[r] + 1 = NumProviders
    <3>1. GivenUp(r)' = {At(start[r], i) : i \in 0 .. NumProviders - 1}
      BY <1>1, <1>2, <2>1 DEF GivenUp, At, TypeOK, Shapes
    <3> QED
      BY <1>1, <1>3, <2>1, <3>1, RotationSurjective
  <2>2. CASE off[r] + 1 < NumProviders
    <3>1. off[r] + 1 \in 0 .. NumProviders - 1
      BY <1>1, <2>2, ProvidersAssumption
    <3>2. \A i \in 0 .. off[r] : At(start[r], i) # At(start[r], off[r] + 1)
      <4> SUFFICES ASSUME NEW i \in 0 .. off[r]
                   PROVE  At(start[r], i) # At(start[r], off[r] + 1)
        OBVIOUS
      <4>1. i \in 0 .. NumProviders - 1 /\ i # off[r] + 1
        BY <1>1, <2>2, ProvidersAssumption
      <4> QED
        BY <1>1, <3>1, <4>1, RotationInjective
    <3>3. At(start[r], off[r] + 1) \in Providers
      BY <1>1, <3>1, AtProvider, ProvidersAssumption
    <3>4. At(start[r], off[r] + 1) \notin GivenUp(r) \cup {Current(r)}
      BY <1>1, <3>2 DEF GivenUp, Current
    <3> QED
      BY <2>2, <3>3, <3>4, <1>1
  <2> QED
    BY <1>1, <2>1, <2>2, ProvidersAssumption
<1>5. [q \in Requests |-> GivenUp(q)]' =
        [[q \in Requests |-> GivenUp(q)] EXCEPT ![r] = GivenUp(r) \cup {Current(r)}]
  <2>1. ASSUME NEW q \in Requests, q # r PROVE GivenUp(q)' = GivenUp(q)
    BY <1>2, <2>1 DEF GivenUp, At, TypeOK, Shapes
  <2> QED
    BY <1>3, <2>1
<1>6. [q \in Requests |-> Phase(q)]' =
        [[q \in Requests |-> Phase(q)] EXCEPT ![r] =
           IF GivenUp(r) \cup {Current(r)} = Providers THEN "fail" ELSE "running"]
  <2>1. ASSUME NEW q \in Requests, q # r PROVE Phase(q)' = Phase(q)
    BY <2>1 DEF Phase, NextProvider, Goto, TypeOK, Shapes
  <2>2. Phase(r)' = IF off[r] + 1 = NumProviders THEN "fail" ELSE "running"
    BY <1>1, ProvidersAssumption DEF Phase, NextProvider, Goto, TypeOK, Shapes
  <2> QED
    BY <1>4, <2>1, <2>2
<1>7. Phase(r) = "running"
  BY DEF Phase
<1> QED
  BY <1>5, <1>6, <1>7, CurrentNotGivenUp DEF FO!GiveUp, GivenUp

\* The other steps: three are visible, the retries and key handling are not.
LEMMA VisibleStep ==
  ASSUME TypeOK, ResultInv, NEW r \in Requests, Begin(r) \/ Succeed(r) \/ Return(r)
  PROVE  FO!Accept(r) \/ FO!Answer(r) \/ FO!Finish(r)
<1> DEFINE ph == [q \in Requests |-> Phase(q)]
           gu == [q \in Requests |-> GivenUp(q)]
<1>1. ASSUME NEW q \in Requests, q # r PROVE Phase(q)' = Phase(q) /\ GivenUp(q)' = GivenUp(q)
  BY <1>1 DEF Phase, GivenUp, At, Begin, Succeed, Return, StartAt, StartRoundRobin,
              Goto, TypeOK, Shapes
<1>2. CASE Begin(r)
  <2>1. Phase(r) = "idle" /\ Phase(r)' = "running"
    BY <1>2 DEF Phase, Begin, StartAt, StartRoundRobin, Goto, TypeOK, Shapes
  <2>2. off[r] = 0 /\ off'[r] = 0
    BY <1>2 DEF Begin, ResultInv
  <2>3. GivenUp(r) = {} /\ GivenUp(r)' = {}
    BY <2>2 DEF GivenUp
  <2>4. ph' = [ph EXCEPT ![r] = "running"] /\ gu' = gu
    BY <1>1, <2>1, <2>3
  <2> QED
    BY <2>1, <2>4 DEF FO!Accept, GivenUp
<1>3. CASE Succeed(r)
  <2>1. Phase(r) = "running" /\ Phase(r)' = "ok"
    BY <1>3 DEF Phase, Succeed, Goto, TypeOK, Shapes
  <2>2. off[r] < NumProviders
    BY <1>3 DEF Succeed, TypeOK, LocalOK
  <2>3. GivenUp(r) # Providers
    BY <2>2, CurrentNotGivenUp
  <2>4. GivenUp(r)' = GivenUp(r)
    BY <1>3 DEF GivenUp, At, Succeed
  <2>5. ph' = [ph EXCEPT ![r] = "ok"] /\ gu' = gu
    BY <1>1, <2>1, <2>4
  <2> QED
    BY <2>1, <2>3, <2>5 DEF FO!Answer, GivenUp
<1>4. CASE Return(r)
  <2>1. Phase(r) \in {"ok", "fail"} /\ Phase(r)' = "idle"
    BY <1>4 DEF Phase, Return, Goto, TypeOK, Shapes, ResultInv
  <2>2. GivenUp(r)' = {}
    BY <1>4 DEF GivenUp, Return, TypeOK, Shapes
  <2>3. ph' = [ph EXCEPT ![r] = "idle"] /\ gu' = [gu EXCEPT ![r] = {}]
    BY <1>1, <2>1, <2>2
  <2> QED
    BY <2>1, <2>3 DEF FO!Finish, GivenUp
<1> QED
  BY <1>2, <1>3, <1>4

LEMMA HiddenStep ==
  ASSUME TypeOK, ResultInv, NEW r \in Requests,
         \/ Weigh(r) \/ WeighDone(r) \/ Enter(r) \/ TakeKey(r) \/ KeyFails(r)
         \/ SoftFails(r) \/ LoadLast(r) \/ Mark(r) \/ Retry(r)
  PROVE  UNCHANGED FO!foVars
<1>1. ASSUME NEW q \in Requests PROVE Phase(q)' = Phase(q)
  BY DEF Phase, Weigh, WeighDone, Enter, TakeKey, KeyFails, SoftFails, LoadLast,
         Mark, Retry, StartAt, StartRoundRobin, Goto, TypeOK, Shapes
<1>2. ASSUME NEW q \in Requests PROVE GivenUp(q)' = GivenUp(q)
  <2>1. off' = off
    BY DEF Weigh, WeighDone, Enter, TakeKey, KeyFails, SoftFails, LoadLast, Mark, Retry
  <2>2. CASE start'[q] = start[q]
    BY <2>1, <2>2 DEF GivenUp, At
  <2>3. CASE start'[q] # start[q]
    <3>1. off[q] = 0
      BY <2>3 DEF ResultInv, TypeOK, Shapes, Weigh, WeighDone, Enter, TakeKey, KeyFails,
                  SoftFails, LoadLast, Mark, Retry, StartAt, StartRoundRobin
    <3> QED
      BY <2>1, <3>1 DEF GivenUp
  <2> QED
    BY <2>2, <2>3
<1> QED
  BY <1>1, <1>2 DEF FO!foVars, GivenUp

\* The key-pool search implements the failover promise: whatever its pools,
\* retries and concurrent searches, a search fails only after every provider
\* has been given up, each once, and answers from one that has not.
THEOREM SearchKeepsFailoverPromise == Spec => FailoverPromise
<1>1. Init => FO!FOInit
  BY DEF Init, FO!FOInit, Phase
<1>2. TypeOK /\ ResultInv /\ [Next]_vars => [FO!FONext]_FO!foVars
  <2> SUFFICES ASSUME TypeOK, ResultInv, [Next]_vars PROVE [FO!FONext]_FO!foVars
    OBVIOUS
  <2>1. CASE Pass \/ UNCHANGED vars
    BY <2>1 DEF Pass, vars, searchVars, FO!foVars, Phase, At
  <2>2. ASSUME NEW r \in Requests, Begin(r) \/ Succeed(r) \/ Return(r) PROVE FO!FONext
    BY <2>2, VisibleStep DEF FO!FONext
  <2>3. ASSUME NEW r \in Requests, FreeEngineFails(r) \/ Exhausted(r) PROVE FO!FONext
    <3>1. FO!GiveUp(r, Current(r))
      BY <2>3, GiveUpStep DEF FreeEngineFails, Exhausted, TypeOK, LocalOK
    <3>2. Current(r) \in Providers
      BY CurrentProvider, <2>3 DEF FreeEngineFails, Exhausted, TypeOK, Shapes, LocalOK
    <3> QED
      BY <3>1, <3>2 DEF FO!FONext, FO!GiveUp
  <2>4. ASSUME NEW r \in Requests,
               \/ Weigh(r) \/ WeighDone(r) \/ Enter(r) \/ TakeKey(r) \/ KeyFails(r)
               \/ SoftFails(r) \/ LoadLast(r) \/ Mark(r) \/ Retry(r)
        PROVE  UNCHANGED FO!foVars
    BY <2>4, HiddenStep
  <2> QED
    BY <2>1, <2>2, <2>3, <2>4 DEF Next, Step
<1>3. Init => ResultInv
  BY DEF Init, ResultInv
<1>4. TypeOK /\ ResultInv /\ [Next]_vars => ResultInv'
  BY ResultStep
<1> QED
  BY <1>1, <1>2, <1>3, <1>4, TypeCorrect, PTL DEF Spec, FailoverPromise, FO!FOSpec
=============================================================================
