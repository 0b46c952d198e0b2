------------------------- MODULE ScrapeEngine_proofs -------------------------
(* Proofs about the search engines, for every set of searches and every     *)
(* setting.  ScrapeEngine: a cooldown stops the searches that look after it *)
(* was entered, and the session is replaced in the end although counts are  *)
(* lost.  PaperEngine: a search sends a bounded number of requests, and the *)
(* key is given up on evidence only.                                        *)
EXTENDS ScrapeEngine, PaperEngine, FiniteSetTheorems, SequenceTheorems, WellFoundedInduction, TLAPS

Labels == {"idle", "limiter", "check", "delay", "post", "sent", "enter", "cool",
           "count", "rotate", "reset"}

\* The variables of the engine and of its searches have their types.
TypeInv ==
  /\ kind \in Kinds
  /\ now \in Nat /\ cooldown \in Nat /\ until \in Nat /\ reqCount \in Nat /\ load \in Nat
  /\ pc \in [Requests -> Labels]
  /\ began \in [Requests -> Nat] /\ wake \in [Requests -> Nat]
  /\ asked \in [Requests -> Nat] /\ length \in [Requests -> Nat]
  /\ retried \in [Requests -> BOOLEAN] /\ fresh \in [Requests -> BOOLEAN]

\* A search that saw no cooldown, and none was entered since, is in none.
CoolInv == \A r \in Requests : fresh[r] => until <= now

-----------------------------------------------------------------------------
(* Types                                                                   *)

LEMMA Init_Type == Init => TypeInv
  BY DEF Init, TypeInv, Labels

\* A local variable that is set keeps its type.
LEMMA Set_Type ==
  ASSUME NEW S, NEW f \in [Requests -> S], NEW r \in Requests, NEW x \in S
  PROVE  Set(f, r, x) \in [Requests -> S]
  BY DEF Set

LEMMA Flag_Type ==
  ASSUME NEW f \in [Requests -> BOOLEAN], NEW r \in Requests
  PROVE  Set(f, r, TRUE) \in [Requests -> BOOLEAN] /\ Set(f, r, FALSE) \in [Requests -> BOOLEAN]
  BY DEF Set

LEMMA Goto_Type ==
  ASSUME pc \in [Requests -> Labels], NEW r \in Requests, NEW l \in Labels, Goto(r, l)
  PROVE  pc' \in [Requests -> Labels]
  BY DEF Goto

LEMMA Duration_Type ==
  ASSUME cooldown \in Nat, NEW x \in Nat
  PROVE  Duration(x) \in Nat
  BY EngineAssumption DEF Duration, Longest

\* A search that returns leaves nothing behind.
LEMMA Return_Type ==
  ASSUME TypeInv, NEW r \in Requests, Return(r)
  PROVE  /\ pc' \in [Requests -> Labels]
         /\ began' \in [Requests -> Nat] /\ wake' \in [Requests -> Nat]
         /\ asked' \in [Requests -> Nat] /\ length' \in [Requests -> Nat]
         /\ retried' \in [Requests -> BOOLEAN]
  <1>1. pc' \in [Requests -> Labels]
    BY Goto_Type DEF Return, TypeInv, Labels
  <1> QED BY <1>1, Set_Type DEF Return, TypeInv

LEMMA Continue_Type ==
  ASSUME TypeInv, NEW r \in Requests, NEW l \in Labels, Continue(r, l)
  PROVE  /\ pc' \in [Requests -> Labels]
         /\ began' \in [Requests -> Nat] /\ wake' \in [Requests -> Nat]
         /\ asked' \in [Requests -> Nat] /\ length' \in [Requests -> Nat]
         /\ retried' \in [Requests -> BOOLEAN]
  <1>1. pc' \in [Requests -> Labels]
    BY Goto_Type DEF Continue, TypeInv
  <1> QED BY <1>1 DEF Continue, TypeInv

\* Every step of a search keeps the types.
LEMMA Step_Type ==
  ASSUME TypeInv, NEW r \in Requests, Step(r)
  PROVE  TypeInv'
  <1>1. CASE Search(r)
    <2>1. pc' \in [Requests -> Labels]
      BY <1>1, Goto_Type DEF Search, TypeInv, Labels
    <2>2. began' \in [Requests -> Nat] /\ fresh' \in [Requests -> BOOLEAN]
      BY <1>1, Set_Type DEF Search, TypeInv
    <2> QED BY <1>1, <2>1, <2>2 DEF Search, TypeInv, engineVars
  <1>2. CASE Allowed(r)
    <2>1. PICK l \in Labels : Continue(r, l)
      BY <1>2, EngineAssumption DEF Allowed, Labels, TypeInv
    <2> QED BY <1>2, <2>1, Continue_Type DEF Allowed, TypeInv, engineVars
  <1>3. CASE Refused(r)
    <2>1. CASE Persists(r)
      BY <1>3, <2>1 DEF Refused, TypeInv, engineVars, searchVars
    <2>2. CASE ~ Persists(r)
      BY <1>3, <2>2, Return_Type DEF Refused, TypeInv, engineVars
    <2> QED BY <2>1, <2>2
  <1>4. CASE Check(r)
    <2>1. CASE Cooling
      BY <1>4, <2>1, Return_Type DEF Check, TypeInv, engineVars
    <2>2. CASE ~ Cooling
      <3>1. PICK l \in Labels : Continue(r, l)
        BY <1>4, <2>2 DEF Check, Labels
      <3>2. fresh' \in [Requests -> BOOLEAN]
        BY <1>4, <2>2, Flag_Type DEF Check, TypeInv
      <3> QED BY <1>4, <3>1, <3>2, Continue_Type DEF Check, TypeInv, engineVars
    <2> QED BY <2>1, <2>2
  <1>5. CASE Delay(r)
    <2>1. pc' \in [Requests -> Labels]
      BY <1>5, Goto_Type DEF Delay, TypeInv, Labels
    <2>2. PICK d \in 0 .. MaxDelay : wake' = Set(wake, r, now + d)
      BY <1>5 DEF Delay
    <2>3. now + d \in Nat
      BY EngineAssumption DEF TypeInv
    <2>4. wake' \in [Requests -> Nat]
      BY <2>2, <2>3, Set_Type DEF TypeInv
    <2> QED BY <1>5, <2>1, <2>4 DEF Delay, TypeInv, engineVars
  <1>6. CASE Post(r)
    BY <1>6, Continue_Type DEF Post, TypeInv, engineVars, Labels
  <1>7. CASE Fails(r)
    <2>1. CASE Return(r)
      BY <1>7, <2>1, Return_Type DEF Fails, TypeInv, engineVars
    <2>2. CASE Continue(r, "enter")
      BY <1>7, <2>2, Continue_Type DEF Fails, TypeInv, engineVars, Labels
    <2> QED BY <1>7, <2>1, <2>2 DEF Fails
  <1>8. CASE Limited(r)
    <2>1. PICK x \in RetryAfters :
            /\ asked' = Set(asked, r, x)
            /\ IF now - began[r] + Duration(x) + Estimate <= Budget
                 THEN /\ Goto(r, "post")
                      /\ wake' = Set(wake, r, now + Duration(x))
                      /\ retried' = Set(retried, r, TRUE)
                 ELSE Goto(r, "enter") /\ UNCHANGED <<wake, retried>>
      BY <1>8 DEF Limited
    <2>2. x \in Nat /\ Duration(x) \in Nat
      BY EngineAssumption, Duration_Type DEF TypeInv
    <2>3. now + Duration(x) \in Nat
      BY <2>2 DEF TypeInv
    <2>4. asked' \in [Requests -> Nat]
      BY <2>1, <2>2, Set_Type DEF TypeInv
    <2>5. pc' \in [Requests -> Labels]
      BY <2>1, Goto_Type DEF TypeInv, Labels
    <2>6. wake' \in [Requests -> Nat] /\ retried' \in [Requests -> BOOLEAN]
      <3>1. CASE now - began[r] + Duration(x) + Estimate <= Budget
        <4>1. wake' = Set(wake, r, now + Duration(x)) /\ retried' = Set(retried, r, TRUE)
          BY <2>1, <3>1
        <4> QED BY <4>1, <2>3, Set_Type, Flag_Type DEF TypeInv
      <3>2. CASE ~ (now - began[r] + Duration(x) + Estimate <= Budget)
        <4>1. wake' = wake /\ retried' = retried
          BY <2>1, <3>2
        <4> QED BY <4>1 DEF TypeInv
      <3> QED BY <3>1, <3>2
    <2> QED BY <1>8, <2>4, <2>5, <2>6 DEF Limited, TypeInv, engineVars
  <1>9. CASE Measure(r)
    <2>1. pc' \in [Requests -> Labels]
      BY <1>9, Goto_Type DEF Measure, TypeInv, Labels
    <2>2. Duration(asked[r]) \in Nat
      BY Duration_Type DEF TypeInv
    <2>3. length' \in [Requests -> Nat]
      BY <1>9, <2>2, Set_Type DEF Measure, TypeInv
    <2> QED BY <1>9, <2>1, <2>3 DEF Measure, TypeInv, engineVars
  <1>10. CASE EnterCooldown(r)
    <2>1. cooldown' \in Nat /\ until' \in Nat
      BY <1>10 DEF EnterCooldown, TypeInv
    <2>2. fresh' \in [Requests -> BOOLEAN]
      BY <1>10 DEF EnterCooldown
    <2> QED BY <1>10, <2>1, <2>2, Return_Type DEF EnterCooldown, TypeInv
  <1>11. CASE Succeeds(r)
    <2>1. cooldown' \in Nat /\ until' \in Nat
      BY <1>11 DEF Succeeds, TypeInv
    <2>2. CASE Return(r)
      BY <1>11, <2>1, <2>2, Return_Type DEF Succeeds, TypeInv
    <2>3. CASE Continue(r, "count")
      BY <1>11, <2>1, <2>3, Continue_Type DEF Succeeds, TypeInv, Labels
    <2> QED BY <1>11, <2>2, <2>3 DEF Succeeds
  <1>12. CASE Count(r)
    <2>1. reqCount' \in Nat /\ load' \in Nat
      BY <1>12 DEF Count, TypeInv
    <2>2. CASE Return(r)
      BY <1>12, <2>1, <2>2, Return_Type DEF Count, TypeInv
    <2>3. CASE Continue(r, "rotate")
      BY <1>12, <2>1, <2>3, Continue_Type DEF Count, TypeInv, Labels
    <2> QED BY <1>12, <2>2, <2>3 DEF Count
  <1>13. CASE Rotate(r)
    BY <1>13, Continue_Type DEF Rotate, TypeInv, engineVars, Labels
  <1>14. CASE Reset(r)
    BY <1>14, Return_Type DEF Reset, TypeInv
  <1> QED BY <1>1, <1>2, <1>3, <1>4, <1>5, <1>6, <1>7, <1>8, <1>9, <1>10, <1>11, <1>12,
             <1>13, <1>14 DEF Step

LEMMA Next_Type == TypeInv /\ [Next]_vars => TypeInv'
  <1> SUFFICES ASSUME TypeInv, [Next]_vars PROVE TypeInv' OBVIOUS
  <1>1. CASE Tick
    BY <1>1 DEF Tick, TypeInv, engineVars, searchVars
  <1>2. CASE \E r \in Requests : Step(r)
    BY <1>2, Step_Type
  <1>3. CASE UNCHANGED vars
    BY <1>3 DEF vars, TypeInv, engineVars, searchVars
  <1> QED BY <1>1, <1>2, <1>3 DEF Next

-----------------------------------------------------------------------------
(* The cooldown                                                            *)

LEMMA Init_Cool == Init => CoolInv
  BY DEF Init, CoolInv

\* Only a search that looks becomes fresh, and it has seen that none is on;
\* only entering a cooldown prolongs one, and then no search is fresh.
LEMMA Next_Cool == TypeInv /\ CoolInv /\ [Next]_vars => CoolInv'
  <1> SUFFICES ASSUME TypeInv, CoolInv, [Next]_vars PROVE CoolInv' OBVIOUS
  <1>0. TypeInv'
    BY Next_Type
  <1>1. CASE fresh' = fresh /\ until' = until /\ now' >= now
    <2>1. now \in Nat /\ now' \in Nat /\ until \in Nat
      BY <1>0 DEF TypeInv
    <2> QED BY <1>1, <2>1 DEF CoolInv
  <1>2. CASE Tick
    <2>1. fresh' = fresh /\ until' = until /\ now' >= now
      BY <1>2 DEF Tick, engineVars, TypeInv
    <2> QED BY <1>1, <2>1
  <1>3. ASSUME NEW r \in Requests, Step(r) PROVE CoolInv'
    <2>1. CASE Search(r)
      BY <1>3, <2>1 DEF Search, Set, CoolInv, TypeInv, engineVars
    <2>2. CASE Check(r)
      <3>1. CASE Cooling
        <4>1. fresh' = fresh /\ until' = until /\ now' >= now
          BY <2>2, <3>1 DEF Check, engineVars, TypeInv
        <4> QED BY <1>1, <4>1
      <3>2. CASE ~ Cooling
        BY <1>3, <2>2, <3>2 DEF Check, Set, Cooling, CoolInv, TypeInv, engineVars
      <3> QED BY <3>1, <3>2
    <2>3. CASE EnterCooldown(r)
      BY <2>3 DEF EnterCooldown, CoolInv
    <2>4. CASE Succeeds(r)
      <3>1. CASE UNCHANGED until
        <4>1. fresh' = fresh /\ until' = until /\ now' >= now
          BY <2>4, <3>1 DEF Succeeds, TypeInv
        <4> QED BY <1>1, <4>1
      <3>2. CASE until' = 0
        BY <2>4, <3>2 DEF Succeeds, CoolInv, TypeInv
      <3> QED BY <2>4, <3>1, <3>2 DEF Succeeds
    <2>5. CASE \/ Allowed(r) \/ Refused(r) \/ Delay(r) \/ Post(r) \/ Fails(r) \/ Limited(r)
               \/ Measure(r) \/ Count(r) \/ Rotate(r) \/ Reset(r)
      <3>0. now' = now
        BY <2>5 DEF Allowed, Refused, Delay, Post, Fails, Limited, Measure, Count, Rotate, Reset
      <3>1. now' >= now
        BY <3>0 DEF TypeInv
      <3>2. fresh' = fresh
        BY <2>5 DEF Allowed, Refused, Delay, Post, Fails, Limited, Measure, Count, Rotate, Reset
      <3>3. until' = until
        BY <2>5 DEF Allowed, Refused, Delay, Post, Fails, Limited, Measure, Count, Rotate,
                    Reset, engineVars
      <3> QED BY <1>1, <3>1, <3>2, <3>3
    <2> QED BY <1>3, <2>1, <2>2, <2>3, <2>4, <2>5 DEF Step
  <1>4. CASE UNCHANGED vars
    <2>1. fresh' = fresh /\ until' = until /\ now' >= now
      BY <1>4 DEF vars, engineVars, TypeInv
    <2> QED BY <1>1, <2>1
  <1> QED BY <1>2, <1>3, <1>4 DEF Next

\* During a cooldown no search sends its request that looked after it was
\* entered.
THEOREM Spec_CooldownStopsSearches == Spec => CooldownStopsSearches
  <1>1. TypeInv /\ CoolInv /\ [Next]_vars =>
          [\A r \in Requests : pc[r] = "post" /\ pc'[r] = "sent" /\ until > now => ~ fresh[r]]_vars
    BY DEF TypeInv, CoolInv
  <1> QED BY <1>1, Init_Type, Init_Cool, Next_Type, Next_Cool, PTL DEF Spec, CooldownStopsSearches

-----------------------------------------------------------------------------
(* The session                                                             *)

Waiting == {r \in Requests : pc[r] = "rotate"}
Working == {r \in Requests : pc[r] # "reset"}

\* How often the session may be used before some search must rotate it.
Left == IF reqCount < Lifetime THEN Lifetime - 1 - reqCount ELSE 0

\* Each search that is yet to reset the count allows one more lifetime, but
\* for the search it lets count again; and when all searches that can count
\* wait to rotate, the count is full.
LoadInv ==
  /\ load + Left <= Cardinality(Working) * (Lifetime - 1) + Cardinality(Waiting)
  /\ Working = Waiting => reqCount >= Lifetime

LEMMA Sizes ==
  /\ IsFiniteSet(Waiting) /\ IsFiniteSet(Working)
  /\ Cardinality(Waiting) \in Nat /\ Cardinality(Working) \in Nat
  /\ Cardinality(Requests) \in Nat
  /\ Cardinality(Waiting) <= Cardinality(Requests)
  /\ Cardinality(Working) <= Cardinality(Requests)
  BY EngineAssumption, FS_Subset, FS_CardinalityType DEF Waiting, Working

\* The arithmetic of lifetimes, one search more or less.
LEMMA OneMore ==
  ASSUME NEW w \in Nat, NEW l \in Nat
  PROVE  (w + 1) * l = w * l + l
  OBVIOUS

LEMMA AtLeastOne ==
  ASSUME NEW w \in Nat \ {0}, NEW l \in Nat
  PROVE  w * l >= l
  OBVIOUS

LEMMA NoMore ==
  ASSUME NEW w \in Nat, NEW n \in Nat, NEW b \in Nat, NEW l \in Nat, w <= n, b <= n
  PROVE  w * l + b <= n * (l + 1)
  <1>1. w * l <= n * l /\ n * l \in Nat /\ w * l \in Nat OBVIOUS
  <1>2. n * (l + 1) = n * l + n OBVIOUS
  <1> QED BY <1>1, <1>2

LEMMA Left_Type ==
  ASSUME reqCount \in Nat
  PROVE  Left \in Nat /\ Left <= Lifetime - 1
  BY EngineAssumption DEF Left

LEMMA Init_Load == Init => LoadInv
  <1> SUFFICES ASSUME Init PROVE LoadInv OBVIOUS
  <1>1. Waiting = {} /\ Working = Requests /\ reqCount = 0 /\ load = 0
    BY DEF Init, Waiting, Working
  <1>2. Cardinality(Waiting) = 0
    BY <1>1, FS_EmptySet
  <1>3. Cardinality(Working) \in Nat \ {0}
    BY <1>1, Sizes, FS_EmptySet, EngineAssumption
  <1>4. Lifetime - 1 \in Nat
    BY EngineAssumption
  <1>5. Cardinality(Working) * (Lifetime - 1) >= Lifetime - 1
    BY <1>3, <1>4, AtLeastOne
  <1>6. Cardinality(Working) * (Lifetime - 1) \in Nat
    BY <1>3, <1>4
  <1>7. Left <= Lifetime - 1 /\ Left \in Nat
    BY <1>1, Left_Type
  <1>8. load + Left <= Cardinality(Working) * (Lifetime - 1) + Cardinality(Waiting)
    BY <1>1, <1>2, <1>5, <1>6, <1>7, <1>4
  <1>9. Working # Waiting
    BY <1>1, EngineAssumption
  <1> QED BY <1>8, <1>9 DEF LoadInv

\* A step that neither counts nor rotates nor resets.
LEMMA Same_Load ==
  ASSUME LoadInv, load' = load, reqCount' = reqCount,
         Waiting' = Waiting, Working' = Working
  PROVE  LoadInv'
  BY DEF LoadInv, Left

\* Where the searches are that matter, when r moves.
LEMMA Moves ==
  ASSUME TypeInv, NEW r \in Requests, NEW l \in Labels, pc' = [pc EXCEPT ![r] = l]
  PROVE  /\ Waiting' = IF l = "rotate" THEN Waiting \cup {r} ELSE Waiting \ {r}
         /\ Working' = IF l = "reset" THEN Working \ {r} ELSE Working \cup {r}
  <1>1. pc'[r] = l /\ \A o \in Requests : o # r => pc'[o] = pc[o]
    BY DEF TypeInv
  <1>2. CASE l = "rotate"
    BY <1>1, <1>2 DEF Waiting, Working
  <1>3. CASE l = "reset"
    BY <1>1, <1>3 DEF Waiting, Working
  <1>4. CASE l # "rotate" /\ l # "reset"
    BY <1>1, <1>4 DEF Waiting, Working
  <1> QED BY <1>2, <1>3, <1>4

\* A search that moves among the other labels changes neither set.
LEMMA Moves_Elsewhere ==
  ASSUME TypeInv, NEW r \in Requests, NEW l \in Labels \ {"rotate", "reset"},
         pc[r] \notin {"rotate", "reset"}, pc' = [pc EXCEPT ![r] = l]
  PROVE  Waiting' = Waiting /\ Working' = Working
  BY Moves DEF Waiting, Working

LEMMA Count_Load ==
  ASSUME TypeInv, LoadInv, NEW r \in Requests, Count(r)
  PROVE  LoadInv'
  <1>1. pc[r] = "count" /\ reqCount' = reqCount + 1 /\ load' = load + 1
    BY DEF Count
  <1>2. r \in Working /\ r \notin Waiting
    BY <1>1 DEF Working, Waiting
  <1>3. load \in Nat /\ reqCount \in Nat /\ Lifetime \in Nat \ {0}
    BY EngineAssumption DEF TypeInv
  <1>4. Left \in Nat /\ load + Left <= Cardinality(Working) * (Lifetime - 1) + Cardinality(Waiting)
    BY <1>3, Left_Type DEF LoadInv
  <1>5. Cardinality(Working) * (Lifetime - 1) \in Nat /\ Cardinality(Waiting) \in Nat
    BY <1>3, Sizes
  <1>6. CASE Spent(reqCount + 1)
    <2>1. pc' = [pc EXCEPT ![r] = "rotate"]
      BY <1>6 DEF Count, Continue, Goto
    <2>2. Waiting' = Waiting \cup {r} /\ Working' = Working
      <3>1. Waiting' = Waiting \cup {r} /\ Working' = Working \cup {r}
        BY <2>1, Moves DEF Labels
      <3> QED BY <3>1, <1>2
    <2>3. Cardinality(Waiting') = Cardinality(Waiting) + 1
      BY <2>2, <1>2, Sizes, FS_AddElement
    <2>4. Left' = 0 /\ reqCount' >= Lifetime
      BY <1>1, <1>3, <1>6 DEF Left, Spent
    <2>5. load' + Left' <= Cardinality(Working') * (Lifetime - 1) + Cardinality(Waiting')
      BY <2>2, <2>3, <2>4, <1>1, <1>3, <1>4, <1>5
    <2> QED BY <2>4, <2>5 DEF LoadInv
  <1>7. CASE ~ Spent(reqCount + 1)
    <2>1. pc' = [pc EXCEPT ![r] = "idle"]
      BY <1>7 DEF Count, Return, Goto
    <2>2. Waiting' = Waiting /\ Working' = Working
      BY <2>1, <1>1, Moves_Elsewhere DEF Labels
    <2>3. Left' = Left - 1
      BY <1>1, <1>3, <1>7 DEF Left, Spent
    <2>4. load' + Left' <= Cardinality(Working') * (Lifetime - 1) + Cardinality(Waiting')
      BY <2>2, <2>3, <1>1, <1>3, <1>4, <1>5
    <2>5. Working' # Waiting'
      BY <2>2, <1>2
    <2> QED BY <2>4, <2>5 DEF LoadInv
  <1> QED BY <1>6, <1>7

LEMMA Rotate_Load ==
  ASSUME TypeInv, LoadInv, NEW r \in Requests, Rotate(r)
  PROVE  LoadInv'
  <1>1. pc[r] = "rotate" /\ reqCount' = reqCount /\ load' = 0 /\ pc' = [pc EXCEPT ![r] = "reset"]
    BY DEF Rotate, Continue, Goto, engineVars
  <1>2. r \in Working /\ r \in Waiting /\ Waiting \subseteq Working
    BY <1>1 DEF Working, Waiting
  <1>3. Waiting' = Waiting \ {r} /\ Working' = Working \ {r}
    BY <1>1, Moves DEF Labels
  <1>4. /\ Cardinality(Waiting') = Cardinality(Waiting) - 1
        /\ Cardinality(Working') = Cardinality(Working) - 1
        /\ Cardinality(Waiting') \in Nat /\ Cardinality(Working') \in Nat
    BY <1>2, <1>3, Sizes, FS_RemoveElement, FS_CardinalityType
  <1>5. reqCount \in Nat /\ Lifetime \in Nat \ {0} /\ Lifetime - 1 \in Nat
    BY EngineAssumption DEF TypeInv
  <1>6. Left' = Left /\ Left \in Nat /\ Left <= Lifetime - 1
    BY <1>1, <1>5, Left_Type DEF Left
  <1>7. Cardinality(Working') * (Lifetime - 1) \in Nat
    BY <1>4, <1>5
  <1>8. Left <= Cardinality(Working') * (Lifetime - 1) + Cardinality(Waiting')
    <2>1. CASE Working = Waiting
      <3>1. Left = 0
        BY <2>1, <1>5 DEF LoadInv, Left
      <3> QED BY <3>1, <1>4, <1>7
    <2>2. CASE Working # Waiting
      <3>1. Working' # {}
        BY <2>2, <1>2, <1>3
      <3>2. IsFiniteSet(Working')
        BY <1>3, Sizes, FS_RemoveElement
      <3>3. Cardinality(Working') \in Nat \ {0}
        BY <3>1, <3>2, <1>4, FS_EmptySet
      <3>4. Cardinality(Working') * (Lifetime - 1) >= Lifetime - 1
        BY <3>3, <1>5, AtLeastOne
      <3> QED BY <3>4, <1>4, <1>5, <1>6, <1>7
    <2> QED BY <2>1, <2>2
  <1>9. load' + Left' <= Cardinality(Working') * (Lifetime - 1) + Cardinality(Waiting')
    BY <1>1, <1>6, <1>8
  <1>10. Working' = Waiting' => Working = Waiting
    BY <1>2, <1>3
  <1> QED BY <1>1, <1>9, <1>10 DEF LoadInv

LEMMA Reset_Load ==
  ASSUME TypeInv, LoadInv, NEW r \in Requests, Reset(r)
  PROVE  LoadInv'
  <1>1. pc[r] = "reset" /\ reqCount' = 0 /\ load' = load /\ pc' = [pc EXCEPT ![r] = "idle"]
    BY DEF Reset, Return, Goto
  <1>2. r \notin Working /\ r \notin Waiting
    BY <1>1 DEF Working, Waiting
  <1>3. Waiting' = Waiting /\ Working' = Working \cup {r}
    <2>1. Waiting' = Waiting \ {r} /\ Working' = Working \cup {r}
      BY <1>1, Moves DEF Labels
    <2> QED BY <2>1, <1>2
  <1>4. Cardinality(Working') = Cardinality(Working) + 1
    BY <1>2, <1>3, Sizes, FS_AddElement
  <1>5. load \in Nat /\ reqCount \in Nat /\ Lifetime \in Nat \ {0} /\ Lifetime - 1 \in Nat
    BY EngineAssumption DEF TypeInv
  <1>6. Cardinality(Working') * (Lifetime - 1)
          = Cardinality(Working) * (Lifetime - 1) + (Lifetime - 1)
    BY <1>4, <1>5, Sizes, OneMore
  <1>7. Left' = Lifetime - 1
    BY <1>1, <1>5 DEF Left
  <1>8. Left \in Nat /\ load + Left <= Cardinality(Working) * (Lifetime - 1) + Cardinality(Waiting)
    BY <1>5, Left_Type DEF LoadInv
  <1>9. Cardinality(Working) * (Lifetime - 1) \in Nat /\ Cardinality(Waiting) \in Nat
    BY <1>5, Sizes
  <1>10. load' + Left' <= Cardinality(Working') * (Lifetime - 1) + Cardinality(Waiting')
    BY <1>1, <1>3, <1>5, <1>6, <1>7, <1>8, <1>9
  <1>11. Working' # Waiting'
    BY <1>2, <1>3
  <1> QED BY <1>10, <1>11 DEF LoadInv

\* Every other step of a search moves it among the other labels.
LEMMA Other_Load ==
  ASSUME TypeInv, LoadInv, NEW r \in Requests,
         \/ Search(r) \/ Allowed(r) \/ Refused(r) \/ Check(r) \/ Delay(r) \/ Post(r)
         \/ Fails(r) \/ Limited(r) \/ Measure(r) \/ EnterCooldown(r) \/ Succeeds(r)
  PROVE  LoadInv'
  <1>1. load' = load /\ reqCount' = reqCount
    BY DEF Search, Allowed, Refused, Check, Delay, Post, Fails, Limited, Measure, EnterCooldown,
           Succeeds, engineVars
  <1>2. pc[r] \notin {"rotate", "reset"}
    BY DEF Search, Allowed, Refused, Check, Delay, Post, Fails, Limited, Measure, EnterCooldown,
           Succeeds
  <1>3. \/ pc' = pc
        \/ \E l \in Labels \ {"rotate", "reset"} : pc' = [pc EXCEPT ![r] = l]
    <2> DEFINE Elsewhere == Labels \ {"rotate", "reset"}
               Moved == \E l \in Elsewhere : pc' = [pc EXCEPT ![r] = l]
    <2>1. ASSUME NEW l \in Elsewhere, pc' = [pc EXCEPT ![r] = l] PROVE Moved
      BY <2>1
    <2> HIDE DEF Moved
    <2>4. CASE Search(r)
      BY <2>1, <2>4 DEF Search, Goto, Labels
    <2>5. CASE Allowed(r)
      BY <2>1, <2>5, EngineAssumption DEF Allowed, Continue, Goto, Labels, TypeInv
    <2>6. CASE Refused(r)
      BY <2>1, <2>6 DEF Refused, searchVars, Return, Goto, Labels
    <2>7. CASE Check(r)
      BY <2>1, <2>7 DEF Check, Return, Continue, Goto, Labels
    <2>8. CASE Delay(r)
      BY <2>1, <2>8 DEF Delay, Goto, Labels
    <2>9. CASE Post(r)
      BY <2>1, <2>9 DEF Post, Continue, Goto, Labels
    <2>10. CASE Fails(r)
      BY <2>1, <2>10 DEF Fails, Return, Continue, Goto, Labels
    <2>11. CASE Limited(r)
      BY <2>1, <2>11 DEF Limited, Goto, Labels
    <2>12. CASE Measure(r)
      BY <2>1, <2>12 DEF Measure, Goto, Labels
    <2>13. CASE EnterCooldown(r)
      BY <2>1, <2>13 DEF EnterCooldown, Return, Goto, Labels
    <2>14. CASE Succeeds(r)
      BY <2>1, <2>14 DEF Succeeds, Return, Continue, Goto, Labels
    <2> QED BY <2>4, <2>5, <2>6, <2>7, <2>8, <2>9, <2>10, <2>11, <2>12, <2>13, <2>14 DEF Moved
  <1>4. Waiting' = Waiting /\ Working' = Working
    <2>1. CASE pc' = pc
      BY <2>1 DEF Waiting, Working
    <2>2. CASE \E l \in Labels \ {"rotate", "reset"} : pc' = [pc EXCEPT ![r] = l]
      BY <2>2, <1>2, Moves_Elsewhere
    <2> QED BY <1>3, <2>1, <2>2
  <1> QED BY <1>1, <1>4, Same_Load

LEMMA Next_Load == TypeInv /\ LoadInv /\ [Next]_vars => LoadInv'
  <1> SUFFICES ASSUME TypeInv, LoadInv, [Next]_vars PROVE LoadInv' OBVIOUS
  <1>1. CASE Tick
    BY <1>1, Same_Load DEF Tick, engineVars, searchVars, Waiting, Working
  <1>2. ASSUME NEW r \in Requests, Step(r) PROVE LoadInv'
    BY <1>2, Count_Load, Rotate_Load, Reset_Load, Other_Load DEF Step
  <1>3. CASE UNCHANGED vars
    BY <1>3, Same_Load DEF vars, engineVars, searchVars, Waiting, Working
  <1> QED BY <1>1, <1>2, <1>3 DEF Next

\* A session answers at most one lifetime of searches per search that may run
\* concurrently, however their counts and resets interleave.
THEOREM Spec_SessionRotated == Spec => []SessionRotated
  <1>1. TypeInv /\ LoadInv => SessionRotated
    <2> SUFFICES ASSUME TypeInv, LoadInv PROVE SessionRotated OBVIOUS
    <2>1. Lifetime - 1 \in Nat /\ (Lifetime - 1) + 1 = Lifetime /\ Lifetime \in Nat
      BY EngineAssumption
    <2>2. Cardinality(Working) * (Lifetime - 1) + Cardinality(Waiting)
            <= Cardinality(Requests) * ((Lifetime - 1) + 1)
      BY <2>1, Sizes, NoMore
    <2>3. load \in Nat /\ Left \in Nat
      BY Left_Type DEF TypeInv
    <2>4. load + Left <= Cardinality(Working) * (Lifetime - 1) + Cardinality(Waiting)
      BY DEF LoadInv
    <2>5. /\ Cardinality(Working) * (Lifetime - 1) + Cardinality(Waiting) \in Nat
          /\ Cardinality(Requests) * Lifetime \in Nat
      BY <2>1, Sizes
    <2>6. load <= Cardinality(Requests) * Lifetime
      BY <2>1, <2>2, <2>3, <2>4, <2>5
    <2> QED BY <2>6 DEF SessionRotated
  <1> QED BY <1>1, Init_Type, Init_Load, Next_Type, Next_Load, PTL DEF Spec

-----------------------------------------------------------------------------
(* PaperEngine                                                             *)

PaperTypeOK ==
  /\ site \in {"semantic", "anonymous", "scholar", "pubmed", "single"}
  /\ keyDisabled \in BOOLEAN
  /\ step \in [Searches -> Steps]
  /\ attempt \in [Searches -> Nat]
  /\ hops \in [Searches -> Nat]
  /\ carries \in [Searches -> BOOLEAN]
  /\ posted \in [Searches -> Nat]
  /\ refused \in [Searches -> Nat]

\* The chains of the attempts made, and the part of its own it has followed.
Followed(q) ==
  hops[q] + (IF attempt[q] = 0 THEN 0 ELSE IF attempt[q] = 1 THEN Chain ELSE 2 * Chain)

\* Two requests per hop, and at most three attempts: the third one of
\* Semantic Scholar comes after the key was given up, and is the last.
Counted(q) ==
  /\ attempt[q] <= 2
  /\ hops[q] < Chain
  /\ step[q] = "idle" => posted[q] = 0 /\ refused[q] = 0 /\ attempt[q] = 0
  /\ step[q] \in {"idle", "build"} => hops[q] = 0
  /\ step[q] \in {"build", "ready"} => posted[q] <= 2 * Followed(q)
  /\ step[q] = "sent" => posted[q] <= 2 * Followed(q) + 1
  /\ step[q] \in {"resent", "limited"} => posted[q] <= 2 * Followed(q) + 2
  /\ site = "semantic" /\ attempt[q] = 2 => keyDisabled
  /\ step[q] = "limited" => site \in {"semantic", "anonymous"}

\* As long as the key is in use every request carries it, so that every
\* attempt that was made was refused with it.
Evident(q) ==
  site = "semantic" /\ ~ keyDisabled =>
    /\ step[q] \in {"ready", "sent", "resent"} => carries[q]
    /\ refused[q] >= attempt[q]
    /\ step[q] = "limited" => refused[q] >= attempt[q] + 1

PaperInv == PaperTypeOK /\ \A q \in Searches : Counted(q) /\ Evident(q)

\* The invariant holds at the start.
LEMMA PaperInit_Inv == PaperInit => PaperInv
  <1> SUFFICES ASSUME PaperInit PROVE PaperInv OBVIOUS
  <1>1. PaperTypeOK
    BY PaperAssumption DEF PaperInit, PaperTypeOK, Steps
  <1>2. \A q \in Searches : Counted(q) /\ Evident(q)
    <2> TAKE q \in Searches
    <2>1. step[q] = "idle" /\ attempt[q] = 0 /\ posted[q] = 0 /\ refused[q] = 0 /\ hops[q] = 0
      BY DEF PaperInit
    <2>2. Counted(q) BY <2>1, PaperAssumption DEF Counted, Followed
    <2>3. Evident(q) BY <2>1 DEF Evident
    <2> QED BY <2>2, <2>3
  <1> QED BY <1>1, <1>2 DEF PaperInv

\* A search that ends satisfies it, whatever it was before.
LEMMA End_Inv ==
  ASSUME PaperInv, NEW q \in Searches, End(q)
  PROVE  PaperInv'
  <1> USE DEF End, To
  <1>1. PaperTypeOK'
    BY DEF PaperInv, PaperTypeOK, Steps
  <1>2. ASSUME NEW o \in Searches PROVE Counted(o)' /\ Evident(o)'
    <2>1. CASE o = q BY <2>1, PaperAssumption DEF PaperInv, PaperTypeOK, Counted, Followed, Evident
    <2>2. CASE o # q BY <2>2 DEF PaperInv, PaperTypeOK, Counted, Followed, Evident
    <2> QED BY <2>1, <2>2
  <1> QED BY <1>1, <1>2 DEF PaperInv

\* So does one that makes the next attempt.
LEMMA Again_Inv ==
  ASSUME PaperInv, NEW q \in Searches,
         step[q] \in {"sent", "resent"}, Again(q), attempt[q] < 2,
         site \in {"scholar", "pubmed"},
         UNCHANGED <<site, keyDisabled, carries, posted, refused>>
  PROVE  PaperInv'
  <1> USE DEF Again, To
  <1>1. PaperTypeOK'
    BY DEF PaperInv, PaperTypeOK, Steps
  <1>2. ASSUME NEW o \in Searches PROVE Counted(o)' /\ Evident(o)'
    <2>1. CASE o = q BY <2>1, PaperAssumption DEF PaperInv, PaperTypeOK, Counted, Followed, Evident
    <2>2. CASE o # q BY <2>2 DEF PaperInv, PaperTypeOK, Counted, Followed, Evident
    <2> QED BY <2>1, <2>2
  <1> QED BY <1>1, <1>2 DEF PaperInv

\* An answer that limits an attempt with the key is counted as evidence.
LEMMA Limits_Inv ==
  ASSUME PaperInv, NEW q \in Searches, NEW status \in Statuses,
         step[q] \in {"sent", "resent"}, To(q, "limited"),
         site \in {"semantic", "anonymous"},
         refused' = [refused EXCEPT ![q] = @ + IF carries[q] THEN 1 ELSE 0],
         UNCHANGED <<site, keyDisabled, attempt, hops, carries, posted>>
  PROVE  PaperInv'
  <1> USE DEF To
  <1> DEFINE n == IF carries[q] THEN 1 ELSE 0
  <1>1. n \in Nat /\ (carries[q] => n = 1)
    OBVIOUS
  <1>2. refused' = [refused EXCEPT ![q] = refused[q] + n]
    OBVIOUS
  <1> HIDE DEF n
  <1>3. PaperTypeOK'
    BY <1>1, <1>2 DEF PaperInv, PaperTypeOK, Steps
  <1>4. ASSUME NEW o \in Searches PROVE Counted(o)'
    <2>1. CASE o = q BY <2>1, PaperAssumption DEF PaperInv, PaperTypeOK, Counted, Followed
    <2>2. CASE o # q BY <2>2, <1>2 DEF PaperInv, PaperTypeOK, Counted, Followed
    <2> QED BY <2>1, <2>2
  <1>5. ASSUME NEW o \in Searches PROVE Evident(o)'
    <2>1. CASE o = q BY <2>1, <1>1, <1>2 DEF PaperInv, PaperTypeOK, Evident
    <2>2. CASE o # q BY <2>2, <1>2 DEF PaperInv, PaperTypeOK, Evident
    <2> QED BY <2>1, <2>2
  <1> QED BY <1>3, <1>4, <1>5 DEF PaperInv

\* The second refusal gives the key up, and the third attempt may be made.
LEMMA GiveUp_Inv ==
  ASSUME PaperInv, NEW q \in Searches, step[q] = "limited",
         site # "anonymous", ~ keyDisabled, GiveUp(q)
  PROVE  PaperInv'
  <1> USE DEF GiveUp, Again, To
  <1>1. site = "semantic" /\ attempt[q] \in Nat /\ attempt[q] < 2
    BY DEF PaperInv, PaperTypeOK, Counted, Followed
  <1>2. PaperTypeOK'
    <2>1. keyDisabled' \in BOOLEAN
      BY <1>1
    <2> QED BY <2>1 DEF PaperInv, PaperTypeOK, Steps
  <1>3. keyDisabled' <=> attempt[q] > 0
    OBVIOUS
  <1>4. ASSUME NEW o \in Searches PROVE Counted(o)'
    <2>1. CASE o = q BY <2>1, <1>1, <1>3, PaperAssumption DEF PaperInv, PaperTypeOK, Counted, Followed
    <2>2. CASE o # q BY <2>2, <1>1, <1>3 DEF PaperInv, PaperTypeOK, Counted, Followed
    <2> QED BY <2>1, <2>2
  <1>5. ASSUME NEW o \in Searches PROVE Evident(o)'
    <2>1. CASE o = q BY <2>1, <1>1, <1>3 DEF PaperInv, PaperTypeOK, Evident
    <2>2. CASE o # q BY <2>2, <1>1, <1>3 DEF PaperInv, PaperTypeOK, Evident
    <2> QED BY <2>1, <2>2
  <1> QED BY <1>2, <1>4, <1>5 DEF PaperInv

\* Every step preserves the invariant.
LEMMA PaperStep_Inv == PaperInv /\ [PaperNext]_paperVars => PaperInv'
  <1> SUFFICES ASSUME PaperInv, [PaperNext]_paperVars PROVE PaperInv'
    OBVIOUS
  <1>1. CASE UNCHANGED paperVars
    BY <1>1 DEF paperVars, PaperInv, PaperTypeOK, Counted, Followed, Evident
  <1>2. ASSUME NEW q \in Searches, Paper(q) PROVE PaperInv'
    <2>1. CASE Ask(q)
      <3>1. PaperTypeOK' BY <2>1 DEF Ask, To, PaperInv, PaperTypeOK, Steps
      <3>2. ASSUME NEW o \in Searches PROVE Counted(o)' /\ Evident(o)'
        BY <2>1 DEF Ask, To, PaperInv, PaperTypeOK, Counted, Followed, Evident
      <3> QED BY <3>1, <3>2 DEF PaperInv
    <2>2. CASE Build(q)
      <3>1. PaperTypeOK' BY <2>2 DEF Build, To, PaperInv, PaperTypeOK, Steps
      <3>2. ASSUME NEW o \in Searches PROVE Counted(o)'
        BY <2>2 DEF Build, To, PaperInv, PaperTypeOK, Counted, Followed
      <3>3. ASSUME NEW o \in Searches PROVE Evident(o)'
        <4>1. CASE o = q BY <4>1, <2>2 DEF Build, To, PaperInv, PaperTypeOK, Evident
        <4>2. CASE o # q BY <4>2, <2>2 DEF Build, To, PaperInv, PaperTypeOK, Evident
        <4> QED BY <4>1, <4>2
      <3> QED BY <3>1, <3>2, <3>3 DEF PaperInv
    <2>3. CASE Send(q) \/ Resend(q)
      <3>1. PaperTypeOK'
        BY <2>3 DEF Send, Resend, Transmit, To, PaperInv, PaperTypeOK, Steps
      <3>2. ASSUME NEW o \in Searches PROVE Counted(o)'
        BY <2>3, PaperAssumption DEF Send, Resend, Transmit, To, PaperInv, PaperTypeOK, Counted, Followed
      <3>3. ASSUME NEW o \in Searches PROVE Evident(o)'
        BY <2>3 DEF Send, Resend, Transmit, To, PaperInv, PaperTypeOK, Evident
      <3> QED BY <3>1, <3>2, <3>3 DEF PaperInv
    <2>4. CASE MeetLimit(q)
      <3>1. CASE End(q) BY <3>1, End_Inv
      <3>2. CASE ~ (site = "anonymous" \/ keyDisabled) /\ GiveUp(q)
        BY <2>4, <3>2, GiveUp_Inv DEF MeetLimit
      <3> QED BY <2>4, <3>1, <3>2 DEF MeetLimit
    <2>5. ASSUME NEW status \in Statuses, Answered(q, status) PROVE PaperInv'
      <3>1. CASE End(q) BY <3>1, End_Inv
      <3>2. CASE SemanticAnswer(q, status) /\ ~ End(q)
        BY <2>5, <3>2, Limits_Inv DEF Answered, SemanticAnswer
      <3>3. CASE (ScholarAnswer(q, status) \/ PubmedAnswer(q, status)) /\ ~ End(q)
        <4>1. Again(q) /\ site \in {"scholar", "pubmed"} /\ step[q] \in {"sent", "resent"}
          BY <2>5, <3>3 DEF Answered, ScholarAnswer, PubmedAnswer
        <4>2. UNCHANGED <<site, keyDisabled, carries, posted, refused>>
          BY <2>5, <3>3 DEF Answered, ScholarAnswer, PubmedAnswer
        <4>3. attempt[q] < 2
          BY <2>5, <3>3 DEF Answered, ScholarAnswer, PubmedAnswer, MayRetry
        <4> QED BY <4>1, <4>2, <4>3, Again_Inv
      <3>4. CASE SingleAnswer(q)
        BY <3>4, <3>1 DEF SingleAnswer
      <3> QED BY <2>5, <3>1, <3>2, <3>3, <3>4 DEF Answered
    <2>6. CASE Redirected(q)
      <3>1. PaperTypeOK' BY <2>6 DEF Redirected, To, PaperInv, PaperTypeOK, Steps
      <3>2. ASSUME NEW o \in Searches PROVE Counted(o)'
        <4>1. CASE o = q BY <4>1, <2>6, PaperAssumption DEF Redirected, To, PaperInv, PaperTypeOK, Counted, Followed
        <4>2. CASE o # q BY <4>2, <2>6 DEF Redirected, To, PaperInv, PaperTypeOK, Counted, Followed
        <4> QED BY <4>1, <4>2
      <3>3. ASSUME NEW o \in Searches PROVE Evident(o)'
        BY <2>6 DEF Redirected, To, PaperInv, PaperTypeOK, Evident
      <3> QED BY <3>1, <3>2, <3>3 DEF PaperInv
    <2> QED BY <1>2, <2>1, <2>2, <2>3, <2>4, <2>5, <2>6 DEF Paper
  <1> QED BY <1>1, <1>2 DEF PaperNext

\* UpstreamBounded: no search, however limited or redirected and however many
\* others it shares the engine with, sends more than 6 Chain requests.
THEOREM PaperSpec_UpstreamBounded == PaperSpec => []UpstreamBounded
  <1>1. PaperInv => UpstreamBounded
    <2> SUFFICES ASSUME PaperInv, NEW q \in Searches PROVE posted[q] <= 6 * Chain
      BY DEF UpstreamBounded
    <2>1. /\ attempt[q] \in Nat /\ posted[q] \in Nat /\ step[q] \in Steps
          /\ hops[q] \in Nat /\ Chain \in Nat \ {0}
      BY PaperAssumption DEF PaperInv, PaperTypeOK
    <2>2. Counted(q)
      BY DEF PaperInv
    <2> QED BY <2>1, <2>2 DEF Counted, Followed, Steps
  <1> QED BY <1>1, PaperInit_Inv, PaperStep_Inv, PTL DEF PaperSpec

\* KeyGivenUpOnEvidence: the key is given up by a search that was refused
\* twice with it, and never taken back.
THEOREM PaperSpec_KeyGivenUpOnEvidence == PaperSpec => KeyGivenUpOnEvidence
  <1> DEFINE Evidence == \E q \in Searches : refused[q] >= 2
             Disabled == keyDisabled' # keyDisabled => keyDisabled' /\ Evidence
  <1>1. PaperInv /\ [PaperNext]_paperVars => [Disabled]_paperVars
    <2> SUFFICES ASSUME PaperInv, PaperNext, keyDisabled' # keyDisabled
                 PROVE  keyDisabled' /\ Evidence
      BY DEF paperVars
    <2>1. PICK q \in Searches : Paper(q)
      BY DEF PaperNext
    <2>2. step[q] = "limited" /\ site # "anonymous" /\ ~ keyDisabled /\ GiveUp(q)
      BY <2>1 DEF Paper, Ask, Build, Send, Resend, Transmit, Redirected, Answered,
                   SemanticAnswer, ScholarAnswer, PubmedAnswer, SingleAnswer, MeetLimit, End
    <2>3. site = "semantic" /\ attempt[q] \in Nat /\ refused[q] \in Nat
      BY <2>2 DEF PaperInv, PaperTypeOK, Counted, Followed
    <2>4. attempt[q] > 0 /\ keyDisabled'
      BY <2>2, <2>3 DEF GiveUp, PaperInv, PaperTypeOK
    <2>5. refused[q] >= 2
      BY <2>2, <2>3, <2>4 DEF PaperInv, Evident
    <2> QED BY <2>4, <2>5
  <1> QED BY <1>1, PaperInit_Inv, PaperStep_Inv, PTL DEF PaperSpec, KeyGivenUpOnEvidence

-----------------------------------------------------------------------------
(* The limiter                                                             *)

Sorted(w) == \A i, j \in DOMAIN w : i <= j => w[i] <= w[j]

\* A set of indices has a first one.
LEMMA FirstIndex ==
  ASSUME NEW S \in SUBSET Nat, S # {}
  PROVE  \E x \in S : \A y \in S : x <= y
  <1>1. IsWellFoundedOn(OpToRel(<, Nat), Nat)
    BY NatLessThanWellFounded
  <1>2. PICK x \in S : \A y \in S : ~ (<<y, x>> \in OpToRel(<, Nat))
    BY <1>1, WFMin
  <1>3. ASSUME NEW y \in S, y < x PROVE FALSE
    <2>1. <<y, x>> \in OpToRel(<, Nat)
      BY <1>3, Zenon DEF OpToRel
    <2> QED BY <1>2, <2>1
  <1>4. \A y \in S : x <= y
    BY <1>3
  <1> QED BY <1>4

\* Of times in order, the filter drops the first k.
LEMMA FilterDrops ==
  ASSUME NEW w \in Seq(Nat), Sorted(w), NEW cut \in Int
  PROVE  \E k \in 0 .. Len(w) :
           /\ \A i \in 1 .. k : w[i] <= cut
           /\ FilterAfter(w, cut) = [n \in 1 .. Len(w) - k |-> w[k + n]]
  <1> DEFINE L == Len(w)
             kept == {i \in DOMAIN w : w[i] > cut}
             nth(n) == CHOOSE i \in kept : Cardinality({j \in kept : j <= i}) = n
  <1>1. L \in Nat /\ DOMAIN w = 1 .. L /\ \A i \in 1 .. L : w[i] \in Nat
    OBVIOUS
  <1>2. PICK k \in 0 .. L : kept = (k + 1) .. L
    <2>1. CASE kept = {}
      BY <1>1, <2>1
    <2>2. CASE kept # {}
      <3>1. kept \in SUBSET Nat
        BY <1>1
      <3> HIDE DEF kept
      <3>2. PICK x \in kept : \A y \in kept : x <= y
        BY <2>2, <3>1, FirstIndex
      <3>3. x \in 1 .. L /\ x - 1 \in 0 .. L /\ (x - 1) + 1 = x /\ w[x] > cut
        BY <1>1, <3>2 DEF kept
      <3>4. \A i \in x .. L : w[i] > cut
        <4> SUFFICES ASSUME NEW i \in x .. L PROVE w[i] > cut OBVIOUS
        <4>1. i \in 1 .. L /\ x <= i
          BY <1>1, <3>3
        <4>2. w[x] <= w[i] /\ w[x] \in Nat /\ w[i] \in Nat
          BY <1>1, <3>3, <4>1 DEF Sorted
        <4> QED BY <3>3, <4>2
      <3>5. kept = x .. L
        <4>1. \A i \in kept : i \in x .. L
          BY <1>1, <3>2, <3>3 DEF kept
        <4>2. \A i \in x .. L : i \in kept
          BY <1>1, <3>3, <3>4 DEF kept
        <4> QED BY <4>1, <4>2
      <3> QED BY <3>3, <3>5
    <2> QED BY <2>1, <2>2
  <1>3. \A i \in 1 .. k : w[i] <= cut
    <2> SUFFICES ASSUME NEW i \in 1 .. k PROVE w[i] <= cut OBVIOUS
    <2>1. i \in DOMAIN w /\ i \notin kept
      BY <1>1, <1>2
    <2> QED BY <1>1, <2>1
  <1>4. Cardinality(kept) = L - k
    <2>1. k + 1 \in Int /\ L \in Int /\ L - k \in Nat
      BY <1>1
    <2>2. Cardinality((k + 1) .. L) = L - k
      <3>1. CASE k + 1 > L
        <4>1. Cardinality((k + 1) .. L) = 0
          BY <2>1, <3>1, FS_Interval
        <4> QED BY <1>1, <3>1, <4>1
      <3>2. CASE ~ (k + 1 > L)
        <4>1. Cardinality((k + 1) .. L) = L - (k + 1) + 1
          BY <2>1, <3>2, FS_Interval
        <4>2. L - (k + 1) + 1 = L - k
          BY <1>1
        <4> QED BY <4>1, <4>2
      <3> QED BY <3>1, <3>2
    <2> QED BY <1>2, <2>2
  <1> HIDE DEF kept
  <1>5. ASSUME NEW n \in 1 .. L - k PROVE nth(n) = k + n
    <2>1. ASSUME NEW i \in kept PROVE Cardinality({j \in kept : j <= i}) = i - k
      <3>1. {j \in kept : j <= i} = (k + 1) .. i
        BY <1>1, <1>2, <2>1
      <3>2. k + 1 \in Int /\ i \in Int /\ ~ (k + 1 > i)
        BY <1>1, <1>2, <2>1
      <3>3. Cardinality((k + 1) .. i) = i - (k + 1) + 1
        BY <3>2, FS_Interval
      <3>4. i - (k + 1) + 1 = i - k
        BY <1>1, <3>2
      <3> QED BY <3>1, <3>3, <3>4
    <2>2. k + n \in kept /\ (k + n) - k = n
      BY <1>1, <1>2
    <2>3. \A i \in kept : Cardinality({j \in kept : j <= i}) = n <=> i = k + n
      <3> SUFFICES ASSUME NEW i \in kept PROVE i - k = n <=> i = k + n
        BY <2>1
      <3> QED BY <1>1, <1>2
    <2> QED BY <2>2, <2>3
  <1> HIDE DEF nth
  <1>6. FilterAfter(w, cut) = [n \in 1 .. Cardinality(kept) |-> w[nth(n)]]
    BY DEF FilterAfter, kept, nth
  <1>7. FilterAfter(w, cut) = [n \in 1 .. L - k |-> w[k + n]]
    BY <1>4, <1>5, <1>6
  <1> QED BY <1>3, <1>7

\* Window w holds the last of the times g, and those it has lost are older
\* than the window at time t.
Kept(w, g, t, window) ==
  /\ Len(w) <= Len(g)
  /\ \A i \in 1 .. Len(w) : w[i] = g[Len(g) - Len(w) + i]
  /\ \A i \in 1 .. Len(g) - Len(w) : t - g[i] >= window

\* The filter loses old times only, and the first ones.
LEMMA FilterKeeps ==
  ASSUME NEW g \in Seq(Nat), Sorted(g), NEW t \in Nat, NEW window \in Nat,
         NEW w \in Seq(Nat), Kept(w, g, t, window)
  PROVE  /\ FilterAfter(w, t - window) \in Seq(Nat)
         /\ Kept(FilterAfter(w, t - window), g, t, window)
  <1> DEFINE L == Len(w)
             G == Len(g)
             F == FilterAfter(w, t - window)
  <1>1. /\ L \in Nat /\ G \in Nat /\ L <= G /\ DOMAIN w = 1 .. L /\ DOMAIN g = 1 .. G
        /\ \A i \in 1 .. L : w[i] \in Nat
        /\ \A i \in 1 .. G : g[i] \in Nat
    BY DEF Kept
  <1>2. \A i \in 1 .. L : w[i] = g[G - L + i]
    BY DEF Kept
  <1>3. Sorted(w)
    <2> SUFFICES ASSUME NEW i \in 1 .. L, NEW j \in 1 .. L, i <= j PROVE w[i] <= w[j]
      BY <1>1 DEF Sorted
    <2>1. G - L + i \in 1 .. G /\ G - L + j \in 1 .. G /\ G - L + i <= G - L + j
      BY <1>1
    <2>2. g[G - L + i] <= g[G - L + j]
      BY <1>1, <2>1 DEF Sorted
    <2> QED BY <1>2, <2>2
  <1>4. PICK k \in 0 .. L : /\ \A i \in 1 .. k : w[i] <= t - window
                            /\ F = [n \in 1 .. L - k |-> w[k + n]]
    <2>1. t - window \in Int
      OBVIOUS
    <2> QED BY <1>3, <2>1, FilterDrops
  <1> HIDE DEF F
  <1>5. L - k \in Nat /\ \A n \in 1 .. L - k : k + n \in 1 .. L
    BY <1>1
  <1>6. F \in Seq(Nat) /\ Len(F) = L - k
    <2>1. F \in [1 .. L - k -> Nat]
      BY <1>1, <1>4, <1>5
    <2>2. F \in Seq(Nat)
      BY <1>5, <2>1, SeqDef
    <2>3. Len(F) \in Nat /\ DOMAIN F = 1 .. Len(F) /\ DOMAIN F = 1 .. L - k
      BY <2>1, <2>2
    <2> QED BY <1>5, <2>2, <2>3
  <1>7. ASSUME NEW n \in 1 .. Len(F) PROVE F[n] = g[G - Len(F) + n]
    <2>1. F[n] = w[k + n] /\ k + n \in 1 .. L
      BY <1>4, <1>5, <1>6
    <2>2. w[k + n] = g[G - L + (k + n)]
      BY <1>2, <2>1
    <2>3. G - L + (k + n) = G - Len(F) + n
      BY <1>1, <1>6
    <2> QED BY <2>1, <2>2, <2>3
  <1>8. ASSUME NEW i \in 1 .. G - Len(F) PROVE t - g[i] >= window
    <2>1. CASE i <= G - L
      <3>1. i \in 1 .. G - L
        BY <1>1, <2>1
      <3> QED BY <3>1 DEF Kept
    <2>2. CASE ~ (i <= G - L)
      <3>1. i - (G - L) \in 1 .. k /\ i - (G - L) \in 1 .. L /\ G - L + (i - (G - L)) = i /\ i \in 1 .. G
        BY <1>1, <1>6, <2>2
      <3>2. w[i - (G - L)] = g[i] /\ w[i - (G - L)] <= t - window
        BY <1>2, <1>4, <3>1
      <3>3. g[i] <= t - window /\ g[i] \in Nat
        BY <1>1, <3>1, <3>2
      <3> QED BY <3>3
    <2> QED BY <2>1, <2>2
  <1>9. Len(F) <= G
    BY <1>1, <1>6
  <1> QED BY <1>6, <1>7, <1>8, <1>9 DEF Kept, F

\* A request that is allowed is recorded at the end of both.
LEMMA AllowKeeps ==
  ASSUME NEW g \in Seq(Nat), NEW t \in Nat, NEW window \in Nat,
         NEW w \in Seq(Nat), Kept(w, g, t, window)
  PROVE  Kept(Append(w, t), Append(g, t), t, window)
  <1> DEFINE L == Len(w)
             G == Len(g)
             v == Append(w, t)
             h == Append(g, t)
  <1>1. L \in Nat /\ G \in Nat /\ L <= G /\ Len(v) = L + 1 /\ Len(h) = G + 1
    BY DEF Kept
  <1>2. /\ \A i \in 1 .. L : v[i] = w[i]
        /\ \A i \in 1 .. G : h[i] = g[i]
        /\ v[L + 1] = t /\ h[G + 1] = t
    OBVIOUS
  <1> HIDE DEF v, h
  <1>3. ASSUME NEW i \in 1 .. L + 1 PROVE v[i] = h[(G + 1) - (L + 1) + i]
    <2>1. CASE i = L + 1
      <3>1. (G + 1) - (L + 1) + i = G + 1
        BY <1>1, <2>1
      <3> QED BY <1>2, <2>1, <3>1
    <2>2. CASE i # L + 1
      <3>1. i \in 1 .. L /\ (G + 1) - (L + 1) + i = G - L + i /\ G - L + i \in 1 .. G
        BY <1>1, <2>2
      <3>2. w[i] = g[G - L + i]
        BY <3>1 DEF Kept
      <3> QED BY <1>2, <3>1, <3>2
    <2> QED BY <2>1, <2>2
  <1>4. ASSUME NEW i \in 1 .. (G + 1) - (L + 1) PROVE t - h[i] >= window
    <2>1. i \in 1 .. G - L /\ i \in 1 .. G
      BY <1>1
    <2> QED BY <1>2, <2>1 DEF Kept
  <1>5. Kept(v, h, t, window)
    BY <1>1, <1>3, <1>4 DEF Kept
  <1> QED BY <1>5 DEF v, h

\* When a window of fewer than n requests allows one, the n-th before it has
\* left the window.
LEMMA AllowSpreads ==
  ASSUME NEW g \in Seq(Nat), NEW t \in Nat, NEW window \in Nat, NEW n \in Nat \ {0},
         NEW w \in Seq(Nat), Kept(w, g, t, window), Len(w) < n,
         \A i \in DOMAIN g : i + n \in DOMAIN g => g[i + n] - g[i] >= window,
         NEW h, h = Append(g, t)
  PROVE  \A i \in DOMAIN h : i + n \in DOMAIN h => h[i + n] - h[i] >= window
  <1> DEFINE G == Len(g)
  <1>1. /\ G \in Nat /\ DOMAIN g = 1 .. G /\ DOMAIN h = 1 .. G + 1
        /\ \A i \in 1 .. G : h[i] = g[i]
        /\ h[G + 1] = t
    OBVIOUS
  <1> HIDE DEF G
  <1> SUFFICES ASSUME NEW i \in 1 .. G + 1, i + n \in 1 .. G + 1 PROVE h[i + n] - h[i] >= window
    BY <1>1
  <1>2. CASE i + n \in 1 .. G
    <2>1. i \in 1 .. G
      BY <1>1, <1>2
    <2> QED BY <1>1, <1>2, <2>1
  <1>3. CASE i + n \notin 1 .. G
    <2>1. i + n = G + 1 /\ i \in 1 .. G
      BY <1>1, <1>3
    <2>2. i \in 1 .. G - Len(w)
      BY <1>1, <2>1
    <2>3. t - g[i] >= window
      BY <2>2 DEF Kept, G
    <2> QED BY <1>1, <2>1, <2>3
  <1> QED BY <1>2, <1>3

\* The times allowed are in order, the windows hold the last of them, and what
\* they have lost is older than they are.
RateInv ==
  /\ granted \in Seq(Nat) /\ Sorted(granted)
  /\ \A i \in DOMAIN granted : granted[i] <= now
  /\ last = IF granted = <<>> THEN Never ELSE granted[Len(granted)]
  /\ secWindow \in Seq(Nat) /\ Kept(secWindow, granted, now, Second)
  /\ minWindow \in Seq(Nat) /\ Kept(minWindow, granted, now, Minute)
  /\ RateKept

\* The clock moves on.
LEMMA Tick_Rate ==
  ASSUME TypeInv, RateInv, Tick
  PROVE  RateInv'
  <1>1. now \in Nat /\ now' = now + 1 /\ UNCHANGED <<kind, last, secWindow, minWindow, granted>>
    BY DEF Tick, TypeInv, limiterVars
  <1>2. /\ Second \in Nat /\ Minute \in Nat /\ Len(granted) \in Nat /\ DOMAIN granted = 1 .. Len(granted)
        /\ Len(secWindow) \in Nat /\ Len(minWindow) \in Nat
        /\ \A i \in DOMAIN granted : granted[i] \in Nat /\ granted[i] <= now
    BY LimitAssumption DEF RateInv
  <1>3. ASSUME NEW w \in {secWindow, minWindow}, NEW window \in Nat, Kept(w, granted, now, window)
        PROVE  Kept(w, granted, now + 1, window)
    <2>1. \A i \in 1 .. Len(granted) - Len(w) : i \in DOMAIN granted /\ now - granted[i] >= window
      BY <1>2, <1>3 DEF Kept
    <2>2. \A i \in 1 .. Len(granted) - Len(w) : (now + 1) - granted[i] >= window
      BY <1>1, <1>2, <2>1
    <2> QED BY <1>3, <2>2 DEF Kept
  <1>4. Kept(secWindow, granted, now + 1, Second) /\ Kept(minWindow, granted, now + 1, Minute)
    BY <1>2, <1>3 DEF RateInv
  <1>5. \A i \in DOMAIN granted : granted[i] <= now + 1
    BY <1>1, <1>2
  <1>6. RateKept'
    BY <1>1 DEF RateInv, RateKept, Spread, Gap
  <1> QED BY <1>1, <1>4, <1>5, <1>6 DEF RateInv

\* A call that is refused prunes the windows at most.
LEMMA Refuse_Rate ==
  ASSUME TypeInv, RateInv, UNCHANGED <<kind, now>>, Refuse(now, Gap)
  PROVE  RateInv'
  <1>1. CASE UNCHANGED limiterVars
    BY <1>1 DEF limiterVars, RateInv, RateKept, Spread, Gap
  <1>2. CASE /\ secWindow' = FilterAfter(secWindow, now - Second)
             /\ minWindow' = FilterAfter(minWindow, now - Minute)
             /\ UNCHANGED <<last, granted>>
    <2>1. now \in Nat /\ Second \in Nat /\ Minute \in Nat
      BY LimitAssumption DEF TypeInv
    <2>2. secWindow' \in Seq(Nat) /\ Kept(secWindow', granted, now, Second)
      BY <1>2, <2>1, FilterKeeps DEF RateInv
    <2>3. minWindow' \in Seq(Nat) /\ Kept(minWindow', granted, now, Minute)
      BY <1>2, <2>1, FilterKeeps DEF RateInv
    <2>4. RateKept'
      BY <1>2 DEF RateInv, RateKept, Spread, Gap
    <2> QED BY <1>2, <2>2, <2>3, <2>4 DEF RateInv
  <1> QED BY <1>1, <1>2 DEF Refuse

\* A call that is allowed leaves the rates and the gap.
LEMMA Allow_Rate ==
  ASSUME TypeInv, RateInv, UNCHANGED <<kind, now>>, Allow(now, Gap)
  PROVE  RateInv'
  <1> DEFINE sec == FilterAfter(secWindow, now - Second)
             min == FilterAfter(minWindow, now - Minute)
             G == Len(granted)
  <1>1. /\ now \in Nat /\ Second \in Nat /\ Minute \in Nat
        /\ PerSec \in Nat \ {0} /\ PerMin \in Nat \ {0} /\ Gap \in Nat
    BY LimitAssumption, EngineAssumption DEF TypeInv, Gap
  <1>2. /\ granted \in Seq(Nat) /\ Sorted(granted) /\ G \in Nat /\ DOMAIN granted = 1 .. G
        /\ \A i \in 1 .. G : granted[i] \in Nat /\ granted[i] <= now
    BY DEF RateInv
  <1>3. sec \in Seq(Nat) /\ Kept(sec, granted, now, Second)
    BY <1>1, FilterKeeps DEF RateInv
  <1>4. min \in Seq(Nat) /\ Kept(min, granted, now, Minute)
    BY <1>1, FilterKeeps DEF RateInv
  <1>5. Len(sec) < PerSec /\ Len(min) < PerMin
    <2>1. ~ (Len(sec) >= PerSec) /\ ~ (Len(min) >= PerMin)
      BY DEF Allow, Full
    <2>2. Len(sec) \in Nat /\ Len(min) \in Nat
      BY <1>3, <1>4
    <2> QED BY <1>1, <2>1, <2>2
  <1>6. secWindow' = Append(sec, now) /\ minWindow' = Append(min, now)
        /\ granted' = Append(granted, now) /\ last' = now
    BY DEF Allow
  <1> HIDE DEF sec, min
  <1>7. secWindow' \in Seq(Nat) /\ Kept(secWindow', granted', now, Second)
    BY <1>1, <1>2, <1>3, <1>6, AllowKeeps
  <1>8. minWindow' \in Seq(Nat) /\ Kept(minWindow', granted', now, Minute)
    BY <1>1, <1>2, <1>4, <1>6, AllowKeeps
  <1>9. /\ granted' \in Seq(Nat) /\ Len(granted') = G + 1 /\ DOMAIN granted' = 1 .. G + 1
        /\ \A i \in 1 .. G : granted'[i] = granted[i]
        /\ granted'[G + 1] = now
    BY <1>1, <1>2, <1>6
  <1>10. Spread(PerSec, Second)'
    <2>1. \A i \in DOMAIN granted : i + PerSec \in DOMAIN granted =>
            granted[i + PerSec] - granted[i] >= Second
      BY DEF RateInv, RateKept, Spread
    <2>2. \A i \in DOMAIN granted' : i + PerSec \in DOMAIN granted' =>
            granted'[i + PerSec] - granted'[i] >= Second
      BY <1>1, <1>2, <1>3, <1>5, <1>6, <2>1, AllowSpreads
    <2> QED BY <2>2 DEF Spread
  <1>11. Spread(PerMin, Minute)'
    <2>1. \A i \in DOMAIN granted : i + PerMin \in DOMAIN granted =>
            granted[i + PerMin] - granted[i] >= Minute
      BY DEF RateInv, RateKept, Spread
    <2>2. \A i \in DOMAIN granted' : i + PerMin \in DOMAIN granted' =>
            granted'[i + PerMin] - granted'[i] >= Minute
      BY <1>1, <1>2, <1>4, <1>5, <1>6, <2>1, AllowSpreads
    <2> QED BY <2>2 DEF Spread
  <1> HIDE DEF G
  <1>12. Spread(1, Gap)'
    <2>1. \A i \in 1 .. G : i + 1 \in 1 .. G => granted[i + 1] - granted[i] >= Gap
      BY <1>2 DEF RateInv, RateKept, Spread
    <2>2. G # 0 => now - granted[G] >= Gap
      <3> SUFFICES ASSUME G # 0 PROVE now - granted[G] >= Gap OBVIOUS
      <3>1. granted # <<>> /\ G \in 1 .. G
        BY <1>2 DEF G
      <3>2. last = granted[G] /\ granted[G] \in Nat /\ granted[G] <= now
        BY <1>2, <3>1 DEF RateInv, G
      <3>3. ~ (Gap > 0 /\ last # Never /\ now - last < Gap)
        BY DEF Allow, TooSoon
      <3> QED BY <1>1, <3>2, <3>3 DEF Never
    <2>3. ASSUME NEW i \in 1 .. G + 1, i + 1 \in 1 .. G + 1 PROVE granted'[i + 1] - granted'[i] >= Gap
      <3>1. CASE i + 1 \in 1 .. G
        <4>1. i \in 1 .. G
          BY <1>2, <3>1
        <4> QED BY <1>9, <2>1, <3>1, <4>1
      <3>2. CASE i + 1 \notin 1 .. G
        <4>1. i = G /\ i \in 1 .. G
          BY <1>2, <2>3, <3>2
        <4> QED BY <1>9, <2>2, <4>1
      <3> QED BY <3>1, <3>2
    <2>4. Gap' = Gap
      BY DEF Gap
    <2> QED BY <1>9, <2>3, <2>4 DEF Spread
  <1>13. Sorted(granted')
    <2> SUFFICES ASSUME NEW i \in 1 .. G + 1, NEW j \in 1 .. G + 1, i <= j
                 PROVE  granted'[i] <= granted'[j]
      BY <1>9 DEF Sorted
    <2>1. CASE j = G + 1
      <3>1. granted'[i] <= now
        <4>1. CASE i = G + 1 BY <1>1, <1>9, <4>1
        <4>2. CASE i # G + 1
          <5>1. i \in 1 .. G BY <1>2, <4>2
          <5> QED BY <1>2, <1>9, <5>1
        <4> QED BY <4>1, <4>2
      <3> QED BY <1>9, <2>1, <3>1
    <2>2. CASE j # G + 1
      <3>1. i \in 1 .. G /\ j \in 1 .. G
        BY <1>2, <2>2
      <3> QED BY <1>2, <1>9, <3>1 DEF Sorted
    <2> QED BY <2>1, <2>2
  <1>14. \A i \in DOMAIN granted' : granted'[i] <= now
    <2> SUFFICES ASSUME NEW i \in 1 .. G + 1 PROVE granted'[i] <= now
      BY <1>9
    <2>1. CASE i = G + 1 BY <1>1, <1>9, <2>1
    <2>2. CASE i # G + 1
      <3>1. i \in 1 .. G BY <1>2, <2>2
      <3> QED BY <1>2, <1>9, <3>1
    <2> QED BY <2>1, <2>2
  <1>15. last' = IF granted' = <<>> THEN Never ELSE granted'[Len(granted')]
    <2>1. granted' # <<>>
      BY <1>2, <1>9
    <2> QED BY <1>6, <1>9, <2>1
  <1> QED BY <1>7, <1>8, <1>9, <1>10, <1>11, <1>12, <1>13, <1>14, <1>15 DEF RateInv, RateKept

\* Only these touch the limiter.
LEMMA Next_Rate == TypeInv /\ RateInv /\ [Next]_vars => RateInv'
  <1> SUFFICES ASSUME TypeInv, RateInv, [Next]_vars PROVE RateInv' OBVIOUS
  <1>1. CASE Tick
    BY <1>1, Tick_Rate
  <1>2. ASSUME NEW r \in Requests, Allowed(r) PROVE RateInv'
    BY <1>2, Allow_Rate DEF Allowed
  <1>3. ASSUME NEW r \in Requests, Refused(r) PROVE RateInv'
    BY <1>3, Refuse_Rate DEF Refused
  <1>4. CASE UNCHANGED <<kind, now, limiterVars>>
    BY <1>4 DEF limiterVars, RateInv, RateKept, Spread, Gap
  <1>5. ASSUME NEW r \in Requests,
               \/ Search(r) \/ Check(r) \/ Delay(r) \/ Post(r) \/ Fails(r) \/ Limited(r)
               \/ Measure(r) \/ EnterCooldown(r) \/ Succeeds(r) \/ Count(r) \/ Rotate(r) \/ Reset(r)
        PROVE  UNCHANGED <<kind, now, limiterVars>>
    BY <1>5 DEF Search, Check, Delay, Post, Fails, Limited, Measure, EnterCooldown, Succeeds,
                Count, Rotate, Reset
  <1> QED BY <1>1, <1>2, <1>3, <1>4, <1>5 DEF Next, Step, vars

\* RateKept: the limiter's bounds hold of every second and every minute, for
\* every rate and every length of the windows, although calls that are refused
\* prune them too; and arXiv's accepted calls leave its gap.
THEOREM Spec_RateKept == Spec => []RateKept
  <1>1. Init => RateInv
    <2> SUFFICES ASSUME Init PROVE RateInv OBVIOUS
    <2>1. granted = <<>> /\ secWindow = <<>> /\ minWindow = <<>> /\ last = Never
      BY DEF Init, LimiterInit
    <2>2. DOMAIN granted = {} /\ Len(granted) = 0
      BY <2>1
    <2>3. RateKept
      BY <2>2 DEF RateKept, Spread
    <2>4. Kept(<<>>, <<>>, now, Second) /\ Kept(<<>>, <<>>, now, Minute)
      BY DEF Kept
    <2> QED BY <2>1, <2>2, <2>3, <2>4 DEF RateInv, Sorted
  <1>2. RateInv => RateKept
    BY DEF RateInv
  <1> QED BY <1>1, <1>2, Init_Type, Next_Type, Next_Rate, PTL DEF Spec
=============================================================================
