------------------------ MODULE AcademicSearch_proofs ------------------------
(* Proofs about AcademicSearch, for every set of calls, engines and ranges: *)
(* a call that names its engines has its range honoured, a timeout is final *)
(* and the events of a call tell the engines that failed in it.             *)
EXTENDS AcademicSearch, SequenceTheorems, TLAPS

Labels == {"new", "write", "spawn", "wait", "lookup", "enrich", "answered", "failed"}
Known == Ranges \cup {NoRange}
Uses == [range : Known, page : Pages]

TypeInv ==
  /\ timeRange \in Known
  /\ opt \in [Requests -> Params]
  /\ pc \in [Requests -> Labels]
  /\ job \in [Requests -> [Engines -> {"none", "queued", "slot", "done"}]]
  /\ resp \in [Requests -> [Engines -> {"none", "results", "empty", "error", "timeout"}]]
  /\ used \in [Requests -> [Engines -> SUBSET Uses]]
  /\ recorded \in [Requests -> [Engines -> {"none", "ok", "failed"}]]
  /\ DOMAIN found = Requests /\ DOMAIN answer = Requests

\* f was searched with range x only.
OwnRange(f, x) == \A e \in DOMAIN f : \A s \in f[e] : s.range = x

\* What a call that names its engines searches with, finds and is answered
\* with, and the rows of such calls, which only calls with their range find.
RangeInv ==
  /\ \A r \in Requests : opt[r].engines # {} =>
       /\ OwnRange(used[r], opt[r].range)
       /\ OwnRange(found[r], opt[r].range)
       /\ OwnRange(answer[r], opt[r].range)
  /\ \A k \in DOMAIN cache : k[3] # {} => OwnRange(cache[k], k[2])

\* A response is there when its job is done, there are no jobs before the
\* call spawns them, and they are all done when it goes on.
\* A call that is over has recorded what its responses say.
Entry(r, e) ==
  /\ resp[r][e] # "none" => job[r][e] = "done"
  /\ pc[r] \in {"new", "write", "spawn", "lookup"} => job[r][e] = "none"
  /\ pc[r] = "wait" /\ e \notin Selected(r) => job[r][e] = "none"
  /\ pc[r] \in {"enrich", "answered", "failed"} => job[r][e] \in {"none", "done"}
  /\ pc[r] \in {"new", "write"} => recorded[r][e] # "failed"
  /\ pc[r] \in {"answered", "failed"} =>
       (recorded[r][e] = "failed" <=> resp[r][e] \in {"error", "timeout"})

JobInv == \A r \in Requests : \A e \in Engines : Entry(r, e)

SearchInv == TypeInv /\ RangeInv /\ JobInv

-----------------------------------------------------------------------------
\* The invariant holds at the start.
LEMMA Init_Inv == Init => SearchInv
  <1> SUFFICES ASSUME Init PROVE SearchInv OBVIOUS
  <1>1. TypeInv
    BY CallsAssumption DEF Init, TypeInv, Off, Nothing, Known, Labels
  <1>2. RangeInv
    BY DEF Init, RangeInv, OwnRange, Nothing
  <1>3. JobInv
    BY DEF Init, JobInv, Entry, Off
  <1> QED BY <1>1, <1>2, <1>3 DEF SearchInv

\* The range an engine is searched with is one of those known.
LEMMA RangeOf_Type ==
  ASSUME TypeInv, NEW r \in Requests
  PROVE  /\ RangeOf(r) \in Known
         /\ opt[r].engines # {} => RangeOf(r) = opt[r].range
  <1>1. opt[r].range \in Known
    BY DEF TypeInv, Params, Known
  <1> QED BY <1>1 DEF RangeOf, TypeInv

\* What changing one entry of a table leaves.
LEMMA Put_Table ==
  ASSUME NEW S, NEW f \in [Requests -> [Engines -> S]], NEW v \in S,
         NEW r \in Requests, NEW e \in Engines,
         NEW g, g = [f EXCEPT ![r][e] = v]
  PROVE  /\ g \in [Requests -> [Engines -> S]]
         /\ g[r][e] = v
         /\ \A o \in Requests, d \in Engines : <<o, d>> # <<r, e>> => g[o][d] = f[o][d]
  <1>1. f[r] \in [Engines -> S] /\ [f[r] EXCEPT ![e] = v] \in [Engines -> S]
    OBVIOUS
  <1>2. g = [f EXCEPT ![r] = [f[r] EXCEPT ![e] = v]]
    OBVIOUS
  <1>3. g \in [Requests -> [Engines -> S]]
    BY <1>1, <1>2
  <1>4. g[r] = [f[r] EXCEPT ![e] = v] /\ \A o \in Requests \ {r} : g[o] = f[o]
    BY <1>2
  <1> QED BY <1>1, <1>3, <1>4

\* What Record leaves in the events.
LEMMA Record_Table ==
  ASSUME TypeInv, NEW r \in Requests, NEW ran, NEW failed, Record(r, ran, failed)
  PROVE  /\ recorded' \in [Requests -> [Engines -> {"none", "ok", "failed"}]]
         /\ \A e \in Engines : recorded'[r][e] = "failed" <=> e \in failed
         /\ \A o \in Requests \ {r} : recorded'[o] = recorded[o]
  <1> DEFINE row == [e \in Engines |->
               IF e \in failed THEN "failed" ELSE IF e \in ran THEN "ok" ELSE "none"]
  <1>1. row \in [Engines -> {"none", "ok", "failed"}]
    OBVIOUS
  <1>2. \A e \in Engines : row[e] = "failed" <=> e \in failed
    OBVIOUS
  <1>3. recorded' = [recorded EXCEPT ![r] = row]
    BY DEF Record
  <1> HIDE DEF row
  <1>4. recorded \in [Requests -> [Engines -> {"none", "ok", "failed"}]]
    BY DEF TypeInv
  <1> QED BY <1>1, <1>2, <1>3, <1>4

\* Every step keeps the types.
LEMMA Step_Type == TypeInv /\ [Next]_vars => TypeInv'
  <1> SUFFICES ASSUME TypeInv, [Next]_vars PROVE TypeInv' OBVIOUS
  <1> USE DEF TypeInv, callVars, jobVars, endVars, Goto, Record, Labels
  <1>1. CASE UNCHANGED vars
    BY <1>1 DEF vars
  <1>2. ASSUME NEW r \in Requests, Progress(r) PROVE TypeInv'
    <2>1. CASE LookUp(r)
      <3>1. CASE Record(r, Named(CacheKey(r)), {}) /\ Goto(r, "answered")
                 /\ answer' = [answer EXCEPT ![r] = cache[CacheKey(r)]]
        <4>1. recorded' \in [Requests -> [Engines -> {"none", "ok", "failed"}]]
          BY <3>1, Record_Table
        <4> HIDE DEF Record
        <4> QED BY <2>1, <3>1, <4>1 DEF LookUp
      <3>2. CASE /\ UNCHANGED answer
                 /\ UNCHANGED recorded \/ Record(r, Named(CacheKey(r)), {})
                 /\ Goto(r, IF opt[r].kind = "words" THEN "write" ELSE "lookup")
        <4>1. recorded' \in [Requests -> [Engines -> {"none", "ok", "failed"}]]
          <5>1. CASE UNCHANGED recorded BY <5>1
          <5>2. CASE Record(r, Named(CacheKey(r)), {}) BY <5>2, Record_Table
          <5> QED BY <3>2, <5>1, <5>2
        <4> HIDE DEF Record
        <4> QED BY <2>1, <3>2, <4>1 DEF LookUp
      <3> QED BY <2>1, <3>1, <3>2 DEF LookUp
    <2>2. CASE WriteRange(r) BY <2>2 DEF WriteRange, Params, Known
    <2>3. CASE Spawn(r) BY <2>3 DEF Spawn
    <2>4. CASE Collect(r)
      <3>1. recorded' \in [Requests -> [Engines -> {"none", "ok", "failed"}]]
        <4>1. CASE Record(r, Selected(r), Bad(r)) BY <4>1, Record_Table
        <4>2. CASE UNCHANGED recorded BY <4>2
        <4> QED BY <2>4, <4>1, <4>2 DEF Collect
      <3>2. pc' \in [Requests -> Labels] /\ DOMAIN found' = Requests
        BY <2>4 DEF Collect, StartEnrich
      <3> HIDE DEF Record
      <3> QED BY <2>4, <3>1, <3>2 DEF Collect
    <2>5. CASE Looked(r)
      <3>1. recorded' \in [Requests -> [Engines -> {"none", "ok", "failed"}]]
        <4>1. CASE Record(r, Selected(r), {}) BY <4>1, Record_Table
        <4>2. CASE UNCHANGED recorded BY <4>2
        <4> QED BY <2>5, <4>1, <4>2 DEF Looked
      <3>2. pc' \in [Requests -> Labels]
        BY <2>5 DEF Looked, StartEnrich
      <3> HIDE DEF Record
      <3> QED BY <2>5, <3>1, <3>2 DEF Looked
    <2>6. CASE Finish(r) BY <2>6 DEF Finish
    <2>7. ASSUME NEW e \in Engines, Acquire(r, e) \/ Timeout(r, e) PROVE TypeInv'
      <3>1. CASE Acquire(r, e)
        <4>1. job' \in [Requests -> [Engines -> {"none", "queued", "slot", "done"}]]
          BY <3>1 DEF Acquire
        <4> QED BY <3>1, <4>1 DEF Acquire
      <3>2. CASE Timeout(r, e)
        <4>1. job' \in [Requests -> [Engines -> {"none", "queued", "slot", "done"}]]
          BY <3>2 DEF Timeout
        <4>2. resp' \in [Requests -> [Engines -> {"none", "results", "empty", "error", "timeout"}]]
          BY <3>2 DEF Timeout
        <4> QED BY <3>2, <4>1, <4>2 DEF Timeout
      <3> QED BY <2>7, <3>1, <3>2
    <2>8. ASSUME NEW s \in asked[r], SourceEnds(r, s) PROVE TypeInv'
      BY <2>8 DEF SourceEnds
    <2>9. ASSUME NEW p \in Papers, EnterGate(r, p) \/ GiveUp(r, p) \/ LeaveGate(r, p)
          PROVE TypeInv'
      BY <2>9 DEF EnterGate, GiveUp, LeaveGate, PdfBecomes
    <2> QED BY <1>2, <2>1, <2>2, <2>3, <2>4, <2>5, <2>6, <2>7, <2>8, <2>9 DEF Progress
  <1>3. ASSUME NEW r \in Requests, NEW e \in Engines, CallEngine(r, e) PROVE TypeInv'
    <2>1. [range |-> RangeOf(r), page |-> opt[r].page] \in Uses
      BY RangeOf_Type DEF Uses, Params
    <2> QED BY <1>3, <2>1 DEF CallEngine
  <1>4. ASSUME NEW r \in Requests, NEW e \in Engines, EngineEnds(r, e) PROVE TypeInv'
    <2>1. CASE UNCHANGED <<resp, job>>
      BY <1>4, <2>1 DEF EngineEnds
    <2>2. CASE \E outcome \in Outcomes : resp' = [resp EXCEPT ![r][e] = outcome]
                                       /\ job' = [job EXCEPT ![r][e] = "done"]
      <3>1. job' \in [Requests -> [Engines -> {"none", "queued", "slot", "done"}]]
        BY <2>2, Put_Table
      <3>2. resp' \in [Requests -> [Engines -> {"none", "results", "empty", "error", "timeout"}]]
        BY <2>2, Put_Table DEF Outcomes
      <3> QED BY <1>4, <3>1, <3>2 DEF EngineEnds
    <2> QED BY <1>4, <2>1, <2>2 DEF EngineEnds
  <1> QED BY <1>1, <1>2, <1>3, <1>4 DEF Next

-----------------------------------------------------------------------------
\* Only the call itself changes its parameters, and no step does.
LEMMA Opt_Constant == [Next]_vars => opt' = opt
  BY DEF Next, Progress, vars, LookUp, WriteRange, Spawn, Acquire, CallEngine, EngineEnds,
         Timeout, Collect, SourceEnds, Looked, EnterGate, GiveUp, LeaveGate, PdfBecomes, Finish

\* The parts of the call and of the cache that RangeInv is about stay so.
LEMMA Range_Same ==
  ASSUME RangeInv, UNCHANGED <<opt, used, found, answer, cache>>
  PROVE  RangeInv'
  BY DEF RangeInv, OwnRange

\* A hit of a call that names its engines is a row of its own range.
LEMMA LookUp_Range ==
  ASSUME TypeInv, RangeInv, NEW r \in Requests, LookUp(r)
  PROVE  RangeInv'
  <1>1. CASE UNCHANGED answer
    BY <1>1, Range_Same DEF LookUp, jobVars
  <1>2. CASE CacheKey(r) \in DOMAIN cache /\ answer' = [answer EXCEPT ![r] = cache[CacheKey(r)]]
    <2>1. UNCHANGED <<opt, used, found, cache>>
      BY DEF LookUp, jobVars
    <2>2. opt[r].engines # {} => OwnRange(cache[CacheKey(r)], opt[r].range)
      BY <1>2 DEF RangeInv, CacheKey
    <2>3. \A o \in Requests : answer'[o] = IF o = r THEN cache[CacheKey(r)] ELSE answer[o]
      BY <1>2 DEF TypeInv
    <2>4. ASSUME NEW o \in Requests, opt[o].engines # {} PROVE OwnRange(answer'[o], opt[o].range)
      BY <2>2, <2>3, <2>4 DEF RangeInv
    <2> QED BY <2>1, <2>4 DEF RangeInv, OwnRange
  <1> QED BY <1>1, <1>2 DEF LookUp

\* What a call finds was searched by its engines.
LEMMA Collect_Range ==
  ASSUME TypeInv, RangeInv, NEW r \in Requests, Collect(r)
  PROVE  RangeInv'
  <1>1. CASE UNCHANGED found
    BY <1>1, Range_Same DEF Collect, jobVars
  <1>2. CASE found' = [found EXCEPT ![r] = [e \in Good(r) |-> used[r][e]]]
    <2> DEFINE row == [e \in Good(r) |-> used[r][e]]
    <2>1. UNCHANGED <<opt, used, answer, cache>>
      BY DEF Collect, jobVars
    <2>2. opt[r].engines # {} => OwnRange(row, opt[r].range)
      BY DEF RangeInv, OwnRange, TypeInv, Good
    <2>3. \A o \in Requests : found'[o] = IF o = r THEN row ELSE found[o]
      BY <1>2 DEF TypeInv
    <2> HIDE DEF row
    <2>4. ASSUME NEW o \in Requests, opt[o].engines # {} PROVE OwnRange(found'[o], opt[o].range)
      BY <2>2, <2>3, <2>4 DEF RangeInv
    <2> QED BY <2>1, <2>4 DEF RangeInv, OwnRange
  <1> QED BY <1>1, <1>2 DEF Collect

\* A paper that was looked up was not searched with any range.
LEMMA SourceEnds_Range ==
  ASSUME TypeInv, RangeInv, NEW r \in Requests, NEW s \in asked[r], SourceEnds(r, s)
  PROVE  RangeInv'
  <1>1. CASE UNCHANGED found
    BY <1>1, Range_Same DEF SourceEnds, jobVars, endVars
  <1>2. CASE found' = [found EXCEPT ![r] = IF @ = Nothing THEN [o \in {s} |-> {}] ELSE @]
    <2> DEFINE one == [o \in {s} |-> {}]
    <2>1. UNCHANGED <<opt, used, answer, cache>>
      BY DEF SourceEnds, jobVars, endVars
    <2>2. OwnRange(one, opt[r].range)
      BY DEF OwnRange
    <2>3. found' = [found EXCEPT ![r] = IF found[r] = Nothing THEN one ELSE found[r]]
      BY <1>2
    <2> HIDE DEF one
    <2>4. \A o \in Requests : found'[o] = found[o] \/ (o = r /\ found'[o] = one)
      BY <2>3 DEF TypeInv
    <2>5. ASSUME NEW o \in Requests, opt[o].engines # {} PROVE OwnRange(found'[o], opt[o].range)
      BY <2>2, <2>4, <2>5 DEF RangeInv
    <2> QED BY <2>1, <2>5 DEF RangeInv, OwnRange
  <1> QED BY <1>1, <1>2 DEF SourceEnds

\* The row that is stored, and the answer, are what was found.
LEMMA Finish_Range ==
  ASSUME TypeInv, RangeInv, NEW r \in Requests, Finish(r)
  PROVE  RangeInv'
  <1>1. UNCHANGED <<opt, used, found>>
    BY DEF Finish, callVars, jobVars
  <1>2. opt[r].engines # {} => OwnRange(found[r], opt[r].range)
    BY DEF RangeInv
  <1>3. \A o \in Requests : answer'[o] = IF o = r THEN found[r] ELSE answer[o]
    BY DEF Finish, TypeInv
  <1>4. ASSUME NEW o \in Requests, opt[o].engines # {} PROVE OwnRange(answer'[o], opt[o].range)
    BY <1>2, <1>3, <1>4 DEF RangeInv
  <1>5. ASSUME NEW k \in DOMAIN cache', k[3] # {} PROVE OwnRange(cache'[k], k[2])
    <2>1. CASE k = CacheKey(r)
      <3>1. cache'[k] = found[r] BY <2>1 DEF Finish
      <3>2. k[2] = opt[r].range /\ k[3] = opt[r].engines BY <2>1 DEF CacheKey
      <3> QED BY <1>2, <1>5, <3>1, <3>2
    <2>2. CASE k # CacheKey(r)
      <3>1. k \in DOMAIN cache /\ cache'[k] = cache[k] BY <2>2, <1>5 DEF Finish
      <3> QED BY <1>5, <3>1 DEF RangeInv
    <2> QED BY <2>1, <2>2
  <1> QED BY <1>1, <1>4, <1>5 DEF RangeInv, OwnRange

\* An engine of a call that names it is called with the call's own range.
LEMMA CallEngine_Range ==
  ASSUME TypeInv, RangeInv, NEW r \in Requests, NEW e \in Engines, CallEngine(r, e)
  PROVE  RangeInv'
  <1> DEFINE use == {[range |-> RangeOf(r), page |-> opt[r].page]}
  <1>1. UNCHANGED <<opt, found, answer, cache>>
    BY DEF CallEngine, endVars
  <1>2. opt[r].engines # {} => \A s \in use : s.range = opt[r].range
    BY RangeOf_Type
  <1>3. \A o \in Requests : used'[o] = IF o = r THEN [used[r] EXCEPT ![e] = use] ELSE used[o]
    BY DEF CallEngine, TypeInv
  <1> HIDE DEF use
  <1>4. ASSUME NEW o \in Requests, opt[o].engines # {} PROVE OwnRange(used'[o], opt[o].range)
    <2>1. CASE o = r
      <3>1. DOMAIN used[r] = Engines /\ OwnRange(used[r], opt[r].range)
        BY <1>4, <2>1 DEF RangeInv, TypeInv
      <3>2. used'[o] = [used[r] EXCEPT ![e] = use]
        BY <1>3, <2>1
      <3>3. DOMAIN used'[o] = Engines
        BY <3>1, <3>2
      <3>4. ASSUME NEW d \in Engines PROVE \A s \in used'[o][d] : s.range = opt[o].range
        <4>1. CASE d = e BY <1>2, <1>4, <2>1, <3>1, <3>2, <4>1
        <4>2. CASE d # e
          <5>1. used'[o][d] = used[r][d] BY <3>1, <3>2, <4>2
          <5> QED BY <2>1, <3>1, <5>1 DEF OwnRange
        <4> QED BY <4>1, <4>2
      <3> QED BY <3>3, <3>4 DEF OwnRange
    <2>2. CASE o # r
      BY <1>3, <1>4, <2>2 DEF RangeInv
    <2> QED BY <2>1, <2>2
  <1> QED BY <1>1, <1>4 DEF RangeInv, OwnRange

\* Every step keeps the ranges.
LEMMA Step_Range == TypeInv /\ RangeInv /\ [Next]_vars => RangeInv'
  <1> SUFFICES ASSUME TypeInv, RangeInv, [Next]_vars PROVE RangeInv' OBVIOUS
  <1>1. CASE UNCHANGED vars
    BY <1>1, Range_Same DEF vars, callVars, jobVars, endVars
  <1>2. ASSUME NEW r \in Requests, Progress(r) PROVE RangeInv'
    <2>1. CASE LookUp(r) BY <2>1, LookUp_Range
    <2>2. CASE WriteRange(r) \/ Spawn(r) \/ Looked(r)
      BY <2>2, Range_Same DEF WriteRange, Spawn, Looked, callVars, jobVars, endVars
    <2>3. CASE Collect(r) BY <2>3, Collect_Range
    <2>4. CASE Finish(r) BY <2>4, Finish_Range
    <2>5. ASSUME NEW e \in Engines, Acquire(r, e) \/ Timeout(r, e) PROVE RangeInv'
      BY <2>5, Range_Same DEF Acquire, Timeout, endVars
    <2>6. ASSUME NEW s \in asked[r], SourceEnds(r, s) PROVE RangeInv'
      BY <2>6, SourceEnds_Range
    <2>7. ASSUME NEW p \in Papers, EnterGate(r, p) \/ GiveUp(r, p) \/ LeaveGate(r, p)
          PROVE RangeInv'
      BY <2>7, Range_Same DEF EnterGate, GiveUp, LeaveGate, PdfBecomes, jobVars, endVars
    <2> QED BY <1>2, <2>1, <2>2, <2>3, <2>4, <2>5, <2>6, <2>7 DEF Progress
  <1>3. ASSUME NEW r \in Requests, NEW e \in Engines, CallEngine(r, e) PROVE RangeInv'
    BY <1>3, CallEngine_Range
  <1>4. ASSUME NEW r \in Requests, NEW e \in Engines, EngineEnds(r, e) PROVE RangeInv'
    BY <1>4, Range_Same DEF EngineEnds, endVars
  <1> QED BY <1>1, <1>2, <1>3, <1>4 DEF Next

-----------------------------------------------------------------------------
\* A step that changes nothing an entry is about.
LEMMA Entry_Same ==
  ASSUME JobInv, opt' = opt, NEW o \in Requests, NEW d \in Engines,
         pc'[o] = pc[o], job'[o][d] = job[o][d], resp'[o][d] = resp[o][d],
         recorded'[o][d] = recorded[o][d]
  PROVE  Entry(o, d)'
  BY DEF JobInv, Entry, Selected

\* A step of a call changes the entries of no other call.
LEMMA Entry_Other ==
  ASSUME JobInv, opt' = opt, NEW o \in Requests, NEW d \in Engines,
         pc'[o] = pc[o], job'[o] = job[o], resp'[o] = resp[o], recorded'[o] = recorded[o]
  PROVE  Entry(o, d)'
  BY Entry_Same

\* What the call itself does, from the look at the cache to its end.
LEMMA Call_Job ==
  ASSUME TypeInv, JobInv, opt' = opt, NEW r \in Requests,
         LookUp(r) \/ WriteRange(r) \/ Spawn(r) \/ Collect(r) \/ Looked(r) \/ Finish(r)
  PROVE  JobInv'
  <1> SUFFICES ASSUME NEW o \in Requests, NEW d \in Engines PROVE Entry(o, d)'
    BY DEF JobInv
  <1>1. Entry(o, d) /\ pc[o] \in Labels /\ pc \in [Requests -> Labels]
        /\ job \in [Requests -> [Engines -> {"none", "queued", "slot", "done"}]]
    BY DEF JobInv, TypeInv
  <1>2. CASE LookUp(r)
    <2>1. UNCHANGED <<job, resp>> BY <1>2 DEF LookUp, jobVars
    <2>2. CASE Record(r, Named(CacheKey(r)), {}) /\ Goto(r, "answered")
      <3>1. CASE o = r
        <4>1. pc'[o] = "answered" /\ recorded'[o][d] # "failed"
          BY <1>1, <2>2, <3>1, Record_Table DEF Goto
        <4>2. job'[o][d] = "none" /\ resp'[o][d] = "none"
          BY <1>1, <1>2, <2>1, <3>1 DEF LookUp, Entry
        <4> QED BY <4>1, <4>2 DEF Entry
      <3>2. CASE o # r
        <4>1. pc'[o] = pc[o] /\ recorded'[o] = recorded[o]
          BY <1>1, <2>2, <3>2, Record_Table DEF Goto
        <4> QED BY <2>1, <4>1, Entry_Other
      <3> QED BY <3>1, <3>2
    <2>3. CASE /\ UNCHANGED recorded \/ Record(r, Named(CacheKey(r)), {})
               /\ Goto(r, IF opt[r].kind = "words" THEN "write" ELSE "lookup")
      <3>1. recorded'[o][d] = "failed" => recorded[o][d] = "failed"
        BY <1>1, <2>3, Record_Table
      <3>2. CASE o = r
        <4>1. pc'[o] \in {"write", "lookup"} /\ pc[o] = "new"
          BY <1>1, <1>2, <2>3, <3>2 DEF LookUp, Goto
        <4> QED BY <1>1, <2>1, <3>1, <4>1 DEF Entry
      <3>3. CASE o # r
        <4>1. pc'[o] = pc[o] /\ recorded'[o] = recorded[o]
          BY <1>1, <2>3, <3>3, Record_Table DEF Goto
        <4> QED BY <2>1, <4>1, Entry_Other
      <3> QED BY <3>2, <3>3
    <2> QED BY <1>2, <2>2, <2>3 DEF LookUp
  <1>3. CASE WriteRange(r)
    BY <1>1, <1>3 DEF WriteRange, callVars, jobVars, endVars, Goto, Entry, Selected
  <1>4. CASE Spawn(r)
    <2>1. UNCHANGED <<resp, recorded>> BY <1>4 DEF Spawn, endVars
    <2>2. CASE o = r
      <3>1. pc'[o] = "wait" /\ job'[o][d] = IF d \in Selected(r) THEN "queued" ELSE "none"
        BY <1>1, <1>4, <2>2 DEF Spawn, Goto
      <3>2. resp[o][d] = "none"
        BY <1>1, <1>4, <2>2 DEF Spawn, Entry
      <3> QED BY <2>1, <2>2, <3>1, <3>2 DEF Entry, Selected
    <2>3. CASE o # r
      <3>1. pc'[o] = pc[o] /\ job'[o] = job[o]
        BY <1>1, <1>4, <2>3 DEF Spawn, Goto
      <3> QED BY <2>1, <3>1, Entry_Other
    <2> QED BY <2>2, <2>3
  <1>5. CASE Collect(r)
    <2>1. UNCHANGED <<job, resp>> BY <1>5 DEF Collect, jobVars
    <2>2. o = r => job[o][d] \in {"none", "done"}
      BY <1>1, <1>5 DEF Collect, Entry
    <2>3. CASE Record(r, Selected(r), Bad(r)) /\ Goto(r, "failed")
      <3>1. CASE o = r
        <4>1. pc'[o] = "failed" /\ (recorded'[o][d] = "failed" <=> d \in Bad(r))
          BY <1>1, <2>3, <3>1, Record_Table DEF Goto
        <4> QED BY <1>1, <2>1, <2>2, <3>1, <4>1 DEF Entry, Bad
      <3>2. CASE o # r
        <4>1. pc'[o] = pc[o] /\ recorded'[o] = recorded[o]
          BY <1>1, <2>3, <3>2, Record_Table DEF Goto
        <4> QED BY <2>1, <4>1, Entry_Other
      <3> QED BY <3>1, <3>2
    <2>4. CASE StartEnrich(r) /\ UNCHANGED recorded
      BY <1>1, <2>1, <2>2, <2>4 DEF StartEnrich, Goto, Entry, Selected
    <2> QED BY <1>5, <2>3, <2>4 DEF Collect
  <1>6. CASE Looked(r)
    <2>1. UNCHANGED <<job, resp>> BY <1>6 DEF Looked, jobVars
    <2>2. o = r => job[o][d] = "none" /\ resp[o][d] = "none"
      BY <1>1, <1>6 DEF Looked, Entry
    <2>3. CASE Record(r, Selected(r), {}) /\ Goto(r, "failed")
      <3>1. CASE o = r
        <4>1. pc'[o] = "failed" /\ recorded'[o][d] # "failed"
          BY <1>1, <2>3, <3>1, Record_Table DEF Goto
        <4> QED BY <2>1, <2>2, <3>1, <4>1 DEF Entry
      <3>2. CASE o # r
        <4>1. pc'[o] = pc[o] /\ recorded'[o] = recorded[o]
          BY <1>1, <2>3, <3>2, Record_Table DEF Goto
        <4> QED BY <2>1, <4>1, Entry_Other
      <3> QED BY <3>1, <3>2
    <2>4. CASE StartEnrich(r) /\ UNCHANGED recorded
      BY <1>1, <2>1, <2>2, <2>4 DEF StartEnrich, Goto, Entry, Selected
    <2> QED BY <1>6, <2>3, <2>4 DEF Looked
  <1>7. CASE Finish(r)
    <2>1. UNCHANGED <<job, resp>> BY <1>7 DEF Finish, callVars, jobVars
    <2>2. Record(r, Selected(r), Bad(r)) /\ Goto(r, "answered") BY <1>7 DEF Finish
    <2>3. CASE o = r
      <3>1. pc'[o] = "answered" /\ (recorded'[o][d] = "failed" <=> d \in Bad(r))
        BY <1>1, <2>2, <2>3, Record_Table DEF Goto
      <3>2. job[o][d] \in {"none", "done"}
        BY <1>1, <1>7, <2>3 DEF Finish, Entry
      <3> QED BY <1>1, <2>1, <2>3, <3>1, <3>2 DEF Entry, Bad
    <2>4. CASE o # r
      <3>1. pc'[o] = pc[o] /\ recorded'[o] = recorded[o]
        BY <1>1, <2>2, <2>4, Record_Table DEF Goto
      <3> QED BY <2>1, <3>1, Entry_Other
    <2> QED BY <2>3, <2>4
  <1> QED BY <1>2, <1>3, <1>4, <1>5, <1>6, <1>7

\* What the jobs and the engines do.  Only a job that has the slot responds,
\* and it is done with that.
LEMMA Job_Job ==
  ASSUME TypeInv, JobInv, opt' = opt, NEW r \in Requests, NEW e \in Engines,
         Acquire(r, e) \/ Timeout(r, e) \/ CallEngine(r, e) \/ EngineEnds(r, e)
  PROVE  JobInv' /\ (resp[r][e] = "timeout" => resp'[r][e] = "timeout")
         /\ \A o \in Requests, d \in Engines : <<o, d>> # <<r, e>> => resp'[o][d] = resp[o][d]
  <1> DEFINE Jobs == [Requests -> [Engines -> {"none", "queued", "slot", "done"}]]
             Resps == [Requests -> [Engines -> {"none", "results", "empty", "error", "timeout"}]]
             Only(f, g) == \A o \in Requests, d \in Engines : <<o, d>> # <<r, e>> => f[o][d] = g[o][d]
  <1>1. Entry(r, e) /\ pc[r] \in Labels /\ job \in Jobs /\ resp \in Resps
    BY DEF JobInv, TypeInv
  <1>2. UNCHANGED <<pc, recorded>>
    BY DEF Acquire, Timeout, CallEngine, EngineEnds, endVars
  <1>3. /\ Only(job', job) /\ Only(resp', resp)
        /\ \/ UNCHANGED <<job, resp>>
           \/ job[r][e] = "queued" /\ job'[r][e] = "slot" /\ resp' = resp
           \/ job[r][e] = "slot" /\ job'[r][e] = "done" /\ resp'[r][e] # "none"
    <2>1. CASE Acquire(r, e)
      <3>1. job'[r][e] = "slot" /\ Only(job', job) BY <1>1, <2>1 DEF Acquire
      <3> QED BY <2>1, <3>1 DEF Acquire
    <2>2. CASE Timeout(r, e)
      <3>1. job'[r][e] = "done" /\ Only(job', job) BY <1>1, <2>2 DEF Timeout
      <3>2. resp'[r][e] = "timeout" /\ Only(resp', resp) BY <1>1, <2>2 DEF Timeout
      <3> QED BY <2>2, <3>1, <3>2 DEF Timeout
    <2>3. CASE CallEngine(r, e)
      BY <2>3 DEF CallEngine
    <2>4. CASE EngineEnds(r, e) /\ job[r][e] = "slot"
      <3>1. PICK outcome \in Outcomes : /\ resp' = [resp EXCEPT ![r][e] = outcome]
                                        /\ job' = [job EXCEPT ![r][e] = "done"]
        BY <2>4 DEF EngineEnds
      <3>2. job'[r][e] = "done" /\ Only(job', job) BY <1>1, <3>1
      <3>3. resp'[r][e] = outcome /\ Only(resp', resp) BY <1>1, <3>1
      <3>4. outcome # "none" BY DEF Outcomes
      <3> QED BY <2>4, <3>2, <3>3, <3>4
    <2>5. CASE EngineEnds(r, e) /\ job[r][e] # "slot"
      BY <2>5 DEF EngineEnds
    <2> QED BY <2>1, <2>2, <2>3, <2>4, <2>5
  <1>4. resp[r][e] = "timeout" => resp'[r][e] = "timeout"
    BY <1>1, <1>3 DEF Entry
  <1>5. Entry(r, e)'
    BY <1>1, <1>2, <1>3 DEF Entry, Selected, Labels
  <1>6. ASSUME NEW o \in Requests, NEW d \in Engines, <<o, d>> # <<r, e>> PROVE Entry(o, d)'
    BY <1>2, <1>3, <1>6, Entry_Same
  <1> QED BY <1>3, <1>4, <1>5, <1>6 DEF JobInv

\* Every step keeps the jobs, and a timeout stays one.
LEMMA Step_Job ==
  ASSUME TypeInv, JobInv, [Next]_vars
  PROVE  /\ JobInv'
         /\ \A o \in Requests, d \in Engines : resp[o][d] = "timeout" => resp'[o][d] = "timeout"
  <1>1. opt' = opt
    BY Opt_Constant
  <1>2. CASE UNCHANGED vars
    BY <1>2 DEF vars, callVars, jobVars, endVars, JobInv, Entry, Selected
  <1>3. ASSUME NEW r \in Requests, NEW e \in Engines,
               Acquire(r, e) \/ Timeout(r, e) \/ CallEngine(r, e) \/ EngineEnds(r, e)
        PROVE  JobInv' /\ \A o \in Requests, d \in Engines :
                            resp[o][d] = "timeout" => resp'[o][d] = "timeout"
    <2>1. JobInv' /\ (resp[r][e] = "timeout" => resp'[r][e] = "timeout")
          /\ \A o \in Requests, d \in Engines : <<o, d>> # <<r, e>> => resp'[o][d] = resp[o][d]
      BY <1>1, <1>3, Job_Job
    <2> QED BY <2>1
  <1>4. ASSUME NEW r \in Requests,
               LookUp(r) \/ WriteRange(r) \/ Spawn(r) \/ Collect(r) \/ Looked(r) \/ Finish(r)
        PROVE  JobInv' /\ resp' = resp
    <2>1. JobInv' BY <1>1, <1>4, Call_Job
    <2>2. resp' = resp
      BY <1>4 DEF LookUp, WriteRange, Spawn, Collect, Looked, Finish, callVars, jobVars
    <2> QED BY <2>1, <2>2
  <1>5. ASSUME NEW r \in Requests,
               \/ \E s \in asked[r] : SourceEnds(r, s)
               \/ \E p \in Papers : EnterGate(r, p) \/ GiveUp(r, p) \/ LeaveGate(r, p)
        PROVE  JobInv' /\ resp' = resp
    <2>1. UNCHANGED <<pc, job, resp, recorded>>
      BY <1>5 DEF SourceEnds, EnterGate, GiveUp, LeaveGate, PdfBecomes, jobVars, endVars
    <2> QED BY <1>1, <2>1, Entry_Same DEF JobInv
  <1> QED BY <1>2, <1>3, <1>4, <1>5 DEF Next, Progress

\* The invariant is inductive.
LEMMA Step_Inv == SearchInv /\ [Next]_vars => SearchInv'
  BY Step_Type, Step_Range, Step_Job DEF SearchInv

-----------------------------------------------------------------------------
\* SubsetHonoursRange: a call that names its engines is answered with what was
\* searched with its own range, however many calls share the searcher.
THEOREM Spec_SubsetHonoursRange == Spec => []SubsetHonoursRange
  <1>1. SearchInv => SubsetHonoursRange
    <2> SUFFICES ASSUME SearchInv, NEW r \in Requests, opt[r].engines # {}
                 PROVE  /\ \A e \in Engines : \A s \in used[r][e] : s.range = opt[r].range
                        /\ \A e \in DOMAIN answer[r] : \A s \in answer[r][e] : s.range = opt[r].range
      BY DEF SubsetHonoursRange
    <2>1. OwnRange(used[r], opt[r].range) /\ OwnRange(answer[r], opt[r].range)
      BY DEF SearchInv, RangeInv
    <2>2. DOMAIN used[r] = Engines
      BY DEF SearchInv, TypeInv
    <2> QED BY <2>1, <2>2 DEF OwnRange
  <1> QED BY <1>1, Init_Inv, Step_Inv, PTL DEF Spec

\* FailuresAreRecorded: the events of a call that is over name the engines
\* that failed in it and no others.
THEOREM Spec_FailuresAreRecorded == Spec => []FailuresAreRecorded
  <1>1. SearchInv => FailuresAreRecorded
    BY DEF SearchInv, JobInv, Entry, FailuresAreRecorded
  <1> QED BY <1>1, Init_Inv, Step_Inv, PTL DEF Spec

\* TimeoutIsFinal: no late answer replaces a timeout.
THEOREM Spec_TimeoutIsFinal == Spec => TimeoutIsFinal
  <1> DEFINE Final == \A r \in Requests : \A e \in Engines :
                        resp[r][e] = "timeout" => resp'[r][e] = "timeout"
  <1>1. SearchInv /\ [Next]_vars => [Final]_vars
    BY Step_Job DEF SearchInv
  <1> QED BY <1>1, Init_Inv, Step_Inv, PTL DEF Spec, TimeoutIsFinal
=============================================================================
