--------------------------- MODULE PageFetch_proofs ---------------------------
(* Proofs about the fetches and the telemetry they leave, for every set of  *)
(* calls and urls and every setting: advice is accepted, the two views of a *)
(* day agree, a source is down or suspended on three failures only, and the *)
(* chain of a lone call is exact.                                           *)
EXTENDS PageFetch, FiniteSetTheorems, WellFoundedInduction, TLAPS

Labels == {"off", "start", "fetch", "local", "task", "upload", "engine", "jina", "poll", "sleep", "commit", "done"}
Results == {"none", "error", "text", "file"}
Providers == {"webfetch", "jina"}

AttemptRecords ==
  [kind : {"provider"}, name : Providers, ok : BOOLEAN, error : Errors \cup {"none"},
   of : Calls \X Urls, chain : {NoChain}]

JobRecords ==
  [pc : Labels, left : Nat, attempt : AttemptRecords \cup {<<>>}, now : Nat, result : Results]

CallRecords ==
  [pc : {"idle", "open", "done", "lost"}, kind : Kinds, urls : SUBSET Urls, started : Nat,
   failed : BOOLEAN, pages : SUBSET Nat, count : Nat, advice : {<<>>} \cup (Nat \X Nat)]

\* The calls, the goroutines of their urls and the clock have their types.
TypeInv ==
  /\ clock \in Nat
  /\ ready \in BOOLEAN
  /\ conf \in Settings
  /\ call \in [Calls -> CallRecords]
  /\ job \in [Calls -> [Urls -> JobRecords]]

-----------------------------------------------------------------------------
(* Arithmetic                                                              *)

LEMMA DivMod ==
  ASSUME NEW a \in Nat, NEW d \in Nat \ {0}
  PROVE  /\ a \div d \in Nat
         /\ (a \div d) * d <= a
         /\ a < (a \div d) * d + d
  OBVIOUS

LEMMA DivMono ==
  ASSUME NEW a \in Nat, NEW b \in Nat, a <= b, NEW d \in Nat \ {0}
  PROVE  a \div d <= b \div d
  OBVIOUS

LEMMA DivShift ==
  ASSUME NEW a \in Nat, NEW b \in Nat, NEW d \in Nat \ {0}, a + d <= b
  PROVE  a \div d < b \div d
  OBVIOUS

LEMMA MulMono ==
  ASSUME NEW a \in Int, NEW b \in Int, a <= b, NEW d \in Nat
  PROVE  a * d <= b * d
  OBVIOUS

LEMMA Constants ==
  /\ {Second, DayLength, Sample, Ban} \subseteq Nat \ {0}
  /\ {MaxPages, FileTTL, Polls, MaxBatch} \subseteq Nat \ {0}
  /\ {EnrichPolls, WidthCap, MaxCount, ChainLimit, Slack} \subseteq Nat
  BY TelemetryConstants, PageFetchConstants

LEMMA SecondsAreNat ==
  ASSUME NEW t \in Nat
  PROVE  Seconds(t) \in Nat /\ Seconds(t) * Second <= t /\ t < Seconds(t) * Second + Second
  BY Constants, DivMod DEF Seconds

-----------------------------------------------------------------------------
(* Types                                                                   *)

LEMMA Init_Type == Init => TypeInv
  <1> SUFFICES ASSUME Init PROVE TypeInv
    OBVIOUS
  <1>1. NoCall \in CallRecords
    BY DEF NoCall, CallRecords, Kinds
  <1>2. NoJob \in JobRecords
    BY DEF NoJob, JobRecords, Labels, Results
  <1>3. ready \in BOOLEAN /\ clock \in Nat
    BY PageFetchConstants DEF Init
  <1> QED BY <1>1, <1>2, <1>3 DEF Init, TypeInv

LEMMA PagesOf_Type ==
  ASSUME NEW spec \in Specs
  PROVE  PagesOf(spec) \in SUBSET Nat
  <1>1. spec \in Seq(Nat \X Nat)
    BY PageFetchConstants
  <1>2. ASSUME NEW i \in DOMAIN spec PROVE spec[i][1]..spec[i][2] \subseteq Nat
    <2>1. spec[i] \in Nat \X Nat
      BY <1>1, <1>2
    <2> QED BY <2>1
  <1> QED BY <1>2 DEF PagesOf

LEMMA Setting_Type ==
  ASSUME TypeInv, NEW c \in Calls
  PROVE  /\ conf.kinds[c] \subseteq Kinds
         /\ \A urls \in conf.urls[c] : urls \subseteq Urls
         /\ conf.jina \in BOOLEAN /\ conf.mineru \in BOOLEAN /\ conf.ocr \in BOOLEAN
  BY PageFetchConstants DEF TypeInv

LEMMA Advice_Type ==
  ASSUME NEW pages, NEW count \in Nat
  PROVE  Advice(pages, count) \in {<<>>} \cup (Nat \X Nat)
  BY Constants DEF Advice, Least

LEMMA Attempt_Type ==
  ASSUME NEW c \in Calls, NEW u \in Urls, NEW p \in Providers, NEW e \in Errors \cup {"none"}
  PROVE  Attempt(c, u, p, e) \in AttemptRecords
  BY DEF Attempt, AttemptRecords

\* A goroutine that goes on, ends, or has something to record.
LEMMA Go_Type ==
  ASSUME TypeInv, NEW c \in Calls, NEW u \in Urls, NEW pc \in Labels, Go(c, u, pc)
  PROVE  job' \in [Calls -> [Urls -> JobRecords]]
  <1>1. [job[c][u] EXCEPT !.pc = pc] \in JobRecords
    <2>1. job[c][u] \in JobRecords
      BY DEF TypeInv
    <2> QED BY <2>1 DEF JobRecords
  <1>2. job' = [job EXCEPT ![c] = [job[c] EXCEPT ![u] = [job[c][u] EXCEPT !.pc = pc]]]
    BY DEF Go, TypeInv
  <1> QED BY <1>1, <1>2 DEF TypeInv

LEMMA Done_Type ==
  ASSUME TypeInv, NEW c \in Calls, NEW u \in Urls, NEW result \in Results, Done(c, u, result)
  PROVE  job' \in [Calls -> [Urls -> JobRecords]]
  <1>1. [job[c][u] EXCEPT !.pc = "done", !.result = result] \in JobRecords
    <2>1. job[c][u] \in JobRecords
      BY DEF TypeInv
    <2> QED BY <2>1 DEF JobRecords, Labels
  <1>2. job' = [job EXCEPT ![c] = [job[c] EXCEPT ![u] = [job[c][u] EXCEPT !.pc = "done", !.result = result]]]
    BY DEF Done, TypeInv
  <1> QED BY <1>1, <1>2 DEF TypeInv

LEMMA ToCommit_Type ==
  ASSUME TypeInv, NEW c \in Calls, NEW u \in Urls, NEW p \in Providers, NEW result \in Results,
         NEW e \in Errors \cup {"none"}, ToCommit(c, u, p, result, e)
  PROVE  job' \in [Calls -> [Urls -> JobRecords]]
  <1> DEFINE new == [job[c][u] EXCEPT !.pc = "commit", !.result = result, !.now = clock,
                                      !.attempt = Attempt(c, u, p, e)]
  <1>1. new \in JobRecords
    <2>1. Attempt(c, u, p, e) \in AttemptRecords
      BY Attempt_Type
    <2>2. job[c][u] \in JobRecords /\ clock \in Nat
      BY DEF TypeInv
    <2> QED BY <2>1, <2>2 DEF JobRecords, Labels
  <1>2. job' = [job EXCEPT ![c] = [job[c] EXCEPT ![u] = new]]
    BY DEF ToCommit, TypeInv
  <1> HIDE DEF new
  <1> QED BY <1>1, <1>2 DEF TypeInv

LEMMA Leave_Type ==
  ASSUME TypeInv, NEW c \in Calls, NEW u \in Urls, NEW result \in Results,
         NEW e \in Errors \cup {"none"}, NEW n \in Nat, Leave(c, u, result, e, n)
  PROVE  job' \in [Calls -> [Urls -> JobRecords]] /\ call' \in [Calls -> CallRecords]
  <1>1. job' \in [Calls -> [Urls -> JobRecords]]
    BY ToCommit_Type, Done_Type DEF Leave, Providers
  <1>2. call' \in [Calls -> CallRecords]
    <2>1. CASE call[c].kind # "pdf"
      BY <2>1 DEF Leave, TypeInv
    <2>2. CASE call[c].kind = "pdf"
      <3>1. [call[c] EXCEPT !.count = n, !.advice = Advice(call[c].pages, n)] \in CallRecords
        <4>1. call[c] \in CallRecords
          BY DEF TypeInv
        <4>2. Advice(call[c].pages, n) \in {<<>>} \cup (Nat \X Nat)
          BY Advice_Type
        <4> QED BY <4>1, <4>2 DEF CallRecords
      <3>2. call' = [call EXCEPT ![c] = [call[c] EXCEPT !.count = n, !.advice = Advice(call[c].pages, n)]]
        BY <2>2 DEF Leave, TypeInv
      <3> QED BY <3>1, <3>2 DEF TypeInv
    <2> QED BY <2>1, <2>2
  <1> QED BY <1>1, <1>2

LEMMA NoCall_Type == NoCall \in CallRecords /\ NoJob \in JobRecords
  BY DEF NoCall, CallRecords, Kinds, NoJob, JobRecords, Labels, Results

LEMMA Open_Type ==
  ASSUME TypeInv, NEW c \in Calls, NEW kind \in Kinds, NEW urls \in SUBSET Urls,
         NEW pages \in SUBSET Nat, Open(c, kind, urls, pages)
  PROVE  TypeInv'
  <1> DEFINE k == [NoCall EXCEPT !.pc = "open", !.kind = kind, !.urls = urls,
                                 !.started = clock, !.pages = pages]
             j == [NoJob EXCEPT !.pc = "start", !.left = Left(kind)]
  <1>1. k \in CallRecords
    BY NoCall_Type DEF CallRecords, TypeInv
  <1>2. j \in JobRecords
    <2>1. Left(kind) \in Nat
      BY Constants DEF Left
    <2> QED BY <2>1, NoCall_Type DEF JobRecords, Labels
  <1>3. [u \in Urls |-> IF u \in urls THEN j ELSE NoJob] \in [Urls -> JobRecords]
    <2> HIDE DEF j
    <2> QED BY <1>2, NoCall_Type
  <1>4. /\ call' = [call EXCEPT ![c] = k]
        /\ job' = [job EXCEPT ![c] = [u \in Urls |-> IF u \in urls THEN j ELSE NoJob]]
        /\ UNCHANGED <<clock, ready, conf>>
    BY DEF Open, static
  <1> HIDE DEF k, j
  <1>5. call' \in [Calls -> CallRecords] /\ job' \in [Calls -> [Urls -> JobRecords]]
    BY <1>1, <1>3, <1>4 DEF TypeInv
  <1> QED BY <1>4, <1>5 DEF TypeInv

LEMMA Reject_Type ==
  ASSUME TypeInv, NEW c \in Calls, NEW kind \in Kinds, Reject(c, kind)
  PROVE  TypeInv'
  <1> DEFINE k == [NoCall EXCEPT !.pc = "open", !.kind = kind, !.started = clock, !.failed = TRUE]
  <1>1. k \in CallRecords
    BY NoCall_Type DEF CallRecords, TypeInv
  <1>2. call' = [call EXCEPT ![c] = k] /\ UNCHANGED <<job, clock, ready, conf>>
    BY DEF Reject, static
  <1> HIDE DEF k
  <1> QED BY <1>1, <1>2 DEF TypeInv

LEMMA Finish_Type ==
  ASSUME TypeInv, NEW c \in Calls, Finish(c)
  PROVE  TypeInv'
  <1> DEFINE k == [NoCall EXCEPT !.pc = "done"]
  <1>1. k \in CallRecords
    BY NoCall_Type DEF CallRecords
  <1>2. call' = [call EXCEPT ![c] = k] /\ job' = [job EXCEPT ![c] = [u \in Urls |-> NoJob]]
        /\ UNCHANGED <<clock, ready, conf>>
    BY DEF Finish, static
  <1>3. [u \in Urls |-> NoJob] \in [Urls -> JobRecords]
    BY NoCall_Type
  <1> HIDE DEF k
  <1>4. call' \in [Calls -> CallRecords] /\ job' \in [Calls -> [Urls -> JobRecords]]
    BY <1>1, <1>2, <1>3 DEF TypeInv
  <1> QED BY <1>2, <1>4 DEF TypeInv

LEMMA Restart_Type ==
  ASSUME TypeInv, Restart
  PROVE  TypeInv'
  <1> DEFINE k == [NoCall EXCEPT !.pc = "lost"]
  <1>1. k \in CallRecords
    BY NoCall_Type DEF CallRecords
  <1>2. /\ call' = [c \in Calls |-> IF call[c].pc = "open" THEN k ELSE call[c]]
        /\ job' = [c \in Calls |-> IF call[c].pc = "open" THEN [u \in Urls |-> NoJob] ELSE job[c]]
        /\ ready' \in BOOLEAN /\ UNCHANGED <<clock, conf>>
    BY DEF Restart
  <1>3. [u \in Urls |-> NoJob] \in [Urls -> JobRecords]
    BY NoCall_Type
  <1> HIDE DEF k
  <1>4. call' \in [Calls -> CallRecords]
    BY <1>1, <1>2 DEF TypeInv
  <1>5. job' \in [Calls -> [Urls -> JobRecords]]
    BY <1>2, <1>3 DEF TypeInv
  <1> QED BY <1>2, <1>4, <1>5 DEF TypeInv

LEMMA Fails_Type ==
  ASSUME TypeInv, NEW c \in Calls, NEW u \in Urls, NEW e \in Errors, Fails(c, u, e)
  PROVE  job' \in [Calls -> [Urls -> JobRecords]] /\ call' \in [Calls -> CallRecords]
  BY Leave_Type DEF Fails, Results

LEMMA Returns_Type ==
  ASSUME TypeInv, NEW c \in Calls, NEW u \in Urls, NEW n \in Counts(c), Returns(c, u, n)
  PROVE  job' \in [Calls -> [Urls -> JobRecords]] /\ call' \in [Calls -> CallRecords]
  <1>1. n \in Nat
    BY Constants DEF Counts
  <1> QED BY <1>1, Leave_Type DEF Returns, Results

LEMMA MineruFails_Type ==
  ASSUME TypeInv, NEW c \in Calls, NEW u \in Urls, MineruFails(c, u)
  PROVE  job' \in [Calls -> [Urls -> JobRecords]] /\ call' \in [Calls -> CallRecords]
  BY Fails_Type, Go_Type DEF MineruFails, Labels, TypeInv

LEMMA Poll_Type ==
  ASSUME TypeInv, NEW c \in Calls, NEW u \in Urls, Poll(c, u)
  PROVE  job' \in [Calls -> [Urls -> JobRecords]] /\ call' \in [Calls -> CallRecords]
  <1>1. CASE MineruFails(c, u)
    BY <1>1, MineruFails_Type
  <1>2. CASE Leave(c, u, "text", "none", 0)
    BY <1>2, Leave_Type DEF Results
  <1>3. ASSUME job[c][u].left > 0, UNCHANGED call,
               job' = [job EXCEPT ![c][u].pc = "sleep", ![c][u].left = @ - 1]
        PROVE  job' \in [Calls -> [Urls -> JobRecords]] /\ call' \in [Calls -> CallRecords]
    <2> DEFINE new == [job[c][u] EXCEPT !.pc = "sleep", !.left = job[c][u].left - 1]
    <2>1. new \in JobRecords
      <3>1. job[c][u] \in JobRecords
        BY DEF TypeInv
      <3>2. job[c][u].left - 1 \in Nat
        BY <3>1, <1>3 DEF JobRecords
      <3> QED BY <3>1, <3>2 DEF JobRecords, Labels
    <2>2. job' = [job EXCEPT ![c] = [job[c] EXCEPT ![u] = new]]
      BY <1>3 DEF TypeInv
    <2> HIDE DEF new
    <2> QED BY <2>1, <2>2, <1>3 DEF TypeInv
  <1> QED BY <1>1, <1>2, <1>3 DEF Poll

LEMMA Step_Type ==
  ASSUME TypeInv, NEW c \in Calls, NEW u \in Urls, Step(c, u)
  PROVE  TypeInv'
  <1>1. UNCHANGED <<clock, conf>> /\ ready' \in BOOLEAN
    BY DEF Step, Refuse, Ensure, Fetch, Engine, Local, Task, Upload, Poll, Wake, Jina, Commit, static, TypeInv
  <1>2. job' \in [Calls -> [Urls -> JobRecords]] /\ call' \in [Calls -> CallRecords]
    <2>1. CASE Refuse(c, u)
      BY <2>1, Done_Type DEF Refuse, Results, TypeInv
    <2>2. CASE Ensure(c, u)
      BY <2>2, Done_Type, Go_Type DEF Ensure, Results, Labels, TypeInv
    <2>3. CASE Fetch(c, u)
      <3>1. FirstWay(u) \in Labels
        BY DEF FirstWay, Labels
      <3> QED BY <2>3, <3>1, Done_Type, Go_Type DEF Fetch, Results, Labels, TypeInv
    <2>4. CASE Engine(c, u)
      BY <2>4, Fails_Type, Returns_Type DEF Engine
    <2>5. CASE Local(c, u)
      BY <2>5, Fails_Type, Returns_Type, Go_Type DEF Local, Labels, TypeInv
    <2>6. CASE Task(c, u)
      BY <2>6, MineruFails_Type, Go_Type DEF Task, Labels, TypeInv
    <2>11. CASE Upload(c, u)
      BY <2>11, MineruFails_Type, Go_Type DEF Upload, Labels, TypeInv
    <2>7. CASE Poll(c, u)
      BY <2>7, Poll_Type
    <2>8. CASE Wake(c, u)
      BY <2>8, Go_Type DEF Wake, Labels, TypeInv
    <2>9. CASE Jina(c, u)
      BY <2>9, ToCommit_Type DEF Jina, Results, Providers, TypeInv
    <2>10. CASE Commit(c, u)
      BY <2>10, Go_Type DEF Commit, Labels, TypeInv
    <2> QED BY <2>1, <2>2, <2>3, <2>4, <2>5, <2>6, <2>7, <2>8, <2>9, <2>10, <2>11 DEF Step
  <1> QED BY <1>1, <1>2 DEF TypeInv

\* A step is one of the following, and the url of a goroutine is a url.
LEMMA NextCases ==
  ASSUME TypeInv, [Next]_vars
  PROVE  \/ \E c \in Calls, kind \in Kinds, urls \in SUBSET Urls, pages \in SUBSET Nat :
               /\ Open(c, kind, urls, pages)
               /\ kind = "clean" => Cardinality(urls) <= MaxBatch
               /\ kind = "pdf" => \E u \in Urls : urls = {u}
         \/ \E c \in Calls, kind \in Kinds : Reject(c, kind)
         \/ \E c \in Calls : Finish(c)
         \/ \E c \in Calls, u \in Urls : u \in call[c].urls /\ Step(c, u)
         \/ Sweep \/ RemoveFile \/ Tick \/ Restart \/ UNCHANGED vars
  <1>1. ASSUME NEW c \in Calls, Clean(c)
        PROVE  \/ \E urls \in SUBSET Urls : Open(c, "clean", urls, {}) /\ Cardinality(urls) <= MaxBatch
               \/ Reject(c, "clean")
    <2>1. PICK urls \in {us \in conf.urls[c] : us \cap Locals = {}} :
            IF urls = {} \/ Cardinality(urls) > MaxBatch THEN Reject(c, "clean")
            ELSE Open(c, "clean", urls, {})
      BY <1>1 DEF Clean
    <2>2. urls \in SUBSET Urls
      BY Setting_Type
    <2>3. IsFiniteSet(urls)
      BY <2>2, PageFetchConstants, FS_Subset
    <2>4. Cardinality(urls) \in Nat /\ MaxBatch \in Nat
      BY <2>3, FS_CardinalityType, Constants
    <2> QED BY <2>1, <2>2, <2>4
  <1>2. ASSUME NEW c \in Calls, Enrich(c)
        PROVE  \E urls \in SUBSET Urls : Open(c, "enrich", urls, {})
    BY <1>2, Setting_Type DEF Enrich
  <1>3. ASSUME NEW c \in Calls, Pdf(c)
        PROVE  \/ \E u \in Urls, pages \in SUBSET Nat : Open(c, "pdf", {u}, pages)
               \/ Reject(c, "pdf")
    <2>1. PICK spec \in Specs, u \in UNION conf.urls[c] :
            IF ~Wellformed(spec) \/ Cardinality(PagesOf(spec)) > MaxPages \/ ~ready
            THEN Reject(c, "pdf") ELSE Open(c, "pdf", {u}, PagesOf(spec))
      BY <1>3 DEF Pdf
    <2>2. u \in Urls
      BY Setting_Type
    <2> QED BY <2>1, <2>2, PagesOf_Type
  <1>4. \A c \in Calls : call[c].urls \subseteq Urls
    BY DEF TypeInv, CallRecords
  <1> DEFINE Opens(c, kind, urls, pages) ==
               /\ Open(c, kind, urls, pages)
               /\ kind = "clean" => Cardinality(urls) <= MaxBatch
               /\ kind = "pdf" => \E u \in Urls : urls = {u}
  <1>5. ASSUME NEW c \in Calls, Clean(c) \/ Enrich(c) \/ Pdf(c)
        PROVE  \/ \E kind \in Kinds, urls \in SUBSET Urls, pages \in SUBSET Nat : Opens(c, kind, urls, pages)
               \/ \E kind \in Kinds : Reject(c, kind)
    <2>1. {"clean", "enrich", "pdf"} \subseteq Kinds /\ {} \in SUBSET Nat
      BY DEF Kinds
    <2>2. ASSUME NEW urls \in SUBSET Urls, Open(c, "clean", urls, {}), Cardinality(urls) <= MaxBatch
          PROVE  Opens(c, "clean", urls, {})
      BY <2>2
    <2>3. ASSUME NEW urls \in SUBSET Urls, Open(c, "enrich", urls, {})
          PROVE  Opens(c, "enrich", urls, {})
      BY <2>3
    <2>4. ASSUME NEW u \in Urls, NEW pages \in SUBSET Nat, Open(c, "pdf", {u}, pages)
          PROVE  Opens(c, "pdf", {u}, pages) /\ {u} \in SUBSET Urls
      BY <2>4
    <2> HIDE DEF Opens
    <2>5. CASE Clean(c)
      BY <2>5, <1>1, <2>1, <2>2
    <2>6. CASE Enrich(c)
      BY <2>6, <1>2, <2>1, <2>3
    <2>7. CASE Pdf(c)
      BY <2>7, <1>3, <2>1, <2>4
    <2> QED BY <1>5, <2>5, <2>6, <2>7
  <1>6. \/ \E c \in Calls : Clean(c) \/ Enrich(c) \/ Pdf(c)
        \/ \E c \in Calls : Finish(c)
        \/ \E c \in Calls, u \in Urls : u \in call[c].urls /\ Step(c, u)
        \/ Sweep \/ RemoveFile \/ Tick \/ Restart \/ UNCHANGED vars
    BY <1>4 DEF Next
  <1>7. CASE \E c \in Calls : Clean(c) \/ Enrich(c) \/ Pdf(c)
    <2> HIDE DEF Opens
    <2>1. \/ \E c \in Calls, kind \in Kinds, urls \in SUBSET Urls, pages \in SUBSET Nat : Opens(c, kind, urls, pages)
          \/ \E c \in Calls, kind \in Kinds : Reject(c, kind)
      BY <1>5, <1>7
    <2> QED BY <2>1 DEF Opens
  <1> QED BY <1>6, <1>7

LEMMA Next_Type == TypeInv /\ [Next]_vars => TypeInv'
  <1> SUFFICES ASSUME TypeInv, [Next]_vars PROVE TypeInv'
    OBVIOUS
  <1>1. CASE Sweep \/ RemoveFile \/ UNCHANGED vars
    BY <1>1 DEF Sweep, RemoveFile, vars, static, TypeInv
  <1>2. CASE Tick
    BY <1>2 DEF Tick, TypeInv
  <1> QED BY NextCases, Open_Type, Reject_Type, Finish_Type, Step_Type, Restart_Type, <1>1, <1>2

\* The types, for any calls, urls and settings.
THEOREM Spec_Type == Spec => []TypeInv
  BY Init_Type, Next_Type, PTL DEF Spec

-----------------------------------------------------------------------------
(* What a goroutine does beyond its own state                              *)

LEMMA StepTime ==
  ASSUME NEW c, NEW u, Step(c, u)
  PROVE  UNCHANGED <<clock, conf>>
  BY DEF Step, Refuse, Ensure, Fetch, Engine, Local, Task, Upload, Poll, Wake, Jina, Commit, static

\* It leaves its call alone, or tells a call of pdf_parser what it read.
LEMMA StepTells ==
  ASSUME TypeInv, NEW c \in Calls, NEW u \in Urls, Step(c, u)
  PROVE  \/ call' = call
         \/ \E n \in Nat : call' = [call EXCEPT ![c] = [call[c] EXCEPT
                                        !.count = n, !.advice = Advice(call[c].pages, n)]]
  <1> DEFINE Tells == \E n \in Nat : call' = [call EXCEPT ![c] = [call[c] EXCEPT
                                        !.count = n, !.advice = Advice(call[c].pages, n)]]
  <1>1. ASSUME NEW result, NEW e, NEW n \in Nat, Leave(c, u, result, e, n)
        PROVE  call' = call \/ Tells
    <2>1. \/ call' = call
          \/ call' = [call EXCEPT ![c] = [call[c] EXCEPT !.count = n, !.advice = Advice(call[c].pages, n)]]
      BY <1>1 DEF Leave, TypeInv
    <2> QED BY <2>1
  <1> HIDE DEF Tells
  <1>2. ASSUME NEW e, Fails(c, u, e) PROVE call' = call \/ Tells
    BY <1>1, <1>2 DEF Fails
  <1>3. ASSUME NEW n \in Counts(c), Returns(c, u, n) PROVE call' = call \/ Tells
    <2>1. n \in Nat
      BY Constants DEF Counts
    <2> QED BY <1>1, <1>3, <2>1 DEF Returns
  <1>4. ASSUME MineruFails(c, u) PROVE call' = call \/ Tells
    BY <1>2, <1>4 DEF MineruFails
  <1>5. CASE Engine(c, u) \/ Local(c, u)
    <2>1. ASSUME Engine(c, u) PROVE call' = call \/ Tells
      BY <1>2, <1>3, <2>1 DEF Engine
    <2>2. ASSUME Local(c, u) PROVE call' = call \/ Tells
      BY <1>2, <1>3, <2>2 DEF Local
    <2> QED BY <1>5, <2>1, <2>2 DEF Tells
  <1>6. CASE Task(c, u) \/ Upload(c, u) \/ Poll(c, u)
    <2>1. ASSUME Task(c, u) \/ Upload(c, u) PROVE call' = call \/ Tells
      BY <1>4, <2>1 DEF Task, Upload
    <2>2. ASSUME Poll(c, u) PROVE call' = call \/ Tells
      BY <1>1, <1>4, <2>2 DEF Poll
    <2> QED BY <1>6, <2>1, <2>2 DEF Tells
  <1>7. CASE Refuse(c, u) \/ Ensure(c, u) \/ Fetch(c, u) \/ Wake(c, u) \/ Jina(c, u) \/ Commit(c, u)
    BY <1>7 DEF Refuse, Ensure, Fetch, Wake, Jina, Commit
  <1> QED BY <1>5, <1>6, <1>7 DEF Step, Tells

-----------------------------------------------------------------------------
(* The advice of a truncated document                                      *)

\* Advice is given to a call that named no pages, of a document longer than
\* one call may read.
AdviceInv ==
  \A c \in Calls :
    call[c].advice # <<>> =>
      /\ call[c].pages = {}
      /\ call[c].count > MaxPages
      /\ call[c].advice = <<MaxPages + 1, Least(MaxPages * 2, call[c].count)>>

LEMMA Next_Advice ==
  ASSUME TypeInv, AdviceInv, [Next]_vars
  PROVE  AdviceInv'
  <1> USE DEF AdviceInv
  <1>1. CASE UNCHANGED call
    BY <1>1
  <1>2. ASSUME NEW c \in Calls, call' = [call EXCEPT ![c] = call'[c]], call'[c].advice = <<>>
        PROVE  AdviceInv'
    BY <1>2 DEF TypeInv
  <1>3. ASSUME NEW c \in Calls, NEW kind \in Kinds, NEW urls, NEW pages, Open(c, kind, urls, pages)
        PROVE  AdviceInv'
    BY <1>2, <1>3 DEF Open, NoCall, TypeInv
  <1>4. ASSUME NEW c \in Calls, NEW kind \in Kinds, Reject(c, kind) PROVE AdviceInv'
    BY <1>2, <1>4 DEF Reject, NoCall, TypeInv
  <1>5. ASSUME NEW c \in Calls, Finish(c) PROVE AdviceInv'
    BY <1>2, <1>5 DEF Finish, NoCall, TypeInv
  <1>6. CASE Restart
    BY <1>6 DEF Restart, NoCall, TypeInv
  <1>7. CASE Sweep \/ RemoveFile \/ Tick \/ UNCHANGED vars
    BY <1>1, <1>7 DEF Sweep, RemoveFile, Tick, vars
  <1>8. ASSUME NEW c \in Calls, NEW u \in Urls, Step(c, u), call' # call PROVE AdviceInv'
    <2>1. PICK n \in Nat : call' = [call EXCEPT ![c] = [call[c] EXCEPT
                                       !.count = n, !.advice = Advice(call[c].pages, n)]]
      BY <1>8, StepTells
    <2>2. call[c] \in CallRecords
      BY DEF TypeInv
    <2>3. call'[c] = [call[c] EXCEPT !.count = n, !.advice = Advice(call[c].pages, n)]
      BY <2>1 DEF TypeInv
    <2>4. call'[c].count = n /\ call'[c].pages = call[c].pages /\ call'[c].advice = Advice(call[c].pages, n)
      BY <2>2, <2>3 DEF CallRecords
    <2>5. call'[c].advice # <<>> =>
            /\ call'[c].pages = {} /\ call'[c].count > MaxPages
            /\ call'[c].advice = <<MaxPages + 1, Least(MaxPages * 2, call'[c].count)>>
      BY <2>4, Constants DEF Advice
    <2>6. \A d \in Calls : d # c => call'[d] = call[d]
      BY <2>1 DEF TypeInv
    <2> QED BY <2>5, <2>6
  <1> QED BY NextCases, <1>1, <1>3, <1>4, <1>5, <1>6, <1>7, <1>8

\* What the advice of such a call amounts to.
LEMMA AdviceMeans ==
  ASSUME TypeInv, AdviceInv, MaxPages <= WidthCap
  PROVE  AdviceIsAccepted
  <1> SUFFICES ASSUME NEW c \in Calls, call[c].advice # <<>>
               PROVE  /\ Wellformed(<<call[c].advice>>)
                      /\ Cardinality(PagesOf(<<call[c].advice>>)) <= MaxPages
                      /\ PagesOf(<<call[c].advice>>) \subseteq 1..call[c].count
                      /\ ParsedCount(call[c].pages, call[c].count) + 1 = call[c].advice[1]
    BY DEF AdviceIsAccepted
  <1> DEFINE n == call[c].count
             last == Least(MaxPages * 2, n)
  <1>1. n \in Nat /\ call[c].pages = {} /\ n > MaxPages /\ call[c].advice = <<MaxPages + 1, last>>
    BY DEF AdviceInv, TypeInv, CallRecords
  <1>2. /\ last \in Nat /\ MaxPages + 1 <= last /\ last <= n /\ last - MaxPages <= MaxPages
        /\ MaxPages \in Nat \ {0} /\ WidthCap \in Nat
    BY <1>1, Constants DEF Least
  <1> HIDE DEF last
  <1>3. Wellformed(<<call[c].advice>>)
    BY <1>1, <1>2 DEF Wellformed
  <1>4. PagesOf(<<call[c].advice>>) = MaxPages + 1 .. last
    <2>1. DOMAIN <<call[c].advice>> = {1} /\ <<call[c].advice>>[1] = <<MaxPages + 1, last>>
      BY <1>1
    <2>2. PagesOf(<<call[c].advice>>) = UNION {<<call[c].advice>>[i][1]..<<call[c].advice>>[i][2] : i \in {1}}
      BY <2>1 DEF PagesOf
    <2>3. {<<call[c].advice>>[i][1]..<<call[c].advice>>[i][2] : i \in {1}} = {MaxPages + 1 .. last}
      BY <2>1
    <2> QED BY <2>2, <2>3
  <1>5. Cardinality(MaxPages + 1 .. last) = last - (MaxPages + 1) + 1
    BY <1>2, FS_Interval
  <1>6. ParsedCount(call[c].pages, n) = MaxPages
    BY <1>1, <1>2 DEF ParsedCount, Least
  <1> QED BY <1>1, <1>2, <1>3, <1>4, <1>5, <1>6

\* AdviceIsAccepted: whatever a document's length and the pages a caller may
\* ask for, the pages the preamble names are a specification the handler
\* accepts, if max_pages is within the width one range may have.
THEOREM Spec_AdviceIsAccepted ==
  ASSUME MaxPages <= WidthCap
  PROVE  Spec => []AdviceIsAccepted
  <1>1. Init => AdviceInv
    BY DEF Init, AdviceInv, NoCall
  <1>2. Spec => []AdviceInv
    BY <1>1, Next_Advice, Spec_Type, PTL DEF Spec
  <1>3. TypeInv /\ AdviceInv => AdviceIsAccepted
    BY AdviceMeans
  <1> QED BY <1>2, <1>3, Spec_Type, PTL

-----------------------------------------------------------------------------
(* The ways of a goroutine: it reads, it has an attempt to record, it       *)
(* records it, it ends.                                                     *)

Early == {"start", "fetch", "local", "task", "upload", "engine", "poll", "sleep"}

GoesOn(c, u) ==
  /\ job[c][u].pc \in Early
  /\ job'[c][u].pc \in Early \cup {"jina"}
  /\ job'[c][u].now = job[c][u].now
  /\ UNCHANGED telemetry

Ends(c, u) ==
  /\ job[c][u].pc \in Early
  /\ job'[c][u].pc = "done"
  /\ job'[c][u].now = job[c][u].now
  /\ call[c].kind = "clean" => job'[c][u].result = "error"
  /\ UNCHANGED telemetry

Tries(c, u) ==
  LET a == job'[c][u].attempt
  IN  /\ job[c][u].pc \in Early \cup {"jina"}
      /\ job'[c][u].pc = "commit"
      /\ job'[c][u].now = clock
      /\ a \in AttemptRecords
      /\ a.of = <<c, u>>
      /\ a.name = IF job[c][u].pc = "jina" THEN "jina" ELSE "webfetch"
      /\ a.ok <=> job'[c][u].result # "error"
      /\ a.ok <=> a.error = "none"
      /\ UNCHANGED telemetry

Commits(c, u) ==
  LET a == job[c][u].attempt
  IN  /\ job[c][u].pc = "commit"
      /\ job'[c][u].pc \in {"jina", "done"}
      /\ job'[c][u].pc = "jina" => a.name = "webfetch" /\ ~a.ok
      /\ job'[c][u].now = job[c][u].now
      /\ job'[c][u].result = job[c][u].result
      /\ Record(job[c][u].now, a)

Ways(c, u) ==
  /\ \A d \in Calls, v \in Urls : d # c \/ v # u => job'[d][v] = job[d][v]
  /\ GoesOn(c, u) \/ Ends(c, u) \/ Tries(c, u) \/ Commits(c, u)

LEMMA WayOn ==
  ASSUME TypeInv, NEW c \in Calls, NEW u \in Urls, NEW pc \in Early \cup {"jina"},
         Go(c, u, pc), job[c][u].pc \in Early, UNCHANGED telemetry
  PROVE  Ways(c, u)
  <1>1. job[c][u] \in JobRecords
    BY DEF TypeInv
  <1>2. job'[c][u] = [job[c][u] EXCEPT !.pc = pc] /\ \A d \in Calls, v \in Urls : d # c \/ v # u => job'[d][v] = job[d][v]
    BY DEF Go, TypeInv
  <1>3. job'[c][u].pc = pc /\ job'[c][u].now = job[c][u].now
    BY <1>1, <1>2 DEF JobRecords
  <1> QED BY <1>2, <1>3 DEF Ways, GoesOn

LEMMA WayOut ==
  ASSUME TypeInv, NEW c \in Calls, NEW u \in Urls, NEW result \in Results,
         Done(c, u, result), job[c][u].pc \in Early, UNCHANGED telemetry,
         call[c].kind = "clean" => result = "error"
  PROVE  Ways(c, u)
  <1>1. job[c][u] \in JobRecords
    BY DEF TypeInv
  <1>2. /\ job'[c][u] = [job[c][u] EXCEPT !.pc = "done", !.result = result]
        /\ \A d \in Calls, v \in Urls : d # c \/ v # u => job'[d][v] = job[d][v]
    BY DEF Done, TypeInv
  <1>3. job'[c][u].pc = "done" /\ job'[c][u].now = job[c][u].now /\ job'[c][u].result = result
    BY <1>1, <1>2 DEF JobRecords
  <1> QED BY <1>2, <1>3 DEF Ways, Ends

LEMMA WayToCommit ==
  ASSUME TypeInv, NEW c \in Calls, NEW u \in Urls, NEW p \in Providers, NEW result \in Results,
         NEW e \in Errors \cup {"none"}, ToCommit(c, u, p, result, e),
         job[c][u].pc \in Early \cup {"jina"}, UNCHANGED telemetry,
         p = IF job[c][u].pc = "jina" THEN "jina" ELSE "webfetch",
         e = "none" <=> result # "error"
  PROVE  Ways(c, u)
  <1> DEFINE a == Attempt(c, u, p, e)
  <1>1. job[c][u] \in JobRecords
    BY DEF TypeInv
  <1>2. /\ job'[c][u] = [job[c][u] EXCEPT !.pc = "commit", !.result = result, !.now = clock, !.attempt = a]
        /\ \A d \in Calls, v \in Urls : d # c \/ v # u => job'[d][v] = job[d][v]
    BY DEF ToCommit, TypeInv
  <1>3. a \in AttemptRecords
    BY Attempt_Type
  <1>4. a.of = <<c, u>> /\ a.name = p /\ (a.ok <=> e = "none") /\ a.error = e
    BY DEF Attempt
  <1> HIDE DEF a
  <1>5. /\ job'[c][u].pc = "commit" /\ job'[c][u].now = clock
        /\ job'[c][u].result = result /\ job'[c][u].attempt = a
    BY <1>1, <1>2 DEF JobRecords
  <1>6. Tries(c, u)
    BY <1>3, <1>4, <1>5 DEF Tries
  <1> QED BY <1>2, <1>6 DEF Ways

LEMMA WayBack ==
  ASSUME TypeInv, NEW c \in Calls, NEW u \in Urls, NEW result \in Results,
         NEW e \in Errors \cup {"none"}, NEW n, Leave(c, u, result, e, n),
         job[c][u].pc \in Early, UNCHANGED telemetry,
         e = "none" <=> result # "error"
  PROVE  Ways(c, u)
  <1>1. job[c][u].pc # "jina"
    BY DEF Early
  <1>2. CASE call[c].kind = "clean"
    BY <1>1, <1>2, WayToCommit DEF Leave, Providers
  <1>3. CASE call[c].kind # "clean"
    BY <1>3, WayOut DEF Leave
  <1> QED BY <1>2, <1>3

\* Every step of a goroutine is one of its ways.
LEMMA StepWays ==
  ASSUME TypeInv, NEW c \in Calls, NEW u \in Urls, Step(c, u)
  PROVE  Ways(c, u)
  <1>1. ASSUME NEW e \in Errors, Fails(c, u, e), job[c][u].pc \in Early, UNCHANGED telemetry PROVE Ways(c, u)
    <2>1. e # "none"
      BY PageFetchConstants
    <2> QED BY <1>1, <2>1, WayBack DEF Fails, Results
  <1>2. ASSUME NEW n, Returns(c, u, n), job[c][u].pc \in Early, UNCHANGED telemetry PROVE Ways(c, u)
    <2>1. Leave(c, u, "file", "none", n) \/ Leave(c, u, "text", "none", n)
      BY <1>2 DEF Returns
    <2> QED BY <1>2, <2>1, WayBack DEF Results
  <1>3. ASSUME MineruFails(c, u), job[c][u].pc \in Early, UNCHANGED telemetry PROVE Ways(c, u)
    BY <1>1, <1>3, WayOn DEF MineruFails, Early
  <1>4. CASE Refuse(c, u)
    BY <1>4, WayOut DEF Refuse, At, Results, Early
  <1>5. CASE Ensure(c, u)
    BY <1>5, WayOut, WayOn DEF Ensure, At, Results, Early
  <1>6. CASE Fetch(c, u)
    <2>1. FirstWay(u) \in Early
      BY DEF FirstWay, Early
    <2> QED BY <1>6, <2>1, WayOut, WayOn DEF Fetch, At, Results, Early
  <1>7. CASE Engine(c, u)
    BY <1>7, <1>1, <1>2 DEF Engine, At, Early
  <1>8. CASE Local(c, u)
    BY <1>8, <1>1, <1>2, WayOn DEF Local, At, Early
  <1>9. CASE Task(c, u)
    <2>1. (IF u \in Locals THEN "upload" ELSE "poll") \in Early
      BY DEF Early
    <2> QED BY <1>9, <1>3, <2>1, WayOn DEF Task, At, Early
  <1>14. CASE Upload(c, u)
    BY <1>14, <1>3, WayOn DEF Upload, At, Early
  <1>10. CASE Poll(c, u)
    <2>1. job[c][u].pc \in Early /\ UNCHANGED telemetry
      BY <1>10 DEF Poll, At, Early
    <2>2. ASSUME job' = [job EXCEPT ![c][u].pc = "sleep", ![c][u].left = @ - 1] PROVE Ways(c, u)
      <3>1. job[c][u] \in JobRecords
        BY DEF TypeInv
      <3>2. job'[c][u] = [job[c][u] EXCEPT !.pc = "sleep", !.left = job[c][u].left - 1]
            /\ \A d \in Calls, v \in Urls : d # c \/ v # u => job'[d][v] = job[d][v]
        BY <2>2 DEF TypeInv
      <3>3. job'[c][u].pc = "sleep" /\ job'[c][u].now = job[c][u].now
        BY <3>1, <3>2 DEF JobRecords
      <3> QED BY <2>1, <3>2, <3>3 DEF Ways, GoesOn, Early
    <2> QED BY <1>10, <1>3, <2>1, <2>2, WayBack DEF Poll, Results
  <1>11. CASE Wake(c, u)
    BY <1>11, WayOn DEF Wake, At, Early
  <1>12. CASE Jina(c, u)
    <2>1. \A e \in Errors : e # "none"
      BY PageFetchConstants
    <2> QED BY <1>12, <2>1, WayToCommit DEF Jina, At, Results, Providers
  <1>13. CASE Commit(c, u)
    <2>1. PICK pc \in {"jina", "done"} :
            /\ Go(c, u, pc)
            /\ pc = "jina" => job[c][u].attempt.name = "webfetch" /\ ~job[c][u].attempt.ok
      BY <1>13 DEF Commit
    <2>2. job[c][u] \in JobRecords
      BY DEF TypeInv
    <2>3. job'[c][u] = [job[c][u] EXCEPT !.pc = pc] /\ \A d \in Calls, v \in Urls : d # c \/ v # u => job'[d][v] = job[d][v]
      BY <2>1 DEF Go, TypeInv
    <2>4. job'[c][u].pc = pc /\ job'[c][u].now = job[c][u].now /\ job'[c][u].result = job[c][u].result
      BY <2>2, <2>3 DEF JobRecords
    <2>5. job[c][u].pc = "commit" /\ Record(job[c][u].now, job[c][u].attempt)
      BY <1>13 DEF Commit, At
    <2>6. Commits(c, u)
      BY <2>1, <2>4, <2>5 DEF Commits
    <2> QED BY <2>3, <2>6 DEF Ways
  <1> QED BY <1>4, <1>5, <1>6, <1>7, <1>8, <1>9, <1>10, <1>11, <1>12, <1>13, <1>14 DEF Step

-----------------------------------------------------------------------------
(* The table of events                                                     *)

\* The times that wait to be recorded are between the start and the clock,
\* and what waits is an attempt, with a kind of error if it failed.
JobsInv ==
  /\ conf.start <= clock
  /\ \A c \in Calls, u \in Urls :
       /\ job[c][u].now <= clock
       /\ job[c][u].pc = "commit" =>
            /\ job[c][u].attempt \in AttemptRecords
            /\ conf.start <= job[c][u].now
            /\ job[c][u].attempt.ok <=> job[c][u].attempt.error = "none"

\* Ids are given in order, and an event is stamped with a second.
RowsInv ==
  /\ issued \in Nat
  /\ DOMAIN events \subseteq 1..issued
  /\ \A i \in DOMAIN events : events[i].at \in Nat /\ events[i].ok \in BOOLEAN

LEMMA Start_Type ==
  ASSUME TypeInv
  PROVE  /\ conf.start \in Nat /\ conf.old \in Seq(Nat)
         /\ \A i \in DOMAIN conf.old : conf.old[i] <= Seconds(conf.start)
  BY PageFetchConstants DEF TypeInv

LEMMA Init_Jobs == Init => JobsInv
  <1> SUFFICES ASSUME Init PROVE JobsInv
    OBVIOUS
  <1>1. conf.start \in Nat /\ clock = conf.start
    BY Init_Type, Start_Type DEF Init
  <1>2. \A c \in Calls, u \in Urls : job[c][u] = NoJob
    BY DEF Init
  <1> QED BY <1>1, <1>2 DEF JobsInv, NoJob

LEMMA Next_Jobs ==
  ASSUME TypeInv, JobsInv, [Next]_vars
  PROVE  JobsInv'
  <1>1. clock \in Nat /\ conf.start \in Nat /\ \A c \in Calls, u \in Urls : job[c][u].now \in Nat
    BY Start_Type DEF TypeInv, JobRecords
  <1>2. CASE Sweep \/ RemoveFile \/ UNCHANGED vars
    BY <1>2 DEF Sweep, RemoveFile, static, vars, JobsInv
  <1>3. CASE Tick
    BY <1>1, <1>3 DEF Tick, JobsInv
  <1>4. CASE Restart
    BY <1>1, <1>4 DEF Restart, JobsInv, NoJob
  <1>5. ASSUME NEW c \in Calls, NEW kind \in Kinds, NEW urls, NEW pages, Open(c, kind, urls, pages)
        PROVE  JobsInv'
    <2> DEFINE j == [NoJob EXCEPT !.pc = "start", !.left = Left(kind)]
    <2>1. j.now = 0 /\ j.pc = "start" /\ NoJob.now = 0 /\ NoJob.pc = "off"
      BY DEF NoJob
    <2>2. /\ job' = [job EXCEPT ![c] = [u \in Urls |-> IF u \in urls THEN j ELSE NoJob]]
          /\ clock' = clock /\ conf' = conf
      BY <1>5 DEF Open, static
    <2> HIDE DEF j
    <2>3. \A d \in Calls, u \in Urls : job'[d][u] = job[d][u] \/ job'[d][u] = j \/ job'[d][u] = NoJob
      BY <2>2 DEF TypeInv
    <2> QED BY <1>1, <2>1, <2>2, <2>3 DEF JobsInv
  <1>6. ASSUME NEW c \in Calls, NEW kind \in Kinds, Reject(c, kind) PROVE JobsInv'
    BY <1>6 DEF Reject, static, JobsInv
  <1>7. ASSUME NEW c \in Calls, Finish(c) PROVE JobsInv'
    <2>1. job' = [job EXCEPT ![c] = [u \in Urls |-> NoJob]] /\ clock' = clock /\ conf' = conf
      BY <1>7 DEF Finish, static
    <2>2. NoJob.now = 0 /\ NoJob.pc = "off"
      BY DEF NoJob
    <2>3. \A d \in Calls, u \in Urls : job'[d][u] = job[d][u] \/ job'[d][u] = NoJob
      BY <2>1 DEF TypeInv
    <2> QED BY <1>1, <2>1, <2>2, <2>3 DEF JobsInv
  <1>8. ASSUME NEW c \in Calls, NEW u \in Urls, Step(c, u) PROVE JobsInv'
    <2>1. clock' = clock /\ conf' = conf
      BY <1>8, StepTime
    <2>2. Ways(c, u)
      BY <1>8, StepWays
    <2>3. job'[c][u].now <= clock
      BY <1>1, <2>2 DEF Ways, GoesOn, Ends, Tries, Commits, JobsInv
    <2>4. job'[c][u].pc = "commit" =>
            /\ job'[c][u].attempt \in AttemptRecords
            /\ conf.start <= job'[c][u].now
            /\ job'[c][u].attempt.ok <=> job'[c][u].attempt.error = "none"
      BY <1>1, <2>2 DEF Ways, GoesOn, Ends, Tries, Commits, Early, JobsInv
    <2> QED BY <2>1, <2>2, <2>3, <2>4 DEF Ways, JobsInv
  <1> QED BY NextCases, <1>2, <1>3, <1>4, <1>5, <1>6, <1>7, <1>8

\* What a call records when it ends.
FinishedAs(c, e) ==
  LET failed == call[c].failed \/ (call[c].kind # "enrich" /\ \E u \in Urls : call[c].urls = {u} /\ job[c][u].result = "error")
  IN  e = [kind |-> "tool", name |-> IF call[c].kind = "pdf" THEN "pdf_parser" ELSE "cleanfetch", ok |-> ~failed,
           error |-> IF failed THEN "unknown" ELSE "none", of |-> <<c, "none">>,
           chain |-> AttemptChain(AttemptsSince(call[c].started))]

LEMMA FinishAdds ==
  ASSUME NEW c \in Calls, Finish(c), ~UNCHANGED telemetry
  PROVE  call[c].kind # "enrich" /\ \E e : FinishedAs(c, e) /\ Added(clock, e)
  BY DEF Finish, FinishedAs, Record

LEMMA FinishedOk ==
  ASSUME TypeInv, NEW c \in Calls, NEW e, FinishedAs(c, e)
  PROVE  /\ e.kind = "tool" /\ e.ok \in BOOLEAN
         /\ ~e.ok => e.error # "none"
         /\ e.chain = AttemptChain(AttemptsSince(call[c].started))
         /\ e.ok <=> ~(call[c].failed \/ (call[c].kind # "enrich"
                                         /\ \E u \in Urls : call[c].urls = {u} /\ job[c][u].result = "error"))
  BY DEF FinishedAs

\* What a step does to the tables: nothing, or it adds one event with a
\* time that is past, or it drops old events; and only the clock passes.
Records ==
  \E t \in Nat : \E e :
    /\ conf.start <= t /\ t <= clock
    /\ e.ok \in BOOLEAN
    /\ ~e.ok => e.error # "none"
    /\ Added(t, e)

LEMMA NextTables ==
  ASSUME TypeInv, JobsInv, [Next]_vars
  PROVE  /\ conf' = conf
         /\ \/ clock' = clock /\ UNCHANGED telemetry
            \/ clock' = clock /\ Records
            \/ clock' = clock /\ Cleanup
            \/ clock' = clock + 1 /\ UNCHANGED telemetry
  <1>1. clock \in Nat /\ conf.start <= clock /\ \A c \in Calls, u \in Urls : job[c][u].now \in Nat
    BY DEF TypeInv, JobRecords, JobsInv
  <1>2. CASE Sweep \/ RemoveFile \/ UNCHANGED vars
    BY <1>2 DEF Sweep, RemoveFile, static, vars, telemetry
  <1>3. CASE Tick
    BY <1>3 DEF Tick
  <1>4. CASE Restart
    BY <1>4 DEF Restart
  <1>5. ASSUME NEW c \in Calls, NEW kind \in Kinds, NEW urls, NEW pages, Open(c, kind, urls, pages)
        PROVE  conf' = conf /\ clock' = clock /\ UNCHANGED telemetry
    BY <1>5 DEF Open, static
  <1>6. ASSUME NEW c \in Calls, NEW kind \in Kinds, Reject(c, kind)
        PROVE  conf' = conf /\ clock' = clock /\ UNCHANGED telemetry
    BY <1>6 DEF Reject, static
  <1>7. ASSUME NEW c \in Calls, Finish(c)
        PROVE  conf' = conf /\ clock' = clock /\ (UNCHANGED telemetry \/ Records)
    <2>1. clock' = clock /\ conf' = conf
      BY <1>7 DEF Finish, static
    <2>2. CASE UNCHANGED telemetry
      BY <2>1, <2>2
    <2>3. CASE ~UNCHANGED telemetry
      <3>1. PICK e : FinishedAs(c, e) /\ Added(clock, e)
        BY <1>7, <2>3, FinishAdds
      <3>2. e.ok \in BOOLEAN /\ (~e.ok => e.error # "none")
        BY <3>1, FinishedOk
      <3> QED BY <1>1, <2>1, <3>1, <3>2 DEF Records
    <2> QED BY <2>2, <2>3
  <1>8. ASSUME NEW c \in Calls, NEW u \in Urls, Step(c, u)
        PROVE  conf' = conf /\ clock' = clock /\ (UNCHANGED telemetry \/ Records)
    <2>1. clock' = clock /\ conf' = conf
      BY <1>8, StepTime
    <2>2. Ways(c, u)
      BY <1>8, StepWays
    <2>3. ASSUME Commits(c, u), Added(job[c][u].now, job[c][u].attempt) PROVE Records
      <3>1. /\ job[c][u].attempt.ok \in BOOLEAN /\ conf.start <= job[c][u].now /\ job[c][u].now <= clock
            /\ ~job[c][u].attempt.ok => job[c][u].attempt.error # "none"
        BY <2>3 DEF Commits, JobsInv, AttemptRecords
      <3> QED BY <1>1, <2>3, <3>1 DEF Records
    <2> QED BY <2>1, <2>2, <2>3 DEF Ways, GoesOn, Ends, Tries, Commits, Record
  <1> QED BY NextCases, <1>2, <1>3, <1>4, <1>5, <1>6, <1>7, <1>8

LEMMA Init_Rows == Init => RowsInv
  <1> SUFFICES ASSUME Init PROVE RowsInv
    OBVIOUS
  <1>1. conf.old \in Seq(Nat)
    BY Init_Type, Start_Type
  <1>2. /\ DOMAIN events = 1..Len(conf.old) /\ issued = Len(conf.old)
        /\ \A i \in DOMAIN events : events[i].at = conf.old[i] /\ events[i].ok = FALSE
    BY <1>1 DEF Init, TelemetryInit
  <1>3. Len(conf.old) \in Nat /\ \A i \in 1..Len(conf.old) : conf.old[i] \in Nat
    BY <1>1
  <1> QED BY <1>2, <1>3 DEF RowsInv

\* An event that is added is new, and leaves the others as they are.
LEMMA RecordAdds ==
  ASSUME RowsInv, NEW t \in Nat, NEW e, Added(t, e)
  PROVE  /\ issued + 1 \notin DOMAIN events
         /\ issued' = issued + 1
         /\ DOMAIN events' = DOMAIN events \cup {issued + 1}
         /\ events'[issued + 1] = Row(t, e)
         /\ \A i \in DOMAIN events : events'[i] = events[i]
  BY DEF RowsInv, Added

LEMMA Next_Rows ==
  ASSUME TypeInv, JobsInv, RowsInv, [Next]_vars
  PROVE  RowsInv'
  <1>1. CASE UNCHANGED telemetry
    BY <1>1 DEF telemetry, RowsInv
  <1>2. CASE Cleanup
    BY <1>2 DEF Cleanup, RowsInv
  <1>3. CASE Records
    <2>0. PICK t \in Nat : \E e : e.ok \in BOOLEAN /\ Added(t, e)
      BY <1>3 DEF Records
    <2>1. PICK e : e.ok \in BOOLEAN /\ Added(t, e)
      BY <2>0
    <2>2. Row(t, e).at \in Nat /\ Row(t, e).ok \in BOOLEAN
      BY <2>1, SecondsAreNat DEF Row
    <2>3. \A i \in DOMAIN events' : events'[i].at \in Nat /\ events'[i].ok \in BOOLEAN
      BY <2>1, <2>2, RecordAdds DEF RowsInv
    <2>4. issued' \in Nat /\ DOMAIN events' \subseteq 1..issued'
      BY <2>1, RecordAdds DEF RowsInv
    <2> QED BY <2>3, <2>4 DEF RowsInv
  <1> QED BY NextTables, <1>1, <1>2, <1>3

LEMMA FiniteRows ==
  ASSUME RowsInv
  PROVE  IsFiniteSet(DOMAIN events) /\ DOMAIN events \subseteq Nat
  <1>1. IsFiniteSet(1..issued)
    BY FS_Interval DEF RowsInv
  <1> QED BY <1>1, FS_Subset DEF RowsInv

THEOREM Spec_Tables == Spec => [](TypeInv /\ JobsInv /\ RowsInv)
  BY Spec_Type, Init_Jobs, Next_Jobs, Init_Rows, Next_Rows, PTL DEF Spec

-----------------------------------------------------------------------------
(* The two views of a day                                                  *)

OnDay(d, kind, name) == {i \in IdsOf(kind, name) : Day(events[i].at) = d}

Counted(ids) == [requests |-> Cardinality(ids), failures |-> Cardinality({i \in ids : ~events[i].ok})]

\* The totals of this day and of those to come are the counts of their
\* events; those of earlier days are not, once old events are dropped.
CountInv ==
  \A d \in Nat, s \in Sources :
    Day(Seconds(clock)) <= d => Counted(OnDay(d, s[1], s[2])) = Total(<<d, s[1], s[2]>>)

LEMMA DaysAreNat ==
  ASSUME NEW t \in Nat
  PROVE  Day(t) \in Nat
  BY Constants, DivMod DEF Day

LEMMA Init_Count == Init => CountInv
  <1> SUFFICES ASSUME Init, NEW d \in Nat, NEW s \in Sources
               PROVE  Counted(OnDay(d, s[1], s[2])) = Total(<<d, s[1], s[2]>>)
    BY DEF CountInv
  <1> DEFINE old == conf.old
             ids == {i \in DOMAIN old : Day(old[i]) = d}
  <1>1. /\ DOMAIN events = DOMAIN old
        /\ \A i \in DOMAIN old : /\ events[i].at = old[i] /\ events[i].ok = FALSE
                                 /\ events[i].kind = "provider" /\ events[i].name = "webfetch"
    BY DEF Init, TelemetryInit
  <1>2. DOMAIN daily = {<<Day(old[i]), "provider", "webfetch">> : i \in DOMAIN old}
    BY DEF Init, TelemetryInit
  <1>3. CASE s[1] = "provider" /\ s[2] = "webfetch"
    <2>1. OnDay(d, s[1], s[2]) = ids
      BY <1>1, <1>3 DEF OnDay, IdsOf
    <2>2. {i \in ids : ~events[i].ok} = ids
      BY <1>1
    <2>3. Counted(ids) = [requests |-> Cardinality(ids), failures |-> Cardinality(ids)]
      BY <2>2 DEF Counted
    <2>4. CASE ids = {}
      <3>1. <<d, "provider", "webfetch">> \notin DOMAIN daily
        BY <1>2, <2>4
      <3>2. Total(<<d, s[1], s[2]>>) = [requests |-> 0, failures |-> 0]
        BY <1>3, <3>1 DEF Total
      <3> HIDE DEF ids
      <3> QED BY <2>1, <2>3, <2>4, <3>2, FS_EmptySet
    <2>5. CASE ids # {}
      <3> DEFINE key == <<d, "provider", "webfetch">>
      <3>1. key \in DOMAIN daily
        BY <1>2, <2>5
      <3>2. daily[key] = [requests |-> Cardinality({i \in DOMAIN old : Day(old[i]) = key[1]}),
                          failures |-> Cardinality({i \in DOMAIN old : Day(old[i]) = key[1]})]
        BY <1>2, <3>1 DEF Init, TelemetryInit
      <3>3. Total(<<d, s[1], s[2]>>) = [requests |-> Cardinality(ids), failures |-> Cardinality(ids)]
        BY <1>3, <3>1, <3>2 DEF Total
      <3> QED BY <2>1, <2>3, <3>3
    <2> QED BY <2>4, <2>5
  <1>4. CASE ~(s[1] = "provider" /\ s[2] = "webfetch")
    <2>1. OnDay(d, s[1], s[2]) = {}
      BY <1>1, <1>4 DEF OnDay, IdsOf
    <2>2. <<d, s[1], s[2]>> \notin DOMAIN daily
      BY <1>2, <1>4
    <2>3. {i \in {} : ~events[i].ok} = {}
      OBVIOUS
    <2> QED BY <2>1, <2>2, <2>3, FS_EmptySet DEF Counted, Total
  <1> QED BY <1>3, <1>4

\* Recording adds one event to one day of one source.
LEMMA Record_Count ==
  ASSUME RowsInv, NEW t \in Nat, NEW e, e.ok \in BOOLEAN, Added(t, e),
         NEW d \in Nat, NEW kind, NEW name,
         Counted(OnDay(d, kind, name)) = Total(<<d, kind, name>>)
  PROVE  (Counted(OnDay(d, kind, name)) = Total(<<d, kind, name>>))'
  <1> DEFINE key == <<Day(Seconds(t)), e.kind, e.name>>
             ids == OnDay(d, kind, name)
             bad == {i \in ids : ~events[i].ok}
             new == issued + 1
             idsN == OnDay(d, kind, name)'
             badN == {i \in idsN : ~events'[i].ok}
             row == Row(t, e)
  <1>1. new \notin DOMAIN events /\ DOMAIN events' = DOMAIN events \cup {new} /\ events'[new] = row
        /\ \A i \in DOMAIN events : events'[i] = events[i]
    BY RecordAdds
  <1>2. row.at = Seconds(t) /\ row.kind = e.kind /\ row.name = e.name /\ row.ok = e.ok
    BY DEF Row
  <1>3. ids \subseteq DOMAIN events /\ bad \subseteq ids /\ new \notin ids /\ new \notin bad
    BY <1>1 DEF OnDay, IdsOf
  <1>4. IsFiniteSet(ids) /\ IsFiniteSet(bad)
    BY <1>3, FiniteRows, FS_Subset
  <1>5. daily' = Count(key, e.ok)
    BY DEF Added
  <1>6. CASE <<d, kind, name>> = key
    <2>1. idsN = ids \cup {new}
      BY <1>1, <1>2, <1>6 DEF OnDay, IdsOf
    <2>2. badN = IF e.ok THEN bad ELSE bad \cup {new}
      <3>1. CASE e.ok
        BY <1>1, <1>2, <1>3, <2>1, <3>1
      <3>2. CASE ~e.ok
        BY <1>1, <1>2, <1>3, <2>1, <3>2
      <3> QED BY <3>1, <3>2
    <2>3. Cardinality(idsN) = Cardinality(ids) + 1
      <3> HIDE DEF idsN, ids, new
      <3> QED BY <1>3, <1>4, <2>1, FS_AddElement
    <2>4. Cardinality(badN) = Cardinality(bad) + (IF e.ok THEN 0 ELSE 1)
      <3>1. CASE e.ok
        <4>1. Cardinality(bad) \in Nat
          BY <1>4, FS_CardinalityType
        <4> HIDE DEF badN, bad
        <4>2. badN = bad
          BY <2>2, <3>1
        <4> QED BY <4>1, <4>2, <3>1
      <3>2. CASE ~e.ok
        <4> HIDE DEF badN, bad, new
        <4> QED BY <1>3, <1>4, <2>2, <3>2, FS_AddElement
      <3> QED BY <3>1, <3>2
    <2>5. Total(key) = [requests |-> Cardinality(ids), failures |-> Cardinality(bad)]
      BY <1>6 DEF Counted
    <2>6. daily'[key] = [requests |-> Cardinality(ids) + 1, failures |-> Cardinality(bad) + (IF e.ok THEN 0 ELSE 1)]
          /\ key \in DOMAIN daily'
      BY <1>5, <2>5 DEF Count
    <2>7. Total(<<d, kind, name>>)' = daily'[key]
      BY <1>6, <2>6 DEF Total
    <2> HIDE DEF idsN, badN, ids, bad, key
    <2>8. [requests |-> Cardinality(idsN), failures |-> Cardinality(badN)] = daily'[key]
      BY <2>3, <2>4, <2>6
    <2> QED BY <2>7, <2>8 DEF Counted, idsN, badN
  <1>7. CASE <<d, kind, name>> # key
    <2>1. idsN = ids
      BY <1>1, <1>2, <1>7 DEF OnDay, IdsOf
    <2>2. badN = bad
      BY <1>1, <1>3, <2>1
    <2>3. Total(<<d, kind, name>>)' = Total(<<d, kind, name>>)
      BY <1>5, <1>7 DEF Total, Count
    <2> QED BY <2>1, <2>2, <2>3 DEF Counted
  <1> QED BY <1>6, <1>7

\* Dropping old events drops none of this day or of a later one.
LEMMA Cleanup_Keeps ==
  ASSUME RowsInv, clock \in Nat, Cleanup, NEW i \in DOMAIN events,
         Day(Seconds(clock)) <= Day(events[i].at)
  PROVE  i \in DOMAIN events' /\ events'[i] = events[i]
  <1>1. events[i].at \in Nat /\ Seconds(clock) \in Nat /\ DayLength \in Nat \ {0} /\ Retention \in Nat
        /\ Retention >= DayLength
    BY SecondsAreNat, Constants, TelemetryConstants, PageFetchConstants DEF RowsInv
  <1>2. ASSUME events[i].at < Seconds(clock) - Retention PROVE FALSE
    <2>1. events[i].at + DayLength <= Seconds(clock)
      BY <1>1, <1>2
    <2>2. Day(events[i].at) < Day(Seconds(clock))
      BY <1>1, <2>1, DivShift DEF Day
    <2>3. Day(events[i].at) \in Nat /\ Day(Seconds(clock)) \in Nat
      BY <1>1, DaysAreNat
    <2> QED BY <2>2, <2>3
  <1>3. events[i].at >= Seconds(clock) - Retention
    BY <1>1, <1>2
  <1> QED BY <1>3 DEF Cleanup

LEMMA Next_Count ==
  ASSUME TypeInv, JobsInv, RowsInv, CountInv, [Next]_vars
  PROVE  CountInv'
  <1>1. clock \in Nat /\ Seconds(clock) \in Nat /\ Day(Seconds(clock)) \in Nat
    BY SecondsAreNat, DaysAreNat DEF TypeInv
  <1>2. CASE clock' = clock /\ UNCHANGED telemetry
    BY <1>2 DEF telemetry, CountInv, Counted, OnDay, IdsOf, Total
  <1>3. CASE clock' = clock /\ Records
    <2>0. PICK t \in Nat : \E e : e.ok \in BOOLEAN /\ Added(t, e)
      BY <1>3 DEF Records
    <2>1. PICK e : e.ok \in BOOLEAN /\ Added(t, e)
      BY <2>0
    <2> SUFFICES ASSUME NEW d \in Nat, NEW s \in Sources, Day(Seconds(clock)) <= d
                 PROVE  (Counted(OnDay(d, s[1], s[2])) = Total(<<d, s[1], s[2]>>))'
      BY <1>3 DEF CountInv
    <2>2. Counted(OnDay(d, s[1], s[2])) = Total(<<d, s[1], s[2]>>)
      BY DEF CountInv
    <2> QED BY <2>1, <2>2, Record_Count
  <1>4. CASE clock' = clock /\ Cleanup
    <2> SUFFICES ASSUME NEW d \in Nat, NEW s \in Sources, Day(Seconds(clock)) <= d
                 PROVE  (Counted(OnDay(d, s[1], s[2])) = Total(<<d, s[1], s[2]>>))'
      BY <1>4 DEF CountInv
    <2>1. Counted(OnDay(d, s[1], s[2])) = Total(<<d, s[1], s[2]>>)
      BY DEF CountInv
    <2>2. DOMAIN events' \subseteq DOMAIN events /\ \A i \in DOMAIN events' : events'[i] = events[i]
      BY <1>4 DEF Cleanup
    <2>3. \A i \in DOMAIN events : Day(events[i].at) = d => i \in DOMAIN events'
      BY <1>1, <1>4, Cleanup_Keeps
    <2>4. OnDay(d, s[1], s[2])' = OnDay(d, s[1], s[2])
      BY <2>2, <2>3 DEF OnDay, IdsOf
    <2>5. Counted(OnDay(d, s[1], s[2]))' = Counted(OnDay(d, s[1], s[2]))
      BY <2>2, <2>4 DEF Counted, OnDay, IdsOf
    <2>6. daily' = daily
      BY <1>4 DEF Cleanup
    <2> QED BY <2>1, <2>5, <2>6 DEF Total
  <1>5. CASE clock' = clock + 1 /\ UNCHANGED telemetry
    <2>1. Seconds(clock) <= Seconds(clock + 1) /\ Seconds(clock + 1) \in Nat
      <3>1. clock + 1 \in Nat /\ clock <= clock + 1 /\ Second \in Nat \ {0}
        BY <1>1, Constants
      <3>2. clock \div Second <= (clock + 1) \div Second
        BY <1>1, <3>1, DivMono
      <3> QED BY <3>1, <3>2, SecondsAreNat DEF Seconds
    <2>2. Day(Seconds(clock)) <= Day(Seconds(clock + 1)) /\ Day(Seconds(clock + 1)) \in Nat
      BY <1>1, <2>1, DivMono, DaysAreNat, Constants DEF Day
    <2>3. \A d \in Nat : Day(Seconds(clock + 1)) <= d => Day(Seconds(clock)) <= d
      BY <1>1, <2>2
    <2>4. \A d \in Nat, s \in Sources :
            /\ Counted(OnDay(d, s[1], s[2]))' = Counted(OnDay(d, s[1], s[2]))
            /\ Total(<<d, s[1], s[2]>>)' = Total(<<d, s[1], s[2]>>)
      BY <1>5 DEF telemetry, Counted, OnDay, IdsOf, Total
    <2> QED BY <1>5, <2>3, <2>4 DEF CountInv
  <1> QED BY NextTables, <1>2, <1>3, <1>4, <1>5

\* MetricsMatchToday: the metrics counted from the events and the daily
\* totals agree, although an attempt is stamped before it is recorded (even
\* on another day), and a restart drops old events; for any length of a day
\* and any retention that is no shorter.
THEOREM Spec_MetricsMatchToday == Spec => []MetricsMatchToday
  <1>1. Spec => []CountInv
    BY Spec_Tables, Init_Count, Next_Count, PTL DEF Spec
  <1>2. TypeInv /\ CountInv => MetricsMatchToday
    <2> SUFFICES ASSUME TypeInv, CountInv, NEW s \in Sources PROVE Metrics(s[1], s[2]) = Today(s[1], s[2])
      BY DEF MetricsMatchToday
    <2>1. Day(Seconds(clock)) \in Nat
      BY SecondsAreNat, DaysAreNat DEF TypeInv
    <2>2. Counted(OnDay(Day(Seconds(clock)), s[1], s[2])) = Total(<<Day(Seconds(clock)), s[1], s[2]>>)
      BY <2>1 DEF CountInv
    <2> QED BY <2>2 DEF Metrics, Today, Counted, OnDay
  <1> QED BY <1>1, <1>2, Spec_Tables, PTL

-----------------------------------------------------------------------------
(* The order of events                                                     *)

\* Newer is a strict total order.
LEMMA NewerOrder ==
  ASSUME RowsInv, NEW i \in DOMAIN events, NEW j \in DOMAIN events, NEW k \in DOMAIN events
  PROVE  /\ ~Newer(i, i)
         /\ Newer(i, j) /\ Newer(j, k) => Newer(i, k)
         /\ i # j => Newer(i, j) \/ Newer(j, i)
         /\ Newer(i, j) => events[i].at >= events[j].at
  <1>1. i \in Nat /\ j \in Nat /\ k \in Nat
    BY FiniteRows
  <1>2. events[i].at \in Nat /\ events[j].at \in Nat /\ events[k].at \in Nat
    BY DEF RowsInv
  <1> QED BY <1>1, <1>2 DEF Newer

LEMMA LeastExists ==
  ASSUME NEW S \in SUBSET Nat, S # {}
  PROVE  \E n \in S : \A m \in S : n <= m
  <1>1. IsWellFoundedOn(OpToRel(<, Nat), Nat)
    BY NatLessThanWellFounded
  <1>2. PICK n \in S : \A m \in S : ~ (<<m, n>> \in OpToRel(<, Nat))
    BY <1>1, WFMin
  <1>3. ASSUME NEW m \in S, m < n PROVE FALSE
    <2>1. <<m, n>> \in OpToRel(<, Nat)
      BY <1>3, Zenon DEF OpToRel
    <2> QED BY <1>2, <2>1
  <1> QED BY <1>3

\* Among some events one is the newest, and one the oldest.
LEMMA NewestExists ==
  ASSUME RowsInv, NEW S \in SUBSET DOMAIN events, S # {}
  PROVE  \E i \in S : \A j \in S : ~Newer(j, i)
  <1>1. ASSUME NEW i \in S PROVE IsFiniteSet(NewerThan(i, S)) /\ Cardinality(NewerThan(i, S)) \in Nat
    BY FiniteRows, FS_Subset, FS_CardinalityType DEF NewerThan
  <1>2. PICK n \in {Cardinality(NewerThan(i, S)) : i \in S} : \A m \in {Cardinality(NewerThan(i, S)) : i \in S} : n <= m
    <2> DEFINE Sizes == {Cardinality(NewerThan(i, S)) : i \in S}
    <2>1. Sizes \in SUBSET Nat /\ Sizes # {}
      BY <1>1
    <2> HIDE DEF Sizes
    <2>2. \E n \in Sizes : \A m \in Sizes : n <= m
      BY <2>1, LeastExists
    <2> QED BY <2>2 DEF Sizes
  <1>3. PICK i \in S : \A j \in S : Cardinality(NewerThan(i, S)) <= Cardinality(NewerThan(j, S))
    BY <1>2
  <1>4. ASSUME NEW j \in S, Newer(j, i) PROVE FALSE
    <2>1. NewerThan(j, S) \subseteq NewerThan(i, S) /\ j \in NewerThan(i, S) /\ j \notin NewerThan(j, S)
      BY <1>4, NewerOrder DEF NewerThan
    <2>2. Cardinality(NewerThan(j, S)) < Cardinality(NewerThan(i, S))
      BY <1>1, <2>1, FS_Subset
    <2> QED BY <1>1, <1>3, <2>2
  <1> QED BY <1>4

LEMMA OldestExists ==
  ASSUME RowsInv, NEW S \in SUBSET DOMAIN events, S # {}
  PROVE  \E i \in S : \A j \in S : ~Newer(i, j)
  <1> DEFINE Older(i) == {j \in S : Newer(i, j)}
  <1>1. ASSUME NEW i \in S PROVE IsFiniteSet(Older(i)) /\ Cardinality(Older(i)) \in Nat
    BY FiniteRows, FS_Subset, FS_CardinalityType
  <1>2. PICK n \in {Cardinality(Older(i)) : i \in S} : \A m \in {Cardinality(Older(i)) : i \in S} : n <= m
    <2> DEFINE Sizes == {Cardinality(Older(i)) : i \in S}
    <2>1. Sizes \in SUBSET Nat /\ Sizes # {}
      BY <1>1
    <2> HIDE DEF Sizes
    <2>2. \E n \in Sizes : \A m \in Sizes : n <= m
      BY <2>1, LeastExists
    <2> QED BY <2>2 DEF Sizes
  <1>3. PICK i \in S : \A j \in S : Cardinality(Older(i)) <= Cardinality(Older(j))
    BY <1>2
  <1>4. ASSUME NEW j \in S, Newer(i, j) PROVE FALSE
    <2>1. Older(j) \subseteq Older(i) /\ j \in Older(i) /\ j \notin Older(j)
      BY <1>4, NewerOrder
    <2> HIDE DEF Older
    <2>2. Cardinality(Older(j)) < Cardinality(Older(i))
      BY <1>1, <2>1, FS_Subset
    <2> QED BY <1>1, <1>3, <2>2
  <1> QED BY <1>4

LEMMA FirstIsNewest ==
  ASSUME RowsInv, NEW S \in SUBSET DOMAIN events, S # {}
  PROVE  First(S) \in S /\ \A j \in S : ~Newer(j, First(S))
  BY NewestExists DEF First

LEMMA LastIsOldest ==
  ASSUME RowsInv, NEW S \in SUBSET DOMAIN events, S # {}
  PROVE  Last(S) \in S /\ \A j \in S : ~Newer(Last(S), j)
  BY OldestExists DEF Last

\* What is newer than one of the newest n events is one of them.
LEMMA RecentIsClosed ==
  ASSUME RowsInv, NEW S \in SUBSET DOMAIN events, NEW n \in Nat,
         NEW i \in RecentFiltered(S, n), NEW j \in S, Newer(j, i)
  PROVE  j \in RecentFiltered(S, n)
  <1>1. i \in S /\ Cardinality(NewerThan(i, S)) < n
    BY DEF RecentFiltered
  <1>2. IsFiniteSet(NewerThan(i, S))
    BY FiniteRows, FS_Subset DEF NewerThan
  <1>3. NewerThan(j, S) \subseteq NewerThan(i, S)
    BY <1>1, NewerOrder DEF NewerThan
  <1>4. Cardinality(NewerThan(j, S)) <= Cardinality(NewerThan(i, S)) /\ IsFiniteSet(NewerThan(j, S))
    BY <1>2, <1>3, FS_Subset
  <1>5. Cardinality(NewerThan(j, S)) \in Nat /\ Cardinality(NewerThan(i, S)) \in Nat
    BY <1>2, <1>4, FS_CardinalityType
  <1> QED BY <1>1, <1>4, <1>5 DEF RecentFiltered

-----------------------------------------------------------------------------
(* A source that is down                                                   *)

LEMMA PauseIsNat ==
  ASSUME NEW error
  PROVE  PauseOf(error) \in Nat
  <1>1. Ban \in Nat /\ MaxBan \in Nat /\ Ban <= MaxBan /\ \A k \in DOMAIN Pauses : Pauses[k] \in Nat
    BY TelemetryConstants
  <1> QED BY <1>1 DEF PauseOf, Least

\* Three failures in a row, newest first, are the newest three events.
LEMMA StreakIsNewest ==
  ASSUME RowsInv, NEW ids \in SUBSET DOMAIN events, NEW rows, rows = RecentFiltered(ids, Sample),
         Streak(rows) >= 3
  PROVE  /\ Cardinality(ids) >= 3
         /\ \A i \in ids : Cardinality(NewerThan(i, ids)) < 3 => ~events[i].ok
         /\ Failed(rows) # {}
  <1> DEFINE F == {i \in Failed(rows) : NewerThan(i, rows) \subseteq Failed(rows)}
  <1>1. F \subseteq rows /\ rows \subseteq ids /\ F \subseteq ids
    BY DEF Failed, RecentFiltered
  <1>2. Cardinality(F) >= 3 /\ Sample \in Nat
    BY Constants DEF Streak
  <1>3. IsFiniteSet(ids)
    BY FiniteRows, FS_Subset
  <1>4. F \subseteq Failed(rows) /\ \A f \in F : NewerThan(f, rows) \subseteq Failed(rows)
    OBVIOUS
  <1> HIDE DEF F
  <1>5. Cardinality(F) <= Cardinality(ids) /\ Cardinality(F) \in Nat /\ Cardinality(ids) \in Nat
    BY <1>1, <1>3, FS_Subset, FS_CardinalityType
  <1>6. F # {}
    BY <1>2, FS_EmptySet
  <1>7. ASSUME NEW i \in ids, Cardinality(NewerThan(i, ids)) < 3, i \notin Failed(rows) PROVE FALSE
    <2>1. ASSUME NEW f \in F PROVE f \in NewerThan(i, ids)
      <3>1. f # i /\ f \in DOMAIN events /\ i \in DOMAIN events /\ f \in rows /\ f \in ids
        BY <1>1, <1>4, <1>7
      <3>2. ASSUME Newer(i, f) PROVE FALSE
        <4>1. i \in rows
          BY <1>2, <3>1, <3>2, RecentIsClosed
        <4>2. i \in NewerThan(f, rows)
          BY <3>2, <4>1 DEF NewerThan
        <4> QED BY <1>4, <1>7, <4>2
      <3> QED BY <3>1, <3>2, NewerOrder DEF NewerThan
    <2>2. IsFiniteSet(NewerThan(i, ids))
      BY <1>3, FS_Subset DEF NewerThan
    <2>3. Cardinality(F) <= Cardinality(NewerThan(i, ids)) /\ Cardinality(NewerThan(i, ids)) \in Nat
      BY <2>1, <2>2, FS_Subset, FS_CardinalityType
    <2> QED BY <1>2, <1>5, <1>7, <2>3
  <1>8. \A i \in Failed(rows) : ~events[i].ok
    BY DEF Failed
  <1> QED BY <1>2, <1>4, <1>5, <1>6, <1>7, <1>8

\* Of the failures only those have no kind that were there at first, and
\* all others came later.
KindInv ==
  /\ Len(conf.old) <= issued
  /\ \A i \in DOMAIN events :
       IF i <= Len(conf.old) THEN events[i].error = "none" /\ events[i].at <= Seconds(conf.start)
       ELSE events[i].at >= Seconds(conf.start) /\ (~events[i].ok => events[i].error # "none")

LEMMA Init_Kind == Init => KindInv
  <1> SUFFICES ASSUME Init PROVE KindInv
    OBVIOUS
  <1>1. conf.old \in Seq(Nat) /\ \A i \in DOMAIN conf.old : conf.old[i] <= Seconds(conf.start)
    BY Init_Type, Start_Type
  <1>2. /\ DOMAIN events = 1..Len(conf.old) /\ DOMAIN conf.old = 1..Len(conf.old) /\ issued = Len(conf.old)
        /\ \A i \in DOMAIN events : events[i].at = conf.old[i] /\ events[i].error = "none"
    BY <1>1 DEF Init, TelemetryInit
  <1>3. Len(conf.old) \in Nat
    BY <1>1
  <1> QED BY <1>1, <1>2, <1>3 DEF KindInv

LEMMA Next_Kind ==
  ASSUME TypeInv, JobsInv, RowsInv, KindInv, [Next]_vars
  PROVE  KindInv'
  <1>1. conf' = conf /\ conf.start \in Nat /\ Len(conf.old) \in Nat /\ issued \in Nat /\ Len(conf.old) <= issued
    BY NextTables, Start_Type DEF RowsInv, KindInv
  <1>2. CASE UNCHANGED telemetry
    BY <1>1, <1>2 DEF telemetry, KindInv
  <1>3. CASE Cleanup
    BY <1>1, <1>3 DEF Cleanup, KindInv
  <1>4. CASE Records
    <2>0. PICK t \in Nat : \E e : conf.start <= t /\ (~e.ok => e.error # "none") /\ Added(t, e)
      BY <1>4 DEF Records
    <2>1. PICK e : conf.start <= t /\ (~e.ok => e.error # "none") /\ Added(t, e)
      BY <2>0
    <2>2. Row(t, e).at = Seconds(t) /\ Row(t, e).ok = e.ok /\ Row(t, e).error = e.error
      BY DEF Row
    <2>3. Seconds(conf.start) <= Seconds(t) /\ Seconds(t) \in Nat /\ Seconds(conf.start) \in Nat
      BY <1>1, <2>1, SecondsAreNat, Constants, DivMono DEF Seconds
    <2>4. /\ issued' = issued + 1 /\ DOMAIN events' = DOMAIN events \cup {issued + 1}
          /\ events'[issued + 1] = Row(t, e) /\ \A i \in DOMAIN events : events'[i] = events[i]
      BY <2>1, RecordAdds
    <2>5. ~(issued + 1 <= Len(conf.old)) /\ Len(conf.old) <= issued + 1
      BY <1>1
    <2>6. ASSUME NEW i \in DOMAIN events'
          PROVE  IF i <= Len(conf.old) THEN events'[i].error = "none" /\ events'[i].at <= Seconds(conf.start)
                 ELSE events'[i].at >= Seconds(conf.start) /\ (~events'[i].ok => events'[i].error # "none")
      <3>1. CASE i \in DOMAIN events
        BY <2>4, <3>1 DEF KindInv
      <3>2. CASE i = issued + 1
        BY <2>1, <2>2, <2>3, <2>4, <2>5, <3>2
      <3> QED BY <2>4, <3>1, <3>2
    <2> QED BY <1>1, <2>4, <2>5, <2>6 DEF KindInv
  <1> QED BY NextTables, <1>2, <1>3, <1>4

\* The failure that decides the pause ends it no later than the newest one
\* would: either it is the newest, or neither of the two has a kind.
LEMMA SuspensionIsBounded ==
  ASSUME TypeInv, RowsInv, KindInv, NEW ids \in SUBSET DOMAIN events, NEW rows, rows = RecentFiltered(ids, Sample),
         Streak(rows) >= 3, SuspendedUntil(rows) > clock
  PROVE  \E i \in ids : NewerThan(i, ids) = {} /\ clock < (events[i].at + PauseOf(events[i].error)) * Second
  <1> DEFINE F == Failed(rows)
             named == {i \in F : events[i].error # "none"}
  <1>1. F \subseteq rows /\ rows \subseteq ids /\ F \in SUBSET DOMAIN events /\ named \in SUBSET DOMAIN events
        /\ F # {} /\ \A k \in F : ~events[k].ok
    BY StreakIsNewest DEF Failed, RecentFiltered
  <1>2. PICK i \in ids : \A j \in ids : ~Newer(j, i)
    <2>1. ids # {}
      BY <1>1
    <2> QED BY <2>1, NewestExists
  <1>3. NewerThan(i, ids) = {} /\ Cardinality(NewerThan(i, ids)) = 0
    BY <1>2, FS_EmptySet DEF NewerThan
  <1>4. i \in F
    <2>1. i \in rows
      BY <1>3, Constants DEF RecentFiltered
    <2>2. ~events[i].ok
      BY <1>3, StreakIsNewest
    <2> QED BY <2>1, <2>2 DEF Failed
  <1>5. clock \in Nat /\ \A k \in F : k \in Nat /\ events[k].at \in Nat
    BY <1>1, FiniteRows DEF TypeInv, RowsInv
  <1>6. PICK a \in F : Anchor(rows) = events[a] /\ events[a].at <= events[i].at /\ events[a].error = events[i].error
    <2>1. CASE events[i].error # "none"
      <3>1. i \in named
        BY <1>4, <2>1
      <3>2. First(named) \in named /\ ~Newer(i, First(named))
        BY <1>1, <3>1, FirstIsNewest
      <3>3. ~Newer(First(named), i)
        BY <1>1, <1>2, <3>2
      <3>4. First(named) = i
        BY <1>1, <3>1, <3>2, <3>3, NewerOrder
      <3>5. Anchor(rows) = events[i]
        BY <3>1, <3>4 DEF Anchor
      <3> QED BY <1>4, <1>5, <3>5
    <2>2. CASE events[i].error = "none"
      <3>1. i <= Len(conf.old) /\ events[i].at <= Seconds(conf.start)
        BY <1>1, <1>4, <2>2 DEF KindInv
      <3>2. ASSUME NEW k \in named PROVE FALSE
        <4>1. ~(k <= Len(conf.old)) /\ events[k].at >= Seconds(conf.start)
          BY <1>1, <3>2 DEF KindInv
        <4>2. Len(conf.old) \in Nat /\ Seconds(conf.start) \in Nat
          BY Start_Type, SecondsAreNat
        <4>3. k > i /\ events[k].at >= events[i].at
          BY <1>4, <1>5, <3>1, <4>1, <4>2
        <4>4. Newer(k, i)
          BY <1>4, <1>5, <4>3 DEF Newer
        <4> QED BY <1>1, <1>2, <4>4
      <3>3. named = {}
        BY <3>2
      <3>4. Anchor(rows) = events[Last(F)]
        BY <3>3 DEF Anchor
      <3>5. Last(F) \in F
        BY <1>1, LastIsOldest
      <3>6. events[Last(F)].error = "none"
        BY <3>3, <3>5
      <3>7. events[Last(F)].at <= events[i].at
        <4>1. ~Newer(Last(F), i) /\ i \in DOMAIN events /\ Last(F) \in DOMAIN events
          BY <1>1, <1>2, <3>5
        <4>2. events[i].at \in Nat /\ events[Last(F)].at \in Nat
          BY <1>4, <1>5, <3>5
        <4> QED BY <4>1, <4>2 DEF Newer
      <3> QED BY <2>2, <3>4, <3>5, <3>6, <3>7
    <2> QED BY <2>1, <2>2
  <1> DEFINE p == PauseOf(events[i].error)
  <1>7. p \in Nat /\ Second \in Nat
    BY PauseIsNat, Constants
  <1>8. SuspendedUntil(rows) = (events[a].at + p) * Second
    BY <1>6 DEF SuspendedUntil
  <1> HIDE DEF p, F
  <1>9. events[a].at \in Nat /\ events[i].at \in Nat /\ events[a].at + p <= events[i].at + p
    BY <1>4, <1>5, <1>6, <1>7
  <1>10. (events[a].at + p) * Second <= (events[i].at + p) * Second
    BY <1>7, <1>9, MulMono
  <1>11. (events[a].at + p) * Second \in Int /\ (events[i].at + p) * Second \in Int
    BY <1>7, <1>9
  <1>12. clock < (events[i].at + p) * Second
    BY <1>5, <1>8, <1>10, <1>11
  <1> QED BY <1>3, <1>12 DEF p

\* DownOnThreeFailures: whatever the order in which concurrent fetches
\* commit their attempts, and whichever of their records fail, a source is
\* shown as suspended only when its three newest events are failures, and
\* suspended_until is within the pause of the newest of them, although old
\* failures without a kind may be among those the pause is taken from; for
\* any pauses and any sample.
THEOREM Spec_DownOnThreeFailures == Spec => []DownOnThreeFailures
  <1>1. TypeInv /\ RowsInv /\ KindInv => DownOnThreeFailures
    <2> SUFFICES ASSUME TypeInv, RowsInv, KindInv, NEW s \in Sources,
                        NEW ids, ids = IdsOf(s[1], s[2]), NEW rows, rows = Rows(s[1], s[2]),
                        State(rows) = "suspended" \/ Suspended(rows)
                 PROVE  /\ Cardinality(ids) >= 3
                        /\ \A i \in ids : Cardinality({j \in ids : Newer(j, i)}) < 3 => ~events[i].ok
                        /\ Suspended(rows) => \E i \in ids : {j \in ids : Newer(j, i)} = {}
                                                /\ clock < (events[i].at + PauseOf(events[i].error)) * Second
      BY Zenon DEF DownOnThreeFailures
    <2>1. ids \in SUBSET DOMAIN events /\ rows = RecentFiltered(ids, Sample)
      BY DEF IdsOf, Rows
    <2>2. Streak(rows) >= 3
      BY DEF State, Status, Suspended
    <2>3. \A i \in ids : NewerThan(i, ids) = {j \in ids : Newer(j, i)}
      BY DEF NewerThan
    <2>4. Suspended(rows) => SuspendedUntil(rows) > clock
      BY DEF Suspended
    <2> QED BY <2>1, <2>2, <2>3, <2>4, StreakIsNewest, SuspensionIsBounded
  <1>2. Spec => []KindInv
    BY Spec_Tables, Init_Kind, Next_Kind, PTL DEF Spec
  <1> QED BY <1>1, <1>2, Spec_Tables, PTL

-----------------------------------------------------------------------------
(* The attempts of a call                                                  *)

Tried == {i \in DOMAIN events : events[i].kind = "provider"}
Own(c) == {i \in Tried : events[i].of[1] = c}
OfUrl(c, u) == {i \in Tried : events[i].of = <<c, u>>}

\* An attempt is one of a goroutine, or was there at first.
TriedInv ==
  \A i \in Tried :
    /\ events[i].of \in Calls \X Urls \/ events[i].of = <<"none", "none">>
    /\ events[i].name \in Providers

\* How far a goroutine is decides which of its attempts are recorded.
UrlInv(c, u) ==
  LET j == job[c][u]
  IN  /\ j.pc # "off"
      /\ j.pc \in Early => OfUrl(c, u) = {}
      /\ j.pc = "jina" => \A i \in OfUrl(c, u) : events[i].name = "webfetch" /\ ~events[i].ok
      /\ j.pc = "commit" =>
           /\ j.attempt.of = <<c, u>>
           /\ call[c].started <= j.now
           /\ j.attempt.ok <=> j.result # "error"
           /\ j.attempt.name = "webfetch" => OfUrl(c, u) = {}
           /\ j.attempt.name = "jina" => \A i \in OfUrl(c, u) : events[i].name = "webfetch" /\ ~events[i].ok
      /\ j.pc = "done" /\ call[c].kind = "clean" =>
           ((\E i \in OfUrl(c, u) : events[i].ok) => j.result # "error")

\* A call that has not begun has no attempts; one that is open has at most
\* one of each provider for each of its urls, made since it began.
CallInv(c) ==
  /\ call[c].pc = "idle" => Own(c) = {}
  /\ call[c].pc = "open" =>
       /\ call[c].started <= clock
       /\ call[c].kind = "clean" => Cardinality(call[c].urls) <= MaxBatch
       /\ call[c].kind = "pdf" => call[c].urls = {} \/ \E u \in Urls : call[c].urls = {u}
       /\ call[c].failed => call[c].urls = {}
       /\ \A i \in Own(c) :
            /\ events[i].of[2] \in call[c].urls
            /\ call[c].started < events[i].at * Second + Second
       /\ \A i, j \in Own(c) : events[i].of = events[j].of /\ events[i].name = events[j].name => i = j
       /\ \A u \in call[c].urls : UrlInv(c, u)

ChainInv == TriedInv /\ \A c \in Calls : CallInv(c)

LEMMA Init_Chain == Init => ChainInv
  <1> SUFFICES ASSUME Init PROVE ChainInv
    OBVIOUS
  <1>1. \A i \in DOMAIN events : events[i].of = <<"none", "none">> /\ events[i].name = "webfetch"
    BY DEF Init, TelemetryInit
  <1>2. \A c \in Calls : Own(c) = {}
    <2>1. \A c \in Calls : c # "none"
      BY PageFetchConstants
    <2> QED BY <1>1, <2>1 DEF Own, Tried
  <1>3. \A c \in Calls : call[c].pc = "idle"
    BY DEF Init, NoCall
  <1> QED BY <1>1, <1>2, <1>3 DEF ChainInv, TriedInv, CallInv, Tried, Providers

LEMMA UrlFrame ==
  ASSUME NEW c, NEW u, UrlInv(c, u), job'[c][u] = job[c][u],
         call'[c].kind = call[c].kind, call'[c].started = call[c].started,
         OfUrl(c, u)' = OfUrl(c, u), \A i \in OfUrl(c, u) : events'[i] = events[i]
  PROVE  UrlInv(c, u)'
  <1> HIDE DEF OfUrl
  <1> QED BY DEF UrlInv

\* A call that nothing was done to keeps its invariant, while time passes
\* and others record.
LEMMA CallFrame ==
  ASSUME TypeInv, TypeInv', NEW c \in Calls, CallInv(c), clock <= clock', job'[c] = job[c],
         call'[c].pc = call[c].pc, call'[c].kind = call[c].kind, call'[c].urls = call[c].urls,
         call'[c].started = call[c].started, call'[c].failed = call[c].failed,
         Own(c)' = Own(c), \A i \in Own(c) : events'[i] = events[i]
  PROVE  CallInv(c)'
  <1>1. \A u \in Urls : OfUrl(c, u) = {i \in Own(c) : events[i].of = <<c, u>>}
    BY DEF OfUrl, Own
  <1>2. \A u \in Urls : OfUrl(c, u)' = {i \in Own(c)' : events'[i].of = <<c, u>>}
    BY DEF OfUrl, Own
  <1>3. ASSUME NEW u \in Urls
        PROVE  OfUrl(c, u)' = OfUrl(c, u) /\ OfUrl(c, u) \subseteq Own(c)
    <2>1. \A i \in Own(c) : events'[i].of = <<c, u>> <=> events[i].of = <<c, u>>
      OBVIOUS
    <2>2. {i \in Own(c)' : events'[i].of = <<c, u>>} = {i \in Own(c) : events[i].of = <<c, u>>}
      BY <2>1
    <2> QED BY <1>1, <1>2, <2>2
  <1>4. \A u \in Urls : UrlInv(c, u) => UrlInv(c, u)'
    BY <1>3, UrlFrame
  <1>5. call[c].urls \subseteq Urls /\ clock \in Nat /\ clock' \in Nat /\ call[c].started \in Nat
    BY DEF TypeInv, CallRecords
  <1> HIDE DEF UrlInv, Own
  <1>6. call[c].started <= clock => call[c].started <= clock'
    BY <1>5
  <1> QED BY <1>4, <1>5, <1>6 DEF CallInv

LEMMA Tables_Same ==
  ASSUME UNCHANGED events, NEW c, NEW u
  PROVE  Tried' = Tried /\ Own(c)' = Own(c) /\ OfUrl(c, u)' = OfUrl(c, u)
  BY DEF Tried, Own, OfUrl

\* What a tool records is no attempt; what a goroutine records is one of it.
LEMMA Tables_Record ==
  ASSUME RowsInv, NEW t \in Nat, NEW e, Added(t, e), NEW c
  PROVE  /\ e.kind = "tool" => Tried' = Tried /\ Own(c)' = Own(c)
         /\ e.kind = "provider" => /\ Tried' = Tried \cup {issued + 1}
                                   /\ Own(c)' = Own(c) \cup (IF e.of[1] = c THEN {issued + 1} ELSE {})
         /\ \A i \in Tried : events'[i] = events[i]
         /\ events'[issued + 1] = Row(t, e) /\ issued + 1 \notin Tried
  <1>1. /\ issued + 1 \notin DOMAIN events
        /\ DOMAIN events' = DOMAIN events \cup {issued + 1}
        /\ events'[issued + 1] = Row(t, e)
        /\ \A i \in DOMAIN events : events'[i] = events[i]
    BY RecordAdds
  <1>2. Row(t, e).kind = e.kind /\ Row(t, e).of = e.of
    BY DEF Row
  <1>3. e.kind = "tool" => Tried' = Tried /\ Own(c)' = Own(c)
    BY <1>1, <1>2 DEF Tried, Own
  <1>4. e.kind = "provider" => Tried' = Tried \cup {issued + 1}
    BY <1>1, <1>2 DEF Tried
  <1>5. e.kind = "provider" /\ e.of[1] = c => Own(c)' = Own(c) \cup {issued + 1}
    BY <1>1, <1>2, <1>4 DEF Own, Tried
  <1>6. e.kind = "provider" /\ e.of[1] # c => Own(c)' = Own(c)
    BY <1>1, <1>2, <1>4 DEF Own, Tried
  <1> QED BY <1>1, <1>3, <1>4, <1>5, <1>6 DEF Tried

LEMMA StepOpen ==
  ASSUME NEW c, NEW u, Step(c, u)
  PROVE  call[c].pc = "open"
  BY DEF Step, Refuse, Ensure, Fetch, Engine, Local, Task, Upload, Poll, Wake, Jina, Commit, At

\* A goroutine changes neither what its call is nor other calls.
LEMMA StepKeepsCalls ==
  ASSUME TypeInv, NEW c \in Calls, NEW u \in Urls, Step(c, u), NEW d \in Calls
  PROVE  /\ call'[d].pc = call[d].pc /\ call'[d].kind = call[d].kind /\ call'[d].urls = call[d].urls
         /\ call'[d].started = call[d].started /\ call'[d].failed = call[d].failed
  <1>1. CASE call' = call
    BY <1>1
  <1>2. ASSUME NEW n \in Nat, call' = [call EXCEPT ![c] = [call[c] EXCEPT
                                         !.count = n, !.advice = Advice(call[c].pages, n)]]
        PROVE  /\ call'[d].pc = call[d].pc /\ call'[d].kind = call[d].kind /\ call'[d].urls = call[d].urls
               /\ call'[d].started = call[d].started /\ call'[d].failed = call[d].failed
    <2>1. call[c] \in CallRecords
      BY DEF TypeInv
    <2>2. call'[d] = IF d = c THEN [call[c] EXCEPT !.count = n, !.advice = Advice(call[c].pages, n)] ELSE call[d]
      BY <1>2 DEF TypeInv
    <2> QED BY <2>1, <2>2 DEF CallRecords
  <1> QED BY <1>1, <1>2, StepTells

\* Calls other than the one that acts, while no attempt of theirs is recorded.
LEMMA OtherCalls ==
  ASSUME TypeInv, TypeInv', ChainInv, NEW c \in Calls, clock <= clock',
         call' = [call EXCEPT ![c] = call'[c]], job' = [job EXCEPT ![c] = job'[c]],
         \A d \in Calls : d # c => Own(d)' = Own(d) /\ \A i \in Own(d) : events'[i] = events[i],
         CallInv(c)'
  PROVE  \A d \in Calls : CallInv(d)'
  <1>1. ASSUME NEW d \in Calls, d # c PROVE CallInv(d)'
    <2>1. call'[d] = call[d] /\ job'[d] = job[d]
      BY <1>1 DEF TypeInv
    <2>2. CallInv(d)
      BY DEF ChainInv
    <2> QED BY <1>1, <2>1, <2>2, CallFrame
  <1> QED BY <1>1

LEMMA Open_Chain ==
  ASSUME TypeInv, TypeInv', ChainInv, NEW c \in Calls, NEW kind \in Kinds, NEW urls \in SUBSET Urls,
         NEW pages, Open(c, kind, urls, pages),
         kind = "clean" => Cardinality(urls) <= MaxBatch,
         kind = "pdf" => \E u \in Urls : urls = {u}
  PROVE  ChainInv'
  <1> DEFINE j == [NoJob EXCEPT !.pc = "start", !.left = Left(kind)]
  <1>1. UNCHANGED <<clock, events>> /\ call[c].pc = "idle"
    BY DEF Open, static, telemetry
  <1>2. /\ call' = [call EXCEPT ![c] = call'[c]]
        /\ call'[c].pc = "open" /\ call'[c].kind = kind /\ call'[c].urls = urls
        /\ call'[c].started = clock /\ call'[c].failed = FALSE
    BY DEF Open, NoCall, TypeInv
  <1>3. job' = [job EXCEPT ![c] = [u \in Urls |-> IF u \in urls THEN j ELSE NoJob]]
    BY DEF Open
  <1>4. j.pc = "start"
    BY DEF NoJob
  <1> HIDE DEF j
  <1>5. job' = [job EXCEPT ![c] = job'[c]] /\ \A u \in urls : job'[c][u].pc = "start"
    BY <1>3, <1>4 DEF TypeInv
  <1>6. Own(c) = {} /\ Own(c)' = {}
    BY <1>1, Tables_Same DEF ChainInv, CallInv
  <1>7. \A u \in urls : UrlInv(c, u)'
    <2>1. \A u \in urls : OfUrl(c, u)' = {}
      BY <1>6 DEF OfUrl, Own
    <2> QED BY <2>1, <1>5 DEF UrlInv, Early
  <1>8. CallInv(c)'
    <2> HIDE DEF UrlInv, Own
    <2>1. clock \in Nat /\ call'[c].started <= clock'
      BY <1>1, <1>2 DEF TypeInv
    <2> QED BY <1>2, <1>6, <1>7, <2>1 DEF CallInv
  <1>9. clock <= clock' /\ \A d \in Calls : Own(d)' = Own(d) /\ \A i \in Own(d) : events'[i] = events[i]
    <2>1. clock \in Nat
      BY DEF TypeInv
    <2>2. \A d \in Calls : Own(d)' = Own(d)
      BY <1>1, Tables_Same
    <2> QED BY <1>1, <2>1, <2>2
  <1>10. \A d \in Calls : CallInv(d)'
    BY <1>2, <1>5, <1>8, <1>9, OtherCalls
  <1>11. TriedInv'
    BY <1>1, Tables_Same DEF ChainInv, TriedInv
  <1> QED BY <1>10, <1>11 DEF ChainInv

LEMMA Reject_Chain ==
  ASSUME TypeInv, TypeInv', ChainInv, NEW c \in Calls, NEW kind \in Kinds, Reject(c, kind)
  PROVE  ChainInv'
  <1>1. UNCHANGED <<clock, events, job>> /\ call[c].pc = "idle"
    BY DEF Reject, static, telemetry
  <1>2. /\ call' = [call EXCEPT ![c] = call'[c]]
        /\ call'[c].pc = "open" /\ call'[c].urls = {} /\ call'[c].started = clock
    BY DEF Reject, NoCall, TypeInv
  <1>3. Own(c)' = {}
    BY <1>1, Tables_Same DEF ChainInv, CallInv
  <1>4. CallInv(c)'
    <2> HIDE DEF UrlInv, Own
    <2>1. clock \in Nat /\ call'[c].started <= clock' /\ MaxBatch \in Nat
      BY <1>1, <1>2, Constants DEF TypeInv
    <2> QED BY <1>2, <1>3, <2>1, FS_EmptySet DEF CallInv
  <1>5. clock <= clock' /\ job' = [job EXCEPT ![c] = job'[c]]
        /\ \A d \in Calls : Own(d)' = Own(d) /\ \A i \in Own(d) : events'[i] = events[i]
    <2>1. clock \in Nat /\ job \in [Calls -> [Urls -> JobRecords]]
      BY DEF TypeInv
    <2>2. \A d \in Calls : Own(d)' = Own(d)
      BY <1>1, Tables_Same
    <2> QED BY <1>1, <2>1, <2>2
  <1>6. \A d \in Calls : CallInv(d)'
    BY <1>2, <1>4, <1>5, OtherCalls
  <1>7. TriedInv'
    BY <1>1, Tables_Same DEF ChainInv, TriedInv
  <1> QED BY <1>6, <1>7 DEF ChainInv

LEMMA Finish_Chain ==
  ASSUME TypeInv, TypeInv', RowsInv, ChainInv, NEW c \in Calls, Finish(c)
  PROVE  ChainInv'
  <1>1. Tried' = Tried /\ (\A i \in Tried : events'[i] = events[i]) /\ \A d \in Calls : Own(d)' = Own(d)
    <2>1. CASE UNCHANGED telemetry
      BY <2>1, Tables_Same DEF telemetry
    <2>2. CASE ~UNCHANGED telemetry
      <3>1. PICK e : FinishedAs(c, e) /\ Added(clock, e)
        BY <2>2, FinishAdds
      <3>2. e.kind = "tool" /\ clock \in Nat
        BY <3>1, FinishedOk DEF TypeInv
      <3> QED BY <3>1, <3>2, Tables_Record
    <2> QED BY <2>1, <2>2
  <1>2. clock' = clock /\ call' = [call EXCEPT ![c] = call'[c]] /\ call'[c].pc = "done"
        /\ job' = [job EXCEPT ![c] = job'[c]]
    BY DEF Finish, static, NoCall, TypeInv
  <1>3. CallInv(c)'
    BY <1>2 DEF CallInv
  <1>4. clock <= clock' /\ \A d \in Calls : Own(d)' = Own(d) /\ \A i \in Own(d) : events'[i] = events[i]
    BY <1>1, <1>2 DEF TypeInv, Own
  <1>5. \A d \in Calls : CallInv(d)'
    BY <1>2, <1>3, <1>4, OtherCalls
  <1>6. TriedInv'
    BY <1>1 DEF ChainInv, TriedInv
  <1> QED BY <1>5, <1>6 DEF ChainInv

LEMMA Restart_Chain ==
  ASSUME TypeInv, TypeInv', ChainInv, Restart
  PROVE  ChainInv'
  <1>1. DOMAIN events' \subseteq DOMAIN events /\ (\A i \in DOMAIN events' : events'[i] = events[i])
    BY DEF Restart, Cleanup
  <1>2. Tried' \subseteq Tried /\ \A c \in Calls : Own(c)' \subseteq Own(c)
    BY <1>1 DEF Tried, Own
  <1>3. TriedInv'
    BY <1>1, <1>2 DEF ChainInv, TriedInv, Tried
  <1>4. \A c \in Calls : call'[c].pc = "lost" \/ (call'[c] = call[c] /\ call[c].pc # "open")
    BY DEF Restart, NoCall, TypeInv
  <1>5. \A c \in Calls : CallInv(c)'
    BY <1>2, <1>4 DEF ChainInv, CallInv
  <1> QED BY <1>3, <1>5 DEF ChainInv

\* The step of a goroutine that records nothing, or fails to.
LEMMA Quiet_Chain ==
  ASSUME TypeInv, TypeInv', JobsInv, ChainInv, NEW c \in Calls, NEW u \in Urls, u \in call[c].urls,
         Step(c, u), GoesOn(c, u) \/ Ends(c, u) \/ Tries(c, u) \/ (Commits(c, u) /\ UNCHANGED telemetry)
  PROVE  ChainInv'
  <1>1. UNCHANGED events /\ clock' = clock
    BY StepTime DEF GoesOn, Ends, Tries, telemetry
  <1>2. Tried' = Tried /\ \A d \in Calls, v \in Urls : Own(d)' = Own(d) /\ OfUrl(d, v)' = OfUrl(d, v)
    BY <1>1, Tables_Same
  <1>3. \A d \in Calls, v \in Urls : d # c \/ v # u => job'[d][v] = job[d][v]
    BY StepWays DEF Ways
  <1>4. clock \in Nat /\ call[c].urls \subseteq Urls /\ call[c].started \in Nat
    BY DEF TypeInv, CallRecords
  <1>5. call[c].pc = "open" /\ CallInv(c)
    BY StepOpen DEF ChainInv
  <1>6. UrlInv(c, u)'
    <2>1. UrlInv(c, u) /\ call[c].started <= clock
      BY <1>5 DEF CallInv
    <2>2. call'[c].kind = call[c].kind /\ call'[c].started = call[c].started
      BY StepKeepsCalls
    <2>3. OfUrl(c, u)' = OfUrl(c, u)
      BY <1>2
    <2> HIDE DEF OfUrl
    <2>4. CASE GoesOn(c, u)
      BY <1>1, <2>1, <2>2, <2>3, <2>4 DEF UrlInv, GoesOn, Early
    <2>5. CASE Ends(c, u)
      BY <1>1, <2>1, <2>2, <2>3, <2>5 DEF UrlInv, Ends, Early
    <2>6. CASE Tries(c, u)
      BY <1>1, <2>1, <2>2, <2>3, <2>6 DEF UrlInv, Tries, Early
    <2>7. CASE Commits(c, u)
      <3> DEFINE a == job[c][u].attempt
      <3>1. /\ job[c][u].pc = "commit" /\ (job'[c][u].pc = "jina" \/ job'[c][u].pc = "done")
            /\ job'[c][u].pc = "jina" => a.name = "webfetch" /\ ~a.ok
        BY <2>7 DEF Commits
      <3>2. a.name = "webfetch" \/ a.name = "jina"
        BY <3>1 DEF JobsInv, AttemptRecords, Providers
      <3>3. /\ a.name = "webfetch" => OfUrl(c, u) = {}
            /\ a.name = "jina" => \A i \in OfUrl(c, u) : events[i].name = "webfetch" /\ ~events[i].ok
        BY <2>1, <3>1 DEF UrlInv
      <3> HIDE DEF a
      <3>4. ~\E i \in OfUrl(c, u) : events[i].ok
        BY <3>2, <3>3
      <3>5. job'[c][u].pc = "jina" => OfUrl(c, u) = {}
        BY <3>1, <3>3
      <3> QED BY <1>1, <2>3, <3>1, <3>4, <3>5 DEF UrlInv, Early
    <2> QED BY <2>4, <2>5, <2>6, <2>7
  <1>7. \A v \in call[c].urls : UrlInv(c, v)'
    <2>1. ASSUME NEW v \in call[c].urls, v # u PROVE UrlInv(c, v)'
      <3>1. UrlInv(c, v)
        BY <1>5 DEF CallInv
      <3>2. call'[c].kind = call[c].kind /\ call'[c].started = call[c].started
        BY StepKeepsCalls
      <3>3. v \in Urls /\ job'[c][v] = job[c][v] /\ OfUrl(c, v)' = OfUrl(c, v) /\ events' = events
        BY <1>1, <1>2, <1>3, <1>4, <2>1
      <3> QED BY <3>1, <3>2, <3>3, UrlFrame
    <2> QED BY <1>6, <2>1
  <1>8. CallInv(c)'
    <2>1. /\ call'[c].pc = call[c].pc /\ call'[c].kind = call[c].kind /\ call'[c].urls = call[c].urls
          /\ call'[c].started = call[c].started /\ call'[c].failed = call[c].failed
      BY StepKeepsCalls
    <2>2. Own(c)' = Own(c)
      BY <1>2
    <2> HIDE DEF UrlInv, Own
    <2> QED BY <1>1, <1>5, <1>7, <2>1, <2>2 DEF CallInv
  <1>9. ASSUME NEW d \in Calls, d # c PROVE CallInv(d)'
    <2>1. job'[d] = job[d]
      BY <1>3, <1>9 DEF TypeInv
    <2>2. CallInv(d) /\ clock <= clock' /\ Own(d)' = Own(d) /\ \A i \in Own(d) : events'[i] = events[i]
      BY <1>1, <1>2, <1>4 DEF ChainInv
    <2> QED BY <2>1, <2>2, StepKeepsCalls, CallFrame
  <1>10. TriedInv'
    BY <1>1, <1>2 DEF ChainInv, TriedInv
  <1> QED BY <1>8, <1>9, <1>10 DEF ChainInv

\* The step that records the attempt of a goroutine.
LEMMA Commit_Chain ==
  ASSUME TypeInv, TypeInv', JobsInv, RowsInv, ChainInv, NEW c \in Calls, NEW u \in Urls, u \in call[c].urls,
         Step(c, u), Commits(c, u), ~UNCHANGED telemetry
  PROVE  ChainInv'
  <1> DEFINE a == job[c][u].attempt
             t == job[c][u].now
             new == issued + 1
  <1>1. clock' = clock /\ call[c].pc = "open"
    BY StepTime, StepOpen
  <1>2. a \in AttemptRecords /\ a.kind = "provider" /\ a.name \in Providers /\ a.ok \in BOOLEAN /\ t \in Nat
    BY DEF Commits, JobsInv, AttemptRecords, TypeInv, JobRecords
  <1>3. clock \in Nat /\ call[c].urls \subseteq Urls /\ call[c].started \in Nat
    BY DEF TypeInv, CallRecords
  <1>4. CallInv(c) /\ UrlInv(c, u)
    BY <1>1 DEF ChainInv, CallInv
  <1>5. a.of = <<c, u>> /\ a.of[1] = c /\ call[c].started <= t
    BY <1>4 DEF UrlInv, Commits
  <1>6. Added(t, a)
    BY DEF Commits, Record
  <1> HIDE DEF a, t
  <1>7. /\ Tried' = Tried \cup {new} /\ new \notin Tried
        /\ \A i \in Tried : events'[i] = events[i]
        /\ Own(c)' = Own(c) \cup {new}
        /\ \A d \in Calls : d # c => Own(d)' = Own(d)
        /\ events'[new] = Row(t, a)
    <2> HIDE DEF new, Own
    <2>0. ASSUME NEW d \in Calls PROVE Own(d)' = Own(d) \cup (IF a.of[1] = d THEN {new} ELSE {})
      BY <1>2, <1>6, Tables_Record DEF new
    <2>1. ASSUME NEW d \in Calls, d # c PROVE Own(d)' = Own(d)
      BY <1>5, <2>0, <2>1
    <2>2. Own(c)' = Own(c) \cup {new} /\ \A d \in Calls : d # c => Own(d)' = Own(d)
      <3>1. Own(c)' = Own(c) \cup (IF a.of[1] = c THEN {new} ELSE {})
        BY <2>0
      <3>2. (IF a.of[1] = c THEN {new} ELSE {}) = {new}
        BY <1>5
      <3> QED BY <2>1, <3>1, <3>2
    <2> USE DEF new
    <2> QED BY <1>2, <1>6, <2>2, Tables_Record
  <1>8. /\ events'[new].of = <<c, u>> /\ events'[new].name = a.name /\ events'[new].ok = a.ok
        /\ call[c].started < events'[new].at * Second + Second
    <2>1. Row(t, a).at = Seconds(t) /\ Row(t, a).of = a.of /\ Row(t, a).name = a.name /\ Row(t, a).ok = a.ok
      BY DEF Row
    <2>2. t < Seconds(t) * Second + Second /\ Seconds(t) * Second \in Nat /\ Second \in Nat
      BY <1>2, SecondsAreNat, Constants
    <2>3. call[c].started < Seconds(t) * Second + Second
      BY <1>2, <1>3, <1>5, <2>2
    <2> QED BY <1>5, <1>7, <2>1, <2>3
  <1>9. OfUrl(c, u)' = OfUrl(c, u) \cup {new} /\ \A v \in Urls : v # u => OfUrl(c, v)' = OfUrl(c, v)
    BY <1>7, <1>8 DEF OfUrl
  <1>10. \A d \in Calls, v \in Urls : d # c \/ v # u => job'[d][v] = job[d][v]
    BY StepWays DEF Ways
  <1>11. UrlInv(c, u)'
    <2>1. call'[c].kind = call[c].kind /\ call'[c].started = call[c].started
      BY StepKeepsCalls
    <2>2. \A i \in OfUrl(c, u) : events'[i] = events[i]
      BY <1>7 DEF OfUrl
    <2> HIDE DEF new
    <2>3. job[c][u].pc = "commit" /\ (job'[c][u].pc = "jina" \/ job'[c][u].pc = "done")
          /\ job'[c][u].result = job[c][u].result
          /\ (job'[c][u].pc = "jina" => a.name = "webfetch" /\ ~a.ok)
      BY DEF Commits, a
    <2>4. /\ a.ok <=> job[c][u].result # "error"
          /\ a.name = "webfetch" => OfUrl(c, u) = {}
          /\ a.name = "jina" => \A i \in OfUrl(c, u) : events[i].name = "webfetch" /\ ~events[i].ok
      BY <1>4, <2>3 DEF UrlInv, a
    <2> HIDE DEF OfUrl
    <2>5. CASE job'[c][u].pc = "jina"
      BY <1>8, <1>9, <2>3, <2>4, <2>5 DEF UrlInv, Early
    <2>6. CASE job'[c][u].pc = "done"
      <3>1. (\E i \in OfUrl(c, u)' : events'[i].ok) <=> a.ok
        <4>1. \A i \in OfUrl(c, u) : ~events'[i].ok
          BY <1>2, <2>2, <2>4 DEF Providers
        <4> QED BY <1>8, <1>9, <4>1
      <3> QED BY <2>3, <2>4, <2>6, <3>1 DEF UrlInv, Early
    <2> QED BY <2>3, <2>5, <2>6
  <1>12. \A v \in call[c].urls : UrlInv(c, v)'
    <2>1. ASSUME NEW v \in call[c].urls, v # u PROVE UrlInv(c, v)'
      <3>1. UrlInv(c, v)
        BY <1>1, <1>4 DEF CallInv
      <3>2. call'[c].kind = call[c].kind /\ call'[c].started = call[c].started
        BY StepKeepsCalls
      <3>3. v \in Urls /\ job'[c][v] = job[c][v] /\ OfUrl(c, v)' = OfUrl(c, v)
        BY <1>3, <1>9, <1>10, <2>1
      <3>4. \A i \in OfUrl(c, v) : events'[i] = events[i]
        BY <1>7 DEF OfUrl
      <3> QED BY <3>1, <3>2, <3>3, <3>4, UrlFrame
    <2> QED BY <1>11, <2>1
  <1>13. CallInv(c)'
    <2>1. /\ call'[c].pc = call[c].pc /\ call'[c].kind = call[c].kind /\ call'[c].urls = call[c].urls
          /\ call'[c].started = call[c].started /\ call'[c].failed = call[c].failed
      BY StepKeepsCalls
    <2>2. \A i \in Own(c) : events'[i] = events[i] /\ new # i
      BY <1>7 DEF Own
    <2>3. ASSUME NEW i \in Own(c), events[i].of = <<c, u>>, events[i].name = a.name PROVE FALSE
      <3>1. i \in OfUrl(c, u)
        BY <2>3 DEF OfUrl, Own
      <3>2. job[c][u].pc = "commit"
        BY DEF Commits
      <3>3. /\ a.name = "webfetch" => OfUrl(c, u) = {}
            /\ a.name = "jina" => \A k \in OfUrl(c, u) : events[k].name = "webfetch" /\ ~events[k].ok
        BY <1>4, <3>2 DEF UrlInv, a
      <3> HIDE DEF OfUrl
      <3>4. a.name = "webfetch" \/ a.name = "jina"
        BY <1>2 DEF Providers
      <3> QED BY <2>3, <3>1, <3>3, <3>4
    <2> HIDE DEF UrlInv, Own, new
    <2>4. \A i \in Own(c)' : /\ events'[i].of[2] \in call[c].urls
                             /\ call[c].started < events'[i].at * Second + Second
      BY <1>1, <1>4, <1>7, <1>8, <2>2 DEF CallInv
    <2>5. \A i, k \in Own(c)' : events'[i].of = events'[k].of /\ events'[i].name = events'[k].name => i = k
      BY <1>1, <1>4, <1>7, <1>8, <2>2, <2>3 DEF CallInv
    <2> QED BY <1>1, <1>4, <1>12, <2>1, <2>4, <2>5 DEF CallInv
  <1>14. ASSUME NEW d \in Calls, d # c PROVE CallInv(d)'
    <2>1. job'[d] = job[d]
      BY <1>10, <1>14 DEF TypeInv
    <2>2. Own(d)' = Own(d) /\ \A i \in Own(d) : events'[i] = events[i]
      BY <1>7, <1>14 DEF Own
    <2>3. CallInv(d) /\ clock <= clock'
      BY <1>1, <1>3 DEF ChainInv
    <2> QED BY <2>1, <2>2, <2>3, StepKeepsCalls, CallFrame
  <1>15. TriedInv'
    <2>1. <<c, u>> \in Calls \X Urls
      OBVIOUS
    <2> QED BY <1>2, <1>7, <1>8, <2>1 DEF ChainInv, TriedInv
  <1> QED BY <1>13, <1>14, <1>15 DEF ChainInv

LEMMA Next_Chain ==
  ASSUME TypeInv, TypeInv', JobsInv, RowsInv, ChainInv, [Next]_vars
  PROVE  ChainInv'
  <1>1. ASSUME UNCHANGED <<events, job, call>>, clock <= clock' PROVE ChainInv'
    <2>1. Tried' = Tried /\ \A d \in Calls : Own(d)' = Own(d)
      BY <1>1, Tables_Same
    <2>2. \A d \in Calls : CallInv(d)'
      BY <1>1, <2>1, CallFrame DEF ChainInv
    <2>3. TriedInv'
      BY <1>1, <2>1 DEF ChainInv, TriedInv
    <2> QED BY <2>2, <2>3 DEF ChainInv
  <1>2. clock \in Nat
    BY DEF TypeInv
  <1>3. CASE Sweep \/ RemoveFile \/ UNCHANGED vars
    BY <1>1, <1>2, <1>3 DEF Sweep, RemoveFile, static, telemetry, vars
  <1>4. CASE Tick
    BY <1>1, <1>2, <1>4 DEF Tick, telemetry
  <1>5. ASSUME NEW c \in Calls, NEW u \in Urls, u \in call[c].urls, Step(c, u) PROVE ChainInv'
    <2>1. GoesOn(c, u) \/ Ends(c, u) \/ Tries(c, u) \/ Commits(c, u)
      BY <1>5, StepWays DEF Ways
    <2> QED BY <1>5, <2>1, Quiet_Chain, Commit_Chain
  <1> QED BY NextCases, <1>3, <1>4, <1>5, Open_Chain, Reject_Chain, Finish_Chain, Restart_Chain

-----------------------------------------------------------------------------
(* The chain of a lone call                                                *)

\* A call of a tool leaves no more attempts than the chain reads events.
LEMMA OwnIsBounded ==
  ASSUME TypeInv, RowsInv, TriedInv, NEW c \in Calls, CallInv(c), call[c].pc = "open", call[c].kind # "enrich"
  PROVE  IsFiniteSet(Own(c)) /\ Cardinality(Own(c)) <= ChainLimit
  <1> DEFINE urls == call[c].urls
             f == [i \in Own(c) |-> <<events[i].of[2], events[i].name>>]
  <1>1. urls \subseteq Urls /\ call[c].kind \in Kinds
    BY DEF TypeInv, CallRecords
  <1>2. IsFiniteSet(urls) /\ Cardinality(urls) \in Nat
    BY <1>1, PageFetchConstants, FS_Subset, FS_CardinalityType
  <1>3. Cardinality(urls) <= MaxBatch /\ MaxBatch \in Nat \ {0} /\ ChainLimit \in Nat /\ 2 * MaxBatch <= ChainLimit
    <2>1. MaxBatch \in Nat \ {0} /\ ChainLimit \in Nat /\ 2 * MaxBatch <= ChainLimit
      BY Constants, PageFetchConstants
    <2>2. CASE call[c].kind = "clean"
      BY <2>1, <2>2 DEF CallInv
    <2>3. CASE call[c].kind = "pdf"
      <3>1. urls = {} \/ \E u \in Urls : urls = {u}
        BY <2>3 DEF CallInv
      <3>2. Cardinality(urls) = 0 \/ Cardinality(urls) = 1
        BY <3>1, FS_EmptySet, FS_Singleton
      <3> QED BY <2>1, <3>2
    <2> QED BY <1>1, <2>2, <2>3 DEF Kinds
  <1>4. Providers = {"webfetch", "jina"} /\ IsFiniteSet(Providers) /\ Cardinality(Providers) = 2
    <2>1. IsFiniteSet({"webfetch"}) /\ Cardinality({"webfetch"}) = 1
      BY FS_Singleton
    <2>2. Providers = {"webfetch"} \cup {"jina"} /\ "jina" \notin {"webfetch"}
      BY DEF Providers
    <2>3. IsFiniteSet({"webfetch"} \cup {"jina"})
          /\ Cardinality({"webfetch"} \cup {"jina"}) = Cardinality({"webfetch"}) + 1
      BY <2>1, <2>2, FS_AddElement
    <2>4. Cardinality({"webfetch"} \cup {"jina"}) = 2
      BY <2>1, <2>3
    <2> QED BY <2>2, <2>3, <2>4 DEF Providers
  <1>5. IsFiniteSet(urls \X Providers) /\ Cardinality(urls \X Providers) = Cardinality(urls) * 2
    BY <1>2, <1>4, FS_Product
  <1>6. Cardinality(urls \X Providers) <= ChainLimit /\ Cardinality(urls \X Providers) \in Nat
    <2> HIDE DEF urls
    <2> QED BY <1>2, <1>3, <1>5
  <1>7. \A i \in Own(c) : /\ events[i].of = <<c, events[i].of[2]>> /\ events[i].of[2] \in urls
                         /\ events[i].name \in Providers
    <2>1. c # "none"
      BY PageFetchConstants
    <2> QED BY <2>1 DEF TriedInv, CallInv, Own
  <1>8. f \in [Own(c) -> urls \X Providers]
    BY <1>7
  <1>9. \A i, j \in Own(c) : f[i] = f[j] => i = j
    BY <1>7 DEF CallInv
  <1>10. IsFiniteSet(Own(c))
    BY FiniteRows, FS_Subset DEF Own, Tried
  <1> HIDE DEF f, urls
  <1>11. ~(Cardinality(urls \X Providers) < Cardinality(Own(c)))
    BY <1>5, <1>8, <1>9, <1>10, FS_PigeonHole
  <1>12. Cardinality(Own(c)) \in Nat /\ ChainLimit \in Nat
    BY <1>3, <1>10, FS_CardinalityType
  <1> HIDE DEF Own
  <1> QED BY <1>6, <1>10, <1>11, <1>12

\* The attempts that others made while the call was open.
Others(c) == {i \in Tried \ Own(c) : events[i].at * Second + Slack >= call[c].started}

\* Beside a lone call, what the chain takes for its attempts are its own.
LEMMA MineAreOwn ==
  ASSUME TypeInv, RowsInv, TriedInv, NEW c \in Calls, CallInv(c), call[c].pc = "open", call[c].kind # "enrich",
         Others(c) = {}
  PROVE  AttemptsSince(call[c].started) = Own(c)
  <1>1. \A i \in Tried : events[i].at * Second \in Nat
    BY Constants DEF RowsInv, Tried
  <1>2. Second \in Nat /\ Slack \in Nat /\ Slack >= Second - 1 /\ call[c].started \in Nat /\ ChainLimit \in Nat
    BY Constants, PageFetchConstants DEF TypeInv, CallRecords
  <1>3. \A i \in Own(c) : i \in Tried /\ call[c].started < events[i].at * Second + Second
    BY DEF CallInv, Own
  <1>4. ASSUME NEW i \in Own(c) PROVE WithinCall(events[i], call[c].started)
    <2>1. events[i].at * Second \in Nat /\ call[c].started < events[i].at * Second + Second
      BY <1>1, <1>3
    <2> QED BY <1>2, <2>1 DEF WithinCall
  <1>5. ASSUME NEW i \in Tried, WithinCall(events[i], call[c].started) PROVE i \in Own(c)
    <2>1. events[i].at * Second \in Nat /\ events[i].at * Second + Slack >= call[c].started
      BY <1>1, <1>2, <1>5 DEF WithinCall
    <2> QED BY <2>1 DEF Others
  <1>6. ASSUME NEW i \in Own(c) PROVE i \in RecentFiltered(Tried, ChainLimit)
    <2>1. NewerThan(i, Tried) \subseteq Own(c) \ {i}
      <3> SUFFICES ASSUME NEW j \in Tried, Newer(j, i) PROVE j \in Own(c) /\ j # i
        BY DEF NewerThan
      <3>1. i \in DOMAIN events /\ j \in DOMAIN events
        BY <1>3 DEF Tried
      <3>2. j # i /\ events[i].at <= events[j].at
        BY <3>1, NewerOrder
      <3>3. events[i].at * Second <= events[j].at * Second
        BY <1>2, <3>1, <3>2, MulMono DEF RowsInv
      <3>4. WithinCall(events[j], call[c].started)
        BY <1>1, <1>2, <1>3, <1>4, <3>3 DEF WithinCall
      <3> QED BY <1>5, <3>2, <3>4
    <2>2. IsFiniteSet(Own(c)) /\ Cardinality(Own(c)) <= ChainLimit /\ Cardinality(Own(c)) \in Nat
      BY OwnIsBounded, FS_CardinalityType
    <2>3. IsFiniteSet(Own(c) \ {i}) /\ Cardinality(Own(c) \ {i}) = Cardinality(Own(c)) - 1
      BY <2>2, FS_RemoveElement
    <2>4. Cardinality(NewerThan(i, Tried)) <= Cardinality(Own(c) \ {i}) /\ Cardinality(NewerThan(i, Tried)) \in Nat
      BY <2>1, <2>3, FS_Subset, FS_CardinalityType
    <2>5. Cardinality(NewerThan(i, Tried)) < ChainLimit
      BY <1>2, <2>2, <2>3, <2>4
    <2> QED BY <1>3, <2>5 DEF RecentFiltered
  <1>7. RecentFiltered(Tried, ChainLimit) \subseteq Tried
    BY DEF RecentFiltered
  <1>8. {i \in RecentFiltered(Tried, ChainLimit) : WithinCall(events[i], call[c].started)} = Own(c)
    BY <1>4, <1>5, <1>6, <1>7
  <1> QED BY <1>8 DEF AttemptsSince, Tried

\* What the chain of a lone call says.
LEMMA LoneChain ==
  ASSUME TypeInv, RowsInv, ChainInv, NEW c \in Calls, call[c].pc = "open", call[c].kind # "enrich",
         Others(c) = {}, NEW chain, chain = AttemptChain(AttemptsSince(call[c].started))
  PROVE  /\ chain.attempted = {events[i].name : i \in Own(c)}
         /\ \A u \in Urls :
              call[c].kind = "clean" /\ call[c].urls = {u} =>
                (chain.winner # "none" <=> \E i \in Own(c) : events[i].ok)
  <1> DEFINE newest == {i \in Own(c) : \A j \in NewerThan(i, Own(c)) : events[j].name # events[i].name}
             won == {i \in newest : events[i].ok}
  <1>1. TriedInv /\ CallInv(c) /\ Own(c) \subseteq Tried /\ Tried \subseteq DOMAIN events /\ c # "none"
    BY PageFetchConstants DEF ChainInv, Own, Tried
  <1>2. chain = [attempted |-> {events[i].name : i \in newest},
                 winner |-> IF won = {} THEN "none" ELSE events[First(won)].name]
    <2>1. AttemptsSince(call[c].started) = Own(c)
      BY <1>1, MineAreOwn
    <2> HIDE DEF Own
    <2> QED BY <2>1 DEF AttemptChain
  <1>3. ASSUME NEW i \in Own(c) PROVE \E n \in newest : events[n].name = events[i].name
    <2> DEFINE S == {j \in Own(c) : events[j].name = events[i].name}
    <2>1. S \in SUBSET DOMAIN events /\ S # {}
      BY <1>1
    <2>2. PICK n \in S : \A j \in S : ~Newer(j, n)
      <3> HIDE DEF S
      <3> QED BY <2>1, NewestExists
    <2>3. n \in newest
      BY <2>2 DEF NewerThan
    <2> QED BY <2>2, <2>3
  <1>4. {events[i].name : i \in newest} = {events[i].name : i \in Own(c)}
    BY <1>3
  <1>5. ASSUME NEW u \in Urls, call[c].kind = "clean", call[c].urls = {u}
        PROVE  chain.winner # "none" <=> \E i \in Own(c) : events[i].ok
    <2>1. \A i \in Own(c) : events[i].of = <<c, u>> /\ events[i].name \in Providers
      BY <1>1, <1>5 DEF TriedInv, CallInv, Own
    <2>2. newest = Own(c)
      <3> SUFFICES ASSUME NEW i \in Own(c), NEW j \in Own(c), Newer(j, i), events[j].name = events[i].name
                   PROVE  FALSE
        BY DEF NewerThan
      <3>1. i = j
        BY <1>1, <2>1 DEF CallInv
      <3> QED BY <1>1, <3>1, NewerOrder
    <2>3. won # {} <=> \E i \in Own(c) : events[i].ok
      BY <2>2
    <2>4. ASSUME won # {} PROVE events[First(won)].name # "none"
      <3>1. won \in SUBSET DOMAIN events /\ won \subseteq Own(c)
        BY <1>1
      <3> HIDE DEF won
      <3>2. First(won) \in won
        BY <2>4, <3>1, FirstIsNewest
      <3> QED BY <2>1, <3>1, <3>2 DEF Providers
    <2> HIDE DEF won
    <2> QED BY <1>2, <2>3, <2>4
  <1> HIDE DEF newest, won
  <1> QED BY <1>2, <1>4, <1>5

\* The tool's record of a call that ends, when it is not lost.
LEMMA FinishRecords ==
  ASSUME TypeInv, RowsInv, NEW c \in Calls, Finish(c), issued' # issued
  PROVE  LET tool == events'[issued']
         IN  /\ tool.chain = AttemptChain(AttemptsSince(call[c].started))
             /\ tool.ok <=> ~(call[c].failed \/ (call[c].kind # "enrich"
                                             /\ \E u \in Urls : call[c].urls = {u} /\ job[c][u].result = "error"))
  <1>1. PICK e : FinishedAs(c, e) /\ Added(clock, e)
    BY FinishAdds DEF telemetry
  <1>2. issued' = issued + 1 /\ events'[issued'] = Row(clock, e)
    BY <1>1, RecordAdds DEF TypeInv
  <1>3. Row(clock, e).chain = e.chain /\ Row(clock, e).ok = e.ok
    BY DEF Row
  <1> QED BY <1>1, <1>2, <1>3, FinishedOk

LEMMA Next_LoneChain ==
  ASSUME TypeInv, RowsInv, ChainInv, [Next]_vars, NEW c \in Calls,
         call[c].pc = "open", call'[c].pc = "done", call[c].kind # "enrich", issued' # issued, Others(c) = {}
  PROVE  LET tool == events'[issued']
         IN  /\ tool.chain.attempted = {events[i].name : i \in Own(c)}
             /\ call[c].kind = "clean" /\ Cardinality(call[c].urls) = 1 =>
                  /\ tool.chain.winner # "none" <=> \E i \in Own(c) : events[i].ok
                  /\ tool.chain.winner # "none" => tool.ok
  <1>1. Finish(c)
    <2>1. ASSUME NEW d \in Calls, NEW kind \in Kinds, NEW urls, NEW pages, Open(d, kind, urls, pages) PROVE FALSE
      BY <2>1 DEF Open, NoCall, TypeInv
    <2>2. ASSUME NEW d \in Calls, NEW kind \in Kinds, Reject(d, kind) PROVE FALSE
      BY <2>2 DEF Reject, NoCall, TypeInv
    <2>3. ASSUME NEW d \in Calls, d # c, Finish(d) PROVE FALSE
      BY <2>3 DEF Finish, NoCall, TypeInv
    <2>4. ASSUME NEW d \in Calls, NEW u \in Urls, Step(d, u) PROVE FALSE
      BY <2>4, StepKeepsCalls
    <2>5. CASE Sweep \/ RemoveFile \/ Tick \/ UNCHANGED vars
      BY <2>5 DEF Sweep, RemoveFile, Tick, vars
    <2>6. CASE Restart
      BY <2>6 DEF Restart, NoCall, TypeInv
    <2> QED BY NextCases, <2>1, <2>2, <2>3, <2>4, <2>5, <2>6
  <1> DEFINE tool == events'[issued']
  <1>2. tool.chain = AttemptChain(AttemptsSince(call[c].started))
        /\ (tool.ok <=> ~(call[c].failed \/ (call[c].kind # "enrich"
                                            /\ \E u \in Urls : call[c].urls = {u} /\ job[c][u].result = "error")))
    BY <1>1, FinishRecords
  <1> HIDE DEF tool
  <1>3. tool.chain.attempted = {events[i].name : i \in Own(c)}
    BY <1>2, LoneChain
  <1>4. ASSUME call[c].kind = "clean", Cardinality(call[c].urls) = 1
        PROVE  /\ tool.chain.winner # "none" <=> \E i \in Own(c) : events[i].ok
               /\ tool.chain.winner # "none" => tool.ok
    <2>1. call[c].urls \subseteq Urls /\ IsFiniteSet(call[c].urls)
      BY PageFetchConstants, FS_Subset DEF TypeInv, CallRecords
    <2>2. PICK u : call[c].urls = {u}
      BY <1>4, <2>1, FS_Singleton
    <2>3. u \in Urls /\ job[c][u].pc = "done"
      BY <1>1, <2>1, <2>2 DEF Finish
    <2>4. tool.chain.winner # "none" <=> \E i \in Own(c) : events[i].ok
      BY <1>2, <1>4, <2>2, <2>3, LoneChain
    <2>5. ~call[c].failed /\ CallInv(c) /\ UrlInv(c, u)
      BY <2>2 DEF ChainInv, CallInv
    <2>6. ASSUME NEW i \in Own(c), events[i].ok PROVE job[c][u].result # "error"
      <3>1. events[i].of = <<c, u>>
        <4>1. events[i].of[2] = u
          BY <2>2, <2>5 DEF CallInv
        <4>2. events[i].of \in Calls \X Urls /\ events[i].of[1] = c
          BY PageFetchConstants DEF ChainInv, TriedInv, Own
        <4> QED BY <4>1, <4>2
      <3>2. i \in OfUrl(c, u)
        BY <3>1 DEF OfUrl, Own
      <3> QED BY <1>4, <2>3, <2>5, <2>6, <3>2 DEF UrlInv
    <2>7. tool.ok <=> job[c][u].result # "error"
      BY <1>2, <1>4, <2>2, <2>3, <2>5
    <2> QED BY <2>4, <2>6, <2>7
  <1> QED BY <1>3, <1>4 DEF tool

\* LoneChainIsExact: the chain a tool stores is put together from the newest
\* events of the table by their stamps alone; beside a call whose time no
\* other attempt shares it names exactly the providers of the call's recorded
\* attempts, and for a single fetch a winner when and only when a success is
\* among them, in which case the call has succeeded. For any number of calls
\* and urls, with the slack and the limit on the events that are read.
THEOREM Spec_LoneChainIsExact == Spec => LoneChainIsExact
  <1>1. Spec => []ChainInv
    BY Spec_Tables, Init_Chain, Next_Chain, PTL DEF Spec
  <1>2. TypeInv /\ RowsInv /\ ChainInv /\ [Next]_vars =>
          [\A c \in Calls :
             call[c].pc = "open" /\ call'[c].pc = "done" /\ call[c].kind # "enrich" /\ issued' # issued =>
             LET attempts == {i \in DOMAIN events : events[i].kind = "provider"}
                 own == {i \in attempts : events[i].of[1] = c}
                 others == {i \in attempts \ own : events[i].at * Second + Slack >= call[c].started}
                 tool == events'[issued']
                 chain == tool.chain
             IN  others = {} =>
                   /\ chain.attempted = {events[i].name : i \in own}
                   /\ call[c].kind = "clean" /\ Cardinality(call[c].urls) = 1 =>
                        /\ chain.winner # "none" <=> \E i \in own : events[i].ok
                        /\ chain.winner # "none" => tool.ok]_vars
    BY Next_LoneChain DEF Others, Own, Tried
  <1> QED BY <1>1, <1>2, Spec_Tables, PTL DEF Spec, LoneChainIsExact
=============================================================================
