--------------------------- MODULE WebSearch_proofs ---------------------------
(* Proofs about WebSearch, for every set of callers and every set of        *)
(* intents: an answer has gone through the fetching of page bodies if, and  *)
(* only if, the call asked for it, and a summary is for the intent of the   *)
(* call, whatever row it comes from; and about SearchCache in time, used by *)
(* any caller: what is served is fresh, and what is used stays.             *)
EXTENDS WebSearch, SummaryStream, TLAPS

Wanted == Intents \cup {NoIntent}
Lists == [body : {"no", "yes", "cut"}, academic : BOOLEAN]
Summaries == [for : Wanted, from : Lists]
Rows == [results : Lists, summary : Summaries \cup {NoSummary}, lastHit : Nat, used : Nat]
Labels == {"idle", "lookup", "lookup2", "search", "bing", "enrich", "summarize", "store"}

\* The list a web search leaves under query q: it went through the fetch, if q
\* is for bodies.
Due(q, l) == /\ l \in Lists /\ ~ l.academic
             /\ l.body = "no" <=> q # CacheQuery(TRUE)

\* Row x fits its key k.
RowOK(k, x) ==
  /\ x \in Rows
  /\ k[3] => x.summary = NoSummary
  /\ k[3] => k[2] = NoIntent
  /\ ~ k[3] => Due(k[1], x.results)
  /\ x.summary # NoSummary => x.summary.for = k[2] /\ Due(k[1], x.summary.from)

RowsInv ==
  /\ now \in Nat
  /\ DOMAIN rows \subseteq Keys
  /\ \A k \in DOMAIN rows : RowOK(k, rows[k])

\* What the lookup of key k copied from a row fits k.
Copy(k, l) ==
  /\ Due(k[1], l.results)
  /\ l.type = "exact_intent" => l.summary.for = k[2] /\ Due(k[1], l.summary.from)

\* The key looked up, at the first lookup or the second.
KeyOf(r) == IF pc[r] = "lookup2" THEN PlainKey(ask[r]) ELSE RowKey(ask[r])

AskFields == {"at", "key", "began"}
HitFields == {"at", "began", "row", "live", "type", "results", "summary", "age", "clean"}

\* The lookup of r: what it looks for, what it has copied, and that the row it
\* will touch is there.
LookOK(r) ==
  /\ "at" \in DOMAIN look[r]
  /\ pc[r] \notin {"lookup", "lookup2"} => look[r].at = "idle"
  /\ look[r].at = "exact" => DOMAIN look[r] = AskFields
  /\ look[r].at \in {"exact", "query"} => look[r].key = KeyOf(r)
  /\ look[r].at \in {"exact", "query", "touch"} => look[r].began \in Nat
  /\ look[r].at = "touch" =>
       /\ DOMAIN look[r] = HitFields
       /\ look[r].live => look[r].row \in DOMAIN rows
       /\ ~ look[r].row[3] => Copy(KeyOf(r), look[r])
  /\ look[r].at = "hit" /\ ~ look[r].academic => Copy(KeyOf(r), look[r])

LookInv == \A r \in Requests : LookOK(r)

\* Background task t writes what fits the row it will find.
TaskOK(t) == t.query \in Queries /\ t.intent \in Intents /\ Due(t.query, t.results)

TypeInv ==
  /\ pc \in [Requests -> Labels]
  /\ ask \in [Requests -> [intent : Wanted, fetch : BOOLEAN]]
  /\ list \in [Requests -> Lists]
  /\ DOMAIN answer = Requests
  /\ DOMAIN look = Requests

\* The list of a call that stores it, and the answer of a call.
HeldOK(r) ==
  /\ pc[r] = "enrich" => ~ list[r].academic
  /\ pc[r] \in {"summarize", "store"} => Due(CacheQuery(ask[r].fetch), list[r])
  /\ pc[r] = "summarize" => ask[r].intent \in Intents

AnswerOK(r) ==
  /\ answer[r].kind = "raw" => Due(CacheQuery(ask[r].fetch), answer[r].of)
  /\ answer[r].kind = "summary" =>
       answer[r].of.for = ask[r].intent /\ Due(CacheQuery(ask[r].fetch), answer[r].of.from)

CallsInv ==
  /\ \A t \in tasks : TaskOK(t)
  /\ \A r \in Requests : HeldOK(r) /\ AnswerOK(r)

WebInv == TypeInv /\ RowsInv /\ LookInv /\ CallsInv

-----------------------------------------------------------------------------
(* The rows                                                                *)

LEMMA Same_Rows ==
  ASSUME RowsInv, rows' = rows, now' = now
  PROVE  RowsInv'
  BY DEF RowsInv

\* A row that is touched fits as before.
LEMMA Touch_Rows ==
  ASSUME RowsInv, NEW c, look[c].row \in DOMAIN rows, look[c].began \in Nat, Touch(c), now' = now
  PROVE  RowsInv' /\ DOMAIN rows' = DOMAIN rows
  <1> DEFINE j == look[c].row
             x == [[rows[j] EXCEPT !.lastHit = look[c].began] EXCEPT !.used = now]
  <1>1. DOMAIN rows' = DOMAIN rows
    BY DEF Touch, Touched
  <1>2. ASSUME NEW i \in DOMAIN rows PROVE RowOK(i, rows'[i])
    <2>1. RowOK(i, rows[i]) /\ now \in Nat
      BY DEF RowsInv
    <2>2. CASE i # j
      BY <2>1, <2>2 DEF Touch, Touched
    <2>3. CASE i = j
      <3>1. rows'[i] = x
        BY <2>3 DEF Touch, Touched
      <3>2. /\ x \in Rows /\ x.results = rows[i].results /\ x.summary = rows[i].summary
        BY <2>1, <2>3 DEF RowOK, Rows
      <3> HIDE DEF x
      <3> QED BY <2>1, <3>1, <3>2 DEF RowOK
    <2> QED BY <2>2, <2>3
  <1> QED BY <1>1, <1>2 DEF RowsInv

\* A row that is written fits its key, if it does.
LEMMA Store_Rows ==
  ASSUME RowsInv, NEW k \in Keys, NEW results \in Lists, NEW summary \in Summaries \cup {NoSummary},
         Store(k, results, summary), now' = now,
         \A at \in Nat : RowOK(k, [results |-> results, summary |-> summary, lastHit |-> at, used |-> now])
  PROVE  RowsInv' /\ DOMAIN rows \subseteq DOMAIN rows'
  <1>1. CASE rows' = rows
    BY <1>1, Same_Rows
  <1>2. ASSUME NEW at \in Moments,
               rows' = [j \in Present \cup {k} |->
                          IF j = k
                            THEN [results |-> results, summary |-> summary, lastHit |-> at,
                                  used |-> now]
                            ELSE rows[j]]
        PROVE  RowsInv' /\ DOMAIN rows \subseteq DOMAIN rows'
    <2>1. DOMAIN rows' = DOMAIN rows \cup {k}
      BY <1>2 DEF Present
    <2>2. at \in Nat
      BY DEF Moments, RowsInv
    <2>3. rows'[k] = [results |-> results, summary |-> summary, lastHit |-> at, used |-> now]
      BY <1>2
    <2>4. ASSUME NEW i \in DOMAIN rows', i # k PROVE i \in DOMAIN rows /\ rows'[i] = rows[i]
      BY <1>2, <2>1, <2>4 DEF Present
    <2>5. ASSUME NEW i \in DOMAIN rows' PROVE RowOK(i, rows'[i])
      <3>1. CASE i = k
        BY <2>2, <2>3, <3>1
      <3>2. CASE i # k
        BY <2>4, <3>2 DEF RowsInv
      <3> QED BY <3>1, <3>2
    <2> QED BY <2>1, <2>5 DEF RowsInv
  <1> QED BY <1>1, <1>2 DEF Store

\* A background summary reaches web rows of its own intent and query only.
LEMMA Update_Rows ==
  ASSUME RowsInv, NEW q \in Queries, NEW i \in Intents, NEW l, Due(q, l),
         UpdateSummary(q, i, Summary(i, l)), now' = now
  PROVE  RowsInv' /\ DOMAIN rows' = DOMAIN rows
  <1>1. DOMAIN rows' = DOMAIN rows
    BY DEF UpdateSummary, Present
  <1>2. ASSUME NEW k \in DOMAIN rows PROVE RowOK(k, rows'[k])
    <2>1. RowOK(k, rows[k])
      BY DEF RowsInv
    <2>2. CASE k[1] = q /\ k[2] = i /\ rows[k].summary = NoSummary
      <3>1. rows'[k] = [rows[k] EXCEPT !.summary = Summary(i, l)]
        BY <2>2 DEF UpdateSummary, Present
      <3>2. ~ k[3]
        BY <2>1, <2>2, CacheAssumption DEF RowOK
      <3>3. l \in Lists
        BY DEF Due
      <3>4. Summary(i, l) \in Summaries /\ Summary(i, l).for = i /\ Summary(i, l).from = l
        BY <3>3 DEF Summary, Summaries, Wanted
      <3>5. /\ rows'[k] \in Rows /\ rows'[k].results = rows[k].results
            /\ rows'[k].summary = Summary(i, l)
        BY <2>1, <3>1, <3>4 DEF RowOK, Rows
      <3> QED BY <2>1, <2>2, <3>2, <3>4, <3>5 DEF RowOK
    <2>3. CASE ~ (k[1] = q /\ k[2] = i /\ rows[k].summary = NoSummary)
      BY <2>1, <2>3 DEF UpdateSummary, Present
    <2> QED BY <2>2, <2>3
  <1> QED BY <1>1, <1>2 DEF RowsInv

-----------------------------------------------------------------------------
(* The lookups                                                             *)

\* The keys of a call.
LEMMA Key_Type ==
  ASSUME NEW p \in [intent : Wanted, fetch : BOOLEAN]
  PROVE  /\ RowKey(p) \in Keys /\ ~ RowKey(p)[3]
         /\ RowKey(p)[1] = CacheQuery(p.fetch) /\ RowKey(p)[2] = p.intent
         /\ PlainKey(p)[1] = CacheQuery(FALSE) /\ PlainKey(p)[2] = p.intent
         /\ CacheQuery(p.fetch) # CacheQuery(TRUE) <=> ~ p.fetch
         /\ p.fetch \in BOOLEAN /\ p.intent \in Wanted
  BY WebSearchAssumption DEF RowKey, PlainKey, Keys, CacheQuery, Wanted

\* One lookup moves, and those of others are as before.
LEMMA Look_Step ==
  ASSUME LookInv, NEW r \in Requests, DOMAIN rows \subseteq DOMAIN rows', LookOK(r)',
         \A o \in Requests \ {r} :
           look'[o] = look[o] /\ pc'[o] = pc[o] /\ ask'[o] = ask[o]
  PROVE  LookInv'
  <1> SUFFICES ASSUME NEW o \in Requests, o # r PROVE LookOK(o)'
    BY DEF LookInv
  <1>1. look'[o] = look[o] /\ pc'[o] = pc[o] /\ ask'[o] = ask[o] /\ LookOK(o)
    BY DEF LookInv
  <1> QED BY <1>1 DEF LookOK, KeyOf

\* No lookup moves.
LEMMA Look_Still ==
  ASSUME LookInv, look' = look, DOMAIN rows \subseteq DOMAIN rows', ask' = ask, TypeInv,
         \/ pc' = pc
         \/ \E r \in Requests : \E x \in Labels \ {"lookup", "lookup2"} :
              pc[r] \notin {"lookup", "lookup2"} /\ Goto(r, x)
  PROVE  LookInv'
  <1> SUFFICES ASSUME NEW o \in Requests PROVE LookOK(o)'
    BY DEF LookInv
  <1>1. LookOK(o)
    BY DEF LookInv
  <1>2. CASE pc'[o] = pc[o]
    BY <1>1, <1>2 DEF LookOK, KeyOf
  <1>3. CASE pc'[o] # pc[o]
    <2>1. pc[o] \notin {"lookup", "lookup2"} /\ pc'[o] \notin {"lookup", "lookup2"}
      BY <1>3 DEF Goto, TypeInv
    <2>2. look[o].at = "idle"
      BY <1>1, <2>1 DEF LookOK
    <2> QED BY <1>1, <2>1, <2>2 DEF LookOK
  <1> QED BY <1>2, <1>3

\* A lookup that is over.
LEMMA Look_Took ==
  ASSUME LookInv, TypeInv, NEW r \in Requests, NEW x, Goto(r, x), Took(r), ask' = ask
  PROVE  LookInv' /\ rows' = rows /\ now' = now /\ DOMAIN look' = DOMAIN look
  <1>1. look'[r] = NoLook /\ \A o \in Requests \ {r} : look'[o] = look[o] /\ pc'[o] = pc[o]
    BY DEF Took, Goto, TypeInv
  <1>2. LookOK(r)'
    BY <1>1 DEF LookOK, NoLook
  <1> QED BY <1>1, <1>2, Look_Step DEF Took, stillVars

\* A lookup that begins, of the key that pc tells.
LEMMA Look_Ask ==
  ASSUME LookInv, TypeInv, RowsInv, NEW r \in Requests, NEW x \in {"lookup", "lookup2"},
         Goto(r, x), Ask(r, KeyOf(r)'), rows' = rows,
         \A o \in Requests \ {r} : ask'[o] = ask[o]
  PROVE  LookInv' /\ DOMAIN look' = DOMAIN look
  <1>1. /\ look'[r] = [at |-> "exact", key |-> KeyOf(r)', began |-> now] /\ pc'[r] = x
        /\ \A o \in Requests \ {r} : look'[o] = look[o] /\ pc'[o] = pc[o]
    BY DEF Ask, Goto, TypeInv
  <1>2. LookOK(r)'
    BY <1>1 DEF LookOK, RowsInv, AskFields
  <1> QED BY <1>1, <1>2, Look_Step DEF Ask

\* A row that a lookup of key k finds fits k, unless it is academic.
LEMMA Found ==
  ASSUME RowsInv, NEW k, NEW j \in DOMAIN rows, j[1] = k[1], ~ j[3]
  PROVE  /\ Due(k[1], rows[j].results)
         /\ rows[j].summary # NoSummary /\ j = k =>
              rows[j].summary.for = k[2] /\ Due(k[1], rows[j].summary.from)
  BY DEF RowsInv, RowOK

LEMMA Hit_Look ==
  ASSUME LookInv, TypeInv, RowsInv, NEW r \in Requests, NEW type, NEW j \in DOMAIN rows,
         look[r].at \in {"exact", "query"}, j[1] = KeyOf(r)[1],
         type = "exact_intent" => j = KeyOf(r) /\ rows[j].summary # NoSummary,
         Hit(r, j, type), rows' = rows, pc' = pc, ask' = ask
  PROVE  LookInv' /\ DOMAIN look' = DOMAIN look
  <1> DEFINE l == [at |-> "touch", began |-> look[r].began, row |-> j, live |-> TRUE, type |-> type,
                   results |-> rows[j].results, summary |-> rows[j].summary,
                   age |-> now - rows[j].lastHit, clean |-> clean]
  <1>1. look' = [look EXCEPT ![r] = l]
    BY DEF Hit
  <1>2. /\ l.at = "touch" /\ l.began = look[r].began /\ l.row = j /\ l.type = type
        /\ l.results = rows[j].results /\ l.summary = rows[j].summary /\ DOMAIN l = HitFields
    BY DEF HitFields
  <1>3. LookOK(r)
    BY DEF LookInv
  <1>4. ~ j[3] => Copy(KeyOf(r), l)
    BY <1>2, Found DEF Copy
  <1> HIDE DEF l
  <1>5. look'[r] = l /\ \A o \in Requests \ {r} : look'[o] = look[o]
    BY <1>1 DEF TypeInv
  <1>6. LookOK(r)'
    <2>1. KeyOf(r)' = KeyOf(r)
      BY DEF KeyOf
    <2>2. "at" \in DOMAIN l
      BY <1>2 DEF HitFields
    <2> QED BY <1>2, <1>3, <1>4, <1>5, <2>1, <2>2 DEF LookOK
  <1> QED BY <1>1, <1>5, <1>6, Look_Step

\* A statement of a lookup.
LEMMA Seek_Inv ==
  ASSUME TypeInv, RowsInv, LookInv, NEW r \in Requests, Seek(r), now' = now, pc' = pc, ask' = ask
  PROVE  LookInv' /\ RowsInv' /\ DOMAIN look' = DOMAIN look
  <1>0. LookOK(r) /\ r \in DOMAIN look
    BY DEF LookInv, TypeInv
  <1>1. CASE SelectExact(r)
    <2> DEFINE k == look[r].key
    <2>1. rows' = rows /\ RowsInv' /\ look[r].at = "exact" /\ k = KeyOf(r)
      BY <1>0, <1>1, Same_Rows DEF SelectExact, LookOK
    <2>2. CASE k \in DOMAIN rows
      <3>1. PICK type : /\ Hit(r, k, type)
                        /\ type = "exact_intent" => rows[k].summary # NoSummary
        BY <1>1, <2>2 DEF SelectExact, Present
      <3> QED BY <2>1, <2>2, <3>1, Hit_Look
    <2>3. CASE k \notin DOMAIN rows
      <3>1. look' = [look EXCEPT ![r].at = "query"]
        BY <1>1, <2>3 DEF SelectExact, Present
      <3>2. DOMAIN look[r] = AskFields
        BY <1>0, <2>1 DEF LookOK
      <3>3. /\ look'[r].at = "query" /\ look'[r].key = look[r].key
            /\ look'[r].began = look[r].began /\ "at" \in DOMAIN look'[r]
        BY <1>0, <3>1, <3>2 DEF AskFields
      <3>4. LookOK(r)'
        BY <1>0, <2>1, <3>3 DEF LookOK, KeyOf
      <3> QED BY <2>1, <3>1, <3>4, Look_Step
    <2> QED BY <2>2, <2>3
  <1>2. ASSUME rows' = rows, Miss(r) PROVE LookInv' /\ RowsInv' /\ DOMAIN look' = DOMAIN look
    <2>1. look'[r] = [at |-> "miss"] /\ \A o \in Requests \ {r} : look'[o] = look[o]
      BY <1>0, <1>2 DEF Miss
    <2>2. pc[r] \in {"lookup", "lookup2"} => LookOK(r)'
      BY <2>1 DEF LookOK
    <2>3. look[r].at # "idle"
      BY DEF Seek, SelectExact, SelectQuery, SelectFails, TouchLastHit
    <2>4. pc[r] \in {"lookup", "lookup2"}
      BY <1>0, <2>3 DEF LookOK
    <2> QED BY <1>2, <2>1, <2>2, <2>4, Look_Step, Same_Rows DEF Miss
  <1>3. CASE SelectQuery(r)
    <2>1. rows' = rows /\ RowsInv' /\ look[r].at = "query" /\ look[r].key = KeyOf(r)
      BY <1>0, <1>3, Same_Rows DEF SelectQuery, LookOK
    <2>2. ASSUME NEW j \in Latest(look[r].key[1]), Hit(r, j, "query_only")
          PROVE  LookInv' /\ RowsInv' /\ DOMAIN look' = DOMAIN look
      <3>1. j \in DOMAIN rows /\ j[1] = KeyOf(r)[1]
        BY <2>1 DEF Latest, Present
      <3> QED BY <2>1, <2>2, <3>1, Hit_Look
    <2> QED BY <1>2, <1>3, <2>1, <2>2 DEF SelectQuery
  <1>4. CASE SelectFails(r)
    BY <1>2, <1>4 DEF SelectFails
  <1>5. CASE TouchLastHit(r)
    <2>1. look[r].at = "touch" /\ pc[r] \in {"lookup", "lookup2"}
      BY <1>0, <1>5 DEF TouchLastHit, LookOK
    <2>2. RowsInv' /\ DOMAIN rows' = DOMAIN rows
      <3>1. CASE rows' = rows BY <3>1, Same_Rows
      <3>2. CASE look[r].live /\ Touch(r)
        BY <1>0, <2>1, <3>2, Touch_Rows DEF LookOK
      <3> QED BY <1>5, <3>1, <3>2 DEF TouchLastHit
    <2> DEFINE l == [at |-> "hit", academic |-> look[r].row[3], type |-> look[r].type,
                     results |-> look[r].results, summary |-> look[r].summary]
    <2>3. look' = [look EXCEPT ![r] = l]
      BY <1>5 DEF TouchLastHit
    <2>4. ~ l.academic => Copy(KeyOf(r), l)
      BY <1>0, <2>1 DEF LookOK, Copy
    <2>5. l.at = "hit" /\ "at" \in DOMAIN l
      OBVIOUS
    <2> HIDE DEF l
    <2>6. look'[r] = l /\ \A o \in Requests \ {r} : look'[o] = look[o]
      BY <1>0, <2>3
    <2>7. KeyOf(r)' = KeyOf(r)
      BY DEF KeyOf
    <2>8. LookOK(r)'
      BY <2>1, <2>4, <2>5, <2>6, <2>7 DEF LookOK
    <2> QED BY <2>2, <2>3, <2>6, <2>8, Look_Step
  <1> QED BY <1>1, <1>3, <1>4, <1>5 DEF Seek

-----------------------------------------------------------------------------
(* The calls                                                               *)

LEMMA Init_Inv == Init => WebInv
  <1> SUFFICES ASSUME Init PROVE WebInv OBVIOUS
  <1>1. TypeInv
    BY DEF Init, SCInit, TypeInv, Labels, Lists, Plain, Results, Wanted, Requests
  <1>2. RowsInv
    BY DEF Init, SCInit, NoRows, RowsInv
  <1>3. CallsInv
    BY DEF Init, CallsInv, HeldOK, AnswerOK, NoAnswer
  <1>4. LookInv
    BY DEF Init, SCInit, LookInv, LookOK, NoLook, Requests
  <1> QED BY <1>1, <1>2, <1>3, <1>4 DEF WebInv

\* The types and the lists of the calls, without their lookups.
Calm == TypeInv /\ CallsInv

\* A reply with what the call is due.
LEMMA Reply_Inv ==
  ASSUME Calm, NEW r \in Requests, NEW a, Reply(r, a), ask' = ask, DOMAIN look' = DOMAIN look,
         \A t \in tasks' : TaskOK(t),
         a.kind = "raw" => Due(CacheQuery(ask[r].fetch), a.of),
         a.kind = "summary" => a.of.for = ask[r].intent /\ Due(CacheQuery(ask[r].fetch), a.of.from)
  PROVE  Calm'
  <1>1. TypeInv'
    BY DEF Calm, TypeInv, Reply, Goto, Labels, Lists, Plain, Results
  <1>2. ASSUME NEW o \in Requests PROVE HeldOK(o)' /\ AnswerOK(o)'
    <2>1. HeldOK(o) /\ AnswerOK(o)
      BY DEF Calm, CallsInv
    <2>2. CASE o # r
      <3>1. pc'[o] = pc[o] /\ list'[o] = list[o] /\ answer'[o] = answer[o]
        BY <2>2 DEF Reply, Goto, Calm, TypeInv
      <3> QED BY <2>1, <3>1 DEF HeldOK, AnswerOK
    <2>3. CASE o = r
      <3>1. pc'[r] = "idle" /\ answer'[r] = a
        BY DEF Reply, Goto, Calm, TypeInv
      <3> QED BY <2>3, <3>1 DEF HeldOK, AnswerOK
    <2> QED BY <2>2, <2>3
  <1> QED BY <1>1, <1>2 DEF Calm, CallsInv

\* A call goes on with a list that fits where it goes.
LEMMA Goto_Inv ==
  ASSUME Calm, NEW r \in Requests, NEW label \in Labels, NEW l \in Lists,
         Goto(r, label), list' = [list EXCEPT ![r] = l], ask' = ask, answer' = answer, tasks' = tasks,
         DOMAIN look' = DOMAIN look,
         label = "enrich" => ~ l.academic,
         label \in {"summarize", "store"} => Due(CacheQuery(ask[r].fetch), l),
         label = "summarize" => ask[r].intent \in Intents
  PROVE  Calm'
  <1>1. TypeInv'
    BY DEF Calm, TypeInv, Goto
  <1>2. ASSUME NEW o \in Requests PROVE HeldOK(o)' /\ AnswerOK(o)'
    <2>1. HeldOK(o) /\ AnswerOK(o)
      BY DEF Calm, CallsInv
    <2>2. CASE o # r
      <3>1. pc'[o] = pc[o] /\ list'[o] = list[o]
        BY <2>2 DEF Goto, Calm, TypeInv
      <3> QED BY <2>1, <3>1 DEF HeldOK, AnswerOK
    <2>3. CASE o = r
      <3>1. pc'[r] = label /\ list'[r] = l
        BY DEF Goto, Calm, TypeInv
      <3> QED BY <2>1, <2>3, <3>1 DEF HeldOK, AnswerOK
    <2> QED BY <2>2, <2>3
  <1> QED BY <1>1, <1>2 DEF Calm, CallsInv

\* What a call that goes on without a list of its own needs.
LEMMA Onward ==
  ASSUME Calm, NEW r \in Requests,
         NEW label \in {"lookup2", "search", "bing"}, Goto(r, label), DOMAIN look' = DOMAIN look,
         list' = list, ask' = ask, answer' = answer, tasks' = tasks
  PROVE  Calm'
  <1>1. list' = [list EXCEPT ![r] = list[r]] /\ list[r] \in Lists
    BY DEF Calm, TypeInv
  <1> QED BY <1>1, Goto_Inv DEF Labels

LEMMA Call_Inv ==
  ASSUME WebInv, NEW r \in Requests, NEW p \in Params, Call(r, p)
  PROVE  WebInv'
  <1>0. r \in DOMAIN pc /\ r \in DOMAIN ask
    BY DEF WebInv, TypeInv
  <1>1. p \in [intent : Wanted, fetch : BOOLEAN]
    BY WebSearchAssumption DEF Params, Wanted
  <1>2. LookInv' /\ DOMAIN look' = DOMAIN look
    <2>1. KeyOf(r)' = RowKey(p)
      BY <1>0 DEF KeyOf, Call, Goto
    <2>2. \A o \in Requests \ {r} : ask'[o] = ask[o]
      BY DEF Call, WebInv, TypeInv
    <2> QED BY <2>1, <2>2, Look_Ask DEF Call, WebInv
  <1>3. TypeInv'
    BY <1>1, <1>2 DEF WebInv, TypeInv, Call, Goto, Labels
  <1>4. ASSUME NEW o \in Requests PROVE HeldOK(o)' /\ AnswerOK(o)'
    <2>1. HeldOK(o) /\ AnswerOK(o)
      BY DEF CallsInv, WebInv
    <2>2. CASE o # r
      <3>1. pc'[o] = pc[o] /\ list'[o] = list[o] /\ answer'[o] = answer[o] /\ ask'[o] = ask[o]
        BY <2>2 DEF Call, Goto, TypeInv, WebInv
      <3> QED BY <2>1, <3>1 DEF HeldOK, AnswerOK
    <2>3. CASE o = r
      <3>1. pc'[r] = "lookup" /\ answer'[r] = NoAnswer
        BY DEF Call, Goto, TypeInv, WebInv
      <3> QED BY <2>3, <3>1 DEF HeldOK, AnswerOK, NoAnswer
    <2> QED BY <2>2, <2>3
  <1>5. RowsInv'
    BY Same_Rows DEF WebInv, Call, stillVars
  <1> QED BY <1>2, <1>3, <1>4, <1>5 DEF WebInv, CallsInv, Call

\* What a lookup has found for a call.
LEMMA Served_Fits ==
  ASSUME WebInv, NEW r \in Requests, NEW type, Served(r, type)
  PROVE  Copy(KeyOf(r), look[r])
  BY DEF WebInv, LookInv, LookOK, Served

LEMMA LookUp_Inv ==
  ASSUME WebInv, NEW r \in Requests, LookUp(r)
  PROVE  WebInv'
  <1>1. /\ Seek(r) /\ now' = now /\ pc' = pc /\ ask' = ask /\ list' = list /\ answer' = answer
        /\ tasks' = tasks
    BY DEF LookUp, stillVars
  <1>2. LookInv' /\ RowsInv' /\ DOMAIN look' = DOMAIN look
    BY <1>1, Seek_Inv DEF WebInv
  <1>3. TypeInv' /\ CallsInv'
    BY <1>1, <1>2 DEF WebInv, TypeInv, CallsInv, HeldOK, AnswerOK
  <1> QED BY <1>2, <1>3 DEF WebInv

LEMMA LookUpHit_Inv ==
  ASSUME WebInv, NEW r \in Requests, LookUpHit(r)
  PROVE  WebInv'
  <1>1. ask' = ask /\ Took(r) /\ pc[r] = "lookup" /\ Goto(r, "idle")
    BY DEF LookUpHit, Reply
  <1>2. LookInv' /\ RowsInv' /\ DOMAIN look' = DOMAIN look
    BY <1>1, Look_Took, Same_Rows DEF WebInv
  <1>3. KeyOf(r)[1] = CacheQuery(ask[r].fetch) /\ KeyOf(r)[2] = ask[r].intent
    BY <1>1, Key_Type DEF KeyOf, WebInv, TypeInv
  <1>4. /\ ask[r].fetch \in BOOLEAN /\ ask[r].intent \in Wanted
        /\ CacheQuery(ask[r].fetch) \in Queries
    BY WebSearchAssumption DEF WebInv, TypeInv, CacheQuery
  <1>5. CASE Served(r, "exact_intent") /\ Reply(r, Summed(look[r].summary)) /\ tasks' = tasks
    <2>1. Summed(look[r].summary).kind = "summary" /\ Summed(look[r].summary).of = look[r].summary
      BY DEF Summed
    <2>2. look[r].summary.for = ask[r].intent /\ Due(CacheQuery(ask[r].fetch), look[r].summary.from)
      BY <1>3, <1>5, Served_Fits DEF Copy, Served
    <2>3. Calm'
      BY <1>1, <1>2, <1>5, <2>1, <2>2, Reply_Inv DEF WebInv, CallsInv, Calm
    <2> QED BY <1>2, <2>3 DEF WebInv, Calm
  <1>6. CASE Served(r, "query_only") /\ Reply(r, Raw(look[r].results)) /\ Background(r)
    <2>1. Raw(look[r].results).kind = "raw" /\ Raw(look[r].results).of = look[r].results
      BY DEF Raw
    <2>2. Due(CacheQuery(ask[r].fetch), look[r].results)
      BY <1>3, <1>6, Served_Fits DEF Copy
    <2>3. ASSUME NEW t \in tasks' PROVE TaskOK(t)
      <3>1. CASE t \in tasks
        BY <3>1 DEF WebInv, CallsInv
      <3>2. CASE t \notin tasks
        <4>1. /\ t = [query |-> CacheQuery(ask[r].fetch), intent |-> ask[r].intent,
                      results |-> look[r].results]
              /\ ask[r].intent # NoIntent
          BY <1>6, <3>2 DEF Background
        <4>2. t.query = CacheQuery(ask[r].fetch) /\ t.intent = ask[r].intent
              /\ t.results = look[r].results
          BY <4>1
        <4> QED BY <1>4, <2>2, <4>1, <4>2 DEF TaskOK, Wanted
      <3> QED BY <3>1, <3>2
    <2>4. Calm'
      BY <1>1, <1>2, <1>6, <2>1, <2>2, <2>3, Reply_Inv DEF WebInv, Calm
    <2> QED BY <1>2, <2>4 DEF WebInv, Calm
  <1> QED BY <1>5, <1>6 DEF LookUpHit

LEMMA LookUpMiss_Inv ==
  ASSUME WebInv, NEW r \in Requests, LookUpMiss(r)
  PROVE  WebInv'
  <1>1. ask' = ask /\ list' = list /\ answer' = answer /\ tasks' = tasks /\ r \in DOMAIN pc
    BY DEF LookUpMiss, WebInv, TypeInv
  <1>2. CASE Goto(r, "lookup2") /\ Ask(r, PlainKey(ask[r])) /\ UNCHANGED <<rows, stillVars>>
    <2>1. KeyOf(r)' = PlainKey(ask[r])
      BY <1>1, <1>2 DEF KeyOf, Goto
    <2>2. LookInv' /\ DOMAIN look' = DOMAIN look
      BY <1>1, <1>2, <2>1, Look_Ask DEF WebInv
    <2>3. RowsInv'
      BY <1>2, Same_Rows DEF WebInv, stillVars
    <2>4. Calm'
      BY <1>1, <1>2, <2>2, Onward DEF WebInv, Calm
    <2> QED BY <2>2, <2>3, <2>4 DEF WebInv, Calm
  <1>3. CASE Goto(r, "search") /\ Took(r)
    <2>1. LookInv' /\ RowsInv' /\ DOMAIN look' = DOMAIN look
      BY <1>1, <1>3, Look_Took, Same_Rows DEF WebInv
    <2>2. Calm'
      BY <1>1, <1>3, <2>1, Onward DEF WebInv, Calm
    <2> QED BY <2>1, <2>2 DEF WebInv, Calm
  <1> QED BY <1>2, <1>3 DEF LookUpMiss

LEMMA LookUpPlain_Inv ==
  ASSUME WebInv, NEW r \in Requests, LookUpPlain(r) \/ LookUpPlainMiss(r)
  PROVE  WebInv'
  <1>1. ask' = ask /\ answer' = answer /\ tasks' = tasks /\ Took(r)
    BY DEF LookUpPlain, LookUpPlainMiss
  <1>2. PICK x \in {"enrich", "search"} : Goto(r, x)
    BY DEF LookUpPlain, LookUpPlainMiss
  <1>3. LookInv' /\ RowsInv' /\ DOMAIN look' = DOMAIN look
    BY <1>1, <1>2, Look_Took, Same_Rows DEF WebInv
  <1>4. CASE LookUpPlain(r)
    <2>1. Due(KeyOf(r)[1], look[r].results)
      BY <1>4, Served_Fits DEF LookUpPlain, Copy
    <2>2. look[r].results \in Lists /\ ~ look[r].results.academic
      BY <2>1 DEF Due
    <2>3. Calm'
      BY <1>1, <1>3, <1>4, <2>2, Goto_Inv DEF LookUpPlain, WebInv, Calm, Labels
    <2> QED BY <1>3, <2>3 DEF WebInv, Calm
  <1>5. CASE LookUpPlainMiss(r)
    <2>1. Calm'
      BY <1>1, <1>3, <1>5, Onward DEF LookUpPlainMiss, WebInv, Calm
    <2> QED BY <1>3, <2>1 DEF WebInv, Calm
  <1> QED BY <1>4, <1>5

LEMMA Plain_Type == Plain \in Lists /\ ~ Plain.academic
  BY DEF Plain, Results, Lists

\* The search, the fallback and the fetching of bodies.
LEMMA Search_Inv ==
  ASSUME WebInv, NEW r \in Requests, Search(r) \/ Bing(r)
  PROVE  WebInv'
  <1>1. /\ RowsInv' /\ ask' = ask /\ tasks' = tasks /\ look' = look /\ rows' = rows
        /\ pc[r] \in {"search", "bing"}
    BY Same_Rows DEF Search, Bing, cacheVars, WebInv
  <1>2. PICK x \in {"enrich", "bing", "idle"} : Goto(r, x)
    BY DEF Search, Bing, Reply
  <1>3. LookInv'
    BY <1>1, <1>2, Look_Still DEF WebInv, Labels
  <1>4. CASE /\ list' = [list EXCEPT ![r] = Plain]
             /\ Goto(r, "enrich") /\ answer' = answer
    <2>1. Calm'
      BY <1>1, <1>4, Plain_Type, Goto_Inv DEF WebInv, Calm, Labels
    <2> QED BY <1>1, <1>3, <2>1 DEF WebInv, Calm
  <1>5. CASE Goto(r, "bing") /\ list' = list /\ answer' = answer
    <2>1. Calm'
      BY <1>1, <1>5, Onward DEF WebInv, Calm
    <2> QED BY <1>1, <1>3, <2>1 DEF WebInv, Calm
  <1>6. CASE Reply(r, Failure)
    <2>1. Failure.kind \notin {"raw", "summary"}
      BY DEF Failure
    <2>2. Calm'
      BY <1>1, <1>6, <2>1, Reply_Inv DEF WebInv, CallsInv, Calm
    <2> QED BY <1>1, <1>3, <2>2 DEF WebInv, Calm
  <1> QED BY <1>4, <1>5, <1>6 DEF Search, Bing

LEMMA Enriched_Inv ==
  ASSUME WebInv, NEW r \in Requests, NEW body \in {"no", "yes", "cut"}, Enriched(r, body),
         body = "no" <=> ~ ask[r].fetch
  PROVE  WebInv'
  <1>1. /\ RowsInv' /\ ask' = ask /\ tasks' = tasks /\ answer' = answer /\ look' = look
        /\ rows' = rows /\ pc[r] = "enrich"
    BY Same_Rows DEF Enriched, cacheVars, WebInv
  <1>2. list[r] \in Lists /\ ~ list[r].academic /\ ask[r] \in [intent : Wanted, fetch : BOOLEAN]
    BY <1>1 DEF WebInv, CallsInv, HeldOK, TypeInv
  <1> DEFINE l == [list[r] EXCEPT !.body = body]
  <1>3. l \in Lists /\ l.body = body /\ ~ l.academic
    BY <1>2 DEF Lists
  <1>4. list' = [list EXCEPT ![r] = l]
    BY DEF Enriched, WebInv, TypeInv
  <1> HIDE DEF l
  <1>5. Due(CacheQuery(ask[r].fetch), l)
    BY <1>2, <1>3, Key_Type DEF Due
  <1>6. PICK x \in {"summarize", "store"} :
          Goto(r, x) /\ (x = "summarize" => ask[r].intent # NoIntent)
    BY DEF Enriched
  <1>7. Calm'
    BY <1>1, <1>2, <1>3, <1>4, <1>5, <1>6, Goto_Inv DEF WebInv, Calm, Labels, Wanted
  <1>8. LookInv'
    BY <1>1, <1>6, Look_Still DEF WebInv, Labels
  <1> QED BY <1>1, <1>7, <1>8 DEF WebInv, Calm

LEMMA Enrich_Inv ==
  ASSUME WebInv, NEW r \in Requests, Enrich(r)
  PROVE  WebInv'
  <1>1. CASE ask[r].fetch
    <2>1. PICK body \in {"yes", "cut"} : Enriched(r, body)
      BY <1>1 DEF Enrich
    <2> QED BY <1>1, <2>1, Enriched_Inv
  <1>2. CASE ~ ask[r].fetch
    <2>1. Enriched(r, "no")
      BY <1>2 DEF Enrich
    <2> QED BY <1>2, <2>1, Enriched_Inv
  <1> QED BY <1>1, <1>2

\* The list of a call fits the row of the call, with or without its summary.
LEMMA Own_Row ==
  ASSUME TypeInv, RowsInv, NEW r \in Requests, NEW l, Due(CacheQuery(ask[r].fetch), l), NEW summary,
         \/ summary = NoSummary
         \/ summary = Summary(ask[r].intent, l)
  PROVE  /\ RowKey(ask[r]) \in Keys /\ l \in Lists /\ summary \in Summaries \cup {NoSummary}
         /\ \A at \in Nat :
              RowOK(RowKey(ask[r]), [results |-> l, summary |-> summary, lastHit |-> at, used |-> now])
  <1>1. ask[r] \in [intent : Wanted, fetch : BOOLEAN] /\ l \in Lists /\ now \in Nat
    BY DEF TypeInv, RowsInv, Due
  <1>2. /\ RowKey(ask[r]) \in Keys /\ ~ RowKey(ask[r])[3]
        /\ RowKey(ask[r])[1] = CacheQuery(ask[r].fetch) /\ RowKey(ask[r])[2] = ask[r].intent
    BY <1>1, Key_Type
  <1> DEFINE own == Summary(ask[r].intent, l)
  <1>3. own \in Summaries /\ own.for = ask[r].intent /\ own.from = l
    BY <1>1 DEF Summary, Summaries
  <1>4. summary = NoSummary \/ summary = own
    OBVIOUS
  <1> HIDE DEF own
  <1>5. ASSUME NEW at \in Nat
        PROVE  RowOK(RowKey(ask[r]), [results |-> l, summary |-> summary, lastHit |-> at, used |-> now])
    <2> DEFINE x == [results |-> l, summary |-> summary, lastHit |-> at, used |-> now]
    <2>1. x \in Rows /\ x.results = l /\ x.summary = summary
      BY <1>1, <1>3, <1>4 DEF Rows
    <2> HIDE DEF x
    <2>2. RowOK(RowKey(ask[r]), x)
      BY <1>2, <1>3, <1>4, <2>1 DEF RowOK
    <2> QED BY <2>2 DEF x
  <1> QED BY <1>1, <1>2, <1>3, <1>4, <1>5

LEMMA Summarize_Inv ==
  ASSUME WebInv, NEW r \in Requests, Summarize(r)
  PROVE  WebInv'
  <1>1. pc[r] = "summarize" /\ ask' = ask /\ tasks' = tasks
    BY DEF Summarize
  <1>2. Due(CacheQuery(ask[r].fetch), list[r]) /\ list[r] \in Lists
    BY <1>1 DEF WebInv, CallsInv, HeldOK, TypeInv
  <1>3. CASE /\ Store(RowKey(ask[r]), list[r], Summary(ask[r].intent, list[r]))
             /\ Reply(r, Summed(Summary(ask[r].intent, list[r])))
             /\ UNCHANGED stillVars
    <2> DEFINE summary == Summary(ask[r].intent, list[r])
    <2>1. Summed(summary).kind = "summary" /\ Summed(summary).of = summary
          /\ summary.for = ask[r].intent /\ summary.from = list[r]
      BY DEF Summed, Summary
    <2>2. /\ RowKey(ask[r]) \in Keys /\ summary \in Summaries \cup {NoSummary}
          /\ \A at \in Nat : RowOK(RowKey(ask[r]), [results |-> list[r], summary |-> summary,
                                                    lastHit |-> at, used |-> now])
      BY <1>2, Own_Row DEF WebInv
    <2>3. Store(RowKey(ask[r]), list[r], summary) /\ Reply(r, Summed(summary)) /\ now' = now
      BY <1>3 DEF stillVars
    <2> HIDE DEF summary
    <2>4. RowsInv' /\ DOMAIN rows \subseteq DOMAIN rows' /\ look' = look
      BY <1>2, <2>2, <2>3, Store_Rows DEF WebInv, Store
    <2>5. Calm'
      BY <1>1, <1>2, <2>1, <2>3, <2>4, Reply_Inv DEF WebInv, CallsInv, Calm
    <2>6. LookInv'
      BY <1>1, <2>3, <2>4, Look_Still DEF WebInv, Reply, Labels
    <2> QED BY <2>4, <2>5, <2>6 DEF WebInv, Calm
  <1>4. CASE Goto(r, "store") /\ UNCHANGED <<cacheVars, list, answer>>
    <2>1. list' = [list EXCEPT ![r] = list[r]] /\ look' = look /\ rows' = rows
      BY <1>4 DEF WebInv, TypeInv, cacheVars
    <2>2. Calm'
      BY <1>1, <1>2, <1>4, <2>1, Goto_Inv DEF WebInv, Labels, Calm
    <2>3. RowsInv'
      BY <1>4, Same_Rows DEF cacheVars, WebInv
    <2>4. LookInv'
      BY <1>1, <1>4, <2>1, Look_Still DEF WebInv, Labels
    <2> QED BY <2>2, <2>3, <2>4 DEF WebInv, Calm
  <1> QED BY <1>3, <1>4 DEF Summarize

LEMMA StoreRaw_Inv ==
  ASSUME WebInv, NEW r \in Requests, StoreRaw(r)
  PROVE  WebInv'
  <1>1. pc[r] = "store" /\ ask' = ask /\ tasks' = tasks /\ Goto(r, "idle")
    BY DEF StoreRaw, Reply
  <1>2. Due(CacheQuery(ask[r].fetch), list[r]) /\ list[r] \in Lists
    BY <1>1 DEF WebInv, CallsInv, HeldOK, TypeInv
  <1>3. CASE Store(RowKey(ask[r]), list[r], NoSummary) /\ Reply(r, Raw(list[r])) /\ UNCHANGED stillVars
    <2>1. RowsInv' /\ DOMAIN rows \subseteq DOMAIN rows' /\ look' = look
      BY <1>2, <1>3, Own_Row, Store_Rows DEF WebInv, Store, stillVars
    <2>2. Raw(list[r]).kind = "raw" /\ Raw(list[r]).of = list[r]
      BY DEF Raw
    <2>3. Calm'
      BY <1>1, <1>2, <1>3, <2>1, <2>2, Reply_Inv DEF WebInv, CallsInv, Calm
    <2>4. LookInv'
      BY <1>1, <2>1, Look_Still DEF WebInv, Labels
    <2> QED BY <2>1, <2>3, <2>4 DEF WebInv, Calm
  <1>4. CASE Reply(r, Failure) /\ UNCHANGED cacheVars
    <2>1. Failure.kind \notin {"raw", "summary"}
      BY DEF Failure
    <2>2. RowsInv' /\ rows' = rows /\ look' = look
      BY <1>4, Same_Rows DEF cacheVars, WebInv
    <2>3. Calm'
      BY <1>1, <1>4, <2>1, <2>2, Reply_Inv DEF WebInv, CallsInv, Calm
    <2>4. LookInv'
      BY <1>1, <2>2, Look_Still DEF WebInv, Labels
    <2> QED BY <2>2, <2>3, <2>4 DEF WebInv, Calm
  <1> QED BY <1>3, <1>4 DEF StoreRaw

\* The steps of others, that leave the lookups alone.
LEMMA Others_Inv ==
  ASSUME WebInv, pc' = pc, ask' = ask, list' = list, answer' = answer, look' = look,
         tasks' \subseteq tasks, RowsInv', DOMAIN rows \subseteq DOMAIN rows'
  PROVE  WebInv'
  <1>1. TypeInv'
    BY DEF WebInv, TypeInv
  <1>2. CallsInv'
    BY DEF WebInv, CallsInv, HeldOK, AnswerOK
  <1>3. LookInv'
    BY Look_Still DEF WebInv
  <1> QED BY <1>1, <1>2, <1>3 DEF WebInv

LEMMA AsyncSummarize_Inv ==
  ASSUME WebInv, NEW t \in tasks, AsyncSummarize(t)
  PROVE  WebInv'
  <1>1. /\ pc' = pc /\ ask' = ask /\ list' = list /\ answer' = answer /\ tasks' \subseteq tasks
        /\ now' = now /\ look' = look
    BY DEF AsyncSummarize, stillVars
  <1>2. TaskOK(t)
    BY DEF WebInv, CallsInv
  <1>3. RowsInv' /\ DOMAIN rows \subseteq DOMAIN rows'
    <2>1. CASE UpdateSummary(t.query, t.intent, Summary(t.intent, t.results))
      BY <1>1, <1>2, <2>1, Update_Rows DEF WebInv, TaskOK
    <2>2. CASE rows' = rows
      BY <1>1, <2>2, Same_Rows DEF WebInv
    <2> QED BY <2>1, <2>2 DEF AsyncSummarize
  <1> QED BY <1>1, <1>3, Others_Inv

LEMMA AcademicStore_Inv ==
  ASSUME WebInv, AcademicStore
  PROVE  WebInv'
  <1>1. /\ pc' = pc /\ ask' = ask /\ list' = list /\ answer' = answer /\ tasks' \subseteq tasks
        /\ now' = now
    BY DEF AcademicStore, stillVars
  <1> DEFINE l == Results("no", TRUE)
  <1>2. PICK q \in AcademicKeys : Store(<<q, NoIntent, TRUE>>, l, NoSummary)
    BY DEF AcademicStore
  <1>3. <<q, NoIntent, TRUE>> \in Keys /\ l \in Lists
    BY WebSearchAssumption DEF Keys, Lists, Results
  <1>4. ASSUME NEW at \in Nat
        PROVE  RowOK(<<q, NoIntent, TRUE>>,
                     [results |-> l, summary |-> NoSummary, lastHit |-> at, used |-> now])
    BY <1>3 DEF RowOK, Rows, WebInv, RowsInv
  <1>5. RowsInv' /\ DOMAIN rows \subseteq DOMAIN rows' /\ look' = look
    BY <1>1, <1>2, <1>3, <1>4, Store_Rows DEF WebInv, Store
  <1> QED BY <1>1, <1>5, Others_Inv

\* The ids of the rows go with them.
LEMMA Empty_Inv ==
  ASSUME WebInv, Empty
  PROVE  WebInv'
  <1>1. /\ rows' = [k \in {} |-> rows[k]] /\ now' = now
        /\ look' = [c \in Readers |->
                      IF look[c].at = "touch" /\ look[c].row \in DOMAIN rows
                        THEN [look[c] EXCEPT !.live = FALSE] ELSE look[c]]
    BY DEF Empty, Wipe, Clear, Delete, Present, stillVars
  <1>2. UNCHANGED <<pc, ask, list, answer, tasks>>
    BY DEF Empty
  <1>3. RowsInv'
    BY <1>1 DEF RowsInv, WebInv
  <1>4. ASSUME NEW r \in Requests PROVE LookOK(r)'
    <2>1. LookOK(r) /\ KeyOf(r)' = KeyOf(r)
      BY <1>2 DEF WebInv, LookInv, KeyOf
    <2>2. CASE look[r].at = "touch" /\ look[r].row \in DOMAIN rows
      <3> DEFINE l == [look[r] EXCEPT !.live = FALSE]
      <3>1. look'[r] = l
        BY <1>1, <2>2 DEF Requests
      <3>2. /\ DOMAIN l = HitFields /\ ~ l.live /\ l.at = "touch" /\ l.began = look[r].began
            /\ l.row = look[r].row /\ l.type = look[r].type
            /\ l.results = look[r].results /\ l.summary = look[r].summary
        BY <2>1, <2>2 DEF LookOK, HitFields
      <3> HIDE DEF l
      <3>3. ~ look[r].row[3] => Copy(KeyOf(r), l)
        BY <2>1, <2>2, <3>2 DEF LookOK, Copy
      <3>4. "at" \in DOMAIN l
        BY <3>2 DEF HitFields
      <3> QED BY <1>2, <2>1, <2>2, <3>1, <3>2, <3>3, <3>4 DEF LookOK
    <2>3. CASE ~ (look[r].at = "touch" /\ look[r].row \in DOMAIN rows)
      <3>1. look'[r] = look[r]
        BY <1>1, <2>3 DEF Requests
      <3> QED BY <1>2, <2>1, <2>3, <3>1 DEF LookOK
    <2> QED BY <2>2, <2>3
  <1>5. TypeInv' /\ CallsInv'
    <2>1. DOMAIN look' = Requests
      BY <1>1 DEF Requests
    <2> QED BY <1>2, <2>1 DEF WebInv, TypeInv, CallsInv, HeldOK, AnswerOK
  <1> QED BY <1>3, <1>4, <1>5 DEF WebInv, LookInv

LEMMA Next_Inv == WebInv /\ [Next]_vars => WebInv'
  <1> SUFFICES ASSUME WebInv, [Next]_vars PROVE WebInv' OBVIOUS
  <1>1. ASSUME NEW r \in Requests, Step(r) PROVE WebInv'
    BY <1>1, LookUp_Inv, LookUpHit_Inv, LookUpMiss_Inv, LookUpPlain_Inv, Search_Inv, Enrich_Inv,
       Summarize_Inv, StoreRaw_Inv DEF Step
  <1>2. ASSUME NEW r \in Requests, NEW p \in Params, Call(r, p) PROVE WebInv'
    BY <1>2, Call_Inv
  <1>3. ASSUME NEW t \in tasks, AsyncSummarize(t) PROVE WebInv'
    BY <1>3, AsyncSummarize_Inv
  <1>4. CASE UNCHANGED vars
    <2>1. RowsInv' /\ rows' = rows /\ look' = look
      BY <1>4, Same_Rows DEF vars, cacheVars, WebInv
    <2> QED BY <1>4, <2>1, Others_Inv DEF vars
  <1> QED BY <1>1, <1>2, <1>3, <1>4, AcademicStore_Inv, Empty_Inv DEF Next

\* An answer has gone through the fetching of page bodies if, and only if, the
\* call asked for it, and is never academic; an academic row has no summary.
THEOREM Spec_ResultsFitTheCall == Spec => []ResultsFitTheCall
  <1>1. WebInv => ResultsFitTheCall
    <2> SUFFICES ASSUME WebInv PROVE ResultsFitTheCall OBVIOUS
    <2>1. ASSUME NEW k \in Present
          PROVE  /\ ~ k[3] => (rows[k].results.body = "no" <=> k[1] # CacheQuery(TRUE))
                 /\ k[3] => rows[k].summary = NoSummary
      BY DEF WebInv, RowsInv, RowOK, Present, Due
    <2>2. ASSUME NEW r \in Requests, answer[r].kind \in {"raw", "summary"}
          PROVE  LET served == IF answer[r].kind = "raw" THEN answer[r].of ELSE answer[r].of.from
                 IN  ~ served.academic /\ (served.body = "no" <=> ~ ask[r].fetch)
      <3> DEFINE served == IF answer[r].kind = "raw" THEN answer[r].of ELSE answer[r].of.from
      <3>1. AnswerOK(r) /\ ask[r] \in [intent : Wanted, fetch : BOOLEAN]
        BY DEF WebInv, CallsInv, TypeInv
      <3>2. Due(CacheQuery(ask[r].fetch), served)
        BY <2>2, <3>1 DEF AnswerOK
      <3> QED BY <3>1, <3>2, Key_Type DEF Due
    <2> QED BY <2>1, <2>2 DEF ResultsFitTheCall
  <1> QED BY <1>1, Init_Inv, Next_Inv, PTL DEF Spec

\* A summary is answered only to the intent it was written for.
THEOREM Spec_SummaryFitsIntent == Spec => []SummaryFitsIntent
  <1>1. WebInv => SummaryFitsIntent
    BY DEF WebInv, CallsInv, AnswerOK, SummaryFitsIntent
  <1> QED BY <1>1, Init_Inv, Next_Inv, PTL DEF Spec

-----------------------------------------------------------------------------
(* The cache in time, used by any caller                                   *)

\* The time of a row's last use is at most Slow after the last hit the row
\* has, and while the cleaner keeps its rounds no row is older than the round
\* that is running allows.
RowInTime(k) ==
  /\ "lastHit" \in DOMAIN rows[k] /\ "used" \in DOMAIN rows[k]
  /\ rows[k].lastHit \in Nat /\ rows[k].used \in Nat
  /\ rows[k].used <= rows[k].lastHit + Slow
  /\ up /\ clean => now <= rows[k].lastHit + MaxAge + timer

\* A lookup is not older than Slow, and touches a row that is there.
LookInTime(c) ==
  /\ "at" \in DOMAIN look[c]
  /\ look[c].at = "exact" => DOMAIN look[c] = AskFields
  /\ look[c].at = "touch" => DOMAIN look[c] = HitFields
  /\ look[c].at \in {"exact", "query", "touch"} =>
       look[c].began \in Nat /\ now <= look[c].began + Slow
  /\ look[c].at = "touch" /\ look[c].live => look[c].row \in DOMAIN rows
  /\ look[c].at = "touch" /\ look[c].clean => look[c].age <= MaxAge + Interval + Slow

TimeInv ==
  /\ now \in Nat /\ timer \in Nat /\ timer <= Interval + Slow
  /\ DOMAIN rows \subseteq Keys /\ DOMAIN look = Readers
  /\ \A k \in DOMAIN rows : RowInTime(k)
  /\ \A c \in Readers : LookInTime(c)

LEMMA Nats == MaxAge \in Nat /\ Interval \in Nat /\ Interval > 0 /\ Slow \in Nat /\ Slow < Interval
              /\ Slow <= MaxAge
  BY CacheAssumption

\* The steps that leave the clock and the rows alone.
LEMMA Ask_Time ==
  ASSUME TimeInv, NEW c \in Readers, NEW k, Ask(c, k), rows' = rows, UNCHANGED stillVars
  PROVE  TimeInv'
  <1>1. now' = now /\ timer' = timer /\ up' = up /\ clean' = clean
    BY DEF stillVars
  <1>2. /\ look'[c] = [at |-> "exact", key |-> k, began |-> now] /\ DOMAIN look' = Readers
        /\ \A o \in Readers \ {c} : look'[o] = look[o]
    BY DEF Ask, TimeInv
  <1>3. LookInTime(c)'
    BY <1>1, <1>2, Nats DEF LookInTime, TimeInv, AskFields
  <1>4. \A o \in Readers \ {c} : LookInTime(o)'
    BY <1>1, <1>2 DEF LookInTime, TimeInv
  <1>5. \A i \in DOMAIN rows : RowInTime(i)'
    BY <1>1 DEF RowInTime, TimeInv
  <1> QED BY <1>1, <1>2, <1>3, <1>4, <1>5 DEF TimeInv

\* A SELECT serves a row that the cleaner has left.
LEMMA Hit_Time ==
  ASSUME TimeInv, up, NEW c \in Readers, look[c].at \in {"exact", "query"},
         NEW j \in DOMAIN rows, NEW type, Hit(c, j, type)
  PROVE  /\ DOMAIN look' = Readers /\ look'[c].at = "touch" /\ DOMAIN look'[c] = HitFields
         /\ look'[c].began = look[c].began /\ look'[c].row = j
         /\ look'[c].clean => look'[c].age <= MaxAge + Interval + Slow
         /\ \A o \in Readers \ {c} : look'[o] = look[o]
  <1> DEFINE l == [at |-> "touch", began |-> look[c].began, row |-> j, live |-> TRUE, type |-> type,
                   results |-> rows[j].results, summary |-> rows[j].summary,
                   age |-> now - rows[j].lastHit, clean |-> clean]
  <1>1. look' = [look EXCEPT ![c] = l]
    BY DEF Hit
  <1>2. clean => now - rows[j].lastHit <= MaxAge + Interval + Slow
    BY Nats DEF TimeInv, RowInTime
  <1>3. /\ l.at = "touch" /\ l.began = look[c].began /\ l.row = j /\ DOMAIN l = HitFields
        /\ l.clean => l.age <= MaxAge + Interval + Slow
    BY <1>2 DEF HitFields
  <1> HIDE DEF l
  <1> QED BY <1>1, <1>3 DEF TimeInv

LEMMA Touch_Time ==
  ASSUME TimeInv, NEW c \in Readers, look[c].at = "touch", look[c].live, Touch(c),
         UNCHANGED stillVars
  PROVE  DOMAIN rows' = DOMAIN rows /\ \A k \in DOMAIN rows : RowInTime(k)'
  <1> DEFINE j == look[c].row
             x == [[rows[j] EXCEPT !.lastHit = look[c].began] EXCEPT !.used = now]
  <1>1. now' = now /\ timer' = timer /\ up' = up /\ clean' = clean
    BY DEF stillVars
  <1>2. DOMAIN rows' = DOMAIN rows
    BY DEF Touch, Touched
  <1>3. j \in DOMAIN rows /\ look[c].began \in Nat /\ now <= look[c].began + Slow /\ now \in Nat
        /\ timer \in Nat
    BY DEF TimeInv, LookInTime
  <1>4. ASSUME NEW i \in DOMAIN rows PROVE RowInTime(i)'
    <2>1. CASE i = j
      <3>1. rows'[i] = x
        BY <2>1 DEF Touch, Touched
      <3>2. "lastHit" \in DOMAIN rows[j] /\ "used" \in DOMAIN rows[j]
        BY <1>3 DEF TimeInv, RowInTime
      <3>3. DOMAIN x = DOMAIN rows[j] /\ x.lastHit = look[c].began /\ x.used = now
        BY <3>2
      <3> HIDE DEF x
      <3>4. now <= look[c].began + MaxAge + timer
        BY <1>3, Nats
      <3> QED BY <1>1, <1>3, <3>1, <3>2, <3>3, <3>4 DEF RowInTime
    <2>2. CASE i # j
      <3>1. rows'[i] = rows[i]
        BY <2>2 DEF Touch, Touched
      <3> QED BY <1>1, <3>1 DEF RowInTime, TimeInv
    <2> QED BY <2>1, <2>2
  <1> QED BY <1>2, <1>4

LEMMA Lookup_Time ==
  ASSUME TimeInv, NEW c \in Readers, Lookup(c)
  PROVE  TimeInv'
  <1>1. now' = now /\ timer' = timer /\ up' = up /\ clean' = clean /\ up /\ Seek(c)
        /\ UNCHANGED stillVars
    BY DEF Lookup, stillVars
  <1>2. LookInTime(c) /\ c \in DOMAIN look
    BY DEF TimeInv
  <1>3. ASSUME rows' = rows \/ (DOMAIN rows' = DOMAIN rows /\ \A k \in DOMAIN rows : RowInTime(k)'),
               DOMAIN look' = Readers, LookInTime(c)',
               \A o \in Readers \ {c} : look'[o] = look[o]
        PROVE  TimeInv'
    <2>1. \A k \in DOMAIN rows' : RowInTime(k)'
      <3>1. CASE rows' = rows
        BY <1>1, <3>1 DEF RowInTime, TimeInv
      <3> QED BY <1>3, <3>1
    <2>2. DOMAIN rows' = DOMAIN rows
      BY <1>3
    <2>3. \A o \in Readers \ {c} : LookInTime(o)'
      BY <1>1, <1>3, <2>2 DEF LookInTime, TimeInv
    <2> QED BY <1>1, <1>3, <2>1, <2>2, <2>3 DEF TimeInv
  <1>4. ASSUME NEW j \in DOMAIN rows, NEW type, Hit(c, j, type), rows' = rows,
               look[c].at \in {"exact", "query"}
        PROVE  TimeInv'
    <2>1. /\ DOMAIN look' = Readers /\ look'[c].at = "touch" /\ DOMAIN look'[c] = HitFields
          /\ look'[c].began = look[c].began /\ look'[c].row = j
          /\ look'[c].clean => look'[c].age <= MaxAge + Interval + Slow
          /\ \A o \in Readers \ {c} : look'[o] = look[o]
      BY <1>1, <1>4, Hit_Time
    <2>2. "at" \in HitFields
      BY DEF HitFields
    <2>3. LookInTime(c)'
      BY <1>1, <1>2, <1>4, <2>1, <2>2 DEF LookInTime
    <2> QED BY <1>3, <1>4, <2>1, <2>3
  <1>5. ASSUME Miss(c), rows' = rows PROVE TimeInv'
    <2>1. /\ look'[c] = [at |-> "miss"] /\ DOMAIN look' = Readers
          /\ \A o \in Readers \ {c} : look'[o] = look[o]
      BY <1>5 DEF Miss, TimeInv
    <2>2. LookInTime(c)'
      BY <2>1 DEF LookInTime
    <2> QED BY <1>3, <1>5, <2>1, <2>2
  <1>6. CASE SelectExact(c)
    <2>1. look[c].at = "exact" /\ rows' = rows
      BY <1>6 DEF SelectExact
    <2>2. CASE look[c].key \in DOMAIN rows
      <3>1. \E type : Hit(c, look[c].key, type)
        BY <1>6, <2>2 DEF SelectExact, Present
      <3> QED BY <1>4, <2>1, <2>2, <3>1
    <2>3. CASE look[c].key \notin DOMAIN rows
      <3>1. look' = [look EXCEPT ![c].at = "query"]
        BY <1>6, <2>3 DEF SelectExact, Present
      <3>2. DOMAIN look[c] = AskFields
        BY <1>2, <2>1 DEF LookInTime
      <3>3. /\ look'[c].at = "query" /\ look'[c].began = look[c].began /\ "at" \in DOMAIN look'[c]
            /\ DOMAIN look' = Readers /\ \A o \in Readers \ {c} : look'[o] = look[o]
        BY <1>2, <3>1, <3>2 DEF AskFields, TimeInv
      <3>4. LookInTime(c)'
        BY <1>1, <1>2, <2>1, <3>3 DEF LookInTime
      <3> QED BY <1>3, <2>1, <3>3, <3>4
    <2> QED BY <2>2, <2>3
  <1>7. CASE SelectQuery(c)
    <2>1. look[c].at = "query" /\ rows' = rows
      BY <1>7 DEF SelectQuery
    <2>2. ASSUME NEW j \in Latest(look[c].key[1]), Hit(c, j, "query_only") PROVE TimeInv'
      BY <1>4, <2>1, <2>2 DEF Latest, Present
    <2> QED BY <1>5, <1>7, <2>1, <2>2 DEF SelectQuery
  <1>8. CASE SelectFails(c)
    BY <1>5, <1>8 DEF SelectFails
  <1>9. CASE TouchLastHit(c)
    <2>1. look[c].at = "touch"
      BY <1>9 DEF TouchLastHit
    <2>2. rows' = rows \/ (DOMAIN rows' = DOMAIN rows /\ \A k \in DOMAIN rows : RowInTime(k)')
      BY <1>1, <1>9, <2>1, Touch_Time DEF TouchLastHit
    <2>3. /\ DOMAIN look' = Readers /\ \A o \in Readers \ {c} : look'[o] = look[o]
          /\ look'[c].at = "hit" /\ "at" \in DOMAIN look'[c]
      BY <1>2, <1>9 DEF TouchLastHit, TimeInv
    <2>4. LookInTime(c)'
      BY <2>3 DEF LookInTime
    <2> QED BY <1>3, <2>2, <2>3, <2>4
  <1> QED BY <1>1, <1>6, <1>7, <1>8, <1>9 DEF Seek

LEMMA Insert_Time ==
  ASSUME TimeInv, NEW k \in Keys, Insert(k)
  PROVE  TimeInv'
  <1>1. PICK c \in Contents : Store(k, c, NoSummary)
    BY DEF Insert
  <1>2. now' = now /\ up' = up /\ timer' = timer /\ clean' = clean /\ look' = look
    BY <1>1 DEF Insert, stillVars, Store
  <1>3. now \in Nat /\ timer \in Nat
    BY DEF TimeInv
  <1>4. CASE rows' = rows
    BY <1>2, <1>4 DEF TimeInv, RowInTime, LookInTime
  <1>5. ASSUME NEW at \in Moments,
               rows' = [j \in Present \cup {k} |->
                          IF j = k
                            THEN [results |-> c, summary |-> NoSummary, lastHit |-> at, used |-> now]
                            ELSE rows[j]]
        PROVE  TimeInv'
    <2>1. DOMAIN rows' = DOMAIN rows \cup {k}
      BY <1>5 DEF Present
    <2>2. at \in Nat /\ now <= at + Slow
      BY <1>3 DEF Moments
    <2>3. rows'[k] = [results |-> c, summary |-> NoSummary, lastHit |-> at, used |-> now]
      BY <1>5
    <2>4. RowInTime(k)'
      <3>1. now <= at + MaxAge + timer
        BY <1>3, <2>2, Nats
      <3> QED BY <1>2, <1>3, <2>2, <2>3, <3>1 DEF RowInTime
    <2>5. ASSUME NEW i \in DOMAIN rows', i # k PROVE RowInTime(i)'
      <3>1. i \in DOMAIN rows /\ rows'[i] = rows[i]
        BY <1>5, <2>1, <2>5 DEF Present
      <3> QED BY <1>2, <3>1 DEF RowInTime, TimeInv
    <2>6. \A o \in Readers : LookInTime(o)'
      BY <1>2, <2>1 DEF LookInTime, TimeInv
    <2> QED BY <1>2, <2>1, <2>4, <2>5, <2>6 DEF TimeInv
  <1> QED BY <1>1, <1>4, <1>5 DEF Store

\* The rows of K are deleted, and with them their ids.
LEMMA Delete_Look ==
  ASSUME TimeInv, NEW K, Delete(K), now' = now
  PROVE  /\ DOMAIN look' = Readers
         /\ DOMAIN rows' = DOMAIN rows \ K /\ \A k \in DOMAIN rows' : rows'[k] = rows[k]
         /\ \A c \in Readers : LookInTime(c)'
  <1>1. DOMAIN rows' = DOMAIN rows \ K /\ \A k \in DOMAIN rows' : rows'[k] = rows[k]
    BY DEF Delete, Present
  <1>2. look' = [c \in Readers |->
                   IF look[c].at = "touch" /\ look[c].row \in K
                     THEN [look[c] EXCEPT !.live = FALSE] ELSE look[c]]
    BY DEF Delete
  <1>3. ASSUME NEW c \in Readers PROVE LookInTime(c)'
    <2>1. LookInTime(c)
      BY DEF TimeInv
    <2>2. CASE look[c].at = "touch" /\ look[c].row \in K
      <3> DEFINE l == [look[c] EXCEPT !.live = FALSE]
      <3>1. look'[c] = l
        BY <1>2, <2>2
      <3>2. /\ DOMAIN l = HitFields /\ ~ l.live /\ l.at = "touch" /\ l.began = look[c].began
            /\ l.clean = look[c].clean /\ l.age = look[c].age
        BY <2>1, <2>2 DEF LookInTime, HitFields
      <3> HIDE DEF l
      <3>3. "at" \in DOMAIN l
        BY <3>2 DEF HitFields
      <3> QED BY <2>1, <2>2, <3>1, <3>2, <3>3 DEF LookInTime
    <2>3. CASE ~ (look[c].at = "touch" /\ look[c].row \in K)
      <3>1. look'[c] = look[c]
        BY <1>2, <2>3
      <3> QED BY <1>1, <2>1, <2>3, <3>1 DEF LookInTime
    <2> QED BY <2>2, <2>3
  <1> QED BY <1>1, <1>2, <1>3

LEMMA Sweep_Time ==
  ASSUME TimeInv, Sweep
  PROVE  /\ TimeInv'
         /\ \A k \in DOMAIN rows : k \notin DOMAIN rows' => rows[k].used + MaxAge < now + Slow
  <1>1. now' = now /\ up' = up /\ timer' = timer - Interval /\ timer >= Interval
    BY DEF Sweep
  <1>2. now \in Nat /\ timer \in Nat /\ timer' \in Nat /\ timer' <= Interval + Slow
    BY <1>1, Nats DEF TimeInv
  <1>3. CASE clean' = FALSE /\ UNCHANGED <<rows, look>>
    <2>1. \A k \in DOMAIN rows : RowInTime(k)'
      BY <1>1, <1>3 DEF RowInTime, TimeInv
    <2>2. \A c \in Readers : LookInTime(c)'
      BY <1>1, <1>3 DEF LookInTime, TimeInv
    <2> QED BY <1>1, <1>2, <1>3, <2>1, <2>2 DEF TimeInv
  <1>4. CASE EvictStale(now - (timer - Interval))
    <2> DEFINE at == now - (timer - Interval)
               K == {k \in Present : rows[k].lastHit + MaxAge < at}
    <2>1. Delete(K)
      BY <1>4 DEF EvictStale
    <2>2. at = now - timer' /\ at <= now
      BY <1>1, <1>2
    <2>3. \A k : k \in K <=> k \in DOMAIN rows /\ rows[k].lastHit + MaxAge < at
      BY DEF Present
    <2> HIDE DEF at, K
    <2>4. /\ DOMAIN look' = Readers /\ DOMAIN rows' = DOMAIN rows \ K
          /\ \A k \in DOMAIN rows' : rows'[k] = rows[k]
          /\ \A c \in Readers : LookInTime(c)'
      BY <1>1, <2>1, Delete_Look
    <2>5. ASSUME NEW i \in DOMAIN rows' PROVE RowInTime(i)'
      <3>1. i \in DOMAIN rows /\ rows'[i] = rows[i] /\ ~ (rows[i].lastHit + MaxAge < at)
        BY <2>3, <2>4
      <3>2. RowInTime(i)
        BY <3>1 DEF TimeInv
      <3>3. now <= rows[i].lastHit + MaxAge + timer'
        BY <1>1, <1>2, <2>2, <3>1, <3>2, Nats DEF RowInTime
      <3> QED BY <1>1, <3>1, <3>2, <3>3 DEF RowInTime
    <2>6. ASSUME NEW k \in DOMAIN rows, k \notin DOMAIN rows'
          PROVE  rows[k].used + MaxAge < now + Slow
      <3>1. RowInTime(k) /\ rows[k].lastHit + MaxAge < at
        BY <2>3, <2>4, <2>6 DEF TimeInv
      <3> QED BY <1>2, <2>2, <3>1, Nats DEF RowInTime
    <2>7. DOMAIN rows' \subseteq Keys
      BY <2>4 DEF TimeInv
    <2> QED BY <1>1, <1>2, <2>4, <2>5, <2>6, <2>7 DEF TimeInv
  <1> QED BY <1>3, <1>4 DEF Sweep

LEMMA Wipe_Time ==
  ASSUME TimeInv, Wipe
  PROVE  TimeInv' /\ timer' = timer
  <1>1. Delete(DOMAIN rows) /\ now' = now /\ timer' = timer
    BY DEF Wipe, Clear, Present, stillVars
  <1>2. DOMAIN rows' = {} /\ DOMAIN look' = Readers /\ \A c \in Readers : LookInTime(c)'
    BY <1>1, Delete_Look
  <1> QED BY <1>1, <1>2 DEF TimeInv

LEMMA Tick_Time ==
  ASSUME TimeInv, Tick
  PROVE  TimeInv' /\ rows' = rows
  <1>1. /\ rows' = rows /\ look' = look /\ now' = now + 1 /\ up' = up /\ clean' = clean
        /\ timer' = IF up THEN timer + 1 ELSE timer
        /\ up => timer < Interval + Slow
    BY DEF Tick
  <1>2. now \in Nat /\ timer \in Nat /\ timer <= Interval + Slow
    BY DEF TimeInv
  <1>3. now' \in Nat /\ timer' \in Nat /\ timer' <= Interval + Slow
    BY <1>1, <1>2, Nats
  <1>4. ASSUME NEW k \in DOMAIN rows PROVE RowInTime(k)'
    <2>1. RowInTime(k)
      BY DEF TimeInv
    <2> QED BY <1>1, <1>2, <2>1, Nats DEF RowInTime
  <1>5. ASSUME NEW c \in Readers PROVE LookInTime(c)'
    <2>1. LookInTime(c)
      BY DEF TimeInv
    <2>2. look[c].at \in {"exact", "query", "touch"} => now < look[c].began + Slow
      BY DEF Tick
    <2>3. look[c].at \in {"exact", "query", "touch"} => now + 1 <= look[c].began + Slow
      BY <1>2, <2>1, <2>2, Nats DEF LookInTime
    <2> QED BY <1>1, <2>1, <2>3 DEF LookInTime
  <1> QED BY <1>1, <1>3, <1>4, <1>5 DEF TimeInv

LEMMA Restart_Time ==
  ASSUME TimeInv, Stop \/ Start
  PROVE  TimeInv' /\ rows' = rows
  <1>1. rows' = rows /\ now' = now /\ ~ (up' /\ clean')
    BY DEF Stop, Start
  <1>2. \A k \in DOMAIN rows : RowInTime(k)'
    BY <1>1 DEF RowInTime, TimeInv
  <1>3. timer' \in Nat /\ timer' <= Interval + Slow
    BY Nats DEF Stop, Start, TimeInv
  <1>4. CASE Stop
    <2>1. DOMAIN look' = Readers /\ \A c \in Readers : look'[c] = NoLook
      BY <1>4 DEF Stop
    <2>2. \A c \in Readers : LookInTime(c)'
      BY <2>1 DEF LookInTime, NoLook
    <2> QED BY <1>1, <1>2, <1>3, <2>1, <2>2 DEF TimeInv
  <1>5. CASE Start
    <2>1. look' = look
      BY <1>5 DEF Start
    <2>2. \A c \in Readers : LookInTime(c)'
      BY <1>1, <2>1 DEF LookInTime, TimeInv
    <2> QED BY <1>1, <1>2, <1>3, <2>1, <2>2 DEF TimeInv
  <1> QED BY <1>4, <1>5

LEMMA SCInit_Time == SCInit => TimeInv
  BY Nats DEF SCInit, TimeInv, NoRows, LookInTime, NoLook

LEMMA SCNext_Time == TimeInv /\ [SCNext(Keys)]_cacheVars => TimeInv'
  <1> SUFFICES ASSUME TimeInv, [SCNext(Keys)]_cacheVars PROVE TimeInv'
    OBVIOUS
  <1>1. ASSUME NEW k \in Keys, Insert(k) PROVE TimeInv'
    BY <1>1, Insert_Time
  <1>2. ASSUME NEW c \in Readers, NEW k \in Keys, Begin(c, k) PROVE TimeInv'
    BY <1>2, Ask_Time DEF Begin
  <1>3. CASE UNCHANGED cacheVars
    <2>1. /\ rows' = rows /\ look' = look /\ now' = now /\ timer' = timer /\ up' = up
          /\ clean' = clean
      BY <1>3 DEF cacheVars
    <2> QED BY <2>1 DEF TimeInv, RowInTime, LookInTime
  <1> QED BY <1>1, <1>2, <1>3, Lookup_Time, Sweep_Time, Wipe_Time, Tick_Time, Restart_Time DEF SCNext

\* Nothing older than the six hours and one round of the cleaner is served,
\* except after a restart or a failed sweep, until the cleaner has run.
THEOREM SCSpec_HitIsFresh == SCSpec => []HitIsFresh
  <1>1. TimeInv => HitIsFresh
    BY DEF TimeInv, LookInTime, HitIsFresh
  <1> QED BY <1>1, SCInit_Time, SCNext_Time, PTL DEF SCSpec

\* The cleaner takes no row that was stored or touched within the six hours,
\* less the wait of that use, however lookups, stores and sweeps interleave.
THEOREM SCSpec_UsedRowsStay == SCSpec => UsedRowsStay
  <1>1. TimeInv /\ [SCNext(Keys)]_cacheVars =>
          [\A k \in Present : k \notin DOMAIN rows' /\ timer' # timer =>
             rows[k].used + MaxAge < now + Slow]_cacheVars
    <2> SUFFICES ASSUME TimeInv, SCNext(Keys), NEW k \in DOMAIN rows,
                        k \notin DOMAIN rows', timer' # timer
                 PROVE  rows[k].used + MaxAge < now + Slow
      BY DEF Present
    <2>1. CASE Sweep
      BY <2>1, Sweep_Time
    <2>2. CASE Tick \/ Stop \/ Start
      BY <2>2, Tick_Time, Restart_Time
    <2>3. CASE Wipe
      BY <2>3, Wipe_Time
    <2>4. ASSUME NEW j \in Keys, NEW c \in Readers, Begin(c, j) PROVE FALSE
      BY <2>4 DEF Begin, stillVars
    <2>5. ASSUME NEW j \in Keys, Insert(j) PROVE FALSE
      BY <2>5 DEF Insert, stillVars
    <2>6. ASSUME NEW c \in Readers, Lookup(c) PROVE FALSE
      BY <2>6 DEF Lookup, stillVars
    <2> QED BY <2>1, <2>2, <2>3, <2>4, <2>5, <2>6 DEF SCNext
  <1> QED BY <1>1, SCInit_Time, SCNext_Time, PTL DEF SCSpec, UsedRowsStay

-----------------------------------------------------------------------------
(* The summary stream, for every buffer capacity and every length of stream:*)
(* the types, that a failed stream is never answered or stored as a        *)
(* summary, and that a summary drained from the channel has every token.   *)

THEOREM StreamTypeCorrect == StreamSpec => []TypeOK
<1>1. StreamInit => TypeOK
  BY MaxTokensAssumption, BufCapAssumption DEF StreamInit, TypeOK
<1>2. TypeOK /\ [StreamNext]_streamVars => TypeOK'
  <2> SUFFICES ASSUME TypeOK, [StreamNext]_streamVars PROVE TypeOK'
    OBVIOUS
  <2> USE MaxTokensAssumption, BufCapAssumption DEF TypeOK
  <2>1. CASE PostFails \/ PostSucceeds \/ Scan
    BY <2>1 DEF PostFails, PostSucceeds, Scan, Decide, chanVars, callVars
  <2>2. CASE Send
    <3>1. sent + 1 \in Tokens
      BY <2>2 DEF Send, Tokens
    <3>2. ch' \in Seq(Tokens) /\ Len(ch') <= BufCap
      <4>1. CASE ch' = Append(ch, sent + 1) /\ Len(ch) < BufCap
        <5>1. Len(ch) \in Nat /\ Len(ch') = Len(ch) + 1
          BY <4>1, <3>1
        <5>2. ch' \in Seq(Tokens)
          BY <4>1, <3>1
        <5> QED
          BY <4>1, <5>1, <5>2
      <4>2. CASE UNCHANGED ch
        BY <4>2
      <4> QED
        BY <2>2, <4>1, <4>2 DEF Send
    <3> QED
      BY <2>2, <3>2 DEF Send, Decide, callVars
  <2>3. CASE Report \/ CloseCh
    BY <2>3 DEF Report, CloseCh, callVars
  <2>4. CASE RecvToken
    BY <2>4 DEF RecvToken, prodVars
  <2>5. CASE RecvClosed
    BY <2>5 DEF RecvClosed, closed, Summarized, FallBack, prodVars
  <2>6. CASE RecvErr
    <3>1. <<>> \in Seq(Tokens)
      OBVIOUS
    <3> QED
      BY <2>6, <3>1 DEF RecvErr, Summarized, FallBack, prodVars
  <2>7. CASE RecvDone \/ Disconnect \/ CallSummarize
    BY <2>7 DEF RecvDone, Disconnect, CallSummarize, FallBack, prodVars, chanVars, callVars
  <2>8. CASE SummarizeAnswers \/ SummarizeFails
    BY <2>8 DEF SummarizeAnswers, SummarizeFails, Finish, prodVars, chanVars
  <2>9. CASE UNCHANGED streamVars
    BY <2>9 DEF streamVars, prodVars, chanVars, callVars
  <2> QED
    BY <2>1, <2>2, <2>3, <2>4, <2>5, <2>6, <2>7, <2>8, <2>9 DEF StreamNext, Produce, Consume
<1> QED
  BY <1>1, <1>2, PTL DEF StreamSpec

-----------------------------------------------------------------------------
\* What errCh holds at each point of ChatStream, as long as streamSummarize
\* listens: nothing before the report and the verdict after it.
OutcomeInv ==
  /\ errCh \in {"empty", verdict}
  /\ stage = "stream" /\ prod \in {"close", "done"} => errCh = verdict
  /\ prod \in {"post", "scan", "send", "report"} => errCh = "empty"
  /\ (verdict = "none") <=> (prod \in {"post", "scan", "send"})
  /\ stage \in {"stream", "fallback", "summarize"} => reply = "none" /\ stored = "none"
  /\ FailedStreamNotAnswered

\* A failed stream is never answered or stored as a summary (the order in
\* which ChatStream reports and closes, and streamSummarize drains and asks).
THEOREM StreamFailureNotAnswered == StreamSpec => []FailedStreamNotAnswered
<1>1. StreamInit => OutcomeInv
  BY DEF StreamInit, OutcomeInv, FailedStreamNotAnswered
<1>2. TypeOK /\ OutcomeInv /\ [StreamNext]_streamVars => OutcomeInv'
  <2> SUFFICES ASSUME TypeOK, OutcomeInv, [StreamNext]_streamVars PROVE OutcomeInv'
    OBVIOUS
  <2> USE DEF closed, TypeOK, OutcomeInv, FailedStreamNotAnswered
  <2>1. CASE PostFails \/ PostSucceeds \/ Scan
    BY <2>1 DEF PostFails, PostSucceeds, Scan, Decide, chanVars, callVars
  <2>2. CASE Send
    BY <2>2 DEF Send, Decide, callVars
  <2>3. CASE Report \/ CloseCh
    BY <2>3 DEF Report, CloseCh, callVars
  <2>4. CASE RecvToken
    BY <2>4 DEF RecvToken, prodVars
  <2>5. CASE RecvClosed
    BY <2>5 DEF RecvClosed, closed, Summarized, FallBack, prodVars
  <2>6. CASE RecvErr
    BY <2>6 DEF RecvErr, Summarized, FallBack, prodVars
  <2>7. CASE RecvDone \/ Disconnect \/ CallSummarize
    BY <2>7 DEF RecvDone, Disconnect, CallSummarize, FallBack, prodVars, chanVars, callVars
  <2>8. CASE SummarizeAnswers \/ SummarizeFails
    BY <2>8 DEF SummarizeAnswers, SummarizeFails, Finish, prodVars, chanVars
  <2>9. CASE UNCHANGED streamVars
    BY <2>9 DEF streamVars, prodVars, chanVars, callVars
  <2> QED
    BY <2>1, <2>2, <2>3, <2>4, <2>5, <2>6, <2>7, <2>8, <2>9 DEF StreamNext, Produce, Consume
<1>3. OutcomeInv => FailedStreamNotAnswered
  BY DEF OutcomeInv
<1> QED
  BY <1>1, <1>2, <1>3, StreamTypeCorrect, PTL DEF StreamSpec

-----------------------------------------------------------------------------
\* Where the tokens are: those accumulated, then those in the buffer, are
\* all that were pushed; a text taken from the channel is all of them, and
\* ChatStream has ended.
TokenInv ==
  /\ Len(got) + Len(ch) = sent
  /\ \A i \in 1 .. Len(got) : got[i] = i
  /\ \A i \in 1 .. Len(ch) : ch[i] = Len(got) + i
  /\ stage # "returned" => reply = "none"
  /\ reply = "streamed" /\ text # <<>> =>
       prod = "done" /\ text = got /\ Len(got) = sent

LEMMA TokenStep == TypeOK /\ TokenInv /\ [StreamNext]_streamVars => TokenInv'
<1> SUFFICES ASSUME TypeOK, TokenInv, [StreamNext]_streamVars PROVE TokenInv'
  OBVIOUS
<1>0. Len(got) \in Nat /\ Len(ch) \in Nat /\ sent \in Nat
  BY MaxTokensAssumption DEF TypeOK
<1>1. CASE UNCHANGED <<ch, sent, got>> /\ (Produce \/ UNCHANGED callVars)
  <2>1. reply' = reply /\ text' = text /\ stage' = stage
    BY <1>1 DEF Produce, PostFails, PostSucceeds, Scan, Send, Report, CloseCh, callVars
  <2>2. prod = "done" => prod' = "done"
    BY <1>1 DEF StreamNext, Consume, Disconnect, CallSummarize, Produce, PostFails, PostSucceeds,
                Scan, Send, Report, CloseCh, RecvToken, RecvClosed, RecvErr, RecvDone,
                SummarizeAnswers, SummarizeFails, Finish, prodVars, streamVars
  <2> QED
    BY <1>1, <2>1, <2>2 DEF TokenInv
<1>2. CASE Send /\ ch' = Append(ch, sent + 1)
  <2>1. sent' = sent + 1 /\ UNCHANGED callVars /\ prod # "done"
    BY <1>2 DEF Send, TokenInv
  <2>2. sent + 1 \in Tokens
    BY <1>2, MaxTokensAssumption DEF Send, TypeOK, Tokens
  <2>3. Len(ch') = Len(ch) + 1
    BY <1>2, <2>2 DEF TypeOK
  <2>4. ASSUME NEW i \in 1 .. Len(ch') PROVE ch'[i] = Len(got) + i
    <3>1. CASE i \in 1 .. Len(ch)
      BY <1>2, <2>2, <3>1 DEF TypeOK, TokenInv
    <3>2. CASE i = Len(ch) + 1
      BY <1>2, <2>2, <3>2, <1>0 DEF TypeOK, TokenInv
    <3> QED
      BY <3>1, <3>2, <2>3, <1>0
  <2>5. got' = got /\ text' = text /\ reply' = reply /\ stage' = stage
    BY <2>1 DEF callVars
  <2>6. Len(got') + Len(ch') = sent'
    BY <1>0, <2>1, <2>3, <2>5 DEF TokenInv
  <2>7. reply' = "streamed" /\ text' # <<>> => FALSE
    BY <2>1, <2>5 DEF TokenInv
  <2> QED
    BY <2>4, <2>5, <2>6, <2>7 DEF TokenInv
<1>3. CASE RecvToken
  <2>1. /\ got' = Append(got, Head(ch)) /\ ch' = Tail(ch) /\ ch # <<>>
        /\ sent' = sent /\ reply' = reply /\ text' = text /\ stage' = stage
        /\ prod' = prod /\ stage = "stream"
    BY <1>3 DEF RecvToken, prodVars
  <2>2. Len(got') = Len(got) + 1 /\ Len(ch') = Len(ch) - 1 /\ Len(ch) > 0
    BY <2>1 DEF TypeOK
  <2>3. Head(ch) = Len(got) + 1
    BY <2>1, <2>2, <1>0 DEF TypeOK, TokenInv
  <2>4. ASSUME NEW i \in 1 .. Len(got') PROVE got'[i] = i
    <3>1. CASE i \in 1 .. Len(got)
      BY <2>1, <3>1 DEF TypeOK, TokenInv
    <3>2. CASE i = Len(got) + 1
      BY <2>1, <2>3, <3>2 DEF TypeOK
    <3> QED
      BY <3>1, <3>2, <2>2, <1>0
  <2>5. ASSUME NEW i \in 1 .. Len(ch') PROVE ch'[i] = Len(got') + i
    <3>1. i + 1 \in 1 .. Len(ch) /\ ch'[i] = ch[i + 1]
      BY <2>1, <2>2, <1>0 DEF TypeOK
    <3> QED
      BY <3>1, <2>2, <1>0 DEF TokenInv
  <2>6. Len(got') + Len(ch') = sent'
    <3>1. Len(got) + Len(ch) = sent /\ sent' = sent
      BY <2>1 DEF TokenInv
    <3> QED
      BY <1>0, <2>2, <3>1
  <2>7. reply' = "none" /\ stage' = "stream"
    BY <2>1 DEF TokenInv
  <2> QED
    BY <2>4, <2>5, <2>6, <2>7 DEF TokenInv
<1>4. CASE RecvClosed
  BY <1>4, <1>0 DEF RecvClosed, closed, Summarized, FallBack, TokenInv, TypeOK, prodVars
<1>5. CASE RecvErr
  BY <1>5 DEF RecvErr, Summarized, FallBack, TokenInv, prodVars
<1>6. CASE RecvDone \/ CallSummarize
  BY <1>6 DEF RecvDone, CallSummarize, FallBack, TokenInv, prodVars, chanVars
<1>7. CASE SummarizeAnswers \/ SummarizeFails
  BY <1>7 DEF SummarizeAnswers, SummarizeFails, Finish, TokenInv, prodVars, chanVars
<1>8. CASE Disconnect \/ UNCHANGED streamVars
  BY <1>1, <1>8 DEF Disconnect, streamVars, prodVars, chanVars, callVars
<1>9. CASE PostFails \/ PostSucceeds \/ Scan \/ Report \/ CloseCh
  BY <1>1, <1>9 DEF PostFails, PostSucceeds, Scan, Report, CloseCh, Produce, chanVars, callVars
<1>10. CASE Send
  BY <1>1, <1>2, <1>10 DEF Send, Produce, callVars
<1> QED
  BY <1>3, <1>4, <1>5, <1>6, <1>7, <1>8, <1>9, <1>10 DEF StreamNext, Produce, Consume

\* No token is lost between the push and the close: a summary whose text was
\* drained from the channel has every token of the stream, in order.
THEOREM DrainedSummaryIsWhole == StreamSpec => []DrainedIsWhole
<1>1. StreamInit => TokenInv
  BY DEF StreamInit, TokenInv
<1>2. TypeOK /\ TokenInv => DrainedIsWhole
  <2> SUFFICES ASSUME TypeOK, TokenInv, reply = "streamed", text # <<>>
               PROVE  text = [i \in 1 .. sent |-> i]
    BY DEF DrainedIsWhole
  <2>1. got = [i \in 1 .. Len(got) |-> got[i]]
    BY DEF TypeOK
  <2>2. text = got /\ Len(got) = sent /\ \A i \in 1 .. sent : got[i] = i
    BY DEF TokenInv
  <2> QED
    BY <2>1, <2>2
<1> QED
  BY <1>1, <1>2, TokenStep, StreamTypeCorrect, PTL DEF StreamSpec
=============================================================================
