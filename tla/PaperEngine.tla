----------------------------- MODULE PaperEngine -----------------------------
(***************************************************************************)
(* A search engine for papers that has no limiter of its own, shared by    *)
(* concurrent searches (pkg/academic), the HTTP client below it, which     *)
(* follows redirects, and the transport below that, which sends every      *)
(* request of the chain again after a 429 (pkg/proxy/proxy.go).            *)
(*   "semantic"  Semantic Scholar: an API key that is given up when it is  *)
(*               limited twice, once and for all searches;                 *)
(*   "anonymous" Semantic Scholar without a key;                           *)
(*   "scholar"   Google Scholar: two more attempts when it refuses;        *)
(*   "pubmed"    a search for numbers, and a request for their papers;     *)
(*   "single"    Crossref, OpenAlex, Europe PMC and DOAJ: one request.     *)
(*                                                                         *)
(* Times are left out: a wait ends at any moment.  An answer is known by   *)
(* its status only, and papers are not parsed.                             *)
(***************************************************************************)
EXTENDS Integers

CONSTANTS
  Searches,  \* concurrent searches, each one after another
  Sites,     \* the engines, of which a behaviour has one
  Chain,     \* the requests client.Do sends for one, following redirects: 10
  MaxPosted  \* bound on the requests of a search

ASSUME PaperAssumption ==
  /\ Sites \subseteq {"semantic", "anonymous", "scholar", "pubmed", "single"}
  /\ Chain \in Nat \ {0} /\ MaxPosted \in Nat

VARIABLES
  site,        \* the engine
  keyDisabled, \* whether it has given its key up
  step,        \* step[q]: where search q is
  attempt,     \* attempt[q]: the attempts before this one
  hops,        \* hops[q]: the redirects its client.Do has followed
  carries,     \* carries[q]: whether its request carries the key
  posted,      \* history: requests that search q has sent
  refused      \* history: answers 429 or 503 to its attempts with the key

paperVars == <<site, keyDisabled, step, attempt, hops, carries, posted, refused>>

Steps == {"idle", "build", "ready", "sent", "resent", "limited"}
Statuses == {"200", "403", "429", "503", "other", "none"}

PaperInit ==
  /\ site \in Sites
  /\ keyDisabled = FALSE
  /\ step = [q \in Searches |-> "idle"]
  /\ attempt = [q \in Searches |-> 0]
  /\ hops = [q \in Searches |-> 0]
  /\ carries = [q \in Searches |-> FALSE]
  /\ posted = [q \in Searches |-> 0]
  /\ refused = [q \in Searches |-> 0]

To(q, label) == step' = [step EXCEPT ![q] = label]

\* The search returns results or an error.
End(q) ==
  /\ To(q, "idle")
  /\ attempt' = [attempt EXCEPT ![q] = 0]
  /\ hops' = [hops EXCEPT ![q] = 0]
  /\ carries' = [carries EXCEPT ![q] = FALSE]
  /\ posted' = [posted EXCEPT ![q] = 0]
  /\ refused' = [refused EXCEPT ![q] = 0]
  /\ UNCHANGED <<site, keyDisabled>>

Again(q) ==
  /\ To(q, "build")
  /\ attempt' = [attempt EXCEPT ![q] = @ + 1]
  /\ hops' = [hops EXCEPT ![q] = 0]

Ask(q) ==
  /\ step[q] = "idle"
  /\ To(q, "build")
  /\ UNCHANGED <<site, keyDisabled, attempt, hops, carries, posted, refused>>

\* The header of the request is decided ...
Build(q) ==
  /\ step[q] = "build"
  /\ To(q, "ready")
  /\ carries' = [carries EXCEPT ![q] = site = "semantic" /\ ~ keyDisabled]
  /\ UNCHANGED <<site, keyDisabled, attempt, hops, posted, refused>>

Transmit(q, from, to) ==
  /\ step[q] = from /\ posted[q] < MaxPosted
  /\ To(q, to)
  /\ posted' = [posted EXCEPT ![q] = @ + 1]
  /\ UNCHANGED <<site, keyDisabled, attempt, hops, carries, refused>>

\* ... and it is sent.
Send(q) == Transmit(q, "ready", "sent")

\* RoundTrip: a 429 that asks for a short wait, or names none, is waited for
\* and the same request sent once more.
Resend(q) == Transmit(q, "sent", "resent")

\* No CheckRedirect is set: a 3xx that names a place is followed, with the
\* headers of the request, to a request that the transport may resend again.
\* The engine sees the end of the chain, and an error when it is too long.
Redirected(q) ==
  /\ step[q] \in {"sent", "resent"} /\ hops[q] + 1 < Chain
  /\ To(q, "ready")
  /\ hops' = [hops EXCEPT ![q] = @ + 1]
  /\ UNCHANGED <<site, keyDisabled, attempt, carries, posted, refused>>

\* Fault: one attempt too many.
MayRetry_OneMore(q, status) == status \in {"403", "429", "503"} /\ attempt[q] <= 2

\* Google Scholar's retryable statuses, and its two retries.
MayRetry(q, status) == status \in {"403", "429", "503"} /\ attempt[q] < 2

\* Semantic Scholar limits.
Limits(status) == status \in {"429", "503"}

SemanticAnswer(q, status) ==
  /\ site \in {"semantic", "anonymous"}
  /\ IF Limits(status)
       THEN /\ To(q, "limited")
            /\ refused' = [refused EXCEPT ![q] = @ + IF carries[q] THEN 1 ELSE 0]
            /\ UNCHANGED <<site, keyDisabled, attempt, hops, carries, posted>>
       ELSE End(q)

ScholarAnswer(q, status) ==
  /\ site = "scholar"
  /\ IF MayRetry(q, status)
       THEN Again(q) /\ UNCHANGED <<site, keyDisabled, carries, posted, refused>>
       ELSE End(q)

\* PubMed does not look at the status: a body it can read names papers, which
\* are asked for, or none; one it cannot is an error.
PubmedAnswer(q, status) ==
  /\ site = "pubmed"
  /\ \/ /\ status # "none" /\ attempt[q] = 0
        /\ Again(q) /\ UNCHANGED <<site, keyDisabled, carries, posted, refused>>
     \/ End(q)

\* One answer, of results or an error.
SingleAnswer(q) == site = "single" /\ End(q)

\* What the engine makes of the answer at the end of the chain.
Answered(q, status) ==
  /\ step[q] \in {"sent", "resent"}
  /\ \/ SemanticAnswer(q, status) \/ ScholarAnswer(q, status)
     \/ PubmedAnswer(q, status) \/ SingleAnswer(q)

\* Fault: the first limit is enough.
GiveUp_AtOnce(q) ==
  /\ keyDisabled' = TRUE
  /\ Again(q)
  /\ UNCHANGED <<site, carries, posted, refused>>

\* The first time it backs off, the second it gives the key up for everybody.
GiveUp(q) ==
  /\ keyDisabled' = (attempt[q] > 0 \/ keyDisabled)
  /\ Again(q)
  /\ UNCHANGED <<site, carries, posted, refused>>

\* Without a key, or after another search has given it up, a limit is an error.
MeetLimit(q) ==
  /\ step[q] = "limited"
  /\ IF site = "anonymous" \/ keyDisabled THEN End(q) ELSE GiveUp(q)

Paper(q) ==
  \/ Ask(q) \/ Build(q) \/ Send(q) \/ Resend(q) \/ Redirected(q) \/ MeetLimit(q)
  \/ \E status \in Statuses : Answered(q, status)

PaperNext == \E q \in Searches : Paper(q)

PaperSpec == PaperInit /\ [][PaperNext]_paperVars

-----------------------------------------------------------------------------
\* A search sends at most 6 Chain requests upstream: it makes three attempts,
\* each a chain of redirects of which the transport may double every request.
\* It is bounded at all because a key that was limited twice is given up before
\* the third attempt.
UpstreamBounded == \A q \in Searches : posted[q] <= 6 * Chain

\* The key is given up, which no restart short of the process's undoes, only
\* on evidence: a search that was refused twice with the key in its request.
\* Searches that were refused once each are not enough.
KeyGivenUpOnEvidence ==
  [][keyDisabled' # keyDisabled =>
       keyDisabled' /\ \E q \in Searches : refused[q] >= 2]_paperVars
=============================================================================
