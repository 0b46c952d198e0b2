---------------------------- MODULE SummaryStream ----------------------------
(***************************************************************************)
(* The summary stage of one smartsearch call: the goroutine ChatStream of  *)
(* pkg/llm/llm.go, which pushes the tokens of the LLM's event stream into  *)
(* a buffered channel and its outcome into errCh; the loop of              *)
(* streamSummarize (mcp/tool_summarize.go), which selects over both and    *)
(* the request context; and the fallback chain of finishWebSearch          *)
(* (mcp/tool_search.go), which stores what it answers.                     *)
(*                                                                         *)
(* Tokens are numbered in the order the LLM produced them; lines of the    *)
(* event stream that carry none are skipped.  Go's select picks any ready  *)
(* case.                                                                   *)
(***************************************************************************)
EXTENDS Naturals, Sequences

CONSTANTS
  BufCap,   \* capacity of the token channel (64)
  MaxTokens \* bound on the tokens of one stream

ASSUME BufCapAssumption == BufCap \in Nat \ {0}
ASSUME MaxTokensAssumption == MaxTokens \in Nat

VARIABLES
  prod,     \* where ChatStream is
  sent,     \* tokens pushed so far; token sent + 1 is the next
  verdict,  \* what ChatStream reports: "none" (yet), "nil" or "error"
  ch,       \* the token channel's buffer
  errCh,    \* errCh's buffer of capacity 1: "empty" or a verdict
  client,   \* "here", or "gone": the request context is cancelled
  stage,    \* where finishWebSearch is
  got,      \* the tokens accumulated by streamSummarize
  reply,    \* the kind of answer: "none" yet, "streamed", "summary", "raw"
  text,     \* the tokens of a streamed answer
  stored    \* the summary column of the row stored: "none" if empty

prodVars == <<prod, sent, verdict>>
chanVars == <<ch, errCh>>
callVars == <<stage, got, reply, text, stored>>
streamVars == <<prodVars, chanVars, client, callVars>>

StreamInit ==
  /\ sent = 0 /\ ch = <<>> /\ errCh = "empty" /\ got = <<>> /\ text = <<>>
  /\ client = "here" /\ stored = "none"
  /\ \/ prod = "post" /\ verdict = "none" /\ stage = "stream" /\ reply = "none"
     \* A call without a session starts no stream, and its error is still
     \* nil: the empty output is answered, as a summary.
     \/ prod = "done" /\ verdict = "nil" /\ stage = "returned" /\ reply = "streamed"

-----------------------------------------------------------------------------
(* ChatStream                                                              *)

Decide(v) == prod' = "report" /\ verdict' = v

\* Fault: a failed request returns before close and report are deferred.
PostFails_EarlyReturn ==
  /\ prod = "post"
  /\ prod' = "returned"
  /\ UNCHANGED <<sent, verdict, chanVars, client, callVars>>

\* The request is refused, fails, times out, or is cut by the context.
PostFails ==
  /\ prod = "post"
  /\ Decide("error")
  /\ UNCHANGED <<sent, chanVars, client, callVars>>

PostSucceeds ==
  /\ prod = "post"
  /\ prod' = "scan"
  /\ UNCHANGED <<sent, verdict, chanVars, client, callVars>>

\* scanner.Scan(): a line, the end of the stream, or a read error.  A line
\* is looked at only if the context still lives.
Scan ==
  /\ prod = "scan"
  /\ \/ client = "here" /\ sent < MaxTokens /\ prod' = "send" /\ UNCHANGED verdict
     \/ client = "gone" /\ Decide("error")         \* a line, but the context is done
     \/ Decide("nil")                   \* end of stream
     \/ Decide("error")                 \* scanner.Err()
  /\ UNCHANGED <<sent, chanVars, client, callVars>>

\* Fault: the push of a token does not watch the context.
Send_IgnoresContext ==
  /\ prod = "send"
  /\ Len(ch) < BufCap
  /\ ch' = Append(ch, sent + 1) /\ sent' = sent + 1
  /\ prod' = "scan" /\ UNCHANGED verdict
  /\ UNCHANGED <<errCh, client, callVars>>

\* A token is pushed when the buffer has room, or the context ends the wait.
Send ==
  /\ prod = "send"
  /\ \/ /\ Len(ch) < BufCap
        /\ ch' = Append(ch, sent + 1) /\ sent' = sent + 1
        /\ prod' = "scan" /\ UNCHANGED verdict
     \/ client = "gone" /\ Decide("error") /\ UNCHANGED <<sent, ch>>
  /\ UNCHANGED <<errCh, client, callVars>>

\* errCh <- verdict
Report ==
  /\ prod = "report"
  /\ errCh = "empty"
  /\ errCh' = verdict
  /\ prod' = "close"
  /\ UNCHANGED <<sent, verdict, ch, client, callVars>>

\* The deferred close(ch): from then on the channel is closed.
CloseCh ==
  /\ prod = "close"
  /\ prod' = "done"
  /\ UNCHANGED <<sent, verdict, ch, errCh, client, callVars>>

-----------------------------------------------------------------------------
(* streamSummarize                                                         *)

closed == prod = "done"

\* The client disconnects, or its deadline passes.
Disconnect ==
  /\ client = "here"
  /\ client' = "gone"
  /\ UNCHANGED <<prodVars, chanVars, callVars>>

\* Fault: a token whose progress notification fails is not accumulated.
RecvToken_SkipsWhenGone ==
  /\ stage = "stream"
  /\ ch # <<>>
  /\ got' = IF client = "gone" THEN got ELSE Append(got, Head(ch))
  /\ ch' = Tail(ch)
  /\ UNCHANGED <<prodVars, errCh, client, stage, reply, text, stored>>

RecvToken ==
  /\ stage = "stream"
  /\ ch # <<>>
  /\ got' = Append(got, Head(ch))
  /\ ch' = Tail(ch)
  /\ UNCHANGED <<prodVars, errCh, client, stage, reply, text, stored>>

\* The output of the stream is answered, and stored with the results.
Summarized(tokens, summary) ==
  /\ stage' = "returned"
  /\ reply' = "streamed"
  /\ text' = tokens
  /\ stored' = summary

FallBack == stage' = "fallback" /\ UNCHANGED <<reply, text, stored>>

\* Fault: the end of the token channel counts as success.
RecvClosed_IgnoresVerdict ==
  /\ stage = "stream"
  /\ ch = <<>> /\ closed
  /\ Summarized(got, "streamed")
  /\ UNCHANGED <<prodVars, chanVars, client, got>>

\* The token channel is drained and closed: a non-blocking look at errCh
\* tells whether the stream succeeded.  (FormatCitation puts a heading before
\* the text, so that this summary is never empty.)
RecvClosed ==
  /\ stage = "stream"
  /\ ch = <<>> /\ closed
  /\ \/ errCh = "error" /\ FallBack
     \/ errCh # "error" /\ Summarized(got, "streamed")
  /\ errCh' = "empty"
  /\ UNCHANGED <<prodVars, ch, client, got>>

\* case err := <-errCh: return "", err -- also when err is nil: the answer
\* and the summary column are then empty.
RecvErr ==
  /\ stage = "stream"
  /\ errCh # "empty"
  /\ IF errCh = "nil" THEN Summarized(<<>>, "none") ELSE FallBack
  /\ errCh' = "empty"
  /\ UNCHANGED <<prodVars, ch, client, got>>

RecvDone ==
  /\ stage = "stream"
  /\ client = "gone"
  /\ FallBack
  /\ UNCHANGED <<prodVars, chanVars, client, got>>

-----------------------------------------------------------------------------
(* finishWebSearch after a failed stream                                   *)

\* The non-streaming Summarize is asked next; it knows no context.
CallSummarize ==
  /\ stage = "fallback"
  /\ stage' = "summarize"
  /\ UNCHANGED <<prodVars, chanVars, client, got, reply, text, stored>>

Finish(kind, summary) ==
  /\ stage = "summarize"
  /\ stage' = "returned"
  /\ reply' = kind
  /\ stored' = summary
  /\ UNCHANGED <<prodVars, chanVars, client, got, text>>

SummarizeAnswers == Finish("summary", "summary")

\* Both failed: the raw results, stored without a summary.
SummarizeFails == Finish("raw", "none")

Produce == PostFails \/ PostSucceeds \/ Scan \/ Send \/ Report \/ CloseCh
Consume ==
  \/ RecvToken \/ RecvClosed \/ RecvErr \/ RecvDone
  \/ CallSummarize \/ SummarizeAnswers \/ SummarizeFails

StreamNext == Produce \/ Consume \/ Disconnect

StreamSpec == StreamInit /\ [][StreamNext]_streamVars

\* Both goroutines run when they can, and the HTTP client's timeout ends
\* every call; that the client leaves is nobody's duty.
FairStreamSpec == StreamSpec /\ WF_streamVars(Produce) /\ WF_streamVars(Consume)

-----------------------------------------------------------------------------
Tokens == 1 .. MaxTokens

TypeOK ==
  /\ prod \in {"post", "scan", "send", "report", "close", "done"}
  /\ sent \in 0 .. MaxTokens
  /\ prod = "send" => sent < MaxTokens
  /\ verdict \in {"none", "nil", "error"}
  /\ prod = "report" => verdict # "none"
  /\ ch \in Seq(Tokens) /\ Len(ch) <= BufCap
  /\ client \in {"here", "gone"}
  /\ errCh \in {"empty", "nil", "error"}
  /\ stage \in {"stream", "fallback", "summarize", "returned"}
  /\ got \in Seq(Tokens)
  /\ reply \in {"none", "streamed", "summary", "raw"} /\ text \in Seq(Tokens)
  /\ stored \in {"none", "streamed", "summary"}

\* A stream that failed is never answered, nor stored for six hours, as a
\* summary: not the tokens it pushed before it failed, and not because the
\* channel was closed before the outcome was read.
FailedStreamNotAnswered ==
  reply = "streamed" \/ stored = "streamed" => verdict = "nil"

\* A summary that took all its text from the channel has every token of the
\* stream, in order: none is lost between the last push and the close.
DrainedIsWhole ==
  reply = "streamed" /\ text # <<>> =>
    text = [i \in 1 .. sent |-> i]

\* ChatStream ends, whichever case of its select streamSummarize left by:
\* no goroutine stays blocked on a channel nobody reads.
ProducerEnds == <>(prod = "done")

\* The call is answered.
CallAnswered == <>(stage = "returned")
=============================================================================
