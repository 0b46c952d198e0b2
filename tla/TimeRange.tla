------------------------------ MODULE TimeRange ------------------------------
(***************************************************************************)
(* The time range of the API providers (pkg/search/provider: tavily.go,    *)
(* baidu.go, baidu_ai.go, exa.go, doubao.go).  A provider object keeps the *)
(* range of its requests in a field.  SearchRawWithTimeRange saves the     *)
(* field, sets it, calls SearchRaw, which reads it to build the request,   *)
(* and restores it on return; nothing locks the field, and one object      *)
(* serves every search of the process.  A load or a store of the field is  *)
(* one step.                                                               *)
(***************************************************************************)
EXTENDS Naturals

CONSTANTS
  Calls,    \* concurrent searches; each calls every provider, then again
  Objects,  \* the provider objects (one goroutine per call and object)
  Ranges,   \* the ranges a call may ask for
  Default   \* the field's configured value, not one of Ranges

VARIABLES
  field, \* field[o]: the range of o's requests
  pc,    \* pc[c][o]: where the goroutine of call c at object o is
  want,  \* want[c]: the range the caller asked for; Default: none
  saved, \* saved[c][o]: the local variable of the goroutine
  asked  \* asked[c][o]: the range in the request it sends

vars == <<field, pc, want, saved, asked>>

Init ==
  /\ field = [o \in Objects |-> Default]
  /\ pc = [c \in Calls |-> [o \in Objects |-> "idle"]]
  /\ want = [c \in Calls |-> Default]
  /\ saved = [c \in Calls |-> [o \in Objects |-> Default]]
  /\ asked = [c \in Calls |-> [o \in Objects |-> Default]]

At(c, o, here, there) == pc[c][o] = here /\ pc' = [pc EXCEPT ![c][o] = there]

\* A search starts at every provider, with a range or without one, which is
\* SearchRaw at once.
Begin(c, x) ==
  /\ \A o \in Objects : pc[c][o] = "idle"
  /\ want' = [want EXCEPT ![c] = x]
  /\ pc' = [pc EXCEPT ![c] = [o \in Objects |-> IF x = Default THEN "read" ELSE "save"]]
  /\ UNCHANGED <<field, saved, asked>>

\* saved := field
Save(c, o) ==
  /\ At(c, o, "save", "set")
  /\ saved' = [saved EXCEPT ![c][o] = field[o]]
  /\ UNCHANGED <<field, want, asked>>

\* field = range
Set(c, o) ==
  /\ At(c, o, "set", "read")
  /\ field' = [field EXCEPT ![o] = want[c]]
  /\ UNCHANGED <<want, saved, asked>>

\* SearchRaw reads the field into the request.
Read(c, o) ==
  /\ At(c, o, "read", "sent")
  /\ asked' = [asked EXCEPT ![c][o] = field[o]]
  /\ UNCHANGED <<field, want, saved>>

\* The upstream answers or fails.
Reply(c, o) ==
  /\ At(c, o, "sent", IF want[c] = Default THEN "idle" ELSE "restore")
  /\ UNCHANGED <<field, want, saved, asked>>

\* defer func() { field = saved }()
Restore(c, o) ==
  /\ At(c, o, "restore", "idle")
  /\ field' = [field EXCEPT ![o] = saved[c][o]]
  /\ UNCHANGED <<want, saved, asked>>

Next ==
  \E c \in Calls :
    \/ \E x \in Ranges \cup {Default} : Begin(c, x)
    \/ \E o \in Objects :
         Save(c, o) \/ Set(c, o) \/ Read(c, o) \/ Reply(c, o) \/ Restore(c, o)

Spec == Init /\ [][Next]_vars

-----------------------------------------------------------------------------
\* A call that asks for a range is answered from that range, and one that
\* asks for none from the provider's configured range.
RangeHonoured ==
  \A c \in Calls : \A o \in Objects :
    pc[c][o] = "sent" => asked[c][o] = want[c]
=============================================================================
