--------------------------- MODULE MC_ScrapeEngine ---------------------------
(* The engines one search after another is sent to: those with a limiter,   *)
(* over time, or those for papers without one.  They share nothing, and a   *)
(* behaviour is of one of them.                                             *)
EXTENDS ScrapeEngine, PaperEngine, TLC

CONSTANTS
  r1, r2,
  DdgTime \* a shorter clock for DuckDuckGo, whose searches have the most steps
Symmetry == Permutations(Requests)

VARIABLE part

MCInit ==
  /\ Init /\ PaperInit
  /\ \/ part = "limited" /\ site = "single"
     \/ part = "papers" /\ kind = "plain"

MCNext ==
  /\ UNCHANGED part
  /\ \/ /\ part = "limited" /\ Next /\ UNCHANGED paperVars
        /\ kind = "ddg" => now' <= DdgTime
     \/ part = "papers" /\ PaperNext /\ UNCHANGED vars

MCSpec == MCInit /\ [][MCNext]_<<vars, paperVars, part>>
=============================================================================
