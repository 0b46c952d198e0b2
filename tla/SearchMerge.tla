------------------------------ MODULE SearchMerge ------------------------------
(***************************************************************************)
(* One call of a search tool: smartsearch, whose hybrid search merges the  *)
(* results of its engines, or academicsearch, whose engines return papers. *)
(***************************************************************************)
EXTENDS HybridSearch, PaperMerge

SMInit == Init /\ PMInit

SMNext ==
  \/ papers = NoPapers /\ Next /\ UNCHANGED paperVars
  \/ search = "idle" /\ PMNext /\ UNCHANGED vars

SMSpec == SMInit /\ [][SMNext]_<<vars, paperVars>>

=============================================================================
