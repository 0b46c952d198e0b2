--------------------------- MODULE MC_PageFetch ---------------------------
EXTENDS PageFetch

Pauses_ == [timeout |-> 3]
PageSpecs ==
  {<<>>, <<<<1, 2>>>>, <<<<2, 2>>, <<2, 3>>>>, <<<<1, 3>>>>, <<<<2, 1>>>>, <<<<1, 4>>>>, <<<<1, 1>>, <<4, 4>>>>}

Setting(jina, mineru, fetcher, kinds1, urls1, kinds2, urls2, old, end, again) ==
  [jina |-> jina, mineru |-> mineru, ocr |-> mineru, fetcher |-> fetcher,
   kinds |-> [c \in Calls |-> IF c = "c1" THEN kinds1 ELSE kinds2],
   urls |-> [c \in Calls |-> IF c = "c1" THEN urls1 ELSE urls2],
   old |-> old, start |-> IF old = <<>> THEN 0 ELSE Second, end |-> end, restarts |-> again]

(* A batch beside a single fetch; two single fetches with Jina; a fetch and *)
(* a refused call through a restart; documents; a fetcher created late;     *)
(* fetches after failures whose kinds were not recorded.                    *)
A == Setting(FALSE, FALSE, TRUE, {"clean"}, {{"page", "paper"}}, {"clean"}, {{"page"}}, <<>>, 2, 0)
B == Setting(TRUE, FALSE, TRUE, {"clean"}, {{"page"}}, {"clean"}, {{"other"}}, <<>>, 2, 0)
C == Setting(FALSE, FALSE, TRUE, {"clean"}, {{"page"}}, {"clean"}, {{}}, <<>>, 4, 1)
D == Setting(FALSE, TRUE, TRUE, {"clean"}, {{"paper"}}, {"pdf", "enrich"}, {{"paper"}, {"local"}}, <<>>, 1, 0)
E == Setting(TRUE, FALSE, FALSE, {"clean"}, {{"page"}}, {"enrich", "pdf"}, {{"other"}}, <<>>, 2, 0)
F == Setting(FALSE, FALSE, TRUE, {"clean"}, {{"page"}}, {"clean"}, {{"page"}}, <<0, 1, 1>>, 5, 0)
All == {A, B, C, D, E, F}
=============================================================================
