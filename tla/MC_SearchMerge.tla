--------------------------- MODULE MC_SearchMerge ----------------------------
EXTENDS SearchMerge
CONSTANTS d, nodoi, a, aa, b, c, blank, failed

\* Two engines with many lists, three with few; a and aa are two spellings of
\* one page.
MCKey(u) == IF u = aa THEN a ELSE u

Unscored == {<<>>} \cup {<<<<u, 0>>>> : u \in {a, blank}}
              \cup {<<<<u, 0>>, <<v, 0>>, <<w, 0>>>> : u, v, w \in {a, aa, b, c}}
WithScores == {<<<<a, 2>>, <<b, 0>>>>, <<<<b, 1>>, <<aa, 1>>, <<c, 2>>>>, <<<<a, 1>>>>, <<<<a, 1>>, <<a, 2>>>>}
Plain(urls) == [i \in DOMAIN urls |-> <<urls[i], 0>>]
OfThree == <<Plain(<<a, b>>), Plain(<<c, aa>>), Plain(<<blank, b>>)>>
MCLists(n, e) == IF n = 2 THEN Unscored \cup WithScores ELSE {OfThree[e], Plain(<<a>>)}

Conf(max, min, size, enhance, mmr, target) ==
  [max |-> max, min |-> min, maxSize |-> size, enhance |-> enhance,
   threshold |-> 1, mmr |-> mmr, target |-> target]
MCConfs ==
  {Conf(<<2, 0>>, <<0, 2>>, size, FALSE, FALSE, 0) : size \in {0, 2, 3}}
    \cup {Conf(<<2, 0>>, <<0, 2>>, 3, TRUE, mmr, 2) : mmr \in BOOLEAN}
    \cup {Conf(<<0, 0, 0>>, <<0, 0, 0>>, 4, FALSE, FALSE, 0)}

\* Results of two academic engines: a DOI known to both, a page without one.
P(doi, url, engine, score) == [doi |-> doi, url |-> url, engine |-> engine, score |-> score]
PapersOf(e, n) ==
  LET some == {P(doi, url, e, s) : doi \in {d, nodoi}, url \in {a, b, blank}, s \in {0}}
  IN UNION {[1..k -> some] : k \in 0..n}
OwnScores == {<<P(d, a, 1, 4), P(nodoi, b, 1, 9)>>, <<P(nodoi, c, 1, 9), P(d, b, 1, 4), P(nodoi, a, 1, 0)>>}
MCPaperLists == (PapersOf(1, 2) \cup OwnScores) \X (PapersOf(2, 1) \cup {<<P(nodoi, b, 2, 2), P(d, blank, 2, 1)>>})
=============================================================================
