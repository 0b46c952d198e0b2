--------------------------- MODULE MC_AcademicSearch ---------------------------
EXTENDS AcademicSearch
CONSTANTS r1, r2, e1, e2, other, none, year, p1, p2

Call(kind, range, page, engines, papers) ==
  [kind |-> kind, range |-> range, page |-> page, engines |-> engines, papers |-> papers]

Pairs(S) == [Requests -> S]

\* Two searches, each of all engines or of those it names; a search and a
\* lookup with papers at the gate; lookups of one DOI.
Search(ranges, pages, names, papers) ==
  {Call("words", x, p, n, papers) : x \in ranges, p \in pages, n \in names}
LookUps == {Call(k, none, 1, {}, {p1}) : k \in {"doi", "arxiv"}}

MCCalls ==
  {[r \in Requests |-> IF r = r1 THEN s ELSE t] :
      s \in Search({none}, {1}, {{}, {e1, e2}}, {}),
      t \in Search({none, year}, {1}, {{}, {e1, e2}}, {})}
    \cup {[r \in Requests |-> IF r = r1 THEN s ELSE l] :
            s \in Search({none}, {1}, {{e1}, {other}, {e1, other}}, {p1, p2}),
            l \in LookUps}
    \cup Pairs(LookUps)

\* Searches for either page.
PageCalls == Pairs(Search({none}, {1, 2}, {{}}, {}))

=============================================================================
