----------------------------- MODULE GraphStore -----------------------------
(***************************************************************************)
(* What the write side promises its statements: one property graph, which  *)
(* every committed statement moves by exactly what the statement says.     *)
(* There is one node table with one column and some labels, and one rel    *)
(* table with one column, a pair of rows running through it at most once   *)
(* (a table that stores edge properties refuses the second copy).          *)
(***************************************************************************)
EXTENDS Integers, Sequences

CONSTANTS Value, Label, Null

VARIABLE db  \* [cells, marks, gone, edges]: see Live and Touching

Last(s) == s[Len(s)]
Cell == Value \cup {Null}

\* The rows of a graph, and the edges with an end in the set of rows.
Live(g) == 1..Len(g.cells) \ g.gone
Touching(g, rows) == {p \in DOMAIN g.edges : p[1] \in rows \/ p[2] \in rows}

Without(g, pairs) == [g EXCEPT !.edges = [p \in DOMAIN @ \ pairs |-> @[p]]]
With(g, pair, v) ==
  [g EXCEPT !.edges = [p \in DOMAIN @ \cup {pair} |-> IF p = pair THEN v ELSE @[p]]]
Grown(g, v) == [g EXCEPT !.cells = Append(@, v), !.marks = Append(@, {})]

\* Each statement relates the graph g before it to the graph h after it; the value
\* it wrote is the one h holds there.

\* INSERT (:N {c: v})
InsertNode(g, h) == Last(h.cells) \in Cell /\ h = Grown(g, Last(h.cells))

\* MATCH (a) INSERT (a)-[:R {c: w}]->(:N {c: v})
InsertPath(g, h) ==
  \E p \in DOMAIN h.edges \ DOMAIN g.edges :
    /\ p[1] \in Live(g) /\ p[2] = Len(g.cells) + 1
    /\ {Last(h.cells), h.edges[p]} \subseteq Cell
    /\ h = With(Grown(g, Last(h.cells)), p, h.edges[p])

\* MATCH (a), (b) INSERT (a)-[:R {c: v}]->(b), over a pair nothing runs through
InsertEdge(g, h) ==
  \E p \in DOMAIN h.edges \ DOMAIN g.edges :
    /\ {p[1], p[2]} \subseteq Live(g)
    /\ h.edges[p] \in Cell
    /\ h = With(g, p, h.edges[p])

\* MATCH (a) SET a.c = v, and with nothing for v REMOVE a.c
SetNode(g, h) ==
  \E a \in Live(g) : h.cells[a] \in Cell /\ h = [g EXCEPT !.cells[a] = h.cells[a]]

\* MATCH ()-[e:R]->() SET e.c = v
SetEdge(g, h) ==
  \E p \in DOMAIN g.edges \cap DOMAIN h.edges :
    h.edges[p] \in Cell /\ h = [g EXCEPT !.edges[p] = h.edges[p]]

\* MATCH ()-[e:R]->() DELETE e
DeleteEdge(g, h) == \E p \in DOMAIN g.edges : h = Without(g, {p})

\* MATCH (a) DETACH DELETE a
DetachDelete(g, h) ==
  \E a \in Live(g) : h = [Without(g, Touching(g, {a})) EXCEPT !.gone = @ \cup {a}]

\* MATCH (a) SET a:L, and REMOVE a:L
SetLabel(g, h) ==
  \E a \in Live(g), l \in Label : \/ h = [g EXCEPT !.marks[a] = @ \cup {l}]
                                 \/ h = [g EXCEPT !.marks[a] = @ \ {l}]

\* A statement takes the graph g to the graph h, and only an INSERT adds a row.
Statement(g, h) ==
  IF Len(h.cells) > Len(g.cells)
  THEN InsertNode(g, h) \/ InsertPath(g, h)
  ELSE \/ InsertEdge(g, h) \/ SetNode(g, h) \/ SetEdge(g, h)
       \/ SetLabel(g, h) \/ DeleteEdge(g, h) \/ DetachDelete(g, h)

\* What a load leaves: a word of labels for every row, and no edge on a row that
\* is gone.
Init == Len(db.marks) = Len(db.cells) /\ Touching(db, db.gone) = {}

Next == Statement(db, db')

Spec == Init /\ [][Next]_db
=============================================================================
