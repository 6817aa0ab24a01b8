------------------------------ MODULE NVDIndex ------------------------------
(***************************************************************************)
(* What a search by keyword reads: the posting list of a rare keyword, the *)
(* network Voronoi diagram of a frequent one (loadInfo.h, VoronoiDiagram). *)
(* The diagrams here are exact: every vertex has a nearest POI.            *)
(***************************************************************************)
EXTENDS RoadIndex

CONSTANTS Databases, posting_size_threshold, rau

\* What is known of the constants: POIs and users are on the network.
Loaded == posting_size_threshold \in Nat /\ \A d \in Databases : Placed(d)

VARIABLE nvd   \* keyword -> its diagram: vertex -> POI, POI -> those adjacent

\* f with v for k.
Put(f, k, v) == [x \in DOMAIN f \cup {k} |-> IF x = k THEN v ELSE f[x]]

With(t) == {p \in Pois : t \in db.pKeys[p]}
Frequent(t) == getTermOjectInvListSize(t) > posting_size_threshold
Keywords(u) == db.uKeys[u]

nearestOf(t) ==
  [v \in Vertices |-> CHOOSE p \in With(t) : \A q \in With(t) : PoiDist(v, p) <= PoiDist(v, q)]

\* The ends of the road that p is on.
Ends(p) == {db.pAt[p], db.pTo[p]}

\* A POI that has a cell has an end of its own road in it, as the construction
\* from the POIs outwards gives.
CellsAtHome ==
  \A t \in Terms : Frequent(t) =>
    \A v \in Vertices : LET p == nearestOf(t)[v] IN \E x \in Ends(p) : nearestOf(t)[x] = p

\* Cells that meet, and POIs without a cell with the cells at the ends of their road.
adjacencyOf(t, near) ==
  LET cell == [p \in With(t) |-> {v \in Vertices : near[v] = p}]
      Meet(p, q) == \E v \in cell[p], w \in cell[q] : {v, w} \in Edges
      Linked(p, q) == cell[p] = {} /\ q \in {near[x] : x \in Ends(p)}
  IN  [p \in With(t) |-> {q \in With(t) : p # q /\ (Meet(p, q) \/ Linked(p, q) \/ Linked(q, p))}]

Diagrams ==
  [t \in {x \in Terms : Frequent(x)} |->
     [near |-> nearestOf(t), adj |-> adjacencyOf(t, nearestOf(t))]]

\* What is loaded before a search: the scores are there to compare with.
Prepared ==
  /\ db \in Databases
  /\ score = [topk |-> [u \in Users |-> TopkScore(u)]]
  /\ nvd = Diagrams

getPOIAdj(p, t) == nvd[t].adj[p]

\* The POIs in the leaf over v, and those of its borders; in a leaf that has
\* many, that of v alone.
getNNPOIs(v, t) ==
  LET leaf == LeafOf[v]
      list == {p \in With(t) : LeafOf[db.pAt[p]] = leaf} \cup {nvd[t].near[b] : b \in Borders[leaf]}
  IN  IF Cardinality(list) <= rau THEN list ELSE {nvd[t].near[v]}
=============================================================================
