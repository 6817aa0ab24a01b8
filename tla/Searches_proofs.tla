--------------------------- MODULE Searches_proofs ---------------------------
(***************************************************************************)
(* Proofs about the two searches along the Voronoi diagrams, for every     *)
(* network, every placing of POIs and users and every K: the lower bound   *)
(* of a user is one, computed or kept; the top-k query scores every POI as *)
(* it should and cuts none of the K best off, and where keywords share no  *)
(* POI, no POI on the user's road is missed and no way taken is a detour,  *)
(* it returns the true K-th best score.  At the end, the block cache the   *)
(* index files are read through, for any size of it and of the file.       *)
(***************************************************************************)
EXTENDS CachedBlockFile, TopkQuery, UserLowerBound, RoadIndex_proofs

-----------------------------------------------------------------------------
(* What a search reads.                                                    *)

\* The distance of a POI is a number.
LEMMA PoiDistTypes ==
  ASSUME Placed(db), NEW p \in Pois, NEW v \in Vertices
  PROVE  PoiDist(v, p) \in Nat
<1> DEFINE a == db.pAt[p]  b == db.pTo[p]  j == db.pDis[p]
<1>1. a \in Vertices /\ b \in Vertices /\ j \in Nat /\ j <= Dist[a][b]
  BY DEF Placed
<1>2. Dist[v][a] \in Nat /\ Dist[v][b] \in Nat /\ Dist[a][b] \in Nat
  <2>1. \A k, l \in Vertices : Dist[k][l] \in Nat
    BY RoadAssumption
  <2> HIDE DEF a, b
  <2> QED BY <1>1, <2>1
<1>3. PoiDist(v, p) = Lesser(Dist[v][a] + j, Dist[v][b] + (Dist[a][b] - j))
  BY DEF PoiDist
<1> HIDE DEF a, b, j
<1>4. Dist[v][a] + j \in Nat /\ Dist[v][b] + (Dist[a][b] - j) \in Nat
  BY <1>1, <1>2
<1> QED BY <1>3, <1>4, LesserIs

\* A frequent keyword has a nearest POI to every vertex.
LEMMA NearestExists ==
  ASSUME Loaded, Placed(db), NEW t \in Terms, Frequent(t), NEW v \in Vertices
  PROVE  /\ nearestOf(t)[v] \in With(t)
         /\ \A q \in With(t) : PoiDist(v, nearestOf(t)[v]) <= PoiDist(v, q)
<1> DEFINE away == {PoiDist(v, p) : p \in With(t)}
<1>1. With(t) # {}
  <2> SUFFICES ASSUME With(t) = {} PROVE FALSE
    OBVIOUS
  <2>1. getTermOjectInvListSize(t) = 0
    BY FS_EmptySet DEF getTermOjectInvListSize, With
  <2> QED BY <2>1 DEF Frequent, Loaded
<1>2. away \in SUBSET Nat /\ away # {}
  BY <1>1, PoiDistTypes DEF With
<1>3. PICK m \in away : \A k \in away : m <= k
  <2> HIDE DEF away
  <2> QED BY <1>2, LeastNatural
<1>4. \E p \in With(t) : \A q \in With(t) : PoiDist(v, p) <= PoiDist(v, q)
  BY <1>3
<1> QED BY <1>4 DEF nearestOf

\* What is read for a keyword has the keyword.
LEMMA ReadHasKeyword ==
  ASSUME Loaded, Placed(db), nvd = Diagrams, NEW t \in Terms, Frequent(t)
  PROVE  /\ \A v \in Vertices : getNNPOIs(v, t) \in SUBSET With(t)
         /\ \A p \in With(t) : getPOIAdj(p, t) \in SUBSET With(t)
<1>1. nvd[t] = [near |-> nearestOf(t), adj |-> adjacencyOf(t, nearestOf(t))]
  BY DEF Diagrams
<1>2. ASSUME NEW v \in Vertices
      PROVE  getNNPOIs(v, t) \in SUBSET With(t)
  <2> DEFINE leaf == LeafOf[v]
  <2>1. leaf \in GTree
    <3>1. gtreepath[v] \in Seq(Nat) /\ gtreepath[v] # <<>>
      BY RoadAssumption
    <3>2. Len(gtreepath[v]) \in DOMAIN gtreepath[v]
      BY <3>1
    <3>3. leaf = gtreepath[v][Len(gtreepath[v])]
      BY DEF LeafOf
    <3> QED BY <3>2, <3>3 DEF GTree, ToSet
  <2>2. Borders[leaf] \in SUBSET Vertices
    BY <2>1 DEF Borders, Under
  <2>3. \A b \in Borders[leaf] \cup {v} : nvd[t].near[b] \in With(t)
    BY <1>1, <2>2, NearestExists
  <2> HIDE DEF leaf
  <2> QED BY <2>3 DEF getNNPOIs, leaf
<1>3. ASSUME NEW p \in With(t)
      PROVE  getPOIAdj(p, t) \in SUBSET With(t)
  BY <1>1 DEF getPOIAdj, adjacencyOf
<1> QED BY <1>2, <1>3

\* The K-th best of fewer than K scores is the worst of them.
LEMMA WorstOfFew ==
  ASSUME NEW sc, IsFiniteSet(DOMAIN sc), DOMAIN sc # {}, Cardinality(DOMAIN sc) < K,
         \A p \in DOMAIN sc : sc[p] \in Fractions
  PROVE  /\ \E p \in DOMAIN sc : KthBest(sc) = sc[p]
         /\ \A p \in DOMAIN sc : ~Less(sc[p], KthBest(sc))
<1> DEFINE D == DOMAIN sc
           best == {p \in D : Cardinality({q \in D : Less(sc[p], sc[q])}) < K}
<1>1. best = D
  <2> SUFFICES ASSUME NEW p \in D
               PROVE  Cardinality({q \in D : Less(sc[p], sc[q])}) < K
    OBVIOUS
  <2> DEFINE over == {q \in D : Less(sc[p], sc[q])}
  <2>1. over \in SUBSET D
    OBVIOUS
  <2> HIDE DEF over
  <2>2. Cardinality(over) <= Cardinality(D) /\ Cardinality(over) \in Nat /\ Cardinality(D) \in Nat
    BY <2>1, FS_Subset, FS_CardinalityType
  <2>3. Cardinality(over) < K
    BY <2>2, RoadAssumption
  <2> QED BY <2>3 DEF over
<1>2. \E p \in D : \A q \in D : ~Less(sc[q], sc[p])
  BY WorstAndBest
<1>3. KthBest(sc) = sc[CHOOSE p \in best : \A q \in best : ~Less(sc[q], sc[p])]
  BY DEF KthBest
<1> HIDE DEF best
<1> QED BY <1>1, <1>2, <1>3

\* Scores neither of which is less are the same.
LEMMA SameOrLess ==
  ASSUME NEW x \in Fractions, NEW y \in Fractions, ~Less(x, y), ~Less(y, x)
  PROVE  Same(x, y)
<1> x[1] * y[2] \in Nat /\ y[1] * x[2] \in Nat
  BY DEF Fractions
<1> QED BY DEF Less, Same

-----------------------------------------------------------------------------
(* The frontier of a heap that grows along the diagram.                    *)

\* On the way to an end of the road of a POI that is not among those near v, a
\* vertex is nearest to one that is.
LEMMA NearOnWay ==
  ASSUME Loaded, ShortestPaths, OneTree, Placed(db), nvd = Diagrams, NEW t \in Terms, Frequent(t),
         NEW v \in Vertices, NEW p \in With(t), p \notin getNNPOIs(v, t), NEW y \in Ends(p)
  PROVE  \E x \in OnWay(v, y) : nearestOf(t)[x] \in getNNPOIs(v, t)
<1> DEFINE leaf == LeafOf[v]
           list == {q \in With(t) : LeafOf[db.pAt[q]] = leaf} \cup {nvd[t].near[b] : b \in Borders[leaf]}
<1>1. /\ y \in Vertices /\ db.pAt[p] \in Vertices /\ nvd[t].near = nearestOf(t)
      /\ y = db.pAt[p] \/ {y, db.pAt[p]} \in Edges
  BY DEF Placed, With, Diagrams, Ends
<1>2. \A w \in Vertices : Dist[w][w] = 0 /\ Dist[v][w] \in Nat
  BY RoadAssumption DEF ShortestPaths
<1>3. v \in OnWay(v, y) /\ y \in OnWay(v, y)
  BY <1>1, <1>2 DEF OnWay
<1>4. getNNPOIs(v, t) = IF Cardinality(list) <= rau THEN list ELSE {nearestOf(t)[v]}
  BY <1>1 DEF getNNPOIs
<1>5. CASE getNNPOIs(v, t) = {nearestOf(t)[v]}
  BY <1>3, <1>5
<1>6. CASE getNNPOIs(v, t) = list
  <2>1. leaf \in GTree /\ isleaf(leaf)
    BY EveryPath DEF isleaf
  <2>2. v \in Under[leaf]
    BY <2>1, UnderLeaf
  <2>3. db.pAt[p] \notin Under[leaf]
    <3>1. LeafOf[db.pAt[p]] # leaf
      BY <1>6
    <3> QED BY <1>1, <2>1, <3>1, UnderLeaf
  <2>4. PICK b \in Borders[leaf] : b \in OnWay(v, y)
    <3>1. CASE y \in Under[leaf]
      <4>1. y \in Borders[leaf]
        <5>1. {y, db.pAt[p]} \in Edges
          BY <1>1, <2>3, <3>1
        <5> HIDE DEF leaf
        <5> QED BY <1>1, <2>1, <2>3, <3>1, <5>1 DEF Borders
      <4> QED BY <1>3, <4>1
    <3>2. CASE y \notin Under[leaf]
      <4> HIDE DEF leaf
      <4> QED BY <1>1, <2>1, <2>2, <3>2, BorderOnWay
    <3> QED BY <3>1, <3>2
  <2>5. nvd[t].near[b] \in list
    OBVIOUS
  <2> QED BY <1>1, <1>6, <2>4, <2>5
<1> QED BY <1>4, <1>5, <1>6

\* A vertex is no farther from a user than by another vertex.
LEMMA UserBetween ==
  ASSUME ShortestPaths, Placed(db), NEW u \in Users, Pois # {}, NEW v \in Vertices, NEW w \in Vertices
  PROVE  UserDist(v, u) <= UserDist(w, u) + Dist[w][v]
<1> DEFINE a == db.uAt[u]  b == db.uTo[u]  ud == db.uDis[u]  rest == Dist[a][b] - ud
<1>1. a \in Vertices /\ b \in Vertices /\ ud \in Nat /\ rest \in Nat
  BY Places
<1>2. /\ Dist[v][a] <= Dist[v][w] + Dist[w][a] /\ Dist[v][b] <= Dist[v][w] + Dist[w][b]
      /\ Dist[v][w] = Dist[w][v]
  BY <1>1, RoadAssumption DEF ShortestPaths
<1>3. /\ Dist[v][a] \in Nat /\ Dist[v][b] \in Nat /\ Dist[w][a] \in Nat /\ Dist[w][b] \in Nat
      /\ Dist[w][v] \in Nat
  <2>1. \A k, l \in Vertices : Dist[k][l] \in Nat
    BY RoadAssumption
  <2> HIDE DEF a, b
  <2> QED BY <1>1, <2>1
<1>4. /\ UserDist(v, u) \in Nat /\ UserDist(w, u) \in Nat
      /\ UserDist(v, u) <= Dist[v][a] + ud /\ UserDist(v, u) <= Dist[v][b] + rest
      /\ UserDist(w, u) = Dist[w][a] + ud \/ UserDist(w, u) = Dist[w][b] + rest
  BY Ways
<1> HIDE DEF a, b, ud, rest
<1> QED BY <1>1, <1>2, <1>3, <1>4

\* Where no way by the start of both roads is a detour, a way by any vertex is
\* no shorter than the distance.
LEMMA AtMostBy ==
  ASSUME ShortestPaths, Placed(db), NEW u \in Users, NEW p \in Pois, NEW b \in Vertices,
         db.pAt[p] = db.uAt[u] /\ db.pTo[p] # db.uTo[u] =>
           usrToPOIDistance(u, p) <= UserDist(db.pTo[p], u) + (Dist[db.pAt[p]][db.pTo[p]] - db.pDis[p])
  PROVE  usrToPOIDistance(u, p) <= UserDist(b, u) + PoiDist(b, p)
<1> DEFINE x == db.uAt[u]  w == db.uTo[u]  y == db.pAt[p]  z == db.pTo[p]
           ud == db.uDis[u]  pd == db.pDis[p]
           rest == Dist[x][w] - ud  left == Dist[y][z] - pd
<1>1. /\ x \in Vertices /\ w \in Vertices /\ y \in Vertices /\ z \in Vertices
      /\ ud \in Nat /\ pd \in Nat /\ rest \in Nat /\ left \in Nat
  BY Places
<1>2. \A k, l \in Vertices : Dist[k][l] \in Nat
  BY RoadAssumption
<1>3. /\ \A v \in Vertices : UserDist(v, u) \in Nat
      /\ UserDist(b, u) = Dist[b][x] + ud \/ UserDist(b, u) = Dist[b][w] + rest
      /\ PoiDist(b, p) = Dist[b][y] + pd \/ PoiDist(b, p) = Dist[b][z] + left
      /\ usrToPOIDistance(u, p) \in Nat
  BY Ways, DistancesAre
<1>4. CASE PoiDist(b, p) = Dist[b][y] + pd
  <2>1. usrToPOIDistance(u, p) <= UserDist(b, u) + UpperDist(b, p)
    BY AtMostThrough
  <2>2. UpperDist(b, p) = Dist[b][y] + pd
    BY DEF UpperDist
  <2> QED BY <1>4, <2>1, <2>2
<1>5. CASE PoiDist(b, p) = Dist[b][z] + left
  <2>1. CASE x = y /\ w = z
    <3>1. \/ ud > pd /\ usrToPOIDistance(u, p) = ud - pd
          \/ ~(ud > pd) /\ usrToPOIDistance(u, p) = pd - ud
      BY <2>1 DEF usrToPOIDistance
    <3>2. Dist[x][w] <= Dist[b][x] + Dist[b][w]
      BY <1>1, RoadAssumption DEF ShortestPaths
    <3>3. Dist[b][x] \in Nat /\ Dist[b][w] \in Nat /\ Dist[x][w] \in Nat
      BY <1>1, <1>2
    <3>4. Dist[x][w] = ud + rest /\ Dist[x][w] = pd + left
      <4>1. Dist[x][w] = Dist[y][z]
        BY <2>1
      <4> HIDE DEF x, w, y, z, ud, pd
      <4> QED BY <1>1, <3>3, <4>1
    <3>5. PoiDist(b, p) = Dist[b][w] + left
      BY <1>5, <2>1
    <3> HIDE DEF x, w, y, z, ud, pd, rest, left
    <3> QED BY <1>1, <1>3, <3>1, <3>2, <3>3, <3>4, <3>5
  <2>2. CASE ~(x = y /\ w = z)
    <3>1. usrToPOIDistance(u, p) <= UserDist(z, u) + left
      <4>1. CASE x = y
        BY <2>2, <4>1
      <4>2. CASE x # y
        <5>1. usrToPOIDistance(u, p) = Lesser(UserDist(y, u) + pd, UserDist(z, u) + left)
          BY <4>2 DEF usrToPOIDistance
        <5>2. UserDist(y, u) + pd \in Nat /\ UserDist(z, u) + left \in Nat
          <6>1. UserDist(y, u) \in Nat /\ UserDist(z, u) \in Nat
            BY <1>1, <1>3
          <6> HIDE DEF pd, left, y, z
          <6> QED BY <1>1, <6>1
        <5> HIDE DEF pd, left, y, z
        <5> QED BY <5>1, <5>2, LesserIs
      <4> QED BY <4>1, <4>2
    <3>2. UserDist(z, u) <= UserDist(b, u) + Dist[b][z]
      BY <1>1, UserBetween
    <3>3. UserDist(z, u) \in Nat /\ UserDist(b, u) \in Nat /\ Dist[b][z] \in Nat
      BY <1>1, <1>2, <1>3
    <3> HIDE DEF z, left
    <3> QED BY <1>1, <1>3, <1>5, <3>1, <3>2, <3>3
  <2> QED BY <2>1, <2>2
<1> QED BY <1>3, <1>4, <1>5

\* The distance of a POI on another road is the way by an end of each road.
LEMMA AwayByEnds ==
  ASSUME ShortestPaths, Placed(db), NEW u \in Users, NEW p \in Pois,
         ~(db.pAt[p] = db.uAt[u] /\ db.pTo[p] = db.uTo[u])
  PROVE  \E x \in {db.uAt[u], db.uTo[u]}, y \in Ends(p) : \E ud, pd \in Nat :
           /\ usrToPOIDistance(u, p) = Dist[x][y] + ud + pd
           /\ \A v \in Vertices : UserDist(v, u) <= Dist[v][x] + ud /\ PoiDist(v, p) <= Dist[v][y] + pd
<1>1. CASE db.uAt[u] # db.pAt[p]
  <2>1. Ends(p) = {db.pAt[p], db.pTo[p]}
    BY DEF Ends
  <2> QED BY <1>1, <2>1, ByTheEnds
<1>2. CASE db.uAt[u] = db.pAt[p]
  <2> DEFINE x == db.uAt[u]  ud == db.uDis[u]  pd == db.pDis[p]
  <2>1. x \in Vertices /\ ud \in Nat /\ pd \in Nat
    BY Places
  <2>2. Dist[x][x] = 0
    BY <2>1 DEF ShortestPaths
  <2>3. usrToPOIDistance(u, p) = ud + pd
    BY <1>2 DEF usrToPOIDistance
  <2>4. usrToPOIDistance(u, p) = Dist[x][x] + ud + pd
    <3> HIDE DEF x, ud, pd
    <3> QED BY <2>1, <2>2, <2>3
  <2>5. \A v \in Vertices : UserDist(v, u) <= Dist[v][x] + ud /\ PoiDist(v, p) <= Dist[v][x] + pd
    BY <1>2, Ways
  <2>6. x \in {db.uAt[u], db.uTo[u]} /\ x \in Ends(p)
    BY <1>2 DEF Ends
  <2> HIDE DEF x, ud, pd
  <2> QED BY <2>1, <2>4, <2>5, <2>6
<1> QED BY <1>1, <1>2

\* A set of POIs with t, of which some are in the heap and the others have all
\* that are adjacent in the set too: for every POI outside, one in the heap is
\* at least as near.
LEMMA FrontierIsNear ==
  ASSUME Loaded, ShortestPaths, OneTree, CellsAtHome, OwnRoadListed, Straight,
         Placed(db), nvd = Diagrams, user \in Users, NEW t \in Keywords(user), t \in Terms, Frequent(t),
         NEW A, NEW H, getNNPOIs(db.uAt[user], t) \cup getNNPOIs(db.uTo[user], t) \subseteq A,
         \A q \in (With(t) \cap A) \ H : getPOIAdj(q, t) \subseteq A,
         NEW p \in With(t) \ A
  PROVE  \E q \in H \cap With(t) : dist(q) <= dist(p)
<1> DEFINE near == nearestOf(t)
           cell == [q \in With(t) |-> {w \in Vertices : near[w] = q}]
           Meet(r, o) == \E a \in cell[r], b \in cell[o] : {a, b} \in Edges
<1>1. /\ \A a, b \in Vertices : Dist[a][b] \in Nat
      /\ \A q \in With(t) : q \in Pois /\ dist(q) \in Nat
  BY RoadAssumption, DistancesAre DEF With, dist
<1>2. \A x \in Vertices : /\ near[x] \in With(t)
                         /\ \A q \in With(t) : PoiDist(x, near[x]) <= PoiDist(x, q)
  BY NearestExists
<1>3. PICK v \in {db.uAt[user], db.uTo[user]}, z \in Ends(p) : \E ud, pd \in Nat :
        /\ dist(p) = Dist[v][z] + ud + pd
        /\ \A w \in Vertices : UserDist(w, user) <= Dist[w][v] + ud /\ PoiDist(w, p) <= Dist[w][z] + pd
  <2>1. ~(db.pAt[p] = db.uAt[user] /\ db.pTo[p] = db.uTo[user])
    BY DEF OwnRoadListed
  <2> QED BY <1>1, <2>1, AwayByEnds DEF dist
<1>4. PICK ud, pd \in Nat :
        /\ dist(p) = Dist[v][z] + ud + pd
        /\ \A w \in Vertices : UserDist(w, user) <= Dist[w][v] + ud /\ PoiDist(w, p) <= Dist[w][z] + pd
  BY <1>3
<1>5. v \in Vertices /\ z \in Vertices
  BY <1>1, Places DEF Ends
<1> DEFINE Good == {x \in OnWay(v, z) : near[x] \in A}
           away == {Dist[x][z] : x \in Good}
<1>6. \A x \in OnWay(v, z) : x \in Vertices /\ Dist[v][x] + Dist[x][z] = Dist[v][z]
  BY DEF OnWay
<1>7. Good # {}
  <2>1. getNNPOIs(v, t) \subseteq A
    OBVIOUS
  <2> QED BY <1>5, <2>1, NearOnWay
<1>8. PICK x \in Good : \A y \in Good : Dist[x][z] <= Dist[y][z]
  <2>1. away \in SUBSET Nat /\ away # {}
    <3> HIDE DEF near
    <3> QED BY <1>1, <1>5, <1>6, <1>7
  <2>2. PICK m \in away : \A k \in away : m <= k
    <3> HIDE DEF away
    <3> QED BY <2>1, LeastNatural
  <2>3. PICK x \in Good : m = Dist[x][z]
    OBVIOUS
  <2>4. \A y \in Good : Dist[x][z] <= Dist[y][z]
    BY <2>2, <2>3
  <2> QED BY <2>4
<1> DEFINE q == near[x]
<1>9. x \in Vertices /\ x \in OnWay(v, z) /\ q \in With(t) /\ q \in A /\ q # p
  BY <1>2, <1>6
<1>10. dist(q) <= dist(p)
  <2>1. dist(q) <= UserDist(x, user) + PoiDist(x, q)
    <3>1. q \in Pois
      BY <1>1, <1>9
    <3>2. db.pAt[q] = db.uAt[user] /\ db.pTo[q] # db.uTo[user] =>
            dist(q) <= UserDist(db.pTo[q], user) + (Dist[db.pAt[q]][db.pTo[q]] - db.pDis[q])
      <4> HIDE DEF q
      <4> QED BY <1>9 DEF Straight
    <3> HIDE DEF q
    <3> QED BY <1>9, <3>1, <3>2, AtMostBy DEF dist
  <2>2. PoiDist(x, q) <= PoiDist(x, p) /\ p \in Pois /\ q \in Pois
    BY <1>1, <1>2, <1>9
  <2> HIDE DEF q, near
  <2>3. UserDist(x, user) \in Nat /\ PoiDist(x, q) \in Nat /\ PoiDist(x, p) \in Nat
    BY <1>9, <2>2, Ways
  <2>4. UserDist(x, user) <= Dist[v][x] + ud /\ PoiDist(x, p) <= Dist[x][z] + pd
    BY <1>4, <1>5, <1>9, RoadAssumption
  <2>5. /\ Dist[v][x] \in Nat /\ Dist[x][z] \in Nat /\ Dist[v][z] = Dist[v][x] + Dist[x][z]
        /\ dist(p) = Dist[v][z] + ud + pd /\ dist(q) \in Nat
    BY <1>1, <1>4, <1>5, <1>6, <1>9
  <2> QED BY <2>1, <2>2, <2>3, <2>4, <2>5
<1>11. ASSUME q \notin H
      PROVE  FALSE
  <2>1. getPOIAdj(q, t) \subseteq A
    BY <1>9, <1>11
  <2>2. \A r \in With(t) : r # q /\ (Meet(q, r) \/ (cell[r] = {} /\ q \in {near[e] : e \in Ends(r)}))
                           => r \in getPOIAdj(q, t)
    <3>1. nvd[t].adj = adjacencyOf(t, near)
      BY DEF Diagrams
    <3>2. getPOIAdj(q, t) = nvd[t].adj[q]
      BY DEF getPOIAdj
    <3> HIDE DEF near, q
    <3>3. adjacencyOf(t, near)[q] =
            {r \in With(t) : /\ q # r
                             /\ \/ Meet(q, r)
                                \/ cell[q] = {} /\ r \in {near[e] : e \in Ends(q)}
                                \/ cell[r] = {} /\ q \in {near[e] : e \in Ends(r)}}
      BY <1>9 DEF adjacencyOf
    <3> HIDE DEF cell, Meet
    <3>4. getPOIAdj(q, t) =
            {r \in With(t) : /\ q # r
                             /\ \/ Meet(q, r)
                                \/ cell[q] = {} /\ r \in {near[e] : e \in Ends(q)}
                                \/ cell[r] = {} /\ q \in {near[e] : e \in Ends(r)}}
      BY <3>1, <3>2, <3>3
    <3> QED BY <3>4
  <2>3. CASE x = z
    <3>1. CASE cell[p] = {}
      <4>1. q \in {near[e] : e \in Ends(p)}
        BY <2>3
      <4> HIDE DEF cell, Meet
      <4> QED BY <1>9, <2>1, <2>2, <3>1, <4>1
    <3>2. CASE cell[p] # {}
      <4>1. PICK y \in Ends(p) : near[y] = p
        <5>1. PICK w \in Vertices : near[w] = p
          BY <3>2
        <5> QED BY <5>1 DEF CellsAtHome
      <4>2. y \in Vertices /\ y # z /\ {x, y} \in Edges
        <5>1. y # z
          BY <1>9, <2>3, <4>1
        <5>2. {db.pAt[p], db.pTo[p]} \in Edges /\ y \in Vertices
          BY <1>1, <4>1, Places DEF Ends
        <5>3. {x, y} = {db.pAt[p], db.pTo[p]}
          BY <2>3, <5>1 DEF Ends
        <5> QED BY <5>1, <5>2, <5>3
      <4>3. x \in cell[q] /\ y \in cell[p]
        BY <1>9, <4>1, <4>2
      <4> HIDE DEF cell, q, near
      <4>4. Meet(q, p)
        BY <4>2, <4>3
      <4> HIDE DEF Meet
      <4> QED BY <1>9, <2>1, <2>2, <4>4
    <3> QED BY <3>1, <3>2
  <2>4. CASE x # z
    <3>1. PICK y \in OnWay(v, z) : {x, y} \in Edges /\ Dist[y][z] < Dist[x][z]
      BY <1>5, <1>9, <2>4, NextOnWay
    <3>2. near[y] \in With(t) /\ y \in Vertices
      BY <1>2, <1>6
    <3>3. y \notin Good
      <4> HIDE DEF Good
      <4> QED BY <1>1, <1>5, <1>8, <1>9, <3>1, <3>2
    <3>4. near[y] \notin A /\ near[y] # q
      BY <1>9, <3>3
    <3>5. x \in cell[q] /\ y \in cell[near[y]]
      BY <1>9, <3>2
    <3> HIDE DEF cell, q, near
    <3>6. Meet(q, near[y])
      BY <3>1, <3>5
    <3> HIDE DEF Meet
    <3>7. near[y] \in getPOIAdj(q, t)
      BY <2>2, <3>2, <3>4, <3>6
    <3> QED BY <2>1, <3>4, <3>7
  <2> QED BY <2>3, <2>4
<1> QED BY <1>9, <1>10, <1>11

-----------------------------------------------------------------------------
(* The K best POIs so far.                                                 *)

\* Entries <<POI, score>>, not more than K, each with the POI's own score.
Ranking(R) ==
  /\ IsFiniteSet(R) /\ Cardinality(R) <= K
  /\ \A e \in R : /\ e[1] \in RelatedPois(user) /\ e = <<e[1], GSKScore(user, e[1])>>
                  /\ e[2] \in Fractions

\* As many POIs as entries are ranked.
LEMMA RankedPois ==
  ASSUME NEW R, Ranking(R)
  PROVE  /\ IsFiniteSet({e[1] : e \in R})
         /\ Cardinality({e[1] : e \in R}) = Cardinality(R)
<1> DEFINE S == {e[1] : e \in R}
           f == [e \in R |-> e[1]]
<1>1. f \in Bijection(R, S)
  <2>1. \A e, g \in R : e[1] = g[1] => e = g
    <3>1. \A e \in R : e = <<e[1], GSKScore(user, e[1])>>
      BY DEF Ranking
    <3> QED BY <3>1
  <2>2. f \in [R -> S]
    OBVIOUS
  <2>3. \A s \in S : \E e \in R : f[e] = s
    OBVIOUS
  <2>4. IsInjective(f)
    BY <2>1 DEF IsInjective
  <2> HIDE DEF f, S
  <2> QED BY <2>2, <2>3, <2>4 DEF Bijection, Injection, Surjection
<1> HIDE DEF S, f
<1>2. IsFiniteSet(S) /\ Cardinality(S) = Cardinality(R)
  BY <1>1, FS_Bijection DEF Ranking, ExistsBijection
<1> QED BY <1>2 DEF S

\* The worst of a ranking is in it, and nothing in it is worse.
LEMMA WorstIsWorst ==
  ASSUME NEW R, Ranking(R), R # {}
  PROVE  Worst(R) \in R /\ \A f \in R : ~Less(f[2], Worst(R)[2])
<1> DEFINE sc == [e \in R |-> e[2]]
<1>1. IsFiniteSet(R) /\ \A e \in R : sc[e] \in Fractions
  BY DEF Ranking
<1>2. \E e \in R : \A f \in R : ~Less(sc[f], sc[e])
  <2> HIDE DEF sc
  <2> QED BY <1>1, WorstAndBest
<1> QED BY <1>2 DEF Worst

\* What is left out of a ranking with K entries is no better than any.
Kept(R, p) ==
  \/ \E e \in R : e[1] = p
  \/ Cardinality(R) = K /\ \A e \in R : ~Less(e[2], GSKScore(user, p))

\* A POI that is new to the ranking enters or is kept out as it should, no
\* score in the ranking falls, and nothing that is left out belongs in it.
LEMMA InsertRanks ==
  ASSUME Placed(db), user \in Users, NEW R, Ranking(R),
         NEW p \in RelatedPois(user), \A e \in R : e[1] # p
  PROVE  LET S == Insert(R, <<p, GSKScore(user, p)>>)
         IN  /\ Ranking(S) /\ \A e \in S : e \in R \/ e[1] = p
             /\ Kept(S, p) /\ \A q \in Pois : Kept(R, q) => Kept(S, q)
             /\ Cardinality(R) = K => Cardinality(S) = K
             /\ \A x \in Fractions : Cardinality(R) = K /\ (\A e \in R : ~Less(e[2], x))
                                      => \A e \in S : ~Less(e[2], x)
             /\ Cardinality(R) < K => S # {}
<1> DEFINE s == GSKScore(user, p)
           e0 == <<p, s>>
           S == Insert(R, e0)
           w == Worst(R)
<1>1. K \in Nat \ {0} /\ p \in Pois /\ s \in Fractions
  <2>1. p \in Pois
    BY DEF RelatedPois
  <2> QED BY <2>1, RoadAssumption, ScoreTypes
<1>2. IsFiniteSet(R) /\ Cardinality(R) \in Nat /\ Cardinality(R) <= K /\ e0 \notin R
  BY FS_CardinalityType DEF Ranking
<1>3. \A e \in R : e[1] \in RelatedPois(user) /\ e = <<e[1], GSKScore(user, e[1])>> /\ e[2] \in Fractions
  BY DEF Ranking
<1>4. \A q \in Pois : GSKScore(user, q) \in Fractions
  BY ScoreTypes
<1>5. CASE Cardinality(R) < K
  <2>1. S = R \cup {e0}
    BY <1>5 DEF Insert, Better
  <2>2. IsFiniteSet(S) /\ Cardinality(S) = Cardinality(R) + 1
    BY <1>2, <2>1, FS_AddElement
  <2> HIDE DEF s
  <2>3. Ranking(S)
    BY <1>1, <1>2, <1>3, <1>5, <2>1, <2>2 DEF Ranking, s
  <2>4. \A q \in Pois : Kept(R, q) => Kept(S, q)
    BY <1>2, <1>5, <2>1 DEF Kept
  <2>5. Kept(S, p)
    BY <2>1 DEF Kept
  <2> QED BY <1>2, <1>5, <2>1, <2>3, <2>4, <2>5 DEF s
<1>6. CASE ~(Cardinality(R) < K)
  <2>1. Cardinality(R) = K /\ R # {}
    BY <1>1, <1>2, <1>6, FS_EmptySet
  <2>2. w \in R /\ \A f \in R : ~Less(f[2], w[2])
    BY <2>1, WorstIsWorst
  <2>3. CASE ~Less(w[2], s)
    <3>1. S = R
      BY <1>6, <2>3 DEF Insert, Better
    <3>2. ASSUME NEW e \in R
          PROVE  ~Less(e[2], s)
      <4> HIDE DEF s, w
      <4> QED BY <1>1, <1>3, <2>2, <2>3, LessTransitive
    <3>3. Kept(S, p)
      BY <2>1, <3>1, <3>2 DEF Kept
    <3> QED BY <2>1, <3>1, <3>3
  <2>4. CASE Less(w[2], s)
    <3>1. S = (R \ {w}) \cup {e0}
      BY <1>6, <2>4 DEF Insert, Better
    <3> HIDE DEF s, w
    <3>2. IsFiniteSet(S) /\ Cardinality(S) = K
      <4>1. IsFiniteSet(R \ {w}) /\ Cardinality(R \ {w}) = Cardinality(R) - 1
        BY <1>2, <2>2, FS_RemoveElement
      <4>2. e0 \notin R \ {w}
        BY <1>2
      <4>3. IsFiniteSet((R \ {w}) \cup {e0}) /\ Cardinality((R \ {w}) \cup {e0}) = Cardinality(R \ {w}) + 1
        BY <4>1, <4>2, FS_AddElement
      <4> HIDE DEF S, e0
      <4> QED BY <1>1, <2>1, <3>1, <4>1, <4>3
    <3>3. \A e \in S : e \in R \/ e = e0
      BY <3>1
    <3>4. Ranking(S)
      <4>1. \A e \in S : e[1] \in RelatedPois(user) /\ e = <<e[1], GSKScore(user, e[1])>> /\ e[2] \in Fractions
        <5> SUFFICES ASSUME NEW e \in S
                     PROVE  e[1] \in RelatedPois(user) /\ e = <<e[1], GSKScore(user, e[1])>> /\ e[2] \in Fractions
          OBVIOUS
        <5>1. CASE e \in R
          BY <1>3, <5>1
        <5>2. CASE e = e0
          BY <1>1, <5>2 DEF s
        <5> QED BY <3>3, <5>1, <5>2
      <4> HIDE DEF S
      <4> QED BY <1>1, <3>2, <4>1 DEF Ranking
    <3>5. ASSUME NEW x \in Fractions, \A e \in R : ~Less(e[2], x)
          PROVE  \A e \in S : ~Less(e[2], x)
      <4>1. ~Less(s, x)
        BY <1>1, <1>3, <2>2, <2>4, <3>5, LessTransitive, LessAsymmetric
      <4> QED BY <3>3, <3>5, <4>1
    <3>6. ASSUME NEW q \in Pois, Kept(R, q)
          PROVE  Kept(S, q)
      <4>1. CASE \A e \in R : ~Less(e[2], GSKScore(user, q))
        <5>1. \A e \in S : ~Less(e[2], GSKScore(user, q))
          BY <1>4, <3>5, <4>1
        <5> QED BY <3>2, <5>1 DEF Kept
      <4>2. CASE \E e \in R : e[1] = q
        <5>1. PICK e \in R : e[1] = q
          BY <4>2
        <5>2. CASE e \in S
          BY <5>1, <5>2 DEF Kept
        <5>3. CASE e \notin S
          <6>1. e = w
            BY <3>1, <5>3
          <6>2. GSKScore(user, q) = w[2]
            BY <1>3, <5>1, <6>1
          <6>3. \A f \in R : ~Less(f[2], GSKScore(user, q))
            BY <2>2, <6>2
          <6>4. \A f \in S : ~Less(f[2], GSKScore(user, q))
            BY <1>4, <3>5, <6>3
          <6> QED BY <3>2, <6>4 DEF Kept
        <5> QED BY <5>2, <5>3
      <4> QED BY <3>6, <4>1, <4>2 DEF Kept
    <3>7. Kept(S, p)
      BY <3>1 DEF Kept
    <3>8. \A e \in S : e \in R \/ e[1] = p
      BY <3>3
    <3> HIDE DEF S
    <3> QED BY <1>6, <3>2, <3>4, <3>5, <3>6, <3>7, <3>8 DEF S, s
  <2> QED BY <2>3, <2>4
<1> QED BY <1>5, <1>6

-----------------------------------------------------------------------------
(* The top-k query: what holds of every call.                              *)

\* What is read does not change, and the answer looked for is the true one.
DataLoaded ==
  /\ Loaded /\ Placed(db) /\ nvd = Diagrams /\ user \in Users
  /\ score.topk[user] = TopkScore(user)

\* A call goes from check-ins to filling to polling.
Control ==
  /\ pc \in {"social", "fill", "poll", "return", "done"}
  /\ filled \subseteq Keywords(user) /\ DOMAIN H_list = filled /\ DOMAIN Queue \subseteq filled
  /\ IF pc = "social" THEN filled = {} /\ score_rk = Below ELSE CheckIns \subseteq poiMark
  /\ pc \in {"poll", "return", "done"} => filled = Keywords(user) /\ filled # {}
  /\ pc = "fill" => DOMAIN Queue = filled

\* What is in a heap has its keyword.
HeapsHold == \A t \in filled : H_list[t] \subseteq With(t) \cap poiADJMark

\* The results are marked POIs with their own scores.
ResultsRank ==
  /\ poiMark \subseteq Pois /\ Ranking(resultFinal)
  /\ \A e \in resultFinal : e[1] \in poiMark

\* The score to beat is one that K POIs have reached.
Reached(R, s) ==
  \/ s = Below
  \/ s \in Fractions /\ Cardinality(R) = K /\ \A e \in R : ~Less(e[2], s)

Inv == DataLoaded /\ Control /\ HeapsHold /\ ResultsRank /\ Reached(resultFinal, score_rk)

\* What does not change while the query runs.
LEMMA SameData ==
  ASSUME UNCHANGED dataVars
  PROVE  /\ db' = db /\ nvd' = nvd /\ user' = user /\ score' = score
         /\ DataLoaded => DataLoaded'
         /\ Keywords(user)' = Keywords(user) /\ CheckIns' = CheckIns
         /\ RelatedPois(user)' = RelatedPois(user)
         /\ \A t : With(t)' = With(t)
         /\ \A p : GSKScore(user, p)' = GSKScore(user, p)
         /\ \A R : Ranking(R)' = Ranking(R)
         /\ \A R, p : Kept(R, p)' = Kept(R, p)
<1>1. db' = db /\ nvd' = nvd /\ user' = user /\ score' = score
  BY DEF dataVars
<1>2. ASSUME DataLoaded
      PROVE  DataLoaded'
  <2>1. TopkScore(user)' = TopkScore(user)
    BY <1>1 DEF TopkScore, KthBest, RelatedPois, GSKScore, Shared, usrToPOIDistance, UserDist
  <2>2. Diagrams' = Diagrams
    BY <1>1 DEF Diagrams, Frequent, getTermOjectInvListSize, nearestOf, adjacencyOf, With, PoiDist, Ends
  <2>3. Placed(db)' /\ Loaded'
    BY <1>1, <1>2 DEF DataLoaded, Placed, Loaded
  <2> QED BY <1>1, <1>2, <2>1, <2>2, <2>3 DEF DataLoaded
<1>3. /\ Keywords(user)' = Keywords(user) /\ CheckIns' = CheckIns
      /\ RelatedPois(user)' = RelatedPois(user)
      /\ \A t : With(t)' = With(t)
  BY <1>1 DEF Keywords, CheckIns, RelatedPois, Shared, With
<1>4. \A p : GSKScore(user, p)' = GSKScore(user, p)
  BY <1>1 DEF GSKScore, Shared, usrToPOIDistance, UserDist
<1>5. \A R : Ranking(R)' = Ranking(R)
  BY <1>3, <1>4 DEF Ranking
<1>6. \A R, p : Kept(R, p)' = Kept(R, p)
  BY <1>4 DEF Kept
<1> QED BY <1>1, <1>2, <1>3, <1>4, <1>5, <1>6

\* The start of the top-K query establishes the invariant.
LEMMA TopEstablished == Loaded /\ TopInit => Inv
<1> SUFFICES ASSUME Loaded, TopInit
             PROVE  Inv
  OBVIOUS
<1>1. DataLoaded
  BY DEF TopInit, TopStart, Prepared, Loaded, DataLoaded
<1>2. Control
  BY DEF TopInit, TopStart, Prepared, Control
<1>3. HeapsHold
  BY DEF TopInit, TopStart, Prepared, HeapsHold
<1>4. ResultsRank
  <2>1. IsFiniteSet({}) /\ Cardinality({}) = 0
    BY FS_EmptySet
  <2> QED BY <2>1, RoadAssumption DEF TopInit, TopStart, Prepared, ResultsRank, Ranking
<1> QED BY <1>1, <1>2, <1>3, <1>4 DEF TopInit, TopStart, Prepared, Inv, Reached

\* The score to beat follows the results.
LEMMA InsertReached ==
  ASSUME Placed(db), user \in Users, NEW R, Ranking(R), NEW p \in RelatedPois(user),
         \A e \in R : e[1] # p, NEW x, Reached(R, x)
  PROVE  LET s == GSKScore(user, p)
             S == Insert(R, <<p, s>>)
         IN  Reached(S, IF Cardinality(R) = K /\ Better(R, s) THEN Worst(S)[2] ELSE x)
<1> DEFINE s == GSKScore(user, p)
           S == Insert(R, <<p, s>>)
<1>1. /\ Ranking(S) /\ (Cardinality(R) = K => Cardinality(S) = K)
      /\ \A y \in Fractions : Cardinality(R) = K /\ (\A e \in R : ~Less(e[2], y))
                              => \A e \in S : ~Less(e[2], y)
  BY InsertRanks
<1> HIDE DEF S, s
<1>2. CASE Cardinality(R) = K /\ Better(R, s)
  <2>1. Cardinality(S) = K /\ S # {}
    <3>1. S = {} => Cardinality(S) = 0
      BY FS_EmptySet
    <3> QED BY <1>1, <1>2, <3>1, RoadAssumption
  <2>2. Worst(S) \in S /\ \A f \in S : ~Less(f[2], Worst(S)[2])
    BY <1>1, <2>1, WorstIsWorst
  <2>3. Worst(S)[2] \in Fractions
    BY <1>1, <2>2 DEF Ranking
  <2>4. Reached(S, Worst(S)[2])
    BY <2>1, <2>2, <2>3 DEF Reached
  <2> QED BY <1>2, <2>4 DEF S, s
<1>3. CASE ~(Cardinality(R) = K /\ Better(R, s))
  <2>1. Reached(S, x)
    BY <1>1 DEF Reached
  <2> QED BY <1>3, <2>1 DEF S, s
<1> QED BY <1>2, <1>3

\* A POI where no friend was has the score it is polled with.
LEMMA PolledIsScore ==
  ASSUME Placed(db), user \in Users, NEW p \in Pois, p \notin CheckIns, p \in RelatedPois(user)
  PROVE  PolledScore(p) = GSKScore(user, p)
<1>1. <<user, p>> \notin db.friends /\ Shared(user, p) # {} /\ Alpha + 0 = Alpha
  BY RoadAssumption DEF CheckIns, RelatedPois
<1> QED BY <1>1 DEF PolledScore, GSKScore, dist

\* What a heap is filled with has its keyword.
LEMMA FirstHasKeyword ==
  ASSUME Loaded, Placed(db), nvd = Diagrams, user \in Users, NEW t \in Keywords(user)
  PROVE  (IF Frequent(t) THEN NearUser(t) ELSE With(t)) \subseteq With(t)
<1>1. t \in Terms /\ db.uAt[user] \in Vertices /\ db.uTo[user] \in Vertices
  BY DEF Placed, Keywords
<1>2. ASSUME Frequent(t)
      PROVE  NearUser(t) \subseteq With(t)
  <2>1. getNNPOIs(db.uAt[user], t) \in SUBSET With(t) /\ getNNPOIs(db.uTo[user], t) \in SUBSET With(t)
    BY <1>1, <1>2, ReadHasKeyword
  <2> QED BY <2>1 DEF NearUser
<1> QED BY <1>2

\* Every step of the query keeps its invariant.
LEMMA TopKept == Inv /\ [TopNext]_topVars => Inv'
<1> SUFFICES ASSUME Inv, [TopNext]_topVars
             PROVE  Inv'
  OBVIOUS
<1>1. Loaded /\ Placed(db) /\ nvd = Diagrams /\ user \in Users /\ Ranking(resultFinal)
      /\ K \in Nat \ {0}
  BY RoadAssumption DEF Inv, DataLoaded, ResultsRank
<1>2. UNCHANGED dataVars
  BY DEF TopNext, CheckIn, EndCheckIns, Fill, PollEmpty, Poll, Return, topVars
<1>3. /\ db' = db /\ nvd' = nvd /\ user' = user /\ DataLoaded'
      /\ Keywords(user)' = Keywords(user) /\ CheckIns' = CheckIns
      /\ \A t : With(t)' = With(t)
      /\ \A R : Ranking(R)' = Ranking(R)
  BY <1>2, SameData DEF Inv
<1>4. CASE UNCHANGED topVars
  <2>1. ResultsRank'
    BY <1>1, <1>3, <1>4 DEF Inv, ResultsRank, topVars, Ranking
  <2> QED BY <1>3, <1>4, <2>1 DEF Inv, Control, HeapsHold, Reached, topVars
<1>5. CASE CheckIn
  <2>1. /\ pc = "social" /\ score_rk = Below
        /\ UNCHANGED <<filled, poiADJMark, H_list, Queue, score_rk, pc>>
    BY <1>5 DEF CheckIn, Inv, Control
  <2>2. PICK p \in CheckIns \ poiMark :
          /\ poiMark' = poiMark \cup {p}
          /\ resultFinal' = IF Shared(user, p) = {} THEN resultFinal
                            ELSE Insert(resultFinal, <<p, GSKScore(user, p)>>)
    BY <1>5 DEF CheckIn
  <2>3. ResultsRank'
    <3>1. p \in Pois /\ \A e \in resultFinal : e[1] # p
      BY <2>2 DEF CheckIns, Inv, ResultsRank
    <3>2. CASE Shared(user, p) = {}
      BY <1>3, <2>2, <3>1, <3>2 DEF Inv, ResultsRank, Ranking
    <3>3. CASE Shared(user, p) # {}
      <4>1. p \in RelatedPois(user)
        BY <3>1, <3>3 DEF RelatedPois
      <4>2. Ranking(resultFinal') /\ \A e \in resultFinal' : e \in resultFinal \/ e[1] = p
        BY <1>1, <2>2, <3>1, <3>3, <4>1, InsertRanks
      <4>3. Ranking(resultFinal)'
        BY <1>3, <4>2 DEF Ranking
      <4> QED BY <2>2, <3>1, <4>2, <4>3 DEF Inv, ResultsRank
    <3> QED BY <3>2, <3>3
  <2>4. Reached(resultFinal, score_rk)'
    BY <2>1 DEF Reached, Below
  <2>5. Control' /\ HeapsHold'
    BY <1>3, <2>1, <2>2 DEF Inv, Control, HeapsHold, Below
  <2> QED BY <1>3, <2>3, <2>4, <2>5 DEF Inv
<1>6. CASE EndCheckIns
  <2>1. /\ pc = "social" /\ CheckIns \subseteq poiMark /\ pc' = "fill" /\ score_rk = Below
        /\ score_rk' = IF Cardinality(resultFinal) = K THEN Worst(resultFinal)[2] ELSE score_rk
        /\ UNCHANGED <<filled, poiMark, poiADJMark, H_list, Queue, resultFinal>>
    BY <1>6 DEF EndCheckIns, Inv, Control
  <2>2. Reached(resultFinal, score_rk)'
    <3>1. CASE Cardinality(resultFinal) = K
      <4>1. resultFinal # {}
        BY <1>1, <3>1, FS_EmptySet
      <4>2. Worst(resultFinal) \in resultFinal /\ \A f \in resultFinal : ~Less(f[2], Worst(resultFinal)[2])
        BY <1>1, <4>1, WorstIsWorst
      <4>3. Worst(resultFinal)[2] \in Fractions
        BY <1>1, <4>2 DEF Ranking
      <4> QED BY <2>1, <3>1, <4>2, <4>3 DEF Reached
    <3>2. CASE Cardinality(resultFinal) # K
      BY <2>1, <3>2 DEF Reached, Below
    <3> QED BY <3>1, <3>2
  <2>3. ResultsRank'
    BY <1>1, <1>3, <2>1 DEF Inv, ResultsRank, Ranking
  <2>4. Control' /\ HeapsHold'
    <3>1. DOMAIN Queue = filled
      BY <2>1 DEF Inv, Control
    <3> QED BY <1>3, <2>1, <3>1 DEF Inv, Control, HeapsHold
  <2> QED BY <1>3, <2>2, <2>3, <2>4 DEF Inv
<1>7. CASE Fill
  <2>1. PICK t \in Keywords(user) \ filled :
          \E first \in {IF Frequent(t) THEN NearUser(t) ELSE With(t)} :
            /\ filled' = filled \cup {t}
            /\ H_list' = Put(H_list, t, first)
            /\ poiADJMark' = poiADJMark \cup first
            /\ Queue' = Put(Queue, t, Min({dist(p) : p \in first}))
    BY <1>7 DEF Fill
  <2> DEFINE first == IF Frequent(t) THEN NearUser(t) ELSE With(t)
  <2>2. /\ filled' = filled \cup {t}
        /\ H_list' = Put(H_list, t, first)
        /\ poiADJMark' = poiADJMark \cup first
        /\ Queue' = Put(Queue, t, Min({dist(p) : p \in first}))
        /\ pc = "fill" /\ pc' = IF filled' = Keywords(user) THEN "poll" ELSE "fill"
        /\ UNCHANGED <<poiMark, resultFinal, score_rk>>
    BY <1>7, <2>1 DEF Fill
  <2>3. first \subseteq With(t)
    BY <1>1, FirstHasKeyword
  <2> HIDE DEF first
  <2>4. /\ DOMAIN H_list' = filled' /\ DOMAIN Queue' = filled'
        /\ \A x \in filled' : H_list'[x] = IF x = t THEN first ELSE H_list[x]
    BY <2>2 DEF Put, Inv, Control
  <2>5. Control'
    BY <1>3, <2>2, <2>4 DEF Inv, Control
  <2>6. HeapsHold'
    BY <1>3, <2>2, <2>3, <2>4 DEF Inv, HeapsHold
  <2>7. ResultsRank'
    BY <1>1, <1>3, <2>2 DEF Inv, ResultsRank, Ranking
  <2> QED BY <1>3, <2>2, <2>5, <2>6, <2>7 DEF Inv, Reached
<1>8. CASE PollEmpty
  <2>1. ResultsRank'
    BY <1>1, <1>3, <1>8 DEF PollEmpty, Inv, ResultsRank, Ranking
  <2> QED BY <1>3, <1>8, <2>1 DEF PollEmpty, Inv, Control, HeapsHold, Reached
<1>9. CASE Poll
  <2> DEFINE heapOf(t, p) == (H_list[t] \ {p}) \cup Neighbours(t, p)
  <2>1. PICK t \in DOMAIN Queue : \E p \in H_list[t] :
          /\ H_list' = [H_list EXCEPT ![t] = heapOf(t, p)]
          /\ DOMAIN Queue' = DOMAIN Queue
          /\ poiADJMark' = poiADJMark \cup Neighbours(t, p)
          /\ IF Scored(p) THEN UNCHANGED <<poiMark, resultFinal, score_rk, pc>>
             ELSE /\ poiMark' = poiMark \cup {p}
                  /\ resultFinal' = Insert(resultFinal, <<p, PolledScore(p)>>)
                  /\ score_rk' = IF Cardinality(resultFinal) = K /\ Better(resultFinal, PolledScore(p))
                                 THEN Worst(resultFinal')[2] ELSE score_rk
                  /\ pc' \in {"return", "poll"}
    BY <1>9 DEF Poll
  <2>2. PICK p \in H_list[t] :
          /\ H_list' = [H_list EXCEPT ![t] = heapOf(t, p)]
          /\ DOMAIN Queue' = DOMAIN Queue
          /\ poiADJMark' = poiADJMark \cup Neighbours(t, p)
          /\ IF Scored(p) THEN UNCHANGED <<poiMark, resultFinal, score_rk, pc>>
             ELSE /\ poiMark' = poiMark \cup {p}
                  /\ resultFinal' = Insert(resultFinal, <<p, PolledScore(p)>>)
                  /\ score_rk' = IF Cardinality(resultFinal) = K /\ Better(resultFinal, PolledScore(p))
                                 THEN Worst(resultFinal')[2] ELSE score_rk
                  /\ pc' \in {"return", "poll"}
    BY <2>1
  <2>3. pc = "poll" /\ filled' = filled /\ filled = Keywords(user) /\ filled # {} /\ t \in filled
        /\ CheckIns \subseteq poiMark /\ DOMAIN H_list = filled /\ DOMAIN Queue \subseteq filled
    BY <1>9 DEF Poll, Inv, Control
  <2>4. p \in With(t) /\ p \in Pois /\ p \in RelatedPois(user) /\ t \in Terms
    <3>1. p \in With(t)
      BY <2>3 DEF Inv, HeapsHold
    <3> QED BY <1>1, <2>3, <3>1 DEF With, RelatedPois, Shared, Keywords, Placed
  <2>5. HeapsHold'
    <3>1. Neighbours(t, p) \subseteq With(t)
      BY <1>1, <2>4, ReadHasKeyword DEF Neighbours
    <3>2. \A x \in filled : H_list'[x] = IF x = t THEN heapOf(t, p) ELSE H_list[x]
      BY <2>2, <2>3
    <3> QED BY <1>3, <2>2, <2>3, <3>1, <3>2 DEF Inv, HeapsHold
  <2>6. CASE Scored(p)
    <3>1. UNCHANGED <<poiMark, resultFinal, score_rk, pc>>
      BY <2>2, <2>6
    <3>2. Control'
      BY <1>3, <2>2, <2>3, <3>1 DEF Control
    <3>3. ResultsRank'
      BY <1>1, <1>3, <3>1 DEF Inv, ResultsRank, Ranking
    <3> QED BY <1>3, <2>5, <3>1, <3>2, <3>3 DEF Inv, Reached
  <2>7. CASE ~Scored(p)
    <3>1. PolledScore(p) = GSKScore(user, p) /\ \A e \in resultFinal : e[1] # p
      BY <1>1, <2>3, <2>4, <2>7, PolledIsScore DEF Scored, Inv, ResultsRank
    <3>2. /\ poiMark' = poiMark \cup {p} /\ pc' \in {"return", "poll"}
          /\ resultFinal' = Insert(resultFinal, <<p, GSKScore(user, p)>>)
          /\ score_rk' = IF Cardinality(resultFinal) = K /\ Better(resultFinal, GSKScore(user, p))
                         THEN Worst(Insert(resultFinal, <<p, GSKScore(user, p)>>))[2] ELSE score_rk
      BY <2>2, <2>7, <3>1
    <3>3. Control'
      BY <1>3, <2>2, <2>3, <3>2 DEF Control
    <3>4. Ranking(resultFinal') /\ \A e \in resultFinal' : e \in resultFinal \/ e[1] = p
      BY <1>1, <2>4, <3>1, <3>2, InsertRanks
    <3>5. ResultsRank'
      <4>1. Ranking(resultFinal)'
        BY <1>3, <3>4 DEF Ranking
      <4> QED BY <2>4, <3>2, <3>4, <4>1 DEF Inv, ResultsRank
    <3>6. Reached(resultFinal', score_rk')
      BY <1>1, <2>4, <3>1, <3>2, InsertReached DEF Inv
    <3> QED BY <1>3, <2>5, <3>3, <3>5, <3>6 DEF Inv, Reached
  <2> QED BY <2>6, <2>7
<1>10. CASE Return
  <2>1. ResultsRank'
    BY <1>1, <1>3, <1>10 DEF Return, Inv, ResultsRank, Ranking
  <2> QED BY <1>3, <1>10, <2>1 DEF Return, Inv, Control, HeapsHold, Reached
<1> QED BY <1>4, <1>5, <1>6, <1>7, <1>8, <1>9, <1>10 DEF TopNext

\* The heaps of a query hold POIs of their keywords, the result at most K.
THEOREM TopTypes == Loaded => (TopSpec => []TopTypeOK)
<1>1. Inv => TopTypeOK
  BY DEF Inv, DataLoaded, Control, HeapsHold, ResultsRank, Ranking, TopTypeOK
<1> QED BY <1>1, TopEstablished, TopKept, PTL DEF TopSpec

\* Each POI of the result has its own score, though polled POIs are scored as
\* if no friend had been there (query_basic.h:13147), and is there once.
THEOREM ScoredTruly == Loaded => (TopSpec => []ResultsTrue)
<1>1. Inv => ResultsTrue
  <2> SUFFICES ASSUME Inv PROVE ResultsTrue
    OBVIOUS
  <2>1. \A e \in resultFinal : e[1] \in RelatedPois(user) /\ e = <<e[1], GSKScore(user, e[1])>>
    BY DEF Inv, ResultsRank, Ranking
  <2>2. \A e \in resultFinal : Same(e[2], GSKScore(user, e[1]))
    <3> SUFFICES ASSUME NEW e \in resultFinal
                 PROVE  Same(e[2], GSKScore(user, e[1]))
      OBVIOUS
    <3>1. e[2] = GSKScore(user, e[1])
      BY <2>1
    <3> QED BY <3>1 DEF Same
  <2>3. \A e, f \in resultFinal : e[1] = f[1] => e = f
    BY <2>1
  <2> QED BY <2>1, <2>2, <2>3 DEF ResultsTrue
<1> QED BY <1>1, TopEstablished, TopKept, PTL DEF TopSpec

\* The score to beat never passes the user's K-th best, so that no POI of the
\* answer is cut off (query_basic.h:13085).
THEOREM NothingCutOff == Loaded => (TopSpec => []NoneCutOff)
<1>1. Inv => NoneCutOff
  <2> SUFFICES ASSUME Inv, RelatedPois(user) # {}
               PROVE  ~Less(TopkScore(user), score_rk)
    BY DEF Inv, DataLoaded, NoneCutOff
  <2>1. Placed(db) /\ user \in Users /\ Ranking(resultFinal) /\ K \in Nat \ {0}
    BY RoadAssumption DEF Inv, DataLoaded, ResultsRank
  <2>2. CASE score_rk = Below
    <3>1. TopkScore(user) \in Fractions
      BY <2>1, TopkTypes
    <3> QED BY <2>2, <3>1 DEF Less, Below, Fractions
  <2>3. CASE score_rk # Below
    <3> DEFINE S == {e[1] : e \in resultFinal}
    <3>1. score_rk \in Fractions /\ Cardinality(resultFinal) = K /\ \A e \in resultFinal : ~Less(e[2], score_rk)
      BY <2>3 DEF Inv, Reached
    <3>2. S \in SUBSET RelatedPois(user) /\ \A p \in S : ~Less(GSKScore(user, p), score_rk)
      <4>1. \A e \in resultFinal : e[1] \in RelatedPois(user) /\ e[2] = GSKScore(user, e[1])
        BY <2>1 DEF Ranking
      <4> QED BY <3>1, <4>1
    <3>3. Cardinality(S) = K
      BY <2>1, <3>1, RankedPois
    <3> HIDE DEF S
    <3> QED BY <2>1, <3>1, <3>2, <3>3, KthIsOver
  <2> QED BY <2>2, <2>3
<1> QED BY <1>1, TopEstablished, TopKept, PTL DEF TopSpec

-----------------------------------------------------------------------------
(* The top-k query where keywords share no POI: it is exact.               *)

\* What is read for the ends of the user's road.
NearEnds(t) == getNNPOIs(db.uAt[user], t) \cup getNNPOIs(db.uTo[user], t)

\* A is pushed for the keywords F, and of the POIs no longer in a heap of H all
\* that are adjacent are pushed too.
Pushed(A, F, H) ==
  /\ \A p \in A : \E t \in F : p \in With(t)
  /\ \A t \in F : Frequent(t) =>
       /\ NearEnds(t) \subseteq A
       /\ \A q \in (With(t) \cap A) \ H[t] : getPOIAdj(q, t) \subseteq A
  /\ \A t \in F : Frequent(t) \/ With(t) \subseteq A

\* A POI that is not in M is in its heap, or not come to yet.
Waiting(A, F, H, M) ==
  \A t \in F : \A p \in With(t) \ M : p \in H[t] \/ (Frequent(t) /\ p \notin A)

\* A heap that holds a POI is considered, at the distance of its nearest.
Topped(F, H, Q) ==
  /\ \A t \in F : H[t] # {} => t \in DOMAIN Q
  /\ \A t \in DOMAIN Q : Q[t] \in Nat /\ \A p \in H[t] : Q[t] <= dist(p)

KeptSoFar(M, R) == \A p \in RelatedPois(user) \cap M : Kept(R, p)

Exact ==
  /\ Given
  /\ Ordered => /\ Pushed(poiADJMark, filled, H_list)
                /\ Waiting(poiADJMark, filled, H_list, poiMark)
  /\ Topped(filled, H_list, Queue)
  /\ KeptSoFar(poiMark, resultFinal)
  /\ pc = "return" => Settled(resultFinal, Queue)
  /\ pc = "done" => ExactUnshared

\* None of this is about what changes.
LEMMA SameReads ==
  ASSUME UNCHANGED dataVars
  PROVE  /\ Given' = Given /\ Ordered' = Ordered
         /\ \A A, F, H : Pushed(A, F, H)' = Pushed(A, F, H)
         /\ \A A, F, H, M : Waiting(A, F, H, M)' = Waiting(A, F, H, M)
         /\ \A F, H, Q : Topped(F, H, Q)' = Topped(F, H, Q)
         /\ \A M, R : KeptSoFar(M, R)' = KeptSoFar(M, R)
         /\ \A R, Q : Settled(R, Q)' = Settled(R, Q)
<1>1. /\ db' = db /\ nvd' = nvd /\ user' = user /\ \A t : With(t)' = With(t)
      /\ Keywords(user)' = Keywords(user) /\ RelatedPois(user)' = RelatedPois(user)
      /\ \A R, p : Kept(R, p)' = Kept(R, p)
  BY SameData
<1>2. \A t : Frequent(t)' = Frequent(t)
  BY <1>1 DEF Frequent, getTermOjectInvListSize
<1>3. CellsAtHome' = CellsAtHome
  <2>1. \A t : nearestOf(t)' = nearestOf(t)
    BY <1>1 DEF nearestOf, With, PoiDist
  <2>2. \A p : Ends(p)' = Ends(p)
    BY <1>1 DEF Ends
  <2> QED BY <1>1, <1>2, <2>1, <2>2 DEF CellsAtHome
<1>4. /\ \A t : getNNPOIs(db.uAt[user], t)' = getNNPOIs(db.uAt[user], t)
      /\ \A t : getNNPOIs(db.uTo[user], t)' = getNNPOIs(db.uTo[user], t)
      /\ \A t : NearEnds(t)' = NearEnds(t)
  <2>1. \A t : getNNPOIs(db.uAt[user], t)' = getNNPOIs(db.uAt[user], t)
    BY <1>1 DEF getNNPOIs
  <2>2. \A t : getNNPOIs(db.uTo[user], t)' = getNNPOIs(db.uTo[user], t)
    BY <1>1 DEF getNNPOIs
  <2> QED BY <2>1, <2>2 DEF NearEnds
<1>5. \A p, t : getPOIAdj(p, t)' = getPOIAdj(p, t)
  BY <1>1 DEF getPOIAdj
<1>6. \A p : dist(p)' = dist(p)
  BY <1>1 DEF dist, usrToPOIDistance, UserDist
<1>7. Given' = Given /\ Ordered' = Ordered
  <2>1. Given' = Given
    BY <1>1, <1>3 DEF Given, ShortestPaths
  <2>2. Unshared' = Unshared
    BY <1>1, <1>2 DEF Unshared
  <2>3. OwnRoadListed' = OwnRoadListed
    BY <1>1, <1>2, <1>4 DEF OwnRoadListed
  <2>4. Straight' = Straight
    BY <1>1, <1>6 DEF Straight, UserDist
  <2> QED BY <2>1, <2>2, <2>3, <2>4 DEF Ordered
<1>8. \A A, F, H : Pushed(A, F, H)' = Pushed(A, F, H)
  BY <1>1, <1>2, <1>4, <1>5 DEF Pushed
<1>9. \A A, F, H, M : Waiting(A, F, H, M)' = Waiting(A, F, H, M)
  BY <1>1, <1>2 DEF Waiting
<1>10. \A F, H, Q : Topped(F, H, Q)' = Topped(F, H, Q)
  BY <1>6 DEF Topped
<1>11. \A M, R : KeptSoFar(M, R)' = KeptSoFar(M, R)
  BY <1>1 DEF KeptSoFar
<1>12. \A R, Q : Settled(R, Q)' = Settled(R, Q)
  <2>1. \A d : Optimal(d)' = Optimal(d)
    BY <1>1 DEF Optimal
  <2> QED BY <2>1 DEF Settled
<1> QED BY <1>7, <1>8, <1>9, <1>10, <1>11, <1>12

\* Distances from a user to POIs are numbers.
LEMMA DistTypes ==
  ASSUME Placed(db), user \in Users
  PROVE  \A p \in Pois : dist(p) \in Nat
BY DistancesAre DEF dist

\* Only what is optimal for no POI nearer can be the score of a POI without
\* friends.
LEMMA OptimalIsOver ==
  ASSUME Placed(db), user \in Users, NEW p \in RelatedPois(user), p \notin CheckIns,
         NEW d \in Nat, d <= dist(p)
  PROVE  Optimal(d) \in Fractions /\ ~Less(Optimal(d), GSKScore(user, p))
<1> DEFINE a == Alpha + tfIDF_termSet(Keywords(user))
           b == Alpha + tfIDF_termSet(Shared(user, p))
<1>1. p \in Pois /\ dist(p) \in Nat
  BY DistTypes DEF RelatedPois
<1>2. a \in Nat /\ b \in Nat /\ b <= a
  <2>1. Keywords(user) \in SUBSET Terms /\ Shared(user, p) \in SUBSET Keywords(user)
    BY DEF Placed, Keywords, Shared
  <2>2. /\ tfIDF_termSet(Keywords(user)) \in Nat /\ tfIDF_termSet(Shared(user, p)) \in Nat
        /\ tfIDF_termSet(Shared(user, p)) <= tfIDF_termSet(Keywords(user)) /\ Alpha \in Nat
    BY <2>1, WeightsAdd, RoadAssumption
  <2> QED BY <2>2
<1>3. GSKScore(user, p) = <<b, 1 + dist(p)>>
  BY <1>1, PolledIsScore DEF PolledScore
<1>4. Optimal(d) = <<a, 1 + d>>
  BY DEF Optimal
<1> HIDE DEF a, b
<1>5. ~(a * (1 + dist(p)) < b * (1 + d))
  <2>1. b * (1 + d) <= a * (1 + d)
    BY <1>2
  <2>2. a * (1 + d) <= a * (1 + dist(p))
    BY <1>1, <1>2
  <2> QED BY <1>1, <1>2, <2>1, <2>2
<1> QED BY <1>2, <1>3, <1>4, <1>5 DEF Less, Fractions

\* Of the POIs not come to along the diagram none is nearer than the heap's.
LEMMA NearestIsPushed ==
  ASSUME Inv, Exact, Ordered, NEW t \in filled, Frequent(t), NEW p \in With(t) \ poiADJMark
  PROVE  t \in DOMAIN Queue /\ Queue[t] <= dist(p)
<1>1. /\ Loaded /\ Placed(db) /\ nvd = Diagrams /\ user \in Users
      /\ ShortestPaths /\ OneTree /\ CellsAtHome /\ OwnRoadListed /\ Straight
  BY DEF Inv, DataLoaded, Exact, Given, Ordered
<1>2. t \in Terms /\ t \in Keywords(user)
  BY <1>1 DEF Inv, Control, Placed, Keywords
<1>3. /\ getNNPOIs(db.uAt[user], t) \cup getNNPOIs(db.uTo[user], t) \subseteq poiADJMark
      /\ \A q \in (With(t) \cap poiADJMark) \ H_list[t] : getPOIAdj(q, t) \subseteq poiADJMark
  BY DEF Exact, Pushed, NearEnds
<1>4. PICK q \in H_list[t] \cap With(t) : dist(q) <= dist(p)
  BY <1>1, <1>2, <1>3, FrontierIsNear
<1>5. t \in DOMAIN Queue /\ Queue[t] \in Nat /\ Queue[t] <= dist(q)
  BY <1>4 DEF Exact, Topped
<1>6. dist(q) \in Nat /\ dist(p) \in Nat
  BY <1>1, <1>4, DistTypes DEF With
<1> QED BY <1>4, <1>5, <1>6

\* Unless a POI was scored, some heap has one at least as near.
LEMMA SomeHeapAsNear ==
  ASSUME Inv, Exact, Ordered, filled = Keywords(user),
         NEW p \in RelatedPois(user) \ poiMark
  PROVE  \E t \in DOMAIN Queue : Queue[t] <= dist(p)
<1>1. /\ Loaded /\ Placed(db) /\ nvd = Diagrams /\ user \in Users
      /\ ShortestPaths /\ OneTree /\ CellsAtHome
  BY DEF Inv, DataLoaded, Exact, Given
<1>2. PICK t \in Keywords(user) : p \in With(t)
  BY DEF RelatedPois, Shared, With, Keywords
<1>3. t \in filled /\ t \in Terms
  BY <1>1, <1>2 DEF Placed, Keywords
<1>4. CASE p \in H_list[t]
  BY <1>3, <1>4 DEF Exact, Topped
<1>5. CASE Frequent(t) /\ p \notin poiADJMark
  BY <1>2, <1>3, <1>5, NearestIsPushed
<1> QED BY <1>2, <1>3, <1>4, <1>5 DEF Exact, Waiting

\* When polling stops, every POI of the user's keywords has been considered.
LEMMA StopsKept ==
  ASSUME Inv, Exact, Ordered, pc = "return" \/ (pc = "poll" /\ ~Promising)
  PROVE  \A p \in RelatedPois(user) : Kept(resultFinal, p)
<1> SUFFICES ASSUME NEW p \in RelatedPois(user), p \notin poiMark
             PROVE  Kept(resultFinal, p)
  BY DEF Exact, KeptSoFar
<1> DEFINE tops == {Queue[x] : x \in DOMAIN Queue}
<1>1. /\ Placed(db) /\ user \in Users /\ Ranking(resultFinal) /\ p \notin CheckIns /\ p \in Pois
      /\ filled = Keywords(user) /\ K \in Nat \ {0}
  BY RoadAssumption DEF Inv, DataLoaded, Control, ResultsRank, RelatedPois
<1>2. PICK t \in DOMAIN Queue : Queue[t] <= dist(p)
  BY <1>1, SomeHeapAsNear
<1>3. dist(p) \in Nat /\ \A x \in DOMAIN Queue : Queue[x] \in Nat
  BY <1>1, DistTypes DEF Exact, Topped
<1>4. tops \in SUBSET Nat /\ tops # {} /\ Queue[t] \in tops
  BY <1>2, <1>3
<1> HIDE DEF tops
<1>5. Min(tops) \in tops /\ \A d \in tops : Min(tops) <= d
  BY <1>4, MinIsLeast
<1>6. Min(tops) \in Nat /\ Min(tops) <= dist(p)
  <2>1. Min(tops) \in Nat /\ Queue[t] \in Nat /\ Min(tops) <= Queue[t]
    BY <1>3, <1>4, <1>5
  <2> QED BY <1>2, <1>3, <2>1
<1> DEFINE best == Optimal(Min(tops))
<1>7. best \in Fractions /\ ~Less(best, GSKScore(user, p)) /\ GSKScore(user, p) \in Fractions
  BY <1>1, <1>6, OptimalIsOver, ScoreTypes
<1>8. CASE pc = "return"
  <2>1. Cardinality(resultFinal) = K /\ Less(best, Worst(resultFinal)[2])
    BY <1>8 DEF Exact, Settled, tops
  <2>2. resultFinal # {}
    BY <1>1, <2>1, FS_EmptySet
  <2>3. /\ Worst(resultFinal) \in resultFinal
        /\ \A e \in resultFinal : ~Less(e[2], Worst(resultFinal)[2]) /\ e[2] \in Fractions
    BY <1>1, <2>2, WorstIsWorst DEF Ranking
  <2>4. Less(GSKScore(user, p), Worst(resultFinal)[2])
    BY <1>7, <2>1, <2>3, LessTransitive
  <2>5. ASSUME NEW e \in resultFinal
        PROVE  ~Less(e[2], GSKScore(user, p))
    <3>1. Less(GSKScore(user, p), e[2])
      BY <1>7, <2>3, <2>4, LessTransitive
    <3> QED BY <1>7, <2>3, <3>1, LessAsymmetric
  <2> QED BY <2>1, <2>5 DEF Kept
<1>9. CASE pc = "poll" /\ ~Promising
  <2>1. PICK x \in DOMAIN Queue : Queue[x] = Min(tops)
    BY <1>5 DEF tops
  <2>2. IsBest(x)
    BY <1>5, <2>1 DEF IsBest, tops
  <2>3. ~Less(score_rk, best)
    BY <1>9, <2>1, <2>2 DEF Promising
  <2>4. score_rk # Below
    <3>1. Less(Below, best)
      <4> HIDE DEF best
      <4> QED BY <1>7 DEF Less, Below, Fractions
    <3> QED BY <2>3, <3>1
  <2>5. /\ score_rk \in Fractions /\ Cardinality(resultFinal) = K
        /\ \A e \in resultFinal : ~Less(e[2], score_rk) /\ e[2] \in Fractions
    BY <1>1, <2>4 DEF Inv, Reached, Ranking
  <2>6. ~Less(score_rk, GSKScore(user, p))
    BY <1>7, <2>3, <2>5, LessTransitive
  <2>7. \A e \in resultFinal : ~Less(e[2], GSKScore(user, p))
    BY <1>7, <2>5, <2>6, LessTransitive
  <2> QED BY <2>5, <2>7 DEF Kept
<1> QED BY <1>8, <1>9

\* A ranking that nothing is missing from has the K-th best score as its worst.
LEMMA RankingExact ==
  ASSUME Placed(db), user \in Users, NEW R, Ranking(R), RelatedPois(user) # {},
         \A p \in RelatedPois(user) : Kept(R, p)
  PROVE  Same(Worst(R)[2], TopkScore(user))
<1> DEFINE D == RelatedPois(user)
           S == {e[1] : e \in R}
           T == TopkScore(user)
           x == Worst(R)[2]
           sc == Gsk(user)
<1>1. K \in Nat \ {0} /\ D \in SUBSET Pois /\ IsFiniteSet(D)
  <2>1. D \in SUBSET Pois
    BY DEF RelatedPois
  <2> HIDE DEF D
  <2> QED BY <2>1, RoadAssumption, FS_Subset
<1>2. R # {}
  <2>1. PICK p \in D : Kept(R, p)
    OBVIOUS
  <2> QED BY <1>1, <2>1, FS_EmptySet DEF Kept
<1>3. Worst(R) \in R /\ \A e \in R : ~Less(e[2], x)
  BY <1>2, WorstIsWorst
<1>4. \A e \in R : e[1] \in D /\ e = <<e[1], GSKScore(user, e[1])>> /\ e[2] \in Fractions
  BY DEF Ranking
<1>5. IsFiniteSet(S) /\ Cardinality(S) = Cardinality(R) /\ Cardinality(R) \in Nat /\ Cardinality(R) <= K
  BY RankedPois, FS_CardinalityType DEF Ranking
<1>6. S \in SUBSET D /\ Worst(R)[1] \in S
  BY <1>3, <1>4
<1>7. DOMAIN sc = D /\ \A p \in D : sc[p] = GSKScore(user, p) /\ sc[p] \in Fractions
  BY <1>1, ScoreTypes DEF Gsk
<1>8. T = KthBest(sc)
  BY DEF TopkScore, Gsk
<1>9. x \in Fractions /\ T \in Fractions
  BY <1>3, <1>4, <1>1, TopkTypes
<1>10. \A e \in R : e[2] = GSKScore(user, e[1])
  BY <1>4
<1>11. \A p \in S : ~Less(GSKScore(user, p), x)
  BY <1>3, <1>10
<1>12. CASE Cardinality(R) = K
  <2>1. ~Less(T, x)
    <3> HIDE DEF S, x, D
    <3> QED BY <1>1, <1>5, <1>6, <1>9, <1>11, <1>12, KthIsOver DEF D
  <2>2. ~Less(x, T)
    <3> SUFFICES ASSUME Less(x, T)
                 PROVE  FALSE
      OBVIOUS
    <3> DEFINE good == {q \in D : ~Less(sc[q], KthBest(sc))}
    <3>1. Cardinality(good) >= K
      <4>1. Cardinality(D) >= K
        <5> HIDE DEF D, S
        <5> QED BY <1>1, <1>5, <1>6, <1>12, FS_Subset
      <4> HIDE DEF D, sc
      <4> QED BY <1>1, <1>7, <4>1, KthBestIsKth
    <3>2. ASSUME NEW q \in good
          PROVE  q \in S \ {Worst(R)[1]}
      <4>1. q \in D /\ ~Less(GSKScore(user, q), T) /\ GSKScore(user, q) \in Fractions
        BY <1>7, <1>8
      <4>2. Less(x, GSKScore(user, q))
        <5> HIDE DEF x, T
        <5> QED BY <1>9, <4>1, LessTransitive
      <4>3. q \in S
        BY <1>3, <4>1, <4>2 DEF Kept
      <4>4. q # Worst(R)[1]
        <5> SUFFICES ASSUME q = Worst(R)[1] PROVE FALSE
          OBVIOUS
        <5>1. GSKScore(user, q) = x
          BY <1>3, <1>10
        <5> HIDE DEF x, T
        <5> QED BY <1>9, <4>2, <5>1, LessIrreflexive
      <4> QED BY <4>3, <4>4
    <3>3. good \in SUBSET (S \ {Worst(R)[1]})
      BY <3>2
    <3> HIDE DEF good, S, D
    <3>4. IsFiniteSet(S \ {Worst(R)[1]}) /\ Cardinality(S \ {Worst(R)[1]}) = Cardinality(S) - 1
      BY <1>5, <1>6, FS_RemoveElement
    <3>5. Cardinality(good) <= Cardinality(S \ {Worst(R)[1]}) /\ IsFiniteSet(good)
      BY <3>3, <3>4, FS_Subset
    <3>6. Cardinality(good) \in Nat
      BY <3>5, FS_CardinalityType
    <3> QED BY <1>1, <1>5, <1>12, <3>1, <3>4, <3>5, <3>6
  <2> HIDE DEF x, T
  <2>3. Same(x, T)
    BY <1>9, <2>1, <2>2, SameOrLess
  <2> QED BY <2>3 DEF x, T
<1>13. CASE Cardinality(R) # K
  <2>1. D = S
    BY <1>6, <1>13 DEF Kept
  <2>2. Cardinality(D) < K /\ D # {}
    BY <1>1, <1>5, <1>13, <2>1
  <2>3. /\ \E p \in D : KthBest(sc) = sc[p]
        /\ \A p \in D : ~Less(sc[p], KthBest(sc))
    <3> HIDE DEF D, sc
    <3> QED BY <1>1, <1>7, <2>2, WorstOfFew
  <2>4. ~Less(T, x)
    BY <1>7, <1>8, <1>11, <2>1, <2>3
  <2>5. ~Less(x, T)
    BY <1>3, <1>4, <1>7, <1>8, <1>10, <2>3
  <2> HIDE DEF x, T
  <2>6. Same(x, T)
    BY <1>9, <2>4, <2>5, SameOrLess
  <2> QED BY <2>6 DEF x, T
<1> QED BY <1>12, <1>13

\* The nearest of some POIs.
LEMMA NearestOfSome ==
  ASSUME Placed(db), user \in Users, NEW S \in SUBSET Pois, S # {}
  PROVE  /\ Min({dist(p) : p \in S}) \in Nat
         /\ \A p \in S : Min({dist(q) : q \in S}) <= dist(p)
<1> DEFINE away == {dist(p) : p \in S}
<1>1. away \in SUBSET Nat /\ away # {} /\ \A p \in S : dist(p) \in away
  BY DistTypes
<1> HIDE DEF away
<1>2. Min(away) \in away /\ \A d \in away : Min(away) <= d
  BY <1>1, MinIsLeast
<1>3. Min(away) \in Nat /\ \A p \in S : Min(away) <= dist(p)
  BY <1>1, <1>2
<1> QED BY <1>3 DEF away

\* A heap is filled with a POI, whatever the keyword.
LEMMA FirstIsSome ==
  ASSUME Loaded, ShortestPaths, OneTree, CellsAtHome, Placed(db), nvd = Diagrams, user \in Users,
         NEW t \in Keywords(user), With(t) # {}
  PROVE  (IF Frequent(t) THEN NearUser(t) ELSE With(t)) # {}
<1>1. ASSUME Frequent(t)
      PROVE  NearUser(t) # {}
  <2> DEFINE A == getNNPOIs(db.uAt[user], t)
  <2>1. t \in Terms /\ db.uAt[user] \in Vertices
    BY DEF Placed, Keywords
  <2>2. A # {}
    <3> SUFFICES ASSUME A = {} PROVE FALSE
      OBVIOUS
    <3>1. PICK p \in With(t) : p \notin A
      OBVIOUS
    <3>2. db.pAt[p] \in Ends(p)
      BY DEF Ends
    <3>3. \E x \in OnWay(db.uAt[user], db.pAt[p]) : nearestOf(t)[x] \in A
      BY <1>1, <2>1, <3>1, <3>2, NearOnWay
    <3> QED BY <3>3
  <2> QED BY <2>2 DEF NearUser
<1> QED BY <1>1

\* Where no two keywords share a POI, filling one heap is no matter of others.
LEMMA FillPushes ==
  ASSUME Inv, Exact, Ordered, NEW t \in Keywords(user) \ filled, NEW first,
         first = IF Frequent(t) THEN NearUser(t) ELSE With(t)
  PROVE  LET F == filled \cup {t}
             H == Put(H_list, t, first)
             A == poiADJMark \cup first
         IN  Pushed(A, F, H) /\ Waiting(A, F, H, poiMark)
<1> DEFINE F == filled \cup {t}
           H == Put(H_list, t, first)
           A == poiADJMark \cup first
<1>1. /\ Loaded /\ Placed(db) /\ nvd = Diagrams /\ user \in Users
      /\ filled \subseteq Keywords(user) /\ DOMAIN H_list = filled
  BY DEF Inv, DataLoaded, Control
<1>2. first \subseteq With(t)
  BY <1>1, FirstHasKeyword
<1>3. Pushed(poiADJMark, filled, H_list) /\ Waiting(poiADJMark, filled, H_list, poiMark)
  BY DEF Exact
<1>4. H[t] = first /\ \A x \in filled : H[x] = H_list[x]
  BY <1>1 DEF Put
<1>5. \A x \in filled : Frequent(x) \/ Frequent(t) => With(x) \cap With(t) = {}
  BY <1>1 DEF Ordered, Unshared
<1>6. Frequent(t) => With(t) \cap poiADJMark = {} /\ NearEnds(t) \subseteq poiADJMark \cup first
  <2>1. \A p \in poiADJMark : \E x \in filled : p \in With(x)
    BY <1>3 DEF Pushed
  <2> QED BY <1>5, <2>1 DEF NearUser, NearEnds
<1> HIDE DEF H
<1>7. Pushed(A, F, H)
  <2>1. ASSUME NEW p \in A
        PROVE  \E x \in F : p \in With(x)
    BY <1>2, <1>3 DEF Pushed
  <2>2. ASSUME NEW x \in F, Frequent(x)
        PROVE  /\ NearEnds(x) \subseteq A
               /\ \A q \in (With(x) \cap A) \ H[x] : getPOIAdj(q, x) \subseteq A
    <3>1. CASE x = t
      BY <1>4, <1>6, <2>2, <3>1
    <3>2. CASE x \in filled
      <4>1. With(x) \cap A = With(x) \cap poiADJMark
        BY <1>2, <1>5, <2>2, <3>2
      <4> QED BY <1>3, <1>4, <2>2, <3>2, <4>1 DEF Pushed
    <3> QED BY <3>1, <3>2
  <2>3. \A x \in F : Frequent(x) \/ With(x) \subseteq A
    BY <1>3 DEF Pushed
  <2> QED BY <2>1, <2>2, <2>3 DEF Pushed
<1>8. Waiting(A, F, H, poiMark)
  <2> SUFFICES ASSUME NEW x \in F, NEW p \in With(x) \ poiMark
               PROVE  p \in H[x] \/ (Frequent(x) /\ p \notin A)
    BY DEF Waiting
  <2>1. CASE x = t
    BY <1>4, <1>6, <2>1
  <2>2. CASE x \in filled
    <3>1. p \in H_list[x] \/ (Frequent(x) /\ p \notin poiADJMark)
      BY <1>3, <2>2 DEF Waiting
    <3> QED BY <1>2, <1>4, <1>5, <2>2, <3>1
  <2> QED BY <2>1, <2>2
<1> QED BY <1>7, <1>8 DEF H

\* And so is polling from one.
LEMMA PollPushes ==
  ASSUME Inv, Exact, Ordered, NEW t \in filled, NEW p \in H_list[t]
  PROVE  LET H == [H_list EXCEPT ![t] = (H_list[t] \ {p}) \cup Neighbours(t, p)]
             A == poiADJMark \cup Neighbours(t, p)
         IN  Pushed(A, filled, H) /\ Waiting(A, filled, H, poiMark \cup {p})
<1> DEFINE next == Neighbours(t, p)
           H == [H_list EXCEPT ![t] = (H_list[t] \ {p}) \cup next]
           A == poiADJMark \cup next
<1>1. /\ Loaded /\ Placed(db) /\ nvd = Diagrams /\ user \in Users
      /\ filled \subseteq Keywords(user) /\ DOMAIN H_list = filled
      /\ H_list[t] \subseteq With(t) \cap poiADJMark
  BY DEF Inv, DataLoaded, Control, HeapsHold
<1>2. next \subseteq With(t) /\ t \in Terms
  <2>1. t \in Terms /\ p \in With(t)
    BY <1>1 DEF Placed, Keywords
  <2> QED BY <1>1, <2>1, ReadHasKeyword DEF Neighbours
<1>3. Pushed(poiADJMark, filled, H_list) /\ Waiting(poiADJMark, filled, H_list, poiMark)
  BY DEF Exact
<1>4. H[t] = (H_list[t] \ {p}) \cup next /\ \A x \in filled : x # t => H[x] = H_list[x]
  BY <1>1
<1>5. \A x \in filled : x # t => With(x) \cap next = {}
  <2>1. Frequent(t) => \A x \in filled : x # t => With(x) \cap With(t) = {}
    BY <1>1 DEF Ordered, Unshared
  <2> QED BY <1>2, <2>1 DEF Neighbours
<1>6. Frequent(t) => getPOIAdj(p, t) \subseteq A
  BY DEF Neighbours
<1> HIDE DEF H, next
<1>7. Pushed(A, filled, H)
  <2>1. ASSUME NEW q \in A
        PROVE  \E x \in filled : q \in With(x)
    BY <1>2, <1>3 DEF Pushed
  <2>2. ASSUME NEW x \in filled, Frequent(x)
        PROVE  /\ NearEnds(x) \subseteq A
               /\ \A q \in (With(x) \cap A) \ H[x] : getPOIAdj(q, x) \subseteq A
    <3>1. /\ NearEnds(x) \subseteq poiADJMark
          /\ \A q \in (With(x) \cap poiADJMark) \ H_list[x] : getPOIAdj(q, x) \subseteq poiADJMark
      BY <1>3, <2>2 DEF Pushed
    <3>2. CASE x = t
      <4>1. ASSUME NEW q \in (With(t) \cap A) \ H[t]
            PROVE  getPOIAdj(q, t) \subseteq A
        <5>1. CASE q = p
          BY <1>6, <2>2, <3>2, <5>1
        <5>2. CASE q # p
          <6>1. q \in (With(t) \cap poiADJMark) \ H_list[t]
            BY <1>4, <5>2
          <6> QED BY <3>1, <3>2, <6>1
        <5> QED BY <5>1, <5>2
      <4> QED BY <3>1, <3>2, <4>1
    <3>3. CASE x # t
      <4>1. With(x) \cap A = With(x) \cap poiADJMark
        BY <1>5, <3>3
      <4> QED BY <1>4, <3>1, <3>3, <4>1
    <3> QED BY <3>2, <3>3
  <2>3. \A x \in filled : Frequent(x) \/ With(x) \subseteq A
    BY <1>3 DEF Pushed
  <2> QED BY <2>1, <2>2, <2>3 DEF Pushed
<1>8. Waiting(A, filled, H, poiMark \cup {p})
  <2> SUFFICES ASSUME NEW x \in filled, NEW q \in With(x) \ (poiMark \cup {p})
               PROVE  q \in H[x] \/ (Frequent(x) /\ q \notin A)
    BY DEF Waiting
  <2>1. q \in H_list[x] \/ (Frequent(x) /\ q \notin poiADJMark)
    BY <1>3 DEF Waiting
  <2>2. CASE x = t
    BY <1>4, <2>1, <2>2
  <2>3. CASE x # t
    BY <1>4, <1>5, <2>1, <2>3
  <2> QED BY <2>2, <2>3
<1> QED BY <1>7, <1>8 DEF H, next

\* The heap polled, and those that are not, keep the distances of their tops.
LEMMA PollTops ==
  ASSUME Inv, Exact, NEW t \in DOMAIN Queue, NEW p \in H_list[t]
  PROVE  LET heap == (H_list[t] \ {p}) \cup Neighbours(t, p)
         IN  Topped(filled, [H_list EXCEPT ![t] = heap],
                    [Queue EXCEPT ![t] = IF heap = {} THEN dist(p) ELSE Min({dist(q) : q \in heap})])
<1> DEFINE heap == (H_list[t] \ {p}) \cup Neighbours(t, p)
           H == [H_list EXCEPT ![t] = heap]
           top == IF heap = {} THEN dist(p) ELSE Min({dist(q) : q \in heap})
           Q == [Queue EXCEPT ![t] = top]
<1>1. /\ Loaded /\ Placed(db) /\ nvd = Diagrams /\ user \in Users
      /\ filled \subseteq Keywords(user) /\ DOMAIN H_list = filled /\ DOMAIN Queue \subseteq filled
      /\ H_list[t] \subseteq With(t)
  BY DEF Inv, DataLoaded, Control, HeapsHold
<1>2. t \in Terms /\ p \in With(t) /\ With(t) \subseteq Pois
  BY <1>1 DEF Placed, Keywords, With
<1>3. heap \in SUBSET Pois
  BY <1>1, <1>2, ReadHasKeyword DEF Neighbours
<1>4. Topped(filled, H_list, Queue)
  BY DEF Exact
<1>5. top \in Nat /\ \A q \in heap : top <= dist(q)
  <2> HIDE DEF heap
  <2>1. CASE heap = {}
    BY <1>1, <1>2, <2>1, DistTypes
  <2>2. CASE heap # {}
    BY <1>1, <1>3, <2>2, NearestOfSome
  <2> QED BY <2>1, <2>2
<1>6. /\ \A x \in filled : H[x] = IF x = t THEN heap ELSE H_list[x]
      /\ DOMAIN Q = DOMAIN Queue
      /\ \A x \in DOMAIN Queue : Q[x] = IF x = t THEN top ELSE Queue[x]
  BY <1>1
<1> HIDE DEF H, Q, heap, top
<1>7. Topped(filled, H, Q)
  BY <1>1, <1>4, <1>5, <1>6 DEF Topped
<1> QED BY <1>7 DEF H, Q, heap, top

\* The answer of the start, an empty one, is exact.
LEMMA ExactInit == Loaded /\ TopInit /\ Given => Exact
BY DEF TopInit, TopStart, Prepared, Exact, Pushed, Waiting, Topped, KeptSoFar

\* A step of the query does what is exact.
LEMMA ExactNext == Inv /\ Exact /\ [TopNext]_topVars => Exact'
<1> SUFFICES ASSUME Inv, Exact, [TopNext]_topVars
             PROVE  Exact'
  OBVIOUS
<1>1. /\ Loaded /\ Placed(db) /\ nvd = Diagrams /\ user \in Users /\ Ranking(resultFinal)
      /\ DOMAIN H_list = filled /\ DOMAIN Queue \subseteq filled /\ filled \subseteq Keywords(user)
      /\ Given /\ ShortestPaths /\ OneTree /\ CellsAtHome
  BY DEF Inv, DataLoaded, ResultsRank, Control, Exact, Given
<1>2. UNCHANGED dataVars
  BY DEF TopNext, CheckIn, EndCheckIns, Fill, PollEmpty, Poll, Return, topVars
<1>3. /\ Given' = Given /\ Ordered' = Ordered /\ user' = user /\ score' = score
      /\ \A A, F, H : Pushed(A, F, H)' = Pushed(A, F, H)
      /\ \A A, F, H, M : Waiting(A, F, H, M)' = Waiting(A, F, H, M)
      /\ \A F, H, Q : Topped(F, H, Q)' = Topped(F, H, Q)
      /\ \A M, R : KeptSoFar(M, R)' = KeptSoFar(M, R)
      /\ \A R, Q : Settled(R, Q)' = Settled(R, Q)
  BY <1>2, SameReads, SameData
<1> SUFFICES /\ Ordered => /\ Pushed(poiADJMark', filled', H_list')
                           /\ Waiting(poiADJMark', filled', H_list', poiMark')
             /\ Topped(filled', H_list', Queue')
             /\ KeptSoFar(poiMark', resultFinal')
             /\ pc' = "return" => Settled(resultFinal', Queue')
             /\ pc' = "done" => (Ordered => Same(topkScore', score.topk[user]))
  <2>1. Pushed(poiADJMark, filled, H_list)' = Pushed(poiADJMark', filled', H_list')
    BY <1>3
  <2>2. Waiting(poiADJMark, filled, H_list, poiMark)' = Waiting(poiADJMark', filled', H_list', poiMark')
    BY <1>3
  <2>3. Topped(filled, H_list, Queue)' = Topped(filled', H_list', Queue')
    BY <1>3
  <2>4. KeptSoFar(poiMark, resultFinal)' = KeptSoFar(poiMark', resultFinal')
    BY <1>3
  <2>5. Settled(resultFinal, Queue)' = Settled(resultFinal', Queue')
    BY <1>3
  <2> QED BY <1>1, <1>3, <2>1, <2>2, <2>3, <2>4, <2>5 DEF Exact, ExactUnshared
<1>4. /\ Ordered => /\ Pushed(poiADJMark, filled, H_list)
                    /\ Waiting(poiADJMark, filled, H_list, poiMark)
      /\ Topped(filled, H_list, Queue)
      /\ KeptSoFar(poiMark, resultFinal)
  BY DEF Exact
<1>5. CASE UNCHANGED topVars
  BY <1>4, <1>5 DEF topVars, Exact, ExactUnshared
<1>6. CASE CheckIn
  <2>1. /\ pc = "social" /\ UNCHANGED <<filled, poiADJMark, H_list, Queue, pc>>
    BY <1>6 DEF CheckIn
  <2>2. PICK p \in CheckIns \ poiMark :
          /\ poiMark' = poiMark \cup {p}
          /\ resultFinal' = IF Shared(user, p) = {} THEN resultFinal
                            ELSE Insert(resultFinal, <<p, GSKScore(user, p)>>)
    BY <1>6 DEF CheckIn
  <2>3. KeptSoFar(poiMark', resultFinal')
    <3>1. p \in Pois /\ (\A e \in resultFinal : e[1] # p) /\ RelatedPois(user) \subseteq Pois
      BY <2>2 DEF CheckIns, Inv, ResultsRank, RelatedPois
    <3>2. CASE Shared(user, p) = {}
      BY <1>4, <2>2, <3>2 DEF KeptSoFar, RelatedPois
    <3>3. CASE Shared(user, p) # {}
      <4>1. p \in RelatedPois(user)
        BY <3>1, <3>3 DEF RelatedPois
      <4>2. Kept(resultFinal', p) /\ \A q \in Pois : Kept(resultFinal, q) => Kept(resultFinal', q)
        BY <1>1, <2>2, <3>1, <3>3, <4>1, InsertRanks
      <4> QED BY <1>4, <2>2, <3>1, <4>2 DEF KeptSoFar
    <3> QED BY <3>2, <3>3
  <2>4. Waiting(poiADJMark, filled, H_list, poiMark) => Waiting(poiADJMark, filled, H_list, poiMark')
    BY <2>2 DEF Waiting
  <2> QED BY <1>4, <2>1, <2>3, <2>4
<1>7. CASE EndCheckIns
  BY <1>4, <1>7 DEF EndCheckIns
<1>8. CASE Fill
  <2>1. PICK t \in Keywords(user) \ filled :
          \E first \in {IF Frequent(t) THEN NearUser(t) ELSE With(t)} :
            /\ filled' = filled \cup {t}
            /\ H_list' = Put(H_list, t, first)
            /\ poiADJMark' = poiADJMark \cup first
            /\ Queue' = Put(Queue, t, Min({dist(p) : p \in first}))
    BY <1>8 DEF Fill
  <2> DEFINE first == IF Frequent(t) THEN NearUser(t) ELSE With(t)
             top == Min({dist(p) : p \in first})
  <2>2. /\ filled' = filled \cup {t} /\ H_list' = Put(H_list, t, first)
        /\ poiADJMark' = poiADJMark \cup first /\ Queue' = Put(Queue, t, top)
        /\ pc' \in {"poll", "fill"} /\ UNCHANGED <<poiMark, resultFinal>>
    BY <1>8, <2>1 DEF Fill
  <2>3. first # {} /\ first \in SUBSET Pois
    <3>1. first # {}
      BY <1>1, FirstIsSome DEF Given
    <3>2. first \subseteq With(t)
      BY <1>1, FirstHasKeyword
    <3> QED BY <3>1, <3>2 DEF With
  <2>4. Ordered => /\ Pushed(poiADJMark', filled', H_list')
                   /\ Waiting(poiADJMark', filled', H_list', poiMark')
    BY <2>2, FillPushes
  <2> HIDE DEF first
  <2>5. top \in Nat /\ \A p \in first : top <= dist(p)
    BY <1>1, <2>3, NearestOfSome
  <2> HIDE DEF top
  <2>6. Topped(filled', H_list', Queue')
    <3>1. \A x \in filled' : H_list'[x] = IF x = t THEN first ELSE H_list[x]
      BY <1>1, <2>2 DEF Put
    <3>2. /\ DOMAIN Queue' = DOMAIN Queue \cup {t}
          /\ \A x \in DOMAIN Queue' : Queue'[x] = IF x = t THEN top ELSE Queue[x]
      BY <2>2 DEF Put
    <3>3. \A x \in filled' : H_list'[x] # {} => x \in DOMAIN Queue'
      BY <1>4, <2>2, <3>1, <3>2 DEF Topped
    <3>4. ASSUME NEW x \in DOMAIN Queue'
          PROVE  Queue'[x] \in Nat /\ \A p \in H_list'[x] : Queue'[x] <= dist(p)
      <4>1. CASE x = t
        BY <2>2, <2>5, <3>1, <3>2, <4>1
      <4>2. CASE x # t
        <5>1. x \in DOMAIN Queue /\ x \in filled' /\ Queue'[x] = Queue[x] /\ H_list'[x] = H_list[x]
          BY <1>1, <2>2, <3>1, <3>2, <4>2
        <5> QED BY <1>4, <5>1 DEF Topped
      <4> QED BY <4>1, <4>2
    <3> QED BY <3>3, <3>4 DEF Topped
  <2> QED BY <1>4, <2>2, <2>4, <2>6
<1>9. CASE PollEmpty
  <2>1. PICK t \in DOMAIN Queue : H_list[t] = {} /\ Queue' = [x \in (DOMAIN Queue) \ {t} |-> Queue[x]]
    BY <1>9 DEF PollEmpty
  <2>2. pc = "poll" /\ UNCHANGED <<filled, poiMark, poiADJMark, H_list, resultFinal, pc>>
    BY <1>9 DEF PollEmpty
  <2>3. Topped(filled', H_list', Queue')
    BY <1>4, <2>1, <2>2 DEF Topped
  <2> QED BY <1>4, <2>2, <2>3
<1>10. CASE Poll
  <2> DEFINE heapOf(t, p) == (H_list[t] \ {p}) \cup Neighbours(t, p)
             After(t, p) ==
             /\ H_list' = [H_list EXCEPT ![t] = heapOf(t, p)]
             /\ Queue' = [Queue EXCEPT ![t] = IF heapOf(t, p) = {} THEN dist(p)
                                              ELSE Min({dist(q) : q \in heapOf(t, p)})]
             /\ poiADJMark' = poiADJMark \cup Neighbours(t, p)
             /\ IF Scored(p) THEN UNCHANGED <<poiMark, resultFinal, score_rk, pc>>
                ELSE /\ poiMark' = poiMark \cup {p}
                     /\ resultFinal' = Insert(resultFinal, <<p, PolledScore(p)>>)
                     /\ pc' = IF Settled(resultFinal', Queue') THEN "return" ELSE "poll"
  <2>0. PICK t \in DOMAIN Queue : \E p \in H_list[t] : After(t, p)
    BY <1>10 DEF Poll
  <2>1. PICK p \in H_list[t] : After(t, p)
    BY <2>0
  <2>2. pc = "poll" /\ filled' = filled /\ filled = Keywords(user) /\ t \in filled
        /\ CheckIns \subseteq poiMark
    BY <1>1, <1>10 DEF Poll, Inv, Control
  <2>3. p \in Pois /\ p \in RelatedPois(user) /\ RelatedPois(user) \subseteq Pois
    <3>1. p \in With(t)
      BY <2>2 DEF Inv, HeapsHold
    <3> QED BY <2>2, <3>1 DEF With, RelatedPois, Shared, Keywords
  <2>4. poiMark' = poiMark \cup {p}
    BY <2>1 DEF Scored
  <2>5. Ordered => /\ Pushed(poiADJMark', filled', H_list')
                   /\ Waiting(poiADJMark', filled', H_list', poiMark')
    BY <2>1, <2>2, <2>4, PollPushes
  <2>6. Topped(filled', H_list', Queue')
    BY <2>1, <2>2, PollTops
  <2>7. KeptSoFar(poiMark', resultFinal')
    <3>1. CASE Scored(p)
      BY <1>4, <2>1, <2>4, <3>1 DEF Scored, KeptSoFar
    <3>2. CASE ~Scored(p)
      <4>1. PolledScore(p) = GSKScore(user, p) /\ \A e \in resultFinal : e[1] # p
        BY <1>1, <2>2, <2>3, <3>2, PolledIsScore DEF Scored, Inv, ResultsRank
      <4>2. Kept(resultFinal', p) /\ \A q \in Pois : Kept(resultFinal, q) => Kept(resultFinal', q)
        BY <1>1, <2>1, <2>3, <3>2, <4>1, InsertRanks
      <4> QED BY <1>4, <2>3, <2>4, <4>2 DEF KeptSoFar
    <3> QED BY <3>1, <3>2
  <2>8. pc' \in {"poll", "return"} /\ (pc' = "return" => Settled(resultFinal', Queue'))
    BY <2>1, <2>2
  <2> QED BY <2>5, <2>6, <2>7, <2>8
<1>11. CASE Return
  <2>1. /\ pc = "return" \/ (pc = "poll" /\ ~Promising)
        /\ topkScore' = Worst(resultFinal)[2] /\ pc' = "done"
        /\ UNCHANGED <<filled, poiMark, poiADJMark, H_list, Queue, resultFinal>>
    BY <1>11 DEF Return
  <2>2. ASSUME Ordered
        PROVE  Same(topkScore', score.topk[user])
    <3>1. \A p \in RelatedPois(user) : Kept(resultFinal, p)
      BY <2>1, <2>2, StopsKept
    <3>2. RelatedPois(user) # {}
      <4>1. PICK t \in Keywords(user) : With(t) # {}
        BY <1>1, <2>1 DEF Given, Inv, Control
      <4> QED BY <4>1 DEF With, RelatedPois, Shared, Keywords
    <3>3. Same(Worst(resultFinal)[2], TopkScore(user))
      BY <1>1, <3>1, <3>2, RankingExact
    <3> QED BY <2>1, <3>3 DEF Inv, DataLoaded
  <2> QED BY <1>4, <2>1, <2>2
<1> QED BY <1>5, <1>6, <1>7, <1>8, <1>9, <1>10, <1>11 DEF TopNext

\* Where keywords share no POI, no POI on the user's own road is passed over and
\* no way taken is a detour (Ordered), a heap that grows along the diagram gives
\* the POIs in order of distance: to none that it has not come to is its top
\* farther (query_basic.h:13110).
THEOREM HeapsInOrder == Loaded => (TopSpec /\ Given => []FrontierNear)
<1>1. Inv /\ Exact => FrontierNear
  <2> SUFFICES ASSUME Inv, Exact, Ordered, NEW t \in DOMAIN Queue, NEW p \in With(t) \ poiADJMark,
                      pc = "poll"
               PROVE  Queue[t] <= dist(p)
    BY DEF FrontierNear
  <2>1. t \in filled /\ DOMAIN H_list = filled
    BY DEF Inv, Control
  <2>2. CASE Frequent(t)
    BY <2>1, <2>2, NearestIsPushed
  <2>3. CASE ~Frequent(t)
    BY <2>1, <2>3 DEF Exact, Pushed
  <2> QED BY <2>2, <2>3
<1> QED BY <1>1, TopEstablished, TopKept, ExactInit, ExactNext, PTL DEF TopSpec

\* On the same conditions the query returns the score of the user's K-th best
\* POI, whichever way it ends (query_basic.h:13085, 13188).
THEOREM QueryExact == Loaded => (TopSpec /\ Given => []ExactUnshared)
<1>1. Inv /\ Exact => ExactUnshared
  BY DEF Exact, ExactUnshared
<1> QED BY <1>1, TopEstablished, TopKept, ExactInit, ExactNext, PTL DEF TopSpec

\* All that is said of the answers of the query (query_basic.h:12813): what it
\* has scored and what it may cut off, always; in which order POIs come to it, and
\* the true K-th best score, where Ordered.
THEOREM TopAnswers == Loaded => (TopSpec /\ Given => []AnswersExact)
<1>1. AnswersExact <=> TopTypeOK /\ ResultsTrue /\ NoneCutOff /\ FrontierNear /\ ExactUnshared
  BY DEF AnswersExact
<1> QED BY <1>1, TopTypes, ScoredTruly, NothingCutOff, HeapsInOrder, QueryExact, PTL

-----------------------------------------------------------------------------
(* The lower bound of a user, over the same data.                          *)

\* A finite set in some order: all of it, and nothing twice.
LEMMA SetInOrder ==
  ASSUME NEW S, IsFiniteSet(S)
  PROVE  /\ SetToSeq(S) \in Seq(S) /\ IsInjective(SetToSeq(S))
         /\ ToSet(SetToSeq(S)) = S
<1> DEFINE n == Cardinality(S)
           f == SetToSeq(S)
<1>1. n \in Nat /\ ExistsBijection(1 .. n, S)
  BY FS_CardinalityType
<1>2. \E g \in [1 .. n -> S] : IsInjective(g)
  BY <1>1 DEF ExistsBijection, Bijection, Injection, IsInjective
<1>3. f \in [1 .. n -> S] /\ IsInjective(f)
  BY <1>2 DEF SetToSeq
<1>4. f \in Seq(S) /\ DOMAIN f = 1 .. n
  BY <1>1, <1>3
<1> HIDE DEF f
<1>5. f \in Injection(1 .. n, S)
  BY <1>3 DEF Injection, IsInjective
<1>6. IsFiniteSet(1 .. n) /\ Cardinality(1 .. n) = n
  BY <1>1, FS_Interval
<1>7. f \in Surjection(1 .. n, S)
  BY <1>5, <1>6, FS_Injection
<1>8. ToSet(f) = S
  BY <1>3, <1>7 DEF ToSet, Surjection
<1> QED BY <1>3, <1>4, <1>8 DEF f

\* What is promised by a POI is no more than its score for the user.
LEMMA BoundIsBelow ==
  ASSUME UpperAbove, Placed(db), usr \in Users, NEW p \in RelatedPois(usr)
  PROVE  /\ Bound(p) \in Fractions /\ GSKScore(usr, p) \in Fractions
         /\ ~Less(GSKScore(usr, p), Bound(p))
<1> DEFINE w == tfIDF_termSet(Shared(usr, p))
           d == 1 + UpperOfUser(usr, p)
           e == 1 + Far(p)
<1>1. p \in Pois /\ Shared(usr, p) # {}
  BY DEF RelatedPois
<1>2. /\ Shared(usr, p) \in SUBSET Terms /\ db.uAt[usr] \in Vertices /\ db.pAt[p] \in Vertices
      /\ db.uDis[usr] \in Nat /\ db.pDis[p] \in Nat
  BY <1>1 DEF Placed, Shared
<1>3. w \in Nat /\ Alpha \in Nat
  BY <1>2, WeightsAdd, RoadAssumption
<1>4. d \in Nat \ {0} /\ e \in Nat \ {0} /\ d <= e
  <2>1. Dist[db.uAt[usr]][db.pAt[p]] \in Nat
    BY <1>2, RoadAssumption
  <2>2. /\ Upper[db.uAt[usr]][db.pAt[p]] \in Nat
        /\ Dist[db.uAt[usr]][db.pAt[p]] <= Upper[db.uAt[usr]][db.pAt[p]]
    BY <1>2 DEF UpperAbove
  <2>3. /\ UpperOfUser(usr, p) = Dist[db.uAt[usr]][db.pAt[p]] + db.pDis[p] + db.uDis[usr]
        /\ Far(p) = Upper[db.uAt[usr]][db.pAt[p]] + db.uDis[usr] + db.pDis[p]
    BY DEF UpperOfUser, UpperDist, Far
  <2> QED BY <1>2, <2>1, <2>2, <2>3
<1>5. /\ TextScore(usr, p) = <<Alpha + w, d>> /\ Bound(p) = <<Alpha + w, e>>
  BY DEF TextScore, Bound
<1> HIDE DEF w, d, e
<1>6. Alpha + w \in Nat
  BY <1>3
<1>7. Bound(p) \in Fractions
  BY <1>4, <1>5, <1>6 DEF Fractions
<1>8. \A n \in Nat : n * d <= n * e
  BY <1>4
<1>9. ~Less(TextScore(usr, p), Bound(p))
  <2>1. (Alpha + w) * d \in Nat /\ (Alpha + w) * e \in Nat /\ (Alpha + w) * d <= (Alpha + w) * e
    BY <1>4, <1>6, <1>8
  <2> QED BY <1>5, <2>1 DEF Less
<1>10. /\ GSKScore(usr, p) \in Fractions /\ TextScore(usr, p) \in Fractions
       /\ ~Less(GSKScore(usr, p), TextScore(usr, p))
  BY <1>1, ScoreTypes
<1> QED BY <1>7, <1>9, <1>10, LessTransitive

\* The K-th best of what the polled POIs promise is a lower bound.
LEMMA PolledBound ==
  ASSUME UpperAbove, Placed(db), usr \in Users, polled \in Seq(RelatedPois(usr)),
         IsInjective(polled), Len(polled) >= K
  PROVE  ~Less(TopkScore(usr), KthBest([j \in DOMAIN polled |-> Bound(polled[j])]))
<1> DEFINE sc == [j \in DOMAIN polled |-> Bound(polled[j])]
           good == {j \in DOMAIN polled : ~Less(sc[j], KthBest(sc))}
           S == {polled[j] : j \in good}
<1>1. K \in Nat \ {0} /\ Len(polled) \in Nat /\ DOMAIN polled = 1 .. Len(polled)
  BY RoadAssumption
<1>2. IsFiniteSet(DOMAIN polled) /\ Cardinality(DOMAIN polled) = Len(polled)
  BY <1>1, FS_Interval
<1>3. DOMAIN polled # {}
  BY <1>1
<1>4. \A j \in DOMAIN polled : polled[j] \in RelatedPois(usr)
  OBVIOUS
<1>5. DOMAIN sc = DOMAIN polled /\ \A j \in DOMAIN sc : sc[j] = Bound(polled[j]) /\ sc[j] \in Fractions
  BY <1>4, BoundIsBelow
<1>6. KthBest(sc) \in Fractions /\ Cardinality(good) >= K
  <2> HIDE DEF sc
  <2> QED BY <1>2, <1>3, <1>5, KthBestIsKth
<1>7. IsFiniteSet(S) /\ Cardinality(S) = Cardinality(good)
  <2> DEFINE f == [j \in good |-> polled[j]]
  <2>1. good \in SUBSET DOMAIN polled
    OBVIOUS
  <2>2. f \in Bijection(good, S)
    <3>1. \A a, b \in good : polled[a] = polled[b] => a = b
      BY <2>1 DEF IsInjective
    <3> HIDE DEF good
    <3> QED BY <3>1 DEF Bijection, Injection, Surjection, IsInjective
  <2>3. IsFiniteSet(good)
    BY <1>2, <2>1, FS_Subset
  <2> HIDE DEF f, good, S
  <2> QED BY <2>2, <2>3, FS_Bijection DEF ExistsBijection
<1>8. S \in SUBSET RelatedPois(usr)
  BY <1>4
<1>9. ASSUME NEW p \in S
      PROVE  ~Less(GSKScore(usr, p), KthBest(sc))
  <2>1. PICK j \in good : p = polled[j]
    OBVIOUS
  <2>2. /\ Bound(p) \in Fractions /\ GSKScore(usr, p) \in Fractions
        /\ ~Less(GSKScore(usr, p), Bound(p))
    BY <1>8, BoundIsBelow
  <2>3. ~Less(Bound(p), KthBest(sc))
    BY <2>1
  <2> HIDE DEF sc
  <2> QED BY <1>6, <2>2, <2>3, LessTransitive
<1> HIDE DEF sc, good, S
<1>10. ~Less(TopkScore(usr), KthBest(sc))
  BY <1>6, <1>7, <1>8, <1>9, KthIsOver
<1> QED BY <1>10 DEF sc

\* The data read, which nothing changes.
BoundLoaded ==
  /\ Loaded /\ UpperAbove /\ Placed(db) /\ nvd = Diagrams /\ usr \in Users
  /\ \A u \in Users : score.topk[u] = TopkScore(u)

\* What is polled are POIs of the user's keywords, each once; an entry of the
\* queue is one of them, under a keyword it has.
PolledRelated ==
  /\ polled \in Seq(Pois) /\ IsInjective(polled)
  /\ \A e \in boundQueue : e[1] \in ToSet(polled) \cap With(e[2])
  /\ at \in {"fill", "poll"} => /\ ToSet(polled) \subseteq RelatedPois(usr)
                               /\ \A e \in boundQueue : e[2] \in Keywords(usr)

\* A kept bound is one still.
KeptBounds ==
  /\ DOMAIN usr_SBCache \subseteq Users
  /\ \A u \in DOMAIN usr_SBCache : RelatedPois(u) # {} => ~Less(score.topk[u], usr_SBCache[u])

IInv ==
  /\ BoundLoaded /\ PolledRelated /\ KeptBounds /\ IsLowerBound
  /\ at \in {"idle", "fill", "poll", "undefined"}
  /\ (at = "fill" => listed \subseteq Keywords(usr))

\* Neither answer given without a bound is above a score.
LEMMA NoBoundIsBelow ==
  ASSUME Placed(db), NEW u \in Users, RelatedPois(u) # {}
  PROVE  ~Less(TopkScore(u), Neither) /\ ~Less(TopkScore(u), <<0, 1>>)
<1> DEFINE D == RelatedPois(u)
<1>1. D \in SUBSET Pois /\ IsFiniteSet(D)
  <2>1. D \in SUBSET Pois
    BY DEF RelatedPois
  <2> HIDE DEF D
  <2> QED BY <2>1, RoadAssumption, FS_Subset
<1>2. DOMAIN Gsk(u) = D /\ \A p \in D : Gsk(u)[p] \in Fractions
  BY <1>1, ScoreTypes DEF Gsk
<1>3. TopkScore(u) = KthBest(Gsk(u))
  BY DEF TopkScore, Gsk
<1>4. TopkScore(u) \in Fractions
  BY <1>1, <1>2, <1>3, KthBestIsKth
<1>5. ASSUME NEW x \in Fractions
      PROVE  ~Less(x, Neither) /\ ~Less(x, <<0, 1>>)
  BY <1>5 DEF Less, Fractions, Neither
<1> HIDE DEF D
<1> QED BY <1>4, <1>5

\* Pushing POIs of one of the user's keywords keeps what is polled in order.
LEMMA PushKeeps ==
  ASSUME IInv, at \in {"fill", "poll"}, NEW t \in Keywords(usr),
         NEW S \in SUBSET With(t), NEW Q \in SUBSET boundQueue, Push(S, t, Q),
         UNCHANGED <<lclData, usr>>, at' \in {"fill", "poll"}
  PROVE  PolledRelated'
<1> DEFINE new == NotPolled(S)
           more == SetToSeq(new)
<1>1. new \in SUBSET Pois /\ IsFiniteSet(new) /\ new \cap ToSet(polled) = {} /\ new \in SUBSET With(t)
  <2>1. new \in SUBSET Pois /\ new \cap ToSet(polled) = {} /\ new \in SUBSET With(t)
    BY DEF With, NotPolled
  <2> HIDE DEF new
  <2> QED BY <2>1, RoadAssumption, FS_Subset
<1>2. more \in Seq(new) /\ IsInjective(more) /\ ToSet(more) = new
  <2> HIDE DEF new
  <2> QED BY <1>1, SetInOrder
<1>3. polled' = polled \o more /\ boundQueue' = Q \cup {<<p, t>> : p \in new}
  BY DEF Push
<1>4. polled \in Seq(Pois) /\ IsInjective(polled)
  BY DEF IInv, PolledRelated
<1> HIDE DEF more, new
<1>5. polled' \in Seq(Pois)
  <2>1. more \in Seq(Pois)
    BY <1>1, <1>2
  <2> QED BY <1>3, <1>4, <2>1
<1>6. ToSet(polled') = ToSet(polled) \cup new
  <2>1. DOMAIN polled' = 1 .. Len(polled) + Len(more)
    BY <1>2, <1>3, <1>4
  <2>2. \A j \in DOMAIN polled' : polled'[j] \in ToSet(polled) \cup ToSet(more)
    BY <1>2, <1>3, <1>4 DEF ToSet
  <2>3. ASSUME NEW p \in ToSet(polled) \cup ToSet(more)
        PROVE  \E j \in DOMAIN polled' : polled'[j] = p
    <3>1. CASE p \in ToSet(polled)
      <4>1. PICK j \in DOMAIN polled : p = polled[j]
        BY <3>1 DEF ToSet
      <4>2. j \in DOMAIN polled' /\ polled'[j] = p
        BY <1>2, <1>3, <1>4, <4>1
      <4> QED BY <4>2
    <3>2. CASE p \in ToSet(more)
      <4>1. PICK j \in DOMAIN more : p = more[j]
        BY <3>2 DEF ToSet
      <4>2. Len(polled) + j \in DOMAIN polled' /\ polled'[Len(polled) + j] = p
        BY <1>2, <1>3, <1>4, <4>1
      <4> QED BY <4>2
    <3> QED BY <3>1, <3>2
  <2>4. ToSet(polled') = ToSet(polled) \cup ToSet(more)
    BY <2>2, <2>3 DEF ToSet
  <2> QED BY <1>2, <2>4
<1>7. IsInjective(polled')
  <2> SUFFICES ASSUME NEW a \in DOMAIN polled', NEW b \in DOMAIN polled', polled'[a] = polled'[b]
               PROVE  a = b
    BY DEF IsInjective
  <2>1. a \in 1 .. Len(polled) + Len(more) /\ b \in 1 .. Len(polled) + Len(more)
        /\ Len(polled) \in Nat /\ Len(more) \in Nat
    BY <1>2, <1>3, <1>4
  <2>2. \A j \in 1 .. Len(polled) : j \in DOMAIN polled /\ polled'[j] = polled[j] /\ polled[j] \in ToSet(polled)
    BY <1>2, <1>3, <1>4 DEF ToSet
  <2>3. \A j \in (Len(polled) + 1) .. (Len(polled) + Len(more)) :
          /\ j - Len(polled) \in DOMAIN more /\ polled'[j] = more[j - Len(polled)]
          /\ more[j - Len(polled)] \in new
    BY <1>2, <1>3, <1>4 DEF ToSet
  <2>4. CASE a <= Len(polled) /\ b <= Len(polled)
    <3>1. a \in DOMAIN polled /\ b \in DOMAIN polled /\ polled[a] = polled[b]
      BY <2>1, <2>2, <2>4
    <3> QED BY <1>4, <3>1 DEF IsInjective
  <2>5. CASE a > Len(polled) /\ b > Len(polled)
    <3>1. /\ a - Len(polled) \in DOMAIN more /\ b - Len(polled) \in DOMAIN more
          /\ more[a - Len(polled)] = more[b - Len(polled)]
      BY <2>1, <2>3, <2>5
    <3>2. a - Len(polled) = b - Len(polled)
      BY <1>2, <3>1 DEF IsInjective
    <3> QED BY <2>1, <3>2
  <2>6. CASE a <= Len(polled) /\ b > Len(polled)
    BY <1>1, <2>1, <2>2, <2>3, <2>6
  <2>7. CASE a > Len(polled) /\ b <= Len(polled)
    BY <1>1, <2>1, <2>2, <2>3, <2>7
  <2> QED BY <2>1, <2>4, <2>5, <2>6, <2>7
<1>8. With(t) \subseteq RelatedPois(usr)
  BY DEF With, RelatedPois, Shared, Keywords
<1>9. ASSUME NEW e \in boundQueue'
       PROVE  e[1] \in ToSet(polled') \cap With(e[2]) /\ e[2] \in Keywords(usr)
  <2>1. CASE e \in boundQueue
    BY <1>6, <2>1 DEF IInv, PolledRelated
  <2>2. CASE e \in {<<p, t>> : p \in new}
    BY <1>1, <1>6, <2>2
  <2> QED BY <1>3, <2>1, <2>2
<1>10. \A e \in boundQueue' : e[1] \in ToSet(polled') \cap With(e[2])' /\ e[2] \in Keywords(usr)'
  BY <1>9 DEF With, Keywords, lclData
<1>11. ToSet(polled') \subseteq RelatedPois(usr)'
  <2>1. ToSet(polled') \subseteq RelatedPois(usr)
    BY <1>1, <1>6, <1>8 DEF IInv, PolledRelated
  <2> QED BY <2>1 DEF RelatedPois, Shared, lclData
<1> QED BY <1>5, <1>7, <1>10, <1>11 DEF PolledRelated

-----------------------------------------------------------------------------
(* The lower bound.                                                        *)

\* At first no bound is kept, and none is returned.
LEMMA BoundInit == Loaded /\ UpperAbove /\ LCLInit => IInv
<1> SUFFICES ASSUME Loaded, UpperAbove, LCLInit
             PROVE  IInv
  OBVIOUS
<1>1. Placed(db) /\ usr \in Users /\ nvd = Diagrams
  BY DEF LCLInit, LCLStart, Prepared, Loaded
<1>2. \A u \in Users : score.topk[u] = TopkScore(u)
  BY DEF LCLInit, LCLStart, Prepared
<1>3. BoundLoaded
  BY <1>1, <1>2 DEF BoundLoaded
<1>4. PolledRelated
  BY DEF LCLInit, LCLStart, Prepared, PolledRelated, IsInjective
<1>5. KeptBounds
  BY DEF LCLInit, LCLStart, Prepared, KeptBounds
<1>6. IsLowerBound
  <2> SUFFICES ASSUME RelatedPois(usr) # {}
               PROVE  ~Less(TopkScore(usr), Neither)
    BY <1>1, <1>2 DEF IsLowerBound, LCLInit, LCLStart, Prepared
  <2> QED BY <1>1, NoBoundIsBelow
<1> QED BY <1>3, <1>4, <1>5, <1>6 DEF IInv, LCLInit, LCLStart, Prepared

\* Every step of a call, and every call, leaves the bounds what they are.
LEMMA BoundNext == IInv /\ [LCLNext]_lclVars => IInv'
<1> SUFFICES ASSUME IInv, [LCLNext]_lclVars
             PROVE  IInv'
  OBVIOUS
<1>1. /\ Loaded /\ UpperAbove /\ Placed(db) /\ nvd = Diagrams /\ usr \in Users
      /\ \A u \in Users : score.topk[u] = TopkScore(u)
  BY DEF IInv, BoundLoaded
<1>2. UNCHANGED lclData /\ usr' \in Users
  BY <1>1 DEF LCLNext, LCLStep, Call, CallCached, LCLFill, EndFill, LCLPoll, LCLPollEmpty, LCLReturn, lclVars
<1>3. BoundLoaded'
  <2>1. \A u \in Users : TopkScore(u)' = TopkScore(u)
    BY <1>2 DEF TopkScore, KthBest, RelatedPois, GSKScore, Shared, usrToPOIDistance, UserDist, lclData
  <2>2. Diagrams' = Diagrams
    BY <1>2 DEF Diagrams, Frequent, getTermOjectInvListSize, nearestOf, adjacencyOf, With, PoiDist, Ends, lclData
  <2>3. Placed(db)' /\ Loaded'
    BY <1>1, <1>2 DEF lclData, Placed, Loaded
  <2>4. UpperAbove'
    BY <1>1 DEF UpperAbove
  <2> QED BY <1>1, <1>2, <2>1, <2>2, <2>3, <2>4 DEF BoundLoaded, lclData
<1>4. \A u : RelatedPois(u)' = RelatedPois(u)
  BY <1>2 DEF RelatedPois, Shared, lclData
<1> \A u : RelatedPois(u) = RelatedPois(u) /\ RelatedPois(u)' = RelatedPois(u)'
  BY DEF RelatedPois, RelatedPois, Shared, Shared
<1>5. CASE UNCHANGED lclVars
  BY <1>3, <1>5 DEF IInv, PolledRelated, KeptBounds, IsLowerBound, RelatedPois, Shared, With, Keywords, lclVars, lclData
<1>6. CASE Call
  <2>1. PolledRelated'
    BY <1>6 DEF Call, PolledRelated, IsInjective, ToSet
  <2>2. KeptBounds'
    BY <1>2, <1>6 DEF Call, IInv, KeptBounds, RelatedPois, Shared, lclData
  <2> QED BY <1>3, <1>6, <2>1, <2>2 DEF Call, IInv, IsLowerBound
<1>7. CASE CallCached
  <2>1. PolledRelated'
    BY <1>7 DEF CallCached, IInv, PolledRelated, With, lclData
  <2>2. KeptBounds'
    BY <1>2, <1>7 DEF CallCached, IInv, KeptBounds, RelatedPois, Shared, lclData
  <2>3. IsLowerBound'
    BY <1>2, <1>7 DEF CallCached, IInv, KeptBounds, IsLowerBound, RelatedPois, Shared, Key, lclData
  <2> QED BY <1>3, <1>7, <2>1, <2>2, <2>3 DEF CallCached, IInv
<1>8. CASE LCLFill
  <2>1. PICK t \in Keywords(usr) \ listed :
          /\ Push(IF Frequent(t) THEN getNNPOIs(db.uAt[usr], t) ELSE With(t), t, boundQueue)
          /\ listed' = listed \cup {t}
    BY <1>8 DEF LCLFill
  <2> DEFINE S == IF Frequent(t) THEN getNNPOIs(db.uAt[usr], t) ELSE With(t)
  <2>2. t \in Terms /\ db.uAt[usr] \in Vertices
    BY <1>1 DEF Placed, Keywords
  <2>3. S \in SUBSET With(t)
    BY <1>1, <2>2, ReadHasKeyword
  <2> HIDE DEF S
  <2>4. PolledRelated'
    <3>1. at = "fill" /\ at' = "fill" /\ usr' = usr
      BY <1>8 DEF LCLFill
    <3>2. Push(S, t, boundQueue)
      BY <2>1 DEF S
    <3> QED BY <1>2, <2>3, <3>1, <3>2, PushKeeps
  <2>5. KeptBounds' /\ listed' \subseteq Keywords(usr)' /\ at' = "fill"
    BY <1>2, <1>8, <2>1 DEF LCLFill, IInv, KeptBounds, RelatedPois, Shared, Keywords, lclData
  <2> QED BY <1>3, <2>4, <2>5 DEF IInv, IsLowerBound
<1>9. CASE EndFill
  <2>1. PolledRelated'
    BY <1>2, <1>9 DEF EndFill, IInv, PolledRelated, With, RelatedPois, Shared, Keywords, lclData
  <2>2. KeptBounds'
    BY <1>2, <1>9 DEF EndFill, IInv, KeptBounds, RelatedPois, Shared, lclData
  <2>3. IsLowerBound'
    <3>1. at' = "idle" => result' \in {Neither, <<0, 1>>}
      BY <1>9 DEF EndFill
    <3>2. RelatedPois(usr) # {} => ~Less(TopkScore(usr), Neither) /\ ~Less(TopkScore(usr), <<0, 1>>)
      BY <1>1, NoBoundIsBelow
    <3>3. usr' = usr /\ RelatedPois(usr)' = RelatedPois(usr) /\ score'.topk[usr] = TopkScore(usr)
      BY <1>1, <1>2, <1>9 DEF EndFill, RelatedPois, Shared, lclData
    <3> QED BY <3>1, <3>2, <3>3 DEF IsLowerBound
  <2> QED BY <1>3, <1>9, <2>1, <2>2, <2>3 DEF EndFill, IInv
<1>10. CASE LCLPoll
  <2>1. PICK e \in boundQueue :
          IF Frequent(e[2])
            THEN Push(Adjacent(e[1], e[2]), e[2], Popped(boundQueue, e)) /\ UNCHANGED at
            ELSE /\ boundQueue' = Popped(boundQueue, e)
                 /\ at' = IF Cardinality(With(e[2])) = 1 THEN "undefined" ELSE at
                 /\ UNCHANGED polled
    BY <1>10 DEF LCLPoll
  <2>2. at = "poll" /\ UNCHANGED <<usr, listed, usr_SBCache, result>>
    BY <1>10 DEF LCLPoll
  <2>3. e[2] \in Keywords(usr) /\ e[1] \in With(e[2]) /\ e[2] \in Terms
    BY <1>1, <2>2 DEF IInv, PolledRelated, Keywords, Placed
  <2>4. Popped(boundQueue, e) \in SUBSET boundQueue
    BY DEF Popped
  <2>5. PolledRelated' /\ at' \in {"poll", "undefined"}
    <3>1. CASE Frequent(e[2])
      <4>1. Adjacent(e[1], e[2]) \in SUBSET With(e[2])
        BY <1>1, <2>3, <3>1, ReadHasKeyword DEF Adjacent
      <4>2. Push(Adjacent(e[1], e[2]), e[2], Popped(boundQueue, e)) /\ at' = "poll"
        BY <2>1, <2>2, <3>1
      <4> QED BY <1>2, <2>2, <2>3, <2>4, <4>1, <4>2, PushKeeps
    <3>2. CASE ~Frequent(e[2])
      BY <1>2, <2>1, <2>2, <2>4, <3>2
         DEF IInv, PolledRelated, With, RelatedPois, Shared, Keywords, lclData
    <3> QED BY <3>1, <3>2
  <2>6. KeptBounds'
    BY <1>2, <2>2 DEF IInv, KeptBounds, RelatedPois, Shared, lclData
  <2> QED BY <1>3, <2>5, <2>6 DEF IInv, IsLowerBound
<1>11. CASE LCLPollEmpty
  BY <1>2, <1>3, <1>11 DEF LCLPollEmpty, IInv, PolledRelated, KeptBounds, IsLowerBound, With, RelatedPois,
                           Shared, lclData
<1>12. CASE LCLReturn
  <2>1. at = "poll" /\ Len(polled) >= K /\ usr' = usr
        /\ result' = KthBest([j \in DOMAIN polled |-> Bound(polled[j])])
        /\ usr_SBCache' = Put(usr_SBCache, usr, result')
        /\ at' = "idle" /\ UNCHANGED <<listed, polled, boundQueue>>
    BY <1>12 DEF LCLReturn, Key
  <2>2. polled \in Seq(RelatedPois(usr)) /\ IsInjective(polled)
    <3>1. polled \in Seq(Pois) /\ ToSet(polled) \subseteq RelatedPois(usr) /\ IsInjective(polled)
      BY <2>1 DEF IInv, PolledRelated
    <3>2. \A j \in 1 .. Len(polled) : polled[j] \in RelatedPois(usr)
      BY <3>1 DEF ToSet
    <3> QED BY <3>1, <3>2
  <2>3. ~Less(score.topk[usr], result')
    BY <1>1, <2>1, <2>2, PolledBound
  <2>4. PolledRelated'
    BY <1>2, <2>1 DEF IInv, PolledRelated, With, lclData
  <2>5. KeptBounds'
    <3>1. DOMAIN usr_SBCache' = {usr} \cup DOMAIN usr_SBCache
      BY <2>1 DEF Put
    <3>2. \A u \in DOMAIN usr_SBCache' :
            usr_SBCache'[u] = IF u = usr THEN result' ELSE usr_SBCache[u]
      BY <2>1 DEF Put
    <3> QED BY <1>1, <1>2, <2>3, <3>1, <3>2 DEF IInv, KeptBounds, RelatedPois, Shared, lclData
  <2>6. IsLowerBound'
    BY <1>2, <2>1, <2>3 DEF IsLowerBound, lclData
  <2> QED BY <1>3, <2>1, <2>4, <2>5, <2>6 DEF IInv
<1> QED BY <1>5, <1>6, <1>7, <1>8, <1>9, <1>10, <1>11, <1>12 DEF LCLNext, LCLStep

\* Whatever is computed or kept for a user, it is never above the score of the
\* user's K-th best POI (query_basic.h:10661).
THEOREM LowerBoundCorrect == Loaded /\ UpperAbove => (LCLSpec => []IsLowerBound)
<1>1. IInv => IsLowerBound
  BY DEF IInv
<1> QED BY <1>1, BoundInit, BoundNext, PTL DEF LCLSpec

\* The queue holds polled POIs only, and nothing is polled twice.
THEOREM BoundTypes == Loaded /\ UpperAbove => (LCLSpec => []LCLTypeOK)
<1>1. IInv => LCLTypeOK
  <2> SUFFICES ASSUME IInv PROVE LCLTypeOK
    OBVIOUS
  <2>1. ToSet(polled) \subseteq Pois
    BY DEF IInv, PolledRelated, ToSet
  <2> QED BY <2>1 DEF IInv, PolledRelated, KeptBounds, BoundLoaded, LCLTypeOK
<1> QED BY <1>1, BoundInit, BoundNext, PTL DEF LCLSpec

-----------------------------------------------------------------------------
(* The block cache the indexes are read through.                            *)

\* The inductive invariant.  A slot in use holds a block there is; the
\* slots are taken in order, so that next never has to look for a free one;
\* and the slots a flush has come by are as the file is.

SlotsHold ==
  \A s \in Slots : fuf_cont[s] = "used" => cache_cont[s] \in 1 .. file.number /\ cache[s] \in Data

FilledInOrder ==
  /\ cachesize > 0 => ptr \in Slots
  /\ Free # {} => \A s \in Slots : s \in Free <=> s >= ptr

FlushedSoFar ==
  closing => \A s \in Slots : s < i /\ fuf_cont[s] = "used" => file.disk[cache_cont[s]] = cache[s]

FileInv == TypeOK /\ PointerKnown /\ HeldOnce /\ SlotsHold /\ FilledInOrder /\ FlushedSoFar

\* What TypeOK and PointerKnown say of a file.
FileOK(f) ==
  /\ f = File(f.disk, f.number, f) /\ f.number \in 0 .. MaxBlocks
  /\ f.disk \in [0 .. f.number -> Data]
  /\ f.act_block \in 0 .. f.number /\ f.pos = f.act_block

\* The invariant says what FileOK says of the file on disk.
LEMMA InvFileOK == ASSUME FileInv PROVE FileOK(file)
BY DEF FileInv, TypeOK, PointerKnown, FileOK

\* A block is written where it belongs, and the place of the pointer stays
\* known.
LEMMA WriteBlockOK ==
  ASSUME NEW f, FileOK(f), NEW pos \in 1 .. f.number, NEW b \in Data
  PROVE  /\ FileOK(write_block(f, pos, b))
         /\ write_block(f, pos, b).disk = [f.disk EXCEPT ![pos] = b]
         /\ write_block(f, pos, b).number = f.number
<1>1. /\ f.number \in Nat /\ f.number <= MaxBlocks /\ f.act_block \in 0 .. f.number
      /\ f.pos = f.act_block /\ f.disk \in [0 .. f.number -> Data]
  BY CachedBlockFileAssumption DEF FileOK
<1>2. Place(f, pos) = pos
  BY <1>1 DEF Place
<1> DEFINE a == IF pos + 1 > f.number THEN 0 ELSE pos + 1
           g == [disk |-> [f.disk EXCEPT ![pos] = b], number |-> f.number,
                 act_block |-> a, pos |-> a]
<1>3. write_block(f, pos, b) = g
  BY <1>2 DEF write_block, File, Rest
<1>4. a \in 0 .. f.number
  BY <1>1
<1>5. g.disk \in [0 .. f.number -> Data]
  BY <1>1
<1> HIDE DEF a
<1>6. FileOK(g)
  BY <1>1, <1>4, <1>5, CachedBlockFileAssumption DEF FileOK, File
<1> QED BY <1>3, <1>6

\* As is read.
LEMMA ReadBlockOK ==
  ASSUME NEW f, FileOK(f), NEW pos \in 1 .. f.number
  PROVE  /\ FileOK(AfterRead(f, pos)) /\ Place(f, pos) = pos
         /\ AfterRead(f, pos).disk = f.disk /\ AfterRead(f, pos).number = f.number
BY CachedBlockFileAssumption DEF FileOK, AfterRead, File, Rest, Place

\* A block is appended behind the last one and nothing else is written.
LEMMA AppendBlockOK ==
  ASSUME NEW f, FileOK(f), f.number < MaxBlocks, NEW b \in Data
  PROVE  /\ FileOK(append_block(f, b)) /\ append_block(f, b).number = f.number + 1
         /\ append_block(f, b).disk = [k \in 0 .. f.number + 1 |-> IF k = f.number + 1 THEN b ELSE f.disk[k]]
BY CachedBlockFileAssumption DEF FileOK, append_block, File, RestAppended

\* A read or a write of the header leaves the other blocks alone.
LEMMA HeaderOK ==
  ASSUME NEW f, FileOK(f), NEW disk \in [0 .. f.number -> Data]
  PROVE  /\ FileOK(AfterHeader(f, disk))
         /\ AfterHeader(f, disk).disk = disk /\ AfterHeader(f, disk).number = f.number
BY CachedBlockFileAssumption DEF FileOK, AfterHeader, File

\* Opening the file again keeps its blocks and puts the pointer at the start.
LEMMA OpenedOK ==
  ASSUME NEW f, FileOK(f)
  PROVE  FileOK(Opened(f)) /\ Opened(f).disk = f.disk /\ Opened(f).number = f.number
BY CachedBlockFileAssumption DEF FileOK, Opened, File

\* The slot used next is the one at ptr; if it is in use all are.
LEMMA NextSlotIsPtr ==
  ASSUME FileInv, cachesize > 0
  PROVE  /\ NextSlot = ptr /\ ptr \in Slots
         /\ Free = {} => \A s \in Slots : fuf_cont[s] = "used"
         /\ Free # {} => fuf_cont[ptr] = "free" /\ \A s \in Slots : s > ptr => fuf_cont[s] = "free"
<1>1. ptr \in Slots /\ (Free # {} => \A s \in Slots : s \in Free <=> s >= ptr)
  BY DEF FileInv, FilledInOrder
<1>2. Free # {} => ptr \in Free
  BY <1>1 DEF Slots
<1>3. \A s \in Slots : fuf_cont[s] \in {"free", "used"}
  BY DEF FileInv, TypeOK
<1> QED BY <1>1, <1>2, <1>3 DEF NextSlot, Free, Slots

\* Writing the block of that slot back leaves what is not held as it was.
LEMMA EvictedOK ==
  ASSUME FileInv, cachesize > 0
  PROVE  /\ FileOK(Evicted) /\ Evicted.number = file.number
         /\ Free # {} => Evicted = file
         /\ Free = {} => /\ cache_cont[ptr] \in 1 .. file.number /\ cache[ptr] \in Data
                         /\ Evicted.disk = [file.disk EXCEPT ![cache_cont[ptr]] = cache[ptr]]
<1>1. FileOK(file)
  BY InvFileOK
<1>2. CASE Free # {}
  BY <1>1, <1>2 DEF Evicted
<1>3. CASE Free = {}
  <2>1. cache_cont[ptr] \in 1 .. file.number /\ cache[ptr] \in Data
    BY <1>3, NextSlotIsPtr DEF FileInv, SlotsHold
  <2> QED BY <1>1, <1>3, <2>1, WriteBlockOK DEF Evicted
<1> QED BY <1>2, <1>3
-----------------------------------------------------------------------------
(* Every step keeps the invariant.                                         *)

\* The constructor on a new file establishes the invariant.
LEMMA InitInv == Init => FileInv
<1> SUFFICES ASSUME Init PROVE FileInv
  OBVIOUS
<1>1. TypeOK /\ PointerKnown
  <2>1. PICK h \in Data : file = [disk |-> [k \in 0 .. 0 |-> h], number |-> 0, act_block |-> 0, pos |-> 0]
    BY DEF Init
  <2>2. /\ file = File(file.disk, file.number, file) /\ file.disk \in [0 .. file.number -> Data]
        /\ file.number = 0 /\ file.act_block = 0 /\ file.pos = 0
    BY <2>1 DEF File
  <2>3. /\ ptr \in 0 .. cachesize /\ i \in 0 .. cachesize /\ 0 \in 0 .. file.number
        /\ file.number \in 0 .. MaxBlocks /\ file.act_block \in 0 .. file.number
    BY <2>2, CachedBlockFileAssumption DEF Init
  <2>4. cache_cont \in [Slots -> 0 .. file.number] /\ fuf_cont \in [Slots -> {"free", "used"}]
        /\ cache \in [Slots -> Data \cup {NoData}]
    BY <2>3 DEF Init
  <2>5. call \in {-1} \X {"opened", "closed", "exited"} /\ closing \in BOOLEAN
    BY DEF Init
  <2> QED BY <2>2, <2>3, <2>4, <2>5 DEF TypeOK, PointerKnown
<1>2. HeldOnce /\ SlotsHold /\ FlushedSoFar
  BY DEF Init, HeldOnce, SlotsHold, FlushedSoFar
<1>3. FilledInOrder
  BY CachedBlockFileAssumption DEF Init, FilledInOrder, Free, Slots
<1> QED BY <1>1, <1>2, <1>3 DEF FileInv

\* append_block goes past the cache: no slot holds the new block.
LEMMA AppendInv == ASSUME FileInv, NEW b \in Data, AppendBlock(b) PROVE FileInv'
<1>1. FileOK(file') /\ file'.number = file.number + 1
  BY InvFileOK, AppendBlockOK DEF AppendBlock
<1>2. UNCHANGED <<ptr, cache_cont, fuf_cont, cache, closing, i>> /\ ~closing
      /\ call' = <<file.number + 1, b>>
  BY DEF AppendBlock, cacheVars
<1>3. TypeOK' /\ PointerKnown'
  BY <1>1, <1>2 DEF FileInv, TypeOK, PointerKnown, FileOK
<1>4. HeldOnce' /\ FilledInOrder' /\ FlushedSoFar'
  BY <1>2 DEF FileInv, HeldOnce, FilledInOrder, FlushedSoFar, Free
<1>5. SlotsHold'
  BY <1>1, <1>2 DEF FileInv, SlotsHold, TypeOK
<1> QED BY <1>3, <1>4, <1>5 DEF FileInv

\* Steps that change the file at most, and no block of it.
LEMMA CacheKeptInv ==
  ASSUME FileInv, FileOK(file'), file'.number = file.number,
         UNCHANGED <<ptr, cache_cont, fuf_cont, cache, closing, i>>, ~closing,
         call' \in (0 .. file.number) \X Data \cup {-1} \X {"opened", "closed", "exited"}
  PROVE  FileInv'
<1>1. TypeOK' /\ PointerKnown'
  BY DEF FileInv, TypeOK, PointerKnown, FileOK
<1>2. HeldOnce' /\ FilledInOrder' /\ FlushedSoFar' /\ SlotsHold'
  BY DEF FileInv, HeldOnce, FilledInOrder, FlushedSoFar, SlotsHold, Free
<1> QED BY <1>1, <1>2 DEF FileInv

\* A read of a held block changes nothing but the answer.
LEMMA ReadHitInv == ASSUME FileInv, NEW index \in 1 .. file.number, ReadHit(index) PROVE FileInv'
<1>1. PICK s \in Holding(index) : call' = <<index, cache[s]>>
  BY DEF ReadHit
<1>2. cache[s] \in Data
  BY <1>1 DEF Holding, FileInv, SlotsHold, TypeOK
<1>3. UNCHANGED <<file, ptr, cache_cont, fuf_cont, cache, closing, i>> /\ ~closing
  BY DEF ReadHit, cacheVars
<1> QED BY <1>1, <1>2, <1>3, InvFileOK, CacheKeptInv DEF FileInv, TypeOK

\* A cache of no slots passes reads and writes on to the file.
LEMMA UncachedInv ==
  ASSUME FileInv, NEW index \in 1 .. file.number,
         ReadUncached(index) \/ \E b \in Data : WriteUncached(index, b)
  PROVE  FileInv'
<1>1. CASE ReadUncached(index)
  <2>1. FileOK(file') /\ file'.number = file.number /\ file.disk[Place(file, index)] \in Data
    BY <1>1, InvFileOK, ReadBlockOK DEF ReadUncached, FileOK
  <2> QED BY <1>1, <2>1, CacheKeptInv DEF ReadUncached, cacheVars, FileInv, TypeOK
<1>2. ASSUME NEW b \in Data, WriteUncached(index, b) PROVE FileInv'
  <2>1. FileOK(file') /\ file'.number = file.number
    BY <1>2, InvFileOK, WriteBlockOK DEF WriteUncached
  <2> QED BY <1>2, <2>1, CacheKeptInv DEF WriteUncached, cacheVars, FileInv, TypeOK
<1> QED BY <1>1, <1>2

\* The header is not cached.
LEMMA HeaderInv ==
  ASSUME FileInv, read_header \/ \E h \in Data : set_header(h)
  PROVE  FileInv'
<1>1. CASE read_header
  <2>1. FileOK(file') /\ file'.number = file.number /\ file.disk[0] \in Data
    BY <1>1, InvFileOK, HeaderOK DEF read_header, FileOK
  <2> QED BY <1>1, <2>1, CacheKeptInv DEF read_header, cacheVars, FileInv, TypeOK
<1>2. ASSUME NEW h \in Data, set_header(h) PROVE FileInv'
  <2>1. [file.disk EXCEPT ![0] = h] \in [0 .. file.number -> Data]
    BY InvFileOK DEF FileOK
  <2>2. FileOK(file') /\ file'.number = file.number
    BY <1>2, <2>1, InvFileOK, HeaderOK DEF set_header
  <2>3. call' \in (0 .. file.number) \X Data
    BY <1>2 DEF set_header, FileInv, TypeOK
  <2> QED BY <1>2, <2>2, <2>3, CacheKeptInv DEF set_header, cacheVars
<1> QED BY <1>1, <1>2

\* A write of a held block changes its slot and no other.
LEMMA WriteHitInv ==
  ASSUME FileInv, NEW index \in 1 .. file.number, NEW b \in Data, WriteHit(index, b)
  PROVE  FileInv'
<1>1. PICK s \in Holding(index) : cache' = [cache EXCEPT ![s] = b]
  BY DEF WriteHit
<1>2. UNCHANGED <<file, ptr, cache_cont, fuf_cont, closing, i>> /\ ~closing /\ call' = <<index, b>>
  BY DEF WriteHit
<1>3. TypeOK' /\ PointerKnown'
  BY <1>1, <1>2 DEF FileInv, TypeOK, PointerKnown, Holding
<1>4. SlotsHold'
  BY <1>1, <1>2 DEF FileInv, SlotsHold, TypeOK
<1>5. HeldOnce' /\ FilledInOrder' /\ FlushedSoFar'
  BY <1>2 DEF FileInv, HeldOnce, FilledInOrder, FlushedSoFar, Free
<1> QED BY <1>3, <1>4, <1>5 DEF FileInv

\* A block comes into the cache.
LEMMA OccupyInv ==
  ASSUME FileInv, NEW index \in 1 .. file.number, NEW b \in Data, cachesize > 0,
         Holding(index) = {}, ~closing, AdvancePtr, Occupy(index, b),
         FileOK(file'), file'.number = file.number,
         UNCHANGED <<closing, i>>, call' = <<index, b>>
  PROVE  FileInv'
<1>1. NextSlot = ptr /\ ptr \in Slots
  BY NextSlotIsPtr
<1>2. /\ cache_cont' = [cache_cont EXCEPT ![ptr] = index]
      /\ fuf_cont' = [fuf_cont EXCEPT ![ptr] = "used"]
      /\ cache' = [cache EXCEPT ![ptr] = b]
      /\ ptr' = (ptr + 1) % cachesize
  BY <1>1 DEF Occupy, AdvancePtr
<1>3. ptr' = IF ptr = cachesize - 1 THEN 0 ELSE ptr + 1
  BY <1>1, <1>2, CachedBlockFileAssumption DEF Slots
<1>4. TypeOK' /\ PointerKnown'
  <2>1. ptr' \in 0 .. cachesize /\ file.number \in Nat
    BY <1>1, <1>3, CachedBlockFileAssumption DEF Slots, FileInv, TypeOK
  <2>2. cache_cont' \in [Slots -> 0 .. file.number] /\ fuf_cont' \in [Slots -> {"free", "used"}]
        /\ cache' \in [Slots -> Data \cup {NoData}]
    <3>1. cache_cont \in [Slots -> 0 .. file.number] /\ index \in 0 .. file.number
      BY <2>1 DEF FileInv, TypeOK
    <3>2. fuf_cont \in [Slots -> {"free", "used"}] /\ cache \in [Slots -> Data \cup {NoData}]
      BY DEF FileInv, TypeOK
    <3>3. cache_cont' \in [Slots -> 0 .. file.number]
      BY <1>2, <3>1
    <3>4. fuf_cont' \in [Slots -> {"free", "used"}]
      BY <1>2, <3>2
    <3>5. cache' \in [Slots -> Data \cup {NoData}]
      BY <1>2, <3>2
    <3> QED BY <3>3, <3>4, <3>5
  <2>3. call' \in (0 .. file.number) \X Data
    BY <2>1
  <2> QED BY <2>1, <2>2, <2>3 DEF FileInv, TypeOK, PointerKnown, FileOK
<1>5. SlotsHold'
  BY <1>2 DEF FileInv, SlotsHold, TypeOK
<1>6. HeldOnce'
  <2>1. \A s \in Slots : fuf_cont[s] = "used" => cache_cont[s] # index
    BY DEF Holding
  <2> QED BY <1>1, <1>2, <2>1 DEF FileInv, HeldOnce, TypeOK
<1>7. FilledInOrder'
  <2>1. CASE Free = {}
    <3>1. ptr' \in Slots
      BY <1>1, <1>3, CachedBlockFileAssumption DEF Slots
    <3>2. fuf_cont \in [Slots -> {"free", "used"}] /\ \A s \in Slots : fuf_cont[s] = "used"
      BY <2>1, NextSlotIsPtr DEF FileInv, TypeOK
    <3>3. \A s \in Slots : fuf_cont'[s] = "used"
      BY <1>2, <3>2
    <3>4. Free' = {}
      BY <3>3 DEF Free
    <3> QED BY <3>1, <3>4 DEF FilledInOrder
  <2>2. CASE Free # {}
    <3>1. \A s \in Slots : fuf_cont[s] = "free" <=> s >= ptr
      BY <2>2 DEF FileInv, FilledInOrder, Free
    <3>2. \A s \in Slots : fuf_cont'[s] = "free" <=> s > ptr
      BY <1>1, <1>2, <3>1 DEF FileInv, TypeOK, Slots
    <3> QED BY <1>1, <1>3, <3>2, CachedBlockFileAssumption DEF FilledInOrder, Free, Slots
  <2> QED BY <2>1, <2>2
<1>8. FlushedSoFar'
  BY DEF FlushedSoFar
<1> QED BY <1>4, <1>5, <1>6, <1>7, <1>8 DEF FileInv

\* A read of a block not held evicts one and takes its slot.
LEMMA ReadMissInv == ASSUME FileInv, NEW index \in 1 .. file.number, ReadMiss(index) PROVE FileInv'
<1>1. FileOK(Evicted) /\ Evicted.number = file.number
  BY EvictedOK DEF ReadMiss
<1>2. FileOK(file') /\ file'.number = file.number /\ Evicted.disk[Place(Evicted, index)] \in Data
  BY <1>1, ReadBlockOK DEF ReadMiss, FileOK
<1> QED BY <1>2, OccupyInv DEF ReadMiss

\* A write of a block not held evicts one and takes its slot.
LEMMA WriteMissInv ==
  ASSUME FileInv, NEW index \in 1 .. file.number, NEW b \in Data, WriteMiss(index, b)
  PROVE  FileInv'
<1>1. FileOK(Evicted) /\ Evicted.number = file.number
  BY EvictedOK DEF WriteMiss
<1> QED BY <1>1, OccupyInv DEF WriteMiss

\* The destructor starts its flush with the first slot.
LEMMA DestroyInv == ASSUME FileInv, Destroy PROVE FileInv'
<1>1. UNCHANGED <<file, ptr, cache_cont, fuf_cont, cache, call>> /\ closing' = TRUE /\ i' = 0
  BY DEF Destroy, cacheVars
<1>2. TypeOK' /\ PointerKnown'
  BY <1>1, CachedBlockFileAssumption DEF FileInv, TypeOK, PointerKnown
<1>3. HeldOnce' /\ FilledInOrder' /\ SlotsHold'
  BY <1>1 DEF FileInv, HeldOnce, FilledInOrder, SlotsHold, Free
<1>4. FlushedSoFar'
  BY <1>1 DEF FlushedSoFar, Slots
<1> QED BY <1>2, <1>3, <1>4 DEF FileInv

\* The flush writes slot after slot: those before i are on disk.
LEMMA FlushSlotInv == ASSUME FileInv, FlushSlot PROVE FileInv'
<1>1. UNCHANGED <<ptr, cache_cont, fuf_cont, cache, call, closing>> /\ closing /\ i < cachesize /\ i' = i + 1
  BY DEF FlushSlot, cacheVars
<1>2. i \in Slots /\ FileOK(file) /\ fuf_cont[i] \in {"free", "used"}
  BY <1>1, InvFileOK, CachedBlockFileAssumption DEF FileInv, TypeOK, Slots
<1>3. CASE fuf_cont[i] = "free"
  <2>1. file' = file
    BY <1>3 DEF FlushSlot, Flushed
  <2>2. TypeOK' /\ PointerKnown'
    BY <1>1, <2>1, CachedBlockFileAssumption DEF FileInv, TypeOK, PointerKnown
  <2>3. HeldOnce' /\ FilledInOrder' /\ SlotsHold'
    BY <1>1, <2>1 DEF FileInv, HeldOnce, FilledInOrder, SlotsHold, Free
  <2>4. FlushedSoFar'
    BY <1>1, <1>2, <1>3, <2>1 DEF FileInv, FlushedSoFar, Slots
  <2> QED BY <2>2, <2>3, <2>4 DEF FileInv
<1>4. CASE fuf_cont[i] = "used"
  <2>1. cache_cont[i] \in 1 .. file.number /\ cache[i] \in Data
    BY <1>2, <1>4 DEF FileInv, SlotsHold
  <2>2. file' = write_block(file, cache_cont[i], cache[i])
    BY <1>4 DEF FlushSlot, Flushed
  <2>3. /\ FileOK(file') /\ file'.number = file.number
        /\ file'.disk = [file.disk EXCEPT ![cache_cont[i]] = cache[i]]
    BY <1>2, <2>1, <2>2, WriteBlockOK
  <2>4. TypeOK' /\ PointerKnown'
    BY <1>1, <2>3, CachedBlockFileAssumption DEF FileInv, TypeOK, PointerKnown, FileOK
  <2>5. HeldOnce' /\ FilledInOrder' /\ SlotsHold'
    BY <1>1, <2>3 DEF FileInv, HeldOnce, FilledInOrder, SlotsHold, Free
  <2>6. FlushedSoFar'
    <3> SUFFICES ASSUME NEW s \in Slots, s < i + 1, fuf_cont[s] = "used"
                 PROVE  file'.disk[cache_cont[s]] = cache[s]
      BY <1>1 DEF FlushedSoFar
    <3>1. cache_cont[s] \in 1 .. file.number /\ file.disk \in [0 .. file.number -> Data]
      BY <1>2 DEF FileInv, SlotsHold, FileOK
    <3>2. CASE s = i
      <4>1. cache_cont[i] \in 0 .. file.number /\ file.disk \in [0 .. file.number -> Data]
        BY <2>1, <3>1
      <4>2. [file.disk EXCEPT ![cache_cont[i]] = cache[i]][cache_cont[i]] = cache[i]
        BY <4>1
      <4> QED BY <2>3, <3>2, <4>2
    <3>3. CASE s # i
      <4>1. cache_cont[s] # cache_cont[i]
        BY <1>2, <1>4, <3>3 DEF FileInv, HeldOnce
      <4>2. file.disk[cache_cont[s]] = cache[s]
        BY <1>1, <1>2, <3>3 DEF FileInv, FlushedSoFar, Slots
      <4> QED BY <2>3, <3>1, <4>1, <4>2
    <3> QED BY <3>2, <3>3
  <2> QED BY <2>4, <2>5, <2>6 DEF FileInv
<1> QED BY <1>2, <1>3, <1>4

\* Opened again, after the destructor or without it, the cache is empty.
LEMMA ReopenInv == ASSUME FileInv, Reopen \/ Exit PROVE FileInv'
<1>1. EmptyCache(file) /\ call' \in {-1} \X {"opened", "closed", "exited"}
  BY DEF Reopen, Exit
<1>2. FileOK(file') /\ file'.number = file.number
  BY <1>1, InvFileOK, OpenedOK DEF EmptyCache
<1>3. TypeOK' /\ PointerKnown'
  <2>1. ptr' \in 0 .. cachesize /\ i' \in 0 .. cachesize /\ 0 \in 0 .. file.number
    BY <1>1, CachedBlockFileAssumption DEF EmptyCache, FileInv, TypeOK
  <2>2. cache_cont' \in [Slots -> 0 .. file.number] /\ fuf_cont' \in [Slots -> {"free", "used"}]
        /\ cache' \in [Slots -> Data \cup {NoData}] /\ closing' \in BOOLEAN
    BY <1>1, <2>1 DEF EmptyCache
  <2> QED BY <1>1, <1>2, <2>1, <2>2 DEF FileInv, TypeOK, PointerKnown, FileOK
<1>4. HeldOnce' /\ SlotsHold' /\ FlushedSoFar'
  BY <1>1 DEF EmptyCache, HeldOnce, SlotsHold, FlushedSoFar
<1>5. FilledInOrder'
  BY <1>1, CachedBlockFileAssumption DEF EmptyCache, FilledInOrder, Free, Slots
<1> QED BY <1>3, <1>4, <1>5 DEF FileInv

\* The invariant is inductive.
LEMMA NextInv == FileInv /\ [Next]_vars => FileInv'
<1> SUFFICES ASSUME FileInv, [Next]_vars PROVE FileInv'
  OBVIOUS
<1>1. ASSUME NEW b \in Data, AppendBlock(b) PROVE FileInv'
  BY <1>1, AppendInv
<1>2. CASE read_header \/ \E h \in Data : set_header(h)
  BY <1>2, HeaderInv
<1>3. ASSUME NEW index \in 1 .. file.number,
             ReadHit(index) \/ ReadMiss(index) \/ ReadUncached(index)
      PROVE FileInv'
  BY <1>3, ReadHitInv, ReadMissInv, UncachedInv
<1>4. ASSUME NEW index \in 1 .. file.number, NEW b \in Data,
             WriteHit(index, b) \/ WriteMiss(index, b) \/ WriteUncached(index, b)
      PROVE FileInv'
  BY <1>4, WriteHitInv, WriteMissInv, UncachedInv
<1>5. CASE Destroy \/ FlushSlot \/ Reopen \/ Exit
  BY <1>5, DestroyInv, FlushSlotInv, ReopenInv
<1>6. CASE UNCHANGED vars
  BY <1>6 DEF vars, cacheVars, FileInv, TypeOK, PointerKnown, HeldOnce, SlotsHold, FilledInOrder, FlushedSoFar, Free
<1> QED BY <1>1, <1>2, <1>3, <1>4, <1>5, <1>6 DEF Next

\* Variables keep their types; call answers with a block that is there.
THEOREM TypeCorrect == Spec => []TypeOK
<1>1. Init => FileInv
  BY InitInv
<1>2. FileInv /\ [Next]_vars => FileInv'
  BY NextInv
<1>3. FileInv => TypeOK
  BY DEF FileInv
<1> QED BY <1>1, <1>2, <1>3, PTL DEF Spec

\* The seeks of BlockFile, all relative, start from where act_block says.
THEOREM PointerAlwaysKnown == Spec => []PointerKnown
<1>1. Init => FileInv
  BY InitInv
<1>2. FileInv /\ [Next]_vars => FileInv'
  BY NextInv
<1>3. FileInv => PointerKnown
  BY DEF FileInv
<1> QED BY <1>1, <1>2, <1>3, PTL DEF Spec

\* No block is in two slots.
THEOREM BlocksHeldOnce == Spec => []HeldOnce
<1>1. Init => FileInv
  BY InitInv
<1>2. FileInv /\ [Next]_vars => FileInv'
  BY NextInv
<1>3. FileInv => HeldOnce
  BY DEF FileInv
<1> QED BY <1>1, <1>2, <1>3, PTL DEF Spec
-----------------------------------------------------------------------------
(* The refinement: what a slot holds stands for its block, what none holds *)
(* is in the file.                                                         *)

Shown(k, b) ==
  /\ Holding(k) = {} => b = file.disk[k]
  /\ \A s \in Holding(k) : b = cache[s]

ContentShown == \A k \in 1 .. file.number : Shown(k, Content[k])

\* What a reader is shown of a block is its content: the slot if one holds
\* it, the disk otherwise.
LEMMA ContentOf == FileInv => ContentShown
<1> SUFFICES ASSUME FileInv, NEW k \in 1 .. file.number PROVE Shown(k, Content[k])
  BY DEF ContentShown
<1>1. CASE Holding(k) = {}
  BY <1>1 DEF Content, Shown
<1>2. CASE Holding(k) # {}
  <2>1. \A s, t \in Holding(k) : s = t
    BY DEF FileInv, HeldOnce, TypeOK, Holding
  <2>2. Holding(k) \subseteq Slots
    BY DEF Holding
  <2>3. (CHOOSE s \in Slots : s \in Holding(k)) \in Holding(k)
    BY <1>2, <2>2
  <2>4. Content[k] = cache[CHOOSE s \in Slots : s \in Holding(k)]
    BY <1>2 DEF Content
  <2> QED BY <1>2, <2>1, <2>3, <2>4 DEF Shown
<1> QED BY <1>1, <1>2

\* What is shown of a block determines it.
LEMMA ShownOnce ==
  ASSUME NEW k, NEW b, NEW c, Shown(k, b), Shown(k, c)
  PROVE  b = c
BY DEF Shown

\* The same of the state a step leads to.
LEMMA ContentNext == FileInv' => ContentShown'
BY ContentOf, PTL

Durable == [k \in 1 .. file.number |-> file.disk[k]]

\* With the same in every slot and in the file the same is shown.
LEMMA SameContent ==
  ASSUME UNCHANGED <<cache_cont, fuf_cont, cache>>, file'.disk = file.disk, file'.number = file.number
  PROVE  Content' = Content /\ Durable' = Durable
BY DEF Content, Durable, Holding

\* append_block appends to the store.
LEMMA AppendStep == ASSUME FileInv, NEW b \in Data, AppendBlock(b) PROVE Store!AppendBlock(b)
<1> DEFINE m == file.number
<1>1. /\ file'.number = m + 1
      /\ file'.disk = [k \in 0 .. m + 1 |-> IF k = m + 1 THEN b ELSE file.disk[k]]
  BY InvFileOK, AppendBlockOK DEF AppendBlock
<1>2. UNCHANGED <<ptr, cache_cont, fuf_cont, cache, closing, i>> /\ ~closing /\ call' = <<m + 1, b>>
  BY DEF AppendBlock, cacheVars
<1>3. m \in Nat
  BY CachedBlockFileAssumption DEF FileInv, TypeOK
<1>4. Durable' = [k \in 1 .. m + 1 |-> IF k = m + 1 THEN b ELSE Durable[k]]
  BY <1>1, <1>3 DEF Durable
<1>5. Holding(m + 1) = {}
  BY <1>3 DEF Holding, FileInv, SlotsHold, TypeOK
<1>6. \A k : Holding(k)' = Holding(k)
  BY <1>2 DEF Holding
<1>7. Content' = [k \in 1 .. m + 1 |-> IF k = m + 1 THEN b ELSE Content[k]]
  <2>1. ASSUME NEW k \in 1 .. m PROVE Content'[k] = Content[k]
    <3>1. k \in 1 .. m + 1 /\ file'.disk[k] = file.disk[k]
      BY <1>1, <1>3
    <3>2. Shown(k, Content[k]) /\ Shown(k, Content[k])'
      BY <1>1, <3>1, AppendInv, ContentOf, ContentNext DEF ContentShown
    <3>3. Shown(k, Content[k])' <=> Shown(k, Content'[k])
      BY <1>2, <1>6, <3>1 DEF Shown
    <3> QED BY <3>2, <3>3, ShownOnce
  <2>2. ASSUME NEW k, k = m + 1 PROVE Content'[k] = b
    <3>1. k \in 1 .. m + 1 /\ file'.disk[k] = b /\ Holding(k)' = {}
      BY <1>1, <1>3, <1>5, <1>6, <2>2
    <3>2. Shown(k, Content[k])'
      BY <1>1, <3>1, AppendInv, ContentNext DEF ContentShown
    <3> QED BY <3>1, <3>2 DEF Shown
  <2>3. Content' = [k \in 1 .. m + 1 |-> Content'[k]]
    BY <1>1 DEF Content
  <2>4. \A k \in 1 .. m + 1 : k # m + 1 => k \in 1 .. m
    BY <1>3
  <2> QED BY <2>1, <2>2, <2>3, <2>4
<1>8. file'.disk[0] = file.disk[0]
  BY <1>1, <1>3
<1> QED BY <1>1, <1>2, <1>4, <1>7, <1>8 DEF Store!AppendBlock, Durable

\* A step that reads a block and leaves content and file alone.
LEMMA ReadStep ==
  ASSUME FileInv, NEW index \in 1 .. file.number, NEW d,
         ~closing, UNCHANGED <<cache_cont, fuf_cont, cache, closing>>,
         file'.disk = file.disk, file'.number = file.number,
         Shown(index, d), call' = <<index, d>>
  PROVE  Store!Read(index)
<1>1. Content' = Content /\ Durable' = Durable
  BY SameContent
<1>2. d = Content[index]
  BY ContentOf, ShownOnce DEF ContentShown
<1>3. Durable' = [k \in 1 .. file.number |-> IF k \in {} THEN Content'[k] ELSE Durable[k]]
  BY <1>1 DEF Durable
<1>4. \E S \in SUBSET (1 .. file.number) :
        Durable' = [k \in 1 .. file.number |-> IF k \in S THEN Content'[k] ELSE Durable[k]]
  BY <1>3
<1>5. Store!Persist
  BY <1>4 DEF Store!Persist, Durable
<1>6. file'.disk[0] = file.disk[0]
  OBVIOUS
<1> QED BY <1>1, <1>2, <1>5, <1>6 DEF Store!Read

\* A read that finds the block held is a read of the store.
LEMMA ReadHitStep == ASSUME FileInv, NEW index \in 1 .. file.number, ReadHit(index) PROVE Store!Read(index)
<1>1. PICK s \in Holding(index) : call' = <<index, cache[s]>>
  BY DEF ReadHit
<1>2. Shown(index, cache[s])
  BY <1>1 DEF Shown, Holding, FileInv, HeldOnce, TypeOK
<1> QED BY <1>1, <1>2, ReadStep DEF ReadHit, cacheVars

\* So is a read without a cache.
LEMMA ReadUncachedStep ==
  ASSUME FileInv, NEW index \in 1 .. file.number, ReadUncached(index) PROVE Store!Read(index)
<1>1. /\ file'.disk = file.disk /\ file'.number = file.number
      /\ call' = <<index, file.disk[index]>>
  BY InvFileOK, ReadBlockOK DEF ReadUncached
<1>2. Shown(index, file.disk[index])
  BY CachedBlockFileAssumption DEF ReadUncached, Shown, Holding, Slots
<1> QED BY <1>1, <1>2, ReadStep DEF ReadUncached, cacheVars

\* A block comes into the cache: it is shown as b from then on, the one it
\* drives out is in the file.
LEMMA OccupyStep ==
  ASSUME FileInv, FileInv', NEW index \in 1 .. file.number, NEW b \in Data, cachesize > 0,
         Holding(index) = {}, Occupy(index, b),
         file'.disk = Evicted.disk, file'.number = file.number
  PROVE  /\ Content' = [Content EXCEPT ![index] = b]
         /\ \E S \in SUBSET (1 .. file.number) :
              Durable' = [k \in 1 .. file.number |-> IF k \in S THEN Content'[k] ELSE Durable[k]]
<1>1. NextSlot = ptr /\ ptr \in Slots /\ fuf_cont[ptr] \in {"free", "used"}
  BY NextSlotIsPtr DEF FileInv, TypeOK
<1>2. /\ cache_cont' = [cache_cont EXCEPT ![ptr] = index]
      /\ fuf_cont' = [fuf_cont EXCEPT ![ptr] = "used"]
      /\ cache' = [cache EXCEPT ![ptr] = b]
  BY <1>1 DEF Occupy
<1>3. /\ cache_cont \in [Slots -> 0 .. file.number] /\ fuf_cont \in [Slots -> {"free", "used"}]
      /\ cache \in [Slots -> Data \cup {NoData}] /\ file.number \in Nat
      /\ file.disk \in [0 .. file.number -> Data]
  BY CachedBlockFileAssumption DEF FileInv, TypeOK
<1>4. Holding(index)' = {ptr}
  BY <1>1, <1>2, <1>3 DEF Holding
<1>5. \A k : k # index => Holding(k)' = Holding(k) \ {ptr}
  BY <1>1, <1>2, <1>3 DEF Holding
<1>6. \A k \in 1 .. file.number : k # index /\ Holding(k) = {} => file'.disk[k] = file.disk[k]
  BY <1>1, <1>3, EvictedOK, NextSlotIsPtr DEF Holding
<1>7. \A k \in 1 .. file.number : ptr \in Holding(k) => file'.disk[k] = cache[ptr] /\ k # index
  <2> SUFFICES ASSUME NEW k \in 1 .. file.number, ptr \in Holding(k)
               PROVE  file'.disk[k] = cache[ptr] /\ k # index
    OBVIOUS
  <2>1. cache_cont[ptr] = k /\ fuf_cont[ptr] # "free" /\ k # index
    BY DEF Holding
  <2>2. Free = {}
    BY <2>1, NextSlotIsPtr
  <2>3. file'.disk = [file.disk EXCEPT ![k] = cache[ptr]] /\ k \in DOMAIN file.disk
    BY <1>3, <2>1, <2>2, EvictedOK
  <2> QED BY <2>1, <2>3
<1>8. ASSUME NEW k \in 1 .. file.number, k # index PROVE Content'[k] = Content[k]
  <2>1. Shown(k, Content[k]) /\ Shown(k, Content[k])'
    BY ContentOf, ContentNext DEF ContentShown
  <2>2. CASE Holding(k) = {}
    BY <1>5, <1>6, <1>8, <2>1, <2>2 DEF Shown
  <2>3. CASE ptr \in Holding(k)
    <3>1. Holding(k) = {ptr}
      <4>1. \A s \in Holding(k) : s \in Slots /\ fuf_cont[s] = "used" /\ cache_cont[s] = k
        BY <1>3 DEF Holding
      <4> QED BY <2>3, <4>1 DEF FileInv, HeldOnce
    <3>2. Holding(k)' = {}
      BY <1>5, <1>8, <3>1
    <3> QED BY <1>7, <2>1, <2>3, <3>2 DEF Shown
  <2>4. CASE Holding(k) # {} /\ ptr \notin Holding(k)
    <3>1. PICK s \in Holding(k) : s # ptr
      BY <2>4
    <3>2. s \in Holding(k)' /\ s \in Slots
      BY <1>5, <1>8, <3>1 DEF Holding
    <3>3. cache'[s] = cache[s]
      BY <1>2, <1>3, <3>1, <3>2
    <3> QED BY <2>1, <3>1, <3>2, <3>3 DEF Shown
  <2> QED BY <2>2, <2>3, <2>4
<1>9. Content'[index] = b
  <2>1. Shown(index, Content[index])'
    BY ContentNext DEF ContentShown
  <2>2. cache'[ptr] = b
    BY <1>1, <1>2, <1>3
  <2> QED BY <1>4, <2>1, <2>2 DEF Shown
<1>10. Content' = [Content EXCEPT ![index] = b]
  <2>1. Content' = [k \in 1 .. file.number |-> Content'[k]] /\ Content = [k \in 1 .. file.number |-> Content[k]]
    BY DEF Content
  <2> QED BY <1>8, <1>9, <2>1
<1>11. \E S \in SUBSET (1 .. file.number) :
         Durable' = [k \in 1 .. file.number |-> IF k \in S THEN Content'[k] ELSE Durable[k]]
  <2> DEFINE S == {k \in 1 .. file.number : ptr \in Holding(k)}
  <2>1. \A k \in S : file'.disk[k] = Content'[k]
    <3>1. \A k \in S : k # index /\ Content'[k] = Content[k] /\ file'.disk[k] = cache[ptr]
      BY <1>7, <1>8
    <3>2. \A k \in S : Content[k] = cache[ptr]
      BY ContentOf DEF ContentShown, Shown
    <3> QED BY <3>1, <3>2
  <2>2. \A k \in (1 .. file.number) \ S : file'.disk[k] = file.disk[k]
    BY <1>1, <1>3, EvictedOK, NextSlotIsPtr DEF Holding
  <2>3. Durable' = [k \in 1 .. file.number |-> IF k \in S THEN Content'[k] ELSE Durable[k]]
    BY <2>1, <2>2 DEF Durable
  <2> QED BY <2>3
<1> QED BY <1>10, <1>11

\* A read that evicts a block shows the content the store has.
LEMMA ReadMissStep == ASSUME FileInv, NEW index \in 1 .. file.number, ReadMiss(index) PROVE Store!Read(index)
<1> DEFINE d == Evicted.disk[index]
<1>1. FileOK(Evicted) /\ Evicted.number = file.number /\ cachesize > 0 /\ Holding(index) = {}
  BY EvictedOK DEF ReadMiss
<1>2. Place(Evicted, index) = index /\ file'.disk = Evicted.disk /\ file'.number = file.number
  BY <1>1, ReadBlockOK DEF ReadMiss
<1>3. /\ Occupy(index, d) /\ call' = <<index, d>> /\ ~closing /\ closing' = closing /\ FileInv'
  BY <1>2, ReadMissInv DEF ReadMiss
<1>4. /\ file.disk \in [0 .. file.number -> Data] /\ file.number \in Nat
      /\ fuf_cont \in [Slots -> {"free", "used"}]
  BY CachedBlockFileAssumption DEF FileInv, TypeOK
<1>5. d = file.disk[index] /\ d \in Data
  BY <1>1, <1>4, EvictedOK, NextSlotIsPtr DEF Holding
<1>6. d = Content[index]
  BY <1>1, <1>5, ContentOf DEF ContentShown, Shown
<1>7. /\ Content' = [Content EXCEPT ![index] = d]
      /\ \E S \in SUBSET (1 .. file.number) :
           Durable' = [k \in 1 .. file.number |-> IF k \in S THEN Content'[k] ELSE Durable[k]]
  BY <1>1, <1>2, <1>3, <1>5, OccupyStep
<1>8. Content' = Content
  BY <1>6, <1>7 DEF Content
<1>9. Store!Persist
  BY <1>7 DEF Store!Persist, Durable
<1>10. file'.disk[0] = file.disk[0]
  <2>1. CASE Free = {}
    BY <1>1, <1>2, <1>4, <2>1, EvictedOK
  <2>2. CASE Free # {}
    BY <1>1, <1>2, <2>2, EvictedOK
  <2> QED BY <2>1, <2>2
<1> QED BY <1>2, <1>3, <1>6, <1>8, <1>9, <1>10 DEF Store!Read

\* A write that evicts a block changes the content of one block.
LEMMA WriteMissStep ==
  ASSUME FileInv, NEW index \in 1 .. file.number, NEW b \in Data, WriteMiss(index, b)
  PROVE  Store!Write(index, b)
<1>1. /\ Evicted.number = file.number /\ cachesize > 0 /\ Holding(index) = {}
      /\ file' = Evicted /\ Occupy(index, b) /\ call' = <<index, b>>
      /\ ~closing /\ closing' = closing /\ FileInv'
  BY EvictedOK, WriteMissInv DEF WriteMiss
<1>2. /\ Content' = [Content EXCEPT ![index] = b]
      /\ \E S \in SUBSET (1 .. file.number) :
           Durable' = [k \in 1 .. file.number |-> IF k \in S THEN Content'[k] ELSE Durable[k]]
  BY <1>1, OccupyStep
<1>3. Store!Persist
  BY <1>2 DEF Store!Persist, Durable
<1>4. file'.disk[0] = file.disk[0]
  BY <1>1, EvictedOK, CachedBlockFileAssumption DEF FileInv, TypeOK
<1> QED BY <1>1, <1>2, <1>3, <1>4 DEF Store!Write

\* Blocks but for one are shown as before.
LEMMA OneChanged ==
  ASSUME NEW index \in 1 .. file.number, NEW b, file'.number = file.number,
         \A k \in 1 .. file.number : k # index => Content'[k] = Content[k],
         Content'[index] = b
  PROVE  Content' = [Content EXCEPT ![index] = b]
<1>1. Content' = [k \in 1 .. file.number |-> Content'[k]] /\ Content = [k \in 1 .. file.number |-> Content[k]]
  BY DEF Content
<1> QED BY <1>1

\* So does a write into the slot of the block.
LEMMA WriteHitStep ==
  ASSUME FileInv, NEW index \in 1 .. file.number, NEW b \in Data, WriteHit(index, b)
  PROVE  Store!Write(index, b)
<1>1. PICK s \in Holding(index) : cache' = [cache EXCEPT ![s] = b]
  BY DEF WriteHit
<1>2. UNCHANGED <<file, ptr, cache_cont, fuf_cont, closing, i>> /\ ~closing /\ call' = <<index, b>> /\ FileInv'
  BY WriteHitInv DEF WriteHit
<1>3. s \in Slots /\ cache_cont[s] = index /\ cache \in [Slots -> Data \cup {NoData}]
  BY <1>1 DEF Holding, FileInv, TypeOK
<1>4. \A k : Holding(k)' = Holding(k)
  BY <1>2 DEF Holding
<1>5. ASSUME NEW k \in 1 .. file.number, k # index PROVE Content'[k] = Content[k]
  <2>1. Shown(k, Content[k]) /\ Shown(k, Content[k])'
    BY <1>2, ContentOf, ContentNext DEF ContentShown
  <2>2. s \notin Holding(k) /\ Holding(k) \subseteq Slots
    BY <1>3, <1>5 DEF Holding
  <2>3. \A t \in Holding(k) : cache'[t] = cache[t]
    BY <1>1, <1>3, <2>2
  <2> QED BY <1>2, <1>4, <2>1, <2>3 DEF Shown
<1>6. Content'[index] = b
  <2>1. Shown(index, Content[index])'
    BY <1>2, ContentNext DEF ContentShown
  <2> QED BY <1>1, <1>3, <1>4, <2>1 DEF Shown
<1>7. Content' = [Content EXCEPT ![index] = b]
  BY <1>2, <1>5, <1>6, OneChanged
<1>8. Durable' = [k \in 1 .. file.number |-> IF k \in {} THEN Content'[k] ELSE Durable[k]]
  BY <1>2 DEF Durable
<1>9. Store!Persist
  <2>1. \E S \in SUBSET (1 .. file.number) :
          Durable' = [k \in 1 .. file.number |-> IF k \in S THEN Content'[k] ELSE Durable[k]]
    <3>1. {} \in SUBSET (1 .. file.number)
      OBVIOUS
    <3> QED BY <1>8, <3>1, Zenon
  <2> QED BY <2>1 DEF Store!Persist, Durable
<1> QED BY <1>2, <1>7, <1>9 DEF Store!Write

\* So does a write without a cache.
LEMMA WriteUncachedStep ==
  ASSUME FileInv, NEW index \in 1 .. file.number, NEW b \in Data, WriteUncached(index, b)
  PROVE  Store!Write(index, b)
<1>1. /\ file'.disk = [file.disk EXCEPT ![index] = b] /\ file'.number = file.number
      /\ call' = <<index, b>> /\ ~closing /\ closing' = closing
  BY InvFileOK, WriteBlockOK DEF WriteUncached
<1>2. \A k : Holding(k) = {} /\ Holding(k)' = {}
  BY CachedBlockFileAssumption DEF WriteUncached, Holding, Slots
<1>3. file.disk \in [0 .. file.number -> Data] /\ file.number \in Nat
  BY CachedBlockFileAssumption DEF FileInv, TypeOK
<1>4. Content = [k \in 1 .. file.number |-> file.disk[k]]
  BY <1>2 DEF Content
<1>5. Content' = [k \in 1 .. file.number |-> file'.disk[k]]
  BY <1>1, <1>2 DEF Content
<1>6. Content' = [Content EXCEPT ![index] = b]
  <2>1. \A k \in 1 .. file.number : k # index => Content'[k] = Content[k]
    BY <1>1, <1>3, <1>4, <1>5
  <2>2. Content'[index] = b
    BY <1>1, <1>3, <1>5
  <2> QED BY <1>1, <2>1, <2>2, OneChanged
<1>7. Durable' = [k \in 1 .. file.number |-> IF k \in 1 .. file.number THEN Content'[k] ELSE Durable[k]]
  BY <1>1, <1>5 DEF Durable
<1>8. Store!Persist
  <2>1. \E S \in SUBSET (1 .. file.number) :
          Durable' = [k \in 1 .. file.number |-> IF k \in S THEN Content'[k] ELSE Durable[k]]
    BY <1>7
  <2> QED BY <2>1 DEF Store!Persist, Durable
<1>9. file'.disk[0] = file.disk[0]
  BY <1>1, <1>3
<1> QED BY <1>1, <1>6, <1>8, <1>9 DEF Store!Write

\* The flush of a slot makes content durable and changes none.
LEMMA FlushSlotStep == ASSUME FileInv, FlushSlot PROVE Store!Flush
<1>1. /\ UNCHANGED <<ptr, cache_cont, fuf_cont, cache, call, closing>> /\ closing /\ i < cachesize
      /\ FileInv'
  BY FlushSlotInv DEF FlushSlot, cacheVars
<1>2. i \in Slots /\ fuf_cont[i] \in {"free", "used"} /\ FileOK(file)
  BY <1>1, InvFileOK, CachedBlockFileAssumption DEF FileInv, TypeOK, Slots
<1>3. CASE fuf_cont[i] = "free"
  <2>1. file' = file
    BY <1>3 DEF FlushSlot, Flushed
  <2>2. Content' = Content /\ Durable' = Durable
    BY <1>1, <2>1, SameContent
  <2>3. Durable' = [k \in 1 .. file.number |-> IF k \in {} THEN Content'[k] ELSE Durable[k]]
    BY <2>2 DEF Durable
  <2>4. \E S \in SUBSET (1 .. file.number) :
          Durable' = [k \in 1 .. file.number |-> IF k \in S THEN Content'[k] ELSE Durable[k]]
    BY <2>3
  <2>5. Store!Persist
    BY <2>4 DEF Store!Persist, Durable
  <2> QED BY <1>1, <2>1, <2>2, <2>5 DEF Store!Flush
<1>4. CASE fuf_cont[i] = "used"
  <2> DEFINE c == cache_cont[i]
  <2>1. c \in 1 .. file.number /\ cache[i] \in Data
    BY <1>2, <1>4 DEF FileInv, SlotsHold
  <2>2. file'.number = file.number /\ file'.disk = [file.disk EXCEPT ![c] = cache[i]]
    BY <1>2, <1>4, <2>1, WriteBlockOK DEF FlushSlot, Flushed
  <2>3. file.disk \in [0 .. file.number -> Data] /\ file.number \in Nat
    BY CachedBlockFileAssumption DEF FileInv, TypeOK
  <2>4. \A k : Holding(k)' = Holding(k)
    BY <1>1 DEF Holding
  <2>5. i \in Holding(c)
    BY <1>2, <1>4 DEF Holding
  <2>6. Content' = Content
    <3>1. ASSUME NEW k \in 1 .. file.number PROVE Content'[k] = Content[k]
      <4>1. Shown(k, Content[k]) /\ Shown(k, Content[k])'
        BY <1>1, <2>2, ContentOf, ContentNext DEF ContentShown
      <4>2. Holding(k) = {} => file'.disk[k] = file.disk[k]
        BY <2>2, <2>3, <2>5
      <4> QED BY <1>1, <2>4, <4>1, <4>2 DEF Shown
    <3>2. Content' = [k \in 1 .. file.number |-> Content'[k]] /\ Content = [k \in 1 .. file.number |-> Content[k]]
      BY <2>2 DEF Content
    <3> QED BY <3>1, <3>2
  <2>7. \A k \in 1 .. file.number : file'.disk[k] = IF k \in {c} THEN Content'[k] ELSE file.disk[k]
    <3>1. Content'[c] = cache[i]
      BY <2>1, <2>5, <2>6, ContentOf DEF ContentShown, Shown
    <3> QED BY <2>2, <2>3, <3>1
  <2>8. Durable' = [k \in 1 .. file.number |-> IF k \in {c} THEN Content'[k] ELSE Durable[k]]
    BY <2>2, <2>7 DEF Durable
  <2>9. \E S \in SUBSET (1 .. file.number) :
          Durable' = [k \in 1 .. file.number |-> IF k \in S THEN Content'[k] ELSE Durable[k]]
    BY <2>1, <2>8
  <2>10. Store!Persist
    BY <2>9 DEF Store!Persist, Durable
  <2>11. file'.disk[0] = file.disk[0]
    BY <2>1, <2>2, <2>3
  <2> QED BY <1>1, <2>2, <2>6, <2>10, <2>11 DEF Store!Flush
<1> QED BY <1>2, <1>3, <1>4

\* With an empty cache the content is what is on disk.
LEMMA EmptyContent ==
  ASSUME FileInv, EmptyCache(file)
  PROVE  Content' = Durable /\ Durable' = Durable /\ file'.disk = file.disk /\ file'.number = file.number
<1>1. file'.disk = file.disk /\ file'.number = file.number
  BY InvFileOK, OpenedOK DEF EmptyCache
<1>2. \A k : Holding(k)' = {}
  BY DEF EmptyCache, Holding
<1> QED BY <1>1, <1>2 DEF Content, Durable

\* Opened again after the destructor, the store has lost nothing.
LEMMA ReopenStep == ASSUME FileInv, Reopen PROVE Store!Closed
<1>1. closing /\ i = cachesize /\ call' = <<-1, "closed">> /\ EmptyCache(file)
  BY DEF Reopen
<1>2. \A k \in 1 .. file.number : Content[k] = file.disk[k]
  <2> SUFFICES ASSUME NEW k \in 1 .. file.number PROVE Content[k] = file.disk[k]
    OBVIOUS
  <2>1. Shown(k, Content[k])
    BY ContentOf DEF ContentShown
  <2>2. \A s \in Holding(k) : s \in Slots /\ s < i /\ fuf_cont[s] = "used" /\ cache_cont[s] = k
    BY <1>1, CachedBlockFileAssumption DEF Holding, FileInv, TypeOK, Slots
  <2>3. \A s \in Holding(k) : cache[s] = file.disk[k]
    BY <1>1, <2>2 DEF FileInv, FlushedSoFar
  <2> QED BY <2>1, <2>3 DEF Shown
<1>3. Content = Durable
  BY <1>2 DEF Content, Durable
<1>4. Content' = Content /\ Durable' = Durable /\ file'.disk = file.disk /\ file'.number = file.number
  BY <1>1, <1>3, EmptyContent
<1> QED BY <1>1, <1>3, <1>4 DEF Store!Closed, EmptyCache, Durable

\* Opened again without it, the store is what was durable.
LEMMA ExitStep == ASSUME FileInv, Exit PROVE Store!Exit
<1>1. EmptyCache(file) /\ call' = <<-1, "exited">>
  BY DEF Exit
<1>2. Content' = Durable /\ Durable' = Durable /\ file'.disk = file.disk /\ file'.number = file.number
  BY <1>1, EmptyContent
<1> QED BY <1>1, <1>2 DEF Store!Exit, EmptyCache, Durable

\* The header is read and written past the cache.
LEMMA HeaderStep ==
  /\ FileInv /\ read_header => Store!ReadHeader
  /\ \A h \in Data : FileInv /\ set_header(h) => Store!SetHeader(h)
<1>1. ASSUME FileInv, read_header PROVE Store!ReadHeader
  <2>1. file'.disk = file.disk /\ file'.number = file.number
    BY <1>1, InvFileOK, HeaderOK DEF read_header, FileOK
  <2>2. Content' = Content /\ Durable' = Durable
    BY <1>1, <2>1, SameContent DEF read_header, cacheVars
  <2> QED BY <1>1, <2>1, <2>2 DEF read_header, Store!ReadHeader, Durable
<1>2. ASSUME FileInv, NEW h \in Data, set_header(h) PROVE Store!SetHeader(h)
  <2>1. file.disk \in [0 .. file.number -> Data] /\ file.number \in Nat
    BY <1>2, CachedBlockFileAssumption DEF FileInv, TypeOK
  <2>2. file'.disk = [file.disk EXCEPT ![0] = h] /\ file'.number = file.number
    BY <1>2, <2>1, InvFileOK, HeaderOK DEF set_header
  <2>3. \A k \in 1 .. file.number : file'.disk[k] = file.disk[k]
    BY <2>1, <2>2
  <2>4. UNCHANGED <<cache_cont, fuf_cont, cache, closing>> /\ ~closing /\ call' = <<0, h>>
    BY <1>2 DEF set_header, cacheVars
  <2>5. \A k : Holding(k)' = Holding(k)
    BY <2>4 DEF Holding
  <2>6. Durable' = Durable
    BY <2>2, <2>3 DEF Durable
  <2>7. Content' = Content
    <3>1. ASSUME NEW k \in 1 .. file.number PROVE Content'[k] = Content[k]
      <4>1. Shown(k, Content[k]) /\ Shown(k, Content[k])'
        BY <1>2, <2>2, HeaderInv, ContentOf, ContentNext DEF ContentShown
      <4> QED BY <2>3, <2>4, <2>5, <4>1 DEF Shown
    <3>2. Content' = [k \in 1 .. file.number |-> Content'[k]] /\ Content = [k \in 1 .. file.number |-> Content[k]]
      BY <2>2 DEF Content
    <3> QED BY <3>1, <3>2
  <2>8. file'.disk[0] = h
    BY <2>1, <2>2
  <2> QED BY <2>2, <2>4, <2>6, <2>7, <2>8 DEF Store!SetHeader, Durable
<1> QED BY <1>1, <1>2

\* The initial states map to initial states of the store.
LEMMA InitStep == Init => Store!Init
<1> SUFFICES ASSUME Init PROVE Store!Init
  OBVIOUS
<1>1. PICK h \in Data : file = [disk |-> [k \in 0 .. 0 |-> h], number |-> 0, act_block |-> 0, pos |-> 0]
  BY DEF Init
<1>2. file.number = 0 /\ file.disk[0] = h /\ 1 .. 0 = {}
  BY <1>1
<1>3. Content = [k \in 1 .. 0 |-> 0] /\ Durable = [k \in 1 .. 0 |-> 0]
  BY <1>2 DEF Content, Durable
<1> QED BY <1>2, <1>3 DEF Store!Init, Init, Durable

\* Every step maps to a step of the store or to a stutter.
LEMMA NextStep == FileInv /\ [Next]_vars => [Store!Next]_(Store!vars)
<1> SUFFICES ASSUME FileInv, [Next]_vars PROVE [Store!Next]_(Store!vars)
  OBVIOUS
<1>1. ASSUME NEW b \in Data, AppendBlock(b) \/ set_header(b) PROVE Store!Next
  BY <1>1, AppendStep, HeaderStep DEF Store!Next
<1>2. ASSUME NEW index \in 1 .. file.number,
             ReadHit(index) \/ ReadMiss(index) \/ ReadUncached(index)
      PROVE Store!Next
  BY <1>2, ReadHitStep, ReadMissStep, ReadUncachedStep DEF Store!Next
<1>3. ASSUME NEW index \in 1 .. file.number, NEW b \in Data,
             WriteHit(index, b) \/ WriteMiss(index, b) \/ WriteUncached(index, b)
      PROVE Store!Next
  BY <1>3, WriteHitStep, WriteMissStep, WriteUncachedStep DEF Store!Next
<1>4. CASE read_header
  BY <1>4, HeaderStep DEF Store!Next
<1>5. CASE Destroy
  <2>1. UNCHANGED <<file, cache_cont, fuf_cont, cache, call>> /\ ~closing /\ closing' = TRUE
    BY <1>5 DEF Destroy, cacheVars
  <2>2. Content' = Content /\ Durable' = Durable
    BY <2>1, SameContent
  <2>3. Store!StartClose
    BY <2>1, <2>2 DEF Store!StartClose, Durable
  <2> QED BY <2>3 DEF Store!Next
<1>6. CASE FlushSlot
  BY <1>6, FlushSlotStep DEF Store!Next
<1>7. CASE Reopen
  BY <1>7, ReopenStep DEF Store!Next
<1>8. CASE Exit
  BY <1>8, ExitStep DEF Store!Next
<1>9. CASE UNCHANGED vars
  <2>1. Content' = Content /\ Durable' = Durable /\ UNCHANGED <<file, call, closing>>
    BY <1>9, SameContent DEF vars, cacheVars
  <2> QED BY <2>1 DEF Store!vars, Durable
<1> QED BY <1>1, <1>2, <1>3, <1>4, <1>5, <1>6, <1>7, <1>8, <1>9 DEF Next

\* CachedBlockFile implements BlockStore: reads, writes, evictions and the
\* flush of its destructor keep what that promises.
THEOREM CacheImplementsStore == Spec => Implements
<1>1. Init => FileInv
  BY InitInv
<1>2. FileInv /\ [Next]_vars => FileInv'
  BY NextInv
<1>3. Init => Store!Init
  BY InitStep
<1>4. FileInv /\ [Next]_vars => [Store!Next]_(Store!vars)
  BY NextStep
<1> QED BY <1>1, <1>2, <1>3, <1>4, PTL DEF Spec, Implements, Store!Spec
=============================================================================
