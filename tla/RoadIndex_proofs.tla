-------------------------- MODULE RoadIndex_proofs --------------------------
(***************************************************************************)
(* Facts about what the queries read.  Scores are ordered fractions, the   *)
(* K-th best of some scores has fewer than K over it, keyword weights add  *)
(* up, and the social part of a score only adds to it.  The paths of a     *)
(* tree agree above a node that they share; a shortest way out of a node   *)
(* leads through one of its borders.                                       *)
(***************************************************************************)
EXTENDS RoadIndex, FiniteFacts

-----------------------------------------------------------------------------
(* The order of scores.                                                    *)

\* Scores have a positive denominator.
Fractions == Nat \X (Nat \ {0})

\* Multiplying by a positive number keeps the order of numbers.
LEMMA ProductOrder ==
  ASSUME NEW a \in Nat, NEW b \in Nat, NEW c \in Nat \ {0}
  PROVE  a * c < b * c <=> a < b
OBVIOUS

\* A product grows with each factor.
LEMMA ProductsGrow ==
  ASSUME NEW a \in Nat, NEW b \in Nat, NEW c \in Nat, a <= b
  PROVE  a * c \in Nat /\ b * c \in Nat /\ a * c <= b * c /\ c * a <= c * b
OBVIOUS

\* Scores are ordered, ties included.
LEMMA LessTransitive ==
  ASSUME NEW x \in Fractions, NEW y \in Fractions, NEW z \in Fractions
  PROVE  /\ Less(x, y) /\ ~Less(z, y) => Less(x, z)
         /\ ~Less(y, x) /\ Less(y, z) => Less(x, z)
<1> DEFINE a == x[1]  b == x[2]  c == y[1]  d == y[2]  e == z[1]  f == z[2]
<1>1. a \in Nat /\ b \in Nat \ {0} /\ c \in Nat /\ d \in Nat \ {0} /\ e \in Nat /\ f \in Nat \ {0}
  BY DEF Fractions
<1>2. /\ Less(x, y) <=> a * d < c * b
      /\ Less(z, y) <=> e * d < c * f
      /\ Less(y, x) <=> c * b < a * d
      /\ Less(y, z) <=> c * f < e * d
      /\ Less(x, z) <=> a * f < e * b
  BY DEF Less
<1> HIDE DEF a, b, c, d, e, f
<1>3. a * d \in Nat /\ c * b \in Nat /\ e * d \in Nat /\ c * f \in Nat /\ a * f \in Nat /\ e * b \in Nat
  BY <1>1
<1>4. (a * d) * f = (a * f) * d /\ (e * d) * b = (e * b) * d /\ (c * b) * f = (c * f) * b
  BY <1>1
<1>5. /\ a * d < c * b <=> (a * d) * f < (c * b) * f
      /\ c * b < a * d <=> (c * b) * f < (a * d) * f
      /\ e * d < c * f <=> (e * d) * b < (c * f) * b
      /\ c * f < e * d <=> (c * f) * b < (e * d) * b
      /\ a * f < e * b <=> (a * f) * d < (e * b) * d
  BY <1>1, <1>3, ProductOrder
<1>6. (a * f) * d \in Nat /\ (e * b) * d \in Nat /\ (c * f) * b \in Nat
  BY <1>1, <1>3
<1> DEFINE l == (a * f) * d  m == (c * f) * b  r == (e * b) * d
<1>7. /\ Less(x, y) <=> l < m
      /\ Less(z, y) <=> r < m
      /\ Less(y, x) <=> m < l
      /\ Less(y, z) <=> m < r
      /\ Less(x, z) <=> l < r
  BY <1>2, <1>4, <1>5
<1> HIDE DEF l, m, r
<1>8. l \in Nat /\ m \in Nat /\ r \in Nat
  BY <1>6 DEF l, m, r
<1> QED BY <1>7, <1>8

\* Nothing is less than itself, nor both less and greater.
LEMMA LessIrreflexive ==
  ASSUME NEW x \in Fractions
  PROVE  ~Less(x, x)
<1> x[1] * x[2] \in Nat
  BY DEF Fractions
<1> QED BY DEF Less

\* Of two scores one at most is less.
LEMMA LessAsymmetric ==
  ASSUME NEW x \in Fractions, NEW y \in Fractions
  PROVE  Less(x, y) => ~Less(y, x)
<1> x[1] * y[2] \in Nat /\ y[1] * x[2] \in Nat
  BY DEF Fractions
<1> QED BY DEF Less

\* A score that something has, a worst and a best one.
LEMMA WorstAndBest ==
  ASSUME NEW sc, NEW S, IsFiniteSet(S), S # {}, \A p \in S : sc[p] \in Fractions
  PROVE  /\ \E p \in S : \A q \in S : ~Less(sc[q], sc[p])
         /\ \E p \in S : \A q \in S : ~Less(sc[p], sc[q])
<1> DEFINE up   == {e \in S \X S : Less(sc[e[1]], sc[e[2]])}
           down == {e \in S \X S : Less(sc[e[2]], sc[e[1]])}
<1>1. \A p, q \in S : /\ <<p, q>> \in up <=> Less(sc[p], sc[q])
                      /\ <<p, q>> \in down <=> Less(sc[q], sc[p])
  OBVIOUS
<1>2. \A p \in S : ~Less(sc[p], sc[p])
  BY LessIrreflexive
<1>3. \A p, q, r \in S : Less(sc[p], sc[q]) /\ Less(sc[q], sc[r]) => Less(sc[p], sc[r])
  BY LessTransitive, LessAsymmetric
<1> HIDE DEF up, down
<1>4. /\ \A p \in S : <<p, p>> \notin up /\ <<p, p>> \notin down
      /\ \A p, q, r \in S : <<p, q>> \in up /\ <<q, r>> \in up => <<p, r>> \in up
      /\ \A p, q, r \in S : <<p, q>> \in down /\ <<q, r>> \in down => <<p, r>> \in down
  BY <1>1, <1>2, <1>3
<1>5. \E p \in S : \A q \in S : <<q, p>> \notin up
  BY <1>4, FirstOfOrder
<1>6. \E p \in S : \A q \in S : <<q, p>> \notin down
  BY <1>4, FirstOfOrder
<1> QED BY <1>1, <1>5, <1>6

\* Those of D whose score is over s.
Over(sc, D, s) == {q \in D : Less(s, sc[q])}

\* The K-th best score has fewer than K over it, and K that it is not over
\* when there are K.
LEMMA KthBestIsKth ==
  ASSUME NEW sc, IsFiniteSet(DOMAIN sc), DOMAIN sc # {},
         \A p \in DOMAIN sc : sc[p] \in Fractions
  PROVE  /\ KthBest(sc) \in Fractions
         /\ Cardinality(Over(sc, DOMAIN sc, KthBest(sc))) < K
         /\ Cardinality(DOMAIN sc) >= K =>
              Cardinality({q \in DOMAIN sc : ~Less(sc[q], KthBest(sc))}) >= K
<1> DEFINE D == DOMAIN sc
           best == {p \in D : Cardinality(Over(sc, D, sc[p])) < K}
<1>1. K \in Nat \ {0}
  BY RoadAssumption
<1>2. \A S \in SUBSET D : IsFiniteSet(S) /\ Cardinality(S) \in Nat
  BY FS_Subset, FS_CardinalityType
<1>3. best # {}
  <2>1. PICK p \in D : \A q \in D : ~Less(sc[p], sc[q])
    BY WorstAndBest
  <2>2. Over(sc, D, sc[p]) = {}
    BY <2>1 DEF Over
  <2>3. Cardinality(Over(sc, D, sc[p])) = 0
    BY <2>2, FS_EmptySet
  <2> QED BY <1>1, <2>3
<1>4. \E p \in best : \A q \in best : ~Less(sc[q], sc[p])
  <2>1. IsFiniteSet(best) /\ \A p \in best : sc[p] \in Fractions
    BY <1>2
  <2> HIDE DEF best
  <2> QED BY <1>3, <2>1, WorstAndBest
<1> DEFINE p0 == CHOOSE p \in best : \A q \in best : ~Less(sc[q], sc[p])
<1>5. p0 \in best /\ \A q \in best : ~Less(sc[q], sc[p0])
  <2> HIDE DEF best
  <2> QED BY <1>4
<1>6. KthBest(sc) = sc[p0]
  BY DEF KthBest, Over
<1> HIDE DEF p0
<1>7. p0 \in D /\ Cardinality(Over(sc, D, sc[p0])) < K
  BY <1>5
<1>8. ASSUME Cardinality(D) >= K, ~(Cardinality({q \in D : ~Less(sc[q], sc[p0])}) >= K)
      PROVE  FALSE
  <2> DEFINE good == {q \in D : ~Less(sc[q], sc[p0])}
             rest == D \ good
  <2>1. good # D
    BY <1>1, <1>8
  <2>2. IsFiniteSet(rest) /\ rest # {} /\ \A q \in rest : sc[q] \in Fractions
    BY <1>2, <2>1
  <2>3. PICK r \in rest : \A q \in rest : ~Less(sc[r], sc[q])
    <3> HIDE DEF rest
    <3> QED BY <2>2, WorstAndBest
  <2>4. Over(sc, D, sc[r]) \in SUBSET good
    BY <2>3 DEF Over
  <2>5. Cardinality(Over(sc, D, sc[r])) <= Cardinality(good) /\ Cardinality(good) \in Nat
        /\ Cardinality(Over(sc, D, sc[r])) \in Nat
    <3>1. good \in SUBSET D
      OBVIOUS
    <3> HIDE DEF good
    <3> QED BY <1>2, <2>4, <3>1, FS_Subset
  <2>6. Cardinality(Over(sc, D, sc[r])) < K
    BY <1>1, <1>8, <2>5
  <2> QED BY <1>5, <2>6
<1> QED BY <1>6, <1>7, <1>8
-----------------------------------------------------------------------------
(* Distances of users and POIs.                                            *)

\* Where u and p are, and how far from the ends of their roads.
LEMMA Places ==
  ASSUME Placed(db), NEW u \in Users, NEW p \in Pois
  PROVE  /\ db.uAt[u] \in Vertices /\ db.uTo[u] \in Vertices /\ db.uDis[u] \in Nat
         /\ {db.uAt[u], db.uTo[u]} \in Edges /\ Dist[db.uAt[u]][db.uTo[u]] - db.uDis[u] \in Nat
         /\ db.pAt[p] \in Vertices /\ db.pTo[p] \in Vertices /\ db.pDis[p] \in Nat
         /\ {db.pAt[p], db.pTo[p]} \in Edges /\ Dist[db.pAt[p]][db.pTo[p]] - db.pDis[p] \in Nat
<1>1. /\ db.uAt[u] \in Vertices /\ db.uTo[u] \in Vertices /\ db.uDis[u] \in Nat
      /\ {db.uAt[u], db.uTo[u]} \in Edges /\ db.uDis[u] <= Dist[db.uAt[u]][db.uTo[u]]
      /\ db.pAt[p] \in Vertices /\ db.pTo[p] \in Vertices /\ db.pDis[p] \in Nat
      /\ {db.pAt[p], db.pTo[p]} \in Edges /\ db.pDis[p] <= Dist[db.pAt[p]][db.pTo[p]]
  BY DEF Placed
<1>2. Dist[db.uAt[u]][db.uTo[u]] \in Nat /\ Dist[db.pAt[p]][db.pTo[p]] \in Nat
  BY <1>1, RoadAssumption
<1> QED BY <1>1, <1>2

\* The lesser of two numbers.
LEMMA LesserIs ==
  ASSUME NEW x \in Nat, NEW y \in Nat
  PROVE  /\ Lesser(x, y) \in Nat /\ Lesser(x, y) <= x /\ Lesser(x, y) <= y
         /\ Lesser(x, y) = x \/ Lesser(x, y) = y
BY DEF Lesser

\* The distance of a vertex is the way by one end of the road, no way is shorter.
LEMMA Ways ==
  ASSUME Placed(db), NEW u \in Users, NEW p \in Pois, NEW v \in Vertices
  PROVE  /\ UserDist(v, u) \in Nat /\ PoiDist(v, p) \in Nat /\ UpperDist(v, p) \in Nat
         /\ UserDist(v, u) <= Dist[v][db.uAt[u]] + db.uDis[u]
         /\ UserDist(v, u) <= Dist[v][db.uTo[u]] + (Dist[db.uAt[u]][db.uTo[u]] - db.uDis[u])
         /\ \/ UserDist(v, u) = Dist[v][db.uAt[u]] + db.uDis[u]
            \/ UserDist(v, u) = Dist[v][db.uTo[u]] + (Dist[db.uAt[u]][db.uTo[u]] - db.uDis[u])
         /\ PoiDist(v, p) <= Dist[v][db.pAt[p]] + db.pDis[p]
         /\ PoiDist(v, p) <= Dist[v][db.pTo[p]] + (Dist[db.pAt[p]][db.pTo[p]] - db.pDis[p])
         /\ \/ PoiDist(v, p) = Dist[v][db.pAt[p]] + db.pDis[p]
            \/ PoiDist(v, p) = Dist[v][db.pTo[p]] + (Dist[db.pAt[p]][db.pTo[p]] - db.pDis[p])
<1> DEFINE a == Dist[v][db.uAt[u]] + db.uDis[u]
           b == Dist[v][db.uTo[u]] + (Dist[db.uAt[u]][db.uTo[u]] - db.uDis[u])
           c == Dist[v][db.pAt[p]] + db.pDis[p]
           d == Dist[v][db.pTo[p]] + (Dist[db.pAt[p]][db.pTo[p]] - db.pDis[p])
<1>1. /\ Dist[v][db.uAt[u]] \in Nat /\ Dist[v][db.uTo[u]] \in Nat
      /\ Dist[v][db.pAt[p]] \in Nat /\ Dist[v][db.pTo[p]] \in Nat
  <2>1. /\ db.uAt[u] \in Vertices /\ db.uTo[u] \in Vertices
        /\ db.pAt[p] \in Vertices /\ db.pTo[p] \in Vertices
    BY Places
  <2>2. \A w \in Vertices : Dist[v][w] \in Nat
    BY RoadAssumption
  <2> QED BY <2>1, <2>2
<1>2. a \in Nat /\ b \in Nat /\ c \in Nat /\ d \in Nat
  <2>1. /\ db.uDis[u] \in Nat /\ Dist[db.uAt[u]][db.uTo[u]] - db.uDis[u] \in Nat
        /\ db.pDis[p] \in Nat /\ Dist[db.pAt[p]][db.pTo[p]] - db.pDis[p] \in Nat
    BY Places
  <2> QED BY <1>1, <2>1
<1>3. UserDist(v, u) = Lesser(a, b) /\ PoiDist(v, p) = Lesser(c, d) /\ UpperDist(v, p) = c
  BY DEF UserDist, PoiDist, UpperDist
<1> HIDE DEF a, b, c, d
<1>4. /\ UserDist(v, u) \in Nat /\ UserDist(v, u) <= a /\ UserDist(v, u) <= b
      /\ UserDist(v, u) = a \/ UserDist(v, u) = b
      /\ PoiDist(v, p) \in Nat /\ PoiDist(v, p) <= c /\ PoiDist(v, p) <= d
      /\ PoiDist(v, p) = c \/ PoiDist(v, p) = d
      /\ UpperDist(v, p) \in Nat
  BY <1>2, <1>3, LesserIs
<1> QED BY <1>2, <1>3, <1>4 DEF a, b, c, d

\* A bound's distance is a number.
LEMMA UpperTypes ==
  ASSUME Placed(db), NEW p \in Pois, NEW v \in Vertices
  PROVE  UpperDist(v, p) \in Nat
<1>1. db.pAt[p] \in Vertices /\ db.pDis[p] \in Nat
  BY DEF Placed
<1>2. Dist[v][db.pAt[p]] \in Nat
  BY <1>1, RoadAssumption
<1> QED BY <1>1, <1>2 DEF UpperDist

\* Distances of users and POIs are numbers, none longer than the way by both Ni.
LEMMA DistancesAre ==
  ASSUME Placed(db), NEW u \in Users, NEW p \in Pois
  PROVE  /\ usrToPOIDistance(u, p) \in Nat /\ UpperOfUser(u, p) \in Nat
         /\ usrToPOIDistance(u, p) <= UpperOfUser(u, p)
<1> DEFINE x == db.uAt[u]  y == db.pAt[p]  z == db.pTo[p]
           left == Dist[y][z] - db.pDis[p]
<1>1. /\ x \in Vertices /\ y \in Vertices /\ z \in Vertices
      /\ db.uDis[u] \in Nat /\ db.pDis[p] \in Nat /\ left \in Nat
  BY Places
<1>2. /\ UserDist(y, u) \in Nat /\ UserDist(z, u) \in Nat
      /\ UserDist(y, u) <= Dist[y][x] + db.uDis[u]
  BY <1>1, Ways
<1>3. Dist[x][y] \in Nat /\ Dist[y][x] = Dist[x][y]
  BY <1>1, RoadAssumption
<1>4. UpperOfUser(u, p) = Dist[x][y] + db.pDis[p] + db.uDis[u]
  BY DEF UpperOfUser, UpperDist
<1>5. UpperOfUser(u, p) \in Nat
  BY <1>1, <1>3, <1>4
<1>6. CASE x = y
  <2>1. \/ usrToPOIDistance(u, p) = db.uDis[u] + db.pDis[p]
        \/ db.uDis[u] > db.pDis[p] /\ usrToPOIDistance(u, p) = db.uDis[u] - db.pDis[p]
        \/ ~(db.uDis[u] > db.pDis[p]) /\ usrToPOIDistance(u, p) = db.pDis[p] - db.uDis[u]
    BY <1>6 DEF usrToPOIDistance
  <2> HIDE DEF x, y, z, left
  <2> QED BY <1>1, <1>3, <1>4, <1>5, <2>1
<1>7. CASE x # y
  <2>1. usrToPOIDistance(u, p) = Lesser(UserDist(y, u) + db.pDis[p], UserDist(z, u) + left)
    BY <1>7 DEF usrToPOIDistance
  <2> HIDE DEF x, y, z, left
  <2>2. UserDist(y, u) + db.pDis[p] \in Nat /\ UserDist(z, u) + left \in Nat
    BY <1>1, <1>2
  <2>3. /\ usrToPOIDistance(u, p) \in Nat
        /\ usrToPOIDistance(u, p) <= UserDist(y, u) + db.pDis[p]
    BY <2>1, <2>2, LesserIs
  <2> QED BY <1>1, <1>2, <1>3, <1>4, <1>5, <2>3
<1> QED BY <1>6, <1>7

-----------------------------------------------------------------------------
(* Scores of users and POIs.                                               *)

\* Weights of keywords add up to a number, the more the greater.
LEMMA WeightsAdd ==
  /\ \A S \in SUBSET Terms : tfIDF_termSet(S) \in Nat
  /\ \A S \in SUBSET Terms : \A T \in SUBSET S : tfIDF_termSet(T) <= tfIDF_termSet(S)
<1>1. \A S : tfIDF_termSet(S) = Total(Idf, S)
  BY DEF tfIDF_termSet, Total
<1>2. ASSUME NEW S \in SUBSET Terms
      PROVE  /\ tfIDF_termSet(S) \in Nat
             /\ \A T \in SUBSET S : tfIDF_termSet(T) <= tfIDF_termSet(S)
  <2>1. IsFiniteSet(S) /\ \A x \in S : Idf[x] \in Nat /\ Idf[x] <= Idf[x]
    BY RoadAssumption, FS_Subset
  <2>2. Total(Idf, S) \in Nat
    BY <2>1, TotalRemove
  <2>3. ASSUME NEW T \in SUBSET S
        PROVE  Total(Idf, T) <= Total(Idf, S)
    BY <2>1, TotalMonotonic
  <2> QED BY <1>1, <2>2, <2>3
<1> QED BY <1>2

\* The scores of the POIs that share a keyword with u.
Gsk(u) == [p \in RelatedPois(u) |-> GSKScore(u, p)]

\* Scores are fractions, and the social part only adds.
LEMMA ScoreTypes ==
  ASSUME Placed(db), NEW u \in Users, NEW p \in Pois
  PROVE  /\ GSKScore(u, p) \in Fractions /\ TextScore(u, p) \in Fractions
         /\ Shared(u, p) # {} => ~Less(GSKScore(u, p), TextScore(u, p))
<1> DEFINE w == tfIDF_termSet(Shared(u, p))
           d == 1 + usrToPOIDistance(u, p)
           e == 1 + UpperOfUser(u, p)
           a == IF <<u, p>> \in db.friends THEN Social ELSE 0
<1>1. Shared(u, p) \in SUBSET Terms
  BY DEF Placed, Shared
<1>2. w \in Nat
  BY <1>1, WeightsAdd
<1>3. d \in Nat \ {0} /\ e \in Nat \ {0} /\ d <= e /\ a \in Nat /\ Alpha \in Nat
  <2>1. /\ usrToPOIDistance(u, p) \in Nat /\ UpperOfUser(u, p) \in Nat
        /\ usrToPOIDistance(u, p) <= UpperOfUser(u, p)
    BY DistancesAre
  <2>2. Alpha \in Nat /\ a \in Nat
    BY RoadAssumption
  <2> QED BY <2>1, <2>2
<1>4. /\ GSKScore(u, p) = IF Shared(u, p) = {} THEN <<0, 1>> ELSE <<Alpha + a + w, d>>
      /\ TextScore(u, p) = <<Alpha + w, e>>
  BY DEF GSKScore, TextScore
<1> HIDE DEF w, d, e, a
<1> DEFINE l == Alpha + w  m == Alpha + a + w
<1>5. l \in Nat /\ m \in Nat /\ l <= m
  BY <1>2, <1>3
<1> HIDE DEF l, m
<1>6. l * d \in Nat /\ m * d \in Nat /\ m * e \in Nat /\ l * d <= m * d /\ m * d <= m * e
  BY <1>3, <1>5, ProductsGrow
<1>7. ~(m * e < l * d)
  BY <1>6
<1>8. /\ GSKScore(u, p) = IF Shared(u, p) = {} THEN <<0, 1>> ELSE <<m, d>>
      /\ TextScore(u, p) = <<l, e>>
  BY <1>4 DEF l, m
<1> QED BY <1>3, <1>5, <1>7, <1>8 DEF Fractions, Less

\* What beats a score shares a keyword.
LEMMA BetterIsRelated ==
  ASSUME NEW u, NEW p \in Pois, NEW x \in Fractions, Less(x, GSKScore(u, p))
  PROVE  p \in RelatedPois(u)
<1> SUFFICES ASSUME Shared(u, p) = {} PROVE FALSE
  BY DEF RelatedPois
<1>1. GSKScore(u, p) = <<0, 1>>
  BY DEF GSKScore
<1> QED BY <1>1 DEF Less, Fractions

\* The K-th best score of a user who shares a keyword is one.
LEMMA TopkTypes ==
  ASSUME Placed(db), NEW u \in Users, RelatedPois(u) # {}
  PROVE  TopkScore(u) \in Fractions
<1> DEFINE D == RelatedPois(u)
<1>1. D \in SUBSET Pois /\ IsFiniteSet(D)
  <2>1. D \in SUBSET Pois
    BY DEF RelatedPois
  <2> HIDE DEF D
  <2> QED BY <2>1, RoadAssumption, FS_Subset
<1>2. DOMAIN Gsk(u) = D /\ \A p \in D : Gsk(u)[p] \in Fractions
  BY <1>1, ScoreTypes DEF Gsk
<1>3. TopkScore(u) = KthBest(Gsk(u))
  BY DEF TopkScore, Gsk
<1> QED BY <1>1, <1>2, <1>3, KthBestIsKth

\* Where K POIs promise no less than s, the K-th best score is no less than s.
LEMMA KthIsOver ==
  ASSUME Placed(db), NEW u \in Users, NEW s \in Fractions,
         NEW S \in SUBSET RelatedPois(u), Cardinality(S) >= K,
         \A p \in S : ~Less(GSKScore(u, p), s)
  PROVE  ~Less(TopkScore(u), s)
<1> DEFINE D == RelatedPois(u)
           over == Over(Gsk(u), D, TopkScore(u))
<1>1. /\ D \in SUBSET Pois /\ IsFiniteSet(D) /\ IsFiniteSet(S) /\ Cardinality(S) \in Nat
      /\ K \in Nat \ {0}
  <2>1. D \in SUBSET Pois /\ S \in SUBSET D
    BY DEF RelatedPois
  <2> HIDE DEF D
  <2> QED BY <2>1, RoadAssumption, FS_Subset, FS_CardinalityType
<1>2. D # {}
  BY <1>1, FS_EmptySet
<1>3. DOMAIN Gsk(u) = D /\ \A p \in D : Gsk(u)[p] \in Fractions /\ Gsk(u)[p] = GSKScore(u, p)
  BY <1>1, ScoreTypes DEF Gsk
<1>4. TopkScore(u) = KthBest(Gsk(u))
  BY DEF TopkScore, Gsk
<1>5. TopkScore(u) \in Fractions /\ Cardinality(over) < K
  BY <1>1, <1>2, <1>3, <1>4, KthBestIsKth
<1> SUFFICES ASSUME Less(TopkScore(u), s)
             PROVE  FALSE
  OBVIOUS
<1>6. ASSUME NEW p \in S
      PROVE  p \in over
  BY <1>3, <1>5, LessTransitive DEF Over
<1>7. S \in SUBSET over /\ over \in SUBSET D
  BY <1>6 DEF Over
<1> HIDE DEF D, over
<1>8. IsFiniteSet(over) /\ Cardinality(over) \in Nat /\ Cardinality(S) <= Cardinality(over)
  BY <1>1, <1>7, FS_Subset, FS_CardinalityType
<1> QED BY <1>1, <1>5, <1>8

-----------------------------------------------------------------------------
(* The tree.                                                               *)

\* Every vertex has a path, which ends in its leaf.
LEMMA EveryPath ==
  ASSUME NEW v \in Vertices
  PROVE  /\ gtreepath[v] \in Seq(Nat) /\ Len(gtreepath[v]) \in Nat \ {0}
         /\ LeafOf[v] = gtreepath[v][Len(gtreepath[v])]
         /\ LeafOf[v] \in ToSet(gtreepath[v]) /\ LeafOf[v] \in GTree
         /\ \A i \in 1 .. Len(gtreepath[v]) : gtreepath[v][i] \in GTree /\ v \in Under[gtreepath[v][i]]
<1>1. gtreepath[v] \in Seq(Nat) /\ gtreepath[v] # <<>>
  BY RoadAssumption
<1>2. Len(gtreepath[v]) \in DOMAIN gtreepath[v] /\ DOMAIN gtreepath[v] = 1 .. Len(gtreepath[v])
  BY <1>1
<1>3. \A i \in 1 .. Len(gtreepath[v]) : gtreepath[v][i] \in ToSet(gtreepath[v])
  BY <1>2 DEF ToSet
<1>4. LeafOf[v] = gtreepath[v][Len(gtreepath[v])]
  BY DEF LeafOf
<1>5. ToSet(gtreepath[v]) \in SUBSET GTree
  BY DEF GTree
<1>6. ASSUME NEW i \in 1 .. Len(gtreepath[v])
      PROVE  v \in Under[gtreepath[v][i]]
  BY <1>3, <1>5 DEF Under
<1> QED BY <1>1, <1>2, <1>3, <1>4, <1>5, <1>6

\* A node that is a leaf on one path is the last of every path it is on.
LEMMA OneLeaf ==
  ASSUME OneTree, NEW v \in Vertices, NEW w \in Vertices
  PROVE  LeafOf[v] \in ToSet(gtreepath[w]) <=> LeafOf[w] = LeafOf[v]
<1>1. ASSUME LeafOf[v] \in ToSet(gtreepath[w])
      PROVE  LeafOf[w] = LeafOf[v]
  <2>1. PICK j \in DOMAIN gtreepath[w] : gtreepath[w][j] = LeafOf[v]
    BY <1>1 DEF ToSet
  <2>2. Len(gtreepath[v]) \in DOMAIN gtreepath[v] /\ gtreepath[v][Len(gtreepath[v])] = LeafOf[v]
    BY EveryPath
  <2>3. Len(gtreepath[v]) = j /\ Len(gtreepath[v]) = Len(gtreepath[w])
    BY <2>1, <2>2 DEF OneTree
  <2> QED BY <2>1, <2>3, EveryPath
<1> QED BY <1>1, EveryPath

\* Two paths that share a node are the same down to it.
LEMMA PathsAgree ==
  ASSUME OneTree, NEW v \in Vertices, NEW w \in Vertices,
         NEW i \in 1 .. Len(gtreepath[v]), NEW j \in 1 .. Len(gtreepath[w]),
         gtreepath[v][i] = gtreepath[w][j]
  PROVE  i = j /\ \A k \in 1 .. i : gtreepath[v][k] = gtreepath[w][k]
<1>1. /\ DOMAIN gtreepath[v] = 1 .. Len(gtreepath[v]) /\ Len(gtreepath[v]) \in Nat
      /\ DOMAIN gtreepath[w] = 1 .. Len(gtreepath[w]) /\ Len(gtreepath[w]) \in Nat
  BY RoadAssumption
<1>2. i = j
  BY <1>1 DEF OneTree
<1>3. ASSUME NEW k \in 1 .. i - 1, gtreepath[v][k+1] = gtreepath[w][k+1]
      PROVE  gtreepath[v][k] = gtreepath[w][k]
  <2>1. k + 1 \in DOMAIN gtreepath[v] /\ k + 1 \in DOMAIN gtreepath[w] /\ k + 1 > 1 /\ (k + 1) - 1 = k
    BY <1>1, <1>2
  <2>2. gtreepath[v][(k+1)-1] = gtreepath[w][(k+1)-1]
    BY <1>3, <2>1 DEF OneTree
  <2> QED BY <2>1, <2>2
<1> DEFINE bad == {d \in 0 .. i - 1 : gtreepath[v][i-d] # gtreepath[w][i-d]}
<1>4. bad = {}
  <2> SUFFICES ASSUME bad # {}
               PROVE  FALSE
    OBVIOUS
  <2>1. bad \in SUBSET Nat
    OBVIOUS
  <2>2. PICK d \in bad : \A e \in bad : d <= e
    <3> HIDE DEF bad
    <3> QED BY <2>1, LeastNatural
  <2>3. d # 0
    BY <1>2
  <2>4. d - 1 \in 0 .. i - 1 /\ ~(d <= d - 1)
    BY <2>3
  <2>5. gtreepath[v][i-(d-1)] = gtreepath[w][i-(d-1)]
    BY <2>2, <2>4
  <2>6. i - d \in 1 .. i - 1 /\ (i - d) + 1 = i - (d - 1)
    BY <2>3
  <2> QED BY <1>3, <2>5, <2>6
<1>5. ASSUME NEW k \in 1 .. i
      PROVE  gtreepath[v][k] = gtreepath[w][k]
  <2>1. i - k \in 0 .. i - 1 /\ i - (i - k) = k
    OBVIOUS
  <2> QED BY <1>4, <2>1
<1> QED BY <1>2, <1>5

\* A node of the tree is somewhere on the path of each vertex under it.
LEMMA PlaceOnPath ==
  ASSUME NEW n \in GTree, NEW v \in Under[n]
  PROVE  v \in Vertices /\ \E i \in 1 .. Len(gtreepath[v]) : gtreepath[v][i] = n
<1>1. v \in Vertices /\ n \in ToSet(gtreepath[v])
  BY DEF Under
<1>2. DOMAIN gtreepath[v] = 1 .. Len(gtreepath[v])
  BY <1>1, RoadAssumption
<1> QED BY <1>1, <1>2 DEF ToSet

\* A vertex is under a leaf if it is its own.
LEMMA UnderLeaf ==
  ASSUME OneTree, NEW n \in GTree, isleaf(n), NEW v \in Vertices
  PROVE  v \in Under[n] <=> LeafOf[v] = n
<1>1. PICK w \in Vertices : LeafOf[w] = n
  BY DEF isleaf
<1>2. v \in Under[n] <=> n \in ToSet(gtreepath[v])
  BY DEF Under
<1> QED BY <1>1, <1>2, OneLeaf

\* A node on a path that is not its end has the next one for a child, and is no
\* leaf.
LEMMA NextIsChild ==
  ASSUME OneTree, NEW v \in Vertices, NEW i \in 1 .. Len(gtreepath[v]) - 1
  PROVE  /\ ~isleaf(gtreepath[v][i])
         /\ gtreepath[v][i] \in GTree /\ v \in Under[gtreepath[v][i]]
         /\ gtreepath[v][i+1] \in Children[gtreepath[v][i]]
         /\ gtreepath[v][i+1] \in GTree /\ v \in Under[gtreepath[v][i+1]]
<1>1. Len(gtreepath[v]) \in Nat /\ i \in 1 .. Len(gtreepath[v]) /\ i + 1 \in 2 .. Len(gtreepath[v]) /\ (i + 1) - 1 = i
  BY EveryPath
<1>2. /\ gtreepath[v][i] \in GTree /\ v \in Under[gtreepath[v][i]]
      /\ gtreepath[v][i+1] \in GTree /\ v \in Under[gtreepath[v][i+1]]
  BY <1>1, EveryPath
<1>3. gtreepath[v][i+1] \in Children[gtreepath[v][i]]
  BY <1>1, <1>2 DEF Children
<1>4. ASSUME NEW w \in Vertices, LeafOf[w] = gtreepath[v][i]
      PROVE  FALSE
  <2>1. LeafOf[v] = gtreepath[v][i]
    <3>1. gtreepath[v][i] \in ToSet(gtreepath[v])
      BY <1>2 DEF Under
    <3> QED BY <1>4, <3>1, OneLeaf
  <2>2. Len(gtreepath[v]) \in 1 .. Len(gtreepath[v]) /\ gtreepath[v][Len(gtreepath[v])] = gtreepath[v][i]
    BY <2>1, EveryPath
  <2>3. Len(gtreepath[v]) = i
    BY <1>1, <2>2, PathsAgree
  <2> QED BY <1>1, <2>3
<1> QED BY <1>2, <1>3, <1>4 DEF isleaf

\* A child's vertices are its father's, and it is next to him on their paths.
LEMMA UnderChild ==
  ASSUME OneTree, NEW n \in GTree, NEW c \in Children[n], NEW v \in Under[c]
  PROVE  /\ c \in GTree /\ v \in Under[n] /\ ~isleaf(n)
         /\ \E i \in 1 .. Len(gtreepath[v]) - 1 : gtreepath[v][i] = n /\ gtreepath[v][i+1] = c
<1>1. c \in GTree /\ \E w \in Vertices : \E j \in 2 .. Len(gtreepath[w]) : gtreepath[w][j] = c /\ gtreepath[w][j-1] = n
  BY DEF Children
<1>2. PICK w \in Vertices : \E j \in 2 .. Len(gtreepath[w]) : gtreepath[w][j] = c /\ gtreepath[w][j-1] = n
  BY <1>1
<1>3. PICK j \in 2 .. Len(gtreepath[w]) : gtreepath[w][j] = c /\ gtreepath[w][j-1] = n
  BY <1>2
<1>4. PICK i \in 1 .. Len(gtreepath[v]) : gtreepath[v][i] = c
  BY <1>1, PlaceOnPath
<1>5. v \in Vertices
  BY <1>1, PlaceOnPath
<1>6. Len(gtreepath[w]) \in Nat /\ Len(gtreepath[v]) \in Nat
  BY <1>5, EveryPath
<1>7. j \in 1 .. Len(gtreepath[w]) /\ j - 1 \in 1 .. j
  BY <1>6
<1>8. j = i /\ \A k \in 1 .. j : gtreepath[w][k] = gtreepath[v][k]
  BY <1>3, <1>4, <1>5, <1>7, PathsAgree
<1>9. gtreepath[v][j-1] = n /\ j - 1 \in 1 .. Len(gtreepath[v]) - 1 /\ (j - 1) + 1 = j
  BY <1>3, <1>6, <1>7, <1>8
<1> QED BY <1>1, <1>4, <1>5, <1>8, <1>9, NextIsChild

\* The nodes above a node are those before it on the path of a vertex under it.
LEMMA AboveOnPath ==
  ASSUME OneTree, NEW v \in Vertices, NEW m \in 1 .. Len(gtreepath[v])
  PROVE  Above(gtreepath[v][m]) = [j \in 1 .. m - 1 |-> gtreepath[v][m - j]]
<1> DEFINE n == gtreepath[v][m]
           w == CHOOSE x \in Under[n] : TRUE
           path == gtreepath[w]
           there == CHOOSE j \in DOMAIN path : path[j] = n
<1>1. n \in GTree /\ v \in Under[n] /\ Len(gtreepath[v]) \in Nat
  BY EveryPath
<1>2. w \in Under[n]
  BY <1>1
<1> HIDE DEF w, n
<1>3. w \in Vertices /\ \E i \in 1 .. Len(gtreepath[w]) : gtreepath[w][i] = n
  BY <1>1, <1>2, PlaceOnPath
<1>4. DOMAIN gtreepath[w] = 1 .. Len(gtreepath[w])
  BY <1>3, RoadAssumption
<1>5. there \in 1 .. Len(gtreepath[w]) /\ gtreepath[w][there] = n
  BY <1>3, <1>4
<1> HIDE DEF there
<1>6. there = m /\ \A k \in 1 .. m : gtreepath[w][k] = gtreepath[v][k]
  BY <1>3, <1>5, PathsAgree DEF n
<1>7. Above(n) = [j \in 1 .. there - 1 |-> path[there - j]]
  BY DEF Above, w, there
<1>8. \A j \in 1 .. m - 1 : m - j \in 1 .. m
  BY <1>1
<1> QED BY <1>6, <1>7, <1>8 DEF n

-----------------------------------------------------------------------------
(* Shortest paths.                                                         *)

\* Vertices on a shortest path from v to z.
OnWay(v, z) == {x \in Vertices : Dist[v][x] + Dist[x][z] = Dist[v][z]}

\* The next vertex on the way is nearer, and what a vertex is nearest to is
\* no farther than the end of the way.
LEMMA NextOnWay ==
  ASSUME ShortestPaths, NEW v \in Vertices, NEW z \in Vertices, NEW x \in OnWay(v, z)
  PROVE  /\ x # z => \E y \in OnWay(v, z) : {x, y} \in Edges /\ Dist[y][z] < Dist[x][z]
         /\ \A w \in Vertices : Dist[x][w] <= Dist[x][z] => Dist[v][w] <= Dist[v][z]
<1>1. x \in Vertices /\ Dist[v][x] + Dist[x][z] = Dist[v][z]
  BY DEF OnWay
<1>2. \A a, b \in Vertices : Dist[a][b] \in Nat
  BY RoadAssumption
<1>3. \A a, b, c \in Vertices : Dist[a][c] <= Dist[a][b] + Dist[b][c]
  BY DEF ShortestPaths
<1>4. ASSUME x # z
      PROVE  \E y \in OnWay(v, z) : {x, y} \in Edges /\ Dist[y][z] < Dist[x][z]
  <2>1. PICK y \in Vertices : /\ {x, y} \in Edges /\ Dist[y][z] < Dist[x][z]
                              /\ Dist[x][z] = Dist[x][y] + Dist[y][z]
    BY <1>1, <1>4 DEF ShortestPaths
  <2>2. Dist[v][y] <= Dist[v][x] + Dist[x][y] /\ Dist[v][z] <= Dist[v][y] + Dist[y][z]
    BY <1>1, <1>3
  <2>3. Dist[v][y] + Dist[y][z] = Dist[v][z]
    <3>1. /\ Dist[v][x] \in Nat /\ Dist[x][y] \in Nat /\ Dist[v][z] \in Nat
          /\ Dist[v][y] \in Nat /\ Dist[y][z] \in Nat /\ Dist[x][z] \in Nat
      BY <1>1, <1>2
    <3> QED BY <1>1, <2>1, <2>2, <3>1
  <2> QED BY <2>1, <2>3 DEF OnWay
<1>5. ASSUME NEW w \in Vertices, Dist[x][w] <= Dist[x][z]
      PROVE  Dist[v][w] <= Dist[v][z]
  <2>1. Dist[v][w] <= Dist[v][x] + Dist[x][w]
    BY <1>1, <1>3
  <2>2. Dist[v][x] \in Nat /\ Dist[x][w] \in Nat /\ Dist[x][z] \in Nat /\ Dist[v][z] \in Nat /\ Dist[v][w] \in Nat
    BY <1>1, <1>2
  <2> QED BY <1>1, <1>5, <2>1, <2>2
<1> QED BY <1>4, <1>5

\* The way out of a node is across one of its borders.
LEMMA BorderOnWay ==
  ASSUME ShortestPaths, NEW n \in GTree, NEW v \in Under[n], NEW z \in Vertices \ Under[n]
  PROVE  \E b \in Borders[n] : b \in OnWay(v, z)
<1> DEFINE In == {x \in OnWay(v, z) : x \in Under[n]}
           away == {Dist[x][z] : x \in In}
<1>1. v \in Vertices /\ \A a, b \in Vertices : Dist[a][b] \in Nat
  BY RoadAssumption DEF Under
<1>2. v \in In
  <2>1. Dist[v][v] = 0 /\ Dist[v][z] \in Nat
    BY <1>1 DEF ShortestPaths
  <2> QED BY <1>1, <2>1 DEF OnWay
<1>3. \A x \in In : x \in Vertices /\ Dist[x][z] \in Nat
  BY <1>1 DEF OnWay
<1>4. away \in SUBSET Nat /\ away # {}
  <2> HIDE DEF In
  <2> QED BY <1>2, <1>3
<1>5. PICK m \in away : \A k \in away : m <= k
  <2> HIDE DEF away
  <2> QED BY <1>4, LeastNatural
<1>6. PICK x \in In : m = Dist[x][z]
  OBVIOUS
<1>7. PICK y \in OnWay(v, z) : {x, y} \in Edges /\ Dist[y][z] < Dist[x][z]
  BY <1>1, NextOnWay
<1>8. y \in Vertices /\ Dist[y][z] \in Nat
  BY <1>1 DEF OnWay
<1>9. y \notin Under[n]
  <2>1. y \in In => Dist[y][z] \in away
    OBVIOUS
  <2>2. y \notin In
    <3> HIDE DEF In, away
    <3> QED BY <1>3, <1>5, <1>6, <1>7, <1>8, <2>1
  <2> QED BY <2>2
<1>10. x \in Borders[n]
  BY <1>7, <1>8, <1>9 DEF Borders
<1> QED BY <1>10

\* A way by a vertex is no shorter than the distance: for a user by either end
\* of his road, for a POI by its end Ni.
LEMMA AtMostThrough ==
  ASSUME ShortestPaths, Placed(db), NEW u \in Users, NEW p \in Pois, NEW b \in Vertices
  PROVE  usrToPOIDistance(u, p) <= UserDist(b, u) + UpperDist(b, p)
<1> DEFINE x == db.uAt[u]  w == db.uTo[u]  y == db.pAt[p]  z == db.pTo[p]
           i == db.uDis[u]  j == db.pDis[p]
           rest == Dist[x][w] - i  left == Dist[y][z] - j
<1>1. /\ x \in Vertices /\ w \in Vertices /\ y \in Vertices /\ z \in Vertices
      /\ i \in Nat /\ j \in Nat /\ rest \in Nat /\ left \in Nat
  BY Places
<1>2. \A v \in Vertices :
        /\ UserDist(v, u) \in Nat
        /\ UserDist(v, u) <= Dist[v][x] + i /\ UserDist(v, u) <= Dist[v][w] + rest
        /\ UserDist(v, u) = Dist[v][x] + i \/ UserDist(v, u) = Dist[v][w] + rest
  BY Ways
<1>3. UpperDist(b, p) = Dist[b][y] + j
  BY DEF UpperDist
<1>4. \A k, l \in Vertices : Dist[k][l] \in Nat /\ Dist[k][l] = Dist[l][k]
  BY RoadAssumption
<1>5. \A k, l, m \in Vertices : Dist[k][m] <= Dist[k][l] + Dist[l][m]
  BY DEF ShortestPaths
<1>6. CASE x = y
  <2>1. \/ usrToPOIDistance(u, p) = i + j
        \/ i > j /\ usrToPOIDistance(u, p) = i - j
        \/ ~(i > j) /\ usrToPOIDistance(u, p) = j - i
    BY <1>6 DEF usrToPOIDistance
  <2>2. usrToPOIDistance(u, p) <= i + j
    <3> HIDE DEF i, j
    <3> QED BY <1>1, <2>1
  <2>3. i <= UserDist(b, u) + Dist[b][y]
    <3>1. Dist[x][w] <= Dist[x][b] + Dist[b][w] /\ Dist[x][b] = Dist[b][x]
      BY <1>1, <1>4, <1>5
    <3>2. Dist[x][w] \in Nat /\ Dist[b][x] \in Nat /\ Dist[b][w] \in Nat /\ i = Dist[x][w] - rest
      BY <1>1, <1>4
    <3>3. UserDist(b, u) = Dist[b][x] + i \/ UserDist(b, u) = Dist[b][w] + rest
      BY <1>2
    <3> HIDE DEF x, w, i, rest
    <3> QED BY <1>1, <1>2, <1>6, <3>1, <3>2, <3>3
  <2>4. /\ UserDist(b, u) \in Nat /\ Dist[b][y] \in Nat /\ usrToPOIDistance(u, p) \in Nat
        /\ i \in Nat /\ j \in Nat
    BY <1>1, <1>2, <1>4, DistancesAre
  <2> HIDE DEF i, j, y
  <2> QED BY <1>3, <2>2, <2>3, <2>4
<1>7. CASE x # y
  <2>1. usrToPOIDistance(u, p) = Lesser(UserDist(y, u) + j, UserDist(z, u) + left)
    BY <1>7 DEF usrToPOIDistance
  <2>2. usrToPOIDistance(u, p) <= UserDist(y, u) + j
    <3>1. UserDist(y, u) + j \in Nat /\ UserDist(z, u) + left \in Nat
      <4>1. UserDist(y, u) \in Nat /\ UserDist(z, u) \in Nat
        BY <1>1, <1>2
      <4> HIDE DEF j, left
      <4> QED BY <1>1, <4>1
    <3> HIDE DEF j, left
    <3> QED BY <2>1, <3>1, LesserIs
  <2>3. UserDist(y, u) <= UserDist(b, u) + Dist[b][y]
    <3>1. /\ Dist[y][x] <= Dist[b][y] + Dist[b][x] /\ Dist[y][w] <= Dist[b][y] + Dist[b][w]
          /\ Dist[y][x] \in Nat /\ Dist[y][w] \in Nat /\ Dist[b][x] \in Nat /\ Dist[b][w] \in Nat
          /\ Dist[b][y] \in Nat
      <4>1. /\ Dist[y][x] <= Dist[y][b] + Dist[b][x] /\ Dist[y][w] <= Dist[y][b] + Dist[b][w]
            /\ Dist[y][b] = Dist[b][y]
        BY <1>1, <1>4, <1>5
      <4> QED BY <1>1, <1>4, <4>1
    <3>2. /\ UserDist(y, u) <= Dist[y][x] + i /\ UserDist(y, u) <= Dist[y][w] + rest
          /\ UserDist(b, u) = Dist[b][x] + i \/ UserDist(b, u) = Dist[b][w] + rest
          /\ UserDist(y, u) \in Nat /\ UserDist(b, u) \in Nat
      BY <1>1, <1>2
    <3> HIDE DEF x, w, y, i, rest
    <3> QED BY <1>1, <3>1, <3>2
  <2>4. /\ UserDist(b, u) \in Nat /\ UserDist(y, u) \in Nat /\ Dist[b][y] \in Nat
        /\ usrToPOIDistance(u, p) \in Nat /\ j \in Nat
    BY <1>1, <1>2, <1>4, DistancesAre
  <2> HIDE DEF j, y
  <2> QED BY <1>3, <2>2, <2>3, <2>4
<1> QED BY <1>6, <1>7

\* Between different vertices Ni the distance is the way by an end of each road.
LEMMA ByTheEnds ==
  ASSUME Placed(db), NEW u \in Users, NEW p \in Pois, db.uAt[u] # db.pAt[p]
  PROVE  \E x \in {db.uAt[u], db.uTo[u]}, y \in {db.pAt[p], db.pTo[p]} : \E i, j \in Nat :
           /\ usrToPOIDistance(u, p) = Dist[x][y] + i + j
           /\ \A v \in Vertices : UserDist(v, u) <= Dist[v][x] + i /\ PoiDist(v, p) <= Dist[v][y] + j
<1> DEFINE a == db.uAt[u]  b == db.uTo[u]  c == db.pAt[p]  d == db.pTo[p]
           ua == db.uDis[u]  ub == Dist[a][b] - ua  pc == db.pDis[p]  pd == Dist[c][d] - pc
<1>1. /\ a \in Vertices /\ b \in Vertices /\ c \in Vertices /\ d \in Vertices
      /\ ua \in Nat /\ ub \in Nat /\ pc \in Nat /\ pd \in Nat
  BY Places
<1>2. \A v \in Vertices :
        /\ UserDist(v, u) \in Nat
        /\ UserDist(v, u) <= Dist[v][a] + ua /\ UserDist(v, u) <= Dist[v][b] + ub
        /\ UserDist(v, u) = Dist[v][a] + ua \/ UserDist(v, u) = Dist[v][b] + ub
        /\ PoiDist(v, p) <= Dist[v][c] + pc /\ PoiDist(v, p) <= Dist[v][d] + pd
  BY Ways
<1>3. usrToPOIDistance(u, p) = Lesser(UserDist(c, u) + pc, UserDist(d, u) + pd)
  BY DEF usrToPOIDistance
<1>4. \A v, w \in Vertices : Dist[v][w] \in Nat /\ Dist[v][w] = Dist[w][v]
  BY RoadAssumption
<1>5. \E y \in {c, d} : \E j \in Nat :
        /\ y \in Vertices /\ usrToPOIDistance(u, p) = UserDist(y, u) + j
        /\ \A v \in Vertices : PoiDist(v, p) <= Dist[v][y] + j
  <2>1. UserDist(c, u) + pc \in Nat /\ UserDist(d, u) + pd \in Nat
    <3>1. UserDist(c, u) \in Nat /\ UserDist(d, u) \in Nat
      BY <1>1, <1>2
    <3> HIDE DEF pc, pd
    <3> QED BY <1>1, <3>1
  <2> HIDE DEF c, d, pc, pd
  <2>2. \/ usrToPOIDistance(u, p) = UserDist(c, u) + pc
        \/ usrToPOIDistance(u, p) = UserDist(d, u) + pd
    BY <1>3, <2>1, LesserIs
  <2>3. CASE usrToPOIDistance(u, p) = UserDist(c, u) + pc
    BY <1>1, <1>2, <2>3
  <2>4. CASE usrToPOIDistance(u, p) = UserDist(d, u) + pd
    BY <1>1, <1>2, <2>4
  <2> QED BY <2>2, <2>3, <2>4
<1>6. PICK y \in {c, d} : \E j \in Nat :
        /\ y \in Vertices /\ usrToPOIDistance(u, p) = UserDist(y, u) + j
        /\ \A v \in Vertices : PoiDist(v, p) <= Dist[v][y] + j
  BY <1>5
<1>7. PICK j \in Nat :
        /\ y \in Vertices /\ usrToPOIDistance(u, p) = UserDist(y, u) + j
        /\ \A v \in Vertices : PoiDist(v, p) <= Dist[v][y] + j
  BY <1>6
<1>8. \E x \in {a, b} : \E i \in Nat :
        /\ UserDist(y, u) = Dist[x][y] + i
        /\ \A v \in Vertices : UserDist(v, u) <= Dist[v][x] + i
  <2> HIDE DEF a, b, ua, ub
  <2>1. UserDist(y, u) = Dist[y][a] + ua \/ UserDist(y, u) = Dist[y][b] + ub
    BY <1>2, <1>7
  <2>2. Dist[y][a] = Dist[a][y] /\ Dist[y][b] = Dist[b][y]
    BY <1>1, <1>4, <1>7
  <2>3. CASE UserDist(y, u) = Dist[y][a] + ua
    BY <1>1, <1>2, <2>2, <2>3
  <2>4. CASE UserDist(y, u) = Dist[y][b] + ub
    BY <1>1, <1>2, <2>2, <2>4
  <2> QED BY <2>1, <2>3, <2>4
<1>9. PICK x \in {a, b} : \E i \in Nat :
        /\ UserDist(y, u) = Dist[x][y] + i
        /\ \A v \in Vertices : UserDist(v, u) <= Dist[v][x] + i
  BY <1>8
<1>10. PICK i \in Nat :
        /\ UserDist(y, u) = Dist[x][y] + i
        /\ \A v \in Vertices : UserDist(v, u) <= Dist[v][x] + i
  BY <1>9
<1> QED BY <1>7, <1>10

\* Vertices on the way between a user and a POI.
Between(u, p) == {b \in Vertices : UserDist(b, u) + PoiDist(b, p) <= usrToPOIDistance(u, p)}

\* The way between a user whose road is in a node and a POI whose road is not
\* is across a border of the node, and so the other way round.
LEMMA BorderBetween ==
  ASSUME ShortestPaths, Placed(db), NEW u \in Users, NEW p \in Pois, NEW n \in GTree,
         \/ {db.uAt[u], db.uTo[u]} \in SUBSET Under[n] /\ db.pAt[p] \notin Under[n] /\ db.pTo[p] \notin Under[n]
         \/ {db.pAt[p], db.pTo[p]} \in SUBSET Under[n] /\ db.uAt[u] \notin Under[n] /\ db.uTo[u] \notin Under[n]
  PROVE  \E b \in Borders[n] : b \in Between(u, p)
<1>1. db.uAt[u] # db.pAt[p]
  OBVIOUS
<1>2. PICK x \in {db.uAt[u], db.uTo[u]}, y \in {db.pAt[p], db.pTo[p]} : \E i, j \in Nat :
        /\ usrToPOIDistance(u, p) = Dist[x][y] + i + j
        /\ \A v \in Vertices : UserDist(v, u) <= Dist[v][x] + i /\ PoiDist(v, p) <= Dist[v][y] + j
  BY <1>1, ByTheEnds
<1>3. PICK i, j \in Nat :
        /\ usrToPOIDistance(u, p) = Dist[x][y] + i + j
        /\ \A v \in Vertices : UserDist(v, u) <= Dist[v][x] + i /\ PoiDist(v, p) <= Dist[v][y] + j
  BY <1>2
<1>4. x \in Vertices /\ y \in Vertices
  BY Places
<1>5. \A v, w \in Vertices : Dist[v][w] \in Nat /\ Dist[v][w] = Dist[w][v]
  BY RoadAssumption
<1>6. PICK b \in Borders[n] : b \in OnWay(x, y) \/ b \in OnWay(y, x)
  <2>1. \/ x \in Under[n] /\ y \in Vertices \ Under[n]
        \/ y \in Under[n] /\ x \in Vertices \ Under[n]
    BY <1>4
  <2> QED BY <2>1, BorderOnWay
<1>7. b \in Vertices /\ Dist[b][x] + Dist[b][y] = Dist[x][y]
  <2>1. b \in Vertices
    BY <1>6 DEF OnWay
  <2>2. \/ Dist[x][b] + Dist[b][y] = Dist[x][y]
        \/ Dist[y][b] + Dist[b][x] = Dist[y][x]
    BY <1>6 DEF OnWay
  <2>3. /\ Dist[x][b] = Dist[b][x] /\ Dist[y][b] = Dist[b][y] /\ Dist[y][x] = Dist[x][y]
        /\ Dist[b][x] \in Nat /\ Dist[b][y] \in Nat
    BY <1>4, <1>5, <2>1
  <2> QED BY <2>1, <2>2, <2>3
<1>8. UserDist(b, u) + PoiDist(b, p) <= usrToPOIDistance(u, p)
  <2>1. UserDist(b, u) <= Dist[b][x] + i /\ PoiDist(b, p) <= Dist[b][y] + j
    BY <1>3, <1>7
  <2>2. /\ UserDist(b, u) \in Nat /\ PoiDist(b, p) \in Nat
        /\ Dist[b][x] \in Nat /\ Dist[b][y] \in Nat /\ Dist[x][y] \in Nat
    BY <1>4, <1>5, <1>7, Ways
  <2> QED BY <1>3, <1>7, <2>1, <2>2
<1> QED BY <1>6, <1>7, <1>8 DEF Between

=============================================================================
