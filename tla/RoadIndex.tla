------------------------------ MODULE RoadIndex ------------------------------
(***************************************************************************)
(* What the queries read: the road network and its G-tree, the POIs and    *)
(* the users on it, and the geo-social-keyword (GSK) score of a user and a *)
(* POI (query_plus.h, diskbased.h).                                        *)
(*                                                                         *)
(* A POI or a user is on a road, some way from the road's end Ni; a road   *)
(* is as long as the shortest path between its ends.  Distances between    *)
(* vertices are exact (the code asks a hub labelling).  Scores are the     *)
(* fractions the code divides: alpha, 1-alpha and the idf weights are      *)
(* scaled to integers.                                                     *)
(***************************************************************************)
EXTENDS Integers, Sequences, FiniteSets, FiniteSetsExt, SequencesExt

CONSTANTS Pois, Users, Terms, Vertices,
          stores,     \* the chain: the POIs queried, in order
          Edges,      \* the road network: the two-element sets of neighbours
          Dist,       \* vertex -> vertex -> the length of a shortest path
          gtreepath,  \* vertex -> the G-tree nodes over it, root to leaf
          K,
          Alpha,      \* weight of the social part for a user without friends
          Social,     \* extra social weight when a friend has checked in
          Idf,        \* term -> weight of the term
          uterm_SPARCITY_VALUE

ASSUME RoadAssumption ==
  /\ IsFiniteSet(Pois) /\ stores \in Seq(Pois) /\ IsInjective(stores) /\ K \in Nat \ {0}
  /\ Alpha \in Nat /\ Social \in Nat /\ IsFiniteSet(Terms) /\ Idf \in [Terms -> Nat]
  /\ Dist \in [Vertices -> [Vertices -> Nat]]
  /\ \A v, w \in Vertices : Dist[v][w] = Dist[w][v]
  /\ gtreepath \in [Vertices -> Seq(Nat) \ {<<>>}]

VARIABLES
  db,    \* where the POIs and users are, their keywords, who has a friend
         \* checked in where, and the POIs that each user's lower bound polls
         \* and each vertex's bounds expand
  score  \* the scores that follow from db, which nothing changes

\* Every POI and user of d is somewhere on a road, with keywords: pDis and uDis
\* from its end pAt or uAt (Ni), on the way to its other end pTo or uTo (Nj).
Placed(d) ==
  /\ d.pAt \in [Pois -> Vertices] /\ d.pTo \in [Pois -> Vertices] /\ d.pDis \in [Pois -> Nat]
  /\ d.uAt \in [Users -> Vertices] /\ d.uTo \in [Users -> Vertices] /\ d.uDis \in [Users -> Nat]
  /\ \A p \in Pois : {d.pAt[p], d.pTo[p]} \in Edges /\ d.pDis[p] <= Dist[d.pAt[p]][d.pTo[p]]
  /\ \A u \in Users : {d.uAt[u], d.uTo[u]} \in Edges /\ d.uDis[u] <= Dist[d.uAt[u]][d.uTo[u]]
  /\ d.pKeys \in [Pois -> SUBSET Terms] /\ d.uKeys \in [Users -> SUBSET Terms]

\* Distances are those of shortest paths.
ShortestPaths ==
  /\ \A v \in Vertices : Dist[v][v] = 0
  /\ \A v, w, x \in Vertices : Dist[v][x] <= Dist[v][w] + Dist[w][x]
  /\ \A v, w \in Vertices : v # w =>
       \E x \in Vertices : /\ {v, x} \in Edges /\ Dist[x][w] < Dist[v][w]
                           /\ Dist[v][w] = Dist[v][x] + Dist[x][w]

Stores == ToSet(stores)

Root == 0
\* The paths are those of one tree: a node is in the same place on every path,
\* below the same nodes, and a leaf on all or on none.
OneTree ==
  \A v \in Vertices :
    /\ gtreepath[v][1] = Root
    /\ \A w \in Vertices : \A i \in DOMAIN gtreepath[v], j \in DOMAIN gtreepath[w] :
         gtreepath[v][i] = gtreepath[w][j] =>
           /\ i = j /\ (i > 1 => gtreepath[v][i-1] = gtreepath[w][i-1])
           /\ i = Len(gtreepath[v]) => i = Len(gtreepath[w])

GTree == UNION {ToSet(gtreepath[v]) : v \in Vertices}
LeafOf == [v \in Vertices |-> gtreepath[v][Len(gtreepath[v])]]
isleaf(n) == \E v \in Vertices : LeafOf[v] = n
Under == [n \in GTree |-> {v \in Vertices : n \in ToSet(gtreepath[v])}]
Borders == [n \in GTree |->
              {v \in Under[n] : \E w \in Vertices \ Under[n] : {v, w} \in Edges}]
Children == [n \in GTree |->
               {c \in GTree : \E v \in Vertices : \E j \in 2 .. Len(gtreepath[v]) :
                                gtreepath[v][j] = c /\ gtreepath[v][j-1] = n}]
\* The nodes above n, the nearest first.
Above(n) ==
  LET path == gtreepath[CHOOSE v \in Under[n] : TRUE]
      at   == CHOOSE j \in DOMAIN path : path[j] = n
  IN  [j \in 1 .. at-1 |-> path[at-j]]

-----------------------------------------------------------------------------
(* Distances of users and POIs.                                            *)

Lesser(x, y) == IF x < y THEN x ELSE y

\* getDistance_phl: from v by either end of the road.
UserDist(v, u) ==
  Lesser(Dist[v][db.uAt[u]] + db.uDis[u],
         Dist[v][db.uTo[u]] + (Dist[db.uAt[u]][db.uTo[u]] - db.uDis[u]))
PoiDist(v, p) ==
  Lesser(Dist[v][db.pAt[p]] + db.pDis[p],
         Dist[v][db.pTo[p]] + (Dist[db.pAt[p]][db.pTo[p]] - db.pDis[p]))

\* getUpperDistance_b2P_phl, getDistanceUpper_PHL: by the end Ni of a road.
UpperDist(v, p) == Dist[v][db.pAt[p]] + db.pDis[p]
UpperOfUser(u, p) == UpperDist(db.uAt[u], p) + db.uDis[u]

\* Of one road the difference; where the roads start at one vertex the way by it,
\* be it the shortest or not; else by either end of both roads.
usrToPOIDistance(u, p) ==
  IF db.uAt[u] = db.pAt[p]
  THEN IF db.uTo[u] = db.pTo[p]
       THEN IF db.uDis[u] > db.pDis[p] THEN db.uDis[u] - db.pDis[p] ELSE db.pDis[p] - db.uDis[u]
       ELSE db.uDis[u] + db.pDis[p]
  ELSE Lesser(UserDist(db.pAt[p], u) + db.pDis[p],
              UserDist(db.pTo[p], u) + (Dist[db.pAt[p]][db.pTo[p]] - db.pDis[p]))

\* A user and a POI are filed under the leaf of Ni.  Their roads stay within
\* those leaves, or the leaf is the same.
Within(u, p) ==
  \/ LeafOf[db.uAt[u]] = LeafOf[db.pAt[p]]
  \/ LeafOf[db.uTo[u]] = LeafOf[db.uAt[u]] /\ LeafOf[db.pTo[p]] = LeafOf[db.pAt[p]]

-----------------------------------------------------------------------------
(* Inverted lists.                                                         *)

getTermOjectInvListSize(t) == Cardinality({p \in Pois : t \in db.pKeys[p]})
getTermUserInvList(t) == {u \in Users : t \in db.uKeys[u]}
UsersUnder(n, t) == {u \in getTermUserInvList(t) : db.uAt[u] \in Under[n]}
\* Children of n, or users of the leaf n, with term t.
getUsrTermRelatedEntry(t, n) ==
  IF isleaf(n) THEN UsersUnder(n, t) ELSE {c \in Children[n] : UsersUnder(c, t) # {}}

\* The keywords of a store, by how many POIs and users have them.
rareKeys(p) == {t \in db.pKeys[p] : getTermOjectInvListSize(t) <= K}
nonRareKeys(p) ==
  {t \in db.pKeys[p] \ rareKeys(p) :
     Cardinality(getTermUserInvList(t)) > uterm_SPARCITY_VALUE}
midKeys(p) == db.pKeys[p] \ (rareKeys(p) \cup nonRareKeys(p))

-----------------------------------------------------------------------------
(* Scores <<n, d>> stand for n/d.                                          *)

Less(x, y) == x[1] * y[2] < y[1] * x[2]
Same(x, y) == x[1] * y[2] = y[1] * x[2]

tfIDF_termSet(S) == MapThenSumSet(LAMBDA t : Idf[t], S)

Shared(u, p) == db.uKeys[u] \cap db.pKeys[p]

\* getGSKScore_o2u_phl; 0 without a common keyword.
GSKScore(u, p) ==
  IF Shared(u, p) = {} THEN <<0, 1>>
  ELSE <<Alpha + (IF <<u, p>> \in db.friends THEN Social ELSE 0) + tfIDF_termSet(Shared(u, p)),
         1 + usrToPOIDistance(u, p)>>

\* Without the social part, and by the ends Ni: a lower bound.
TextScore(u, p) == <<Alpha + tfIDF_termSet(Shared(u, p)), 1 + UpperOfUser(u, p)>>

\* The worst of the K best scores that the function sc gives.
KthBest(sc) ==
  LET best == {p \in DOMAIN sc : Cardinality({q \in DOMAIN sc : Less(sc[p], sc[q])}) < K}
  IN  sc[CHOOSE p \in best : \A q \in best : ~Less(sc[q], sc[p])]

RelatedPois(u) == {p \in Pois : Shared(u, p) # {}}

\* What TkGSKQ_NVD returns as topkScore: the score of u's K-th best POI, of
\* the last one when there are fewer; TopkQuery says when it finds them.
TopkScore(u) == KthBest([p \in RelatedPois(u) |-> GSKScore(u, p)])

\* getUserLCL_NVD: the K-th best text score among the POIs it polls, 0 when
\* there are fewer.
UserLCL(u) == IF Cardinality(db.polled[u]) < K THEN <<0, 1>>
              ELSE KthBest([p \in db.polled[u] |-> TextScore(u, p)])

\* sb_rk_t: the worst of what the K POIs with t that the Voronoi diagram leads
\* to from b promise a user there.
SBound(b, t) ==
  KthBest([p \in db.expanded[b][t] |-> <<Alpha + Idf[t], 1 + UpperDist(b, p)>>])

FrequentTerms == {t \in Terms : getTermOjectInvListSize(t) > K}
ScoresOfDb ==
  [gsk  |-> [u \in Users |-> [p \in Pois |-> GSKScore(u, p)]],
   topk |-> [u \in Users |-> TopkScore(u)],
   lcl  |-> [u \in Users |-> UserLCL(u)],
   sb   |-> [b \in Vertices |-> [t \in FrequentTerms |-> SBound(b, t)]]]
=============================================================================
