----------------------------- MODULE MC_Searches -----------------------------
(* The files and indexes on disk and the searches that read them, on small   *)
(* instances: the block file with a cache and without, the B+ tree, the      *)
(* construction of the G-tree with its uses and of the Voronoi diagrams, the *)
(* top-k query and the lower bound.                                          *)
(* One of them runs; the variables only others have stand still, those of    *)
(* the block file and of the tree as they are at first.                      *)
EXTENDS CachedBlockFile, TopkQuery, UserLowerBound, TLC

VARIABLES alg,
          nodes, meta, metaOnFile, level, done, script, free,     \* BPlusTree
          \* VoronoiDiagram
          place, invListOfPOI, term, pointval, vis, Q, vertex_point_pair, NVD_AdjGraph,
          NVD_ADJGraph, addressHashMap_nvd, idHashMap_v2p, idListHash_l2p_hybrid,
          \* GTreeIndex
          road, buildstack, treeNodes, treePaths, turn, graph, vetexSet, DisBoundMap, SPDCache,
          locid, itm, pq, rstset,
          stage                                                   \* where the building is

treeVars == <<nodes, meta, metaOnFile, level, done, script, free>>
diagramVars == <<place, invListOfPOI, term, pointval, vis, Q, vertex_point_pair, NVD_AdjGraph,
                 NVD_ADJGraph, addressHashMap_nvd, idHashMap_v2p, idListHash_l2p_hybrid>>
gtreeVars == <<road, buildstack, treeNodes, treePaths, turn, graph, vetexSet, DisBoundMap, SPDCache,
               locid, itm, pq, rstset>>
allVars == <<alg, vars, treeVars, diagramVars, gtreeVars, stage, topVars, lclVars>>
-----------------------------------------------------------------------------
(* The block file with no cache; there is nothing in its cache.             *)

N == INSTANCE CachedBlockFile WITH cachesize <- 0,
       ptr <- 0, cache_cont <- <<>>, fuf_cont <- <<>>, cache <- <<>>
-----------------------------------------------------------------------------
(* Nodes of at most four children and eighteen keys: a tree of three levels. *)
(* An index is built in one of two orders, some of it is removed, in one of  *)
(* several, then any two calls follow.                                       *)

Up == [j \in 1 .. 18 |-> j]
Down == [j \in 1 .. 18 |-> 19 - j]
Outwards == [j \in 1 .. 18 |-> IF j % 2 = 1 THEN 10 - (j + 1) \div 2 ELSE 9 + j \div 2]
Scattered == <<5, 17, 1, 9, 12, 3, 14, 7, 5, 2, 18, 11, 6, 16, 4, 10, 13, 8, 15>>

\* The calls that insert s and then remove the first m keys of removed.
Building(s, removed, m) ==
  LET built == Cardinality(DOMAIN s)
  IN  [j \in 1 .. built + m |-> IF j <= built THEN <<"insert", s[j]>> ELSE <<"remove", removed[j - built]>>]

Tree == INSTANCE BPlusTree WITH
  file <- nodes, call <- level, Keys <- 1 .. 18, Values <- {"v1", "v2"}, First <- "v1", order <- 4,
  Scripts <- {Building(build, removed, m) : build \in {Up, Scattered},
                                            removed \in {Up, Down, Outwards}, m \in {8, 14, 17}},
  FreeCalls <- {"remove", "update"}, MaxCalls <- 2
-----------------------------------------------------------------------------
(* A ring of four vertices with a road off it, in two leaves; three POIs     *)
(* wherever POI 0 is on one of two roads, and three terms.  Vertex 4 is no   *)
(* edge's first end.                                                         *)

RingWeight == {0, 1} :> 2 @@ {1, 2} :> 2 @@ {2, 3} :> 4 @@ {0, 3} :> 3 @@ {3, 4} :> 2
RingDist ==
  LET rows == <<<<0, 2, 4, 3, 5>>, <<2, 0, 2, 5, 7>>, <<4, 2, 0, 4, 6>>, <<3, 5, 4, 0, 2>>, <<5, 7, 6, 2, 0>>>>
  IN  [v \in 0 .. 4 |-> [w \in 0 .. 4 |-> rows[v+1][w+1]]]
RingLeaf == [v \in 0 .. 4 |-> IF v <= 1 THEN 0 ELSE 1]
Roads == {<<0, 1>>, <<1, 2>>, <<2, 3>>, <<3, 0>>, <<3, 4>>}
Places == UNION {{[Ni |-> r[1], Nj |-> r[2], dis |-> d] : d \in 0 .. RingWeight[{r[1], r[2]}]} : r \in Roads}
DiagramInputs ==
  {[place |-> 0 :> a @@ 1 :> b @@ 2 :> c, invList |-> <<<<2, 0, 1>>, <<1>>, <<0, 2>>>>] :
     a \in {x \in Places : x.Ni = 0}, b \in Places, c \in Places}

Diagram == INSTANCE VoronoiDiagram WITH
  pc <- stage,
  Vertices <- 0 .. 4, Weight <- RingWeight, edgeFile <- Roads, Dist <- RingDist, leafOf <- RingLeaf, poi_num <- 3,
  Inputs <- DiagramInputs, posting_size_threshold <- 1, rau <- 1
-----------------------------------------------------------------------------
(* Three networks of six vertices, cut in two at every place in their order, *)
(* down to leaves of two: a part need not hang together.                     *)

Edge(a, b, d) == [Ni |-> a, Nj |-> b, dist |-> d]
Networks ==
  [chord |-> {Edge(0, 3, 2), Edge(3, 1, 1), Edge(1, 4, 4), Edge(2, 4, 8), Edge(2, 5, 17),
              Edge(5, 0, 30), Edge(1, 2, 25)},
   star |-> {Edge(1, 0, 1), Edge(2, 0, 2), Edge(0, 3, 4), Edge(3, 4, 8), Edge(3, 5, 16)},
   grid |-> {Edge(0, 1, 40), Edge(2, 1, 1), Edge(3, 4, 5), Edge(4, 5, 2), Edge(0, 3, 16),
             Edge(1, 4, 9), Edge(2, 5, 30)}]

\* By the shortest ways with inner vertices up to k, for greater and greater k.
Lengths(edges) ==
  LET F[k \in -1 .. 5] ==
        IF k = -1
        THEN [a \in 0 .. 5 |-> [b \in 0 .. 5 |-> IF a = b THEN 0
               ELSE Min({999} \cup {e.dist : e \in {f \in edges : {f.Ni, f.Nj} = {a, b}}})]]
        ELSE LET p == F[k-1] IN [a \in 0 .. 5 |-> [b \in 0 .. 5 |-> Min({p[a][b], p[a][k] + p[k][b]})]]
  IN  F[5]
NetworkDist == [n \in DOMAIN Networks |-> Lengths(Networks[n])]
Halves(s) == {<<{v \in s : v < c}, {v \in s : v >= c}>> : c \in s \ {Min(s)}}

G == INSTANCE GTreeIndex WITH
  GTree <- treeNodes, gtreepath <- treePaths, pc <- stage,
  Vertices <- 0 .. 5, Dist <- NetworkDist, graph_partition <- Halves, LEAF_CAP <- 2, K <- 5,
  MaxDist <- 999
-----------------------------------------------------------------------------
(* A ring road of six crossings in two leaves with a road across, five POIs  *)
(* and two users, each somewhere on a road.                                  *)

CityRoads == <<Edge(0, 1, 2), Edge(1, 2, 4), Edge(2, 3, 3), Edge(3, 4, 5), Edge(4, 5, 3),
               Edge(0, 5, 6), Edge(1, 5, 5)>>
CityDist ==
  LET rows == <<<<0, 2, 6, 9, 9, 6>>, <<2, 0, 4, 7, 8, 5>>, <<6, 4, 0, 3, 8, 9>>,
                <<9, 7, 3, 0, 5, 8>>, <<9, 8, 8, 5, 0, 3>>, <<6, 5, 9, 8, 3, 0>>>>
  IN  [v \in 0 .. 5 |-> [w \in 0 .. 5 |-> rows[v+1][w+1]]]
CityUpper == [v \in 0 .. 5 |-> [w \in 0 .. 5 |-> CityDist[v][w] + 2 * (w % 2)]]
CityVertices == 0 .. 5
CityEdges == {{e.Ni, e.Nj} : e \in ToSet(CityRoads)}
CityPaths == [v \in CityVertices |-> <<0, 1 + v \div 3>>]
Weights == "t" :> 2 @@ "r" :> 3 @@ "s" :> 3
FirstStore == <<1>>

\* A place: <<road, how far from its end Ni>>.  POIs and users at ps and us.
City(ps, pKeys, us, uKeys, friends) ==
  LET ends(places, end(_)) == [k \in DOMAIN places |-> end(CityRoads[places[k][1]])]
      Ni(e) == e.Ni
      Nj(e) == e.Nj
      far(places) == [k \in DOMAIN places |-> places[k][2]]
  IN  [pAt |-> ends(ps, Ni), pTo |-> ends(ps, Nj), pDis |-> far(ps), pKeys |-> pKeys,
       uAt |-> ends(us, Ni), uTo |-> ends(us, Nj), uDis |-> far(us), uKeys |-> uKeys,
       friends |-> friends]

\* For the query: t is frequent; r is rare, or shares all its POIs with t; s is
\* rare and shares none with t.
TopKeys == {<<{"t"}, {"t", "r"}, {"t", "r"}, {"t", "r"}, {"s"}>>,
            <<{"t"}, {"t", "r"}, {"t", "r"}, {"t"}, {"s"}>>}
TopDatabases ==
  {City(<<<<1, 0>>, <<2, 1>>, x, y, <<4, 2>>>>, keys, <<v, <<1, 0>>>>, <<ks, {"t"}>>, fr) :
     x \in {<<2, 2>>, <<3, 1>>, <<6, 5>>}, y \in {<<1, 1>>, <<4, 4>>, <<7, 2>>},
     keys \in TopKeys, v \in {<<1, 2>>, <<3, 2>>, <<4, 3>>, <<6, 4>>},
     ks \in {{"t"}, {"t", "r"}, {"t", "s"}, {"r", "s"}}, fr \in {{}, {<<1, 2>>, <<1, 5>>}}}

\* POI 5 is on the user's road, and the ends of it are nearer to others; POI 1 is
\* nearer by the road across than by the vertex its road and the user's start at.
OneWord == <<{"t"}, {"t"}>>
OddDatabases ==
  {City(<<<<4, 0>>, <<3, 3>>, <<5, 0>>, <<1, 0>>, <<4, 2>>>>, [p \in 1 .. 5 |-> {"t"}],
        <<<<4, 2>>, <<1, 0>>>>, OneWord, fr) : fr \in {{}, {<<1, 1>>, <<1, 2>>, <<1, 3>>}}}
  \cup
  {City(<<<<1, 2>>, <<2, 0>>, <<4, 0>>, <<2, 4>>, <<4, 2>>>>, [p \in 1 .. 5 |-> IF p = 5 THEN {"s"} ELSE {"t"}],
        <<<<6, 5>>, <<1, 0>>>>, OneWord, fr) : fr \in {{}, {<<1, 1>>, <<1, 3>>, <<1, 4>>}}}

\* For the bound: t is frequent, and s too, on three of t's POIs, or has none;
\* r is rare, on one POI or on two.
BoundKeys == {<<{"t"}, {"t"}, {"t"}, {"r"}, {"r", "t"}>>,
              <<{"t", "s"}, {"t"}, {"t", "s"}, {"t", "s"}, {"r"}>>}
BoundDatabases ==
  {City(<<<<1, 0>>, w, x, y, <<4, 2>>>>, keys, <<v, <<5, 1>>>>, <<k1, k2>>, {}) :
     w \in {<<2, 1>>, <<4, 1>>}, x \in {<<2, 2>>, <<6, 5>>}, y \in {<<1, 1>>, <<5, 2>>, <<7, 2>>},
     keys \in BoundKeys, v \in {<<3, 2>>, <<5, 0>>},
     k1 \in {{"t"}, {"t", "s"}, {"t", "r"}, {"r"}}, k2 \in {{"t"}, {"r"}}}

QueriedDatabases == TopDatabases \cup OddDatabases
SearchedDatabases == QueriedDatabases \cup BoundDatabases
\* The one that is loaded where nothing is searched.
RestDatabases == {CHOOSE d \in TopDatabases : TRUE}

\* The data is as a network's and its diagrams' is.
ASSUME CityLoaded == Loaded /\ ShortestPaths /\ OneTree /\ UpperAbove
-----------------------------------------------------------------------------
NoDiagram ==
  /\ place = <<>> /\ invListOfPOI = <<>> /\ term = 0 /\ pointval = <<>> /\ vis = {} /\ Q = <<>>
  /\ vertex_point_pair = <<>> /\ NVD_AdjGraph = <<>> /\ NVD_ADJGraph = <<>>
  /\ addressHashMap_nvd = <<>> /\ idHashMap_v2p = <<>> /\ idListHash_l2p_hybrid = <<>>
NoGTree ==
  /\ road = "none" /\ buildstack = <<>> /\ treeNodes = <<>> /\ treePaths = <<>> /\ turn = <<>>
  /\ graph = <<>> /\ vetexSet = <<>> /\ DisBoundMap = <<>> /\ SPDCache = <<>>
  /\ locid = -1 /\ itm = <<>> /\ pq = {} /\ rstset = <<>>

SearchesInit ==
  /\ alg \in {"cached", "uncached", "tree", "diagram", "gtree", "top", "bound"}
  /\ db \in IF alg = "top" THEN QueriedDatabases ELSE IF alg = "bound" THEN BoundDatabases ELSE RestDatabases
  /\ Prepared
  /\ TopStart /\ user = 1
  /\ LCLStart /\ (alg # "bound" => usr = 1)
  /\ Init /\ (alg \notin {"cached", "uncached"} => file.disk[0] = CHOOSE h \in Data : TRUE)
  /\ IF alg = "tree" THEN Tree!Init ELSE Tree!Empty /\ script = <<>>
  /\ IF alg = "diagram" THEN Diagram!Init ELSE NoDiagram
  /\ IF alg = "gtree" THEN G!Init ELSE NoGTree
  /\ alg \notin {"diagram", "gtree"} => stage = "none"

Files ==
  /\ UNCHANGED <<alg, treeVars, diagramVars, gtreeVars, stage, topVars, lclVars>>
  /\ \/ alg = "cached" /\ Next
     \/ alg = "uncached" /\ UNCHANGED cacheVars /\ N!Next
Trees ==
  /\ alg = "tree" /\ UNCHANGED <<alg, vars, diagramVars, gtreeVars, stage, topVars, lclVars>>
  /\ Tree!Next
DiagramStep ==
  /\ alg = "diagram" /\ UNCHANGED <<alg, vars, treeVars, gtreeVars, topVars, lclVars>>
  /\ Diagram!Next
GTreeStep ==
  /\ alg = "gtree" /\ UNCHANGED <<alg, vars, treeVars, diagramVars, topVars, lclVars>>
  /\ G!Next
TopSearch ==
  /\ alg = "top" /\ UNCHANGED <<alg, vars, treeVars, diagramVars, gtreeVars, stage, lclVars>>
  /\ TopNext
BoundCall ==
  /\ alg = "bound" /\ UNCHANGED <<alg, vars, treeVars, diagramVars, gtreeVars, stage, topVars>>
  /\ Call \/ CallCached
BoundStep ==
  /\ alg = "bound" /\ UNCHANGED <<alg, vars, treeVars, diagramVars, gtreeVars, stage, topVars>>
  /\ LCLStep

\* A search runs on; that there is another call is not assumed.
SearchesSpec ==
  /\ SearchesInit
  /\ [][Files \/ Trees \/ DiagramStep \/ GTreeStep \/ TopSearch \/ BoundCall \/ BoundStep]_allVars
  /\ WF_allVars(TopSearch) /\ WF_allVars(BoundStep)
-----------------------------------------------------------------------------
\* The tree on the file acts as a dictionary (bpt.h:55).
ActsAsDictionary == Tree!ActsAsDictionary

\* Search and scan find what is on the leaves, nodes are at least half full,
\* links agree with the tree, and the file's meta with the object's
\* (bpt.cc:65, 81, 146, 285; bpt.h:25, 49).
TreeSound ==
  alg = "tree" =>
  /\ Tree!TypeOK /\ Tree!MetaOnFile /\ Tree!HalfFull /\ Tree!LinksAgree
  /\ Tree!SearchFinds /\ Tree!RangeScanned

\* The diagram of a keyword leads from any of its POIs to all of them, and
\* where it is exact from the nearest to farther ones in order; a bound finds
\* POIs enough along it (query_basic.h:10137, 10661).  The matrices of the
\* G-tree hold distances of the whole network, bounds enclose those between
\* known vertices, and the nearest vertices come in order, at distances that
\* are exact between leaves (gim_tree.h:918, 1413, 1839; process.h:92).
IndexesSound ==
  /\ alg = "diagram" => Diagram!TypeOK /\ Diagram!AdjacencyConnected /\ Diagram!ExpansionComplete
  /\ alg = "gtree" => G!MatricesExact /\ G!BoundsEnclose /\ G!NearestFirst /\ G!DistancesSound
  /\ alg = "top" /\ pc = "social" => Given
  /\ alg = "bound" => LCLTypeOK /\ ServedByDiagram

\* The construction gives a vertex first to a nearest POI, and what is read
\* from its files is what it found, near the vertex and unchanged by other
\* keywords (query_basic.h:10080, 10254).
ReadsBack ==
  [][alg = "diagram" =>
       Diagram!FirstAssignedNearest /\ Diagram!StartsNear /\ Diagram!ReadsBack]_allVars

\* In a leaf with many POIs every vertex is recorded, as the comment at
\* query_basic.h:10241 has it.
DenseLeafRecorded == [][alg = "diagram" => Diagram!DenseLeafRecorded]_allVars

\* A query and a call for a bound come to an end, and so does the polling of
\* POIs that share keywords.
SearchesEnd ==
  /\ (alg = "top" /\ pc # "done") ~> pc = "done"
  /\ at \in {"fill", "poll"} ~> at \in {"idle", "undefined"}
==============================================================================
