------------------------------ MODULE GTreeIndex ------------------------------
(* The G-tree over the road network (gim_tree.h): built by halving, or       *)
(* quartering, the vertices again and again; with each node a matrix of      *)
(* distances between borders; and what is computed from it, one thing in a   *)
(* run: the nearest vertices of a vertex, the distance of two, or the bounds *)
(* for the distances between two nodes (process.h).                          *)
(*                                                                           *)
(* Matrices are indexed by the vertices themselves; the code's positions     *)
(* (up_pos, current_pos, lower_bound) only find their rows and columns.      *)
EXTENDS Integers, FiniteSets, FiniteSetsExt, SequencesExt, TLC

CONSTANTS
  Vertices,
  Networks,           \* name -> the edges of its file: [Ni, Nj, dist]
  Dist,               \* name -> vertex -> vertex -> length of a shortest path
  graph_partition(_), \* METIS: the ways to cut a set into PARTITION_PART parts
  LEAF_CAP, K,
  MaxDist             \* more than any distance

VARIABLES
  road,               \* the network
  buildstack, GTree, gtreepath,
  turn, graph,        \* <<level, node>> whose matrices are to come; temp graph
  vetexSet, DisBoundMap,
  SPDCache,
  locid, itm, pq, rstset,
  pc

buildVars == <<road, buildstack, gtreepath, turn, graph>>
boundVars == <<vetexSet, DisBoundMap>>
queryVars == <<locid, itm, pq, rstset>>
vars == <<buildVars, GTree, boundVars, SPDCache, queryVars, pc>>

adj(v) == {<<e.Nj, e.dist>> : e \in {f \in Networks[road] : f.Ni = v}}
            \cup {<<e.Ni, e.dist>> : e \in {f \in Networks[road] : f.Nj = v}}
leafOf(v) == Last(gtreepath[v])
-----------------------------------------------------------------------------
(* Dijkstra's search.                                                        *)

\* The nearest vertex of q is settled and its neighbours are given what it
\* offers them.
Relaxed(st, g) ==
  LET v == CHOOSE v \in DOMAIN st.q : \A w \in DOMAIN st.q : st.q[v] <= st.q[w]
      seen == st.seen @@ (v :> st.q[v])
      offers == {<<e[1], st.q[v] + e[2]>> : e \in {f \in g[v] : f[1] \notin DOMAIN seen}}
      rest == (DOMAIN st.q) \ {v}
  IN  [seen |-> seen,
       q |-> [w \in rest \cup {o[1] : o \in offers} |->
                Min({st.q[x] : x \in {w} \cap rest} \cup {o[2] : o \in {p \in offers : p[1] = w}})]]

Settled(s, todo, g) ==
  FoldLeft(LAMBDA st, n : IF st.q = <<>> \/ todo \subseteq DOMAIN st.seen THEN st ELSE Relaxed(st, g),
           [seen |-> <<>>, q |-> s :> 0], [n \in 1 .. Cardinality(Vertices) |-> n]).seen

\* A candidate not reached has distance 0.
dijkstra_candidate(s, cands, g) ==
  LET seen == Settled(s, cands, g)
  IN  [v \in cands |-> IF v \in DOMAIN seen THEN seen[v] ELSE 0]
-----------------------------------------------------------------------------
(* Building the tree.                                                        *)

TreeNode(f, b) == [father |-> f, children |-> <<>>, isleaf |-> FALSE, leafnodes |-> {},
                   borders |-> b, union_borders |-> {}, mind |-> <<>>]

Init ==
  /\ road \in DOMAIN Networks
  /\ GTree = 0 :> TreeNode(-1, {})
  /\ buildstack = <<[tnid |-> 0, nset |-> Vertices]>>
  /\ gtreepath = [v \in Vertices |-> <<>>]
  /\ turn = <<>> /\ graph = <<>> /\ vetexSet = <<>> /\ DisBoundMap = <<>> /\ SPDCache = <<>>
  /\ locid = -1 /\ itm = <<>> /\ pq = {} /\ rstset = <<>>
  /\ pc = "build"

current == Last(buildstack)
BordersOf(s) == {v \in s : \E e \in adj(v) : e[1] \notin s}

Build(next) ==
  /\ pc = "build" /\ buildstack # <<>>
  /\ gtreepath' = [v \in Vertices |-> IF v \in current.nset THEN Append(gtreepath[v], current.tnid)
                                      ELSE gtreepath[v]]
  /\ next
  /\ UNCHANGED <<road, turn, graph, boundVars, SPDCache, queryVars, pc>>

BuildLeaf ==
  Build(/\ Cardinality(current.nset) <= LEAF_CAP
        /\ GTree' = [GTree EXCEPT ![current.tnid].isleaf = TRUE, ![current.tnid].leafnodes = current.nset]
        /\ buildstack' = Front(buildstack))

BuildInner ==
  Build(/\ Cardinality(current.nset) > LEAF_CAP
        /\ \E childset \in graph_partition(current.nset) :
             LET childpos(i) == Cardinality(DOMAIN GTree) + i - 1
                 Slots == DOMAIN childset
             IN  /\ GTree' = [GTree EXCEPT ![current.tnid].children = [i \in Slots |-> childpos(i)]] @@
                             [c \in {childpos(i) : i \in Slots} |->
                                TreeNode(current.tnid, BordersOf(childset[c - childpos(1) + 1]))]
                 /\ buildstack' = Front(buildstack) \o
                      [i \in Slots |-> [tnid |-> childpos(i), nset |-> childset[i]]])

\* The nodes of a level, and all nodes from the lowest level to the root.
Level(i) ==
  LET L[k \in 0 .. i] ==
        IF k = 0 THEN <<0>> ELSE FlattenSeq([j \in DOMAIN L[k-1] |-> GTree[L[k-1][j]].children])
  IN  L[i]
BottomUp ==
  LET depth == Max({Len(gtreepath[v]) : v \in Vertices})
  IN  FlattenSeq([k \in 1 .. depth |->
        LET i == depth - k IN [j \in DOMAIN Level(i) |-> <<i, Level(i)[j]>>]])

StartMatrices ==
  /\ pc = "build" /\ buildstack = <<>>
  /\ turn' = BottomUp /\ graph' = [v \in Vertices |-> adj(v)] /\ pc' = "matrices"
  /\ UNCHANGED <<road, buildstack, gtreepath, GTree, boundVars, SPDCache, queryVars>>

\* Whether v is in node tn of level i.
Within(v, i, tn) == Len(gtreepath[v]) > i /\ gtreepath[v][i + 1] = tn

union_borders(n) ==
  IF n.isleaf THEN n.borders ELSE UNION {GTree[c].borders : c \in ToSet(n.children)}

BugLevelAbove(s, i, tn) == {e \in graph[s] : i = 0 \/ ~Within(e[1], i - 1, GTree[tn].father)}
\* The edges of border s that stay: those that leave the node.
Outward(s, i, tn) == {e \in graph[s] : ~Within(e[1], i, tn)}

\* hierarchy_shortest_path_calculation, one node: its matrix, and the graph
\* without the inside of the node.
FillNode ==
  /\ pc = "matrices" /\ turn # <<>>
  /\ LET i == Head(turn)[1]
         tn == Head(turn)[2]
         n == GTree[tn]
         ub == union_borders(n)
         cands == IF n.isleaf THEN n.leafnodes ELSE ub
         mind == [b \in ub |-> dijkstra_candidate(b, cands, graph)]
     IN  /\ GTree' = [GTree EXCEPT ![tn].union_borders = ub, ![tn].mind = mind]
         /\ graph' = [v \in Vertices |->
              IF v \in n.borders
              THEN Outward(v, i, tn) \cup {<<b, mind[v][b]>> : b \in n.borders \ {v}}
              ELSE graph[v]]
  /\ turn' = Tail(turn)
  /\ pc' = IF Len(turn) = 1 THEN "ready" ELSE pc
  /\ UNCHANGED <<road, buildstack, gtreepath, boundVars, SPDCache, queryVars>>
-----------------------------------------------------------------------------
(* knn_query: the nearest K vertices, all vertices being objects.            *)

\* The least way to b on from distances to the borders c of a node, read from
\* a matrix by b's row, or by the rows of the borders.
BugNearestBorder(prev, mind, b) ==
  Min({prev[c] + mind[b][c] : c \in {x \in DOMAIN prev : \A y \in DOMAIN prev : prev[x] <= prev[y]}})
Through(prev, mind, b) == Min({prev[c] + mind[b][c] : c \in DOMAIN prev})
From(prev, mind, b) == Min({prev[c] + mind[c][b] : c \in DOMAIN prev})

\* The distances to the borders of each node on the path of v but the root.
Upstream(v) ==
  LET path == gtreepath[v]
      U[i \in 2 .. Len(path)] ==
        LET n == GTree[path[i]]
        IN  IF n.isleaf THEN [b \in n.borders |-> n.mind[b][v]]
            ELSE LET below == U[i + 1] IN [b \in n.borders |-> Through(below, n.mind, b)]
  IN  [tn \in {path[i] : i \in 2 .. Len(path)} |->
         U[CHOOSE i \in 2 .. Len(path) : path[i] = tn]]

Status_query(id, isvertex, lca_pos, dis) ==
  [id |-> id, isvertex |-> isvertex, lca_pos |-> lca_pos, dis |-> dis]

Ask ==
  /\ pc = "ready"
  /\ \E v \in Vertices : locid' = v /\ itm' = Upstream(v)
  /\ pq' = {Status_query(0, FALSE, 0, 0)} /\ pc' = "query"
  /\ UNCHANGED <<buildVars, GTree, boundVars, SPDCache, rstset>>

\* The entry at lca_pos counts from 0.
OnPath(lca_pos) == gtreepath[locid][lca_pos + 1]

Top(top) == top \in pq /\ \A e \in pq : top.dis <= e.dis

Pop(top) ==
  /\ pc = "query" /\ Len(rstset) < K /\ Top(top)
  /\ UNCHANGED <<buildVars, GTree, boundVars, SPDCache, locid, pc>>

PopVertex(top) ==
  /\ Pop(top) /\ top.isvertex
  /\ rstset' = Append(rstset, <<top.id, top.dis>>)
  /\ pq' = pq \ {top} /\ UNCHANGED itm

PopLeaf(top) ==
  /\ Pop(top) /\ ~top.isvertex /\ GTree[top.id].isleaf
  /\ LET n == GTree[top.id]
         dis == IF top.id = OnPath(top.lca_pos)
                THEN dijkstra_candidate(locid, n.leafnodes, [v \in Vertices |-> adj(v)])
                ELSE [v \in n.leafnodes |-> From(itm[top.id], n.mind, v)]
     IN  pq' = (pq \ {top}) \cup {Status_query(v, TRUE, top.lca_pos, dis[v]) : v \in n.leafnodes}
  /\ UNCHANGED <<itm, rstset>>

\* The borders a way to a child comes in by: those of the child on the path for
\* its brothers, of the node itself further down.
Entrance(top, child, son) ==
  IF GTree[child].father = GTree[son].father THEN itm[son] ELSE itm[top.id]

PopInner(top) ==
  /\ Pop(top) /\ ~top.isvertex /\ ~GTree[top.id].isleaf
  /\ LET n == GTree[top.id]
         son == OnPath(top.lca_pos + 1)
         others == ToSet(n.children) \ {son}
         to == [c \in others |->
                  LET by == Entrance(top, c, son) IN [b \in GTree[c].borders |-> Through(by, n.mind, b)]]
     IN  /\ itm' = to @@ itm
         /\ pq' = (pq \ {top})
              \cup {Status_query(c, FALSE, top.lca_pos, Min({to[c][b] : b \in DOMAIN to[c]})) : c \in others}
              \cup {Status_query(c, FALSE, top.lca_pos + 1, 0) : c \in {son} \cap ToSet(n.children)}
  /\ UNCHANGED rstset

QueryEnds ==
  /\ pc = "query" /\ (pq = {} \/ Len(rstset) >= K)
  /\ pc' = "done"
  /\ UNCHANGED <<buildVars, GTree, boundVars, SPDCache, queryVars>>
-----------------------------------------------------------------------------
(* SPSP: the distance of two vertices.                                       *)

\* Only the edges that touch the leaf are searched.
LeafGraph(leaf) ==
  [v \in Vertices |-> {e \in adj(v) : v \in GTree[leaf].leafnodes \/ e[1] \in GTree[leaf].leafnodes}]

BugNotReached(Ni, Nj) == dijkstra_candidate(Ni, Vertices, LeafGraph(leafOf(Ni)))[Nj]
InLeaf(Ni, Nj) ==
  LET seen == Settled(Ni, Vertices, LeafGraph(leafOf(Ni)))
  IN  IF Nj \in DOMAIN seen THEN seen[Nj] ELSE MaxDist

\* Up from Ni to the last node that Nj is not in, over, and down to Nj.
AcrossLeaves(Ni, Nj) ==
  LET up == gtreepath[Ni]
      down == gtreepath[Nj]
      start == CHOOSE i \in 1 .. Len(up) - 1 : up[i] = down[i] /\ up[i + 1] # down[i + 1]
      leaf == GTree[Last(up)]
      U[i \in start + 1 .. Len(up)] ==
        IF i = Len(up) THEN [b \in leaf.borders |-> leaf.mind[b][Ni]]
        ELSE LET below == U[i + 1] IN [b \in GTree[up[i]].borders |-> From(below, GTree[up[i]].mind, b)]
      D[i \in start .. Len(down) - 1] ==
        LET above == IF i = start THEN U[start + 1] ELSE D[i - 1]
        IN  [b \in GTree[down[i + 1]].borders |-> From(above, GTree[down[i]].mind, b)]
  IN  From(D[Len(down) - 1], GTree[Last(down)].mind, Nj)

Distance(Ni, Nj) == IF leafOf(Ni) = leafOf(Nj) THEN InLeaf(Ni, Nj) ELSE AcrossLeaves(Ni, Nj)

\* One call, on an empty cache: a distance in it is returned as it is.
SPSP ==
  /\ pc = "ready"
  /\ \E Ni \in Vertices, Nj \in Vertices : SPDCache' = <<Ni, Nj>> :> Distance(Ni, Nj)
  /\ pc' = "asked"
  /\ UNCHANGED <<buildVars, GTree, boundVars, queryVars>>
-----------------------------------------------------------------------------
(* The bounds for the distances between two nodes.                           *)

Proper(n, v) == \E i \in 1 .. Len(gtreepath[v]) - 1 : gtreepath[v][i] = n

\* loadEdgeMap: an edge adds Ni to the leaves of both its ends.
loadEdgeMap ==
  /\ pc = "ready"
  /\ vetexSet' = [n \in DOMAIN GTree |->
       {e.Ni : e \in {f \in Networks[road] : n \in {leafOf(f.Ni), leafOf(f.Nj)} \/ Proper(n, f.Ni)}}
         \cup {e.Nj : e \in {f \in Networks[road] : Proper(n, f.Nj)}}]
  /\ pc' = "leaves"
  /\ UNCHANGED <<buildVars, GTree, DisBoundMap, SPDCache, queryVars>>

Leaves == {n \in (DOMAIN GTree) \ {0} : GTree[n].isleaf}
UpperNodes == {n \in (DOMAIN GTree) \ {0} : ~GTree[n].isleaf}
phl(v, w) == Dist[road][v][w]
MinMaxD(min, max) == [min |-> min, max |-> max]

\* The first of the nearest pairs of borders, in the order of the two loops.
BorderPair(l1, l2) ==
  LET pairs == GTree[l1].borders \X GTree[l2].borders
      least == {p \in pairs : \A q \in pairs : phl(p[1], p[2]) <= phl(q[1], q[2])}
  IN  CHOOSE p \in least : \A q \in least : p[1] < q[1] \/ (p[1] = q[1] /\ p[2] <= q[2])

Farthest(b, leaf) == Max({phl(b, v) : v \in vetexSet[leaf]} \cup {0})
BugNoFar(l1, l2) ==
  LET p == BorderPair(l1, l2)
  IN  MinMaxD(phl(p[1], p[2]), phl(p[1], p[2]) + Farthest(p[1], l1))
BetweenLeaves(l1, l2) ==
  LET p == BorderPair(l1, l2)
  IN  MinMaxD(phl(p[1], p[2]), phl(p[1], p[2]) + Farthest(p[1], l1) + Farthest(p[2], l2))

WithinLeaf(l) == MinMaxD(0, Max({phl(v, w) : v \in vetexSet[l], w \in vetexSet[l]} \cup {0}))

\* Leaves are entered with all nodes above them, then bounded pair by pair.
BoundLeaves ==
  /\ pc = "leaves"
  /\ GTree' = [n \in DOMAIN GTree |->
       IF GTree[n].isleaf THEN GTree[n]
       ELSE [GTree[n] EXCEPT !.leafnodes = {l \in Leaves : \E v \in GTree[l].leafnodes : Proper(n, v)}]]
  /\ DisBoundMap' = [p \in Leaves \X Leaves |->
       IF p[1] = p[2] THEN WithinLeaf(p[1])
       ELSE BetweenLeaves(Min({p[1], p[2]}), Max({p[1], p[2]}))]
  /\ pc' = "uppers"
  /\ UNCHANGED <<buildVars, vetexSet, SPDCache, queryVars>>

Enclosing(bounds) == MinMaxD(Min({m.min : m \in bounds}), Max({m.max : m \in bounds}))

\* A leaf and an upper node, then two upper nodes, the later filled from the former.
BoundUppers ==
  /\ pc = "uppers"
  /\ LET one == [p \in Leaves \X UpperNodes |->
                   Enclosing({DisBoundMap[<<p[1], l>>] : l \in GTree[p[2]].leafnodes})]
         two(n1, n2) == Enclosing({one[<<l, n2>>] : l \in GTree[n1].leafnodes})
     IN  DisBoundMap' = DisBoundMap @@ one @@
           [p \in UpperNodes \X UpperNodes |-> two(Min({p[1], p[2]}), Max({p[1], p[2]}))]
  /\ pc' = "bounded"
  /\ UNCHANGED <<buildVars, GTree, vetexSet, SPDCache, queryVars>>

Search == QueryEnds \/ \E top \in pq : PopVertex(top) \/ PopLeaf(top) \/ PopInner(top)
Next ==
  \/ BuildLeaf \/ BuildInner \/ StartMatrices \/ FillNode
  \/ Ask \/ Search \/ SPSP
  \/ loadEdgeMap \/ BoundLeaves \/ BoundUppers
-----------------------------------------------------------------------------
(* Properties.                                                               *)

\* Whatever parts METIS cuts, what is in a matrix is the distance in the road
\* network, though it was found in a graph that had lost the inside of nodes.
MatricesExact ==
  \A n \in DOMAIN GTree : \A a \in DOMAIN GTree[n].mind : \A b \in DOMAIN GTree[n].mind[a] :
    GTree[n].mind[a][b] = Dist[road][a][b]

\* The vertices found so far are the nearest ones, in order, with their
\* distances; at the end there are K, or all.
NearestFirst ==
  LET found == {rstset[i][1] : i \in DOMAIN rstset}
  IN  /\ \A i \in DOMAIN rstset :
           /\ rstset[i][2] = Dist[road][locid][rstset[i][1]]
           /\ \A j \in 1 .. i - 1 : rstset[j][1] # rstset[i][1] /\ rstset[j][2] <= rstset[i][2]
           /\ \A v \in Vertices \ found : rstset[i][2] <= Dist[road][locid][v]
      /\ pc = "done" => Len(rstset) = Min({K, Cardinality(Vertices)})

\* SPSP is exact between leaves and never too short within one.
DistancesSound ==
  \A p \in DOMAIN SPDCache :
    /\ SPDCache[p] >= Dist[road][p[1]][p[2]]
    /\ leafOf(p[1]) # leafOf(p[2]) => SPDCache[p] = Dist[road][p[1]][p[2]]

\* A distance between two vertices that their leaves know of lies within the
\* bounds of every two nodes they are in.
BoundsEnclose ==
  LET Known(v) == v \in vetexSet[leafOf(v)]
  IN  pc = "bounded" =>
        \A v \in {x \in Vertices : Known(x)}, w \in {x \in Vertices : Known(x)} :
          \A n1 \in ToSet(Tail(gtreepath[v])), n2 \in ToSet(Tail(gtreepath[w])) :
            <<n1, n2>> \in DOMAIN DisBoundMap =>
              /\ DisBoundMap[<<n1, n2>>].min <= Dist[road][v][w]
              /\ Dist[road][v][w] <= DisBoundMap[<<n1, n2>>].max
==============================================================================
