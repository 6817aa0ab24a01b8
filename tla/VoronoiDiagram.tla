--------------------------- MODULE VoronoiDiagram ---------------------------
(***************************************************************************)
(* NVD_generation_AllKeyword_V2PHash_Enhenced_road (query_basic.h): for    *)
(* every frequent keyword the network Voronoi diagram of the POIs with it. *)
(* A search from all of them at once gives each vertex to a POI; POIs      *)
(* whose cells meet are adjacent.  The adjacency is written to a file, and *)
(* the nearest POIs to two hash tables: of a vertex, or, where a leaf of   *)
(* the G-tree has few, of the leaf as a whole.                             *)
(*                                                                         *)
(* Lengths are integers (the code orders its queue by the length times     *)
(* dist_scale_dj, cut to an integer).  The queue is a bag, any entry of    *)
(* least length may be its top.  Places in the file count its integers.    *)
(***************************************************************************)
EXTENDS Integers, Sequences, FiniteSets, FiniteSetsExt, SequencesExt, Bags

CONSTANTS
  Vertices, Weight,   \* the road network: {v, w} -> length of the edge
  edgeFile,           \* the edges as <<Ni, Nj>>, in the file's order of ends
  Dist,               \* vertex -> vertex -> length of a shortest path
  leafOf,             \* vertex -> its leaf of the G-tree
  poi_num,
  Inputs,             \* POI -> where it is, at dis from Ni on the edge to Nj;
                      \* term -> the POIs with it
  posting_size_threshold, rau

Leaves == {leafOf[v] : v \in Vertices}
adjList == [v \in Vertices |-> {w \in Vertices : {v, w} \in DOMAIN Weight}]

VARIABLES
  place, invListOfPOI,   \* the input
  term,                  \* the term whose diagram is built
  pointval,              \* vertex reached -> the length of the last entry pushed
  vis,                   \* vertices visited
  Q,                     \* the queue: entries <<vertex, POI, length>>
  vertex_point_pair,     \* vertex -> POI
  NVD_AdjGraph,          \* POI -> the POIs adjacent to it
  NVD_ADJGraph, addressHashMap_nvd,     \* the file, and where in it a POI begins
  idHashMap_v2p, idListHash_l2p_hybrid, \* vertex, or leaf -> nearest POIs
  pc

inputVars == <<place, invListOfPOI>>
searchVars == <<pointval, vis, Q, vertex_point_pair>>
indexVars == <<NVD_ADJGraph, addressHashMap_nvd, idHashMap_v2p, idListHash_l2p_hybrid>>
vars == <<inputVars, term, searchVars, NVD_AdjGraph, indexVars, pc>>

poi_ids == invListOfPOI[term]
Generators == ToSet(poi_ids)

Length(e) == Weight[{place[e].Ni, place[e].Nj}]
\* The length of the way from POI p to v, one of the ends of its edge.
EndDist(p, v) == IF v = place[p].Ni THEN place[p].dis ELSE Length(p) - place[p].dis
Ends(p) == {place[p].Ni, place[p].Nj}
-----------------------------------------------------------------------------
Init ==
  /\ \E in \in Inputs : place = in.place /\ invListOfPOI = in.invList
  /\ term = 1
  /\ pointval = <<>> /\ vis = {} /\ Q = EmptyBag /\ vertex_point_pair = <<>>
  /\ NVD_AdjGraph = <<>> /\ NVD_ADJGraph = <<>> /\ addressHashMap_nvd = <<>>
  /\ idHashMap_v2p = <<>> /\ idListHash_l2p_hybrid = <<>>
  /\ pc = "term"

SkipTerm ==
  /\ pc = "term" /\ term \in DOMAIN invListOfPOI
  /\ Len(poi_ids) <= posting_size_threshold
  /\ term' = term + 1
  /\ UNCHANGED <<inputVars, searchVars, NVD_AdjGraph, indexVars, pc>>

\* Both ends of the edge of every POI; pointval is that of the last POI.
Seed ==
  /\ pc = "term" /\ term \in DOMAIN invListOfPOI
  /\ Len(poi_ids) > posting_size_threshold
  /\ pointval' = [v \in UNION {Ends(p) : p \in Generators} |->
       EndDist(poi_ids[Max({k \in DOMAIN poi_ids : v \in Ends(poi_ids[k])})], v)]
  /\ Q' = SetToBag(UNION {{<<v, p, EndDist(p, v)>> : v \in Ends(p)} : p \in Generators})
  /\ vis' = {} /\ vertex_point_pair' = <<>>
  /\ pc' = "search"
  /\ UNCHANGED <<inputVars, term, NVD_AdjGraph, indexVars>>

BugSeenOnce(e, w) == w \notin vis \cup {e[1]} /\ w \notin DOMAIN pointval
\* Whether entry e of the queue is continued to w.
Shorter(e, w) ==
  /\ w \notin vis \cup {e[1]}
  /\ w \in DOMAIN pointval => e[3] + Weight[{e[1], w}] < pointval[w]

\* An entry that came too late is not told from the first one of its vertex.
Visit ==
  /\ pc = "search"
  /\ \E e \in BagToSet(Q) :
       /\ \A f \in BagToSet(Q) : e[3] <= f[3]
       /\ vertex_point_pair' = [v \in (DOMAIN vertex_point_pair) \cup {e[1]} |->
                                  IF v = e[1] THEN e[2] ELSE vertex_point_pair[v]]
       /\ vis' = vis \cup {e[1]}
       /\ LET next == {w \in adjList[e[1]] : Shorter(e, w)}
              val(w) == e[3] + Weight[{e[1], w}]
          IN  /\ pointval' = [w \in (DOMAIN pointval) \cup next |->
                                IF w \in next THEN val(w) ELSE pointval[w]]
              /\ Q' = (Q (-) SetToBag({e})) (+) SetToBag({<<w, e[2], val(w)>> : w \in next})
  /\ UNCHANGED <<inputVars, term, NVD_AdjGraph, indexVars, pc>>

Cell(p) == {v \in Vertices : vertex_point_pair[v] = p}

BugSameLeaf(p, q) ==
  p # q /\ \E v \in Cell(p) : \E w \in adjList[v] \cap Cell(q) : leafOf[v] = leafOf[w]
CellsMeet(p, q) == p # q /\ \E v \in Cell(p) : adjList[v] \cap Cell(q) # {}

BugNotLinked(p, q) == FALSE
\* A POI without a cell is adjacent to those that have the ends of its edge.
Linked(p, q) == Cell(p) = {} /\ q \in {vertex_point_pair[v] : v \in Ends(p)}

BuildAdjacency ==
  /\ pc = "search" /\ Q = EmptyBag
  /\ NVD_AdjGraph' = [p \in Generators |->
       {q \in Generators : CellsMeet(p, q) \/ Linked(p, q) \/ Linked(q, p)}]
  /\ pc' = "write"
  /\ UNCHANGED <<inputVars, term, searchVars, indexVars>>

Ascending(S) == SetToSortSeq(S, LAMBDA x, y : x < y)

\* The id of p, how many neighbours it has, and these.
Record(p) == <<p, Cardinality(NVD_AdjGraph[p])>> \o Ascending(NVD_AdjGraph[p])

nvdKey(t, p) == t * poi_num + p
BugVertexKey(t, v) == t + v
vertexKey(t, v) == t * Cardinality(Vertices) + v
leafKey(t, l) == t * Cardinality(Leaves) + l

Stored(hash, k) == IF k \in DOMAIN hash THEN hash[k] ELSE {}
\* The entries of new are set.
Put(hash, new) == [k \in (DOMAIN hash) \cup DOMAIN new |->
                     IF k \in DOMAIN new THEN new[k] ELSE hash[k]]

\* key_nvd at the k-th POI.
Address(k) ==
  Len(NVD_ADJGraph) + FoldLeft(LAMBDA n, p : n + Len(Record(p)), 0, SubSeq(poi_ids, 1, k-1))

BugInsideOnly(l) == {p \in Generators : leafOf[place[p].Ni] = l}
\* The POIs in leaf l, and those that have its border vertices.
poiNN_set(l) ==
  {p \in Generators : leafOf[place[p].Ni] = l}
    \cup {vertex_point_pair[v] : v \in {x \in Vertices :
            leafOf[x] = l /\ \E w \in adjList[x] : leafOf[w] # l}}

Sparse(l) == Cardinality(poiNN_set(l)) <= rau

\* The vertices leaf l has for loadEdgeMap: of an edge between two leaves Ni is
\* put into both, and Nj into none.
vetexSet(l) == {e[1] : e \in {f \in edgeFile : l \in {leafOf[f[1]], leafOf[f[2]]}}}
Recorded == UNION {vetexSet(l) : l \in {m \in Leaves : ~Sparse(m)}}

WriteIndex ==
  /\ pc = "write"
  /\ NVD_ADJGraph' = FoldLeft(LAMBDA file, p : file \o Record(p), NVD_ADJGraph, poi_ids)
  /\ addressHashMap_nvd' = Put(addressHashMap_nvd,
       [a \in {nvdKey(term, p) : p \in Generators} |->
          Address(CHOOSE k \in DOMAIN poi_ids : nvdKey(term, poi_ids[k]) = a)])
  /\ idListHash_l2p_hybrid' = Put(idListHash_l2p_hybrid,
       [a \in {leafKey(term, l) : l \in {m \in Leaves : Sparse(m)}} |->
          poiNN_set(CHOOSE l \in Leaves : leafKey(term, l) = a)])
  /\ idHashMap_v2p' = Put(idHashMap_v2p,
       [a \in {vertexKey(term, v) : v \in Recorded} |->
          vertex_point_pair[CHOOSE v \in Vertices : vertexKey(term, v) = a]])
  /\ term' = term + 1 /\ pc' = "term"
  /\ UNCHANGED <<inputVars, searchVars, NVD_AdjGraph>>

Next == SkipTerm \/ Seed \/ Visit \/ BuildAdjacency \/ WriteIndex

Spec == Init /\ [][Next]_vars
-----------------------------------------------------------------------------
(* What the queries read from the index.                                   *)

\* getPOIAdj_NVD_By_Keyword
getPOIAdj(p, t) ==
  LET addr == addressHashMap_nvd[nvdKey(t, p)]
  IN  {NVD_ADJGraph[addr + 2 + j] : j \in 1 .. NVD_ADJGraph[addr + 2]}

\* getNNPOI_By_HybridVertex_Keyword, else getNNPOIList_by_Hybrid_Hash.
getNNPOIs(v, t) ==
  IF vertexKey(t, v) \in DOMAIN idHashMap_v2p THEN {idHashMap_v2p[vertexKey(t, v)]}
  ELSE Stored(idListHash_l2p_hybrid, leafKey(t, leafOf[v]))
-----------------------------------------------------------------------------
(* Properties.                                                             *)

PoiDist(v, p) == Min({Dist[v][x] + EndDist(p, x) : x \in Ends(p)})
Nearest(v) == {p \in Generators : \A q \in Generators : PoiDist(v, p) <= PoiDist(v, q)}

\* Types: no entry of the queue is shorter than the road, no POI is adjacent
\* to itself, and the file holds whole records.
TypeOK ==
  /\ term \in 1 .. Len(invListOfPOI) + 1 /\ pc \in {"term", "search", "write"}
  /\ DOMAIN vertex_point_pair = vis /\ vis \subseteq Vertices
  /\ pc # "term" => Range(vertex_point_pair) \subseteq Generators
  /\ DOMAIN pointval \subseteq Vertices
  /\ pc # "term" => \A e \in BagToSet(Q) : e[3] >= PoiDist(e[1], e[2])
  /\ pc = "write" => \A p \in Generators : NVD_AdjGraph[p] \subseteq Generators \ {p}
  /\ \A a \in DOMAIN addressHashMap_nvd : addressHashMap_nvd[a] < Len(NVD_ADJGraph)

\* A vertex goes first to a POI that is nearest to it (query_basic.h:10080),
\* although pointval may be that of a later POI with an end in common.
FirstAssignedNearest ==
  pc = "search" => \A v \in vis' \ vis : vertex_point_pair'[v] \in Nearest(v)

\* Whether it stays the POI of a vertex: a later entry for the vertex is not
\* told from the first one, and where it was farther the diagram is not exact.
NearestAssigned == pc = "write" => \A v \in Vertices : vertex_point_pair[v] \in Nearest(v)

ReachedWithin(S, p) ==
  LET R[n \in 0 .. poi_num] ==
        IF n = 0 THEN {p} \cap S
        ELSE R[n-1] \cup {q \in S : NVD_AdjGraph[q] \cap R[n-1] # {}}
  IN  R[poi_num]

\* Every POI of the term can be reached from every other, those too to which
\* no vertex went (query_basic.h:10137): a search that follows the adjacency
\* comes to all of them, whatever vertices went to which POI.
AdjacencyConnected ==
  pc = "write" => \A p \in Generators : ReachedWithin(Generators, p) = Generators

Untied == \A v \in Vertices : Cardinality(Nearest(v)) = 1

\* Where all vertices went to their nearest POI and none has two, a search
\* from the nearest POI of v need never pass one farther than it looks for:
\* what getPOIAdj's callers rely on.
ExpansionComplete ==
  (pc = "write" /\ NearestAssigned /\ Untied) =>
    \A v \in Vertices : \A p \in Generators :
      LET S == {q \in Generators : PoiDist(v, q) <= PoiDist(v, p)}
      IN  ReachedWithin(S, vertex_point_pair[v]) = S

\* The index of a term, where all went to their nearest POI: what is read for
\* a vertex has a nearest POI, be it for the vertex or for its leaf.
StartsNear ==
  (pc = "write" /\ NearestAssigned) =>
    \A t \in {term}, v \in Vertices :
      v \in {e[1] : e \in edgeFile} \/ Sparse(leafOf[v]) => \E p \in Nearest(v) : p \in getNNPOIs(v, t)'

\* In a dense leaf all vertices are recorded (query_basic.h:10241).
DenseLeafRecorded ==
  pc = "write" =>
    \A v \in Vertices : ~Sparse(leafOf[v]) => vertexKey(term, v) \in DOMAIN idHashMap_v2p'

\* What is read of a term is what was built for it, and what is written for
\* it changes nothing that is read of the terms before.
ReadsBack ==
  pc = "write" =>
    /\ \A t \in {term}, p \in Generators : getPOIAdj(p, t)' = NVD_AdjGraph[p]
    /\ \A t \in 1 .. term - 1 : Len(invListOfPOI[t]) > posting_size_threshold =>
         /\ \A p \in ToSet(invListOfPOI[t]) : getPOIAdj(p, t)' = getPOIAdj(p, t)
         /\ \A v \in Vertices : getNNPOIs(v, t)' = getNNPOIs(v, t)
=============================================================================
