---------------------------- MODULE MC_BatchQuery ----------------------------
(* A road network of two streets of four crossings, cut into four leaves   *)
(* under two inner nodes; five POIs, three of them stores; two users.      *)
(* Every store has one frequent keyword, t, at most; but in the databases  *)
(* of run TwoKeys, on streets whose eastern crossings are far away, one    *)
(* store has two.                                                          *)
EXTENDS Queries, TLC

CONSTANTS p1, p2, p3, p4, p5, u1, u2, t, r, s

MCPois == {p1, p2, p3, p4, p5}
MCStores == <<p1, p2, p3>>
MCUsers == {u1, u2}
MCTerms == {t, r, s}

\* Crossing 2x+y is the x-th of street y.
MCVertices == 0 .. 7
X(v) == v \div 2
Y(v) == v % 2
East == <<0, 2, 5, 7>>
MCDist == [v \in MCVertices |-> [w \in MCVertices |->
  LET Abs(a) == IF a < 0 THEN -a ELSE a
  IN  Abs(East[X(v)+1] - East[X(w)+1]) + 3 * Abs(Y(v) - Y(w))]]
MCEdges == {e \in SUBSET MCVertices :
              \E v, w \in MCVertices :
                /\ e = {v, w}
                /\ \/ X(v) = X(w) /\ Y(v) # Y(w)
                   \/ Y(v) = Y(w) /\ X(w) = X(v) + 1}
\* The western leaves are streets, the eastern ones pairs of crossings.
MCgtreepath == [v \in MCVertices |-> <<0, 1 + X(v) \div 2, IF X(v) < 2 THEN 3 + Y(v) ELSE 3 + X(v)>>]
MCIdf == (t :> 2) @@ (r :> 3) @@ (s :> 3)

\* On the way from the first crossing to the second, in one of four leaves or
\* from one into another.
On(from, to, far) == [at |-> from, to |-> to, dis |-> far]

\* Stores that share their keyword, on both streets, some with a visitor who
\* has u1 for a friend; then one store alone with a frequent keyword, two POIs
\* with it at the border of its half; then all POIs with it in one half; then a
\* store beyond those two POIs, which loses the user who is near it on the road
\* that leads there from their half.
Layouts ==
  {[at   |-> (p1 :> On(0, 2, 1)) @@ (p2 :> On(6, 7, 1)) @@ (p3 :> On(1, 3, 2))
             @@ (p4 :> On(4, 5, 3)) @@ (p5 :> On(5, 7, 1)),
    keys |-> (p1 :> {t, r}) @@ (p2 :> {t}) @@ (p3 :> {t, s}) @@ (p4 :> {t, s}) @@ (p5 :> {r}),
    friends |-> {{}, {<<u1, p1>>, <<u1, p2>>, <<u1, p3>>}}, uKeys |-> {{t}, {t, r}, {t, s}}],
   [at   |-> (p1 :> On(6, 7, 3)) @@ (p2 :> On(0, 2, 0)) @@ (p3 :> On(4, 5, 0))
             @@ (p4 :> On(2, 3, 0)) @@ (p5 :> On(2, 4, 1)),
    keys |-> (p1 :> {r}) @@ (p2 :> {t}) @@ (p3 :> {s}) @@ (p4 :> {t}) @@ (p5 :> {t}),
    friends |-> {{}}, uKeys |-> {{t}, {t, r}}],
   [at   |-> (p1 :> On(0, 1, 1)) @@ (p2 :> On(0, 2, 2)) @@ (p3 :> On(1, 3, 0))
             @@ (p4 :> On(1, 3, 1)) @@ (p5 :> On(6, 7, 2)),
    keys |-> (p1 :> {t}) @@ (p2 :> {t}) @@ (p3 :> {s}) @@ (p4 :> {t}) @@ (p5 :> {r}),
    friends |-> {{}}, uKeys |-> {{t}, {t, r}}],
   [at   |-> (p1 :> On(6, 7, 3)) @@ (p2 :> On(4, 5, 0)) @@ (p3 :> On(0, 2, 0))
             @@ (p4 :> On(2, 3, 0)) @@ (p5 :> On(2, 4, 1)),
    keys |-> (p1 :> {r}) @@ (p2 :> {t}) @@ (p3 :> {s}) @@ (p4 :> {t}) @@ (p5 :> {t}),
    friends |-> {{}}, uKeys |-> {{t}}]}
\* u1 is on any road, u2 in one of three of the leaves.
MCRoads == {e \in MCVertices \X MCVertices : e[1] < e[2] /\ {e[1], e[2]} \in MCEdges}
MCPlaces == {at \in [MCUsers -> {On(e[1], e[2], 1) : e \in MCRoads} \cup {On(1, 3, 0), On(2, 4, 3)}] :
               at[u2] \in {On(1, 3, 0), On(4, 6, 1), On(6, 7, 1)}}

\* K of S with the least far.
Nearest(S, far) ==
  CHOOSE T \in SUBSET S : Cardinality(T) = K /\ \A p \in T, q \in S \ T : far[p] <= far[q]
ExpandedOf(dist, places, keys) ==
  [b \in MCVertices |-> [w \in MCTerms |->
     LET with == {p \in MCPois : w \in keys[p]}
     IN  IF Cardinality(with) <= K THEN {}
         ELSE Nearest(with, [p \in with |-> dist[b][places[p].at] + places[p].dis])]]

\* The databases of POIs in their places, users in theirs.
DatabaseOf(dist, at, keys, uAt, uKeys, friends) ==
  [pAt |-> [p \in MCPois |-> at[p].at], pTo |-> [p \in MCPois |-> at[p].to],
   pDis |-> [p \in MCPois |-> at[p].dis], pKeys |-> keys,
   uAt |-> [u \in MCUsers |-> uAt[u].at], uTo |-> [u \in MCUsers |-> uAt[u].to],
   uDis |-> [u \in MCUsers |-> uAt[u].dis], uKeys |-> uKeys, friends |-> friends,
   polled |-> [u \in MCUsers |-> {p \in MCPois : keys[p] \cap uKeys[u] # {}}],
   expanded |-> ExpandedOf(dist, at, keys)]
MCDatabases ==
  UNION {{DatabaseOf(MCDist, layout.at, layout.keys, at, keys, fr) :
            at \in MCPlaces, keys \in [MCUsers -> layout.uKeys], fr \in layout.friends} :
           layout \in Layouts}
-----------------------------------------------------------------------------
\* Near the border of the store's western half are other POIs, with one of its
\* two keywords each.
OneStore == <<p1>>
FarEast == <<0, 2, 5, 40>>
FarDist == [v \in MCVertices |-> [w \in MCVertices |->
  LET Abs(a) == IF a < 0 THEN -a ELSE a
  IN  Abs(FarEast[X(v)+1] - FarEast[X(w)+1]) + Abs(Y(v) - Y(w))]]

TwoKeysAt == (p1 :> On(0, 2, 0)) @@ [p \in MCPois |-> On(2, 4, 0)]
TwoKeysKeys == (p1 :> {t, s}) @@ (p2 :> {t}) @@ (p3 :> {t}) @@ (p4 :> {s}) @@ (p5 :> {s})
TwoKeysDatabases ==
  {DatabaseOf(FarDist, TwoKeysAt, TwoKeysKeys, at, keys, {}) :
     at \in MCPlaces, keys \in [MCUsers -> {{t, s}, {s}, {t}}]}

\* The distances are those of shortest paths, the paths those of one tree; and
\* the stores of the layouts have one frequent keyword at most.
ASSUME StreetsLoaded == ShortestPaths /\ OneTree
ASSUME OneKeywordEach ==
  \A d \in MCDatabases, p \in MCPois :
    Cardinality({w \in d.pKeys[p] : Cardinality({q \in MCPois : w \in d.pKeys[q]}) > K}) <= 1

\* The batch query only.
BatchRun == query = "batch" /\ QueriesSpec
=============================================================================
