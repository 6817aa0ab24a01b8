--------------------------- MODULE LocalInfluence ---------------------------
(***************************************************************************)
(* InfGraph::compute_usersetLocalInf (infgraph.h) and what the selections  *)
(* that use it know: the social network under the weighted cascade, where  *)
(* an edge into v is live with probability 1/inDeg(v), and a table of the  *)
(* potential users of each POI (br_usr_table; reachable_poi_table is its   *)
(* inverse).                                                               *)
(*                                                                         *)
(* Influence is counted in parts: Unit parts are one user, and Unit is a   *)
(* multiple of what the probabilities are divided by, so that no sum is    *)
(* rounded.                                                                *)
(***************************************************************************)
EXTENDS Integers, FiniteSets, FiniteSetsExt

CONSTANTS Pois,         \* ids of the chain stores
          Users,        \* ids of the users
          InNeighbors,  \* user -> the users with an edge to it
          Unit          \* parts that make up one user: a multiple of d^d
                        \* for every number d of users with an edge to one

ASSUME NetworkAssumption ==
  /\ IsFiniteSet(Pois) /\ IsFiniteSet(Users)
  /\ InNeighbors \in [Users -> SUBSET Users]
  /\ Unit \in Nat

inDeg(v) == Cardinality(InNeighbors[v])

out_neighbors(u) == {v \in Users : u \in InNeighbors[v]}

HopNeighbors(S) == UNION {out_neighbors(u) : u \in S}

\* What is left of Unit after m factors 1 - 1/d.
bigPai(d) ==
  LET pai[m \in Nat] == IF m = 0 THEN Unit ELSE pai[m-1] - pai[m-1] \div d
  IN  pai

\* 1 - bigPai: the chance that v is activated by a neighbour in S.
influence_ratio(S) ==
  [v \in Users |-> Unit - bigPai(inDeg(v))[Cardinality(InNeighbors[v] \cap S)]]

\* Every user of S, and every neighbour of one with its chance: a user that
\* is both is counted as both.
compute_usersetLocalInf(S) ==
  Unit * Cardinality(S) + MapThenSumSet(LAMBDA v : influence_ratio(S)[v], HopNeighbors(S))

-----------------------------------------------------------------------------
\* Tables: POI -> its potential users, for the POIs that have one.
UsersOf(table, P) == UNION {table[p] : p \in P}

PoiInf(table, P) == compute_usersetLocalInf(UsersOf(table, P))

\* The POIs that share a user with p.  p is one of them.
SharingUser(table, p) == {q \in DOMAIN table : table[q] \cap table[p] # {}}

\* What P gains by q.
LocalGain(table, P, q) == PoiInf(table, P \cup {q}) - PoiInf(table, P)

\* rearchInfo_clear and setRearchable for every u of results[p].
Connection(results) == [p \in {q \in DOMAIN results : results[q] # {}} |-> results[p]]
=============================================================================
