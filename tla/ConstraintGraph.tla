--------------------------- MODULE ConstraintGraph ---------------------------
(***************************************************************************)
(* SocialGraph (SocialInfluenceModule/IMM/graph.h) as the RIS algorithms   *)
(* use it: the social graph, and the constrained graph of the users that   *)
(* the potential users of a candidate POI can influence.                   *)
(*                                                                         *)
(* Users are the nodes 0..n-1 of its vectors.  An edge into u is live in   *)
(* a sample with probability 1/inDeg(u) (weighted cascade), so an edge     *)
(* that is u's only one is always live and any other may or may not be.    *)
(***************************************************************************)
EXTENDS Integers, FiniteSets

CONSTANTS Pois,        \* ids of the chain stores
          n,           \* number of users
          InNeighbors  \* user -> the users with an edge to it

Nodes == 0 .. n-1

ASSUME GraphAssumption ==
  /\ IsFiniteSet(Pois)
  /\ n \in Nat \ {0}
  /\ InNeighbors \in [Nodes -> SUBSET Nodes]

VARIABLES
  inf_pois,             \* POIs with a potential user
  reachable_poi_table,  \* user -> POIs it is a potential user of
  reachable_usrs,       \* the users of the constrained graph
  idx_usr_table         \* index -> user: reachable_usrs in ascending order

graphVars == <<inf_pois, reachable_poi_table, reachable_usrs, idx_usr_table>>

\* The users a search from S along nbr visits: the least set with S that nbr
\* does not leave.
Closure(S, nbr) ==
  {u \in Nodes : \A T \in SUBSET Nodes :
                   S \subseteq T /\ (\A v \in T : nbr[v] \subseteq T) => u \in T}

OutNeighbors == [u \in Nodes |-> {v \in Nodes : u \in InNeighbors[v]}]

\* The in-edges that may be live together: any of those tossed for, and those
\* that are a user's only one.
LiveEdges ==
  LET tossed == {e \in Nodes \X Nodes :
                   e[1] \in InNeighbors[e[2]] /\ Cardinality(InNeighbors[e[2]]) # 1}
  IN  {[u \in Nodes |-> {v \in InNeighbors[u] :
                          Cardinality(InNeighbors[u]) = 1 \/ <<v, u>> \in heads}] :
         heads \in SUBSET tossed}

\* The sets of users a reverse search from u may visit.
VisitedFrom == [u \in Nodes |-> {Closure({u}, live) : live \in LiveEdges}]

\* A map over the reachable users in ascending order.
IndexOf(S) == [k \in 0 .. Cardinality(S)-1 |->
                 CHOOSE u \in S : Cardinality({v \in S : v < u}) = k]

\* unordered_map::operator[]: an absent key reads 0 and is inserted.
Lookup(table, k) == IF k \in DOMAIN table THEN table[k] ELSE 0
Touched(table, k) == [j \in DOMAIN table \cup {k} |-> Lookup(table, j)]

\* OPIMC::checkReachable on the batch result: POI -> its potential users.
checkReachable(results) ==
  LET sources == UNION {results[p] : p \in Pois}
      reached == Closure(sources, OutNeighbors)
  IN  /\ inf_pois' = {p \in Pois : results[p] # {}}
      /\ reachable_poi_table' = [u \in Nodes |-> {p \in Pois : u \in results[p]}]
      /\ reachable_usrs' = reached
      /\ idx_usr_table' = IndexOf(reached)
=============================================================================
