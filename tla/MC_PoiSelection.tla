-------------------------- MODULE MC_PoiSelection --------------------------
(* One selection over every combination of three RR sets that three users  *)
(* with overlapping POIs can give.                                         *)
EXTENDS PoiSelection, TLC

CONSTANTS p1, p2, p3, p4, u1, u2, u3

MCPois  == {p1, p2, p3, p4}
MCUsers == {u1, u2, u3}
MCRRIds == 0..2

\* reachable_poi_table: four candidates sharing users, then two and three,
\* with which the queues run empty.
MCTables ==
  { (u1 :> {p1, p2}) @@ (u2 :> {p2, p3}) @@ (u3 :> {p1, p4}),
    (u1 :> {p1, p2}) @@ (u2 :> {p2}) @@ (u3 :> {p1, p3}),
    (u1 :> {p1, p2}) @@ (u2 :> {p1}) @@ (u3 :> {}) }

\* An RR set gathers the POIs of the users visited.
RRSetOf(table, visited) == {o \in MCPois \X visited : o[1] \in table[o[2]]}

MCInit ==
  /\ \E table \in MCTables, visited \in [MCRRIds -> SUBSET MCUsers] :
       /\ inf_pois = UNION {table[u] : u \in MCUsers}
       /\ hyperGT_POI = [i \in MCRRIds |-> RRSetOf(table, visited[i])]
  /\ hyperG_POI = [p \in inf_pois |-> OccursIn(p, RRIds)]
  /\ Init

MCNext == (sel = "idle" /\ Begin) \/ LoopStep
MCSpec == MCInit /\ [][MCNext]_vars /\ Fairness
=============================================================================
