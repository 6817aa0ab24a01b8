----------------------------- MODULE HybridOpimc -----------------------------
(***************************************************************************)
(* OPIMC::minePOIsbyHybrid (OPIMC.h) and the builders of outer RR sets it  *)
(* drives (infgraph.h): the mining loop of Opimc around HybridSelection.   *)
(* An outer RR set holds the POIs that reach its user over two links or    *)
(* more; nearer ones are counted exactly.                                  *)
(*                                                                         *)
(* Whether the ratio of the bounds passes is left open, and with it the    *)
(* cover of the seeds in R2.  The one-hop selection before the loop leaves *)
(* nothing that is read later.                                             *)
(***************************************************************************)
EXTENDS ConstraintGraph, Sequences, FiniteSetsExt

CONSTANTS K, NumRBase, NumIter, Results,
          Unit,   \* parts of influence that make up one user
          nc      \* users of the constrained graph

VARIABLES
  br_usr_table,
  hyperGT,         \* R1, R2 -> RR set id -> its occurrences <<p, u>>
  hyperG,          \* R1, R2 -> POI -> its occurrences <<id, u>>
  i, prevSize,     \* of the builder
  uStart,          \* R1, R2 -> id -> the user sampled for
  heap, coverage, coverage_local, estimated_outer, coverage_outer, edgeMark,
  poiMark, poiSet, influence, inf_pair,
  overall_influence_upper, overall_influence_upperDetails, sel,
  round, which, pc, \* which: the collection being built
  seeds, iteration

builderVars == <<hyperGT, hyperG, i, prevSize, uStart>>
loopVars == <<heap, coverage, coverage_local, estimated_outer, coverage_outer, edgeMark,
              poiMark, poiSet, influence, inf_pair,
              overall_influence_upper, overall_influence_upperDetails, sel>>
resultVars == <<seeds, iteration>>
vars == <<graphVars, br_usr_table, builderVars, loopVars, round, which, pc, resultVars>>

Collections == {"R1", "R2"}

Sel == INSTANCE HybridSelection WITH Users <- Nodes, hyperGT_POI_OUT <- hyperGT.R1

numR == NumRBase * 2^round
Size(c) == Cardinality(DOMAIN hyperGT[c])
-----------------------------------------------------------------------------
Init ==
  /\ inf_pois = {} /\ reachable_usrs = {} /\ idx_usr_table = <<>>
  /\ reachable_poi_table = [u \in Nodes |-> {}]
  /\ br_usr_table = <<>>
  /\ hyperGT = [c \in Collections |-> <<>>] /\ hyperG = [c \in Collections |-> <<>>]
  /\ i = 0 /\ prevSize = 0 /\ uStart = [c \in Collections |-> <<>>]
  /\ Sel!Init
  /\ round = 0 /\ which = "R1" /\ pc = "check" /\ seeds = <<>> /\ iteration = 0

\* init_Two_hyper_graph_poi_out
Start ==
  /\ pc = "check" /\ pc' = "resize"
  /\ \E results \in Results :
       checkReachable(results) /\ br_usr_table' = Sel!Connection(results)
  /\ hyperG' = [c \in Collections |-> [p \in inf_pois' |-> {}]]
  /\ UNCHANGED <<hyperGT, i, prevSize, uStart, loopVars, round, which, resultVars>>

\* Slots 0 to numR, of which Sample fills those up to numR - 1.
Slots(c) ==
  [j \in 0 .. Max({numR, Size(c) - 1}) |-> IF j \in DOMAIN hyperGT[c] THEN hyperGT[c][j] ELSE {}]

Resize ==
  /\ pc = "resize" /\ pc' = "sample"
  /\ prevSize' = Size(which) /\ i' = Size(which)
  /\ hyperGT' = [hyperGT EXCEPT ![which] = Slots(which)]
  /\ UNCHANGED <<graphVars, br_usr_table, hyperG, uStart, loopVars, round, which, resultVars>>

\* As in Opimc the index is mapped to a user twice.
StartUser(random) == Lookup(idx_usr_table, idx_usr_table[random])

BugAllVisited == [u \in Nodes |-> {Closure({u}, live) : live \in LiveEdges}]
\* BuildHypergraphPOI_Outer: POIs are pushed for the users found over two
\* live links or more, not for u and those with a live link to it.
OuterUsers ==
  [u \in Nodes |-> {Closure({u}, live) \ ({u} \cup live[u]) : live \in LiveEdges}]

Sample ==
  /\ pc = "sample" /\ i < numR
  /\ \E random \in 0 .. Cardinality(reachable_usrs) - 1 :
       /\ idx_usr_table' = Touched(idx_usr_table, idx_usr_table[random])
       /\ uStart' = [uStart EXCEPT ![which] =
            [j \in (DOMAIN @) \cup {i} |-> IF j = i THEN StartUser(random) ELSE @[j]]]
       /\ \E outer \in OuterUsers[StartUser(random)] :
            hyperGT' = [hyperGT EXCEPT ![which][i] =
              {o \in inf_pois \X outer : o[1] \in reachable_poi_table[o[2]]}]
  /\ i' = i + 1
  /\ UNCHANGED <<inf_pois, reachable_poi_table, reachable_usrs, br_usr_table, hyperG, prevSize,
                 loopVars, round, which, pc, resultVars>>

BugFromOld(c) == prevSize + 1 .. numR - 1
\* The RR sets that are added to the index.
Added(c) == prevSize .. numR - 1

Index ==
  /\ pc = "sample" /\ i >= numR
  /\ hyperG' = [hyperG EXCEPT ![which] = [p \in inf_pois |-> @[p] \cup
       {o \in Added(which) \X Nodes : <<p, o[2]>> \in hyperGT[which][o[1]]}]]
  /\ IF which = "R1" THEN which' = "R2" /\ pc' = "resize" ELSE which' = "R1" /\ pc' = "select"
  /\ UNCHANGED <<graphVars, br_usr_table, hyperGT, i, prevSize, uStart, loopVars, round, resultVars>>

\* A step of do_poiSelection_UB_ByHybrid on R1.
Select ==
  /\ pc \in {"select", "greedy"}
  /\ UNCHANGED <<graphVars, builderVars, round, which, resultVars>>
  /\ IF pc = "select" THEN Sel!Start ELSE Sel!Loop
  /\ pc' = IF sel' = "done" THEN "validate" ELSE IF sel' = "undefined" THEN "undefined" ELSE "greedy"

Accept ==
  /\ pc = "validate" /\ pc' = "done"
  /\ seeds' = poiSet /\ iteration' = round
  /\ UNCHANGED <<graphVars, br_usr_table, builderVars, loopVars, round, which>>

MoreRounds == round + 1 < NumIter

BugSameRound == round
RoundAfter == round + 1
NextRound ==
  /\ pc = "validate" /\ MoreRounds /\ pc' = "resize"
  /\ round' = RoundAfter
  /\ UNCHANGED <<graphVars, br_usr_table, builderVars, loopVars, which, resultVars>>

GiveUp ==
  /\ pc = "validate" /\ ~MoreRounds /\ pc' = "done"
  /\ seeds' = poiSet /\ iteration' = NumIter
  /\ UNCHANGED <<graphVars, br_usr_table, builderVars, loopVars, round, which>>

Next ==
  \/ Start \/ Resize \/ Sample \/ Index \/ Select
  \/ Accept \/ NextRound \/ GiveUp

Spec == Init /\ [][Next]_vars /\ WF_vars(Next)
-----------------------------------------------------------------------------
(* Properties.                                                             *)

TypeOK ==
  /\ pc \in {"check", "resize", "sample", "select", "greedy", "validate", "done", "undefined"}
  /\ round \in 0 .. NumIter - 1 /\ which \in Collections
  /\ \A c \in Collections : \A k \in DOMAIN hyperGT[c] : hyperGT[c][k] \subseteq inf_pois \X Nodes
  /\ pc # "check" => \A c \in Collections : DOMAIN hyperG[c] = inf_pois

\* Both collections are indexed in full whenever POIs are selected.
IndexesComplete ==
  pc \in {"select", "greedy", "validate"} =>
    \A c \in Collections : \A p \in inf_pois :
      hyperG[c][p] = {o \in (DOMAIN hyperGT[c]) \X Nodes : <<p, o[2]>> \in hyperGT[c][o[1]]}

\* Paths of two links or more lead from u to v.
FarFrom == [u \in Nodes |-> Closure(UNION {OutNeighbors[w] : w \in OutNeighbors[u]}, OutNeighbors)]

\* An occurrence in an outer RR set is never the influence of a user on
\* himself or over one link only: those are in the local part, and would be
\* counted twice.
NothingCountedTwice ==
  \A c \in Collections : \A k \in DOMAIN uStart[c] : \A o \in hyperGT[c][k] :
    o[2] # uStart[c][k] /\ uStart[c][k] \in FarFrom[o[2]]
=============================================================================
