---------------------------- MODULE MC_Selections ----------------------------
(* The selections of stores by local influence, on a few users: one hop     *)
(* tables (oneHop, heuristic), the progressive verification around the       *)
(* latter, and the hybrid selection, on its own and in the mining loop.  One *)
(* of them runs, the variables only others have stand still.                *)
EXTENDS ProgressiveSelection, TLC

VARIABLES alg,
          \* of HybridSelection
          hyperGT, coverage_local, estimated_outer, coverage_outer, edgeMark, inf_pair,
          overall_influence_upper, overall_influence_upperDetails,
          \* of HybridOpimc
          inf_pois, reachable_poi_table, reachable_usrs, idx_usr_table,
          hyperG, prevSize, uStart, round, which, pc, iteration

progressOnly == <<input, order, incremental_results, total_inf_base, total_inf_upper,
                  check_count, inf_base, phase>>
hybridOnly == <<hyperGT, coverage_local, estimated_outer, coverage_outer, edgeMark, inf_pair,
                overall_influence_upper, overall_influence_upperDetails>>
miningOnly == <<inf_pois, reachable_poi_table, reachable_usrs, idx_usr_table,
                hyperG, prevSize, uStart, round, which, pc, iteration>>
selectionVars == <<vars, progressOnly, i, seeds, hybridOnly, miningOnly, alg>>
-----------------------------------------------------------------------------
(* One-hop selection of three of four stores with up to three potential     *)
(* users, where 1 and 2 both reach 5, and 3 reaches 6 and is reached by 1.   *)

HopLinks == [u \in {1, 2, 3, 5, 6} |->
               CASE u = 5 -> {1, 2} [] u = 6 -> {3} [] u = 3 -> {1} [] OTHER -> {}]

O == INSTANCE HopSelection WITH Pois <- 1 .. 4, Users <- {1, 2, 3, 5, 6}, InNeighbors <- HopLinks,
                                Unit <- 4, K <- 3, SkipSelected <- FALSE
H == INSTANCE HopSelection WITH Pois <- 1 .. 4, Users <- {1, 2, 3, 5, 6}, InNeighbors <- HopLinks,
                                Unit <- 4, K <- 3, SkipSelected <- TRUE

HopTables ==
  {H!Connection([p \in 1 .. 4 |-> <<a, b, c, d>>[p]]) :
     a, b, c \in SUBSET {1, 2, 3}, d \in {{}, {1}, {2, 3}}}

Called == sel = "idle" /\ \E t \in HopTables : H!Start(t)
-----------------------------------------------------------------------------
(* Verification of four candidate users of four stores; 1 and 4 reach 5, so   *)
(* that stores of theirs share a follower, and may share no user.  Two stores *)
(* are chosen.                                                               *)

\* A user with the stores X and, if the top-K query is not against them, Y:
\* all these scores are within the bound known at first, only 2 beats the
\* K-th best score.
Profile(X, Y) == [o \in 1 .. 4 |-> IF o \in X THEN 2 ELSE IF o \in Y THEN 1 ELSE 0]
CandidateInputs ==
  {[score |-> <<a, b, c, d>>, rk_current |-> [u \in 1..4 |-> 1], Rk |-> [u \in 1..4 |-> 1]] :
     a \in {Profile({1, 2}, {4}), Profile({1, 2, 3}, {4}), Profile({}, {1, 2})},
     b \in {Profile({3}, {}), Profile({}, {1, 2}), Profile({3, 4}, {}), Profile({3}, {1, 2, 4})},
     c \in {Profile({3}, {2}), Profile({}, {4}), Profile({3, 4}, {1})},
     d \in {Profile({3}, {}), Profile({4}, {3}), Profile({1, 3, 4}, {}), Profile({}, {3})}}

CandidateLinks == [u \in 1 .. 5 |-> IF u = 5 THEN {1, 4} ELSE {}]
-----------------------------------------------------------------------------
(* Hybrid selection of three of four stores on tables of three customers,    *)
(* of whom 1 and 2 reach 4, and every two RR sets that hold one of them or   *)
(* two; with an empty one, which the builder always leaves.                  *)

Y == INSTANCE HybridSelection WITH
       Pois <- 1 .. 4, Users <- 1 .. 4, InNeighbors <- [u \in 1 .. 4 |-> IF u = 4 THEN {1, 2} ELSE {}],
       Unit <- 4, K <- 3, nc <- 4, hyperGT_POI_OUT <- hyperGT.R1

HybridTables ==
  {Y!Connection([p \in 1 .. 4 |-> <<{1}, {1, 2}, a, b>>[p]]) : a, b \in SUBSET {1, 2, 3}}
    \cup {Y!Connection([p \in 1 .. 4 |-> {}])}

RRSetOf(table, visited) == {o \in (DOMAIN table) \X visited : o[2] \in table[o[1]]}
-----------------------------------------------------------------------------
(* Mining: users 2 and 3 influence each other and are influenced by 1, who   *)
(* depends on 0, and 0 on 3.  Three stores, two rounds after the first.      *)

M == INSTANCE HybridOpimc WITH
       Pois <- {1, 2, 3}, n <- 4, InNeighbors <- (0 :> {3}) @@ (1 :> {0}) @@ (2 :> {1, 3}) @@ (3 :> {1, 2}),
       K <- 2, NumRBase <- 1, NumIter <- 3, Results <- {(1 :> {0}) @@ (2 :> {0, 1}) @@ (3 :> {2})},
       Unit <- 4, nc <- 4
-----------------------------------------------------------------------------
NoProgress ==
  /\ input = <<>> /\ order = <<>> /\ incremental_results = <<>> /\ total_inf_base = 0
  /\ total_inf_upper = 0 /\ check_count = 0 /\ inf_base = 0 /\ phase = "none"
NoHybrid ==
  /\ coverage_local = <<>> /\ estimated_outer = <<>> /\ coverage_outer = <<>> /\ edgeMark = {}
  /\ inf_pair = <<>> /\ overall_influence_upper = -1 /\ overall_influence_upperDetails = <<>>
NoMining ==
  /\ inf_pois = {} /\ reachable_poi_table = <<>> /\ reachable_usrs = {} /\ idx_usr_table = <<>>
  /\ hyperG = <<>> /\ prevSize = 0 /\ uStart = <<>> /\ round = 0 /\ which = "R1"
  /\ pc = "none" /\ iteration = 0

SelectionsInit ==
  \/ /\ alg \in {"oneHop", "heuristic"} /\ NoProgress /\ NoHybrid /\ NoMining
     /\ hyperGT = <<>> /\ i = 0 /\ seeds = <<>>
     /\ H!Init
  \/ /\ alg = "progressive" /\ NoHybrid /\ NoMining /\ hyperGT = <<>>
     /\ ProgressInit
  \/ /\ alg = "hybrid" /\ NoProgress /\ NoMining /\ i = 0 /\ seeds = <<>>
     /\ br_usr_table \in HybridTables
     /\ \E v, w \in SUBSET {1, 2, 3} :
          hyperGT = [R1 |-> [r \in 0 .. 2 |-> RRSetOf(br_usr_table, <<v, w, {}>>[r+1])]]
     /\ Y!Init
  \/ /\ alg = "mining" /\ NoProgress
     /\ M!Init

Hop ==
  /\ UNCHANGED <<alg, progressOnly, hybridOnly, miningOnly, i, seeds>>
  /\ \/ alg \in {"oneHop", "heuristic"} /\ Called
     \/ alg = "oneHop" /\ O!Loop
     \/ alg = "heuristic" /\ H!Loop
Progressive == alg = "progressive" /\ UNCHANGED <<alg, hybridOnly, miningOnly>> /\ ProgressNext
Hybrid ==
  /\ alg = "hybrid" /\ UNCHANGED <<alg, hyperGT, progressOnly, miningOnly, i, seeds>>
  /\ (sel = "idle" /\ Y!Start) \/ Y!Loop
Mining == alg = "mining" /\ UNCHANGED <<alg, progressOnly>> /\ M!Next

SelectionsNext == Hop \/ Progressive \/ Hybrid \/ Mining

SelectionsSpec == SelectionsInit /\ [][SelectionsNext]_selectionVars /\ WF_selectionVars(SelectionsNext)
-----------------------------------------------------------------------------
\* The lazy choice on one hop: the gains kept are never too small, although
\* only POIs that share a user with the one chosen are looked at again; what
\* is chosen is as good as any other, and good enough against any three POIs,
\* its influence is not underestimated, and no POI is chosen twice where chosen
\* ones are skipped (infgraph.h:1911, 1925).  What the verification adds up is
\* the influence of those it has verified, and of those it has not.
HopSound ==
  /\ alg = "oneHop" => O!TypeOK /\ O!KeysBound /\ O!GreedyBound
  /\ alg = "heuristic" =>
       /\ H!TypeOK /\ H!SeedsDistinct /\ H!KeysBound
       /\ H!InfluenceExact /\ H!PicksGreatest /\ H!GreedyBound
  /\ alg = "progressive" => ProgressTypeOK

\* The hybrid selection: its gains stay the sum of both parts and above what a
\* POI would add, and its bound above what any K POIs have (infgraph.h:2335,
\* 2398); in the loop both collections are indexed in full when it runs, and no
\* influence is in both parts.
HybridSound ==
  /\ alg = "hybrid" => Y!TypeOK /\ Y!GainsSplit /\ Y!GainsBound /\ Y!BoundHolds
  /\ alg = "mining" => M!TypeOK /\ M!IndexesComplete /\ M!NothingCountedTwice

\* A selection comes to an end, be it by reading an empty queue; so does the
\* verification, and the mining loop.
SelectionsEnd ==
  <>(CASE alg = "progressive" -> phase = "end" \/ sel = "undefined"
       [] alg = "mining" -> pc \in {"done", "undefined"}
       [] OTHER -> sel \in {"done", "undefined"})
==============================================================================
