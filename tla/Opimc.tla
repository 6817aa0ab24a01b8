-------------------------------- MODULE Opimc --------------------------------
(***************************************************************************)
(* OPIMC::minePOIsOPIMC (OPIMC.h) and the RR set builders of InfGraph      *)
(* (infgraph.h) it drives: each round doubles two independent collections  *)
(* of RR sets, R1 and R2, selects K POIs on R1 (PoiSelection), counts what *)
(* they cover in R2, and stops when the ratio of the two bounds is good    *)
(* enough, or after NumIter rounds.                                        *)
(*                                                                         *)
(* The bounds are real-valued: that the ratio passes is left open, but it  *)
(* cannot when R2 has nothing covered (the lower bound is then 0).         *)
(***************************************************************************)
EXTENDS ConstraintGraph, Sequences, FiniteSetsExt

CONSTANTS K,         \* b, the number of POIs to select
          NumRBase,  \* numRbase, RR sets in the first round
          NumIter,   \* numIter, the number of rounds
          Results    \* the batch results the mining is called with

ASSUME OpimcAssumption ==
  /\ K \in Nat \ {0} /\ NumRBase \in Nat \ {0} /\ NumIter \in Nat \ {0}
  /\ \A r \in Results : /\ r \in [Pois -> SUBSET Nodes]
                        /\ \E p \in Pois : r[p] # {}

VARIABLES
  hyperGT_POI, hyperG_POI,        \* R1 and its inverted index
  hyperGT_POIVld, hyperG_POIVld,  \* R2 and its inverted index
  i,          \* loop variable of the builder that runs
  prevSize,   \* its first RR set id
  uStart,     \* collection -> RR set id -> the user its search started from
  heap, coverage, edgeMark, poiMark, poiSet, influence, influence_upper, sel,
  round, pc,
  seeds,      \* the POIs returned
  iteration   \* the rounds reported

R1Vars == <<hyperGT_POI, hyperG_POI>>
R2Vars == <<hyperGT_POIVld, hyperG_POIVld>>
builderVars == <<i, prevSize, uStart>>
loopVars == <<heap, coverage, edgeMark, poiMark, poiSet, influence, influence_upper>>
resultVars == <<seeds, iteration>>
vars == <<graphVars, R1Vars, R2Vars, builderVars, loopVars, sel, round, pc, resultVars>>

Sel == INSTANCE PoiSelection WITH Users <- Nodes

-----------------------------------------------------------------------------
(* The builders.  build_hyper_graph_r_poi and build_hyper_graph_vld_r_poi  *)
(* are the same code on R1 and R2.                                         *)

numR == NumRBase * 2^round

Size(gt) == Cardinality(DOMAIN gt)

BugFromScratch(gt, R) == [j \in 0 .. R |-> {}]
\* while (size() <= R) push_back: R+1 slots, of which the loop below fills
\* those from the old size to R-1.
Grown(gt, R) == [j \in 0 .. Max({R, Size(gt) - 1}) |->
                   IF j \in DOMAIN gt THEN gt[j] ELSE {}]

BugPushAll(visited) == inf_pois \X visited
\* What BuildHypergraphPOI pushes for the users visited.
Pushed(visited) ==
  {o \in inf_pois \X visited : o[1] \in reachable_poi_table[o[2]]}

BugIndexFromNext(g, gt, R) ==
  [p \in inf_pois |-> g[p] \cup
     {o \in (prevSize + 1 .. R-1) \X Nodes : <<p, o[2]>> \in gt[o[1]]}]
\* The second loop: RR sets prevSize .. R-1 are added to the index.
Inverted(g, gt, R) ==
  [p \in inf_pois |-> g[p] \cup
     {o \in (prevSize .. R-1) \X Nodes : <<p, o[2]>> \in gt[o[1]]}]

\* The user a sample starts from: the builder maps the random index to a
\* user, and BuildHypergraphPOI maps what it is given once more.
StartUser(random) == Lookup(idx_usr_table, idx_usr_table[random])

Draw(which, random) ==
  /\ idx_usr_table' = Touched(idx_usr_table, idx_usr_table[random])
  /\ uStart' = [uStart EXCEPT ![which] =
                  [j \in DOMAIN @ \cup {i} |-> IF j = i THEN StartUser(random) ELSE @[j]]]
  /\ i' = i + 1

Resize(gt) == prevSize' = Size(gt) /\ i' = Size(gt)

BugR1BuiltOnce ==
  /\ pc = "resizeR1"
  /\ IF round = 0
     THEN /\ pc' = "sampleR1" /\ Resize(hyperGT_POI)
          /\ hyperGT_POI' = Grown(hyperGT_POI, numR)
     ELSE pc' = "resizeR2" /\ UNCHANGED <<i, prevSize, hyperGT_POI>>
  /\ sel' = "idle"
  /\ UNCHANGED <<graphVars, hyperG_POI, R2Vars, uStart, loopVars, round, resultVars>>

ResizeR1 ==
  /\ pc = "resizeR1" /\ pc' = "sampleR1"
  /\ Resize(hyperGT_POI)
  /\ hyperGT_POI' = Grown(hyperGT_POI, numR)
  /\ sel' = "idle"
  /\ UNCHANGED <<graphVars, hyperG_POI, R2Vars, uStart, loopVars, round, resultVars>>

SampleR1 ==
  /\ pc = "sampleR1" /\ i < numR
  /\ \E random \in 0 .. Cardinality(reachable_usrs) - 1 :
       /\ Draw("R1", random)
       /\ \E visited \in VisitedFrom[StartUser(random)] :
            hyperGT_POI' = [hyperGT_POI EXCEPT ![i] = Pushed(visited)]
  /\ UNCHANGED <<inf_pois, reachable_poi_table, reachable_usrs, hyperG_POI, R2Vars,
                 prevSize, loopVars, sel, round, pc, resultVars>>

IndexR1 ==
  /\ pc = "sampleR1" /\ i >= numR /\ pc' = "resizeR2"
  /\ hyperG_POI' = Inverted(hyperG_POI, hyperGT_POI, numR)
  /\ UNCHANGED <<graphVars, hyperGT_POI, R2Vars, builderVars, loopVars, sel, round,
                 resultVars>>

ResizeR2 ==
  /\ pc = "resizeR2" /\ pc' = "sampleR2"
  /\ Resize(hyperGT_POIVld)
  /\ hyperGT_POIVld' = Grown(hyperGT_POIVld, numR)
  /\ UNCHANGED <<graphVars, R1Vars, hyperG_POIVld, uStart, loopVars, sel, round,
                 resultVars>>

SampleR2 ==
  /\ pc = "sampleR2" /\ i < numR
  /\ \E random \in 0 .. Cardinality(reachable_usrs) - 1 :
       /\ Draw("R2", random)
       /\ \E visited \in VisitedFrom[StartUser(random)] :
            hyperGT_POIVld' = [hyperGT_POIVld EXCEPT ![i] = Pushed(visited)]
  /\ UNCHANGED <<inf_pois, reachable_poi_table, reachable_usrs, R1Vars, hyperG_POIVld,
                 prevSize, loopVars, sel, round, pc, resultVars>>

IndexR2 ==
  /\ pc = "sampleR2" /\ i >= numR /\ pc' = "select"
  /\ hyperG_POIVld' = Inverted(hyperG_POIVld, hyperGT_POIVld, numR)
  /\ UNCHANGED <<graphVars, R1Vars, hyperGT_POIVld, builderVars, loopVars, sel, round,
                 resultVars>>

-----------------------------------------------------------------------------
(* The main loop.                                                          *)

Init ==
  /\ inf_pois = {} /\ reachable_usrs = {} /\ idx_usr_table = <<>>
  /\ reachable_poi_table = [u \in Nodes |-> {}]
  /\ hyperGT_POI = <<>> /\ hyperG_POI = <<>>
  /\ hyperGT_POIVld = <<>> /\ hyperG_POIVld = <<>>
  /\ i = 0 /\ prevSize = 0 /\ uStart = [R1 |-> <<>>, R2 |-> <<>>]
  /\ heap = <<>> /\ coverage = <<>> /\ edgeMark = {} /\ poiMark = {}
  /\ poiSet = <<>> /\ influence = 0 /\ influence_upper = -1 /\ sel = "idle"
  /\ round = 0 /\ pc = "check" /\ seeds = <<>> /\ iteration = 0

\* checkReachable, then minePOIsOPIMC up to its loop: both collections are
\* cleared and get one empty index entry for each candidate.
Start ==
  /\ pc = "check" /\ pc' = "resizeR1"
  /\ \E results \in Results :
       /\ checkReachable(results)
       /\ hyperG_POI' = [p \in inf_pois' |-> {}]
       /\ hyperG_POIVld' = [p \in inf_pois' |-> {}]
  /\ UNCHANGED <<hyperGT_POI, hyperGT_POIVld, builderVars, loopVars, sel, round, resultVars>>

outsideSelection == <<R2Vars, reachable_poi_table, reachable_usrs, idx_usr_table,
                      builderVars, round, resultVars>>

\* One step of do_poiSelection_UB on R1.
Select ==
  /\ pc = "select"
  /\ \/ sel = "idle" /\ Sel!Fill
     \/ Sel!LoopStep
  /\ pc' = IF sel' \in {"done", "crashed"}
           THEN [done |-> "validate", crashed |-> "crashed"][sel'] ELSE pc
  /\ UNCHANGED outsideSelection

\* check_RR_POI_Cover: the RR sets of R2 that hold a POI of S.  The vector
\* of marks has as many entries as R1 has RR sets.
VldCover(S) == {o[1] : o \in UNION {hyperG_POIVld[p] : p \in S}}

BugAnyRatio(cover) == TRUE
MayAccept(cover) == cover > 0

Accept ==
  /\ pc = "validate" /\ pc' = "done"
  /\ MayAccept(Cardinality(VldCover(Sel!TakenPois)))
  /\ seeds' = poiSet /\ iteration' = round
  /\ UNCHANGED <<graphVars, R1Vars, R2Vars, builderVars, loopVars, sel, round>>

BugOneRoundMore == round < NumIter
MoreRounds == round + 1 < NumIter

BugSameRound == round
RoundAfter == round + 1

NextRound ==
  /\ pc = "validate" /\ MoreRounds /\ pc' = "resizeR1"
  /\ round' = RoundAfter
  /\ UNCHANGED <<graphVars, R1Vars, R2Vars, builderVars, loopVars, sel, resultVars>>

\* The last round did not pass either: its POIs are returned all the same.
GiveUp ==
  /\ pc = "validate" /\ ~MoreRounds /\ pc' = "done"
  /\ seeds' = poiSet /\ iteration' = NumIter
  /\ UNCHANGED <<graphVars, R1Vars, R2Vars, builderVars, loopVars, sel, round>>

Next ==
  \/ Start
  \/ ResizeR1 \/ SampleR1 \/ IndexR1
  \/ ResizeR2 \/ SampleR2 \/ IndexR2
  \/ Select
  \/ Accept \/ NextRound \/ GiveUp

\* The algorithm is sequential and never waits.
Spec == Init /\ [][Next]_vars /\ WF_vars(Next)
-----------------------------------------------------------------------------
(* Properties *)

\* The collections between the builders' calls: both are complete.
Complete == pc \in {"select", "validate", "done", "crashed"}

TypeOK ==
  /\ pc \in {"check", "resizeR1", "sampleR1", "resizeR2", "sampleR2", "select",
             "validate", "done", "crashed"}
  /\ round \in 0 .. NumIter-1
  /\ idx_usr_table \in [DOMAIN idx_usr_table -> Nodes]
  /\ hyperGT_POI \in [DOMAIN hyperGT_POI -> SUBSET (inf_pois \X Nodes)]
  /\ hyperGT_POIVld \in [DOMAIN hyperGT_POIVld -> SUBSET (inf_pois \X Nodes)]
  /\ DOMAIN hyperG_POI = inf_pois /\ DOMAIN hyperG_POIVld = inf_pois

IsIndexOf(g, gt) ==
  \A p \in inf_pois : g[p] = {o \in (DOMAIN gt) \X Nodes : <<p, o[2]>> \in gt[o[1]]}

\* Indexing only the RR sets added by a round keeps both inverted indexes
\* complete, although every round leaves a slot the next one skips over
\* (infgraph.h:751-760 and 790-799).
IndexesComplete ==
  Complete => /\ IsIndexOf(hyperG_POI, hyperGT_POI)
              /\ IsIndexOf(hyperG_POIVld, hyperGT_POIVld)

\* The inverted index and the RR sets of each collection agree, over all rounds
\* that extend them.
SamplesIndexed == TypeOK /\ IndexesComplete

InfluencedBy == [u \in Nodes |-> Closure({u}, OutNeighbors)]

Sound(gt, start) ==
  /\ DOMAIN start \subseteq DOMAIN gt
  /\ \A k \in DOMAIN gt : \A o \in gt[k] :
       /\ k \in DOMAIN start
       /\ o[1] \in reachable_poi_table[o[2]]
       /\ start[k] \in InfluencedBy[o[2]]

\* An RR set holds a POI only through a potential user of it that can
\* influence the user the set was sampled for.
RRSetsSound == Sound(hyperGT_POI, uStart.R1) /\ Sound(hyperGT_POIVld, uStart.R2)

\* check_RR_POI_Cover sizes its marks by R1 and indexes them by R2's ids
\* (infgraph.h:1180-1186): no id is out of range.
ValidationInBounds ==
  pc = "validate" =>
    \A k \in VldCover(Sel!TakenPois) : k < Size(hyperGT_POI)

\* Rounds extend the collections: an RR set once sampled is never redrawn,
\* which the doubling schedule of OPIM-C relies on.
SamplesKept ==
  [][pc # "check" =>
       /\ \A k \in DOMAIN uStart.R1 :
            k \in DOMAIN hyperGT_POI' /\ hyperGT_POI'[k] = hyperGT_POI[k]
       /\ \A k \in DOMAIN uStart.R2 :
            k \in DOMAIN hyperGT_POIVld' /\ hyperGT_POIVld'[k] = hyperGT_POIVld[k]]_vars

\* What is returned is the last round's selection, K distinct candidates;
\* and it is returned before the last round only if some RR set of R2,
\* independent of the selection, holds one of them.
ResultJustified ==
  pc = "done" =>
    /\ Len(seeds) = K /\ seeds = poiSet
    /\ \A j, l \in 1..K : seeds[j] = seeds[l] => j = l
    /\ iteration < NumIter =>
         \E o \in UNION {hyperG_POIVld[p] : p \in {seeds[j] : j \in 1..K}} :
           o[1] \in DOMAIN uStart.R2

\* The steps of a round on R1 are a run of the selection module, its
\* contract on the RR sets included.
SelectionRefined == Sel!Spec

\* The mining ends: after NumIter rounds at the latest.
MiningEnds == <>(pc \in {"done", "crashed"})

\* infgraph.h:387, "determine the id of the u_idx-th reachable user": an RR
\* set is sampled for a user of the constrained graph.
StartsAtReachableUser ==
  \A which \in {"R1", "R2"} : \A k \in DOMAIN uStart[which] :
    uStart[which][k] \in reachable_usrs
=============================================================================
