---------------------------- MODULE MC_Maximisers ----------------------------
(* The influence maximisers the RIS method is measured against, each as its *)
(* driver calls it: one of them runs, the variables only others have stand  *)
(* still.                                                                   *)
EXTENDS Integers, FiniteSets, TLC

VARIABLES alg, AM, chosen, curSeedSet, totalCov, sel,
          es, results, infs, samples, gain,           \* PMC
          covQueue, usersExamined,                    \* CELF
          customers, gainTable, pBest, stale,         \* CELFPlus
          S, best, T, Q, cov1, covPlus1               \* LinearThreshold

PMCOnly == <<es, results, infs, samples, gain>>
CELFOnly == <<covQueue, usersExamined>>
CELFPlusOnly == <<customers, gainTable, pBest, stale>>
ThresholdOnly == <<S, best, T, Q, cov1, covPlus1>>
vars == <<alg, AM, chosen, curSeedSet, totalCov, sel, PMCOnly, CELFOnly, CELFPlusOnly, ThresholdOnly>>
-----------------------------------------------------------------------------
(* PMC: five users in three networks, a hub whose ancestor also goes around  *)
(* it, a cycle with a tail, and two cycles joined by a link and a detour.    *)

Links(sure, coins) ==
  {<<l[1], l[2], TRUE>> : l \in sure} \cup {<<l[1], l[2], FALSE>> : l \in coins}
SampledNetworks ==
  {Links({<<0, 1>>, <<1, 2>>, <<4, 3>>}, {<<0, 3>>, <<1, 3>>, <<3, 2>>, <<4, 1>>, <<4, 0>>}),
   Links({<<0, 1>>, <<1, 2>>}, {<<2, 0>>, <<2, 3>>, <<3, 4>>, <<0, 4>>, <<4, 1>>}),
   Links({<<3, 4>>, <<4, 3>>}, {<<0, 1>>, <<1, 0>>, <<1, 3>>, <<0, 2>>, <<2, 4>>})}

\* Stores 10 to 12; then one that has the number of a user.
PMCResults ==
  {(10 :> {0}) @@ (11 :> {1, 3}) @@ (12 :> {2, 4}),
   (10 :> {1, 2}) @@ (3 :> {0, 4}) @@ (12 :> {1})}

P == INSTANCE PMC WITH n <- 5, R <- 2, k <- 3, Networks <- SampledNetworks, Results <- PMCResults
-----------------------------------------------------------------------------
(* CELF: five users, every subset of ten links, ties for the greatest        *)
(* influence included.                                                       *)

TenLinks == {<<0, 1>>, <<1, 0>>, <<1, 2>>, <<2, 3>>, <<3, 2>>, <<0, 4>>, <<4, 3>>, <<2, 4>>, <<3, 0>>, <<4, 1>>}
FiveUsers == {[u \in 0 .. 4 |-> {l[2] : l \in {m \in E : m[1] = u}}] : E \in SUBSET TenLinks}
C == INSTANCE CELF WITH User <- 0 .. 4, budget <- 3, Networks <- FiveUsers
-----------------------------------------------------------------------------
(* CELFPlus: five users with followers among seven others, alike enough     *)
(* that one foreseen as the best is overtaken, and for stores four users     *)
(* with followers among five others, the last with the first three of them.  *)
(* Stores have one or two of the four users and one of the others.           *)

Circles == {9 .. 11, {6, 7, 9, 10}, {8, 9, 11}, {5, 6, 8, 9}, {6, 7, 8, 10}}
Overtaken ==
  {[u \in 0 .. 11 |-> IF u > 4 THEN {} ELSE IF u = 4 THEN {5, 7, 9, 10} ELSE f[u]] :
     f \in [0 .. 3 -> Circles]}
OneFollower ==
  {[u \in 0 .. 8 |-> IF u > 3 THEN {} ELSE IF u = 3 THEN 4 .. 6 ELSE {f[u]}] :
     f \in [0 .. 2 -> 4 .. 8]}
StoreResults ==
  {(10 :> {0}) @@ (11 :> {1, 3}) @@ (12 :> {2, 4}) @@ (13 :> {3}) @@ (14 :> {8}) @@ (15 :> {2, 5}),
   (10 :> {1, 2}) @@ (11 :> {0, 4}) @@ (12 :> {}) @@ (13 :> {1}) @@ (14 :> {2}) @@ (15 :> {7}) @@
   (16 :> {0, 6})}

\* Seeds and start as config_test.txt has them.
U == INSTANCE CELFPlus WITH User <- 0 .. 11, budget <- 5, startIt <- 2,
                            Networks <- Overtaken, Results <- {}
W == INSTANCE CELFPlus WITH User <- 0 .. 8, budget <- 5, startIt <- 2,
                            Networks <- OneFollower, Results <- StoreResults
-----------------------------------------------------------------------------
(* LinearThreshold: four users; a link has weight 1, 2 or 3, those into a   *)
(* user three at most.  A cycle with a chord both ways, and a fan that is    *)
(* joined again.                                                            *)

Weights(w) ==
  [e \in (0 .. 3) \X (0 .. 3) |-> IF \E l \in w : l[1] = e[1] /\ l[2] = e[2]
                                  THEN (CHOOSE l \in w : l[1] = e[1] /\ l[2] = e[2])[3] ELSE 0]
WeightedNetworks ==
  {Weights({<<0, 1, 1>>, <<1, 2, 2>>, <<2, 3, 2>>, <<3, 0, 3>>, <<1, 3, 1>>, <<3, 1, 2>>, <<0, 2, 1>>}),
   Weights({<<0, 1, 1>>, <<0, 2, 2>>, <<1, 3, 2>>, <<2, 3, 1>>, <<3, 1, 2>>, <<2, 0, 3>>})}

L == INSTANCE LinearThreshold WITH User <- 0 .. 3, One <- 3, startIt <- 1, Networks <- WeightedNetworks
-----------------------------------------------------------------------------
NoPMC == es = {} /\ results = <<>> /\ infs = <<>> /\ samples = <<>> /\ gain = <<>>
NoCELF == covQueue = <<>> /\ usersExamined = {}
NoCELFPlus == customers = <<>> /\ gainTable = <<>> /\ pBest = 0 /\ stale = FALSE
NoThreshold == S = {} /\ best = 0 /\ T = <<>> /\ Q = <<>> /\ cov1 = 0 /\ covPlus1 = 0

Init ==
  \/ /\ alg \in {"runIM", "minPOIbyPMC"} /\ NoCELF /\ NoCELFPlus /\ NoThreshold
     /\ AM = <<>> /\ totalCov = 0
     /\ IF alg = "runIM" THEN P!InitUsers ELSE P!InitPOIs
  \/ /\ alg = "mineSeedSet" /\ NoPMC /\ NoCELFPlus /\ NoThreshold /\ chosen = <<>>
     /\ C!Init
  \/ /\ alg \in {"mineSeedSetPlus", "minePOI_CLEFPlus"} /\ NoPMC /\ NoCELF /\ NoThreshold
     /\ IF alg = "mineSeedSetPlus" THEN U!InitUsers ELSE W!InitPOIs
  \/ /\ alg = "LTCovPlus" /\ NoPMC /\ NoCELF /\ NoCELFPlus
     /\ chosen = <<>> /\ curSeedSet = {} /\ totalCov = 0
     /\ L!Init

RunPMC == UNCHANGED <<alg, AM, totalCov, CELFOnly, CELFPlusOnly, ThresholdOnly>>
RunCELF == UNCHANGED <<alg, chosen, PMCOnly, CELFPlusOnly, ThresholdOnly>>
RunCELFPlus == UNCHANGED <<alg, PMCOnly, CELFOnly, ThresholdOnly>>
RunThreshold == UNCHANGED <<alg, chosen, curSeedSet, totalCov, PMCOnly, CELFOnly, CELFPlusOnly>>

Sampled ==
  \/ alg = "runIM" /\ RunPMC /\ P!NextUsers
  \/ alg = "minPOIbyPMC" /\ RunPMC /\ P!NextPOIs
Simulated ==
  \/ alg = "mineSeedSet" /\ RunCELF /\ C!Next
  \/ alg = "mineSeedSetPlus" /\ RunCELFPlus /\ U!Next
  \/ alg = "minePOI_CLEFPlus" /\ RunCELFPlus /\ W!Next
  \/ alg = "LTCovPlus" /\ RunThreshold /\ L!Next

Spec == Init /\ [][Sampled \/ Simulated]_vars /\ WF_vars(Simulated)
-----------------------------------------------------------------------------
\* PMC works on the true components, influences and gains of its samples,
\* though it prunes at a hub and looks again only at what a seed has changed
\* (pmc.hpp:161, 397, 465); no store is chosen twice (pmc.cpp:261).
\* A linear threshold simulation counts exactly the users the thresholds let
\* be activated, with the best candidate and without it (MC.cc:1391, 1486).
EstimatesExact ==
  /\ alg \in {"runIM", "minPOIbyPMC"} => P!TypeOK /\ P!RemovedIsReached
  /\ alg = "runIM" => P!ComponentsExact /\ P!SigmaExact /\ P!GainIsMarginal
  /\ alg = "minPOIbyPMC" => P!POIsDistinct
  /\ alg = "LTCovPlus" => L!TypeOK /\ L!WeightsExact /\ L!CoverageExact

\* The tables of CELF and CELF++ hold gains of earlier rounds, but never one
\* that is too small (MC.cc:270), a gain kept for the next round is right in it
\* (MC.h:26), and the influence reported is that of the seeds (MC.cc:251, 522);
\* with CELF unless users tie for the first place, with CELF++ until a gain is
\* used that was foreseen before the last round.
TablesExact ==
  /\ alg = "mineSeedSet" => C!TypeOK /\ C!TotalCovExact /\ C!KeysBound
  /\ alg = "mineSeedSetPlus" => 
       U!TypeOK /\ U!TotalCovExact /\ U!NextGainIsMarginal /\ U!SeenGainExact /\ U!StaleIsLate
  /\ alg = "minePOI_CLEFPlus" => W!TypeOK

\* No maximiser chooses a user or store while another one would add more, CELF
\* and CELF++ with the same exceptions, the two on stores in their first
\* choices (pmc.cpp:78, MC.cc:270, 487); a seed stays one, except for the first
\* of those tied (MC.cc:296).
GreedyChoice ==
  [][/\ alg = "runIM" => P!ChoosesGreatest
     /\ alg = "minPOIbyPMC" => P!FirstPOIGreatest
     /\ alg = "mineSeedSet" => C!PicksGreatest /\ C!SeedsKept
     /\ alg = "mineSeedSetPlus" => U!PicksGreatest
     /\ alg = "minePOI_CLEFPlus" => W!FirstTwoGreatest]_vars

\* CELF, CELF++ and the simulation end, whatever they put back into a table or
\* queue (MC.cc:290, 392, 1349).
MaximisersEnd == <>(sel = "done" \/ alg \in {"runIM", "minPOIbyPMC"})
==============================================================================
