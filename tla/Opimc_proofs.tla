----------------------------- MODULE Opimc_proofs -----------------------------
(***************************************************************************)
(* Proofs about Opimc, for every social network, every batch result and    *)
(* any number of rounds: both collections of RR sets stay indexed, samples *)
(* are kept and sound, and the result is justified.                        *)
(***************************************************************************)
EXTENDS Opimc, FiniteSetTheorems, TLAPS

-----------------------------------------------------------------------------
(* Numbers and vectors.                                                    *)

\* The ids below m are m in number.
LEMMA IntervalSize ==
  ASSUME NEW m \in Nat
  PROVE  IsFiniteSet(0 .. m-1) /\ Cardinality(0 .. m-1) = m
<1>1. 0 \in Int /\ m-1 \in Int
  OBVIOUS
<1>2. IsFiniteSet(0 .. m-1) /\ Cardinality(0 .. m-1) = IF 0 > m-1 THEN 0 ELSE m-1 - 0 + 1
  BY <1>1, FS_Interval, Zenon
<1> QED BY <1>2

\* A power of two is the number of subsets of a set.
LEMMA PowerOfTwo ==
  ASSUME NEW k \in Nat
  PROVE  2^k \in Nat
<1>1. IsFiniteSet(0 .. k-1) /\ Cardinality(0 .. k-1) = k
  BY IntervalSize
<1>2. /\ IsFiniteSet(SUBSET (0 .. k-1))
      /\ Cardinality(SUBSET (0 .. k-1)) = 2^Cardinality(0 .. k-1)
  BY <1>1, FS_SUBSET
<1>3. Cardinality(SUBSET (0 .. k-1)) \in Nat
  BY <1>2, FS_CardinalityType
<1> QED BY <1>1, <1>2, <1>3, Zenon

\* The number of RR sets of a round is natural.
LEMMA SizeOfRound ==
  ASSUME round \in Nat
  PROVE  numR \in Nat
<1>1. 2^round \in Nat /\ NumRBase \in Nat
  BY PowerOfTwo, OpimcAssumption
<1> DEFINE e == 2^round
<1> HIDE DEF e
<1>2. NumRBase * e \in Nat
  BY <1>1 DEF e
<1> QED BY <1>2 DEF numR, e

\* Max of two numbers is the greater one.
LEMMA GreaterOfTwo ==
  ASSUME NEW a \in Int, NEW b \in Int
  PROVE  Max({a, b}) = IF a >= b THEN a ELSE b
BY DEF Max

\* A vector of RR sets is filled from its start.
IsVector(gt) == \E m \in Nat : DOMAIN gt = 0 .. m-1

\* The slots of a vector are the numbers below its size.
LEMMA SizeOfVector ==
  ASSUME NEW gt, IsVector(gt)
  PROVE  Size(gt) \in Nat /\ DOMAIN gt = 0 .. Size(gt)-1
<1>1. PICK m \in Nat : DOMAIN gt = 0 .. m-1
  BY DEF IsVector
<1> QED BY <1>1, IntervalSize DEF Size

\* The first loop of a builder extends the vector by empty slots, up to one more
\* than the round will sample, and keeps those it has.
LEMMA GrownVector ==
  ASSUME NEW gt, IsVector(gt), NEW R \in Nat
  PROVE  /\ IsVector(Grown(gt, R))
         /\ DOMAIN gt \subseteq DOMAIN Grown(gt, R)
         /\ 0 .. R \subseteq DOMAIN Grown(gt, R)
         /\ \A k \in DOMAIN gt : Grown(gt, R)[k] = gt[k]
         /\ \A k \in DOMAIN Grown(gt, R) \ DOMAIN gt : Grown(gt, R)[k] = {}
         /\ Grown(gt, R) = [k \in DOMAIN Grown(gt, R) |-> Grown(gt, R)[k]]
<1> DEFINE top == Max({R, Size(gt) - 1})
<1>1. Size(gt) \in Nat /\ DOMAIN gt = 0 .. Size(gt)-1
  BY SizeOfVector
<1>2. top = IF R >= Size(gt) - 1 THEN R ELSE Size(gt) - 1
  <2>1. R \in Int /\ Size(gt) - 1 \in Int
    BY <1>1
  <2> HIDE DEF top
  <2> QED BY <2>1, GreaterOfTwo DEF top
<1>3. Grown(gt, R) = [j \in 0 .. top |-> IF j \in DOMAIN gt THEN gt[j] ELSE {}]
  BY DEF Grown
<1> HIDE DEF top
<1>4. top \in Nat /\ top >= R /\ top >= Size(gt) - 1
  BY <1>1, <1>2
<1>5. DOMAIN Grown(gt, R) = 0 .. (top + 1) - 1 /\ top + 1 \in Nat
  BY <1>3, <1>4
<1>6. IsVector(Grown(gt, R))
  BY <1>5 DEF IsVector
<1> QED BY <1>1, <1>3, <1>4, <1>6

-----------------------------------------------------------------------------
(* The constrained graph.                                                  *)

\* A finite set of users has, for each rank below its size, a user of that rank.
LEMMA RankTaken ==
  ASSUME NEW S \in SUBSET Nodes, NEW k \in 0 .. Cardinality(S)-1
  PROVE  \E u \in S : Cardinality({v \in S : v < u}) = k
<1> DEFINE Below(u) == {v \in S : v < u}
           rank == [u \in S |-> Cardinality(Below(u))]
           T == 0 .. Cardinality(S)-1
<1>1. IsFiniteSet(S)
  <2>1. IsFiniteSet(Nodes)
    BY GraphAssumption, IntervalSize DEF Nodes
  <2> QED BY <2>1, FS_Subset
<1>2. Cardinality(S) \in Nat
  BY <1>1, FS_CardinalityType
<1>3. \A u \in S : u \in Int
  BY GraphAssumption DEF Nodes
<1>4. ASSUME NEW u \in S
      PROVE  /\ IsFiniteSet(Below(u)) /\ Cardinality(Below(u)) \in Nat
             /\ Cardinality(Below(u)) < Cardinality(S)
  <2>1. Below(u) \in SUBSET S /\ Below(u) # S
    BY <1>3
  <2> HIDE DEF Below
  <2>2. IsFiniteSet(Below(u)) /\ Cardinality(Below(u)) <= Cardinality(S)
        /\ Cardinality(Below(u)) # Cardinality(S)
    BY <1>1, <2>1, FS_Subset
  <2> QED BY <1>2, <2>2, FS_CardinalityType
<1>5. ASSUME NEW u \in S, NEW w \in S, u < w
      PROVE  rank[u] < rank[w]
  <2>1. Below(u) \in SUBSET Below(w) /\ Below(u) # Below(w)
    BY <1>3, <1>5
  <2> HIDE DEF Below
  <2>2. Cardinality(Below(u)) <= Cardinality(Below(w))
        /\ Cardinality(Below(u)) # Cardinality(Below(w))
    BY <1>4, <2>1, FS_Subset
  <2> QED BY <1>4, <2>2
<1>6. rank \in [S -> T]
  BY <1>2, <1>4
<1>7. rank \in Injection(S, T)
  <2>1. \A u, w \in S : rank[u] = rank[w] => u = w
    <3> HIDE DEF rank
    <3> SUFFICES ASSUME NEW u \in S, NEW w \in S, rank[u] = rank[w] PROVE u = w
      OBVIOUS
    <3>1. rank[u] \in Int
      BY <1>2, <1>6
    <3>2. ~(u < w) /\ ~(w < u)
      BY <1>5, <3>1
    <3> QED BY <1>3, <3>2
  <2> HIDE DEF rank
  <2> QED BY <1>6, <2>1 DEF Injection, IsInjective
<1>8. IsFiniteSet(T) /\ Cardinality(T) = Cardinality(S)
  BY <1>2, IntervalSize
<1>9. rank \in Surjection(S, T)
  <2> HIDE DEF rank, T
  <2> QED BY <1>7, <1>8, FS_Injection
<1>10. PICK u \in S : rank[u] = k
  <2> HIDE DEF rank
  <2> QED BY <1>9 DEF Surjection
<1> QED BY <1>10

\* The table of checkReachable maps indexes to users.
LEMMA IndexOfUsers ==
  ASSUME NEW S \in SUBSET Nodes
  PROVE  IndexOf(S) \in [DOMAIN IndexOf(S) -> Nodes]
<1>1. ASSUME NEW k \in 0 .. Cardinality(S)-1
      PROVE  (CHOOSE u \in S : Cardinality({v \in S : v < u}) = k) \in Nodes
  BY RankTaken
<1> QED BY <1>1 DEF IndexOf

\* What a reverse search from s visits can influence s.
LEMMA VisitedInfluence ==
  ASSUME NEW s \in Nodes, NEW visited \in VisitedFrom[s], NEW v \in visited
  PROVE  v \in Nodes /\ s \in InfluencedBy[v]
<1>1. PICK live \in LiveEdges : visited = Closure({s}, live)
  BY DEF VisitedFrom
<1>2. /\ v \in Nodes
      /\ \A T \in SUBSET Nodes : {s} \subseteq T /\ (\A w \in T : live[w] \subseteq T) => v \in T
  BY <1>1 DEF Closure
<1>3. ASSUME NEW T \in SUBSET Nodes, {v} \subseteq T, \A w \in T : OutNeighbors[w] \subseteq T
      PROVE  s \in T
  <2> SUFFICES ASSUME s \notin T PROVE FALSE
    OBVIOUS
  <2>1. ASSUME NEW w \in Nodes \ T, NEW x \in live[w] PROVE x \in Nodes \ T
    <3>1. x \in InNeighbors[w] /\ x \in Nodes
      <4>1. \A u \in Nodes : live[u] \subseteq InNeighbors[u]
        BY <1>1 DEF LiveEdges
      <4> QED BY <2>1, <4>1, GraphAssumption
    <3>2. w \in OutNeighbors[x]
      BY <3>1 DEF OutNeighbors
    <3> QED BY <1>3, <2>1, <3>1, <3>2
  <2>2. v \in Nodes \ T
    BY <1>2, <2>1
  <2> QED BY <1>3, <2>2
<1>4. s \in Closure({v}, OutNeighbors)
  BY <1>3 DEF Closure
<1> QED BY <1>2, <1>4 DEF InfluencedBy

\* Looking a user up, once or twice, gives a user, and inserting what is absent
\* keeps the table one of users.
LEMMA StartsAtUser ==
  ASSUME idx_usr_table \in [DOMAIN idx_usr_table -> Nodes], NEW random
  PROVE  /\ StartUser(random) \in Nodes
         /\ Touched(idx_usr_table, idx_usr_table[random])
              \in [DOMAIN Touched(idx_usr_table, idx_usr_table[random]) -> Nodes]
<1>1. 0 \in Nodes
  BY GraphAssumption DEF Nodes
<1>2. \A k : Lookup(idx_usr_table, k) \in Nodes
  BY <1>1 DEF Lookup
<1> QED BY <1>2 DEF StartUser, Touched

-----------------------------------------------------------------------------
(* A collection: only slots that have been sampled hold something, so that *)
(* the slot each round leaves empty is missed in no index.                 *)

Collection(gt, start) ==
  /\ IsVector(gt)
  /\ gt \in [DOMAIN gt -> SUBSET (inf_pois \X Nodes)]
  /\ DOMAIN start \subseteq DOMAIN gt
  /\ \A k \in DOMAIN gt \ DOMAIN start : gt[k] = {}

Occurs(p, ids, gt) == {o \in ids \X Nodes : <<p, o[2]>> \in gt[o[1]]}

\* While a builder runs, the sets before prevSize are in the index and those
\* from i on are not sampled.
Building(gt, g, start) ==
  /\ prevSize \in Nat /\ i \in Nat /\ prevSize <= i
  /\ i <= numR \/ i = prevSize
  /\ 0 .. prevSize-1 \subseteq DOMAIN gt /\ 0 .. numR \subseteq DOMAIN gt
  /\ DOMAIN start \subseteq 0 .. i-1
  /\ \A p \in inf_pois : g[p] = Occurs(p, 0 .. prevSize-1, gt)

\* The first loop makes room and changes no RR set.
LEMMA ResizeBuilds ==
  ASSUME NEW gt, NEW g, NEW start, round \in Nat,
         Collection(gt, start), Sound(gt, start), IsIndexOf(g, gt)
  PROVE  /\ Collection(Grown(gt, numR), start) /\ Sound(Grown(gt, numR), start)
         /\ 0 .. Size(gt)-1 \subseteq DOMAIN Grown(gt, numR)
         /\ 0 .. numR \subseteq DOMAIN Grown(gt, numR)
         /\ DOMAIN start \subseteq 0 .. Size(gt)-1
         /\ Size(gt) \in Nat
         /\ \A p \in inf_pois : g[p] = Occurs(p, 0 .. Size(gt)-1, Grown(gt, numR))
<1> DEFINE h == Grown(gt, numR)
<1>1. numR \in Nat
  BY SizeOfRound
<1>2. Size(gt) \in Nat /\ DOMAIN gt = 0 .. Size(gt)-1
  BY SizeOfVector DEF Collection
<1>3. /\ IsVector(h) /\ DOMAIN gt \subseteq DOMAIN h /\ 0 .. numR \subseteq DOMAIN h
      /\ \A k \in DOMAIN gt : h[k] = gt[k]
      /\ \A k \in DOMAIN h \ DOMAIN gt : h[k] = {}
      /\ h = [k \in DOMAIN h |-> h[k]]
  BY <1>1, GrownVector DEF Collection
<1> HIDE DEF h
<1>4. Collection(h, start)
  BY <1>3 DEF Collection
<1>5. Sound(h, start)
  BY <1>3 DEF Sound
<1>6. \A p \in inf_pois : g[p] = Occurs(p, 0 .. Size(gt)-1, h)
  BY <1>2, <1>3 DEF IsIndexOf, Occurs
<1> QED BY <1>2, <1>3, <1>4, <1>5, <1>6 DEF h, Collection

\* A user is drawn and what a search from it visits is stored.
Sampled(gt, start, h, s) ==
  \E random \in Int : \E visited \in VisitedFrom[StartUser(random)] :
    /\ h = [gt EXCEPT ![i] = Pushed(visited)]
    /\ s = [j \in DOMAIN start \cup {i} |-> IF j = i THEN StartUser(random) ELSE start[j]]

\* A sample fills a slot that nothing was drawn for, soundly.
LEMMA SampleAdds ==
  ASSUME NEW gt, NEW g, NEW start, NEW h, NEW s,
         round \in Nat, i < numR, idx_usr_table \in [DOMAIN idx_usr_table -> Nodes],
         Collection(gt, start), Sound(gt, start), Building(gt, g, start),
         Sampled(gt, start, h, s)
  PROVE  /\ Collection(h, s) /\ Sound(h, s) /\ DOMAIN h = DOMAIN gt
         /\ i \notin DOMAIN start /\ DOMAIN s \subseteq 0 .. i
         /\ \A p \in inf_pois : g[p] = Occurs(p, 0 .. prevSize-1, h)
<1>1. numR \in Nat /\ i \in Nat /\ prevSize \in Nat /\ prevSize <= i
  BY SizeOfRound DEF Building
<1>2. i \in DOMAIN gt /\ i \notin DOMAIN start /\ DOMAIN start \subseteq 0 .. i-1
  BY <1>1 DEF Building
<1> PICK random \in Int : \E visited \in VisitedFrom[StartUser(random)] :
        /\ h = [gt EXCEPT ![i] = Pushed(visited)]
        /\ s = [j \in DOMAIN start \cup {i} |-> IF j = i THEN StartUser(random) ELSE start[j]]
  BY DEF Sampled
<1> PICK visited \in VisitedFrom[StartUser(random)] :
        /\ h = [gt EXCEPT ![i] = Pushed(visited)]
        /\ s = [j \in DOMAIN start \cup {i} |-> IF j = i THEN StartUser(random) ELSE start[j]]
  OBVIOUS
<1>3. /\ DOMAIN h = DOMAIN gt /\ h[i] = Pushed(visited)
      /\ \A k \in DOMAIN gt \ {i} : h[k] = gt[k]
      /\ h = [k \in DOMAIN h |-> h[k]]
  BY <1>2 DEF Collection
<1>4. /\ DOMAIN s = DOMAIN start \cup {i} /\ s[i] = StartUser(random)
      /\ \A k \in DOMAIN start : s[k] = start[k]
  BY <1>2
<1>5. StartUser(random) \in Nodes
  BY StartsAtUser
<1>6. \A v \in visited : v \in Nodes /\ StartUser(random) \in InfluencedBy[v]
  BY <1>5, VisitedInfluence
<1>7. Pushed(visited) \subseteq inf_pois \X Nodes
  BY <1>6 DEF Pushed
<1>8. Collection(h, s)
  BY <1>2, <1>3, <1>4, <1>7 DEF Collection, IsVector
<1>9. Sound(h, s)
  <2>1. ASSUME NEW k \in DOMAIN h, NEW o \in h[k]
        PROVE  k \in DOMAIN s /\ o[1] \in reachable_poi_table[o[2]] /\ s[k] \in InfluencedBy[o[2]]
    <3>1. CASE k = i
      BY <2>1, <3>1, <1>3, <1>4, <1>6 DEF Pushed
    <3>2. CASE k # i
      BY <2>1, <3>2, <1>3, <1>4 DEF Sound
    <3> QED BY <3>1, <3>2
  <2>2. DOMAIN s \subseteq DOMAIN h
    BY <1>2, <1>3, <1>4 DEF Collection
  <2> QED BY <2>1, <2>2 DEF Sound
<1>10. DOMAIN s \subseteq 0 .. i
  BY <1>1, <1>2, <1>4
<1>11. \A p \in inf_pois : g[p] = Occurs(p, 0 .. prevSize-1, h)
  <2>1. \A k \in 0 .. prevSize-1 : h[k] = gt[k]
    BY <1>1, <1>3 DEF Building
  <2> QED BY <2>1 DEF Building, Occurs
<1> QED BY <1>2, <1>3, <1>8, <1>9, <1>10, <1>11

\* The second loop adds the RR sets of the round; what lies beyond is empty.
LEMMA IndexCompletes ==
  ASSUME NEW gt, NEW g, NEW start, round \in Nat, i >= numR,
         Collection(gt, start), Building(gt, g, start)
  PROVE  IsIndexOf(Inverted(g, gt, numR), gt)
<1>1. numR \in Nat /\ i \in Nat /\ prevSize \in Nat /\ prevSize <= i
  BY SizeOfRound DEF Building
<1>2. ASSUME NEW k \in DOMAIN gt
      PROVE  k \in 0 .. prevSize-1 \/ k \in prevSize .. numR-1 \/ gt[k] = {}
  <2>1. k \in Nat
    BY DEF Collection, IsVector
  <2>2. CASE k \in DOMAIN start
    BY <1>1, <2>1, <2>2 DEF Building
  <2>3. CASE k \notin DOMAIN start
    BY <2>3 DEF Collection
  <2> QED BY <2>2, <2>3
<1>3. 0 .. prevSize-1 \subseteq DOMAIN gt /\ prevSize .. numR-1 \subseteq DOMAIN gt
  BY <1>1 DEF Building
<1>4. ASSUME NEW p \in inf_pois
      PROVE  Inverted(g, gt, numR)[p] = Occurs(p, DOMAIN gt, gt)
  <2>1. Inverted(g, gt, numR)[p] =
          Occurs(p, 0 .. prevSize-1, gt) \cup Occurs(p, prevSize .. numR-1, gt)
    BY DEF Inverted, Occurs, Building
  <2> QED BY <1>2, <1>3, <2>1 DEF Occurs
<1> QED BY <1>4 DEF IsIndexOf, Occurs

-----------------------------------------------------------------------------
(* The inductive invariant.                                                *)

CollectionsOK == Collection(hyperGT_POI, uStart.R1) /\ Collection(hyperGT_POIVld, uStart.R2)

\* An index is complete except while its builder is sampling.
Indexed ==
  /\ IF pc = "sampleR1" THEN Building(hyperGT_POI, hyperG_POI, uStart.R1)
     ELSE IsIndexOf(hyperG_POI, hyperGT_POI)
  /\ IF pc = "sampleR2" THEN Building(hyperGT_POIVld, hyperG_POIVld, uStart.R2)
     ELSE IsIndexOf(hyperG_POIVld, hyperGT_POIVld)

\* R2 is R1's size, but for the time between the two resizes of a round.
SameSizes ==
  DOMAIN hyperGT_POI = IF pc \in {"sampleR1", "resizeR2"}
                       THEN DOMAIN Grown(hyperGT_POIVld, numR)
                       ELSE DOMAIN hyperGT_POIVld

\* Before the candidates are known there are no RR sets.
NothingYet ==
  pc = "check" => DOMAIN hyperGT_POI = {} /\ DOMAIN hyperGT_POIVld = {}

\* Where the selection is when the loop around it is there.
Control ==
  /\ pc = "check" => sel = "idle"
  /\ pc = "resizeR1" => sel \in {"idle", "done"}
  /\ pc \in {"sampleR1", "resizeR2", "sampleR2"} => sel = "idle"
  /\ pc = "select" => sel \in {"idle", "greedy"}
  /\ pc \in {"validate", "done"} => sel = "done"
  /\ pc = "crashed" => sel = "crashed"

\* The selection takes distinct candidates, off a queue of those not taken.
Chosen ==
  sel # "idle" =>
    /\ poiSet \in Seq(inf_pois) /\ Len(poiSet) <= K
    /\ \A j, l \in DOMAIN poiSet : poiSet[j] = poiSet[l] => j = l
    /\ poiMark = inf_pois \ Sel!TakenPois
    /\ DOMAIN heap = poiMark
    /\ sel = "done" => Len(poiSet) = K

IInv ==
  /\ TypeOK /\ DOMAIN uStart = {"R1", "R2"} /\ inf_pois \subseteq Pois
  /\ CollectionsOK /\ Indexed /\ SameSizes /\ NothingYet
  /\ RRSetsSound
  /\ Control /\ Chosen
  /\ ResultJustified

\* It holds at the start.
LEMMA InitEstablishes == Init => IInv
<1> SUFFICES ASSUME Init PROVE IInv
  OBVIOUS
<1> USE DEF Init
<1>1. DOMAIN <<>> = 0 .. 0-1
  OBVIOUS
<1>2. IsVector(hyperGT_POI) /\ IsVector(hyperGT_POIVld)
  BY <1>1 DEF IsVector
<1>3. DOMAIN hyperGT_POI = {} /\ DOMAIN hyperGT_POIVld = {} /\ inf_pois = {}
      /\ DOMAIN hyperG_POI = {} /\ DOMAIN hyperG_POIVld = {} /\ DOMAIN idx_usr_table = {}
      /\ DOMAIN uStart.R1 = {} /\ DOMAIN uStart.R2 = {} /\ DOMAIN uStart = {"R1", "R2"}
  OBVIOUS
<1>4. \A S : <<>> \in [{} -> S]
  OBVIOUS
<1>5. TypeOK
  BY <1>3, <1>4, OpimcAssumption DEF TypeOK
<1>6. CollectionsOK
  BY <1>2, <1>3, <1>4 DEF CollectionsOK, Collection
<1>7. Indexed /\ SameSizes /\ NothingYet /\ RRSetsSound
  BY <1>3 DEF Indexed, IsIndexOf, SameSizes, NothingYet, RRSetsSound, Sound
<1> QED BY <1>3, <1>5, <1>6, <1>7 DEF IInv, Control, Chosen, ResultJustified

\* Round numbers are natural.
LEMMA RoundNatural == IInv => round \in Nat
BY OpimcAssumption DEF IInv, TypeOK

\* checkReachable and the clearing of the collections establish it for the
\* candidates found.
LEMMA StartKeeps == IInv /\ Start => IInv'
<1> SUFFICES ASSUME IInv, Start PROVE IInv'
  OBVIOUS
<1> USE DEF Start, R1Vars, R2Vars, builderVars, loopVars, resultVars
<1>1. PICK results \in Results : /\ checkReachable(results)
                                 /\ hyperG_POI' = [p \in inf_pois' |-> {}]
                                 /\ hyperG_POIVld' = [p \in inf_pois' |-> {}]
  OBVIOUS
<1>2. results \in [Pois -> SUBSET Nodes]
  BY OpimcAssumption
<1>3. inf_pois' \subseteq Pois
  BY <1>1 DEF checkReachable
<1>4. reachable_usrs' \subseteq Nodes /\ idx_usr_table' = IndexOf(reachable_usrs')
  BY <1>1 DEF checkReachable, Closure
<1>5. idx_usr_table' \in [DOMAIN idx_usr_table' -> Nodes]
  BY <1>4, IndexOfUsers
<1>6. /\ DOMAIN hyperGT_POI = {} /\ DOMAIN hyperGT_POIVld = {}
      /\ hyperGT_POI' = hyperGT_POI /\ hyperGT_POIVld' = hyperGT_POIVld /\ uStart' = uStart
  BY DEF IInv, NothingYet
<1>7. \A S : hyperGT_POI \in [DOMAIN hyperGT_POI -> S] /\ hyperGT_POIVld \in [DOMAIN hyperGT_POIVld -> S]
  <2>1. /\ hyperGT_POI = [k \in DOMAIN hyperGT_POI |-> hyperGT_POI[k]]
        /\ hyperGT_POIVld = [k \in DOMAIN hyperGT_POIVld |-> hyperGT_POIVld[k]]
    BY DEF IInv, TypeOK
  <2> QED BY <1>6, <2>1
<1>8. TypeOK'
  BY <1>1, <1>5, <1>6, <1>7 DEF IInv, TypeOK
<1>9. CollectionsOK'
  BY <1>6, <1>7 DEF IInv, CollectionsOK, Collection, IsVector
<1>10. Indexed'
  BY <1>1, <1>6 DEF Indexed, IsIndexOf
<1>11. SameSizes' /\ NothingYet' /\ RRSetsSound'
  BY <1>6 DEF IInv, CollectionsOK, Collection, SameSizes, NothingYet, RRSetsSound, Sound
<1>12. Control' /\ Chosen' /\ ResultJustified'
  BY DEF IInv, Control, Chosen, ResultJustified
<1> QED BY <1>3, <1>8, <1>9, <1>10, <1>11, <1>12 DEF IInv

-----------------------------------------------------------------------------
(* The builders keep it.                                                   *)

\* Room for a round's sets in R1 disturbs nothing: the builder begins.
LEMMA ResizeR1Keeps == IInv /\ ResizeR1 => IInv'
<1> SUFFICES ASSUME IInv, ResizeR1 PROVE IInv'
  OBVIOUS
<1> USE DEF ResizeR1, Resize, graphVars, R2Vars, loopVars, resultVars
<1>1. round \in Nat /\ round' = round /\ numR' = numR
  BY RoundNatural DEF numR
<1>2. /\ Collection(hyperGT_POI, uStart.R1) /\ Sound(hyperGT_POI, uStart.R1)
      /\ IsIndexOf(hyperG_POI, hyperGT_POI)
  BY DEF IInv, CollectionsOK, RRSetsSound, Indexed
<1>3. /\ Collection(hyperGT_POI', uStart.R1) /\ Sound(hyperGT_POI', uStart.R1)
      /\ 0 .. prevSize'-1 \subseteq DOMAIN hyperGT_POI'
      /\ 0 .. numR \subseteq DOMAIN hyperGT_POI'
      /\ DOMAIN uStart.R1 \subseteq 0 .. i'-1
      /\ prevSize' \in Nat /\ i' = prevSize'
      /\ \A p \in inf_pois : hyperG_POI[p] = Occurs(p, 0 .. prevSize'-1, hyperGT_POI')
  BY <1>1, <1>2, ResizeBuilds
<1>4. CollectionsOK' /\ RRSetsSound'
  BY <1>3 DEF IInv, CollectionsOK, Collection, RRSetsSound, Sound
<1>5. TypeOK'
  BY <1>3 DEF IInv, TypeOK, Collection
<1>6. Indexed'
  <2>1. Building(hyperGT_POI, hyperG_POI, uStart.R1)'
    BY <1>1, <1>3 DEF Building, Occurs
  <2>2. IsIndexOf(hyperG_POIVld, hyperGT_POIVld)'
    BY DEF IInv, Indexed, IsIndexOf
  <2> QED BY <2>1, <2>2 DEF Indexed
<1>7. SameSizes'
  <2>1. DOMAIN hyperGT_POI = DOMAIN hyperGT_POIVld
    BY DEF IInv, SameSizes
  <2>2. DOMAIN Grown(hyperGT_POI, numR) = DOMAIN Grown(hyperGT_POIVld, numR)
    BY <2>1 DEF Grown, Size
  <2> QED BY <1>1, <2>2 DEF SameSizes, Grown, Size
<1>8. NothingYet' /\ Control' /\ Chosen' /\ ResultJustified'
  BY DEF NothingYet, Control, Chosen, ResultJustified
<1> QED BY <1>4, <1>5, <1>6, <1>7, <1>8 DEF IInv

\* The same of R2, whose size becomes that of R1.
LEMMA ResizeR2Keeps == IInv /\ ResizeR2 => IInv'
<1> SUFFICES ASSUME IInv, ResizeR2 PROVE IInv'
  OBVIOUS
<1> USE DEF ResizeR2, Resize, graphVars, R1Vars, loopVars, resultVars
<1>1. round \in Nat /\ round' = round /\ numR' = numR
  BY RoundNatural DEF numR
<1>2. /\ Collection(hyperGT_POIVld, uStart.R2) /\ Sound(hyperGT_POIVld, uStart.R2)
      /\ IsIndexOf(hyperG_POIVld, hyperGT_POIVld)
  BY DEF IInv, CollectionsOK, RRSetsSound, Indexed
<1>3. /\ Collection(hyperGT_POIVld', uStart.R2) /\ Sound(hyperGT_POIVld', uStart.R2)
      /\ 0 .. prevSize'-1 \subseteq DOMAIN hyperGT_POIVld'
      /\ 0 .. numR \subseteq DOMAIN hyperGT_POIVld'
      /\ DOMAIN uStart.R2 \subseteq 0 .. i'-1
      /\ prevSize' \in Nat /\ i' = prevSize'
      /\ \A p \in inf_pois : hyperG_POIVld[p] = Occurs(p, 0 .. prevSize'-1, hyperGT_POIVld')
  BY <1>1, <1>2, ResizeBuilds
<1>4. CollectionsOK' /\ RRSetsSound'
  BY <1>3 DEF IInv, CollectionsOK, Collection, RRSetsSound, Sound
<1>5. TypeOK'
  BY <1>3 DEF IInv, TypeOK, Collection
<1>6. Indexed'
  <2>1. Building(hyperGT_POIVld, hyperG_POIVld, uStart.R2)'
    BY <1>1, <1>3 DEF Building, Occurs
  <2>2. IsIndexOf(hyperG_POI, hyperGT_POI)'
    BY DEF IInv, Indexed, IsIndexOf
  <2> QED BY <2>1, <2>2 DEF Indexed
<1>7. SameSizes'
  BY DEF IInv, SameSizes
<1>8. NothingYet' /\ Control' /\ Chosen' /\ ResultJustified'
  BY DEF IInv, NothingYet, Control, Chosen, ResultJustified
<1> QED BY <1>4, <1>5, <1>6, <1>7, <1>8 DEF IInv

\* A sample of R1 keeps it, and goes into a slot that nothing was drawn for.
LEMMA SampleR1Keeps == IInv /\ SampleR1 => IInv' /\ i \notin DOMAIN uStart.R1
<1> SUFFICES ASSUME IInv, SampleR1 PROVE IInv' /\ i \notin DOMAIN uStart.R1
  OBVIOUS
<1> USE DEF SampleR1, Draw, R2Vars, loopVars, resultVars
<1>1. round \in Nat /\ round' = round /\ numR' = numR /\ numR \in Nat /\ i < numR
  BY RoundNatural, SizeOfRound DEF numR
<1>2. /\ Collection(hyperGT_POI, uStart.R1) /\ Sound(hyperGT_POI, uStart.R1)
      /\ Building(hyperGT_POI, hyperG_POI, uStart.R1)
      /\ idx_usr_table \in [DOMAIN idx_usr_table -> Nodes]
      /\ DOMAIN uStart = {"R1", "R2"}
  BY DEF IInv, TypeOK, CollectionsOK, RRSetsSound, Indexed
<1>3. PICK random \in 0 .. Cardinality(reachable_usrs) - 1 :
        /\ Draw("R1", random)
        /\ \E visited \in VisitedFrom[StartUser(random)] :
             hyperGT_POI' = [hyperGT_POI EXCEPT ![i] = Pushed(visited)]
  OBVIOUS
<1>4. PICK visited \in VisitedFrom[StartUser(random)] :
        hyperGT_POI' = [hyperGT_POI EXCEPT ![i] = Pushed(visited)]
  BY <1>3
<1>5. /\ uStart'.R1 = [j \in DOMAIN uStart.R1 \cup {i} |->
                         IF j = i THEN StartUser(random) ELSE uStart.R1[j]]
      /\ uStart'.R2 = uStart.R2 /\ DOMAIN uStart' = {"R1", "R2"}
  BY <1>2, <1>3
<1>6. /\ Collection(hyperGT_POI', uStart'.R1) /\ Sound(hyperGT_POI', uStart'.R1)
      /\ DOMAIN hyperGT_POI' = DOMAIN hyperGT_POI
      /\ i \notin DOMAIN uStart.R1 /\ DOMAIN uStart'.R1 \subseteq 0 .. i
      /\ \A p \in inf_pois : hyperG_POI[p] = Occurs(p, 0 .. prevSize-1, hyperGT_POI')
  <2>1. Sampled(hyperGT_POI, uStart.R1, hyperGT_POI', uStart'.R1)
    <3>1. random \in Int
      OBVIOUS
    <3> QED BY <1>4, <1>5, <3>1, Zenon DEF Sampled
  <2> HIDE DEF SampleR1, Draw
  <2> QED BY <1>1, <1>2, <2>1, SampleAdds
<1>7. idx_usr_table' \in [DOMAIN idx_usr_table' -> Nodes]
  BY <1>2, <1>3, StartsAtUser
<1>8. CollectionsOK' /\ RRSetsSound'
  BY <1>5, <1>6 DEF IInv, CollectionsOK, Collection, RRSetsSound, Sound
<1>9. TypeOK'
  BY <1>6, <1>7 DEF IInv, TypeOK, Collection
<1>10. Indexed'
  <2>1. Building(hyperGT_POI, hyperG_POI, uStart.R1)'
    BY <1>1, <1>2, <1>3, <1>6 DEF Building, Occurs
  <2>2. IsIndexOf(hyperG_POIVld, hyperGT_POIVld)'
    BY DEF IInv, Indexed, IsIndexOf
  <2> QED BY <2>1, <2>2 DEF Indexed
<1>11. SameSizes' /\ NothingYet'
  BY <1>1, <1>6 DEF IInv, SameSizes, NothingYet, Grown, Size
<1>12. Control' /\ Chosen' /\ ResultJustified'
  BY DEF IInv, Control, Chosen, ResultJustified
<1> QED BY <1>5, <1>6, <1>8, <1>9, <1>10, <1>11, <1>12 DEF IInv

\* The same of R2.
LEMMA SampleR2Keeps == IInv /\ SampleR2 => IInv' /\ i \notin DOMAIN uStart.R2
<1> SUFFICES ASSUME IInv, SampleR2 PROVE IInv' /\ i \notin DOMAIN uStart.R2
  OBVIOUS
<1> USE DEF SampleR2, Draw, R1Vars, loopVars, resultVars
<1>1. round \in Nat /\ round' = round /\ numR' = numR /\ numR \in Nat /\ i < numR
  BY RoundNatural, SizeOfRound DEF numR
<1>2. /\ Collection(hyperGT_POIVld, uStart.R2) /\ Sound(hyperGT_POIVld, uStart.R2)
      /\ Building(hyperGT_POIVld, hyperG_POIVld, uStart.R2)
      /\ idx_usr_table \in [DOMAIN idx_usr_table -> Nodes]
      /\ DOMAIN uStart = {"R1", "R2"}
  BY DEF IInv, TypeOK, CollectionsOK, RRSetsSound, Indexed
<1>3. PICK random \in 0 .. Cardinality(reachable_usrs) - 1 :
        /\ Draw("R2", random)
        /\ \E visited \in VisitedFrom[StartUser(random)] :
             hyperGT_POIVld' = [hyperGT_POIVld EXCEPT ![i] = Pushed(visited)]
  OBVIOUS
<1>4. PICK visited \in VisitedFrom[StartUser(random)] :
        hyperGT_POIVld' = [hyperGT_POIVld EXCEPT ![i] = Pushed(visited)]
  BY <1>3
<1>5. /\ uStart'.R2 = [j \in DOMAIN uStart.R2 \cup {i} |->
                         IF j = i THEN StartUser(random) ELSE uStart.R2[j]]
      /\ uStart'.R1 = uStart.R1 /\ DOMAIN uStart' = {"R1", "R2"}
  BY <1>2, <1>3
<1>6. /\ Collection(hyperGT_POIVld', uStart'.R2) /\ Sound(hyperGT_POIVld', uStart'.R2)
      /\ DOMAIN hyperGT_POIVld' = DOMAIN hyperGT_POIVld
      /\ i \notin DOMAIN uStart.R2 /\ DOMAIN uStart'.R2 \subseteq 0 .. i
      /\ \A p \in inf_pois : hyperG_POIVld[p] = Occurs(p, 0 .. prevSize-1, hyperGT_POIVld')
  <2>1. Sampled(hyperGT_POIVld, uStart.R2, hyperGT_POIVld', uStart'.R2)
    <3>1. random \in Int
      OBVIOUS
    <3> QED BY <1>4, <1>5, <3>1, Zenon DEF Sampled
  <2> HIDE DEF SampleR2, Draw
  <2> QED BY <1>1, <1>2, <2>1, SampleAdds
<1>7. idx_usr_table' \in [DOMAIN idx_usr_table' -> Nodes]
  BY <1>2, <1>3, StartsAtUser
<1>8. CollectionsOK' /\ RRSetsSound'
  BY <1>5, <1>6 DEF IInv, CollectionsOK, Collection, RRSetsSound, Sound
<1>9. TypeOK'
  BY <1>6, <1>7 DEF IInv, TypeOK, Collection
<1>10. Indexed'
  <2>1. Building(hyperGT_POIVld, hyperG_POIVld, uStart.R2)'
    BY <1>1, <1>2, <1>3, <1>6 DEF Building, Occurs
  <2>2. IsIndexOf(hyperG_POI, hyperGT_POI)'
    BY DEF IInv, Indexed, IsIndexOf
  <2> QED BY <2>1, <2>2 DEF Indexed
<1>11. SameSizes' /\ NothingYet'
  BY <1>1, <1>6 DEF IInv, SameSizes, NothingYet
<1>12. Control' /\ Chosen' /\ ResultJustified'
  BY DEF IInv, Control, Chosen, ResultJustified
<1> QED BY <1>5, <1>6, <1>8, <1>9, <1>10, <1>11, <1>12 DEF IInv

\* Adding the sets of the round completes the index the builder was behind on.
LEMMA IndexKeeps == IInv /\ (IndexR1 \/ IndexR2) => IInv'
<1> SUFFICES ASSUME IInv, IndexR1 \/ IndexR2 PROVE IInv'
  OBVIOUS
<1> USE DEF IndexR1, IndexR2, R1Vars, R2Vars, builderVars, graphVars, loopVars, resultVars
<1>1. round \in Nat /\ round' = round /\ numR' = numR
  BY RoundNatural DEF numR
<1>2. CollectionsOK /\ CollectionsOK'
  BY DEF IInv, CollectionsOK, Collection, IsVector
<1>3. TypeOK'
  BY DEF IInv, TypeOK, Inverted
<1>4. Indexed'
  <2>1. CASE IndexR1
    <3>1. IsIndexOf(Inverted(hyperG_POI, hyperGT_POI, numR), hyperGT_POI)
      BY <1>1, <1>2, <2>1, IndexCompletes DEF IInv, Indexed, CollectionsOK
    <3> QED BY <2>1, <3>1 DEF IInv, Indexed, IsIndexOf
  <2>2. CASE IndexR2
    <3>1. IsIndexOf(Inverted(hyperG_POIVld, hyperGT_POIVld, numR), hyperGT_POIVld)
      BY <1>1, <1>2, <2>2, IndexCompletes DEF IInv, Indexed, CollectionsOK
    <3> QED BY <2>2, <3>1 DEF IInv, Indexed, IsIndexOf
  <2> QED BY <2>1, <2>2
<1>5. SameSizes' /\ NothingYet' /\ RRSetsSound'
  BY <1>1 DEF IInv, SameSizes, NothingYet, RRSetsSound, Sound, Grown, Size
<1>6. Control' /\ Chosen' /\ ResultJustified'
  BY DEF IInv, Control, Chosen, ResultJustified
<1> QED BY <1>2, <1>3, <1>4, <1>5, <1>6 DEF IInv

-----------------------------------------------------------------------------
(* The selection and the end of a round keep it.                           *)

\* Nothing but the selection's own variables changes.
LEMMA SelectOnly ==
  ASSUME IInv, pc = "select", pc' \in {"select", "validate", "crashed"},
         UNCHANGED <<outsideSelection, inf_pois, R1Vars>>
  PROVE  /\ TypeOK' /\ DOMAIN uStart' = {"R1", "R2"} /\ inf_pois' \subseteq Pois
         /\ CollectionsOK' /\ Indexed' /\ SameSizes' /\ NothingYet' /\ RRSetsSound'
         /\ ResultJustified'
<1> USE DEF outsideSelection, R1Vars, R2Vars, builderVars, resultVars
<1>1. TypeOK' /\ DOMAIN uStart' = {"R1", "R2"} /\ inf_pois' \subseteq Pois
  BY DEF IInv, TypeOK
<1>2. CollectionsOK' /\ RRSetsSound'
  BY DEF IInv, CollectionsOK, Collection, IsVector, RRSetsSound, Sound
<1>3. Indexed' /\ SameSizes'
  BY DEF IInv, Indexed, IsIndexOf, SameSizes
<1>4. NothingYet'
  BY DEF IInv, NothingYet
<1>5. ResultJustified'
  BY DEF IInv, ResultJustified
<1> QED BY <1>1, <1>2, <1>3, <1>4, <1>5

\* One more POI is taken off the top of the queue.
LEMMA TakeKeepsChosen ==
  ASSUME IInv, NEW p \in inf_pois, Sel!Take(p), sel' \in {"greedy", "crashed"}
  PROVE  Chosen'
<1> USE DEF Sel!Take, Sel!InLoop, Sel!storeVars
<1>1. /\ poiSet \in Seq(inf_pois) /\ Len(poiSet) < K /\ K \in Nat
      /\ \A j, l \in DOMAIN poiSet : poiSet[j] = poiSet[l] => j = l
      /\ poiMark = inf_pois \ Sel!TakenPois
      /\ DOMAIN heap = poiMark
  BY OpimcAssumption DEF IInv, Chosen
<1>2. p \in poiMark /\ p \notin Sel!TakenPois
  BY <1>1 DEF Sel!IsTop
<1>3. /\ poiSet' = Append(poiSet, p) /\ poiSet' \in Seq(inf_pois)
      /\ DOMAIN poiSet' = 1 .. Len(poiSet) + 1 /\ DOMAIN poiSet = 1 .. Len(poiSet)
      /\ Len(poiSet') = Len(poiSet) + 1 /\ Len(poiSet) \in Nat
      /\ poiSet'[Len(poiSet) + 1] = p
      /\ \A j \in 1 .. Len(poiSet) : poiSet'[j] = poiSet[j] /\ poiSet[j] \in Sel!TakenPois
  BY <1>1 DEF Sel!TakenPois
<1>4. Sel!TakenPois' = Sel!TakenPois \cup {p}
  <2>1. \A q \in Sel!TakenPois' : q \in Sel!TakenPois \cup {p}
    BY <1>3 DEF Sel!TakenPois
  <2>2. \A q \in Sel!TakenPois \cup {p} : q \in Sel!TakenPois'
    BY <1>3 DEF Sel!TakenPois
  <2> QED BY <2>1, <2>2
<1>5. \A j, l \in DOMAIN poiSet' : poiSet'[j] = poiSet'[l] => j = l
  BY <1>1, <1>2, <1>3
<1>6. poiMark' = inf_pois \ Sel!TakenPois' /\ DOMAIN heap' = poiMark'
  BY <1>1, <1>4 DEF Sel!Popped
<1>7. poiSet' \in Seq(inf_pois') /\ Len(poiSet') <= K
  BY <1>1, <1>3
<1> QED BY <1>5, <1>6, <1>7 DEF Chosen

\* A step of the selection keeps it.
LEMMA SelectKeeps == IInv /\ Select => IInv'
<1> SUFFICES ASSUME IInv, Select PROVE IInv'
  OBVIOUS
<1>1. /\ pc = "select" /\ UNCHANGED outsideSelection /\ sel \in {"idle", "greedy"}
      /\ pc' = IF sel' \in {"done", "crashed"}
               THEN [done |-> "validate", crashed |-> "crashed"][sel'] ELSE pc
  BY DEF IInv, Control, Select
<1>2. ASSUME UNCHANGED <<inf_pois, R1Vars>>, sel' \in {"greedy", "done", "crashed"}, Chosen'
      PROVE  IInv'
  <2>1. Control' /\ pc' \in {"select", "validate", "crashed"}
    BY <1>1, <1>2 DEF Control
  <2> QED BY <1>1, <1>2, <2>1, SelectOnly DEF IInv
<1>3. CASE sel = "idle" /\ Sel!Fill
  <2> USE DEF Sel!Fill, Sel!storeVars, R1Vars
  <2>1. UNCHANGED <<inf_pois, R1Vars>> /\ sel' = "greedy"
    BY <1>3
  <2>2. poiSet' = <<>> /\ Sel!TakenPois' = {}
    BY <1>3 DEF Sel!TakenPois
  <2>3. Chosen'
    BY <1>3, <2>2, OpimcAssumption DEF Chosen
  <2> QED BY <1>2, <2>1, <2>3
<1>4. ASSUME NEW p \in inf_pois, Sel!Refresh(p)
      PROVE  IInv'
  <2> USE DEF Sel!Refresh, Sel!InLoop, Sel!storeVars, R1Vars
  <2>1. UNCHANGED <<inf_pois, R1Vars>> /\ sel' = "greedy" /\ DOMAIN heap' = DOMAIN heap
    BY <1>4
  <2>2. Chosen'
    BY <1>4, <2>1 DEF IInv, Chosen, Sel!TakenPois
  <2> QED BY <1>2, <2>1, <2>2
<1>5. ASSUME NEW p \in inf_pois, Sel!TakePoi(p) \/ Sel!TakeLastPoi(p)
      PROVE  IInv'
  <2>1. Sel!Take(p) /\ sel' \in {"greedy", "crashed"}
    BY <1>5 DEF Sel!TakePoi, Sel!TakeLastPoi, Sel!Take, Sel!InLoop
  <2>2. UNCHANGED <<inf_pois, R1Vars>>
    BY <2>1 DEF Sel!Take, Sel!storeVars, R1Vars
  <2>3. Chosen'
    BY <2>1, TakeKeepsChosen
  <2> QED BY <1>2, <2>1, <2>2, <2>3
<1>6. CASE Sel!Return
  <2> USE DEF Sel!Return, Sel!storeVars, R1Vars
  <2>1. UNCHANGED <<inf_pois, R1Vars>> /\ sel' = "done" /\ sel = "greedy"
    BY <1>6
  <2>2. Len(poiSet) = K
    BY <1>6, OpimcAssumption DEF IInv, Chosen
  <2>3. Chosen'
    BY <1>6, <2>2 DEF IInv, Chosen, Sel!TakenPois
  <2> QED BY <1>2, <2>1, <2>3
<1> QED BY <1>3, <1>4, <1>5, <1>6 DEF Select, Sel!LoopStep

\* What covers some RR set of R2 covers one that was sampled.
LEMMA CoverIsSampled ==
  ASSUME IInv, pc = "validate", Cardinality(VldCover(Sel!TakenPois)) > 0
  PROVE  \E o \in UNION {hyperG_POIVld[p] : p \in Sel!TakenPois} : o[1] \in DOMAIN uStart.R2
<1>1. VldCover(Sel!TakenPois) # {}
  <2> SUFFICES ASSUME VldCover(Sel!TakenPois) = {} PROVE FALSE
    OBVIOUS
  <2> QED BY FS_EmptySet
<1>2. PICK p \in Sel!TakenPois : \E o \in hyperG_POIVld[p] : TRUE
  BY <1>1 DEF VldCover
<1>3. PICK o \in hyperG_POIVld[p] : TRUE
  BY <1>2
<1>4. p \in inf_pois
  BY <1>2 DEF IInv, Control, Chosen, Sel!TakenPois
<1>5. o[1] \in DOMAIN hyperGT_POIVld /\ <<p, o[2]>> \in hyperGT_POIVld[o[1]]
  BY <1>3, <1>4 DEF IInv, Indexed, IsIndexOf
<1>6. o[1] \in DOMAIN uStart.R2
  BY <1>5 DEF IInv, CollectionsOK, Collection
<1> QED BY <1>3, <1>6

\* The end of a round keeps it: what is returned is the selection, and a
\* cover that is not empty shows a sampled set that backs it.
LEMMA RoundEndKeeps == IInv /\ (Accept \/ NextRound \/ GiveUp) => IInv'
<1> SUFFICES ASSUME IInv, Accept \/ NextRound \/ GiveUp PROVE IInv'
  OBVIOUS
<1> USE DEF graphVars, R1Vars, R2Vars, builderVars, loopVars, resultVars
<1>1. /\ pc = "validate" /\ pc' \in {"done", "resizeR1"}
      /\ UNCHANGED <<graphVars, R1Vars, R2Vars, builderVars, loopVars, sel>>
  BY DEF Accept, NextRound, GiveUp
<1>2. sel = "done"
  BY <1>1 DEF IInv, Control
<1>3. round' \in 0 .. NumIter-1
  BY OpimcAssumption DEF IInv, TypeOK, Accept, NextRound, GiveUp, MoreRounds, RoundAfter
<1>4. TypeOK'
  BY <1>1, <1>3 DEF IInv, TypeOK
<1>5. CollectionsOK' /\ RRSetsSound'
  BY <1>1 DEF IInv, CollectionsOK, Collection, IsVector, RRSetsSound, Sound
<1>6. Indexed' /\ SameSizes' /\ NothingYet'
  <2>1. Indexed'
    BY <1>1 DEF IInv, Indexed, IsIndexOf
  <2>2. DOMAIN hyperGT_POI = DOMAIN hyperGT_POIVld
    BY <1>1 DEF IInv, SameSizes
  <2>3. SameSizes' /\ NothingYet'
    BY <1>1, <2>2 DEF SameSizes, NothingYet
  <2> QED BY <2>1, <2>3
<1>7. Control' /\ Chosen'
  BY <1>1, <1>2 DEF IInv, Control, Chosen, Sel!TakenPois
<1>8. ResultJustified'
  <2>1. CASE NextRound
    BY <2>1 DEF NextRound, ResultJustified
  <2>2. CASE Accept \/ GiveUp
    <3>1. /\ seeds' = poiSet' /\ Len(poiSet) = K /\ DOMAIN poiSet = 1 .. K
          /\ \A j, l \in 1 .. K : poiSet[j] = poiSet[l] => j = l
      BY <1>1, <1>2, <2>2, OpimcAssumption DEF IInv, Chosen, Accept, GiveUp
    <3>2. ASSUME iteration' < NumIter
          PROVE  \E o \in UNION {hyperG_POIVld[p] : p \in {poiSet[j] : j \in 1 .. K}} :
                   o[1] \in DOMAIN uStart.R2
      <4>1. Accept
        BY <2>2, <3>2, OpimcAssumption DEF GiveUp
      <4>2. Cardinality(VldCover(Sel!TakenPois)) > 0
        BY <4>1 DEF Accept, MayAccept
      <4>3. Sel!TakenPois = {poiSet[j] : j \in 1 .. K}
        BY <3>1 DEF Sel!TakenPois
      <4> QED BY <1>1, <4>2, <4>3, CoverIsSampled
    <3> QED BY <1>1, <3>1, <3>2 DEF ResultJustified
  <2> QED BY <2>1, <2>2
<1> QED BY <1>1, <1>4, <1>5, <1>6, <1>7, <1>8 DEF IInv

\* A stuttering step keeps it.
LEMMA StutterKeeps == IInv /\ UNCHANGED vars => IInv'
<1> SUFFICES ASSUME IInv, UNCHANGED vars PROVE IInv'
  OBVIOUS
<1> USE DEF vars, graphVars, R1Vars, R2Vars, builderVars, loopVars, resultVars
<1>1. TypeOK' /\ NothingYet' /\ Control' /\ ResultJustified'
  BY DEF IInv, TypeOK, NothingYet, Control, ResultJustified
<1>2. CollectionsOK' /\ RRSetsSound'
  BY DEF IInv, CollectionsOK, Collection, IsVector, RRSetsSound, Sound
<1>3. Indexed' /\ SameSizes'
  <2>1. numR' = numR
    BY DEF numR
  <2>2. Grown(hyperGT_POIVld, numR)' = Grown(hyperGT_POIVld, numR)
    BY <2>1 DEF Grown, Size
  <2>3. Indexed'
    BY <2>1 DEF IInv, Indexed, IsIndexOf, Building, Occurs
  <2>4. SameSizes'
    BY <2>2 DEF IInv, SameSizes
  <2> QED BY <2>3, <2>4
<1>4. Chosen'
  BY DEF IInv, Chosen, Sel!TakenPois
<1> QED BY <1>1, <1>2, <1>3, <1>4 DEF IInv

\* Every step keeps it.
LEMMA NextKeeps == IInv /\ [Next]_vars => IInv'
BY StartKeeps, ResizeR1Keeps, SampleR1Keeps, ResizeR2Keeps, SampleR2Keeps, IndexKeeps,
   SelectKeeps, RoundEndKeeps, StutterKeeps DEF Next

\* The inductive invariant, over any number of rounds.
THEOREM Invariant == Spec => []IInv
BY InitEstablishes, NextKeeps, PTL DEF Spec
-----------------------------------------------------------------------------
(* The properties the runs check.                                          *)

\* Both indexes agree with their collections whenever no builder is running.
LEMMA IndexedWhenComplete == IInv => SamplesIndexed
<1> SUFFICES ASSUME IInv PROVE SamplesIndexed
  OBVIOUS
<1>1. ASSUME Complete
      PROVE  IsIndexOf(hyperG_POI, hyperGT_POI) /\ IsIndexOf(hyperG_POIVld, hyperGT_POIVld)
  <2>1. pc # "sampleR1" /\ pc # "sampleR2"
    BY <1>1 DEF Complete
  <2> QED BY <2>1 DEF IInv, Indexed
<1>2. TypeOK
  BY DEF IInv
<1> QED BY <1>1, <1>2 DEF SamplesIndexed, IndexesComplete

\* The inverted index and the RR sets of each collection agree, over any number
\* of rounds that extend them (infgraph.h:751 and 790).
THEOREM IndexesExact == Spec => []SamplesIndexed
BY Invariant, IndexedWhenComplete, PTL

\* An RR set holds a POI only through a potential user of it that can influence
\* the user the set was sampled for (BuildHypergraphPOI).
THEOREM SamplesSound == Spec => []RRSetsSound
<1>1. IInv => RRSetsSound
  BY DEF IInv
<1> QED BY <1>1, Invariant, PTL

\* The ids that are in use in R2 are below the size of R1.
LEMMA IdsBelowSize == IInv => ValidationInBounds
<1> SUFFICES ASSUME IInv, pc = "validate", NEW k \in VldCover(Sel!TakenPois)
             PROVE  k < Size(hyperGT_POI)
  BY DEF ValidationInBounds
<1>1. PICK p \in Sel!TakenPois : \E o \in hyperG_POIVld[p] : k = o[1]
  BY DEF VldCover
<1>2. p \in inf_pois
  BY DEF IInv, Control, Chosen, Sel!TakenPois
<1>3. k \in DOMAIN hyperGT_POIVld
  <2>1. IsIndexOf(hyperG_POIVld, hyperGT_POIVld)
    BY DEF IInv, Indexed
  <2>2. hyperG_POIVld[p] \subseteq (DOMAIN hyperGT_POIVld) \X Nodes
    BY <1>2, <2>1 DEF IsIndexOf
  <2> QED BY <1>1, <2>2
<1>4. k \in DOMAIN hyperGT_POI
  BY <1>3 DEF IInv, SameSizes
<1>5. Size(hyperGT_POI) \in Nat /\ DOMAIN hyperGT_POI = 0 .. Size(hyperGT_POI)-1
  BY SizeOfVector DEF IInv, CollectionsOK, Collection
<1> QED BY <1>4, <1>5

\* check_RR_POI_Cover never indexes its marks out of range (infgraph.h:1180).
THEOREM MarksInBounds == Spec => []ValidationInBounds
BY Invariant, IdsBelowSize, PTL

\* The POIs returned are the last selection, K distinct candidates, and before
\* the last round some RR set of R2 holds one of them (OPIMC.h).
THEOREM Justified == Spec => []ResultJustified
<1>1. IInv => ResultJustified
  BY DEF IInv
<1> QED BY <1>1, Invariant, PTL

\* A sampled slot keeps its RR set.
Kept ==
  /\ \A k \in DOMAIN uStart.R1 :
       k \in DOMAIN hyperGT_POI' /\ hyperGT_POI'[k] = hyperGT_POI[k]
  /\ \A k \in DOMAIN uStart.R2 :
       k \in DOMAIN hyperGT_POIVld' /\ hyperGT_POIVld'[k] = hyperGT_POIVld[k]

\* No step but the resizing and the sampling of a builder touches its
\* collection; resizing copies, sampling fills the next slot.
LEMMA StepKeepsSamples == IInv /\ [Next]_vars => Kept
<1> SUFFICES ASSUME IInv, [Next]_vars PROVE Kept
  OBVIOUS
<1>1. DOMAIN uStart.R1 \subseteq DOMAIN hyperGT_POI
      /\ DOMAIN uStart.R2 \subseteq DOMAIN hyperGT_POIVld
      /\ IsVector(hyperGT_POI) /\ IsVector(hyperGT_POIVld)
  BY DEF IInv, CollectionsOK, Collection
<1>2. numR \in Nat
  BY RoundNatural, SizeOfRound
<1>3. CASE ResizeR1
  <2>1. hyperGT_POI' = Grown(hyperGT_POI, numR) /\ hyperGT_POIVld' = hyperGT_POIVld
    BY <1>3 DEF ResizeR1, R2Vars
  <2>2. /\ DOMAIN hyperGT_POI \subseteq DOMAIN hyperGT_POI'
        /\ \A k \in DOMAIN hyperGT_POI : hyperGT_POI'[k] = hyperGT_POI[k]
    BY <1>1, <1>2, <2>1, GrownVector
  <2> QED BY <1>1, <2>1, <2>2 DEF Kept
<1>4. CASE ResizeR2
  <2>1. hyperGT_POIVld' = Grown(hyperGT_POIVld, numR) /\ hyperGT_POI' = hyperGT_POI
    BY <1>4 DEF ResizeR2, R1Vars
  <2>2. /\ DOMAIN hyperGT_POIVld \subseteq DOMAIN hyperGT_POIVld'
        /\ \A k \in DOMAIN hyperGT_POIVld : hyperGT_POIVld'[k] = hyperGT_POIVld[k]
    BY <1>1, <1>2, <2>1, GrownVector
  <2> QED BY <1>1, <2>1, <2>2 DEF Kept
<1>5. CASE SampleR1
  <2>1. i \notin DOMAIN uStart.R1
    BY <1>5, SampleR1Keeps
  <2>2. \E x : hyperGT_POI' = [hyperGT_POI EXCEPT ![i] = x]
    BY <1>5 DEF SampleR1
  <2>3. hyperGT_POIVld' = hyperGT_POIVld
    BY <1>5 DEF SampleR1, R2Vars
  <2> QED BY <1>1, <2>1, <2>2, <2>3 DEF Kept
<1>6. CASE SampleR2
  <2>1. i \notin DOMAIN uStart.R2
    BY <1>6, SampleR2Keeps
  <2>2. \E x : hyperGT_POIVld' = [hyperGT_POIVld EXCEPT ![i] = x]
    BY <1>6 DEF SampleR2
  <2>3. hyperGT_POI' = hyperGT_POI
    BY <1>6 DEF SampleR2, R1Vars
  <2> QED BY <1>1, <2>1, <2>2, <2>3 DEF Kept
<1>7. CASE Select
  <2>1. hyperGT_POIVld' = hyperGT_POIVld
    BY <1>7 DEF Select, outsideSelection, R2Vars
  <2>2. hyperGT_POI' = hyperGT_POI
    <3>1. CASE sel = "idle" /\ Sel!Fill
      BY <3>1 DEF Sel!Fill, Sel!storeVars
    <3>2. CASE Sel!LoopStep
      BY <3>2 DEF Sel!LoopStep, Sel!Refresh, Sel!TakePoi, Sel!TakeLastPoi, Sel!Take,
         Sel!Return, Sel!storeVars
    <3> QED BY <1>7, <3>1, <3>2 DEF Select
  <2> QED BY <1>1, <2>1, <2>2 DEF Kept
<1>8. CASE Start \/ IndexR1 \/ IndexR2 \/ Accept \/ NextRound \/ GiveUp \/ UNCHANGED vars
  <2>1. hyperGT_POI' = hyperGT_POI /\ hyperGT_POIVld' = hyperGT_POIVld
    BY <1>8 DEF Start, IndexR1, IndexR2, Accept, NextRound, GiveUp, vars, R1Vars, R2Vars
  <2> QED BY <1>1, <2>1 DEF Kept
<1> QED BY <1>3, <1>4, <1>5, <1>6, <1>7, <1>8 DEF Next

\* An RR set once sampled is never redrawn, whatever the number of rounds.
THEOREM SamplesStay == Spec => SamplesKept
<1>1. IInv /\ [Next]_vars =>
        [pc # "check" =>
           /\ \A k \in DOMAIN uStart.R1 :
                k \in DOMAIN hyperGT_POI' /\ hyperGT_POI'[k] = hyperGT_POI[k]
           /\ \A k \in DOMAIN uStart.R2 :
                k \in DOMAIN hyperGT_POIVld' /\ hyperGT_POIVld'[k] = hyperGT_POIVld[k]]_vars
  BY StepKeepsSamples DEF Kept
<1> QED BY <1>1, Invariant, PTL DEF Spec, SamplesKept
-----------------------------------------------------------------------------
(* The rounds on R1 are runs of the selection module.                      *)

\* The index of R1 is a function on the candidates.
IndexShape == hyperG_POI = [p \in inf_pois |-> hyperG_POI[p]]

\* The candidates are found once and the index is rebuilt as a whole.
LEMMA IndexShapeKept == /\ Init => IndexShape
                        /\ IndexShape /\ [Next]_vars => IndexShape'
<1>1. Init => IndexShape
  BY DEF Init, IndexShape
<1>2. ASSUME IndexShape, [Next]_vars PROVE IndexShape'
  <2>1. CASE Start
    BY <2>1 DEF Start, IndexShape
  <2>2. CASE IndexR1
    BY <2>2 DEF IndexR1, Inverted, IndexShape, graphVars
  <2>3. CASE Select
    <3>1. UNCHANGED <<inf_pois, hyperG_POI>>
      BY <2>3 DEF Select, Sel!Fill, Sel!LoopStep, Sel!Refresh, Sel!TakePoi, Sel!TakeLastPoi,
         Sel!Take, Sel!Return, Sel!storeVars
    <3> QED BY <1>2, <3>1 DEF IndexShape
  <2>4. CASE ResizeR1 \/ SampleR1 \/ ResizeR2 \/ SampleR2 \/ IndexR2
    <3>1. UNCHANGED <<inf_pois, hyperG_POI>>
      BY <2>4 DEF ResizeR1, SampleR1, ResizeR2, SampleR2, IndexR2, graphVars, R1Vars
    <3> QED BY <1>2, <3>1 DEF IndexShape
  <2>5. CASE Accept \/ NextRound \/ GiveUp \/ UNCHANGED vars
    <3>1. UNCHANGED <<inf_pois, hyperG_POI>>
      BY <2>5 DEF Accept, NextRound, GiveUp, vars, graphVars, R1Vars
    <3> QED BY <1>2, <3>1 DEF IndexShape
  <2> QED BY <1>2, <2>1, <2>2, <2>3, <2>4, <2>5 DEF Next
<1> QED BY <1>1, <1>2

\* The ids of a vector are finitely many.
LEMMA VectorFinite ==
  ASSUME NEW gt, IsVector(gt)
  PROVE  Sel!IsFiniteSet(DOMAIN gt)
<1>1. Size(gt) \in Nat /\ DOMAIN gt = 0 .. Size(gt)-1
  BY SizeOfVector
<1>2. IsFiniteSet(DOMAIN gt)
  BY <1>1, IntervalSize
<1> QED BY <1>2 DEF Sel!IsFiniteSet, IsFiniteSet

\* What the builders leave is what the selection asks of its caller.
LEMMA CallerKeepsItsSide == IInv /\ IndexShape /\ pc = "select" => Sel!StoreOK
<1> SUFFICES ASSUME IInv, IndexShape, pc = "select" PROVE Sel!StoreOK
  OBVIOUS
<1>1. IsVector(hyperGT_POI) /\ hyperGT_POI \in [DOMAIN hyperGT_POI -> SUBSET (inf_pois \X Nodes)]
  BY DEF IInv, CollectionsOK, Collection
<1>2. DOMAIN hyperGT_POI \subseteq Nat /\ Sel!IsFiniteSet(DOMAIN hyperGT_POI)
  BY <1>1, VectorFinite DEF IsVector
<1>3. hyperG_POI = [p \in inf_pois |-> Sel!OccursIn(p, DOMAIN hyperGT_POI)]
  <2>1. IsIndexOf(hyperG_POI, hyperGT_POI)
    BY DEF IInv, Indexed
  <2> QED BY <2>1 DEF IndexShape, IsIndexOf, Sel!OccursIn
<1> QED BY <1>1, <1>2, <1>3 DEF IInv, Sel!StoreOK, Sel!RRIds

\* The mining begins where the selection does.
LEMMA InitRefines == Init => Sel!Init
<1> SUFFICES ASSUME Init PROVE Sel!Init
  OBVIOUS
<1>1. hyperGT_POI = <<>> /\ hyperG_POI = <<>> /\ inf_pois = {}
  BY DEF Init
<1>2. DOMAIN hyperGT_POI = {} /\ hyperGT_POI = [k \in {} |-> hyperGT_POI[k]]
      /\ hyperG_POI = [p \in {} |-> Sel!OccursIn(p, {})]
  BY <1>1
<1>3. Sel!IsFiniteSet({})
  BY FS_EmptySet DEF Sel!IsFiniteSet, IsFiniteSet
<1>4. Sel!StoreOK
  BY <1>1, <1>2, <1>3 DEF Sel!StoreOK, Sel!RRIds
<1> QED BY <1>4 DEF Init, Sel!Init

\* Every step of the mining is one of the selection, a change of the RR sets
\* between two selections, or none.
LEMMA StepRefines == IInv /\ IndexShape /\ [Next]_vars => [Sel!Next]_(Sel!vars)
<1> SUFFICES ASSUME IInv, IndexShape, [Next]_vars PROVE [Sel!Next]_(Sel!vars)
  OBVIOUS
<1> USE DEF Sel!vars, Sel!storeVars, Sel!loopVars, loopVars
<1>1. CASE Start \/ ResizeR1 \/ SampleR1 \/ IndexR1
  <2>1. sel \in {"idle", "done"} /\ sel' = "idle"
    BY <1>1 DEF IInv, Control, Start, ResizeR1, SampleR1, IndexR1
  <2>2. UNCHANGED <<heap, coverage, edgeMark, poiMark, poiSet, influence, influence_upper>>
    BY <1>1 DEF Start, ResizeR1, SampleR1, IndexR1
  <2> QED BY <2>1, <2>2 DEF Sel!Resample, Sel!Next
<1>2. CASE ResizeR2 \/ SampleR2 \/ IndexR2
  BY <1>2 DEF ResizeR2, SampleR2, IndexR2, graphVars, R1Vars
<1>3. CASE Select
  <2>1. CASE sel = "idle" /\ Sel!Fill
    BY <1>3, <2>1, CallerKeepsItsSide DEF Select, Sel!Begin, Sel!Next
  <2>2. CASE Sel!LoopStep
    BY <2>2 DEF Sel!Next
  <2> QED BY <1>3, <2>1, <2>2 DEF Select
<1>4. CASE Accept \/ NextRound \/ GiveUp \/ UNCHANGED vars
  BY <1>4 DEF Accept, NextRound, GiveUp, vars, graphVars, R1Vars
<1> QED BY <1>1, <1>2, <1>3, <1>4 DEF Next

\* What minePOIsOPIMC does to R1 and the selection's variables is a run of
\* do_poiSelection_UB: its calls find complete indexes, nothing changes them
\* while it runs, and its steps are the selection's.
THEOREM MiningSelects == Spec => Sel!Init /\ [][Sel!Next]_(Sel!vars)
<1>1. Spec => []IndexShape
  BY IndexShapeKept, PTL DEF Spec
<1> QED BY <1>1, Invariant, InitRefines, StepRefines, PTL DEF Spec
=============================================================================
