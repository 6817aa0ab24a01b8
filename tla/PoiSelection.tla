---------------------------- MODULE PoiSelection ----------------------------
(***************************************************************************)
(* InfGraph::do_poiSelection_UB (infgraph.h): pick K points of interest    *)
(* (POIs) that cover the most reverse-reachable (RR) sets, by lazy greedy: *)
(* a priority queue holds the marginal gain each POI had when it was last  *)
(* looked at; the top is either stale and reinserted with its current gain *)
(* or taken.  After each POI taken an upper bound on the coverage of every *)
(* K POIs is tightened from a second queue.                                *)
(*                                                                         *)
(* An RR set is a set of occurrences <<p, u>>: user u, visited while the   *)
(* set was sampled, has POI p in reachable_poi_table, so p was pushed once *)
(* for u.  The code pushes p once per such u, and counts it as often.      *)
(* hyperG_POI[p] mirrors it with occurrences <<i, u>>, i an RR set's id.   *)
(* Queues are compared by gain only (CompareBySecond), so any POI of       *)
(* maximal key may be the top.                                             *)
(***************************************************************************)
EXTENDS Integers, Sequences, FiniteSets, FiniteSetsExt

CONSTANTS Pois,   \* ids of the candidate POIs (the chain stores)
          Users,  \* ids of the users
          K       \* b, the number of POIs to select

ASSUME PoisAssumption  == IsFiniteSet(Pois)
ASSUME UsersAssumption == IsFiniteSet(Users)
ASSUME KAssumption     == K \in Nat \ {0}

VARIABLES
  inf_pois,         \* POIs with a potential user: the candidates
  hyperGT_POI,      \* RR set id -> its occurrences
  hyperG_POI,       \* POI -> where it occurs, the inverted index
  heap,             \* the priority queue: POI -> its key
  coverage,         \* POI -> its current marginal gain
  edgeMark,         \* RR sets covered already
  poiMark,          \* POIs not taken yet
  poiSet,           \* the POIs taken, in order
  influence,        \* sum of the gains of the POIs taken
  influence_upper,  \* the upper bound, -1 before the first
  sel               \* where the function is: idle, greedy, done, crashed

storeVars == <<inf_pois, hyperGT_POI, hyperG_POI>>
loopVars  == <<heap, coverage, edgeMark, poiMark, poiSet, influence,
               influence_upper, sel>>
vars      == <<storeVars, loopVars>>

RRIds == DOMAIN hyperGT_POI

\* Where p occurs among the RR sets S.
OccursIn(p, S) == {o \in S \X Users : <<p, o[2]>> \in hyperGT_POI[o[1]]}

\* What the caller owes: candidates and RR sets of the right shape, and an
\* index that is exactly the RR sets inverted.
StoreOK ==
  /\ inf_pois \subseteq Pois
  /\ IsFiniteSet(RRIds) /\ RRIds \subseteq Nat
  /\ hyperGT_POI \in [RRIds -> SUBSET (inf_pois \X Users)]
  /\ hyperG_POI = [p \in inf_pois |-> OccursIn(p, RRIds)]

-----------------------------------------------------------------------------
(* The pieces of the loop body.  Each Bug... operator is a plausible slip  *)
(* in the piece that follows it; no action uses one.                       *)

\* hyperG_POI[i].size()
InitialGain(p) == Cardinality(hyperG_POI[p])

IsTop(p) == /\ p \in DOMAIN heap
            /\ \A q \in DOMAIN heap : heap[q] <= heap[p]

BugNeverStale(p) == FALSE
Stale(p) == heap[p] > coverage[p]

BugKeepKey(p) == heap[p]
BugKeyBelow(p) == coverage[p] - 1
FreshKey(p) == coverage[p]

BugHitAgain(p) == {o[1] : o \in hyperG_POI[p]}
\* The RR sets p covers that no POI taken before it does.
NewlyHit(p) == {o[1] : o \in hyperG_POI[p]} \ edgeMark

BugGainAfterMarking(p) == coverage[p] - Cardinality(OccursIn(p, NewlyHit(p)))
Gain(p) == coverage[p]

BugPopForgotten(p) == heap
Popped(p) == [q \in DOMAIN heap \ {p} |-> heap[q]]

BugSkipUseless(p) == {q \in poiMark \ {p} : coverage[q] > 0}
\* The POIs pushed into heap2 after p is taken.
Remaining(p) == poiMark \ {p}

\* The gains once p is taken: each POI not taken loses its occurrences in
\* the RR sets just covered.
CoverageAfter(p) ==
  [q \in inf_pois |->
     IF q \in poiMark \ {p}
     THEN coverage[q] - Cardinality(OccursIn(q, NewlyHit(p)))
     ELSE coverage[q]]

SumGains(cov, S) == MapThenSumSet(LAMBDA q : cov[q], S)

\* K times top() and pop() on heap2.  When fewer than K POIs remain the
\* queue runs empty, which is undefined: in the libstdc++ build top() goes
\* on reading the last element popped, the smallest.  (heap2 never filled
\* is a null dereference: TakeLastPoi.)
TopKGains(cov, S) ==
  IF Cardinality(S) >= K
  THEN Max({SumGains(cov, T) : T \in kSubset(K, S)})
  ELSE SumGains(cov, S) + (K - Cardinality(S)) * Min({cov[q] : q \in S})

BugGainsOnly(p) == TopKGains(CoverageAfter(p), Remaining(p))
\* influence + maxMC once p is taken.
Bound(p) == influence + Gain(p) + TopKGains(CoverageAfter(p), Remaining(p))

-----------------------------------------------------------------------------
Init ==
  /\ StoreOK
  /\ heap = <<>> /\ coverage = <<>>
  /\ edgeMark = {} /\ poiMark = {} /\ poiSet = <<>>
  /\ influence = 0 /\ influence_upper = -1
  /\ sel = "idle"

\* The caller changes the RR sets while no selection runs.  What it leaves
\* is used only by the next Begin.
Resample ==
  /\ sel \in {"idle", "done"}
  /\ sel' = "idle"
  /\ UNCHANGED <<heap, coverage, edgeMark, poiMark, poiSet, influence,
                 influence_upper>>

\* The function is called: the queue is filled with every candidate.  With
\* no candidate heap.top() would read an unallocated vector.
Fill ==
  /\ sel \in {"idle", "done"}
  /\ inf_pois # {}
  /\ heap' = [p \in inf_pois |-> InitialGain(p)]
  /\ coverage' = [p \in inf_pois |-> InitialGain(p)]
  /\ edgeMark' = {} /\ poiMark' = inf_pois /\ poiSet' = <<>>
  /\ influence' = 0 /\ influence_upper' = -1
  /\ sel' = "greedy"
  /\ UNCHANGED storeVars

\* The caller keeps its side.
Begin == StoreOK /\ Fill

InLoop == sel = "greedy" /\ Len(poiSet) < K

\* The top's key is out of date: reinsert it with its current gain.
Refresh(p) ==
  /\ InLoop /\ IsTop(p) /\ Stale(p)
  /\ heap' = [heap EXCEPT ![p] = FreshKey(p)]
  /\ UNCHANGED <<storeVars, coverage, edgeMark, poiMark, poiSet, influence,
                 influence_upper, sel>>

\* What every taking does before the upper bound is computed.
Take(p) ==
  /\ InLoop /\ IsTop(p) /\ ~Stale(p)
  /\ heap' = Popped(p)
  /\ influence' = influence + Gain(p)
  /\ poiSet' = Append(poiSet, p)
  /\ poiMark' = poiMark \ {p}
  /\ coverage' = CoverageAfter(p)
  /\ edgeMark' = edgeMark \cup NewlyHit(p)
  /\ UNCHANGED storeVars

TakePoi(p) ==
  /\ Take(p)
  /\ Remaining(p) # {}
  /\ influence_upper' =
       IF influence_upper = -1 \/ influence_upper > Bound(p)
       THEN Bound(p) ELSE influence_upper
  /\ UNCHANGED sel

\* No POI remains for heap2: its top() dereferences null, even when p was
\* the last POI wanted.
TakeLastPoi(p) ==
  /\ Take(p)
  /\ Remaining(p) = {}
  /\ sel' = "crashed"
  /\ UNCHANGED influence_upper

\* The loop ends and the function returns.
Return ==
  /\ sel = "greedy" /\ Len(poiSet) >= K
  /\ sel' = "done"
  /\ UNCHANGED <<storeVars, heap, coverage, edgeMark, poiMark, poiSet,
                 influence, influence_upper>>

LoopStep == \/ \E p \in inf_pois : Refresh(p) \/ TakePoi(p) \/ TakeLastPoi(p)
            \/ Return

Next == Begin \/ LoopStep \/ Resample

\* One thread runs the loop, and nothing in it blocks.
Fairness == WF_vars(LoopStep)

Spec == Init /\ [][Next]_vars /\ Fairness

-----------------------------------------------------------------------------
(* Properties *)

Selecting == sel \in {"greedy", "done", "crashed"}

TypeOK ==
  /\ sel \in {"idle", "greedy", "done", "crashed"}
  /\ Selecting =>
       /\ StoreOK
       /\ coverage \in [inf_pois -> Nat]
       /\ poiMark \subseteq inf_pois
       /\ heap \in [poiMark -> Nat]
       /\ poiSet \in Seq(inf_pois)
       /\ edgeMark \subseteq RRIds
       /\ influence \in Nat

\* The occurrences of q in RR sets that no POI taken covers.
Uncovered(q) == {o \in hyperG_POI[q] : o[1] \notin edgeMark}

\* The gain kept for a POI not taken yet is exactly the number of its
\* occurrences in uncovered RR sets: no RR set is subtracted twice or
\* forgotten by the marking loop (infgraph.h:1366-1379).
CoverageIsMarginal ==
  Selecting => \A q \in poiMark : coverage[q] = Cardinality(Uncovered(q))

\* A key in the queue never falls below the gain it stands for, which is
\* what makes it enough to recompute the top alone.
KeysBoundGains == Selecting => \A q \in poiMark : heap[q] >= coverage[q]

\* Lazy greedy is greedy: the POI taken has a gain no remaining POI beats.
SelectsMaxGain ==
  [][\A p \in inf_pois :
       sel = "greedy" /\ poiSet' = Append(poiSet, p) =>
         \A q \in poiMark :
           Cardinality(Uncovered(q)) <= Cardinality(Uncovered(p))]_vars

TakenPois == {poiSet[j] : j \in DOMAIN poiSet}

\* RR sets that hold a POI of S.
HitBy(S) == {i \in RRIds : \E p \in S, u \in Users : <<p, u>> \in hyperGT_POI[i]}

\* The RR sets marked are those the POIs taken hit, and the influence
\* returned counts each of them at least once.
InfluenceCountsHits ==
  Selecting => /\ edgeMark = HitBy(TakenPois)
               /\ Cardinality(edgeMark) <= influence

\* influence_upper bounds what any K candidates cover, in every iteration:
\* what minePOIsOPIMC's stopping rule rests on (OPIMC.h:297).
UpperBoundHolds ==
  Selecting /\ influence_upper # -1 =>
    \A S \in SUBSET inf_pois :
      Cardinality(S) <= K => Cardinality(HitBy(S)) <= influence_upper

\* The POIs taken are distinct and leave the queue; a selection that
\* returns has K of them, and only a call with at most K candidates crashes.
SelectionSound ==
  Selecting =>
    /\ \A j, l \in DOMAIN poiSet : poiSet[j] = poiSet[l] => j = l
    /\ poiMark = inf_pois \ TakenPois
    /\ Len(poiSet) <= K
    /\ sel = "done" => Len(poiSet) = K
    /\ sel = "crashed" => Cardinality(inf_pois) <= K

\* infgraph.h:1320, "the candidate units, sorted by the number of samples
\* they cover": the POI taken covers the most samples (RR sets) not covered
\* yet.
TakesWidestCover ==
  [][\A p \in inf_pois :
       sel = "greedy" /\ poiSet' = Append(poiSet, p) =>
         \A q \in poiMark : Cardinality(NewlyHit(q)) <= Cardinality(NewlyHit(p))]_vars

\* Reinsertions cannot go on for ever: every selection ends.
SelectionEnds == [](sel = "greedy" => <>(sel \in {"done", "crashed"}))
=============================================================================
