--------------------------- MODULE HybridSelection ---------------------------
(***************************************************************************)
(* InfGraph::do_poiSelection_UB_ByHybrid (infgraph.h): choose K POIs by    *)
(* lazy greedy on the sum of two gains, the influence on users and their   *)
(* direct neighbours, which is computed (local), and the influence further *)
(* out, which is estimated from RR sets (outer).                           *)
(*                                                                         *)
(* An RR set is a set of occurrences <<p, u>>, as in PoiSelection.  POIs   *)
(* are numbers: a set<int> of them is traversed in ascending order.        *)
(***************************************************************************)
EXTENDS LocalInfluence, Sequences, SequencesExt

CONSTANTS K,   \* the number of POIs to select
          nc   \* the users of the constrained graph

VARIABLES
  br_usr_table,     \* POI -> its potential users
  hyperGT_POI_OUT,  \* RR set id -> its occurrences
  heap,             \* the queue: POI -> its key
  coverage,         \* POI -> its gain, the sum of the next two
  coverage_local, estimated_outer,
  coverage_outer,   \* POI -> its occurrences in RR sets not covered
  edgeMark,         \* RR sets covered
  poiMark, poiSet,  \* POIs not chosen; those chosen, in order
  influence,        \* the gains of those chosen, summed up
  inf_pair,         \* the same, local and outer
  overall_influence_upper, overall_influence_upperDetails,
  sel               \* idle, greedy, done, or undefined: a read of an empty queue

storeVars == <<br_usr_table, hyperGT_POI_OUT>>
gainVars  == <<coverage, coverage_local, estimated_outer, coverage_outer, edgeMark>>
seedVars  == <<poiMark, poiSet, influence, inf_pair>>
upperVars == <<overall_influence_upper, overall_influence_upperDetails>>
vars == <<storeVars, heap, gainVars, seedVars, upperVars, sel>>

RRIds  == DOMAIN hyperGT_POI_OUT
Chosen == ToSet(poiSet)

\* getNc() / hyperGT_POI_OUT.size(), integers, in parts of a user.
ratio == Unit * (nc \div Cardinality(RRIds))

\* How often the RR sets S hold q, and those of them that do.
Occurrences(q, S) == Cardinality({o \in S \X Users : <<q, o[2]>> \in hyperGT_POI_OUT[o[1]]})
Holding(p, S) == {r \in S : \E u \in Users : <<p, u>> \in hyperGT_POI_OUT[r]}

\* The influence a set of POIs is credited with.
OuterInf(P) == ratio * Cardinality({r \in RRIds : \E p \in P : r \in Holding(p, {r})})
OverallInf(P) == PoiInf(br_usr_table, P) + OuterInf(P)
-----------------------------------------------------------------------------
Init ==
  /\ heap = <<>> /\ coverage = <<>> /\ coverage_local = <<>>
  /\ estimated_outer = <<>> /\ coverage_outer = <<>> /\ edgeMark = {}
  /\ poiMark = {} /\ poiSet = <<>>
  /\ influence = 0 /\ inf_pair = [local_inf |-> 0, outer_inf |-> 0]
  /\ overall_influence_upper = -1
  /\ overall_influence_upperDetails = [local_inf |-> 0, outer_inf |-> 0]
  /\ sel = "idle"

Start ==
  /\ sel # "greedy"
  /\ coverage_local' = [p \in DOMAIN br_usr_table |-> PoiInf(br_usr_table, {p})]
  /\ coverage_outer' = [p \in DOMAIN br_usr_table |-> Occurrences(p, RRIds)]
  /\ estimated_outer' = [p \in DOMAIN br_usr_table |-> ratio * coverage_outer'[p]]
  /\ coverage' = [p \in DOMAIN br_usr_table |-> coverage_local'[p] + estimated_outer'[p]]
  /\ heap' = coverage'
  /\ edgeMark' = {} /\ poiMark' = DOMAIN br_usr_table /\ poiSet' = <<>>
  /\ influence' = 0 /\ inf_pair' = [local_inf |-> 0, outer_inf |-> 0]
  /\ overall_influence_upper' = -1
  /\ sel' = "greedy"
  /\ UNCHANGED <<storeVars, overall_influence_upperDetails>>

IsTop(p) == p \in DOMAIN heap /\ \A q \in DOMAIN heap : heap[q] <= heap[p]

FreshKey(p) == coverage[p]

Reinsert ==
  /\ sel = "greedy"
  /\ \E p \in DOMAIN heap :
       /\ IsTop(p) /\ heap[p] > coverage[p]
       /\ heap' = [heap EXCEPT ![p] = FreshKey(p)]
  /\ UNCHANGED <<storeVars, gainVars, seedVars, upperVars, sel>>

\* What q loses when the RR sets of p that were not covered become so.
BugMarkedAgain(p, q) == Occurrences(q, Holding(p, RRIds))
Lost(p, q) == Occurrences(q, Holding(p, RRIds) \ edgeMark)

\* The POIs whose local gain is computed anew.
need_updated_pois(p) == SharingUser(br_usr_table, p) \cap (poiMark \ {p})

\* The local gain of q: total_users holds the users of all POIs chosen, and
\* of every POI whose gain was computed anew before q.
BugBefore(p, q) ==
  LET seeds == Chosen \cup {p}
  IN  PoiInf(br_usr_table, seeds \cup {q}) - PoiInf(br_usr_table, {p} \cup need_updated_pois(p))
inf_delta(p, q) ==
  LET seeds == Chosen \cup {p}
      total == seeds \cup {r \in need_updated_pois(p) : r <= q}
  IN  PoiInf(br_usr_table, total) - PoiInf(br_usr_table, seeds)

\* coverage[q], lowered RR set by RR set and set again with the local gain.
GainAfter(p, q, local) ==
  IF q \in need_updated_pois(p) THEN estimated_outer[q] - ratio * Lost(p, q) + local[q]
  ELSE coverage[q] - ratio * Lost(p, q)

\* K times top() and pop() on heap_overall: the POIs in the order of their
\* gains, and the last one again when there are fewer.
Popped(P, cov) ==
  {s \in [1 .. K -> P] :
     \A j \in 1 .. K :
       LET before == {s[m] : m \in 1 .. j-1}
       IN  IF before = P THEN s[j] = s[j-1]
           ELSE s[j] \notin before /\ \A q \in P \ before : cov[q] <= cov[s[j]]}

SumOver(s, f) == FoldLeft(LAMBDA sum, q : sum + f[q], 0, s)

\* The POI of the top is chosen.
Take(p) ==
  /\ IsTop(p) /\ heap[p] <= coverage[p]
  /\ heap' = [q \in DOMAIN heap \ {p} |-> heap[q]]
  /\ influence' = influence + coverage[p]
  /\ inf_pair' = [local_inf |-> inf_pair.local_inf + coverage_local[p],
                  outer_inf |-> inf_pair.outer_inf + estimated_outer[p]]
  /\ poiSet' = Append(poiSet, p)
  /\ poiMark' = poiMark \ {p}

\* The last one: the call returns before it updates anything.
ChooseLast ==
  /\ sel = "greedy" /\ Len(poiSet) = K - 1
  /\ \E p \in DOMAIN heap : Take(p)
  /\ sel' = "done"
  /\ UNCHANGED <<storeVars, gainVars, upperVars>>

BugSumOnly(s, cov) == SumOver(s, cov)
\* influence + maxMC
UpperOf(s, cov) == influence' + SumOver(s, cov)

\* Any other: the gains are updated, then the bound.
Choose ==
  /\ sel = "greedy" /\ Len(poiSet) < K - 1
  /\ \E p \in DOMAIN heap :
       /\ Take(p)
       /\ estimated_outer' = [q \in DOMAIN coverage |->
            IF q \in poiMark' THEN estimated_outer[q] - ratio * Lost(p, q) ELSE estimated_outer[q]]
       /\ coverage_outer' = [q \in DOMAIN coverage |->
            IF q \in poiMark' THEN coverage_outer[q] - Lost(p, q) ELSE coverage_outer[q]]
       /\ edgeMark' = edgeMark \cup Holding(p, RRIds)
       /\ coverage_local' = [q \in DOMAIN coverage |->
            IF q \in need_updated_pois(p) THEN inf_delta(p, q) ELSE coverage_local[q]]
       /\ coverage' = [q \in DOMAIN coverage |->
            IF q \in poiMark' THEN GainAfter(p, q, coverage_local') ELSE coverage[q]]
       /\ IF poiMark' = {} THEN sel' = "undefined" /\ UNCHANGED upperVars
          ELSE /\ sel' = sel
               /\ \E s \in Popped(poiMark', coverage') :
                    IF overall_influence_upper = -1 \/ overall_influence_upper > UpperOf(s, coverage')
                    THEN /\ overall_influence_upper' = UpperOf(s, coverage')
                         /\ overall_influence_upperDetails' =
                              [local_inf |-> SumOver(s, coverage_local'),
                               outer_inf |-> SumOver(s, coverage_outer')]
                    ELSE UNCHANGED upperVars
  /\ UNCHANGED storeVars

\* heap.top() with no candidate at all.
RunDry ==
  /\ sel = "greedy" /\ DOMAIN heap = {}
  /\ sel' = "undefined"
  /\ UNCHANGED <<storeVars, heap, gainVars, seedVars, upperVars>>

Loop == Reinsert \/ ChooseLast \/ Choose \/ RunDry
-----------------------------------------------------------------------------
TypeOK ==
  /\ DOMAIN heap \subseteq Pois /\ \A p \in DOMAIN heap : heap[p] \in Nat
  /\ \A p \in DOMAIN coverage : {coverage[p], coverage_outer[p], coverage_local[p]} \subseteq Nat
  /\ edgeMark \subseteq RRIds /\ poiMark \subseteq DOMAIN br_usr_table
  /\ Len(poiSet) <= K /\ influence \in Nat
  /\ overall_influence_upper \in Nat \cup {-1}

\* Through all updates the gain of a POI is its local gain and its outer one,
\* and its outer one counts its occurrences in the RR sets no POI chosen is
\* in.
GainsSplit ==
  sel = "greedy" =>
    \A q \in poiMark :
      /\ coverage[q] = coverage_local[q] + estimated_outer[q]
      /\ estimated_outer[q] = ratio * coverage_outer[q]
      /\ coverage_outer[q] = Occurrences(q, {r \in RRIds : \A p \in Chosen : r \notin Holding(p, {r})})

\* No gain is less than what the POI would add, whatever is counted twice.
GainsBound ==
  sel = "greedy" =>
    \A q \in poiMark :
      /\ coverage_local[q] >= LocalGain(br_usr_table, Chosen, q)
      /\ coverage[q] >= OverallInf(Chosen \cup {q}) - OverallInf(Chosen)

\* What is returned is no less than the influence of the POIs chosen, and the
\* bound is no less than that of any K POIs.
BoundHolds ==
  /\ inf_pair.local_inf >= PoiInf(br_usr_table, Chosen)
  /\ overall_influence_upper # -1 =>
       \A P \in SUBSET DOMAIN br_usr_table :
         Cardinality(P) <= K => OverallInf(P) <= overall_influence_upper
=============================================================================
