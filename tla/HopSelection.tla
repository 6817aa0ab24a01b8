---------------------------- MODULE HopSelection ----------------------------
(***************************************************************************)
(* InfGraph::do_poiSelection_UB_ByOneHop, do_poiSelection_Heuristic and    *)
(* do_poiSelection_Heuristic_upper (infgraph.h): choose K POIs by lazy     *)
(* greedy on the influence their users have on themselves and on their     *)
(* direct neighbours.  The three run the same loop on different tables;    *)
(* the two heuristics skip an entry of a POI that is chosen already, the   *)
(* first does not.                                                         *)
(*                                                                         *)
(* The queue is compared by key only (CompareBySecond), so any entry of    *)
(* greatest key may be its top, and it may hold several entries of a POI:  *)
(* it is a bag of pairs <<POI, key>>.                                      *)
(*                                                                         *)
(* local_influence_upper is left out: nothing reads it.  The queue it is   *)
(* computed from is modelled as far as it ends the run, when it is empty.  *)
(***************************************************************************)
EXTENDS LocalInfluence, Sequences, SequencesExt, Bags

CONSTANTS K,            \* the number of POIs to select
          SkipSelected  \* whether an entry of a chosen POI is skipped

ASSUME SelectionAssumption == K \in Nat \ {0} /\ SkipSelected \in BOOLEAN

VARIABLES
  br_usr_table,  \* POI -> its potential users
  heap,          \* the queue
  coverage,      \* POI -> its gain as last computed
  poiMark,       \* POIs not chosen
  poiSet,        \* the POIs chosen, in order
  influence,     \* total_inf
  sel            \* idle, greedy, done, or undefined: a read of an empty queue

vars == <<br_usr_table, heap, coverage, poiMark, poiSet, influence, sel>>

Chosen == ToSet(poiSet)

\* Each Bug... operator is a plausible slip in the definition after it; no
\* action uses one.

\* The POIs whose gain is computed anew once p is chosen.
need_updated_pois(p) == SharingUser(br_usr_table, p) \cap (poiMark \ {p})

BugForgetsEarlier(p, q) == PoiInf(br_usr_table, {p, q}) - PoiInf(br_usr_table, Chosen \cup {p})
\* Gain of Sp + q over that of Sp.
inf_delta(p, q) == LocalGain(br_usr_table, Chosen \cup {p}, q)

Entries(P, cov) == SetToBag({<<q, cov[q]>> : q \in P})

IsTop(e) == e \in BagToSet(heap) /\ \A f \in BagToSet(heap) : f[2] <= e[2]

BugNeverStale(e) == FALSE
Stale(e) == e[2] > coverage[e[1]]

BugNoSkip(e) == FALSE
Skipped(e) == SkipSelected /\ e[1] \notin poiMark

FreshKey(e) == coverage[e[1]]
-----------------------------------------------------------------------------
Init ==
  /\ br_usr_table = <<>> /\ heap = EmptyBag /\ coverage = <<>>
  /\ poiMark = {} /\ poiSet = <<>> /\ influence = 0 /\ sel = "idle"

\* The call, on the table as it is then.
Start(table) ==
  LET alone == [p \in DOMAIN table |-> PoiInf(table, {p})]
  IN  /\ sel # "greedy"
      /\ br_usr_table' = table
      /\ coverage' = alone
      /\ heap' = Entries(DOMAIN table, alone)
      /\ poiMark' = DOMAIN table
      /\ poiSet' = <<>> /\ influence' = 0
      /\ sel' = "greedy"

\* The key of the top is no longer the gain of its POI.
Reinsert ==
  /\ sel = "greedy"
  /\ \E e \in BagToSet(heap) :
       /\ IsTop(e) /\ Stale(e)
       /\ heap' = (heap (-) SetToBag({e})) (+) SetToBag({<<e[1], FreshKey(e)>>})
  /\ UNCHANGED <<br_usr_table, coverage, poiMark, poiSet, influence, sel>>

\* The top is a second entry of a POI chosen already.
Skip ==
  /\ sel = "greedy"
  /\ \E e \in BagToSet(heap) :
       /\ IsTop(e) /\ ~Stale(e) /\ Skipped(e)
       /\ heap' = heap (-) SetToBag({e})
  /\ UNCHANGED <<br_usr_table, coverage, poiMark, poiSet, influence, sel>>

\* Choose the POI of the top, then compute the gains it changes and push
\* them.  After that the greatest gains are taken from a queue of the POIs
\* that remain; with none left its top() is undefined.
Choose ==
  /\ sel = "greedy"
  /\ \E e \in BagToSet(heap) :
       LET p == e[1] IN
       /\ IsTop(e) /\ ~Stale(e) /\ ~Skipped(e)
       /\ \E U \in {need_updated_pois(p)} :
          \E cov \in {[q \in DOMAIN coverage |->
                         IF q \in U THEN inf_delta(p, q) ELSE coverage[q]]} :
            /\ coverage' = cov
            /\ heap' = (heap (-) SetToBag({e})) (+) Entries(U, cov)
       /\ influence' = influence + coverage[p]
       /\ poiSet' = Append(poiSet, p)
       /\ poiMark' = poiMark \ {p}
       /\ sel' = IF poiMark = {p} THEN "undefined"
                 ELSE IF Len(poiSet) + 1 = K THEN "done" ELSE "greedy"
  /\ UNCHANGED br_usr_table

\* heap.top() with no candidate at all.
RunDry ==
  /\ sel = "greedy" /\ heap = EmptyBag
  /\ sel' = "undefined"
  /\ UNCHANGED <<br_usr_table, heap, coverage, poiMark, poiSet, influence>>

Loop == Reinsert \/ Skip \/ Choose \/ RunDry

\* The selection, called on any tables one after the other.
Tables == UNION {[D -> SUBSET Users] : D \in SUBSET Pois}

HopNext == Loop \/ \E table \in Tables : Start(table)

HopSpec == Init /\ [][HopNext]_vars
-----------------------------------------------------------------------------
TypeOK ==
  /\ DOMAIN br_usr_table \subseteq Pois
  /\ \A p \in DOMAIN br_usr_table : br_usr_table[p] \subseteq Users
  /\ \A e \in BagToSet(heap) : e[1] \in DOMAIN br_usr_table /\ e[2] \in Nat
  /\ DOMAIN coverage = DOMAIN br_usr_table
  /\ poiMark = DOMAIN br_usr_table \ Chosen
  /\ Len(poiSet) <= K /\ influence \in Nat

\* No POI is chosen twice, although the queue holds a second entry of every
\* POI whose gain was updated.
SeedsDistinct == IsInjective(poiSet)

\* The gain kept for a POI is never less than what it would add: neither is
\* the key of one of its entries, so that the top, if it is not stale, is a
\* POI that no other one exceeds.
KeysBound ==
  sel = "greedy" =>
    \A q \in poiMark :
      /\ coverage[q] >= LocalGain(br_usr_table, Chosen, q)
      /\ \E e \in BagToSet(heap) : e[1] = q /\ e[2] >= coverage[q]

\* Whether POIs that have a neighbour in common have a user in common.
OverlapsShare(t) ==
  \A p, q \in DOMAIN t :
    HopNeighbors(t[p]) \cap HopNeighbors(t[q]) # {} => t[p] \cap t[q] # {}

OverlapsShareUser == OverlapsShare(br_usr_table)

\* The influence returned is that of the users of the POIs chosen, where
\* POIs that reach the same neighbour share a user; otherwise it is no less,
\* and counts no part of it more than once for each POI chosen.
InfluenceExact ==
  /\ influence >= PoiInf(br_usr_table, Chosen)
  /\ influence <= Len(poiSet) * PoiInf(br_usr_table, Chosen)
  /\ OverlapsShareUser => influence = PoiInf(br_usr_table, Chosen)

\* Every POI chosen adds at least what any other would have added when it
\* was chosen, where POIs that reach the same neighbour share a user.
PicksGreatest ==
  OverlapsShareUser =>
    \A i \in 1 .. Len(poiSet) :
      LET before == {poiSet[j] : j \in 1 .. i-1}
      IN  \A q \in DOMAIN br_usr_table :
            LocalGain(br_usr_table, before, poiSet[i]) >= LocalGain(br_usr_table, before, q)

\* Powers of b.
Power(b) ==
  LET pow[n \in Nat] == IF n = 0 THEN 1 ELSE pow[n-1] * b
  IN  pow

\* What is missing to the influence of any K POIs shrinks with every POI
\* chosen to at most 1 - 1/K of what it was, so that the influence returned
\* is at least 1 - (1 - 1/K)^K of theirs.
GreedyBound ==
  \A P \in SUBSET DOMAIN br_usr_table :
    Cardinality(P) <= K =>
      Power(K)[Len(poiSet)] * (PoiInf(br_usr_table, P) - influence)
        <= Power(K-1)[Len(poiSet)] * PoiInf(br_usr_table, P)
=============================================================================
