------------------------ MODULE PoiSelection_proofs ------------------------
(***************************************************************************)
(* Proofs about PoiSelection, for every set of POIs and users, every K and *)
(* every collection of RR sets.                                            *)
(***************************************************************************)
EXTENDS PoiSelection, FiniteFacts

-----------------------------------------------------------------------------
(* Occurrences and their cardinalities.                                    *)

\* The RR sets that occurrences of p come from, in a set of them.
LEMMA OccurrencesFinite ==
  ASSUME StoreOK, NEW p \in inf_pois, NEW S \in SUBSET RRIds
  PROVE  /\ IsFiniteSet(OccursIn(p, S)) /\ Cardinality(OccursIn(p, S)) \in Nat
         /\ OccursIn(p, S) \subseteq hyperG_POI[p]
<1>1. IsFiniteSet(S)
  BY FS_Subset DEF StoreOK
<1>2. IsFiniteSet(S \X Users)
  BY <1>1, FS_Product, UsersAssumption
<1>3. OccursIn(p, S) \in SUBSET (S \X Users)
  BY DEF OccursIn
<1>4. IsFiniteSet(OccursIn(p, S))
  BY <1>2, <1>3, FS_Subset
<1>5. hyperG_POI[p] = OccursIn(p, RRIds)
  BY DEF StoreOK
<1> QED
  BY <1>4, <1>5, FS_CardinalityType DEF OccursIn

\* The index of a candidate is finite, and so is what is left of it.
LEMMA IndexFinite ==
  ASSUME StoreOK, NEW p \in inf_pois
  PROVE  /\ IsFiniteSet(hyperG_POI[p]) /\ Cardinality(hyperG_POI[p]) \in Nat
         /\ IsFiniteSet(Uncovered(p)) /\ Cardinality(Uncovered(p)) \in Nat
<1>1. hyperG_POI[p] = OccursIn(p, RRIds)
  BY DEF StoreOK
<1>2. IsFiniteSet(hyperG_POI[p])
  BY <1>1, OccurrencesFinite
<1>3. Uncovered(p) \in SUBSET hyperG_POI[p]
  BY DEF Uncovered
<1>4. IsFiniteSet(Uncovered(p))
  BY <1>2, <1>3, FS_Subset
<1> QED
  BY <1>2, <1>4, FS_CardinalityType

\* What a POI newly hits are RR sets.
LEMMA NewlyHitAreRRSets ==
  ASSUME StoreOK, NEW p \in inf_pois
  PROVE  NewlyHit(p) \subseteq RRIds
<1>1. hyperG_POI[p] = OccursIn(p, RRIds)
  BY DEF StoreOK
<1>2. OccursIn(p, RRIds) \subseteq RRIds \X Users
  BY DEF OccursIn
<1>3. \A o \in hyperG_POI[p] : o[1] \in RRIds
  BY <1>1, <1>2
<1> QED
  BY <1>3 DEF NewlyHit

\* Covering the RR sets of NewlyHit(p) takes from q exactly its occurrences
\* in them: the arithmetic of the marking loop (infgraph.h:1366-1379).
LEMMA GainAfter ==
  ASSUME StoreOK, NEW p \in inf_pois, NEW q \in inf_pois
  PROVE  Cardinality({o \in hyperG_POI[q] : o[1] \notin edgeMark \cup NewlyHit(p)})
           = Cardinality(Uncovered(q)) - Cardinality(OccursIn(q, NewlyHit(p)))
<1> DEFINE B == OccursIn(q, NewlyHit(p))
<1>1. hyperG_POI[q] = OccursIn(q, RRIds) /\ hyperG_POI[p] = OccursIn(p, RRIds)
  BY DEF StoreOK
<1>2. NewlyHit(p) \subseteq RRIds
  BY NewlyHitAreRRSets
<1>3. B \subseteq Uncovered(q)
  BY <1>1, <1>2 DEF OccursIn, Uncovered, NewlyHit
<1>4. {o \in hyperG_POI[q] : o[1] \notin edgeMark \cup NewlyHit(p)} = Uncovered(q) \ B
  BY <1>1, <1>2 DEF OccursIn, Uncovered
<1>5. IsFiniteSet(Uncovered(q))
  BY IndexFinite
<1>6. Uncovered(q) \cap B = B
  BY <1>3
<1> QED
  BY <1>4, <1>5, <1>6, FS_Difference

\* The RR sets a POI newly covers are no more than its uncovered occurrences.
LEMMA HitsBoundedByGain ==
  ASSUME StoreOK, NEW p \in inf_pois
  PROVE  /\ IsFiniteSet(NewlyHit(p))
         /\ Cardinality(NewlyHit(p)) \in Nat
         /\ Cardinality(NewlyHit(p)) <= Cardinality(Uncovered(p))
<1> DEFINE f == [o \in Uncovered(p) |-> o[1]]
<1>1. f \in Surjection(Uncovered(p), NewlyHit(p))
  <2>1. f \in [Uncovered(p) -> NewlyHit(p)]
    BY DEF Uncovered, NewlyHit
  <2>2. \A k \in NewlyHit(p) : \E o \in Uncovered(p) : f[o] = k
    BY DEF Uncovered, NewlyHit
  <2> QED
    BY <2>1, <2>2 DEF Surjection
<1>2. IsFiniteSet(Uncovered(p))
  BY IndexFinite
<1>3. IsFiniteSet(NewlyHit(p)) /\ Cardinality(NewlyHit(p)) <= Cardinality(Uncovered(p))
  <2> HIDE DEF f
  <2> QED BY <1>1, <1>2, FS_Surjection
<1> QED
  BY <1>3, FS_CardinalityType

\* Taking one more POI hits the RR sets of its index besides.
LEMMA HitsOfOneMore ==
  ASSUME StoreOK, NEW T \in SUBSET inf_pois, NEW p \in inf_pois
  PROVE  HitBy(T \cup {p}) = HitBy(T) \cup {o[1] : o \in hyperG_POI[p]}
<1>1. hyperG_POI[p] = OccursIn(p, RRIds)
  BY DEF StoreOK
<1>2. {o[1] : o \in hyperG_POI[p]} = {i \in RRIds : \E u \in Users : <<p, u>> \in hyperGT_POI[i]}
  <2>1. ASSUME NEW o \in hyperG_POI[p]
        PROVE  o[1] \in RRIds /\ \E u \in Users : <<p, u>> \in hyperGT_POI[o[1]]
    BY <1>1, <2>1 DEF OccursIn
  <2>2. ASSUME NEW i \in RRIds, NEW u \in Users, <<p, u>> \in hyperGT_POI[i]
        PROVE  \E o \in hyperG_POI[p] : o[1] = i
    <3>1. <<i, u>> \in hyperG_POI[p]
      BY <1>1, <2>2 DEF OccursIn
    <3> QED BY <3>1
  <2> QED BY <2>1, <2>2
<1> QED
  BY <1>2 DEF HitBy

-----------------------------------------------------------------------------
(* The inductive invariant: the invariants of the run together.  A key     *)
(* bounds a gain only because a gain is a number of uncovered occurrences, *)
(* which marking never increases.                                          *)

IInv == TypeOK /\ CoverageIsMarginal /\ KeysBoundGains /\ InfluenceCountsHits
          /\ SelectionSound

\* The POIs taken once p is.
LEMMA TakenOneMore ==
  ASSUME TypeOK, Selecting, NEW p \in inf_pois, poiSet' = Append(poiSet, p)
  PROVE  TakenPois' = TakenPois \cup {p}
<1>1. poiSet \in Seq(inf_pois)
  BY DEF TypeOK
<1>2. /\ DOMAIN poiSet' = DOMAIN poiSet \cup {Len(poiSet) + 1}
      /\ \A j \in DOMAIN poiSet : poiSet'[j] = poiSet[j]
      /\ poiSet'[Len(poiSet) + 1] = p
  BY <1>1
<1>3. ASSUME NEW q \in TakenPois' PROVE q \in TakenPois \cup {p}
  BY <1>2, <1>3 DEF TakenPois
<1>4. ASSUME NEW q \in TakenPois \cup {p} PROVE q \in TakenPois'
  BY <1>2, <1>4 DEF TakenPois
<1> QED BY <1>3, <1>4

\* A sequence has no more elements than its length.
LEMMA TakenAtMost ==
  ASSUME NEW S, NEW s \in Seq(S)
  PROVE  LET T == {s[j] : j \in DOMAIN s}
         IN  IsFiniteSet(T) /\ Cardinality(T) <= Len(s)
<1> DEFINE T == {s[j] : j \in DOMAIN s}
<1>1. IsFiniteSet(1..Len(s)) /\ Cardinality(1..Len(s)) = Len(s)
  <2> DEFINE n == Len(s)
  <2>1. n \in Nat /\ 1 \in Int
    OBVIOUS
  <2> HIDE DEF n
  <2>2. n \in Int
    BY <2>1
  <2>3. IsFiniteSet(1..n) /\ Cardinality(1..n) = IF 1 > n THEN 0 ELSE n - 1 + 1
    BY <2>1, <2>2, FS_Interval, Zenon
  <2>4. Cardinality(1..n) = n
    BY <2>1, <2>3
  <2> QED BY <2>3, <2>4 DEF n
<1>2. s \in Surjection(1..Len(s), T)
  BY DEF Surjection
<1> HIDE DEF T
<1>3. IsFiniteSet(T) /\ Cardinality(T) <= Cardinality(1..Len(s))
  BY <1>1, <1>2, FS_Surjection
<1> QED BY <1>1, <1>3 DEF T

\* Filling the queue starts every gain at the whole index.
LEMMA BeginEstablishes == Begin => IInv'
<1> SUFFICES ASSUME Begin PROVE IInv'
  OBVIOUS
<1> USE DEF Begin, Fill, storeVars
<1>1. Selecting' /\ Selecting' = (sel' \in {"greedy", "done", "crashed"})
  BY DEF Selecting
<1>2. StoreOK'
  BY DEF StoreOK, RRIds, OccursIn
<1>3. \A p \in inf_pois : InitialGain(p) \in Nat
  BY IndexFinite DEF InitialGain
<1>4. TypeOK'
  BY <1>2, <1>3 DEF TypeOK, Selecting
<1>5. \A q \in inf_pois : Uncovered(q)' = hyperG_POI[q]
  BY DEF Uncovered
<1>6. CoverageIsMarginal'
  BY <1>5 DEF CoverageIsMarginal, InitialGain
<1>7. KeysBoundGains'
  BY <1>3 DEF KeysBoundGains
<1>8. TakenPois' = {}
  BY DEF TakenPois
<1>9. InfluenceCountsHits'
  <2>1. HitBy(TakenPois)' = {}
    BY <1>8 DEF HitBy
  <2> QED BY <2>1, FS_EmptySet DEF InfluenceCountsHits
<1>10. SelectionSound'
  BY <1>8, KAssumption DEF SelectionSound
<1> QED
  BY <1>4, <1>6, <1>7, <1>9, <1>10 DEF IInv

\* Taking the top, whatever is done about the bound.
LEMMA TakeKeeps ==
  ASSUME IInv, NEW p \in inf_pois, Take(p),
         \/ sel' = sel
         \/ sel' = "crashed" /\ Remaining(p) = {}
  PROVE  IInv'
<1> USE DEF Take, InLoop, storeVars
<1>1. Selecting /\ Selecting' /\ sel = "greedy" /\ sel' # "done"
  BY DEF Selecting
<1>2. StoreOK /\ StoreOK'
  BY <1>1 DEF IInv, TypeOK, StoreOK, RRIds, OccursIn
<1>3. /\ coverage \in [inf_pois -> Nat] /\ poiMark \subseteq inf_pois
      /\ heap \in [poiMark -> Nat] /\ poiSet \in Seq(inf_pois)
      /\ edgeMark \subseteq RRIds /\ influence \in Nat
  BY <1>1 DEF IInv, TypeOK
<1>4. p \in poiMark
  BY <1>3 DEF IsTop
<1>5. ASSUME NEW q \in inf_pois
      PROVE  Cardinality(Uncovered(q)') =
               Cardinality(Uncovered(q)) - Cardinality(OccursIn(q, NewlyHit(p)))
  BY <1>2, GainAfter DEF Uncovered
<1>6. NewlyHit(p) \subseteq RRIds
  BY <1>2, NewlyHitAreRRSets
<1>7. ASSUME NEW q \in inf_pois
      PROVE  /\ Cardinality(Uncovered(q)') \in Nat
             /\ Cardinality(OccursIn(q, NewlyHit(p))) \in Nat
  <2>1. IsFiniteSet(Uncovered(q)) /\ Cardinality(OccursIn(q, NewlyHit(p))) \in Nat
    BY <1>2, <1>6, IndexFinite, OccurrencesFinite
  <2>2. Uncovered(q)' \in SUBSET Uncovered(q)
    BY DEF Uncovered
  <2> QED BY <2>1, <2>2, FS_Subset, FS_CardinalityType
<1>8. \A q \in poiMark' : coverage'[q] = Cardinality(Uncovered(q)')
  BY <1>1, <1>3, <1>5 DEF CoverageAfter, IInv, CoverageIsMarginal
<1>9. coverage' \in [inf_pois -> Nat]
  BY <1>3, <1>7, <1>8 DEF CoverageAfter
<1>10. TypeOK'
  <2>1. heap' \in [poiMark' -> Nat]
    BY <1>3 DEF Popped
  <2>2. influence' \in Nat
    BY <1>3 DEF Gain
  <2>3. edgeMark' \subseteq RRIds'
    BY <1>3, <1>6 DEF RRIds
  <2> QED
    BY <1>1, <1>2, <1>3, <1>9, <2>1, <2>2, <2>3 DEF TypeOK, Selecting
<1>11. CoverageIsMarginal'
  BY <1>8 DEF CoverageIsMarginal
<1>12. KeysBoundGains'
  <2>1. ASSUME NEW q \in poiMark' PROVE heap'[q] >= coverage'[q]
    <3>1. q \in poiMark \ {p} /\ q \in inf_pois
      BY <1>3
    <3>2. heap'[q] = heap[q] /\ heap[q] >= coverage[q]
      BY <1>1, <1>3, <3>1 DEF Popped, IInv, KeysBoundGains
    <3>3. coverage'[q] = coverage[q] - Cardinality(OccursIn(q, NewlyHit(p)))
      BY <3>1 DEF CoverageAfter
    <3> QED BY <1>3, <1>7, <3>1, <3>2, <3>3
  <2> QED BY <2>1 DEF KeysBoundGains
<1>13. TakenPois' = TakenPois \cup {p} /\ TakenPois \subseteq inf_pois
  <2>1. TypeOK
    BY DEF IInv
  <2>2. TakenPois \subseteq inf_pois
    BY <1>3 DEF TakenPois
  <2> QED BY <1>1, <2>1, <2>2, TakenOneMore
<1>14. InfluenceCountsHits'
  <2>1. edgeMark' = HitBy(TakenPois \cup {p})
    <3>1. HitBy(TakenPois \cup {p}) = HitBy(TakenPois) \cup {o[1] : o \in hyperG_POI[p]}
      BY <1>2, <1>13, HitsOfOneMore
    <3>2. edgeMark = HitBy(TakenPois)
      BY <1>1 DEF IInv, InfluenceCountsHits
    <3>3. edgeMark' = edgeMark \cup ({o[1] : o \in hyperG_POI[p]} \ edgeMark)
      BY DEF NewlyHit
    <3> QED BY <3>1, <3>2, <3>3
  <2>2. HitBy(TakenPois)' = HitBy(TakenPois \cup {p})
    BY <1>13 DEF HitBy, RRIds
  <2>3. IsFiniteSet(edgeMark)
    BY <1>2, <1>3, FS_Subset DEF StoreOK
  <2>4. IsFiniteSet(NewlyHit(p)) /\ Cardinality(NewlyHit(p)) <= Cardinality(Uncovered(p))
    BY <1>2, HitsBoundedByGain
  <2>5. edgeMark \cap NewlyHit(p) = {}
    BY DEF NewlyHit
  <2>6. Cardinality(edgeMark') = Cardinality(edgeMark) + Cardinality(NewlyHit(p))
    <3>1. Cardinality(edgeMark \cup NewlyHit(p)) = Cardinality(edgeMark)
             + Cardinality(NewlyHit(p)) - Cardinality(edgeMark \cap NewlyHit(p))
      BY <2>3, <2>4, FS_Union
    <3>2. Cardinality(edgeMark \cap NewlyHit(p)) = 0
      BY <2>5, FS_EmptySet
    <3>3. Cardinality(edgeMark) \in Nat /\ Cardinality(NewlyHit(p)) \in Nat
      BY <2>3, <2>4, FS_CardinalityType
    <3> QED BY <3>1, <3>2, <3>3
  <2>7. Cardinality(Uncovered(p)) = coverage[p]
    BY <1>1, <1>4 DEF IInv, CoverageIsMarginal
  <2>8. Cardinality(edgeMark) <= influence
    BY <1>1 DEF IInv, InfluenceCountsHits
  <2>9. Cardinality(edgeMark) \in Nat /\ Cardinality(NewlyHit(p)) \in Nat
    BY <2>3, <2>4, FS_CardinalityType
  <2>10. Cardinality(edgeMark') <= influence'
    BY <1>3, <2>4, <2>6, <2>7, <2>8, <2>9 DEF Gain
  <2> QED BY <2>1, <2>2, <2>10 DEF InfluenceCountsHits
<1>15. SelectionSound'
  <2>1. poiMark' = (inf_pois \ TakenPois)'
    BY <1>1, <1>13 DEF IInv, SelectionSound
  <2>2. p \notin TakenPois
    BY <1>1, <1>4 DEF IInv, SelectionSound
  <2>3. ASSUME NEW j \in DOMAIN poiSet', NEW l \in DOMAIN poiSet', poiSet'[j] = poiSet'[l]
        PROVE  j = l
    <3>1. /\ DOMAIN poiSet' = 1 .. Len(poiSet) + 1 /\ poiSet'[Len(poiSet) + 1] = p
          /\ \A m \in 1 .. Len(poiSet) : poiSet'[m] = poiSet[m] /\ poiSet[m] \in TakenPois
      BY <1>3 DEF TakenPois
    <3>2. \A m, o \in DOMAIN poiSet : poiSet[m] = poiSet[o] => m = o
      BY <1>1 DEF IInv, SelectionSound
    <3> QED BY <1>3, <2>2, <2>3, <3>1, <3>2
  <2>4. Len(poiSet') = Len(poiSet) + 1 /\ Len(poiSet') <= K
    BY <1>3, KAssumption
  <2>5. sel' = "crashed" => Cardinality(inf_pois') <= K
    <3> SUFFICES ASSUME sel' = "crashed" PROVE Cardinality(inf_pois) <= K
      OBVIOUS
    <3>1. inf_pois = TakenPois'
      BY <1>1, <1>3, <1>13, <2>1 DEF Remaining
    <3>2. poiSet' \in Seq(inf_pois)
      BY <1>3
    <3>3. /\ IsFiniteSet(TakenPois') /\ Cardinality(TakenPois') <= Len(poiSet')
      BY <3>2, TakenAtMost DEF TakenPois
    <3>4. Cardinality(TakenPois') \in Nat
      BY <3>3, FS_CardinalityType
    <3> QED BY <1>3, <2>4, <3>1, <3>3, <3>4, KAssumption
  <2> QED BY <1>1, <2>1, <2>3, <2>4, <2>5 DEF SelectionSound
<1> QED
  BY <1>10, <1>11, <1>12, <1>14, <1>15 DEF IInv

\* A refresh of the key at the top: it becomes the gain and stays a bound.
LEMMA RefreshKeeps ==
  ASSUME IInv, NEW p \in inf_pois, Refresh(p)
  PROVE  IInv'
<1> USE DEF Refresh, InLoop, storeVars
<1>1. Selecting /\ Selecting' /\ sel' = "greedy"
  BY DEF Selecting
<1>2. TypeOK /\ coverage \in [inf_pois -> Nat] /\ heap \in [poiMark -> Nat]
  BY <1>1 DEF IInv, TypeOK
<1>3. heap' \in [poiMark -> Nat]
  BY <1>2 DEF FreshKey
<1>4. StoreOK'
  BY <1>1, <1>2 DEF TypeOK, StoreOK, RRIds, OccursIn
<1>5. TypeOK'
  BY <1>1, <1>2, <1>3, <1>4 DEF TypeOK, RRIds
<1>6. \A q \in poiMark : heap'[q] >= coverage'[q]
  BY <1>1, <1>2 DEF FreshKey, TypeOK, IInv, KeysBoundGains
<1>7. KeysBoundGains'
  BY <1>6 DEF KeysBoundGains
<1>8. CoverageIsMarginal'
  BY <1>1 DEF IInv, CoverageIsMarginal, Uncovered
<1>9. TakenPois' = TakenPois
  BY DEF TakenPois
<1>10. InfluenceCountsHits'
  BY <1>1, <1>9 DEF IInv, InfluenceCountsHits, HitBy, RRIds
<1>11. SelectionSound'
  BY <1>1, <1>9 DEF IInv, SelectionSound
<1> QED
  BY <1>5, <1>7, <1>8, <1>10, <1>11 DEF IInv

\* The return of the selection ends the loop and leaves what was taken.
LEMMA ReturnKeeps ==
  ASSUME IInv, Return
  PROVE  IInv'
<1> USE DEF Return, storeVars
<1>1. Selecting /\ Selecting' /\ sel' = "done"
  BY DEF Selecting
<1>2. TypeOK
  BY DEF IInv
<1>3. StoreOK'
  BY <1>1, <1>2 DEF TypeOK, StoreOK, RRIds, OccursIn
<1>4. TypeOK'
  BY <1>1, <1>2, <1>3 DEF TypeOK, RRIds
<1>5. CoverageIsMarginal' /\ KeysBoundGains'
  BY <1>1 DEF IInv, CoverageIsMarginal, KeysBoundGains, Uncovered
<1>6. TakenPois' = TakenPois
  BY DEF TakenPois
<1>7. InfluenceCountsHits'
  BY <1>1, <1>6 DEF IInv, InfluenceCountsHits, HitBy, RRIds
<1>8. Len(poiSet) = K
  BY <1>1, <1>2, KAssumption DEF TypeOK, IInv, SelectionSound
<1>9. SelectionSound'
  BY <1>1, <1>6, <1>8 DEF IInv, SelectionSound
<1> QED
  BY <1>4, <1>5, <1>7, <1>9 DEF IInv

\* Between calls nothing is owed.
LEMMA IdleSafe ==
  ASSUME sel = "idle"
  PROVE  IInv
BY DEF IInv, TypeOK, CoverageIsMarginal, KeysBoundGains, InfluenceCountsHits,
       SelectionSound, Selecting

\* A step that changes nothing, or ends before it matters.
LEMMA StutterKeeps == IInv /\ UNCHANGED vars => IInv'
<1> SUFFICES ASSUME IInv, UNCHANGED vars PROVE IInv'
  OBVIOUS
<1>1. Selecting' = Selecting
  BY DEF vars, loopVars, Selecting
<1>2. TypeOK'
  BY DEF IInv, TypeOK, StoreOK, RRIds, OccursIn, Selecting, vars, storeVars, loopVars
<1>3. CoverageIsMarginal' /\ KeysBoundGains'
  BY <1>1 DEF IInv, CoverageIsMarginal, KeysBoundGains, Uncovered, vars, storeVars, loopVars
<1>4. TakenPois' = TakenPois
  BY DEF TakenPois, vars, loopVars
<1>5. InfluenceCountsHits'
  BY <1>1, <1>4 DEF IInv, InfluenceCountsHits, HitBy, RRIds, vars, storeVars, loopVars
<1>6. SelectionSound'
  BY <1>1, <1>4 DEF IInv, SelectionSound, vars, storeVars, loopVars
<1> QED BY <1>2, <1>3, <1>5, <1>6 DEF IInv

\* The invariant is inductive.
LEMMA NextKeeps == IInv /\ [Next]_vars => IInv'
<1> SUFFICES ASSUME IInv, [Next]_vars PROVE IInv'
  OBVIOUS
<1>1. CASE Begin
  BY <1>1, BeginEstablishes
<1>2. ASSUME NEW p \in inf_pois, Refresh(p) PROVE IInv'
  BY <1>2, RefreshKeeps
<1>3. ASSUME NEW p \in inf_pois, TakePoi(p) PROVE IInv'
  <2>1. Take(p) /\ sel' = sel
    BY <1>3 DEF TakePoi
  <2> QED BY <2>1, TakeKeeps
<1>4. ASSUME NEW p \in inf_pois, TakeLastPoi(p) PROVE IInv'
  <2>1. Take(p) /\ sel' = "crashed" /\ Remaining(p) = {}
    BY <1>4 DEF TakeLastPoi
  <2> QED BY <2>1, TakeKeeps
<1>5. CASE Return
  BY <1>5, ReturnKeeps
<1>6. CASE Resample
  <2>1. sel' = "idle"
    BY <1>6 DEF Resample
  <2> QED
    BY <2>1 DEF IInv, TypeOK, CoverageIsMarginal, KeysBoundGains, InfluenceCountsHits,
                SelectionSound, Selecting
<1>7. CASE UNCHANGED vars
  BY <1>7, StutterKeeps
<1> QED
  BY <1>1, <1>2, <1>3, <1>4, <1>5, <1>6, <1>7 DEF Next, LoopStep

\* Every invariant of the run holds of every selection on every collection
\* of RR sets.
THEOREM Invariant == Spec => []IInv
<1>1. Init => IInv
  BY IdleSafe DEF Init
<1> QED BY <1>1, NextKeeps, PTL DEF Spec

\* The state keeps its shape; in particular the queue holds exactly the POIs
\* not taken (infgraph.h:1338-1360).
THEOREM TypeCorrect == Spec => []TypeOK
<1>1. IInv => TypeOK
  BY DEF IInv
<1> QED BY <1>1, Invariant, PTL

\* The marking loop keeps every gain exact (infgraph.h:1366-1379).
THEOREM CoverageExact == Spec => []CoverageIsMarginal
<1>1. IInv => CoverageIsMarginal
  BY DEF IInv
<1> QED BY <1>1, Invariant, PTL

\* A stale key is never too small (infgraph.h:1345-1352).
THEOREM LazyKeysSound == Spec => []KeysBoundGains
<1>1. IInv => KeysBoundGains
  BY DEF IInv
<1> QED BY <1>1, Invariant, PTL

\* The influence returned accounts for every RR set hit (infgraph.h:1356-1379).
THEOREM InfluenceSound == Spec => []InfluenceCountsHits
<1>1. IInv => InfluenceCountsHits
  BY DEF IInv
<1> QED BY <1>1, Invariant, PTL

\* K distinct POIs are returned, and only too few candidates end in the null
\* dereference (infgraph.h:1338-1404).
THEOREM SelectionCorrect == Spec => []SelectionSound
<1>1. IInv => SelectionSound
  BY DEF IInv
<1> QED BY <1>1, Invariant, PTL

\* Lazy greedy is greedy: the top of the queue, not stale, has the greatest
\* gain although other keys may be out of date.
LEMMA TopIsGreatest ==
  ASSUME IInv, NEW p \in inf_pois, sel = "greedy", IsTop(p), ~Stale(p),
         NEW q \in poiMark
  PROVE  Cardinality(Uncovered(q)) <= Cardinality(Uncovered(p))
<1>1. /\ coverage \in [inf_pois -> Nat] /\ heap \in [poiMark -> Nat]
      /\ poiMark \subseteq inf_pois
  BY DEF IInv, TypeOK, Selecting
<1>2. p \in poiMark /\ heap[q] <= heap[p]
  BY <1>1 DEF IsTop
<1>3. coverage[q] <= heap[q] /\ heap[p] <= coverage[p]
  BY <1>1, <1>2 DEF IInv, KeysBoundGains, Selecting, Stale
<1>4. coverage[q] = Cardinality(Uncovered(q)) /\ coverage[p] = Cardinality(Uncovered(p))
  BY <1>2 DEF IInv, CoverageIsMarginal, Selecting
<1> QED BY <1>1, <1>2, <1>3, <1>4

\* Every POI the greedy selection appends has, when it is appended, the
\* greatest gain of all that are left (popPOI and the stale-key test of
\* do_poiSelection_UB).
THEOREM GreedyChoice == Spec => SelectsMaxGain
<1> DEFINE Best == \A p \in inf_pois :
             sel = "greedy" /\ poiSet' = Append(poiSet, p) =>
               \A q \in poiMark :
                 Cardinality(Uncovered(q)) <= Cardinality(Uncovered(p))
<1>1. IInv /\ [Next]_vars => [Best]_vars
  <2> SUFFICES ASSUME IInv, [Next]_vars, NEW p \in inf_pois, sel = "greedy",
                      poiSet' = Append(poiSet, p), NEW q \in poiMark
               PROVE  Cardinality(Uncovered(q)) <= Cardinality(Uncovered(p))
    OBVIOUS
  <2>1. poiSet \in Seq(inf_pois) /\ poiSet' # poiSet
    <3>1. poiSet \in Seq(inf_pois)
      BY DEF IInv, TypeOK, Selecting
    <3> QED BY <3>1
  <2>2. PICK r \in inf_pois : Take(r)
    BY <2>1 DEF Next, LoopStep, Begin, Fill, Refresh, TakePoi, TakeLastPoi, Return,
                Resample, vars, loopVars
  <2>3. poiSet' = Append(poiSet, r) /\ IsTop(r) /\ ~Stale(r)
    BY <2>2 DEF Take
  <2>4. r = p
    <3>1. /\ Append(poiSet, p)[Len(poiSet) + 1] = p
          /\ Append(poiSet, r)[Len(poiSet) + 1] = r
      BY <2>1
    <3> QED BY <2>3, <3>1
  <2> QED BY <2>3, <2>4, TopIsGreatest
<1> QED BY <1>1, Invariant, PTL DEF Spec, SelectsMaxGain

-----------------------------------------------------------------------------
(* The bound of OPIM.  What any K candidates cover is what is covered, and *)
(* at most the gains of those of them that are not taken, of which the     *)
(* second queue adds up the K greatest.                                    *)

\* SumGains, written with the fold of the library, is the Total of the lemmas.
LEMMA SumIsTotal == \A cov, S : SumGains(cov, S) = Total(cov, S)
BY DEF SumGains, Total, MapThenSumSet, MapThenFoldSet

\* Candidates not taken, K of them at most, have no greater gains together
\* than the K greatest (infgraph.h:1381-1399).
LEMMA TopKIsGreatest ==
  ASSUME NEW S, IsFiniteSet(S), S # {}, NEW cov, \A q \in S : cov[q] \in Nat,
         NEW R \in SUBSET S, Cardinality(R) <= K
  PROVE  TopKGains(cov, S) \in Nat /\ Total(cov, R) <= TopKGains(cov, S)
<1>1. /\ Cardinality(S) \in Nat
      /\ \A T \in SUBSET S : IsFiniteSet(T) /\ Total(cov, T) \in Nat /\ Total(cov, T) <= Total(cov, S)
  <2>1. Cardinality(S) \in Nat
    BY FS_CardinalityType
  <2>2. ASSUME NEW T \in SUBSET S
        PROVE  IsFiniteSet(T) /\ Total(cov, T) \in Nat /\ Total(cov, T) <= Total(cov, S)
    <3>1. IsFiniteSet(T) /\ \A q \in T : cov[q] \in Nat /\ cov[q] <= cov[q]
      BY FS_Subset
    <3> QED BY <3>1, TotalRemove, TotalMonotonic
  <2> QED BY <2>1, <2>2
<1>2. CASE Cardinality(S) >= K
  <2> DEFINE sums == {SumGains(cov, T) : T \in kSubset(K, S)}
  <2>1. PICK T \in kSubset(K, S) : R \subseteq T
    BY <1>2, EnlargeTo, KAssumption
  <2>2. \A U \in kSubset(K, S) : U \in SUBSET S
    BY DEF kSubset
  <2>3. sums \in SUBSET Int /\ \A x \in sums : x \in Nat
    BY <1>1, <2>2, SumIsTotal
  <2>4. IsFiniteSet(sums) /\ sums # {}
    <3>1. IsFiniteSet(SUBSET S)
      BY FS_SUBSET
    <3>2. IsFiniteSet(kSubset(K, S))
      BY <2>2, <3>1, FS_Subset
    <3> DEFINE sum == [V \in kSubset(K, S) |-> SumGains(cov, V)]
    <3>3. IsFiniteSet({sum[V] : V \in kSubset(K, S)})
      <4> HIDE DEF sum
      <4> QED BY <3>2, ImageFinite
    <3>4. sums = {sum[V] : V \in kSubset(K, S)}
      OBVIOUS
    <3> QED BY <2>1, <3>3, <3>4
  <2>5. Max(sums) \in sums /\ \A x \in sums : x <= Max(sums)
    <3> HIDE DEF sums
    <3> QED BY <2>3, <2>4, MaxIsGreatest
  <2>6. Total(cov, T) \in sums
    BY <2>1, SumIsTotal
  <2>7. Total(cov, R) <= Total(cov, T)
    <3>1. T \in SUBSET S /\ IsFiniteSet(T) /\ R \in SUBSET T
      BY <1>1, <2>1, <2>2
    <3>2. \A x \in T : cov[x] \in Nat
      BY <3>1
    <3>3. \A x \in R : cov[x] <= cov[x]
      BY <3>1, <3>2
    <3> QED BY <3>1, <3>2, <3>3, TotalMonotonic
  <2>8. TopKGains(cov, S) = Max(sums)
    BY <1>2 DEF TopKGains
  <2>9. Total(cov, R) \in Nat /\ Total(cov, T) \in Nat /\ Max(sums) \in Nat /\ Total(cov, T) <= Max(sums)
    BY <1>1, <2>1, <2>2, <2>3, <2>5, <2>6
  <2> HIDE DEF sums
  <2> QED BY <2>7, <2>8, <2>9
<1>3. CASE ~ (Cardinality(S) >= K)
  <2> DEFINE gains == {cov[q] : q \in S}
             rest == (K - Cardinality(S)) * Min(gains)
  <2>1. gains \in SUBSET Nat /\ gains # {}
    OBVIOUS
  <2>2. Min(gains) \in Nat
    <3> HIDE DEF gains
    <3> QED BY <2>1, MinIsLeast
  <2>3. K - Cardinality(S) \in Nat
    BY <1>1, <1>3, KAssumption
  <2>4. rest \in Nat
    <3> HIDE DEF gains
    <3> QED BY <2>2, <2>3
  <2>5. TopKGains(cov, S) = Total(cov, S) + rest
    BY <1>3, SumIsTotal DEF TopKGains
  <2> HIDE DEF rest
  <2> QED BY <1>1, <2>4, <2>5
<1> QED BY <1>2, <1>3

\* At any time, what K candidates hit is bounded by what is hit and the K
\* greatest gains.
NowBounded ==
  /\ influence + TopKGains(coverage, poiMark) \in Nat
  /\ \A S \in SUBSET inf_pois :
       Cardinality(S) <= K =>
         Cardinality(HitBy(S)) <= influence + TopKGains(coverage, poiMark)

\* While the selection runs, what is hit and the K greatest gains bound what
\* any K candidates hit.
LEMMA GainsBoundHits == IInv /\ Selecting /\ poiMark # {} => NowBounded
<1> SUFFICES ASSUME IInv, Selecting, poiMark # {}, NEW S \in SUBSET inf_pois, Cardinality(S) <= K
             PROVE  /\ influence + TopKGains(coverage, poiMark) \in Nat
                    /\ Cardinality(HitBy(S)) <= influence + TopKGains(coverage, poiMark)
  <2>1. {} \in SUBSET inf_pois /\ Cardinality({}) <= K
    BY FS_EmptySet, KAssumption
  <2> QED BY <2>1 DEF NowBounded
<1>1. /\ StoreOK /\ coverage \in [inf_pois -> Nat] /\ poiMark \subseteq inf_pois
      /\ edgeMark \subseteq RRIds /\ influence \in Nat
  BY DEF IInv, TypeOK
<1>2. IsFiniteSet(inf_pois) /\ IsFiniteSet(poiMark) /\ IsFiniteSet(S)
  BY <1>1, PoisAssumption, FS_Subset DEF StoreOK
<1> DEFINE R == S \cap poiMark
           A == [q \in R |-> NewlyHit(q)]
           hits == UNION {A[q] : q \in R}
<1>3. R \in SUBSET poiMark /\ R \in SUBSET S /\ IsFiniteSet(R)
  BY <1>2, FS_Subset
<1>4. Cardinality(R) <= K
  <2>1. Cardinality(R) <= Cardinality(S) /\ Cardinality(R) \in Nat /\ Cardinality(S) \in Nat
    BY <1>2, <1>3, FS_Subset, FS_CardinalityType
  <2> QED BY <2>1, KAssumption
<1>5. \A q \in R : coverage[q] \in Nat /\ IsFiniteSet(A[q]) /\ Cardinality(A[q]) <= coverage[q]
  <2> SUFFICES ASSUME NEW q \in R
               PROVE  coverage[q] \in Nat /\ IsFiniteSet(A[q]) /\ Cardinality(A[q]) <= coverage[q]
    OBVIOUS
  <2>1. q \in inf_pois /\ q \in poiMark
    BY <1>1
  <2>2. IsFiniteSet(NewlyHit(q)) /\ Cardinality(NewlyHit(q)) <= Cardinality(Uncovered(q))
    BY <1>1, <2>1, HitsBoundedByGain
  <2>3. coverage[q] = Cardinality(Uncovered(q))
    BY <2>1 DEF IInv, CoverageIsMarginal
  <2> QED BY <1>1, <2>1, <2>2, <2>3
<1>6. IsFiniteSet(hits) /\ Cardinality(hits) <= Total(coverage, R) /\ Total(coverage, R) \in Nat
  <2>1. /\ \A q \in R : coverage[q] \in Nat /\ Cardinality(A[q]) <= coverage[q]
        /\ \A q \in R : IsFiniteSet(A[q])
        /\ \A q \in R : coverage[q] \in Nat
    BY <1>5
  <2> HIDE DEF A, R
  <2>2. IsFiniteSet(hits) /\ Cardinality(hits) <= Total(coverage, R)
    BY <1>3, <2>1, UnionBound
  <2>3. Total(coverage, R) \in Nat
    BY <1>3, <2>1, TotalRemove
  <2> QED BY <2>2, <2>3
<1>7. HitBy(S) \subseteq edgeMark \cup hits
  <2>1. edgeMark = HitBy(TakenPois) /\ poiMark = inf_pois \ TakenPois
    BY DEF IInv, InfluenceCountsHits, SelectionSound
  <2>2. ASSUME NEW k \in HitBy(S), k \notin edgeMark
        PROVE  k \in hits
    <3>1. PICK q \in S, u \in Users : k \in RRIds /\ <<q, u>> \in hyperGT_POI[k]
      BY <2>2 DEF HitBy
    <3>2. q \notin TakenPois
      BY <2>1, <2>2, <3>1 DEF HitBy
    <3>3. q \in R
      BY <2>1, <3>1, <3>2
    <3>4. hyperG_POI[q] = OccursIn(q, RRIds)
      BY <1>1, <3>3 DEF StoreOK
    <3>5. <<k, u>> \in hyperG_POI[q]
      BY <3>1, <3>4 DEF OccursIn
    <3>6. k \in NewlyHit(q)
      BY <2>2, <3>5 DEF NewlyHit
    <3> QED BY <3>3, <3>6
  <2> QED BY <2>2
<1>8. IsFiniteSet(edgeMark) /\ Cardinality(edgeMark) <= influence /\ Cardinality(edgeMark) \in Nat
  BY <1>1, FS_Subset, FS_CardinalityType DEF StoreOK, IInv, InfluenceCountsHits
<1>9. Cardinality(HitBy(S)) <= Cardinality(edgeMark) + Cardinality(hits)
  <2> HIDE DEF hits
  <2>1. /\ IsFiniteSet(edgeMark \cup hits)
        /\ Cardinality(edgeMark \cup hits) =
             Cardinality(edgeMark) + Cardinality(hits) - Cardinality(edgeMark \cap hits)
    BY <1>6, <1>8, FS_Union
  <2>2. Cardinality(edgeMark \cap hits) \in Nat /\ Cardinality(hits) \in Nat
    BY <1>6, <1>8, FS_Intersection, FS_CardinalityType
  <2>3. IsFiniteSet(HitBy(S)) /\ Cardinality(HitBy(S)) <= Cardinality(edgeMark \cup hits)
    BY <1>7, <2>1, FS_Subset
  <2>4. Cardinality(HitBy(S)) \in Nat /\ Cardinality(edgeMark \cup hits) \in Nat
    BY <2>1, <2>3, FS_CardinalityType
  <2> QED BY <1>8, <2>1, <2>2, <2>3, <2>4
<1>10. TopKGains(coverage, poiMark) \in Nat /\ Total(coverage, R) <= TopKGains(coverage, poiMark)
  <2>1. \A q \in poiMark : coverage[q] \in Nat
    BY <1>1
  <2> HIDE DEF R
  <2> QED BY <1>2, <1>3, <1>4, <2>1, TopKIsGreatest
<1>11. IsFiniteSet(HitBy(S)) /\ Cardinality(HitBy(S)) \in Nat /\ Cardinality(hits) \in Nat
  <2>1. HitBy(S) \subseteq RRIds
    BY DEF HitBy
  <2>2. IsFiniteSet(HitBy(S))
    BY <1>1, <2>1, FS_Subset DEF StoreOK
  <2> HIDE DEF hits
  <2> QED BY <1>6, <2>2, FS_CardinalityType
<1> HIDE DEF hits, R
<1> QED BY <1>1, <1>6, <1>8, <1>9, <1>10, <1>11

\* The same of the state a step leads to.
LEMMA GainsBoundNext == (IInv /\ Selecting /\ poiMark # {} => NowBounded)'
BY GainsBoundHits, PTL

BoundInv == UpperBoundHolds /\ (Selecting => influence_upper \in Nat \cup {-1})

\* A new bound is one in the state it leads to, an older one stays one.
LEMMA BoundTaken ==
  ASSUME IInv, IInv', BoundInv, NEW p \in inf_pois, TakePoi(p)
  PROVE  BoundInv'
<1>1. Selecting /\ Selecting' /\ inf_pois' = inf_pois /\ hyperGT_POI' = hyperGT_POI
  BY DEF TakePoi, Take, InLoop, Selecting, storeVars
<1>2. Bound(p) = (influence + TopKGains(coverage, poiMark))'
  <2>1. influence' = influence + Gain(p) /\ coverage' = CoverageAfter(p) /\ poiMark' = Remaining(p)
    BY DEF TakePoi, Take, Remaining
  <2> QED BY <2>1 DEF Bound
<1>3. NowBounded'
  <2>1. poiMark' # {}
    BY DEF TakePoi, Take, Remaining
  <2> QED BY <1>1, <2>1, GainsBoundNext
<1>4. \A S : HitBy(S)' = HitBy(S)
  BY <1>1 DEF HitBy, RRIds
<1>5. Bound(p) \in Nat
  BY <1>2, <1>3 DEF NowBounded
<1>6. CASE influence_upper = -1 \/ influence_upper > Bound(p)
  <2>1. influence_upper' = Bound(p)
    BY <1>6 DEF TakePoi
  <2>2. UpperBoundHolds'
    BY <1>2, <1>3, <2>1 DEF UpperBoundHolds, NowBounded
  <2> QED BY <1>5, <2>1, <2>2 DEF BoundInv
<1>7. CASE ~ (influence_upper = -1 \/ influence_upper > Bound(p))
  <2>1. influence_upper' = influence_upper
    BY <1>7 DEF TakePoi
  <2>2. UpperBoundHolds'
    BY <1>1, <1>4, <2>1 DEF BoundInv, UpperBoundHolds
  <2> QED BY <1>1, <2>1, <2>2 DEF BoundInv
<1> QED BY <1>6, <1>7

\* A step that takes no POI leaves the bound and what it is a bound of.
LEMMA BoundKept ==
  ASSUME BoundInv, Selecting => Selecting', UNCHANGED <<storeVars, influence_upper>>
  PROVE  Selecting => BoundInv'
BY DEF BoundInv, UpperBoundHolds, HitBy, RRIds, storeVars

\* Every step keeps the upper bound a bound.
LEMMA BoundNext == IInv /\ IInv' /\ BoundInv /\ [Next]_vars => BoundInv'
<1> SUFFICES ASSUME IInv, IInv', BoundInv, [Next]_vars
             PROVE  BoundInv'
  OBVIOUS
<1>1. CASE Begin
  BY <1>1 DEF Begin, Fill, BoundInv, UpperBoundHolds
<1>2. ASSUME NEW p \in inf_pois, TakePoi(p) PROVE BoundInv'
  BY <1>2, BoundTaken
<1>3. ASSUME NEW p \in inf_pois, Refresh(p) \/ TakeLastPoi(p) PROVE BoundInv'
  <2>1. Selecting /\ Selecting' /\ UNCHANGED <<storeVars, influence_upper>>
    BY <1>3 DEF Refresh, TakeLastPoi, Take, InLoop, Selecting
  <2> QED BY <2>1, BoundKept
<1>4. CASE Return
  <2>1. Selecting /\ Selecting' /\ UNCHANGED <<storeVars, influence_upper>>
    BY <1>4 DEF Return, Selecting
  <2> QED BY <2>1, BoundKept
<1>5. CASE Resample
  BY <1>5 DEF Resample, BoundInv, UpperBoundHolds, Selecting
<1>6. CASE UNCHANGED vars
  BY <1>6 DEF vars, loopVars, storeVars, BoundInv, UpperBoundHolds, Selecting, HitBy, RRIds
<1> QED BY <1>1, <1>2, <1>3, <1>4, <1>5, <1>6 DEF Next, LoopStep

\* The bound the stopping rule rests on holds for any candidates and RR sets
\* (infgraph.h:1381-1399, OPIMC.h:297).
THEOREM UpperBoundCorrect == Spec => []UpperBoundHolds
<1>1. Init => BoundInv
  BY DEF Init, BoundInv, UpperBoundHolds, Selecting
<1>2. BoundInv => UpperBoundHolds
  BY DEF BoundInv
<1> QED BY <1>1, <1>2, BoundNext, Invariant, PTL DEF Spec
=============================================================================
