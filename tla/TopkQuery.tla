------------------------------ MODULE TopkQuery ------------------------------
(***************************************************************************)
(* TkGSKQ_NVD (query_basic.h): the K POIs of greatest geo-social-keyword   *)
(* score for one user.  First the POIs where friends have checked in; then *)
(* one heap of POIs for each keyword, nearest first, of which always the   *)
(* one is polled that may still have the greatest score.  A frequent       *)
(* keyword's heap grows along its network Voronoi diagram.                 *)
(*                                                                         *)
(* A heap is the set of its POIs; of an emptied one the code still reads   *)
(* the distance of the POI polled last, so Queue has a distance for it.    *)
(***************************************************************************)
EXTENDS NVDIndex

VARIABLES
  user,
  filled,                 \* keywords whose heap has been filled
  poiMark, poiADJMark,    \* POIs scored; POIs pushed to any heap
  H_list,                 \* keyword -> its heap
  Queue,                  \* keyword -> distance of the top of its heap
  resultFinal, score_rk,  \* <<POI, score>> of the best so far; the score to beat
  topkScore, pc

dataVars == <<db, score, nvd, user>>
topVars == <<dataVars, filled, poiMark, poiADJMark, H_list, Queue, resultFinal, score_rk, topkScore, pc>>

dist(p) == usrToPOIDistance(user, p)
Below == <<-1, 1>>     \* less than every score
\* The best score that a POI at distance d, where no friend was, can have.
Optimal(d) == <<Alpha + tfIDF_termSet(Keywords(user)), 1 + d>>

\* The score of a POI polled from a heap, as if no friend had been there.
PolledScore(p) == <<Alpha + tfIDF_termSet(Shared(user, p)), 1 + dist(p)>>

Worst(R) == CHOOSE e \in R : \A f \in R : ~Less(f[2], e[2])
Better(R, s) == Cardinality(R) < K \/ Less(Worst(R)[2], s)
\* Entry e replaces the worst of R if there are K, and e is better.
Insert(R, e) ==
  IF ~Better(R, e[2]) THEN R
  ELSE (IF Cardinality(R) < K THEN R ELSE R \ {Worst(R)}) \cup {e}
-----------------------------------------------------------------------------
TopStart ==
  /\ user \in Users
  /\ filled = {} /\ poiMark = {} /\ poiADJMark = {}
  /\ H_list = <<>> /\ Queue = <<>>
  /\ resultFinal = {} /\ score_rk = Below /\ topkScore = Below
  /\ pc = "social"
TopInit == Prepared /\ TopStart

CheckIns == {p \in Pois : <<user, p>> \in db.friends}

Scored(p) == p \in poiMark

\* A POI that shares no keyword is marked and dropped.
CheckIn ==
  /\ pc = "social"
  /\ \E p \in CheckIns \ poiMark :
       /\ poiMark' = poiMark \cup {p}
       /\ resultFinal' = IF Shared(user, p) = {} THEN resultFinal
                         ELSE Insert(resultFinal, <<p, GSKScore(user, p)>>)
  /\ UNCHANGED <<dataVars, filled, poiADJMark, H_list, Queue, score_rk, topkScore, pc>>

EndCheckIns ==
  /\ pc = "social" /\ CheckIns \subseteq poiMark
  /\ score_rk' = IF Cardinality(resultFinal) = K THEN Worst(resultFinal)[2] ELSE score_rk
  /\ pc' = "fill"
  /\ UNCHANGED <<dataVars, filled, poiMark, poiADJMark, H_list, Queue, resultFinal, topkScore>>

\* The POIs near the start of the user's road whatever their mark, those near
\* its end only unmarked.
NearUser(t) ==
  LET first == getNNPOIs(db.uAt[user], t)
  IN  first \cup (getNNPOIs(db.uTo[user], t) \ poiADJMark)

Fill ==
  /\ pc = "fill"
  /\ \E t \in Keywords(user) \ filled :
       \E first \in {IF Frequent(t) THEN NearUser(t) ELSE With(t)} :
         /\ filled' = filled \cup {t}
         /\ H_list' = Put(H_list, t, first)
         /\ poiADJMark' = poiADJMark \cup first
         /\ Queue' = Put(Queue, t, Min({dist(p) : p \in first}))
  /\ pc' = IF filled' = Keywords(user) THEN "poll" ELSE "fill"
  /\ UNCHANGED <<dataVars, poiMark, resultFinal, score_rk, topkScore>>

\* The keyword whose heap has the nearest top, and its optimal score.
IsBest(t) == \A x \in DOMAIN Queue : Queue[t] <= Queue[x]
Promising == \E t \in DOMAIN Queue : IsBest(t) /\ Less(score_rk, Optimal(Queue[t]))

BugNoNeighbours(t, p) == {}
Neighbours(t, p) == IF Frequent(t) THEN getPOIAdj(p, t) \ poiADJMark ELSE {}

BugStopsEarly(R, Q) ==
  Cardinality(R) = K /\ Less(Optimal(Max({Q[x] : x \in DOMAIN Q})), Worst(R)[2])
\* Nothing left in the heaps can enter R.
Settled(R, Q) ==
  Cardinality(R) = K /\ Less(Optimal(Min({Q[x] : x \in DOMAIN Q})), Worst(R)[2])

PollEmpty ==
  /\ pc = "poll" /\ Promising
  /\ \E t \in DOMAIN Queue :
       /\ IsBest(t) /\ H_list[t] = {}
       /\ Queue' = [x \in (DOMAIN Queue) \ {t} |-> Queue[x]]
  /\ UNCHANGED <<dataVars, filled, poiMark, poiADJMark, H_list, resultFinal, score_rk, topkScore, pc>>

\* The best heap's nearest POI is scored, unless it was.
Poll ==
  /\ pc = "poll" /\ Promising
  /\ \E t \in DOMAIN Queue : \E p \in H_list[t] :
       /\ IsBest(t) /\ \A q \in H_list[t] : dist(p) <= dist(q)
       /\ LET heap == (H_list[t] \ {p}) \cup Neighbours(t, p)
          IN  /\ H_list' = [H_list EXCEPT ![t] = heap]
              /\ Queue' = [Queue EXCEPT ![t] =
                             IF heap = {} THEN dist(p) ELSE Min({dist(q) : q \in heap})]
       /\ poiADJMark' = poiADJMark \cup Neighbours(t, p)
       /\ IF Scored(p) THEN UNCHANGED <<poiMark, resultFinal, score_rk, pc>>
          ELSE /\ poiMark' = poiMark \cup {p}
               /\ resultFinal' = Insert(resultFinal, <<p, PolledScore(p)>>)
               /\ score_rk' = IF Cardinality(resultFinal) = K /\ Better(resultFinal, PolledScore(p))
                              THEN Worst(resultFinal')[2] ELSE score_rk
               /\ pc' = IF Settled(resultFinal', Queue') THEN "return" ELSE "poll"
  /\ UNCHANGED <<dataVars, filled, topkScore>>

Return ==
  /\ pc = "return" \/ (pc = "poll" /\ ~Promising)
  /\ topkScore' = Worst(resultFinal)[2]
  /\ pc' = "done"
  /\ UNCHANGED <<dataVars, filled, poiMark, poiADJMark, H_list, Queue, resultFinal, score_rk>>

TopNext == CheckIn \/ EndCheckIns \/ Fill \/ PollEmpty \/ Poll \/ Return

TopSpec == TopInit /\ [][TopNext]_topVars /\ WF_topVars(TopNext)
-----------------------------------------------------------------------------
(* Properties.                                                             *)

\* Types: every heap holds POIs with its keyword that are marked as pushed.
TopTypeOK ==
  /\ user \in Users /\ pc \in {"social", "fill", "poll", "return", "done"}
  /\ filled \subseteq Keywords(user) /\ DOMAIN H_list = filled /\ DOMAIN Queue \subseteq filled
  /\ \A t \in filled : H_list[t] \subseteq With(t) \cap poiADJMark
  /\ poiMark \subseteq Pois /\ Cardinality(resultFinal) <= K

\* A POI is in the result once, with its own score: those polled from a heap
\* are scored as if no friend had been there (query_basic.h:13147), so one
\* with friends must have been marked before.
ResultsTrue ==
  /\ \A e \in resultFinal : e[1] \in RelatedPois(user) /\ Same(e[2], GSKScore(user, e[1]))
  /\ \A e, f \in resultFinal : e[1] = f[1] => e = f

\* The score to beat is never above the K-th best: no POI of the answer is
\* ever cut off (query_basic.h:13085).
NoneCutOff == RelatedPois(user) # {} => ~Less(score.topk[user], score_rk)

\* What the order of the POIs rests on: shortest paths, one tree, diagrams built
\* from the POIs outwards, and a POI for every keyword of the user.
Given ==
  /\ ShortestPaths /\ OneTree /\ CellsAtHome
  /\ \A t \in Keywords(user) : With(t) # {}

\* No POI of the keywords is in two heaps.
Unshared ==
  \A t, x \in Keywords(user) : t # x /\ Frequent(t) => With(t) \cap With(x) = {}

\* The POIs on the user's own road are in the heaps from the start: what is read
\* for the ends of the road is those of the leaf, not the nearest of the end.
OwnRoadListed ==
  \A t \in Keywords(user) : Frequent(t) =>
    \A p \in With(t) : db.pAt[p] = db.uAt[user] /\ db.pTo[p] = db.uTo[user] =>
      p \in getNNPOIs(db.uAt[user], t) \cup getNNPOIs(db.uTo[user], t)

\* Between two roads that start at one vertex the way by it, which is taken for
\* the distance (loadInfo.h:371), is the shortest.
Straight ==
  \A t \in Keywords(user) : \A p \in With(t) :
    db.pAt[p] = db.uAt[user] /\ db.pTo[p] # db.uTo[user] =>
      dist(p) <= UserDist(db.pTo[p], user) + (Dist[db.pAt[p]][db.pTo[p]] - db.pDis[p])

\* What the heaps have come to is in order of distance where all three hold.
Ordered == Unshared /\ OwnRoadListed /\ Straight

\* A heap that grows along the diagram has a POI at least as near as every
\* POI it has not come to: polling it gives the POIs in order of distance.
FrontierNear ==
  (Ordered /\ pc = "poll") =>
    \A t \in DOMAIN Queue : \A p \in With(t) \ poiADJMark : Queue[t] <= dist(p)

\* Where no two keywords of the user share a POI, or all are rare, no POI on the
\* user's own road is passed over and no distance is a detour's, the query
\* returns what the exhaustive definition does, whichever way it ends.
ExactUnshared == (Ordered /\ pc = "done") => Same(topkScore, score.topk[user])

\* What the query answers, and what it has on the way.
AnswersExact == TopTypeOK /\ ResultsTrue /\ NoneCutOff /\ FrontierNear /\ ExactUnshared

=============================================================================
