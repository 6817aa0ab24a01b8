-------------------------- MODULE BatchQuery_proofs --------------------------
(***************************************************************************)
(* Proofs about BatchQuery, for every road network, every placing of POIs  *)
(* and users and any chain.  First: no user that a store has been          *)
(* evaluated for and wins is lost again, whatever stores compete for him,  *)
(* and a user is returned only for stores among his K best POIs.  Then,    *)
(* for distances that are those of shortest paths, a G-tree that is a tree *)
(* and stores with one frequent keyword at most: the search on the tree    *)
(* evaluates every user a store wins whose road, like the store's, stays   *)
(* within the leaf it is filed under, or who is in the store's leaf, so    *)
(* that the answer is exact for these.  At last the same of what is made   *)
(* of it: the filter, whose candidates lack nobody of them, and the query  *)
(* of a single store.                                                      *)
(***************************************************************************)
EXTENDS Queries, RoadIndex_proofs

-----------------------------------------------------------------------------
(* What the top-K query returns.                                           *)

\* Fewer than K POIs beat what the top-K query returns, and the lower bound is
\* not over it.
LEMMA TopkScoreIsKth ==
  ASSUME db \in Databases, NEW u \in Users, RelatedPois(u) # {}
  PROVE  /\ TopkScore(u) \in Fractions
         /\ Cardinality({q \in Pois : Less(TopkScore(u), GSKScore(u, q))}) < K
         /\ ~Less(TopkScore(u), UserLCL(u)) /\ UserLCL(u) \in Fractions
<1> DEFINE D == RelatedPois(u)
           polled == db.polled[u]
           better == {q \in Pois : Less(TopkScore(u), GSKScore(u, q))}
<1>1. /\ K \in Nat \ {0} /\ IsFiniteSet(Pois)
      /\ D \in SUBSET Pois /\ polled \in SUBSET D
  BY RoadAssumption, DatabasesAssumption DEF RelatedPois, Shared
<1>2. \A S \in SUBSET Pois : IsFiniteSet(S) /\ Cardinality(S) \in Nat
  BY <1>1, FS_Subset, FS_CardinalityType
<1>3. /\ \A p \in Pois : GSKScore(u, p) \in Fractions /\ TextScore(u, p) \in Fractions
      /\ \A p \in D : ~Less(GSKScore(u, p), TextScore(u, p))
  BY DatabasesAssumption, ScoreTypes DEF RelatedPois
<1>4. TopkScore(u) \in Fractions /\ Cardinality(Over(Gsk(u), D, TopkScore(u))) < K
  <2>1. DOMAIN Gsk(u) = D /\ \A p \in D : Gsk(u)[p] \in Fractions
    BY <1>1, <1>3 DEF Gsk
  <2>2. TopkScore(u) = KthBest(Gsk(u))
    BY DEF TopkScore, Gsk
  <2>3. IsFiniteSet(DOMAIN Gsk(u)) /\ DOMAIN Gsk(u) # {}
    BY <1>1, <1>2, <2>1
  <2> QED BY <2>1, <2>2, <2>3, KthBestIsKth
<1>5. better = Over(Gsk(u), D, TopkScore(u))
  BY <1>1, <1>4, BetterIsRelated DEF Over, Gsk
<1>6. ~Less(TopkScore(u), UserLCL(u)) /\ UserLCL(u) \in Fractions
  <2>1. CASE Cardinality(polled) < K
    <3>1. UserLCL(u) = <<0, 1>>
      BY <2>1 DEF UserLCL
    <3> QED BY <1>4, <3>1 DEF Less, Fractions
  <2>2. CASE ~(Cardinality(polled) < K)
    <3> DEFINE Text == [p \in polled |-> TextScore(u, p)]
               good == {q \in polled : ~Less(Text[q], UserLCL(u))}
    <3>1. UserLCL(u) = KthBest(Text)
      BY <2>2 DEF UserLCL
    <3>2. IsFiniteSet(polled) /\ Cardinality(polled) \in Nat /\ Cardinality(polled) >= K
      BY <1>1, <1>2, <2>2
    <3>3. polled # {}
      BY <1>1, <3>2, FS_EmptySet
    <3>4. DOMAIN Text = polled /\ \A p \in polled : Text[p] \in Fractions
      BY <1>1, <1>3
    <3>5. UserLCL(u) \in Fractions /\ Cardinality(good) >= K
      <4> HIDE DEF Text
      <4> QED BY <3>1, <3>2, <3>3, <3>4, KthBestIsKth
    <3>6. ASSUME Less(TopkScore(u), UserLCL(u))
          PROVE  FALSE
      <4>1. ASSUME NEW q \in good
            PROVE  q \in better
        <5>1. q \in polled /\ q \in D /\ q \in Pois /\ ~Less(TextScore(u, q), UserLCL(u))
          BY <1>1
        <5>2. Less(TopkScore(u), TextScore(u, q))
          BY <1>3, <1>4, <3>5, <3>6, <5>1, LessTransitive
        <5>3. Less(TopkScore(u), GSKScore(u, q))
          BY <1>3, <1>4, <5>1, <5>2, LessTransitive
        <5> QED BY <5>1, <5>3
      <4>2. good \in SUBSET better /\ better \in SUBSET Pois
        BY <4>1
      <4> HIDE DEF good, better
      <4>3. Cardinality(good) <= Cardinality(better)
        BY <1>2, <4>2, FS_Subset
      <4>4. Cardinality(good) \in Nat /\ Cardinality(better) \in Nat
        BY <1>1, <1>2, <4>2
      <4> QED BY <1>1, <1>4, <1>5, <3>5, <4>3, <4>4
    <3> QED BY <3>5, <3>6
  <2> QED BY <2>1, <2>2
<1> QED BY <1>4, <1>5, <1>6

-----------------------------------------------------------------------------
(* The inductive invariant.                                                *)

\* What POIs and users are to each other, as the score table has it.
Scored ==
  /\ \A u \in Users, p \in Pois : score.gsk[u][p] = GSKScore(u, p)
  /\ \A u \in Users : score.topk[u] = TopkScore(u) /\ score.lcl[u] = UserLCL(u)

Shapes ==
  /\ poi_th \in Nat /\ pc \in {"filter", "verify", "done"}
  /\ \A e \in Queue : e.p \in Stores
  /\ DOMAIN T_max \subseteq Stores
  /\ candidate_usr_related_store \in [Users -> SUBSET Stores]
  /\ batch_results \in [Stores -> SUBSET Users]
  /\ pc = "done" => candidate_User = {}

\* A user's candidates share a keyword with him.
CandidatesRelated ==
  \A u \in Users : \A p \in candidate_usr_related_store[u] : Shared(u, p) # {}

\* Control, the queue and the results in shape, and the properties that lean on
\* one another.
IInv ==
  /\ db \in Databases /\ Scored /\ Shapes
  /\ CandidatesRelated /\ WinnersKept
  /\ EvaluatedReturned /\ ResultsAreCustomers

\* The stores are POIs.
LEMMA StoresArePois == Stores \in SUBSET Pois
BY RoadAssumption DEF Stores, ToSet

\* A winner's POI shares a keyword with him, and is over his lower bound; fewer
\* than K POIs are over the score that it beats.
LEMMA WinnerScores ==
  ASSUME db \in Databases, Scored, NEW u \in Users, NEW p \in Pois, Shared(u, p) # {}
  PROVE  /\ score.topk[u] \in Fractions /\ score.lcl[u] \in Fractions
         /\ \A q \in Pois : score.gsk[u][q] \in Fractions
         /\ Less(score.topk[u], score.gsk[u][p]) => Less(score.lcl[u], score.gsk[u][p])
         /\ Cardinality({q \in Pois : Less(score.topk[u], score.gsk[u][q])}) < K
<1>1. RelatedPois(u) # {}
  BY DEF RelatedPois
<1>2. /\ TopkScore(u) \in Fractions /\ UserLCL(u) \in Fractions
      /\ Cardinality({q \in Pois : Less(TopkScore(u), GSKScore(u, q))}) < K
      /\ ~Less(TopkScore(u), UserLCL(u))
  BY <1>1, TopkScoreIsKth
<1>3. \A q \in Pois : GSKScore(u, q) \in Fractions
  BY DatabasesAssumption, ScoreTypes
<1>4. /\ score.topk[u] = TopkScore(u) /\ score.lcl[u] = UserLCL(u)
      /\ \A q \in Pois : score.gsk[u][q] = GSKScore(u, q)
  BY DEF Scored
<1>5. {q \in Pois : Less(score.topk[u], score.gsk[u][q])}
        = {q \in Pois : Less(TopkScore(u), GSKScore(u, q))}
  BY <1>4
<1>6. Less(TopkScore(u), GSKScore(u, p)) => Less(UserLCL(u), GSKScore(u, p))
  BY <1>2, <1>3, LessTransitive
<1> QED BY <1>2, <1>3, <1>4, <1>5, <1>6

\* A store that wins a user is never the worst of more than K.
LEMMA WinnerStays ==
  ASSUME IInv, NEW u \in Users, NEW q \in Stores, NEW f \in Kept(u, q),
         NEW p \in candidate_usr_related_store[u] \cup {q}, Wins(u, p)
  PROVE  p \in f
<1> DEFINE all == candidate_usr_related_store[u] \cup {q}
           better == {r \in Pois : Less(score.topk[u], score.gsk[u][r])}
<1>1. all \in SUBSET Pois /\ IsFiniteSet(all) /\ IsFiniteSet(Pois)
  <2>1. all \in SUBSET Pois
    BY StoresArePois DEF IInv, Shapes
  <2> QED BY <2>1, RoadAssumption, FS_Subset
<1>2. p \in Pois /\ Shared(u, p) # {} /\ Less(score.topk[u], score.gsk[u][p])
  BY <1>1 DEF Wins
<1>3. /\ score.topk[u] \in Fractions /\ \A r \in Pois : score.gsk[u][r] \in Fractions
      /\ Cardinality(better) < K
  BY <1>2, WinnerScores DEF IInv
<1>4. CASE Cardinality(all) <= K
  BY <1>4 DEF Kept
<1>5. CASE ~(Cardinality(all) <= K)
  <2>1. PICK w \in all : (\A r \in all : ~Less(score.gsk[u][r], score.gsk[u][w])) /\ f = all \ {w}
    BY <1>5 DEF Kept
  <2>2. ASSUME w = p PROVE FALSE
    <3>1. ASSUME NEW r \in all PROVE r \in better
      <4>1. ~Less(score.gsk[u][r], score.gsk[u][p])
        BY <2>1, <2>2
      <4> QED BY <1>1, <1>2, <1>3, <4>1, LessTransitive
    <3>2. all \in SUBSET better /\ better \in SUBSET Pois
      BY <3>1
    <3> HIDE DEF all, better
    <3>3. /\ Cardinality(all) <= Cardinality(better)
          /\ Cardinality(all) \in Nat /\ Cardinality(better) \in Nat
      BY <1>1, <3>2, FS_Subset, FS_CardinalityType
    <3>4. K \in Nat
      BY RoadAssumption
    <3> QED BY <1>3, <1>5, <3>3, <3>4
  <2> QED BY <2>1, <2>2
<1> QED BY <1>4, <1>5

\* Evaluating users for a store keeps every winner.
LEMMA EvaluateKeeps ==
  ASSUME IInv, NEW q \in Stores, NEW S \in SUBSET Users, Evaluate(q, S), pc' = pc, pc = "filter",
         UNCHANGED <<db, score, batch_results>>
  PROVE  /\ candidate_usr_related_store' \in [Users -> SUBSET Stores]
         /\ CandidatesRelated' /\ WinnersKept' /\ EvaluatedReturned' /\ ResultsAreCustomers'
<1>1. PICK T \in Passing(q, S) :
        /\ candidate_User' = candidate_User \cup T
        /\ candidate_usr_related_store' \in
             {f \in [Users -> SUBSET Stores] :
                \A u \in Users : IF u \in T THEN f[u] \in Kept(u, q)
                                 ELSE f[u] = candidate_usr_related_store[u]}
  BY DEF Evaluate
<1>2. /\ candidate_usr_related_store' \in [Users -> SUBSET Stores]
      /\ \A u \in T : candidate_usr_related_store'[u] \in Kept(u, q) /\ Shared(u, q) # {}
      /\ \A u \in Users \ T : candidate_usr_related_store'[u] = candidate_usr_related_store[u]
      /\ T \in SUBSET Users
  BY <1>1 DEF Passing
<1>3. CandidatesRelated'
  <2> SUFFICES ASSUME NEW u \in Users, NEW p \in candidate_usr_related_store'[u]
               PROVE  Shared(u, p) # {}
    BY DEF CandidatesRelated, Shared
  <2>1. CASE u \in T
    <3>1. p \in candidate_usr_related_store[u] \cup {q}
      BY <1>2, <2>1 DEF Kept
    <3> QED BY <1>2, <2>1, <3>1 DEF IInv, CandidatesRelated
  <2>2. CASE u \notin T
    BY <1>2, <2>2 DEF IInv, CandidatesRelated
  <2> QED BY <2>1, <2>2
<1>4. WinnersKept'
  <2> SUFFICES ASSUME NEW u \in Users, NEW p \in Stores, <<u, p>> \in upEntryMark', Wins(u, p)
               PROVE  p \in candidate_usr_related_store'[u] /\ u \in candidate_User'
    BY DEF WinnersKept, Wins, Shared
  <2>1. \/ p \in candidate_usr_related_store[u] /\ u \in candidate_User
        \/ p = q /\ u \in T
    <3>1. CASE <<u, p>> \in upEntryMark
      BY <3>1 DEF IInv, WinnersKept
    <3>2. CASE <<u, p>> \in S \X {q}
      <4>1. p \in Pois /\ Shared(u, p) # {} /\ Less(score.topk[u], score.gsk[u][p])
        BY StoresArePois DEF Wins
      <4>2. Less(score.lcl[u], score.gsk[u][p])
        BY <4>1, WinnerScores DEF IInv
      <4> QED BY <3>2, <4>2 DEF Passing
    <3> QED BY <3>1, <3>2 DEF Evaluate
  <2>2. u \in candidate_User'
    BY <1>1, <2>1
  <2>3. CASE u \in T
    BY <1>2, <2>1, <2>2, <2>3, WinnerStays
  <2>4. CASE u \notin T
    BY <1>2, <2>1, <2>2, <2>4
  <2> QED BY <2>2, <2>3, <2>4
<1>5. EvaluatedReturned' /\ ResultsAreCustomers'
  BY DEF IInv, EvaluatedReturned, ResultsAreCustomers, AmongBest, Shared
<1> QED BY <1>2, <1>3, <1>4, <1>5

\* What no step changes.
LEMMA Unscored ==
  ASSUME db \in Databases, Scored, UNCHANGED <<db, score>>
  PROVE  db' \in Databases /\ Scored'
<1>1. /\ \A u, p : GSKScore(u, p)' = GSKScore(u, p) /\ TextScore(u, p)' = TextScore(u, p)
      /\ \A u : RelatedPois(u)' = RelatedPois(u)
  <2>1. \A u, p : usrToPOIDistance(u, p)' = usrToPOIDistance(u, p)
    BY DEF usrToPOIDistance, UserDist, Lesser
  <2>2. \A u, p : UpperOfUser(u, p)' = UpperOfUser(u, p)
    BY DEF UpperOfUser, UpperDist
  <2>3. \A u, p : Shared(u, p)' = Shared(u, p)
    BY DEF Shared
  <2> QED BY <2>1, <2>2, <2>3 DEF GSKScore, TextScore, RelatedPois
<1>2. ASSUME NEW u PROVE TopkScore(u)' = TopkScore(u)
  <2>1. [p \in RelatedPois(u)' |-> GSKScore(u, p)'] = [p \in RelatedPois(u) |-> GSKScore(u, p)]
    BY <1>1
  <2> HIDE DEF RelatedPois, GSKScore
  <2> QED BY <2>1 DEF TopkScore
<1>3. ASSUME NEW u PROVE UserLCL(u)' = UserLCL(u)
  <2>1. [p \in db'.polled[u] |-> TextScore(u, p)'] = [p \in db.polled[u] |-> TextScore(u, p)]
    BY <1>1
  <2> QED BY <2>1 DEF UserLCL
<1> QED BY <1>1, <1>2, <1>3 DEF Scored

\* A step that touches neither evaluations nor candidates nor results.
LEMMA SearchStepKeeps ==
  ASSUME IInv, UNCHANGED <<db, score, upEntryMark, candidates, batch_results>>,
         Shapes', pc' \in {pc, "verify"}, pc = "filter"
  PROVE  IInv'
<1> USE DEF candidates
<1>1. CandidatesRelated' /\ ResultsAreCustomers' /\ WinnersKept'
  BY DEF IInv, CandidatesRelated, ResultsAreCustomers, AmongBest, WinnersKept, Wins, Shared
<1>2. EvaluatedReturned'
  BY DEF IInv, WinnersKept, EvaluatedReturned, Wins, Shared
<1>3. db' \in Databases /\ Scored'
  BY Unscored DEF IInv
<1> QED BY <1>1, <1>2, <1>3 DEF IInv

\* The table of scores is made from the database.
LEMMA InitEstablishes == Init => IInv
<1> SUFFICES ASSUME Init PROVE IInv
  OBVIOUS
<1>1. Scored
  BY DEF Init, Prepared, Start, Scored, ScoresOfDb
<1>2. Shapes
  BY DEF Init, Prepared, Start, Shapes
<1> QED BY <1>1, <1>2 DEF Init, Prepared, Start, IInv, CandidatesRelated, WinnersKept, EvaluatedReturned,
     ResultsAreCustomers

\* The first step evaluates the users next to each store.
LEMMA FirstStepKeeps == IInv /\ FirstStep => IInv'
<1> SUFFICES ASSUME IInv, FirstStep PROVE IInv'
  OBVIOUS
<1> DEFINE p == stores[poi_th + 1]
           early == SocialUsers(p) \cup UsersWith(midKeys(p)) \cup UsersWith(rareKeys(p))
<1>1. p \in Stores
  <2>1. poi_th \in Nat /\ poi_th < Len(stores)
    BY DEF IInv, Shapes, FirstStep
  <2> QED BY <2>1, RoadAssumption DEF Stores, ToSet
<1>2. early \in SUBSET Users
  BY DEF SocialUsers, UsersWith, getTermUserInvList
<1>3. Evaluate(p, early)
  BY DEF FirstStep
<1>4. /\ pc = "filter" /\ pc' = pc /\ poi_th' = poi_th + 1
      /\ UNCHANGED <<db, score, batch_results>>
      /\ \A e \in Queue' : e \in Queue \/ \E u \in Users : e = UserEntry(p, u)
      /\ DOMAIN T_max' = DOMAIN T_max \cup {p}
  BY DEF FirstStep, UsersWith, getTermUserInvList
<1> HIDE DEF p, early
<1>5. /\ candidate_usr_related_store' \in [Users -> SUBSET Stores]
      /\ CandidatesRelated' /\ WinnersKept' /\ EvaluatedReturned' /\ ResultsAreCustomers'
  BY <1>1, <1>2, <1>3, <1>4, EvaluateKeeps
<1>6. Shapes'
  <2>1. \A e \in Queue' : e.p \in Stores
    BY <1>1, <1>4 DEF IInv, Shapes, UserEntry
  <2> QED BY <1>1, <1>4, <1>5, <2>1 DEF IInv, Shapes
<1> QED BY <1>4, <1>5, <1>6, Unscored DEF IInv

\* A user who is popped is evaluated for the store of his entry.
LEMMA PopUserKeeps == ASSUME IInv, NEW e \in Queue, PopUser(e) PROVE IInv'
<1>1. /\ e.p \in Stores /\ pc = "filter" /\ Queue' = Queue \ {e}
      /\ UNCHANGED search
      /\ Evaluate(e.p, {e.id} \cap Unmarked(e.p))
  BY DEF IInv, Shapes, PopUser, Searching
<1>2. {e.id} \cap Unmarked(e.p) \in SUBSET Users
  BY DEF Unmarked
<1>3. UNCHANGED <<db, score, poi_th, T_max, batch_results, pc>>
  BY <1>1 DEF search
<1>4. /\ candidate_usr_related_store' \in [Users -> SUBSET Stores]
      /\ CandidatesRelated' /\ WinnersKept' /\ EvaluatedReturned' /\ ResultsAreCustomers'
  BY <1>1, <1>2, <1>3, EvaluateKeeps
<1>5. Shapes'
  BY <1>1, <1>3, <1>4 DEF IInv, Shapes
<1> QED BY <1>3, <1>4, <1>5, Unscored DEF IInv

\* Entries come from entries, and carry their store on.
LEMMA PopBorderKeeps ==
  ASSUME IInv, NEW e \in Queue, PopSeenBorder(e) \/ PopBorder(e)
  PROVE  IInv'
<1>1. /\ pc = "filter" /\ UNCHANGED search /\ UNCHANGED <<upEntryMark, candidates>>
      /\ e.p \in Stores
  BY DEF IInv, Shapes, PopSeenBorder, PopBorder, Searching, marks
<1>2. \A f \in Queue' : f \in Queue \/ f.p = e.p
  <2>1. CASE PopSeenBorder(e)
    BY <2>1 DEF PopSeenBorder
  <2>2. CASE PopBorder(e)
    <3>1. CASE OccursUnder(e.p, e.node) = {}
      BY <2>2, <3>1 DEF PopBorder
    <3>2. CASE OccursUnder(e.p, e.node) # {}
      <4>1. PICK keys : Queue' = (Queue \ {e}) \cup Beyond(e, keys)
        BY <2>2, <3>2 DEF PopBorder
      <4>2. \A f \in Beyond(e, keys) : f.p = e.p
        BY DEF Beyond, UserEntry, BorderEntry
      <4> QED BY <4>1, <4>2
    <3> QED BY <3>1, <3>2
  <2> QED BY <2>1, <2>2
<1>3. Shapes'
  BY <1>1, <1>2 DEF IInv, Shapes, search, candidates
<1> QED BY <1>1, <1>3, SearchStepKeeps DEF search

\* Climbing, and the end of the search, change no evaluation.
LEMMA ExtendKeeps == IInv /\ (Extend \/ SearchEnds) => IInv'
<1> SUFFICES ASSUME IInv, Extend \/ SearchEnds PROVE IInv'
  OBVIOUS
<1>1. /\ pc = "filter" /\ pc' \in {pc, "verify"}
      /\ UNCHANGED <<db, score, poi_th, upEntryMark, candidates, batch_results>>
  BY DEF Extend, SearchEnds, Searching, marks
<1>2. DOMAIN T_max' \subseteq DOMAIN T_max /\ \A f \in Queue' : f \in Queue \/ f.p \in DOMAIN T_max
  <2>1. CASE SearchEnds
    BY <2>1 DEF SearchEnds
  <2>2. CASE Extend
    <3>1. DOMAIN T_max' \subseteq DOMAIN T_max
      BY <2>2 DEF Extend, Climbing
    <3>2. \A f \in Queue' : f.p \in DOMAIN T_max
      <4>1. PICK reached : Queue' = UNION {Entries(p, reached[p].entries) : p \in Climbing}
        BY <2>2 DEF Extend
      <4>2. \A p, c : \A f \in Entries(p, c) : f.p = p
        BY DEF Entries, BorderEntry
      <4> QED BY <4>1, <4>2 DEF Climbing
    <3> QED BY <3>1, <3>2
  <2> QED BY <2>1, <2>2
<1>3. Shapes'
  BY <1>1, <1>2 DEF IInv, Shapes, candidates
<1> QED BY <1>1, <1>3, SearchStepKeeps

\* Verifying a user returns him for the stores kept that win him, which are all
\* that do.
LEMMA VerifyKeeps == ASSUME IInv, NEW v \in Users, Verify(v) PROVE IInv'
<1>1. PICK roundsDown \in BOOLEAN :
        batch_results' = [p \in Stores |-> IF p \in Won(v, roundsDown)
                                           THEN batch_results[p] \cup {v} ELSE batch_results[p]]
  BY DEF Verify
<1>2. /\ pc = "verify" /\ pc' = pc /\ candidate_User' = candidate_User \ {v}
      /\ UNCHANGED <<db, score, poi_th, upEntryMark, Queue, T_max, candidate_usr_related_store>>
  BY DEF Verify, marks
<1>3. Shapes'
  BY <1>1, <1>2 DEF IInv, Shapes
<1>4. CandidatesRelated' /\ WinnersKept'
  BY <1>2 DEF IInv, CandidatesRelated, WinnersKept, Wins, Shared
<1>5. EvaluatedReturned'
  <2> SUFFICES ASSUME NEW u \in Users, NEW p \in Stores, <<u, p>> \in upEntryMark, Wins(u, p)
               PROVE  u \in candidate_User' \/ u \in batch_results'[p]
    BY <1>2 DEF EvaluatedReturned, Wins, Shared
  <2>1. p \in candidate_usr_related_store[u] /\ (u \in candidate_User \/ u \in batch_results[p])
    BY <1>2 DEF IInv, WinnersKept, EvaluatedReturned
  <2>2. ASSUME u = v PROVE p \in Won(v, roundsDown)
    <3> SUFFICES ASSUME NEW q \in candidate_usr_related_store[u],
                        ~Less(score.gsk[u][q], score.gsk[u][p])
                 PROVE  Less(score.topk[u], score.gsk[u][q])
      BY <2>1, <2>2 DEF Won, Beats
    <3>1. p \in Pois /\ q \in Pois /\ Shared(u, p) # {} /\ Less(score.topk[u], score.gsk[u][p])
      BY StoresArePois DEF IInv, Shapes, Wins
    <3>2. /\ score.topk[u] \in Fractions
          /\ score.gsk[u][p] \in Fractions /\ score.gsk[u][q] \in Fractions
      BY <3>1, WinnerScores DEF IInv
    <3> QED BY <3>1, <3>2, LessTransitive
  <2> QED BY <1>1, <1>2, <2>1, <2>2 DEF IInv, Shapes
<1>6. ResultsAreCustomers'
  <2> SUFFICES ASSUME NEW p \in Stores, NEW u \in batch_results'[p]
               PROVE  AmongBest(u, p)
    BY <1>2 DEF ResultsAreCustomers, AmongBest, Shared
  <2>1. CASE u \in batch_results[p]
    BY <2>1 DEF IInv, ResultsAreCustomers
  <2>2. CASE u \notin batch_results[p]
    <3> DEFINE over == {q \in Pois : Less(score.gsk[u][p], score.gsk[u][q])}
               better == {q \in Pois : Less(score.topk[u], score.gsk[u][q])}
    <3>1. u = v /\ p \in Won(u, roundsDown)
      BY <1>1, <2>2
    <3>2. p \in candidate_usr_related_store[u] /\ u \in Users
      BY <3>1 DEF Won
    <3>3. p \in Pois /\ Shared(u, p) # {}
      BY <3>2, StoresArePois DEF IInv, Shapes, CandidatesRelated
    <3>4. /\ score.topk[u] \in Fractions /\ \A q \in Pois : score.gsk[u][q] \in Fractions
          /\ Cardinality(better) < K
      BY <3>2, <3>3, WinnerScores DEF IInv
    <3>5. ~Less(score.gsk[u][p], score.topk[u])
      <4>1. ~Less(score.gsk[u][p], score.gsk[u][p])
        BY <3>3, <3>4, LessIrreflexive
      <4>2. Beats(u, p, roundsDown)
        BY <3>1, <3>2, <4>1 DEF Won
      <4>3. CASE Less(score.topk[u], score.gsk[u][p])
        BY <3>3, <3>4, <4>3, LessAsymmetric
      <4>4. CASE Same(score.topk[u], score.gsk[u][p])
        BY <3>3, <3>4, <4>4 DEF Same, Less, Fractions
      <4> QED BY <4>2, <4>3, <4>4 DEF Beats
    <3>6. over \in SUBSET better /\ better \in SUBSET Pois
      BY <3>3, <3>4, <3>5, LessTransitive
    <3> HIDE DEF over, better
    <3>7. Cardinality(over) < K
      <4>1. IsFiniteSet(better)
        BY <3>6, RoadAssumption, FS_Subset
      <4>2. /\ Cardinality(over) <= Cardinality(better)
            /\ Cardinality(over) \in Nat /\ Cardinality(better) \in Nat
        BY <3>6, <4>1, FS_Subset, FS_CardinalityType
      <4>3. K \in Nat
        BY RoadAssumption
      <4> QED BY <3>4, <4>2, <4>3
    <3> QED BY <3>3, <3>7 DEF AmongBest, over
  <2> QED BY <2>1, <2>2
<1> QED BY <1>2, <1>3, <1>4, <1>5, <1>6, Unscored DEF IInv

\* The end changes no result.
LEMMA ReturnKeeps == IInv /\ Return => IInv'
<1> SUFFICES ASSUME IInv, Return PROVE IInv'
  OBVIOUS
<1>1. /\ pc = "verify" /\ pc' = "done" /\ candidate_User = {}
      /\ UNCHANGED <<db, score, poi_th, upEntryMark, Queue, T_max, candidates, batch_results>>
  BY DEF Return, marks
<1>2. Shapes' /\ CandidatesRelated' /\ WinnersKept' /\ EvaluatedReturned' /\ ResultsAreCustomers'
  BY <1>1 DEF IInv, Shapes, CandidatesRelated, WinnersKept, EvaluatedReturned,
     ResultsAreCustomers, AmongBest, Wins, Shared, candidates
<1> QED BY <1>1, <1>2, Unscored DEF IInv

\* Nor does a stutter.
LEMMA StutterKeeps == IInv /\ UNCHANGED vars => IInv'
<1> SUFFICES ASSUME IInv, UNCHANGED vars PROVE IInv'
  OBVIOUS
<1>1. Shapes' /\ CandidatesRelated' /\ WinnersKept' /\ EvaluatedReturned' /\ ResultsAreCustomers'
  BY DEF vars, marks, candidates, IInv, Shapes, CandidatesRelated, WinnersKept, EvaluatedReturned,
     ResultsAreCustomers, AmongBest, Wins, Shared
<1> QED BY <1>1, Unscored DEF IInv, vars

\* The inductive invariant of the query.
THEOREM Invariant == Spec => []IInv
<1>1. IInv /\ [Next]_vars => IInv'
  BY FirstStepKeeps, PopUserKeeps, PopBorderKeeps, ExtendKeeps, VerifyKeeps, ReturnKeeps,
     StutterKeeps DEF Next
<1> QED BY <1>1, InitEstablishes, PTL DEF Spec

\* A store that wins a user is never pushed out of the K kept for him by other
\* stores, nor stopped by his lower bound (query_plus.h:4129-4135, 4426-4442).
THEOREM NoStoreCrowdedOut == Spec => []WinnersKept
<1>1. IInv => WinnersKept
  BY DEF IInv
<1> QED BY <1>1, Invariant, PTL

\* Every evaluated user that a store wins is returned for it in the end
\* (query_plus.h:4594-4690).
THEOREM EvaluatedAreReturned == Spec => []EvaluatedReturned
<1>1. IInv => EvaluatedReturned
  BY DEF IInv
<1> QED BY <1>1, Invariant, PTL

\* A user is returned only for stores that fewer than K POIs beat.
THEOREM OnlyCustomers == Spec => []ResultsAreCustomers
<1>1. IInv => ResultsAreCustomers
  BY DEF IInv
<1> QED BY <1>1, Invariant, PTL

-----------------------------------------------------------------------------
(* The bounds at borders.                                                  *)

\* The weight of one keyword, alone and among others.
LEMMA OneWeight ==
  ASSUME NEW t \in Terms
  PROVE  /\ tfIDF_termSet({t}) = Idf[t] /\ Idf[t] \in Nat
         /\ \A S \in SUBSET Terms : t \in S => Idf[t] <= tfIDF_termSet(S)
<1>1. Idf[t] \in Nat
  BY RoadAssumption
<1>2. \A S : tfIDF_termSet(S) = Total(Idf, S)
  BY DEF tfIDF_termSet, Total
<1>3. Total(Idf, {} \cup {t}) = Total(Idf, {}) + Idf[t] /\ Total(Idf, {}) = 0
  BY <1>1, TotalAdd, TotalEmpty, FS_EmptySet
<1>4. {} \cup {t} = {t}
  OBVIOUS
<1>5. tfIDF_termSet({t}) = Idf[t]
  BY <1>1, <1>2, <1>3, <1>4
<1>6. ASSUME NEW S \in SUBSET Terms, t \in S
      PROVE  Idf[t] <= tfIDF_termSet(S)
  <2>1. {t} \in SUBSET S
    BY <1>6
  <2>2. tfIDF_termSet({t}) <= tfIDF_termSet(S)
    BY <2>1, WeightsAdd
  <2> QED BY <1>5, <2>2
<1> QED BY <1>1, <1>5, <1>6

\* A score with no less above and no more below is no less.
LEMMA NoWorse ==
  ASSUME NEW a \in Nat, NEW n \in Nat, a <= n, NEW x \in Nat, NEW y \in Nat, x <= y
  PROVE  ~Less(<<n, 1 + x>>, <<a, 1 + y>>)
<1>1. a * (1 + x) <= n * (1 + x)
  OBVIOUS
<1>2. a * (1 + x) <= a * (1 + y)
  OBVIOUS
<1>3. a * (1 + y) <= n * (1 + y)
  OBVIOUS
<1>4. n * (1 + x) <= n * (1 + y)
  OBVIOUS
<1>5. a * (1 + x) \in Nat /\ n * (1 + y) \in Nat /\ n * (1 + x) \in Nat /\ a * (1 + y) \in Nat
  OBVIOUS
<1>6. ~(n * (1 + y) < a * (1 + x))
  BY <1>2, <1>3, <1>5
<1> QED BY <1>6 DEF Less

\* Of two scores with the same above the greater has less below.
LEMMA NearerIsMore ==
  ASSUME NEW a \in Nat, NEW x \in Nat, NEW y \in Nat, Less(<<a, 1 + x>>, <<a, 1 + y>>)
  PROVE  y < x
<1> SUFFICES ASSUME x <= y
             PROVE  FALSE
  OBVIOUS
<1>1. a * (1 + x) <= a * (1 + y)
  OBVIOUS
<1>2. a * (1 + x) \in Nat /\ a * (1 + y) \in Nat
  OBVIOUS
<1>3. a * (1 + y) < a * (1 + x)
  BY DEF Less
<1> QED BY <1>1, <1>2, <1>3

\* A bound is made of K POIs that have the keyword.
LEMMA Expanded ==
  ASSUME db \in Databases, NEW t \in FrequentTerms, NEW b \in Vertices
  PROVE  /\ db.expanded[b][t] \in SUBSET {q \in Pois : t \in db.pKeys[q]}
         /\ IsFiniteSet(db.expanded[b][t]) /\ db.expanded[b][t] # {}
         /\ Cardinality(db.expanded[b][t]) = K
<1> DEFINE with == {q \in Pois : t \in db.pKeys[q]}
<1>1. t \in Terms /\ Cardinality(with) > K
  BY DEF FrequentTerms, getTermOjectInvListSize
<1>2. db.expanded[b][t] \in SUBSET with /\ Cardinality(db.expanded[b][t]) = K
  BY <1>1, DatabasesAssumption
<1>3. IsFiniteSet(db.expanded[b][t])
  <2>1. db.expanded[b][t] \in SUBSET Pois
    BY <1>2
  <2> QED BY <2>1, RoadAssumption, FS_Subset
<1>4. db.expanded[b][t] # {}
  BY <1>2, RoadAssumption, FS_EmptySet
<1> QED BY <1>2, <1>3, <1>4

\* Where the bound of a border beats what POI p can be to anyone beyond it, K
\* POIs with the keyword are as good as p to a user on whose way to p it lies.
LEMMA BoundIsReached ==
  ASSUME ShortestPaths, db \in Databases, NEW u \in Users, NEW p \in Pois, NEW t \in Terms,
         t \in FrequentTerms, Shared(u, p) = {t}, <<u, p>> \notin db.friends,
         NEW b \in Between(u, p),
         Less(<<Alpha + Idf[t], 1 + PoiDist(b, p)>>, SBound(b, t))
  PROVE  ~Less(TopkScore(u), GSKScore(u, p))
<1> DEFINE D == db.expanded[b][t]
           sc == [q \in D |-> <<Alpha + Idf[t], 1 + UpperDist(b, q)>>]
           S == {q \in D : ~Less(sc[q], SBound(b, t))}
           near == PoiDist(b, p)
           far == usrToPOIDistance(u, p)
<1>1. /\ Placed(db) /\ b \in Vertices /\ near \in Nat /\ far \in Nat
      /\ Alpha \in Nat /\ Social \in Nat /\ Idf[t] \in Nat /\ K \in Nat \ {0}
  <2>1. Placed(db)
    BY DatabasesAssumption
  <2>2. b \in Vertices
    BY DEF Between
  <2>3. Alpha \in Nat /\ Social \in Nat /\ Idf[t] \in Nat /\ K \in Nat \ {0}
    BY RoadAssumption
  <2> QED BY <2>1, <2>2, <2>3, Ways, DistancesAre
<1>2. /\ D \in SUBSET {q \in Pois : t \in db.pKeys[q]} /\ IsFiniteSet(D) /\ D # {}
      /\ Cardinality(D) = K
  BY <1>1, Expanded
<1>3. Cardinality(D) >= K
  <2> HIDE DEF D
  <2> QED BY <1>1, <1>2
<1>4. DOMAIN sc = D /\ \A q \in D : sc[q] \in Fractions
  <2>1. \A q \in D : UpperDist(b, q) \in Nat
    BY <1>1, <1>2, Ways
  <2> QED BY <1>1, <2>1 DEF Fractions
<1>5. SBound(b, t) = KthBest(sc)
  BY DEF SBound
<1>6. SBound(b, t) \in Fractions /\ Cardinality(S) >= K
  <2> DEFINE R == {q \in DOMAIN sc : ~Less(sc[q], KthBest(sc))}
  <2>1. S = R
    BY <1>4, <1>5
  <2> HIDE DEF sc, D, S
  <2>2. IsFiniteSet(DOMAIN sc) /\ DOMAIN sc # {} /\ Cardinality(DOMAIN sc) >= K
    BY <1>2, <1>3, <1>4
  <2>3. KthBest(sc) \in Fractions /\ Cardinality(R) >= K
    BY <1>4, <2>2, KthBestIsKth
  <2> QED BY <1>5, <2>1, <2>3
<1>7. GSKScore(u, p) = <<Alpha + Idf[t], 1 + far>> /\ GSKScore(u, p) \in Fractions
  <2>1. GSKScore(u, p) = <<Alpha + 0 + tfIDF_termSet({t}), 1 + far>>
    BY DEF GSKScore
  <2>2. GSKScore(u, p) = <<Alpha + Idf[t], 1 + far>>
    BY <1>1, <2>1, OneWeight
  <2> QED BY <1>1, <2>2 DEF Fractions
<1>8. ASSUME NEW q \in S
      PROVE  q \in RelatedPois(u) /\ ~Less(GSKScore(u, q), GSKScore(u, p))
  <2> DEFINE there == UpperDist(b, q)
             way == usrToPOIDistance(u, q)
  <2>1. /\ q \in D /\ q \in Pois /\ t \in db.pKeys[q] /\ t \in db.uKeys[u]
        /\ there \in Nat /\ way \in Nat
    <3>1. q \in D /\ q \in Pois /\ t \in db.pKeys[q] /\ t \in db.uKeys[u]
      BY <1>2 DEF Shared
    <3> HIDE DEF S, D
    <3> QED BY <1>1, <3>1, Ways, DistancesAre
  <2>2. t \in Shared(u, q) /\ Shared(u, q) \in SUBSET Terms
    BY <1>1, <2>1 DEF Shared, Placed
  <2>3. there < near
    <3>1. sc[q] \in Fractions /\ <<Alpha + Idf[t], 1 + near>> \in Fractions
      BY <1>1, <1>4, <2>1 DEF Fractions
    <3>2. Less(<<Alpha + Idf[t], 1 + near>>, sc[q])
      BY <1>6, <3>1, LessTransitive
    <3>3. sc[q] = <<Alpha + Idf[t], 1 + there>>
      BY <2>1
    <3>4. Alpha + Idf[t] \in Nat
      BY <1>1
    <3> HIDE DEF sc, near, there
    <3> QED BY <1>1, <2>1, <3>2, <3>3, <3>4, NearerIsMore
  <2>4. way <= far
    <3>1. way <= UserDist(b, u) + there
      BY <1>1, <2>1, AtMostThrough
    <3>2. UserDist(b, u) + near <= far /\ UserDist(b, u) \in Nat
      BY <1>1, Ways DEF Between
    <3> HIDE DEF way, there, near, far
    <3> QED BY <1>1, <2>1, <2>3, <3>1, <3>2
  <2> DEFINE social == IF <<u, q>> \in db.friends THEN Social ELSE 0
             n == Alpha + social + tfIDF_termSet(Shared(u, q))
  <2>5. n \in Nat /\ Alpha + Idf[t] <= n
    <3>1. Idf[t] <= tfIDF_termSet(Shared(u, q)) /\ tfIDF_termSet(Shared(u, q)) \in Nat
      BY <2>2, OneWeight, WeightsAdd
    <3> QED BY <1>1, <3>1
  <2>6. GSKScore(u, q) = <<n, 1 + way>>
    BY <2>2 DEF GSKScore
  <2>7. q \in RelatedPois(u)
    BY <2>1, <2>2 DEF RelatedPois
  <2> HIDE DEF n, way, far
  <2>8. Alpha + Idf[t] \in Nat
    BY <1>1
  <2> QED BY <1>1, <1>7, <2>1, <2>4, <2>5, <2>6, <2>7, <2>8, NoWorse
<1>9. S \in SUBSET RelatedPois(u)
  BY <1>8
<1> HIDE DEF S
<1> QED BY <1>1, <1>6, <1>7, <1>8, <1>9, KthIsOver

-----------------------------------------------------------------------------
(* Pruning one keyword.                                                    *)

\* The keyword of greatest bound, which Prune takes first.
Highest(b, S) == CHOOSE t \in S : \A s \in S : ~Less(score.sb[b][s], score.sb[b][t])

\* g has what Prune leaves of the keywords, when it has been through s.
Prunes(g, b, d, keys, with) ==
  g = [s \in SUBSET keys |->
         IF s = {} THEN keys
         ELSE LET t == Highest(b, s)
                  left == g[s \ {t}]
              IN  IF Less(<<Alpha + tfIDF_termSet(with[t] \cap left), 1 + d>>, score.sb[b][t])
                  THEN left \ {t} ELSE left]

\* Prune is defined by that recursion.
LEMMA PruneDef ==
  ASSUME NEW b, NEW d, NEW keys, NEW with
  PROVE  Prune(b, d, keys, with) = (CHOOSE g : Prunes(g, b, d, keys, with))[keys]
BY DEF Prune, MapThenFoldSet, Prunes, Highest

\* A keyword that is the only one is pruned by its own bound.
LEMMA PruneOne ==
  ASSUME NEW b, NEW d, NEW t, NEW with, score.sb[b][t] \in Fractions, NEW S, S = {t}
  PROVE  LET pruned == Less(<<Alpha + tfIDF_termSet(with[t] \cap {t}), 1 + d>>, score.sb[b][t])
         IN  (pruned => Prune(b, d, S, with) = {}) /\ (~pruned => Prune(b, d, S, with) = {t})
<1> DEFINE pruned == Less(<<Alpha + tfIDF_termSet(with[t] \cap {t}), 1 + d>>, score.sb[b][t])
           h == [s \in SUBSET {t} |-> IF s = {} THEN {t} ELSE IF pruned THEN {} ELSE {t}]
           g == CHOOSE g : Prunes(g, b, d, {t}, with)
<1>1. Highest(b, {t}) = t
  BY LessIrreflexive DEF Highest
<1>2. \A s \in SUBSET {t} : s = {} \/ s = {t}
  OBVIOUS
<1>3. {t} \ {t} = {} /\ {} \in SUBSET {t} /\ {t} \in SUBSET {t} /\ {t} # {}
  OBVIOUS
<1>4. Prunes(h, b, d, {t}, with)
  <2>1. h[{}] = {t}
    OBVIOUS
  <2> HIDE DEF pruned
  <2>2. ASSUME NEW s \in SUBSET {t}
        PROVE  h[s] = IF s = {} THEN {t}
                      ELSE LET x == Highest(b, s)
                               left == h[s \ {x}]
                           IN  IF Less(<<Alpha + tfIDF_termSet(with[x] \cap left), 1 + d>>, score.sb[b][x])
                               THEN left \ {x} ELSE left
    <3>1. CASE s = {}
      BY <3>1
    <3>2. CASE s = {t}
      <4>1. Highest(b, s) = t /\ h[s \ {t}] = {t}
        BY <1>1, <1>3, <2>1, <3>2
      <4>2. h[s] = IF pruned THEN {} ELSE {t}
        BY <3>2
      <4> HIDE DEF h
      <4> QED BY <1>3, <3>2, <4>1, <4>2 DEF pruned
    <3> QED BY <1>2, <3>1, <3>2
  <2>3. h = [s \in SUBSET {t} |-> h[s]]
    OBVIOUS
  <2> HIDE DEF h
  <2> QED BY <2>2, <2>3 DEF Prunes
<1>5. Prunes(g, b, d, {t}, with)
  <2> HIDE DEF h
  <2> QED BY <1>4
<1> HIDE DEF g
<1>6. g[{}] = {t}
  BY <1>3, <1>5 DEF Prunes
<1>7. g[{t}] = IF pruned THEN {} ELSE {t}
  <2>1. g[{t}] = LET x == Highest(b, {t})
                     left == g[{t} \ {x}]
                 IN  IF Less(<<Alpha + tfIDF_termSet(with[x] \cap left), 1 + d>>, score.sb[b][x])
                     THEN left \ {x} ELSE left
    BY <1>3, <1>5 DEF Prunes
  <2> QED BY <1>1, <1>3, <1>6, <2>1
<1> QED BY <1>7, PruneDef DEF g

-----------------------------------------------------------------------------
(* Where the winners are while the search runs.                            *)

\* The users whom the first step of p evaluates.
EarlyUsers(p) == SocialUsers(p) \cup UsersWith(midKeys(p)) \cup UsersWith(rareKeys(p))

\* The stores that have had their first step.
Stepped == {stores[i] : i \in 1 .. poi_th}

\* p wins u, and the first step leaves him to the search.
Late(u, p) == Wins(u, p) /\ u \notin EarlyUsers(p)

\* p wins u within their leaves, who has yet to be evaluated for it.
Hopeful(u, p) == WinsWithin(u, p) /\ <<u, p>> \notin upEntryMark

\* The user is queued himself.
UserQueued(u, p) == UserEntry(p, u) \in Queue

\* Border b of a node that u is under and p is not is on the way from one to the
\* other, which is within their leaves at its ends.
Way(u, p, n, b) ==
  /\ n \in GTree /\ b \in Borders[n] /\ b \in Between(u, p) /\ Within(u, p)
  /\ db.uAt[u] \in Under[n] /\ db.pAt[p] \in Vertices \ Under[n]

\* The border is queued, or has been evaluated.
Awaited(p, n, b) == BorderEntry(p, n, b, nonRareKeys(p)) \in Queue
Come(p, n, b) == Awaited(p, n, b) \/ <<b, n, p>> \in borderMark

\* The user is beyond the range reached.
Outside(u, p) == p \in DOMAIN T_max /\ db.uAt[u] \notin Under[T_max[p]]

\* What is bounded at the vertices.
Bounded == \A b \in Vertices, t \in FrequentTerms : score.sb[b][t] = SBound(b, t)

\* What the database says, and the tables made of it.
Known == db \in Databases /\ Scored /\ Bounded

\* A border evaluated on the way to u has led to him, or to the borders of a child
\* that he is under.
LedFor(u, p) ==
  \A n \in GTree : \A b \in Borders[n] :
    Way(u, p, n, b) /\ <<b, n, p>> \in borderMark =>
      IF isleaf(n) THEN UserQueued(u, p)
      ELSE \E c \in Children[n] :
             db.uAt[u] \in Under[c] /\ \A d \in Borders[c] : Come(p, c, d)

\* What the first step has done.
Entered ==
  /\ poi_th \in 0 .. Len(stores) /\ DOMAIN T_max \subseteq Stepped
  /\ occurring \in [Stores -> SUBSET Users]
  /\ \A p \in Stepped :
       /\ \A u \in EarlyUsers(p) : <<u, p>> \in upEntryMark
       /\ occurring[p] = UsersWith(nonRareKeys(p)) \ (SocialUsers(p) \cup UsersWith(midKeys(p)))

\* What is queued, and when.
Queued ==
  \A e \in Queue :
    /\ e.p \in Stepped
    /\ e.isUser => e.id \in Users /\ e = UserEntry(e.p, e.id)
    /\ ~e.isUser =>
         /\ poi_th = Len(stores) /\ nonRareKeys(e.p) # {}
         /\ e.node \in GTree /\ e.id \in Borders[e.node]
         /\ e = BorderEntry(e.p, e.node, e.id, nonRareKeys(e.p))

\* The range reached has the store in it.
InRange == \A p \in DOMAIN T_max : T_max[p] \in GTree /\ db.pAt[p] \in Under[T_max[p]]

\* A hopeful user is queued, beyond a border that has come up, or out of range.
Expected ==
  \A u \in Users, p \in Stepped :
    Hopeful(u, p) => \/ UserQueued(u, p)
                     \/ \E n \in GTree : \E b \in Borders[n] : Way(u, p, n, b) /\ Come(p, n, b)
                     \/ Outside(u, p)

\* Borders evaluated on the way to hopeful users have led on.
Led == \A u \in Users, p \in Stepped : Hopeful(u, p) => LedFor(u, p)

\* No border is evaluated before the search, and no user is hopeful after it.
Phases ==
  /\ poi_th # Len(stores) => borderMark = {}
  /\ pc # "filter" => /\ poi_th = Len(stores)
                      /\ \A u \in Users, p \in Stepped : ~Hopeful(u, p)

\* The inductive invariant of the search.
SInv == /\ IInv /\ OneKeyword /\ Bounded
        /\ Entered /\ Queued /\ InRange /\ Expected /\ Led /\ Phases

\* When all stores have had their first step those are all.
LEMMA AllStepped == poi_th = Len(stores) => Stepped = Stores
<1>1. DOMAIN stores = 1 .. Len(stores)
  BY RoadAssumption
<1> QED BY <1>1 DEF Stepped, Stores, ToSet

\* Stores that have had their first step are stores.
LEMMA SteppedAreStores == Entered => Stepped \in SUBSET Stores
<1>1. DOMAIN stores = 1 .. Len(stores) /\ Len(stores) \in Nat
  BY RoadAssumption
<1>2. Entered => poi_th \in 0 .. Len(stores)
  BY DEF Entered
<1> QED BY <1>1, <1>2 DEF Stepped, Stores, ToSet

\* What a store is, whose keywords are frequent: it has one at most.
LEMMA OneFrequent ==
  ASSUME db \in Databases, OneKeyword, NEW p \in Stores, NEW t \in nonRareKeys(p)
  PROVE  t \in FrequentTerms /\ nonRareKeys(p) = {t}
<1>1. nonRareKeys(p) = {t}
  BY DEF OneKeyword
<1>2. t \in db.pKeys[p] /\ ~(getTermOjectInvListSize(t) <= K)
  BY DEF nonRareKeys, rareKeys
<1>3. t \in Terms
  BY <1>2, StoresArePois, DatabasesAssumption DEF Placed
<1>4. getTermOjectInvListSize(t) \in Nat /\ K \in Nat
  <2>1. IsFiniteSet({q \in Pois : t \in db.pKeys[q]})
    BY RoadAssumption, FS_Subset
  <2> QED BY <2>1, RoadAssumption, FS_CardinalityType DEF getTermOjectInvListSize
<1> QED BY <1>1, <1>2, <1>3, <1>4 DEF FrequentTerms

\* A user left to the search shares one keyword with the store, its only frequent
\* one, and is no friend of its visitors.
LEMMA KeyOfLate ==
  ASSUME db \in Databases, OneKeyword, NEW u \in Users, NEW p \in Stores, Late(u, p)
  PROVE  /\ u \in UsersWith(nonRareKeys(p)) \ EarlyUsers(p)
         /\ <<u, p>> \notin db.friends /\ p \in Pois
         /\ \E t \in FrequentTerms : nonRareKeys(p) = {t} /\ Shared(u, p) = {t}
<1>1. p \in Pois
  BY StoresArePois
<1>2. u \notin EarlyUsers(p)
  BY DEF Late
<1>3. <<u, p>> \notin db.friends
  BY <1>2 DEF EarlyUsers, SocialUsers
<1>4. ASSUME NEW t \in Shared(u, p)
      PROVE  t \in nonRareKeys(p)
  <2>1. t \in db.pKeys[p] /\ u \in getTermUserInvList(t)
    BY DEF Shared, getTermUserInvList
  <2>2. t \notin midKeys(p) /\ t \notin rareKeys(p)
    BY <1>2, <2>1 DEF EarlyUsers, UsersWith
  <2> QED BY <2>1, <2>2 DEF midKeys
<1>5. PICK t \in Shared(u, p) : TRUE
  BY DEF Late, Wins
<1>6. t \in nonRareKeys(p) /\ t \in db.uKeys[u]
  BY <1>4 DEF Shared
<1>7. nonRareKeys(p) = {t} /\ Shared(u, p) = {t} /\ t \in FrequentTerms
  BY <1>4, <1>5, <1>6, OneFrequent
<1>8. u \in UsersWith(nonRareKeys(p))
  BY <1>6 DEF UsersWith, getTermUserInvList
<1> QED BY <1>1, <1>2, <1>3, <1>7, <1>8

\* A hopeful user is left to the search.
LEMMA HopefulIsLate ==
  ASSUME Entered, NEW u \in Users, NEW p \in Stepped, Hopeful(u, p)
  PROVE  p \in Stores /\ Late(u, p) /\ Within(u, p)
BY SteppedAreStores DEF Entered, Hopeful, WinsWithin, Late

\* What there is of a user left to the search in the lists of the root.
LEMMA LateOccurs ==
  ASSUME db \in Databases, OneKeyword, Entered, NEW u \in Users, NEW p \in Stepped, Late(u, p)
  PROVE  u \in occurring[p]
<1>1. u \in UsersWith(nonRareKeys(p)) \ EarlyUsers(p)
  BY SteppedAreStores, KeyOfLate
<1>2. occurring[p] = UsersWith(nonRareKeys(p)) \ (SocialUsers(p) \cup UsersWith(midKeys(p)))
  BY DEF Entered
<1> QED BY <1>1, <1>2 DEF EarlyUsers

\* What the database and the scores say does not change.
LEMMA Frame ==
  ASSUME UNCHANGED <<db, score>>
  PROVE  /\ \A p : nonRareKeys(p)' = nonRareKeys(p) /\ midKeys(p)' = midKeys(p)
                   /\ rareKeys(p)' = rareKeys(p)
         /\ \A p : SocialUsers(p)' = SocialUsers(p) /\ EarlyUsers(p)' = EarlyUsers(p)
         /\ \A p : /\ UsersWith(nonRareKeys(p))' = UsersWith(nonRareKeys(p))
                   /\ UsersWith(midKeys(p))' = UsersWith(midKeys(p))
         /\ \A u, p : (Wins(u, p)' <=> Wins(u, p)) /\ UserEntry(p, u)' = UserEntry(p, u)
         /\ \A u, p : (Within(u, p)' <=> Within(u, p)) /\ (WinsWithin(u, p)' <=> WinsWithin(u, p))
         /\ \A p, n, b : BorderEntry(p, n, b, nonRareKeys(p))' = BorderEntry(p, n, b, nonRareKeys(p))
         /\ \A u, p, n, b : Way(u, p, n, b)' <=> Way(u, p, n, b)
         /\ OneKeyword => OneKeyword'
         /\ Bounded => Bounded'
<1>1. \A t : getTermOjectInvListSize(t)' = getTermOjectInvListSize(t)
  <2> SUFFICES ASSUME NEW t PROVE getTermOjectInvListSize(t)' = getTermOjectInvListSize(t)
    OBVIOUS
  <2>1. {p \in Pois : t \in db'.pKeys[p]} = {p \in Pois : t \in db.pKeys[p]}
    OBVIOUS
  <2> QED BY <2>1 DEF getTermOjectInvListSize
<1>2. \A t : getTermUserInvList(t)' = getTermUserInvList(t)
  BY DEF getTermUserInvList
<1>3. \A p : rareKeys(p)' = rareKeys(p)
  BY <1>1 DEF rareKeys
<1>4. \A p : nonRareKeys(p)' = nonRareKeys(p)
  BY <1>2, <1>3 DEF nonRareKeys
<1>5. \A p : midKeys(p)' = midKeys(p)
  BY <1>3, <1>4 DEF midKeys
<1>6. \A p : SocialUsers(p)' = SocialUsers(p)
  BY DEF SocialUsers
<1>7. \A p : /\ UsersWith(nonRareKeys(p))' = UsersWith(nonRareKeys(p))
             /\ UsersWith(midKeys(p))' = UsersWith(midKeys(p))
  BY <1>2, <1>4, <1>5 DEF UsersWith
<1>8. \A p : EarlyUsers(p)' = EarlyUsers(p)
  <2> SUFFICES ASSUME NEW p PROVE EarlyUsers(p)' = EarlyUsers(p)
    OBVIOUS
  <2>1. UsersWith(midKeys(p))' = UsersWith(midKeys(p))
    BY <1>2, <1>5 DEF UsersWith
  <2>2. UsersWith(rareKeys(p))' = UsersWith(rareKeys(p))
    BY <1>2, <1>3 DEF UsersWith
  <2> QED BY <1>6, <2>1, <2>2 DEF EarlyUsers
<1>0. /\ \A u, p : usrToPOIDistance(u, p)' = usrToPOIDistance(u, p)
      /\ \A b, u : UserDist(b, u)' = UserDist(b, u)
      /\ \A b, p : PoiDist(b, p)' = PoiDist(b, p) /\ UpperDist(b, p)' = UpperDist(b, p)
  BY DEF usrToPOIDistance, UserDist, PoiDist, UpperDist, Lesser
<1>9. /\ \A u, p : (Wins(u, p)' <=> Wins(u, p)) /\ UserEntry(p, u)' = UserEntry(p, u)
      /\ \A u, p : (Within(u, p)' <=> Within(u, p)) /\ (WinsWithin(u, p)' <=> WinsWithin(u, p))
  BY <1>0 DEF Wins, Within, WinsWithin, Shared, UserEntry
<1>10. \A p, n, b : BorderEntry(p, n, b, nonRareKeys(p))' = BorderEntry(p, n, b, nonRareKeys(p))
  BY <1>0, <1>4 DEF BorderEntry
<1>11. \A u, p, n, b : Way(u, p, n, b)' <=> Way(u, p, n, b)
  <2>1. \A u, p : Between(u, p)' = Between(u, p)
    BY <1>0 DEF Between
  <2> QED BY <1>9, <2>1 DEF Way
<1>12. OneKeyword => OneKeyword'
  BY <1>4 DEF OneKeyword
<1>13. Bounded => Bounded'
  <2>1. FrequentTerms' = FrequentTerms
    BY <1>1 DEF FrequentTerms
  <2>2. ASSUME NEW b, NEW t PROVE SBound(b, t)' = SBound(b, t)
    <3>1. [p \in db'.expanded[b][t] |-> <<Alpha + Idf[t], 1 + UpperDist(b, p)'>>]
            = [p \in db.expanded[b][t] |-> <<Alpha + Idf[t], 1 + UpperDist(b, p)>>]
      BY <1>0
    <3> QED BY <3>1 DEF SBound
  <2> QED BY <2>1, <2>2 DEF Bounded
<1> QED BY <1>3, <1>4, <1>5, <1>6, <1>7, <1>8, <1>9, <1>10, <1>11, <1>12, <1>13

\* The bound of a frequent keyword at a vertex is the one its POIs give there.
LEMMA BoundTypes ==
  ASSUME Known, NEW t \in FrequentTerms, NEW b \in Vertices
  PROVE  score.sb[b][t] = SBound(b, t) /\ score.sb[b][t] \in Fractions
<1> DEFINE D == db.expanded[b][t]
           sc == [q \in D |-> <<Alpha + Idf[t], 1 + UpperDist(b, q)>>]
<1>1. Placed(db) /\ t \in Terms
  BY DatabasesAssumption DEF Known, FrequentTerms
<1>3. IsFiniteSet(D) /\ D # {} /\ D \in SUBSET Pois
  BY Expanded DEF Known
<1>2. DOMAIN sc = D /\ \A q \in D : sc[q] \in Fractions
  <2>2. \A q \in D : UpperDist(b, q) \in Nat
    BY <1>1, <1>3, UpperTypes
  <2>3. Alpha \in Nat /\ Idf[t] \in Nat
    BY <1>1, RoadAssumption
  <2> QED BY <2>2, <2>3 DEF Fractions
<1>4. SBound(b, t) = KthBest(sc)
  BY DEF SBound
<1>5. SBound(b, t) \in Fractions
  <2> HIDE DEF sc, D
  <2> QED BY <1>2, <1>3, <1>4, KthBestIsKth
<1> QED BY <1>5 DEF Known, Bounded

\* What is left of a single keyword after pruning: all or nothing.
LEMMA PruneEither ==
  ASSUME Known, NEW t \in FrequentTerms, NEW b \in Vertices, NEW d, NEW with
  PROVE  Prune(b, d, {t}, with) \in {{}, {t}}
<1> DEFINE S == {t}
<1>1. score.sb[b][t] \in Fractions /\ S = {t}
  BY BoundTypes
<1> HIDE DEF S
<1>2. Prune(b, d, S, with) \in {{}, {t}}
  BY <1>1, PruneOne
<1> QED BY <1>1, <1>2

\* The keyword of a user left to the search is not pruned on the way to him.
LEMMA NotPruned ==
  ASSUME Known, OneKeyword, ShortestPaths, NEW u \in Users, NEW p \in Stores, Late(u, p),
         NEW b \in Between(u, p), NEW with,
         \A t \in nonRareKeys(p) : t \in with[t]
  PROVE  Prune(b, PoiDist(b, p), nonRareKeys(p), with) = nonRareKeys(p)
<1>1. PICK t \in FrequentTerms : nonRareKeys(p) = {t} /\ Shared(u, p) = {t}
  BY KeyOfLate DEF Known
<1>2. <<u, p>> \notin db.friends /\ p \in Pois /\ db \in Databases
  BY KeyOfLate DEF Known
<1>3. t \in Terms /\ b \in Vertices
  BY DEF FrequentTerms, Between
<1>4. score.sb[b][t] = SBound(b, t) /\ score.sb[b][t] \in Fractions
  BY <1>2, <1>3, BoundTypes
<1>5. Less(TopkScore(u), GSKScore(u, p))
  BY <1>2 DEF Known, Scored, Late, Wins
<1>6. ~Less(<<Alpha + Idf[t], 1 + PoiDist(b, p)>>, SBound(b, t))
  BY <1>1, <1>2, <1>3, <1>5, BoundIsReached
<1>7. with[t] \cap {t} = {t} /\ tfIDF_termSet({t}) = Idf[t]
  BY <1>1, <1>3, OneWeight
<1> DEFINE d == PoiDist(b, p)
<1>8. ~Less(<<Alpha + tfIDF_termSet(with[t] \cap {t}), 1 + d>>, score.sb[b][t])
  BY <1>4, <1>6, <1>7
<1> HIDE DEF d
<1>9. Prune(b, d, nonRareKeys(p), with) = {t}
  BY <1>1, <1>4, <1>8, PruneOne
<1> QED BY <1>1, <1>9 DEF d

\* A node that is not a leaf has a child over every vertex under it.
LEMMA ChildOver ==
  ASSUME OneTree, NEW n \in GTree, ~isleaf(n), NEW v \in Under[n]
  PROVE  \E c \in Children[n] : c \in GTree /\ v \in Under[c]
<1>1. v \in Vertices /\ \E i \in 1 .. Len(gtreepath[v]) : gtreepath[v][i] = n
  BY PlaceOnPath
<1>2. PICK i \in 1 .. Len(gtreepath[v]) : gtreepath[v][i] = n
  BY <1>1
<1>3. i # Len(gtreepath[v])
  BY <1>1, <1>2, EveryPath DEF isleaf
<1>4. i \in 1 .. Len(gtreepath[v]) - 1
  BY <1>1, <1>2, <1>3, EveryPath
<1> QED BY <1>1, <1>2, <1>4, NextIsChild

\* Two vertices of one leaf are under the same nodes.
LEMMA OneLeafUnder ==
  ASSUME OneTree, NEW v \in Vertices, NEW w \in Vertices, LeafOf[v] = LeafOf[w], NEW n \in GTree
  PROVE  v \in Under[n] <=> w \in Under[n]
<1>1. /\ gtreepath[v] \in Seq(Nat) /\ Len(gtreepath[v]) \in Nat \ {0}
      /\ gtreepath[w] \in Seq(Nat) /\ Len(gtreepath[w]) \in Nat \ {0}
      /\ gtreepath[v][Len(gtreepath[v])] = gtreepath[w][Len(gtreepath[w])]
  BY EveryPath
<1>2. /\ Len(gtreepath[v]) \in 1 .. Len(gtreepath[v])
      /\ Len(gtreepath[w]) \in 1 .. Len(gtreepath[w])
  BY <1>1
<1>3. /\ Len(gtreepath[v]) = Len(gtreepath[w])
      /\ \A k \in 1 .. Len(gtreepath[v]) : gtreepath[v][k] = gtreepath[w][k]
  BY <1>1, <1>2, PathsAgree
<1>4. DOMAIN gtreepath[v] = 1 .. Len(gtreepath[v]) /\ DOMAIN gtreepath[w] = 1 .. Len(gtreepath[w])
  BY <1>1
<1>5. ToSet(gtreepath[v]) = ToSet(gtreepath[w])
  BY <1>3, <1>4 DEF ToSet
<1> QED BY <1>5 DEF Under

\* A way within the leaves of its ends is across a border of each node that is
\* over one of them only.
LEMMA AcrossBorder ==
  ASSUME ShortestPaths, OneTree, db \in Databases, NEW u \in Users, NEW p \in Stores,
         Within(u, p), NEW n \in GTree, db.uAt[u] \in Under[n] <=> db.pAt[p] \notin Under[n]
  PROVE  \E b \in Borders[n] : b \in Between(u, p)
<1>1. Placed(db) /\ p \in Pois
  BY DatabasesAssumption, StoresArePois
<1>2. /\ db.uAt[u] \in Vertices /\ db.uTo[u] \in Vertices
      /\ db.pAt[p] \in Vertices /\ db.pTo[p] \in Vertices
  BY <1>1, Places
<1>3. LeafOf[db.uAt[u]] # LeafOf[db.pAt[p]]
  BY <1>2, OneLeafUnder
<1>4. LeafOf[db.uTo[u]] = LeafOf[db.uAt[u]] /\ LeafOf[db.pTo[p]] = LeafOf[db.pAt[p]]
  BY <1>3 DEF Within
<1>5. /\ db.uTo[u] \in Under[n] <=> db.uAt[u] \in Under[n]
      /\ db.pTo[p] \in Under[n] <=> db.pAt[p] \in Under[n]
  BY <1>2, <1>4, OneLeafUnder
<1> QED BY <1>1, <1>5, BorderBetween

\* From one border on the way to a border of the child over the user.
LEMMA NextBorder ==
  ASSUME ShortestPaths, OneTree, db \in Databases, NEW u \in Users, NEW p \in Stores, NEW n \in GTree, NEW b, Way(u, p, n, b),
         NEW c \in Children[n], db.uAt[u] \in Under[c]
  PROVE  c \in GTree /\ \E d \in Borders[c] : Way(u, p, c, d)
<1>1. c \in GTree /\ db.pAt[p] \in Vertices
  BY UnderChild DEF Way
<1>2. db.pAt[p] \notin Under[c]
  BY UnderChild DEF Way
<1>3. PICK d \in Borders[c] : d \in Between(u, p)
  BY <1>1, <1>2, AcrossBorder DEF Way
<1> QED BY <1>1, <1>2, <1>3 DEF Way

\* A border on the way that has come up leads to the user in the queue or to a
\* border on the way in the queue.
LEMMA Descent ==
  ASSUME ShortestPaths, OneTree, db \in Databases, NEW u \in Users, NEW p \in Stores, LedFor(u, p),
         NEW n \in GTree, NEW b \in Borders[n], Way(u, p, n, b), Come(p, n, b)
  PROVE  \/ UserQueued(u, p)
         \/ \E m \in GTree : \E d \in Borders[m] : Way(u, p, m, d) /\ Awaited(p, m, d)
<1> DEFINE v == db.uAt[u]
           path == gtreepath[v]
           len == Len(path)
           On(m) == \E d \in Borders[m] : Way(u, p, m, d) /\ Come(p, m, d)
           J == {j \in 0 .. len - 1 : On(path[len - j])}
<1> SUFFICES ASSUME ~UserQueued(u, p),
                    \A m \in GTree : \A d \in Borders[m] : ~(Way(u, p, m, d) /\ Awaited(p, m, d))
             PROVE  FALSE
  OBVIOUS
<1>1. v \in Under[n] /\ v \in Vertices
  <2>1. v \in Under[n]
    BY DEF Way
  <2> QED BY <2>1, PlaceOnPath
<1>2. len \in Nat \ {0} /\ \A i \in 1 .. len : path[i] \in GTree
  BY <1>1, EveryPath
<1>3. J \in SUBSET Nat /\ J # {}
  <2>1. PICK i \in 1 .. len : path[i] = n
    BY <1>1, PlaceOnPath
  <2>2. len - i \in 0 .. len - 1 /\ len - (len - i) = i
    <3>1. len \in Nat /\ i \in 1 .. len
      BY <1>2
    <3> HIDE DEF len, path, J, On
    <3> QED BY <3>1
  <2>3. On(path[i])
    <3>1. On(n)
      OBVIOUS
    <3> HIDE DEF On, path
    <3> QED BY <2>1, <3>1
  <2>4. len - i \in J
    <3> DEFINE k == len - i
    <3>1. k \in 0 .. len - 1 /\ path[len - k] = path[i]
      BY <2>2
    <3> HIDE DEF On, path, len, k
    <3>2. On(path[len - k])
      BY <2>3, <3>1
    <3>3. k \in J
      BY <3>1, <3>2
    <3> HIDE DEF J
    <3> QED BY <3>3 DEF k
  <2>5. J \in SUBSET Nat
    <3> HIDE DEF On, path, len
    <3> QED BY <1>2
  <2> HIDE DEF J
  <2> QED BY <2>4, <2>5
<1>4. PICK j \in J : \A k \in J : j <= k
  <2> HIDE DEF J
  <2> QED BY <1>3, LeastNatural
<1> DEFINE i == len - j
           m == path[i]
<1>5. i \in 1 .. len /\ j = len - i /\ On(m)
  <2> HIDE DEF On, path, len
  <2> QED BY <1>2, <1>4
<1> HIDE DEF i
<1>6. m \in GTree
  BY <1>2, <1>5
<1>7. PICK d \in Borders[m] : Way(u, p, m, d) /\ Come(p, m, d)
  BY <1>5
<1>8. <<d, m, p>> \in borderMark
  BY <1>6, <1>7 DEF Come
<1>9. PICK c \in Children[m] : v \in Under[c] /\ \A e \in Borders[c] : Come(p, c, e)
  <2> HIDE DEF m, v
  <2>1. IF isleaf(m) THEN UserQueued(u, p)
        ELSE \E c \in Children[m] : db.uAt[u] \in Under[c] /\ \A e \in Borders[c] : Come(p, c, e)
    BY <1>6, <1>7, <1>8 DEF LedFor
  <2> QED BY <2>1 DEF v
<1>10. c \in GTree /\ On(c)
  <2> HIDE DEF m
  <2>1. c \in GTree /\ \E e \in Borders[c] : Way(u, p, c, e)
    BY <1>6, <1>7, <1>9, NextBorder
  <2> QED BY <1>9, <2>1
<1>11. PICK k \in 1 .. len - 1 : path[k] = m /\ path[k+1] = c
  <2> HIDE DEF m
  <2> QED BY <1>6, <1>9, UnderChild
<1>12. k = i
  <2>1. k \in 1 .. len /\ path[k] = path[i]
    BY <1>2, <1>11
  <2> QED BY <1>1, <1>5, <2>1, PathsAgree
<1>13. j - 1 \in J
  <2>1. j - 1 \in 0 .. len - 1 /\ len - (j - 1) = i + 1
    <3> HIDE DEF len
    <3> QED BY <1>2, <1>5, <1>11, <1>12
  <2>2. On(path[i+1])
    BY <1>10, <1>11, <1>12
  <2> HIDE DEF On, path, len
  <2> QED BY <2>1, <2>2
<1> HIDE DEF J, len
<1> QED BY <1>3, <1>4, <1>13

-----------------------------------------------------------------------------
(* Evaluating a border.                                                    *)

\* The keywords left at a border, with the users under its node.
KeysLeft(p, n, b) ==
  Prune(b, PoiDist(b, p), nonRareKeys(p), [t \in nonRareKeys(p) |-> Cluster(p, n, t)])

\* What keywords lead to at a node: users of a leaf, or children.
Related(n, keys) == UNION {getUsrTermRelatedEntry(t, n) : t \in keys}

\* All keywords of the store are left or none.
LEMMA KeysLeftAre ==
  ASSUME Known, OneKeyword, NEW p \in Stores, NEW n, NEW b \in Vertices, nonRareKeys(p) # {}
  PROVE  KeysLeft(p, n, b) \in {{}, nonRareKeys(p)}
<1>1. PICK t \in nonRareKeys(p) : TRUE
  OBVIOUS
<1>2. t \in FrequentTerms /\ nonRareKeys(p) = {t}
  BY OneFrequent DEF Known
<1> DEFINE with == [x \in nonRareKeys(p) |-> Cluster(p, n, x)]
<1> HIDE DEF with
<1>3. Prune(b, PoiDist(b, p), {t}, with) \in {{}, {t}}
  BY <1>2, PruneEither
<1> QED BY <1>2, <1>3 DEF KeysLeft, with

\* A border on the way to a user left to the search leads to him, or to a child
\* that he is under.
LEMMA LeadsOn ==
  ASSUME Known, OneKeyword, ShortestPaths, OneTree, NEW u \in Users, NEW p \in Stores, Late(u, p),
         u \in occurring[p], NEW n, NEW b, Way(u, p, n, b)
  PROVE  /\ KeysLeft(p, n, b) = nonRareKeys(p) /\ u \in OccursUnder(p, n)
         /\ isleaf(n) => u \in Related(n, nonRareKeys(p))
         /\ ~isleaf(n) => \E c \in Children[n] :
                            /\ c \in GTree /\ db.uAt[u] \in Under[c]
                            /\ c \in Related(n, nonRareKeys(p))
<1>1. PICK t \in FrequentTerms : nonRareKeys(p) = {t} /\ Shared(u, p) = {t}
  BY KeyOfLate DEF Known
<1>2. /\ n \in GTree /\ db.uAt[u] \in Under[n] /\ b \in Between(u, p)
      /\ t \in db.uKeys[u] /\ u \in OccursUnder(p, n)
  BY <1>1 DEF Way, OccursUnder, Shared
<1> DEFINE with == [x \in nonRareKeys(p) |-> Cluster(p, n, x)]
<1>3. \A x \in nonRareKeys(p) : x \in with[x]
  <2>1. t \in Cluster(p, n, t)
    BY <1>1, <1>2 DEF Cluster
  <2> QED BY <1>1, <2>1
<1>4. KeysLeft(p, n, b) = nonRareKeys(p)
  <2> HIDE DEF with
  <2>1. Prune(b, PoiDist(b, p), nonRareKeys(p), with) = nonRareKeys(p)
    BY <1>2, <1>3, NotPruned
  <2> QED BY <2>1 DEF KeysLeft, with
<1>5. ASSUME isleaf(n)
      PROVE  u \in Related(n, nonRareKeys(p))
  <2>1. u \in getUsrTermRelatedEntry(t, n)
    BY <1>2, <1>5 DEF getUsrTermRelatedEntry, UsersUnder, getTermUserInvList
  <2> QED BY <1>1, <2>1 DEF Related
<1>6. ASSUME ~isleaf(n)
      PROVE  \E c \in Children[n] :
               c \in GTree /\ db.uAt[u] \in Under[c] /\ c \in Related(n, nonRareKeys(p))
  <2>1. PICK c \in Children[n] : c \in GTree /\ db.uAt[u] \in Under[c]
    BY <1>2, <1>6, ChildOver
  <2>2. u \in UsersUnder(c, t)
    BY <1>2, <2>1 DEF UsersUnder, getTermUserInvList
  <2>3. c \in getUsrTermRelatedEntry(t, n)
    BY <1>6, <2>2 DEF getUsrTermRelatedEntry
  <2> QED BY <1>1, <2>1, <2>3 DEF Related
<1> QED BY <1>2, <1>4, <1>5, <1>6

\* What a border leads to: users of its leaf, or borders of the children, with
\* what is left of the keywords.
LEMMA BeyondIs ==
  ASSUME OneTree, NEW e, e.node \in GTree, NEW keys, NEW f,
         f \in Beyond(e, keys) \/ (poi = e.p /\ f \in BeyondBorder(e, keys))
  PROVE  /\ f.p = e.p /\ keys # {}
         /\ \/ f.isUser /\ f.id \in Users /\ f = UserEntry(e.p, f.id)
               /\ db.uAt[f.id] \in Under[e.node] /\ isleaf(e.node)
            \/ ~f.isUser /\ f.node \in Children[e.node] /\ f.node \in GTree
               /\ f.id \in Borders[f.node] /\ f = BorderEntry(e.p, f.node, f.id, keys)
               /\ ~isleaf(e.node)
<1> DEFINE p == e.p
           n == e.node
<1>1. \/ isleaf(n) /\ \E u \in Related(n, keys) : f = UserEntry(p, u)
      \/ ~isleaf(n) /\ \E c \in Related(n, keys) : \E d \in Borders[c] : f = BorderEntry(p, c, d, keys)
  BY DEF Beyond, BeyondBorder, Related
<1> HIDE DEF p, n
<1>2. ASSUME isleaf(n), NEW u \in Related(n, keys), f = UserEntry(p, u)
      PROVE  f.p = p /\ keys # {} /\ f.isUser /\ f.id = u /\ u \in Users /\ db.uAt[u] \in Under[n]
  <2>1. PICK t \in keys : u \in getUsrTermRelatedEntry(t, n)
    BY DEF Related
  <2>2. u \in Users /\ db.uAt[u] \in Under[n]
    BY <1>2, <2>1 DEF getUsrTermRelatedEntry, UsersUnder, getTermUserInvList
  <2> QED BY <1>2, <2>1, <2>2 DEF UserEntry
<1>3. ASSUME ~isleaf(n), NEW c \in Related(n, keys), NEW d \in Borders[c],
             f = BorderEntry(p, c, d, keys)
      PROVE  f.p = p /\ keys # {} /\ ~f.isUser /\ f.node = c /\ f.id = d /\ c \in Children[n] /\ c \in GTree
  <2>1. PICK t \in keys : c \in getUsrTermRelatedEntry(t, n)
    BY DEF Related
  <2>2. c \in Children[n]
    BY <1>3, <2>1 DEF getUsrTermRelatedEntry
  <2>3. c \in GTree
    BY <2>2 DEF Children, n
  <2> QED BY <1>3, <2>1, <2>2, <2>3 DEF BorderEntry
<1> QED BY <1>1, <1>2, <1>3 DEF p, n

-----------------------------------------------------------------------------
(* Climbing.                                                               *)

\* The nodes at which the climb of p along z's path may stop.
FoundAt(p, z, a) == Siblings(p, gtreepath[z][a], gtreepath[z][a+1])

\* A climb along a path, from place m: without anything to search it stays;
\* otherwise it goes to the nearest node with something.
LEMMA ClimbIs ==
  ASSUME OneTree, NEW z \in Vertices, NEW m \in 1 .. Len(gtreepath[z]), NEW p
  PROVE  \/ /\ \A a \in 1 .. m - 1 : FoundAt(p, z, a) = {}
            /\ Climb(p, gtreepath[z][m]) = [node |-> gtreepath[z][m], entries |-> {}]
         \/ \E a \in 1 .. m - 1 :
              /\ FoundAt(p, z, a) # {} /\ \A b \in a + 1 .. m - 1 : FoundAt(p, z, b) = {}
              /\ Climb(p, gtreepath[z][m]) = [node |-> gtreepath[z][a], entries |-> FoundAt(p, z, a)]
<1> DEFINE n == gtreepath[z][m]
           path == <<n>> \o Above(n)
           stops == {j \in 2 .. Len(path) : Siblings(p, path[j], path[j-1]) # {}}
<1>1. Len(gtreepath[z]) \in Nat /\ m \in Nat \ {0} /\ gtreepath[z] \in Seq(Nat)
  BY EveryPath
<1>2. Above(n) = [j \in 1 .. m - 1 |-> gtreepath[z][m - j]]
  BY AboveOnPath
<1>3. Len(path) = m /\ \A j \in 1 .. m : path[j] = gtreepath[z][m + 1 - j]
  <2>1. Above(n) \in Seq(Nat) /\ Len(Above(n)) = m - 1 /\ n \in Nat
    <3>1. \A j \in 1 .. m - 1 : gtreepath[z][m - j] \in Nat
      BY <1>1
    <3>2. n \in Nat
      BY <1>1
    <3> HIDE DEF n
    <3> QED BY <1>1, <1>2, <3>1, <3>2
  <2>2. \A j \in 1 .. m - 1 : Above(n)[j] = gtreepath[z][m - j]
    <3> HIDE DEF n
    <3> QED BY <1>2
  <2>3. Len(path) = m
    <3> HIDE DEF n
    <3> QED BY <1>1, <2>1
  <2>4. ASSUME NEW j \in 1 .. m
        PROVE  path[j] = gtreepath[z][m + 1 - j]
    <3>1. CASE j = 1
      <4>1. path[1] = n
        <5> HIDE DEF n
        <5> QED BY <2>1
      <4>2. m + 1 - j = m
        BY <1>1, <3>1
      <4> QED BY <3>1, <4>1, <4>2
    <3>2. CASE j # 1
      <4>1. j - 1 \in 1 .. m - 1 /\ m - (j - 1) = m + 1 - j
        BY <1>1, <3>2
      <4>2. path[j] = Above(n)[j-1]
        <5> HIDE DEF n
        <5> QED BY <1>1, <2>1, <4>1
      <4> QED BY <2>2, <4>1, <4>2
    <3> QED BY <3>1, <3>2
  <2> QED BY <2>3, <2>4
<1>4. \A j \in 2 .. m : Siblings(p, path[j], path[j-1]) = FoundAt(p, z, m + 1 - j)
  <2> SUFFICES ASSUME NEW j \in 2 .. m
               PROVE  Siblings(p, path[j], path[j-1]) = FoundAt(p, z, m + 1 - j)
    OBVIOUS
  <2>1. /\ j \in 1 .. m /\ j - 1 \in 1 .. m /\ m + 1 - (j - 1) = (m + 1 - j) + 1
    BY <1>1
  <2>2. path[j] = gtreepath[z][m + 1 - j] /\ path[j-1] = gtreepath[z][(m + 1 - j) + 1]
    BY <1>3, <2>1
  <2> HIDE DEF path
  <2> QED BY <2>2 DEF FoundAt
<1>5. /\ stops = {} => Climb(p, n) = [node |-> n, entries |-> {}]
      /\ stops # {} => Climb(p, n) = [node |-> path[Min(stops)],
                                      entries |-> Siblings(p, path[Min(stops)], path[Min(stops)-1])]
  BY DEF Climb
<1> HIDE DEF path, n
<1>6. CASE stops = {}
  <2>1. ASSUME NEW a \in 1 .. m - 1 PROVE FoundAt(p, z, a) = {}
    <3> DEFINE j == m + 1 - a
    <3>1. j \in 2 .. m /\ m + 1 - j = a
      BY <1>1
    <3> HIDE DEF j
    <3> QED BY <1>3, <1>4, <1>6, <3>1
  <2> QED BY <1>5, <1>6, <2>1 DEF n
<1>7. CASE stops # {}
  <2> DEFINE j == Min(stops)
             a == m + 1 - j
  <2>1. stops \in SUBSET Nat
    OBVIOUS
  <2>2. j \in stops /\ \A k \in stops : j <= k
    <3> HIDE DEF stops
    <3> QED BY <1>7, <2>1, MinIsLeast
  <2> HIDE DEF j
  <2>3. j \in 2 .. m /\ Siblings(p, path[j], path[j-1]) # {}
    BY <1>3, <2>2
  <2>4. a \in 1 .. m - 1 /\ j \in 1 .. m
    BY <1>1, <2>3
  <2>5. FoundAt(p, z, a) # {}
    BY <1>4, <2>3
  <2>6. ASSUME NEW b \in a + 1 .. m - 1 PROVE FoundAt(p, z, b) = {}
    <3> DEFINE k == m + 1 - b
    <3>1. k \in 2 .. m /\ m + 1 - k = b /\ ~(j <= k)
      BY <1>1, <2>3, <2>4
    <3> HIDE DEF k
    <3>2. k \notin stops
      <4> HIDE DEF stops
      <4> QED BY <2>2, <3>1
    <3> QED BY <1>3, <1>4, <3>1, <3>2
  <2>7. Climb(p, n) = [node |-> gtreepath[z][a], entries |-> FoundAt(p, z, a)]
    <3>1. Climb(p, n) = [node |-> path[j], entries |-> Siblings(p, path[j], path[j-1])]
      BY <1>5, <1>7 DEF j
    <3> HIDE DEF stops
    <3> QED BY <1>3, <1>4, <2>3, <2>4, <3>1
  <2> HIDE DEF a
  <2> QED BY <2>4, <2>5, <2>6, <2>7 DEF n
<1> QED BY <1>6, <1>7

\* What a climb finds: children on other branches than z's, each with a user who
\* has one of the keywords.
LEMMA FoundIs ==
  ASSUME OneTree, NEW z \in Vertices, NEW a \in 1 .. Len(gtreepath[z]) - 1, NEW p, NEW c
  PROVE  /\ gtreepath[z][a] \in GTree /\ z \in Under[gtreepath[z][a]]
         /\ c \in FoundAt(p, z, a) <=>
              /\ c \in Children[gtreepath[z][a]] /\ c # gtreepath[z][a+1]
              /\ \E t \in nonRareKeys(p) : UsersUnder(c, t) # {}
         /\ c \in FoundAt(p, z, a) => c \in GTree /\ z \notin Under[c]
<1> DEFINE n == gtreepath[z][a]
<1>1. n \in GTree /\ z \in Under[n] /\ ~isleaf(n)
  BY NextIsChild
<1>2. c \in FoundAt(p, z, a) <=>
        /\ c \in Children[n] /\ c # gtreepath[z][a+1]
        /\ \E t \in nonRareKeys(p) : UsersUnder(c, t) # {}
  <2>1. \A t : getUsrTermRelatedEntry(t, n) = {d \in Children[n] : UsersUnder(d, t) # {}}
    BY <1>1 DEF getUsrTermRelatedEntry
  <2>2. FoundAt(p, z, a) = (UNION {getUsrTermRelatedEntry(t, n) : t \in nonRareKeys(p)}) \ {gtreepath[z][a+1]}
    BY DEF FoundAt, Siblings
  <2> HIDE DEF n
  <2>3. c \in FoundAt(p, z, a) <=>
          c # gtreepath[z][a+1] /\ \E t \in nonRareKeys(p) : c \in getUsrTermRelatedEntry(t, n)
    BY <2>2
  <2> QED BY <2>1, <2>3
<1>3. ASSUME c \in FoundAt(p, z, a)
      PROVE  c \in GTree /\ z \notin Under[c]
  <2>1. c \in Children[n] /\ c # gtreepath[z][a+1]
    BY <1>2, <1>3
  <2>2. c \in GTree
    BY <1>1, <2>1 DEF Children
  <2>3. ASSUME z \in Under[c] PROVE FALSE
    <3>1. PICK i \in 1 .. Len(gtreepath[z]) - 1 : gtreepath[z][i] = n /\ gtreepath[z][i+1] = c
      <4> HIDE DEF n
      <4> QED BY <1>1, <2>1, <2>3, UnderChild
    <3>2. i = a
      <4>1. i \in 1 .. Len(gtreepath[z]) /\ a \in 1 .. Len(gtreepath[z])
        BY EveryPath
      <4> QED BY <3>1, <4>1, PathsAgree
    <3> QED BY <2>1, <3>1, <3>2
  <2> QED BY <2>2, <2>3
<1> QED BY <1>1, <1>2, <1>3

\* A climb stays over the store, and finds children with users who have one of
\* the store's keywords, on other branches.
LEMMA RangeClimbs ==
  ASSUME OneTree, NEW p, NEW n \in GTree, db.pAt[p] \in Under[n]
  PROVE  LET r == Climb(p, n)
         IN  /\ r.node \in GTree /\ db.pAt[p] \in Under[r.node]
             /\ \A c \in r.entries :
                  /\ c \in Children[r.node] /\ c \in GTree /\ db.pAt[p] \in Vertices \ Under[c]
                  /\ \E t \in nonRareKeys(p) : UsersUnder(c, t) # {}
<1> DEFINE z == db.pAt[p]
           r == Climb(p, n)
<1>2. z \in Vertices /\ \E i \in 1 .. Len(gtreepath[z]) : gtreepath[z][i] = n
  BY PlaceOnPath
<1>3. PICK m \in 1 .. Len(gtreepath[z]) : gtreepath[z][m] = n
  BY <1>2
<1>4. Len(gtreepath[z]) \in Nat
  BY <1>2, EveryPath
<1>6. \/ r = [node |-> n, entries |-> {}]
      \/ \E a \in 1 .. m - 1 : r = [node |-> gtreepath[z][a], entries |-> FoundAt(p, z, a)]
  <2> HIDE DEF z
  <2> QED BY <1>2, <1>3, ClimbIs
<1>7. CASE r = [node |-> n, entries |-> {}]
  BY <1>7
<1>8. CASE \E a \in 1 .. m - 1 : r = [node |-> gtreepath[z][a], entries |-> FoundAt(p, z, a)]
  <2>1. PICK a \in 1 .. m - 1 : r = [node |-> gtreepath[z][a], entries |-> FoundAt(p, z, a)]
    BY <1>8
  <2>2. a \in 1 .. Len(gtreepath[z]) /\ a \in 1 .. Len(gtreepath[z]) - 1
    BY <1>4
  <2>3. gtreepath[z][a] \in GTree /\ z \in Under[gtreepath[z][a]]
    BY <1>2, <2>2, EveryPath
  <2>4. r.node = gtreepath[z][a] /\ r.entries = FoundAt(p, z, a)
    <3> HIDE DEF r
    <3> QED BY <2>1
  <2> HIDE DEF r, z
  <2>5. ASSUME NEW c \in FoundAt(p, z, a)
        PROVE  /\ c \in Children[gtreepath[z][a]] /\ c \in GTree /\ z \in Vertices \ Under[c]
               /\ \E t \in nonRareKeys(p) : UsersUnder(c, t) # {}
    BY <1>2, <2>2, FoundIs
  <2> QED BY <2>3, <2>4, <2>5 DEF r, z
<1> QED BY <1>6, <1>7, <1>8

\* What is found has users with the keyword of a store that has one.
LEMMA FoundKeys ==
  ASSUME db \in Databases, OneKeyword, NEW p \in Stores, NEW c,
         \E t \in nonRareKeys(p) : UsersUnder(c, t) # {}
  PROVE  /\ nonRareKeys(p) # {} /\ nonRareKeys(p) \cap TermsUnder(c) = nonRareKeys(p)
         /\ \E v \in Vertices : v \in Under[c]
<1>1. PICK t \in nonRareKeys(p) : UsersUnder(c, t) # {}
  OBVIOUS
<1>2. PICK v \in Users : t \in db.uKeys[v] /\ db.uAt[v] \in Under[c]
  BY <1>1 DEF UsersUnder, getTermUserInvList
<1>3. db.uAt[v] \in Vertices /\ t \in TermsUnder(c)
  BY <1>2, DatabasesAssumption DEF Placed, TermsUnder
<1>4. nonRareKeys(p) = {t}
  BY OneFrequent
<1> QED BY <1>2, <1>3, <1>4

\* A climb finds something while a user left to the search is outside, and him
\* when it reaches a node that he is under.
LEMMA ClimbMeets ==
  ASSUME db \in Databases, OneKeyword, OneTree, NEW u \in Users, NEW p \in Stores, Late(u, p),
         NEW n \in GTree, db.pAt[p] \in Under[n], db.uAt[u] \notin Under[n]
  PROVE  LET r == Climb(p, n)
         IN  /\ r.entries # {}
             /\ db.uAt[u] \in Under[r.node] => \E c \in r.entries : db.uAt[u] \in Under[c]
<1> DEFINE z == db.pAt[p]
           v == db.uAt[u]
           pz == gtreepath[z]
           pv == gtreepath[v]
           r == Climb(p, n)
<1>1. n \in GTree /\ z \in Under[n] /\ Placed(db) /\ v \notin Under[n]
  BY DatabasesAssumption
<1>2. z \in Vertices /\ (\E i \in 1 .. Len(pz) : pz[i] = n) /\ v \in Vertices
  <2>1. v \in Vertices
    BY <1>1 DEF Placed
  <2> QED BY <1>1, <2>1, PlaceOnPath
<1>3. PICK m \in 1 .. Len(pz) : pz[m] = n
  BY <1>2
<1>4. Len(pz) \in Nat \ {0} /\ Len(pv) \in Nat \ {0}
  BY <1>2, EveryPath
<1> DEFINE common == {i \in 1 .. Len(pz) : i <= Len(pv) /\ pv[i] = pz[i]}
           k == Max(common)
<1>5. k \in common /\ \A i \in common : i <= k
  <2>1. 1 \in common
    <3>1. pv[1] = Root /\ pz[1] = Root
      BY <1>2 DEF OneTree
    <3> HIDE DEF pv, pz
    <3> QED BY <1>4, <3>1
  <2>2. common \in SUBSET (1 .. Len(pz)) /\ IsFiniteSet(1 .. Len(pz))
    <3>1. common \in SUBSET (1 .. Len(pz))
      OBVIOUS
    <3> HIDE DEF common, pz
    <3>2. IsFiniteSet(1 .. Len(pz))
      BY <1>4, FS_Interval
    <3> QED BY <3>1, <3>2
  <2>3. common \in SUBSET Int /\ IsFiniteSet(common) /\ common # {}
    <3> HIDE DEF common
    <3>1. 1 .. Len(pz) \in SUBSET Int
      OBVIOUS
    <3> QED BY <2>1, <2>2, <3>1, FS_Subset
  <2> HIDE DEF common
  <2> QED BY <2>3, MaxIsGreatest
<1> HIDE DEF k
<1>6. k \in 1 .. Len(pz) /\ k \in 1 .. Len(pv) /\ pv[k] = pz[k]
  <2> HIDE DEF pv, pz
  <2> QED BY <1>4, <1>5
<1>7. k < m
  <2> SUFFICES ASSUME ~(k < m)
               PROVE  FALSE
    OBVIOUS
  <2>1. m \in 1 .. k
    <3> HIDE DEF pz, pv
    <3> QED BY <1>4, <1>6
  <2>2. pv[m] = pz[m]
    BY <1>2, <1>6, <2>1, PathsAgree
  <2>3. m \in 1 .. Len(pv)
    <3> HIDE DEF pz, pv
    <3> QED BY <1>4, <1>6, <2>1
  <2>4. v \in Under[pv[m]]
    BY <1>2, <2>3, EveryPath
  <2> HIDE DEF pv, pz, v
  <2> QED BY <1>1, <1>3, <2>2, <2>4
<1>8. k # Len(pv)
  <2> SUFFICES ASSUME k = Len(pv)
               PROVE  FALSE
    OBVIOUS
  <2>1. DOMAIN pv = 1 .. Len(pv) /\ DOMAIN pz = 1 .. Len(pz)
    BY <1>2, RoadAssumption
  <2>2. k = Len(pz)
    BY <1>2, <1>6, <2>1 DEF OneTree
  <2> HIDE DEF pv, pz
  <2> QED BY <1>3, <1>4, <1>7, <2>2
<1>9. k \in 1 .. Len(pv) - 1 /\ k \in 1 .. Len(pz) - 1 /\ k \in 1 .. m - 1
  <2> HIDE DEF pv, pz
  <2> QED BY <1>3, <1>4, <1>6, <1>7, <1>8
<1> DEFINE c == pv[k+1]
<1>10. c \in Children[pv[k]] /\ v \in Under[c]
  BY <1>2, <1>9, NextIsChild
<1>11. c # pz[k+1]
  <2> SUFFICES ASSUME c = pz[k+1]
               PROVE  FALSE
    OBVIOUS
  <2>1. k + 1 \in common
    <3> HIDE DEF pv, pz
    <3> QED BY <1>4, <1>9
  <2> HIDE DEF common
  <2> QED BY <1>5, <1>9, <2>1
<1>12. \E t \in nonRareKeys(p) : UsersUnder(c, t) # {}
  <2>1. PICK t \in FrequentTerms : nonRareKeys(p) = {t} /\ Shared(u, p) = {t}
    BY KeyOfLate
  <2>2. t \in db.uKeys[u]
    BY <2>1 DEF Shared
  <2>3. u \in UsersUnder(c, t)
    <3> HIDE DEF c
    <3> QED BY <1>10, <2>2 DEF UsersUnder, getTermUserInvList
  <2> QED BY <2>1, <2>3
<1>13. c \in FoundAt(p, z, k)
  <2> HIDE DEF c
  <2>1. c \in Children[pz[k]]
    BY <1>6, <1>10
  <2> QED BY <1>2, <1>9, <1>11, <1>12, <2>1, FoundIs
<1>14. \E a \in 1 .. m - 1 :
         /\ FoundAt(p, z, a) # {} /\ \A b \in a + 1 .. m - 1 : FoundAt(p, z, b) = {}
         /\ r = [node |-> pz[a], entries |-> FoundAt(p, z, a)]
  <2> HIDE DEF z, c
  <2> QED BY <1>2, <1>3, <1>9, <1>13, ClimbIs
<1>15. PICK a \in 1 .. m - 1 :
         /\ FoundAt(p, z, a) # {} /\ \A b \in a + 1 .. m - 1 : FoundAt(p, z, b) = {}
         /\ r = [node |-> pz[a], entries |-> FoundAt(p, z, a)]
  BY <1>14
<1> HIDE DEF r
<1>16. k <= a
  <2> SUFFICES ASSUME ~(k <= a)
               PROVE  FALSE
    OBVIOUS
  <2>1. k \in a + 1 .. m - 1
    BY <1>9
  <2> HIDE DEF c
  <2> QED BY <1>13, <1>15, <2>1
<1>17. r.node = pz[a] /\ r.entries = FoundAt(p, z, a)
  BY <1>15
<1>18. ASSUME v \in Under[pz[a]]
       PROVE  c \in FoundAt(p, z, a)
  <2>1. a \in 1 .. Len(pz)
    <3> HIDE DEF pz
    <3> QED BY <1>3, <1>4
  <2>2. pz[a] \in GTree
    BY <1>2, <2>1, EveryPath
  <2>3. PICK i \in 1 .. Len(pv) : pv[i] = pz[a]
    BY <1>18, <2>2, PlaceOnPath
  <2>4. i = a
    BY <1>2, <2>1, <2>3, PathsAgree
  <2>5. a \in common
    <3> HIDE DEF pv, pz
    <3> QED BY <1>4, <2>1, <2>3, <2>4
  <2>6. a = k
    <3> HIDE DEF common
    <3> QED BY <1>5, <1>9, <1>16, <2>5
  <2> HIDE DEF c
  <2> QED BY <1>13, <2>6
<1> HIDE DEF c, v, z
<1>19. r.entries # {} /\ (v \in Under[r.node] => \E d \in r.entries : v \in Under[d])
  BY <1>10, <1>15, <1>17, <1>18
<1> QED BY <1>19 DEF r, v

\* A climb ends where he is under a child found, or the climbing goes on.
LEMMA MeetsOrGoesOn ==
  ASSUME Known, OneKeyword, ShortestPaths, OneTree, NEW u \in Users, NEW p \in Stores, Late(u, p),
         Within(u, p),
         NEW m \in GTree, db.pAt[p] \in Under[m], db.uAt[u] \notin Under[m]
  PROVE  LET r == Climb(p, m)
         IN  /\ \E c \in r.entries : \E b \in Borders[c] : TRUE
             /\ \/ \E c \in r.entries : c \in GTree /\ \E b \in Borders[c] : Way(u, p, c, b)
                \/ db.uAt[u] \notin Under[r.node] /\ GoesOn(p, r.node)
<1> DEFINE r == Climb(p, m)
           v == db.uAt[u]
           z == db.pAt[p]
           n == r.node
<1>1. v \in Vertices /\ db \in Databases
  BY DatabasesAssumption DEF Known, Placed
<1>2. /\ n \in GTree /\ z \in Under[n]
      /\ \A c \in r.entries :
           c \in GTree /\ z \in Vertices \ Under[c] /\ \E x \in Vertices : x \in Under[c]
  BY <1>1, RangeClimbs, FoundKeys
<1>3. r.entries # {} /\ (v \in Under[n] => \E c \in r.entries : v \in Under[c])
  BY <1>1, ClimbMeets
<1> HIDE DEF r, n
<1>4. \E c \in r.entries : \E b \in Borders[c] : TRUE
  <2>1. PICK c \in r.entries : TRUE
    BY <1>3
  <2>2. c \in GTree /\ z \in Vertices \ Under[c] /\ \E x \in Under[c] : TRUE
    BY <1>2
  <2> HIDE DEF z
  <2> QED BY <2>2, BorderOnWay
<1>5. CASE v \in Under[n]
  <2>1. PICK c \in r.entries : v \in Under[c]
    BY <1>3, <1>5
  <2>2. c \in GTree /\ z \in Vertices \ Under[c]
    BY <1>2
  <2>3. \E b \in Borders[c] : b \in Between(u, p)
    BY <1>1, <2>1, <2>2, AcrossBorder
  <2>4. \E b \in Borders[c] : Way(u, p, c, b)
    BY <2>1, <2>2, <2>3 DEF Way
  <2> QED BY <1>4, <2>2, <2>4 DEF r, n
<1>6. CASE v \notin Under[n]
  <2>1. PICK b \in Borders[n] : b \in Between(u, p)
    BY <1>1, <1>2, <1>6, AcrossBorder
  <2> DEFINE keys == nonRareKeys(p)
             with == [t \in keys |-> keys]
             e == BorderEntry(p, n, b, keys)
  <2>4. getBorder_SB_BatchNVD(e) = Prune(b, PoiDist(b, p), keys, with)
    BY DEF getBorder_SB_BatchNVD, BorderEntry
  <2>5. \A t \in keys : t \in with[t]
    OBVIOUS
  <2>7. getBorder_SB_BatchNVD(e) = keys
    <3> HIDE DEF with, v, z, e
    <3> QED BY <2>1, <2>4, <2>5, NotPruned
  <2>8. keys # {}
    BY <1>1, KeyOfLate
  <2>9. KeysBeyond(p, n) # {}
    BY <2>7, <2>8 DEF KeysBeyond
  <2> QED BY <1>4, <1>6, <2>9 DEF GoesOn, r, n
<1> QED BY <1>5, <1>6

\* A user outside is somewhere below the root, which is not reached yet.
LEMMA StillClimbing ==
  ASSUME db \in Databases, OneTree, NEW u \in Users
  PROVE  /\ db.uAt[u] \in Vertices /\ db.uAt[u] \in Under[Root]
         /\ \A p : Outside(u, p) => p \in Climbing
<1>1. db.uAt[u] \in Vertices
  BY DatabasesAssumption DEF Placed
<1>2. gtreepath[db.uAt[u]][1] = Root /\ 1 \in 1 .. Len(gtreepath[db.uAt[u]])
  BY <1>1, EveryPath DEF OneTree
<1>3. db.uAt[u] \in Under[Root]
  BY <1>1, <1>2, EveryPath
<1> QED BY <1>1, <1>3 DEF Outside, Climbing

\* All stores climb at once.
Widens ==
  /\ T_max' = [p \in {q \in Climbing : GoesOn(q, Reached[q].node)} |-> Reached[p].node]
  /\ Queue' = UNION {Entries(p, Reached[p].entries) : p \in Climbing}

\* The entries made of the children found.
LEMMA EntriesAre ==
  ASSUME NEW p, NEW children, NEW f
  PROVE  f \in Entries(p, children) <=>
           \E c \in children : \E b \in Borders[c] :
             f = BorderEntry(p, c, b, nonRareKeys(p) \cap TermsUnder(c))
BY DEF Entries

\* What the climbs leave: the stores that go on, and entries for the borders of
\* the children they found.
LEMMA WidenIs ==
  ASSUME Widens
  PROVE  /\ \A p : p \in DOMAIN T_max' <=>
                    p \in Climbing /\ GoesOn(p, Climb(p, T_max[p]).node)
         /\ \A p \in DOMAIN T_max' : T_max'[p] = Climb(p, T_max[p]).node
         /\ \A f : f \in Queue' <=>
              \E p \in Climbing : f \in Entries(p, Climb(p, T_max[p]).entries)
<1> DEFINE go == {q \in Climbing : GoesOn(q, Reached[q].node)}
<1>1. /\ T_max' = [p \in go |-> Reached[p].node]
      /\ Queue' = UNION {Entries(p, Reached[p].entries) : p \in Climbing}
  BY DEF Widens
<1>2. \A p \in Climbing : Reached[p] = Climb(p, T_max[p])
  BY DEF Reached
<1> QED BY <1>1, <1>2

\* What the climb of a store finds: children of the node reached, with all of its
\* keywords.
LEMMA ClimbEntries ==
  ASSUME db \in Databases, OneKeyword, OneTree, NEW p \in Stores, NEW n \in GTree,
         db.pAt[p] \in Under[n], NEW f
  PROVE  f \in Entries(p, Climb(p, n).entries) <=>
           \E c \in Climb(p, n).entries : \E b \in Borders[c] :
             /\ c \in GTree /\ db.pAt[p] \in Vertices \ Under[c] /\ nonRareKeys(p) # {}
             /\ f = BorderEntry(p, c, b, nonRareKeys(p))
<1>1. ASSUME NEW c \in Climb(p, n).entries
      PROVE  /\ c \in GTree /\ db.pAt[p] \in Vertices \ Under[c] /\ nonRareKeys(p) # {}
             /\ nonRareKeys(p) \cap TermsUnder(c) = nonRareKeys(p)
  BY RangeClimbs, FoundKeys
<1> DEFINE found == Climb(p, n).entries
<1>2. f \in Entries(p, found) <=>
        \E c \in found : \E b \in Borders[c] :
          f = BorderEntry(p, c, b, nonRareKeys(p) \cap TermsUnder(c))
  <2> HIDE DEF found
  <2> QED BY DEF Entries
<1> HIDE DEF found
<1>3. \A c \in found : /\ c \in GTree /\ db.pAt[p] \in Vertices \ Under[c] /\ nonRareKeys(p) # {}
                       /\ nonRareKeys(p) \cap TermsUnder(c) = nonRareKeys(p)
  BY <1>1 DEF found
<1>4. f \in Entries(p, found) <=>
        \E c \in found : \E b \in Borders[c] :
          /\ c \in GTree /\ db.pAt[p] \in Vertices \ Under[c] /\ nonRareKeys(p) # {}
          /\ f = BorderEntry(p, c, b, nonRareKeys(p))
  BY <1>2, <1>3
<1> QED BY <1>4 DEF found

\* Whoever is left to the search and outside comes into the range, beyond a border
\* queued, or stays outside of it.
LEMMA ReachedNext ==
  ASSUME Known, OneKeyword, ShortestPaths, OneTree, InRange, DOMAIN T_max \subseteq Stores, Widens,
         NEW u \in Users, NEW p \in Stores, Late(u, p), Within(u, p), Outside(u, p)
  PROVE  /\ Queue' # {}
         /\ \/ \E n \in GTree : \E b \in Borders[n] :
                 Way(u, p, n, b) /\ BorderEntry(p, n, b, nonRareKeys(p)) \in Queue'
            \/ p \in DOMAIN T_max' /\ db.uAt[u] \notin Under[T_max'[p]]
<1> DEFINE m == T_max[p]
           r == Climb(p, m)
<1>1. p \in Climbing /\ m \in GTree /\ db.pAt[p] \in Under[m] /\ db.uAt[u] \notin Under[m]
  BY StillClimbing DEF Known, Outside, InRange
<1> HIDE DEF m
<1>2. /\ \E c \in r.entries : \E b \in Borders[c] : TRUE
      /\ \/ \E c \in r.entries : c \in GTree /\ \E b \in Borders[c] : Way(u, p, c, b)
         \/ db.uAt[u] \notin Under[r.node] /\ GoesOn(p, r.node)
  BY <1>1, MeetsOrGoesOn
<1>3. ASSUME NEW c \in r.entries, NEW b \in Borders[c]
      PROVE  BorderEntry(p, c, b, nonRareKeys(p)) \in Queue'
  <2>1. nonRareKeys(p) \cap TermsUnder(c) = nonRareKeys(p)
    BY <1>1, RangeClimbs, FoundKeys DEF Known
  <2>2. BorderEntry(p, c, b, nonRareKeys(p)) \in Entries(p, r.entries)
    BY <2>1, EntriesAre
  <2> QED BY <1>1, <2>2, WidenIs DEF m
<1>4. ASSUME db.uAt[u] \notin Under[r.node], GoesOn(p, r.node)
      PROVE  p \in DOMAIN T_max' /\ db.uAt[u] \notin Under[T_max'[p]]
  BY <1>1, <1>4, WidenIs DEF m
<1> HIDE DEF r
<1> QED BY <1>2, <1>3, <1>4

-----------------------------------------------------------------------------
(* The steps.                                                              *)

\* What a step that changes no evaluation, mark or entry leaves alone.
LEMMA StandsStill ==
  ASSUME SInv, IInv', Phases',
         UNCHANGED <<db, score, poi_th, occurring, upEntryMark, borderMark, Queue, T_max>>
  PROVE  SInv'
<1>1. OneKeyword' /\ Bounded' /\ Stepped' = Stepped
  BY Frame DEF SInv, Stepped
<1>2. Entered'
  BY <1>1, Frame DEF SInv, Entered
<1>3. Queued'
  <2> SUFFICES ASSUME NEW e \in Queue
               PROVE  /\ e.p \in Stepped
                      /\ e.isUser => e.id \in Users /\ e = UserEntry(e.p, e.id)'
                      /\ ~e.isUser =>
                           /\ poi_th = Len(stores) /\ nonRareKeys(e.p)' # {}
                           /\ e.node \in GTree /\ e.id \in Borders[e.node]
                           /\ e = BorderEntry(e.p, e.node, e.id, nonRareKeys(e.p))'
    BY <1>1 DEF Queued
  <2> QED BY Frame DEF SInv, Queued
<1>4. InRange'
  BY DEF SInv, InRange
<1>5. \A u, p : (Hopeful(u, p)' <=> Hopeful(u, p)) /\ (UserQueued(u, p)' <=> UserQueued(u, p))
                /\ (Outside(u, p)' <=> Outside(u, p))
  BY Frame DEF Hopeful, UserQueued, Outside
<1>6. \A p, n, b : Come(p, n, b)' <=> Come(p, n, b)
  BY Frame DEF Come, Awaited
<1>7. \A u, p, n, b : Way(u, p, n, b)' <=> Way(u, p, n, b)
  BY Frame
<1>8. Expected'
  BY <1>1, <1>5, <1>6, <1>7 DEF SInv, Expected
<1>9. \A u, p : LedFor(u, p)' <=> LedFor(u, p)
  BY <1>5, <1>6, <1>7 DEF LedFor
<1>10. Led'
  BY <1>1, <1>5, <1>9 DEF SInv, Led
<1> QED BY <1>1, <1>2, <1>3, <1>4, <1>8, <1>10 DEF SInv

\* A step of the search loses nobody if users stay queued until they are
\* evaluated, borders until they are marked, and a border marked leads on.
LEMMA SearchGoesOn ==
  ASSUME SInv, IInv', UNCHANGED search, Searching,
         upEntryMark \subseteq upEntryMark', borderMark \subseteq borderMark',
         Queued',
         \A u \in Users, p \in Stepped :
           Hopeful(u, p)' /\ UserQueued(u, p) => UserEntry(p, u) \in Queue',
         \A p, n, b : Awaited(p, n, b) =>
                        \/ BorderEntry(p, n, b, nonRareKeys(p)) \in Queue'
                        \/ <<b, n, p>> \in borderMark',
         \A u \in Users, p \in Stepped, n \in GTree : \A b \in Borders[n] :
           Hopeful(u, p) /\ Way(u, p, n, b) /\ <<b, n, p>> \in borderMark' \ borderMark =>
             IF isleaf(n) THEN UserQueued(u, p)'
             ELSE \E c \in Children[n] :
                    db.uAt[u] \in Under[c] /\ \A d \in Borders[c] : Come(p, c, d)'
  PROVE  SInv'
<1> USE DEF search
<1>1. OneKeyword' /\ Bounded' /\ Stepped' = Stepped
  BY Frame DEF SInv, Stepped
<1>2. Entered'
  <2> SUFFICES ASSUME NEW p \in Stepped
               PROVE  /\ \A u \in EarlyUsers(p)' : <<u, p>> \in upEntryMark'
                      /\ occurring[p] = UsersWith(nonRareKeys(p))'
                                          \ (SocialUsers(p)' \cup UsersWith(midKeys(p))')
    BY <1>1 DEF SInv, Entered
  <2>1. \A u \in EarlyUsers(p) : <<u, p>> \in upEntryMark
    BY DEF SInv, Entered
  <2> QED BY <2>1, Frame DEF SInv, Entered
<1>3. InRange'
  BY DEF SInv, InRange
<1>4. Phases'
  BY DEF SInv, Phases, Searching
<1>5. \A u, p : Hopeful(u, p)' => Hopeful(u, p)
  BY Frame DEF Hopeful
<1>6. \A u, p : Outside(u, p)' <=> Outside(u, p)
  BY DEF Outside
<1>7. \A u \in Users, p \in Stepped : Hopeful(u, p)' /\ UserQueued(u, p) => UserQueued(u, p)'
  BY Frame DEF UserQueued
<1>8. \A p, n, b : Come(p, n, b) => Come(p, n, b)'
  BY Frame DEF Come, Awaited
<1>9. \A u, p, n, b : Way(u, p, n, b)' <=> Way(u, p, n, b)
  BY Frame
<1>10. Expected'
  BY <1>1, <1>5, <1>6, <1>7, <1>8, <1>9 DEF SInv, Expected
<1>11. ASSUME NEW u \in Users, NEW p \in Stepped, Hopeful(u, p)'
       PROVE  LedFor(u, p)'
  <2> SUFFICES ASSUME NEW n \in GTree, NEW b \in Borders[n],
                      Way(u, p, n, b), <<b, n, p>> \in borderMark'
               PROVE  IF isleaf(n) THEN UserQueued(u, p)'
                      ELSE \E c \in Children[n] :
                             db.uAt[u] \in Under[c] /\ \A d \in Borders[c] : Come(p, c, d)'
    BY <1>9 DEF LedFor
  <2>1. Hopeful(u, p) /\ LedFor(u, p)
    BY <1>5, <1>11 DEF SInv, Led
  <2>2. CASE <<b, n, p>> \in borderMark
    <3>1. IF isleaf(n) THEN UserQueued(u, p)
          ELSE \E c \in Children[n] :
                 db.uAt[u] \in Under[c] /\ \A d \in Borders[c] : Come(p, c, d)
      BY <2>1, <2>2 DEF LedFor
    <3> QED BY <1>7, <1>8, <1>11, <3>1
  <2>3. CASE <<b, n, p>> \notin borderMark
    BY <2>1, <2>3
  <2> QED BY <2>2, <2>3
<1>12. Led'
  BY <1>1, <1>11 DEF Led
<1> QED BY <1>1, <1>2, <1>3, <1>4, <1>10, <1>12 DEF SInv

\* Entries stay what they are; new ones have to be shown to be so.
LEMMA QueuedStill ==
  ASSUME Queued, UNCHANGED search,
         \A e \in Queue' \ Queue :
           /\ e.p \in Stepped
           /\ \/ e.isUser /\ e.id \in Users /\ e = UserEntry(e.p, e.id)
              \/ /\ ~e.isUser /\ poi_th = Len(stores) /\ nonRareKeys(e.p) # {}
                 /\ e.node \in GTree /\ e.id \in Borders[e.node]
                 /\ e = BorderEntry(e.p, e.node, e.id, nonRareKeys(e.p))
  PROVE  Queued'
<1> USE DEF search
<1>1. Stepped' = Stepped
  BY DEF Stepped
<1> SUFFICES ASSUME NEW e \in Queue'
             PROVE  /\ e.p \in Stepped
                    /\ e.isUser => e.id \in Users /\ e = UserEntry(e.p, e.id)'
                    /\ ~e.isUser =>
                         /\ poi_th = Len(stores) /\ nonRareKeys(e.p)' # {}
                         /\ e.node \in GTree /\ e.id \in Borders[e.node]
                         /\ e = BorderEntry(e.p, e.node, e.id, nonRareKeys(e.p))'
  BY <1>1 DEF Queued
<1>2. CASE e \in Queue
  BY <1>2, Frame DEF Queued
<1>3. CASE e \notin Queue
  BY <1>3, Frame
<1> QED BY <1>2, <1>3

\* A user popped is hopeful no longer.
LEMMA PopUserLosesNone == ASSUME SInv, NEW e \in Queue, PopUser(e) PROVE SInv'
<1>1. /\ Searching /\ UNCHANGED search /\ UNCHANGED borderMark /\ e.isUser
      /\ Queue' = Queue \ {e}
      /\ upEntryMark' = upEntryMark \cup (({e.id} \cap Unmarked(e.p)) \X {e.p})
  BY DEF PopUser, Evaluate
<1>2. IInv'
  BY PopUserKeeps DEF SInv
<1>3. Queued'
  BY <1>1, QueuedStill DEF SInv
<1>4. ASSUME NEW u \in Users, NEW p \in Stepped, Hopeful(u, p)', UserQueued(u, p)
      PROVE  UserEntry(p, u) \in Queue'
  <2> SUFFICES ASSUME UserEntry(p, u) = e
               PROVE  FALSE
    BY <1>1, <1>4 DEF UserQueued
  <2>1. e.p = p /\ e.id = u
    BY DEF UserEntry
  <2>2. <<u, p>> \in upEntryMark'
    BY <1>1, <2>1 DEF Unmarked
  <2> QED BY <1>4, <2>2 DEF Hopeful
<1>5. \A p, n, b : Awaited(p, n, b) => BorderEntry(p, n, b, nonRareKeys(p)) \in Queue'
  BY <1>1 DEF Awaited, BorderEntry
<1>6. /\ upEntryMark \subseteq upEntryMark' /\ borderMark \subseteq borderMark'
      /\ \A x : x \notin borderMark' \ borderMark
  BY <1>1
<1> QED BY <1>1, <1>2, <1>3, <1>4, <1>5, <1>6, SearchGoesOn

\* Nobody waits for a border that has been evaluated.
LEMMA PopSeenBorderLosesNone == ASSUME SInv, NEW e \in Queue, PopSeenBorder(e) PROVE SInv'
<1>1. /\ Searching /\ UNCHANGED search /\ UNCHANGED marks /\ ~e.isUser
      /\ Queue' = Queue \ {e} /\ BorderKey(e) \in borderMark
  BY DEF PopSeenBorder
<1>2. IInv'
  BY PopBorderKeeps DEF SInv
<1>3. Queued'
  BY <1>1, QueuedStill DEF SInv
<1>4. ASSUME NEW u, NEW p, UserQueued(u, p)
      PROVE  UserEntry(p, u) \in Queue'
  BY <1>1, <1>4 DEF UserQueued, UserEntry
<1>5. ASSUME NEW p, NEW n, NEW b, Awaited(p, n, b)
      PROVE  BorderEntry(p, n, b, nonRareKeys(p)) \in Queue' \/ <<b, n, p>> \in borderMark'
  <2> SUFFICES ASSUME BorderEntry(p, n, b, nonRareKeys(p)) = e
               PROVE  <<b, n, p>> \in borderMark'
    BY <1>1, <1>5 DEF Awaited
  <2>1. BorderKey(e) = <<b, n, p>>
    BY DEF BorderEntry, BorderKey
  <2> QED BY <1>1, <2>1 DEF marks
<1>6. /\ upEntryMark \subseteq upEntryMark' /\ borderMark \subseteq borderMark'
      /\ \A x : x \notin borderMark' \ borderMark
  BY <1>1 DEF marks
<1> QED BY <1>1, <1>2, <1>3, <1>4, <1>5, <1>6, SearchGoesOn

\* A border leads on to everybody it is on the way to.
LEMMA PopBorderLosesNone ==
  ASSUME ShortestPaths, OneTree, SInv, NEW e \in Queue, PopBorder(e)
  PROVE  SInv'
<1> DEFINE p == e.p
           n == e.node
           b == e.id
           keys == getBorder_SB_BatchNVD_Cluster(e)
<1>1. /\ Searching /\ UNCHANGED search /\ UNCHANGED upEntryMark /\ ~e.isUser
      /\ borderMark' = borderMark \cup {BorderKey(e)} /\ BorderKey(e) = <<b, n, p>>
  BY DEF PopBorder, BorderKey
<1>2. IF OccursUnder(p, n) = {} THEN Queue' = Queue \ {e}
      ELSE Queue' = (Queue \ {e}) \cup Beyond(e, keys)
  BY DEF PopBorder
<1>3. /\ p \in Stepped /\ n \in GTree /\ b \in Borders[n] /\ b \in Vertices
      /\ poi_th = Len(stores) /\ nonRareKeys(p) # {}
      /\ e = BorderEntry(p, n, b, nonRareKeys(p))
  <2>1. /\ p \in Stepped /\ n \in GTree /\ b \in Borders[n]
        /\ poi_th = Len(stores) /\ nonRareKeys(p) # {}
        /\ e = BorderEntry(p, n, b, nonRareKeys(p))
    BY <1>1 DEF SInv, Queued
  <2>2. b \in Vertices
    BY <2>1 DEF Borders, Under
  <2> QED BY <2>1, <2>2
<1>4. e.keys = nonRareKeys(p) /\ e.dist = PoiDist(b, p)
  <2> HIDE DEF p, n, b
  <2>1. BorderEntry(p, n, b, nonRareKeys(p)).keys = nonRareKeys(p)
        /\ BorderEntry(p, n, b, nonRareKeys(p)).dist = PoiDist(b, p)
    BY DEF BorderEntry
  <2> QED BY <1>3, <2>1
<1>5. keys = KeysLeft(p, n, b)
  BY <1>4 DEF getBorder_SB_BatchNVD_Cluster, KeysLeft
<1>6. Known /\ OneKeyword /\ Entered /\ p \in Stores
  BY <1>3, SteppedAreStores DEF SInv, IInv, Known
<1>7. keys \in {{}, nonRareKeys(p)}
  <2> HIDE DEF p, n, b, keys
  <2> QED BY <1>3, <1>5, <1>6, KeysLeftAre
<1> HIDE DEF keys
<1>8. ASSUME NEW f \in Beyond(e, keys)
      PROVE  /\ f.p \in Stepped
             /\ \/ f.isUser /\ f.id \in Users /\ f = UserEntry(f.p, f.id)
                \/ /\ ~f.isUser /\ poi_th = Len(stores) /\ nonRareKeys(f.p) # {}
                   /\ f.node \in GTree /\ f.id \in Borders[f.node]
                   /\ f = BorderEntry(f.p, f.node, f.id, nonRareKeys(f.p))
  BY <1>3, <1>7, BeyondIs
<1>9. Queued'
  <2> HIDE DEF p, n, b
  <2>1. \A f \in Queue' \ Queue : f \in Beyond(e, keys)
    BY <1>2
  <2> QED BY <1>1, <1>8, <2>1, QueuedStill DEF SInv
<1>10. IInv'
  BY PopBorderKeeps DEF SInv
<1>11. Queue \ {e} \subseteq Queue'
  BY <1>2
<1>12. \A u, q : UserQueued(u, q) => UserEntry(q, u) \in Queue'
  BY <1>1, <1>11 DEF UserQueued, UserEntry
<1>13. ASSUME NEW q, NEW m, NEW d, Awaited(q, m, d)
       PROVE  BorderEntry(q, m, d, nonRareKeys(q)) \in Queue' \/ <<d, m, q>> \in borderMark'
  <2> SUFFICES ASSUME BorderEntry(q, m, d, nonRareKeys(q)) = e
               PROVE  <<d, m, q>> \in borderMark'
    BY <1>11, <1>13 DEF Awaited
  <2>1. b = d /\ n = m /\ p = q
    BY DEF BorderEntry
  <2> QED BY <1>1, <2>1
<1>14. ASSUME NEW u \in Users, Hopeful(u, p), Way(u, p, n, b)
       PROVE  IF isleaf(n) THEN UserQueued(u, p)'
              ELSE \E c \in Children[n] :
                     db.uAt[u] \in Under[c] /\ \A d \in Borders[c] : Come(p, c, d)'
  <2>1. Late(u, p) /\ u \in occurring[p]
    <3> HIDE DEF p, n, b
    <3> QED BY <1>3, <1>6, <1>14, HopefulIsLate, LateOccurs DEF Known
  <2>2. /\ keys = nonRareKeys(p) /\ u \in OccursUnder(p, n)
        /\ isleaf(n) => u \in Related(n, keys)
        /\ ~isleaf(n) => \E c \in Children[n] :
                           c \in GTree /\ db.uAt[u] \in Under[c] /\ c \in Related(n, keys)
    <3> HIDE DEF p, n, b
    <3> QED BY <1>5, <1>6, <1>14, <2>1, LeadsOn
  <2>3. Queue' = (Queue \ {e}) \cup Beyond(e, keys)
    BY <1>2, <2>2
  <2>4. CASE isleaf(n)
    <3>1. UserEntry(p, u) \in Beyond(e, keys)
      BY <1>14, <2>2, <2>4 DEF Beyond, Related, Hopeful, Unmarked
    <3> HIDE DEF p, n, b
    <3>2. UserEntry(p, u) \in Queue'
      BY <2>3, <3>1
    <3>3. UserEntry(p, u)' = UserEntry(p, u)
      BY <1>1, Frame DEF search
    <3> QED BY <2>4, <3>2, <3>3 DEF UserQueued
  <2>5. CASE ~isleaf(n)
    <3>1. PICK c \in Children[n] : db.uAt[u] \in Under[c] /\ c \in Related(n, keys)
      BY <2>2, <2>5
    <3>2. ASSUME NEW d \in Borders[c]
          PROVE  Come(p, c, d)'
      <4> DEFINE f == BorderEntry(p, c, d, keys)
      <4>1. f = BorderEntry(p, c, d, nonRareKeys(p))'
        BY <1>1, <2>2, Frame DEF search
      <4>2. BorderKey(f) = <<d, c, p>>
        BY DEF BorderEntry, BorderKey
      <4>3. CASE BorderKey(f) \in borderMark
        BY <1>1, <4>2, <4>3 DEF Come
      <4>4. CASE BorderKey(f) \notin borderMark
        <5>1. f \in Beyond(e, keys)
          BY <2>5, <3>1, <4>4 DEF Beyond, Related
        <5> HIDE DEF f
        <5>2. f \in Queue'
          BY <2>3, <5>1
        <5> QED BY <4>1, <5>2 DEF Come, Awaited
      <4> QED BY <4>3, <4>4
    <3> QED BY <2>5, <3>1, <3>2
  <2> QED BY <2>4, <2>5
<1>15. /\ upEntryMark \subseteq upEntryMark' /\ borderMark \subseteq borderMark'
       /\ \A q, m, d : <<d, m, q>> \in borderMark' \ borderMark => q = p /\ m = n /\ d = b
  BY <1>1
<1> HIDE DEF p, n, b
<1>16. ASSUME NEW u \in Users, NEW q \in Stepped, NEW m \in GTree, NEW d \in Borders[m],
              Hopeful(u, q), Way(u, q, m, d), <<d, m, q>> \in borderMark' \ borderMark
       PROVE  IF isleaf(m) THEN UserQueued(u, q)'
              ELSE \E c \in Children[m] :
                     db.uAt[u] \in Under[c] /\ \A x \in Borders[c] : Come(q, c, x)'
  <2>1. q = p /\ m = n /\ d = b
    BY <1>15, <1>16
  <2> QED BY <1>14, <1>16, <2>1
<1> QED BY <1>1, <1>9, <1>10, <1>12, <1>13, <1>15, <1>16, SearchGoesOn

\* A store's first step adds it to those that have had theirs.
LEMMA NextStore ==
  ASSUME poi_th \in Nat, poi_th < Len(stores), poi_th' = poi_th + 1
  PROVE  LET p == stores[poi_th + 1]
         IN  p \in Stores /\ p \notin Stepped /\ Stepped' = Stepped \cup {p}
<1> DEFINE p == stores[poi_th + 1]
<1>1. DOMAIN stores = 1 .. Len(stores) /\ Len(stores) \in Nat
      /\ \A i, j \in 1 .. Len(stores) : stores[i] = stores[j] => i = j
  BY RoadAssumption DEF IsInjective
<1>2. p \in Stores
  BY <1>1 DEF Stores, ToSet
<1>3. p \notin Stepped
  <2> SUFFICES ASSUME NEW i \in 1 .. poi_th, stores[i] = p
               PROVE  FALSE
    BY DEF Stepped
  <2>1. i \in 1 .. Len(stores) /\ poi_th + 1 \in 1 .. Len(stores) /\ i # poi_th + 1
    BY <1>1
  <2> QED BY <1>1, <2>1
<1>4. Stepped' = Stepped \cup {p}
  <2>1. Stepped' = {stores[i] : i \in 1 .. poi_th + 1}
    BY DEF Stepped
  <2>2. 1 .. poi_th + 1 = (1 .. poi_th) \cup {poi_th + 1}
    OBVIOUS
  <2> QED BY <2>1, <2>2 DEF Stepped
<1> QED BY <1>2, <1>3, <1>4

\* What the first step of p does to the search.
Opens(p) ==
  /\ poi_th < Len(stores) /\ p = stores[poi_th + 1] /\ poi_th' = poi_th + 1
  /\ UNCHANGED <<db, score, borderMark, pc>>
  /\ upEntryMark' = upEntryMark \cup (EarlyUsers(p) \X {p})
  /\ occurring' = [occurring EXCEPT ![p] = UsersWith(nonRareKeys(p))
                                              \ (SocialUsers(p) \cup UsersWith(midKeys(p)))]
  /\ Queue' = Queue \cup {UserEntry(p, u) : u \in {v \in UsersWith(nonRareKeys(p)) \ EarlyUsers(p) :
                                                   LeafOf[db.uAt[v]] = LeafOf[db.pAt[p]]}}
  /\ T_max' = [q \in DOMAIN T_max \cup {p} |-> IF q = p THEN LeafOf[db.pAt[p]] ELSE T_max[q]]

\* It evaluates, queues or leaves outside everybody the store wins.
LEMMA Opened ==
  ASSUME OneTree, db \in Databases, Entered, InRange, NEW p0, Opens(p0)
  PROVE  /\ p0 \in Stores /\ p0 \notin Stepped /\ Stepped' = Stepped \cup {p0}
         /\ Entered' /\ InRange' /\ poi_th # Len(stores)
         /\ \A e \in Queue' :
              e \in Queue \/ \E u \in Users : /\ e = UserEntry(p0, u)
                                             /\ LeafOf[db.uAt[u]] = LeafOf[db.pAt[p0]]
         /\ \A u \in Users :
              Late(u, p0) => \/ UserEntry(p0, u) \in Queue'
                             \/ p0 \in DOMAIN T_max' /\ db.uAt[u] \notin Under[T_max'[p0]]
<1> DEFINE z == db.pAt[p0]
           near == {u \in UsersWith(nonRareKeys(p0)) \ EarlyUsers(p0) : LeafOf[db.uAt[u]] = LeafOf[z]}
<1>1. /\ poi_th < Len(stores) /\ poi_th' = poi_th + 1
      /\ UNCHANGED <<db, score, borderMark, pc>>
      /\ upEntryMark' = upEntryMark \cup (EarlyUsers(p0) \X {p0})
      /\ occurring' = [occurring EXCEPT ![p0] = UsersWith(nonRareKeys(p0))
                                                  \ (SocialUsers(p0) \cup UsersWith(midKeys(p0)))]
      /\ Queue' = Queue \cup {UserEntry(p0, u) : u \in near}
      /\ T_max' = [q \in DOMAIN T_max \cup {p0} |-> IF q = p0 THEN LeafOf[z] ELSE T_max[q]]
  BY DEF Opens
<1>2. poi_th \in Nat /\ Len(stores) \in Nat /\ poi_th # Len(stores) /\ poi_th + 1 \in 0 .. Len(stores)
  BY <1>1, RoadAssumption DEF Entered
<1>3. p0 \in Stores /\ p0 \notin Stepped /\ Stepped' = Stepped \cup {p0}
  BY <1>1, <1>2, NextStore DEF Opens
<1>4. Placed(db) /\ p0 \in Pois
  BY <1>3, StoresArePois, DatabasesAssumption
<1>5. z \in Vertices /\ LeafOf[z] \in GTree /\ z \in Under[LeafOf[z]] /\ isleaf(LeafOf[z])
  <2>1. z \in Vertices
    BY <1>4 DEF Placed
  <2> HIDE DEF z
  <2>2. LeafOf[z] \in GTree /\ LeafOf[z] \in ToSet(gtreepath[z])
    BY <2>1, EveryPath
  <2> QED BY <2>1, <2>2 DEF Under, isleaf
<1>6. near \in SUBSET Users
  BY DEF UsersWith, getTermUserInvList
<1>7. Entered'
  <2>1. /\ poi_th' \in 0 .. Len(stores) /\ DOMAIN T_max' \subseteq Stepped'
        /\ occurring' \in [Stores -> SUBSET Users]
    <3>1. UsersWith(nonRareKeys(p0)) \in SUBSET Users
      BY DEF UsersWith, getTermUserInvList
    <3> QED BY <1>1, <1>2, <1>3, <3>1 DEF Entered
  <2>2. ASSUME NEW p \in Stepped'
        PROVE  /\ \A u \in EarlyUsers(p)' : <<u, p>> \in upEntryMark'
               /\ occurring'[p] = UsersWith(nonRareKeys(p))'
                                    \ (SocialUsers(p)' \cup UsersWith(midKeys(p))')
    <3>1. CASE p = p0
      <4>1. occurring'[p0] = UsersWith(nonRareKeys(p0)) \ (SocialUsers(p0) \cup UsersWith(midKeys(p0)))
        BY <1>1, <1>3 DEF Entered
      <4> QED BY <1>1, <3>1, <4>1, Frame
    <3>2. CASE p \in Stepped
      <4>1. p # p0 /\ p \in Stores
        BY <1>3, <3>2, SteppedAreStores
      <4>2. occurring'[p] = occurring[p]
        BY <1>1, <4>1 DEF Entered
      <4>3. /\ \A u \in EarlyUsers(p) : <<u, p>> \in upEntryMark
            /\ occurring[p] = UsersWith(nonRareKeys(p)) \ (SocialUsers(p) \cup UsersWith(midKeys(p)))
        BY <3>2 DEF Entered
      <4> QED BY <1>1, <4>2, <4>3, Frame
    <3> QED BY <1>3, <3>1, <3>2
  <2> QED BY <2>1, <2>2 DEF Entered
<1>8. InRange'
  <2> SUFFICES ASSUME NEW p \in DOMAIN T_max'
               PROVE  T_max'[p] \in GTree /\ db.pAt[p] \in Under[T_max'[p]]
    BY <1>1 DEF InRange
  <2>1. CASE p = p0
    BY <1>1, <1>5, <2>1
  <2>2. CASE p # p0
    BY <1>1, <2>2 DEF InRange
  <2> QED BY <2>1, <2>2
<1>9. \A e \in Queue' :
        e \in Queue \/ \E u \in Users : e = UserEntry(p0, u) /\ LeafOf[db.uAt[u]] = LeafOf[z]
  BY <1>1, <1>6
<1>10. ASSUME NEW u \in Users, Late(u, p0)
       PROVE  \/ UserEntry(p0, u) \in Queue'
              \/ p0 \in DOMAIN T_max' /\ db.uAt[u] \notin Under[T_max'[p0]]
  <2>1. Shared(u, p0) # {} /\ u \notin EarlyUsers(p0)
    BY <1>10 DEF Late, Wins
  <2>2. PICK t \in Shared(u, p0) : TRUE
    BY <2>1
  <2>3. t \in db.pKeys[p0] /\ t \in db.uKeys[u] /\ u \in getTermUserInvList(t)
    BY <2>2 DEF Shared, getTermUserInvList
  <2>4. t \notin midKeys(p0) /\ t \notin rareKeys(p0)
    BY <2>1, <2>3 DEF EarlyUsers, UsersWith
  <2>5. u \in UsersWith(nonRareKeys(p0))
    BY <2>3, <2>4 DEF UsersWith, midKeys
  <2>6. CASE LeafOf[db.uAt[u]] = LeafOf[z]
    BY <1>1, <2>1, <2>5, <2>6
  <2>7. CASE LeafOf[db.uAt[u]] # LeafOf[z]
    <3>1. db.uAt[u] \in Vertices
      BY <1>4 DEF Placed
    <3>2. db.uAt[u] \notin Under[LeafOf[z]]
      BY <1>5, <2>7, <3>1, UnderLeaf
    <3> QED BY <1>1, <3>2
  <2> QED BY <2>6, <2>7
<1> QED BY <1>2, <1>3, <1>7, <1>8, <1>9, <1>10

\* The first step of a store loses nobody.
LEMMA FirstStepLosesNone == ASSUME OneTree, SInv, FirstStep PROVE SInv'
<1>0. PICK p0 : p0 = stores[poi_th + 1]
  OBVIOUS
<1>1. pc = "filter" /\ UNCHANGED <<db, score, borderMark, batch_results, pc>> /\ Opens(p0)
  BY <1>0 DEF FirstStep, EarlyUsers, Evaluate, Opens
<1>2. /\ upEntryMark' = upEntryMark \cup (EarlyUsers(p0) \X {p0})
      /\ Queue \subseteq Queue'
      /\ T_max' = [q \in DOMAIN T_max \cup {p0} |-> IF q = p0 THEN LeafOf[db.pAt[p0]] ELSE T_max[q]]
  BY <1>1 DEF Opens
<1>3. /\ p0 \in Stores /\ p0 \notin Stepped /\ Stepped' = Stepped \cup {p0}
      /\ Entered' /\ InRange' /\ poi_th # Len(stores) /\ borderMark = {}
      /\ \A e \in Queue' : e \in Queue \/ \E u \in Users : e = UserEntry(p0, u)
      /\ \A u \in Users :
           Late(u, p0) => \/ UserEntry(p0, u) \in Queue'
                          \/ p0 \in DOMAIN T_max' /\ db.uAt[u] \notin Under[T_max'[p0]]
  BY <1>1, Opened DEF SInv, IInv, Phases
<1>4. IInv' /\ OneKeyword' /\ Bounded'
  BY <1>1, FirstStepKeeps, Frame DEF SInv
<1>5. Queued'
  <2> SUFFICES ASSUME NEW e \in Queue'
               PROVE  e.p \in Stepped' /\ e.isUser /\ e.id \in Users /\ e = UserEntry(e.p, e.id)'
    BY DEF Queued
  <2>1. CASE e \in Queue
    BY <1>1, <1>3, <2>1, Frame DEF SInv, Queued
  <2>2. CASE e \notin Queue
    <3>1. PICK u \in Users : e = UserEntry(p0, u)
      BY <1>3, <2>2
    <3>2. e.p = p0 /\ e.id = u /\ e.isUser
      BY <3>1 DEF UserEntry
    <3> QED BY <1>1, <1>3, <3>1, <3>2, Frame
  <2> QED BY <2>1, <2>2
<1>6. ASSUME NEW u \in Users, NEW p \in Stepped, Hopeful(u, p)'
      PROVE  \/ UserQueued(u, p)'
             \/ \E n \in GTree : \E b \in Borders[n] : Way(u, p, n, b)' /\ Come(p, n, b)'
             \/ Outside(u, p)'
  <2>1. Hopeful(u, p)
    BY <1>1, <1>2, <1>6, Frame DEF Hopeful
  <2>2. UserQueued(u, p) => UserQueued(u, p)'
    BY <1>1, <1>2, Frame DEF UserQueued
  <2>3. \A n, b : Come(p, n, b) => Come(p, n, b)'
    BY <1>1, <1>2, Frame DEF Come, Awaited
  <2>4. \A n, b : Way(u, p, n, b)' <=> Way(u, p, n, b)
    BY <1>1, Frame
  <2>5. Outside(u, p) => Outside(u, p)'
    BY <1>1, <1>2, <1>3 DEF Outside
  <2> QED BY <2>1, <2>2, <2>3, <2>4, <2>5 DEF SInv, Expected
<1>7. ASSUME NEW u \in Users, Hopeful(u, p0)'
      PROVE  UserQueued(u, p0)' \/ Outside(u, p0)'
  <2>1. Late(u, p0)
    BY <1>1, <1>2, <1>7, Frame DEF Hopeful, WinsWithin, Late
  <2> QED BY <1>1, <1>3, <2>1, Frame DEF UserQueued, Outside
<1>8. Expected'
  BY <1>3, <1>6, <1>7 DEF Expected
<1>9. Led' /\ Phases'
  BY <1>1, <1>3 DEF Led, LedFor, Phases
<1> QED BY <1>3, <1>4, <1>5, <1>8, <1>9 DEF SInv

\* When the queue is empty, who is hopeful is outside.
LEMMA OnlyOutside ==
  ASSUME SInv, ShortestPaths, OneTree, Queue = {}, NEW u \in Users, NEW p \in Stepped, Hopeful(u, p)
  PROVE  /\ Outside(u, p)
         /\ \A n \in GTree : \A b \in Borders[n] : ~(Way(u, p, n, b) /\ Come(p, n, b))
<1>1. ~UserQueued(u, p) /\ \A n, b : ~Awaited(p, n, b)
  BY DEF UserQueued, Awaited
<1>2. \A n \in GTree : \A b \in Borders[n] : ~(Way(u, p, n, b) /\ Come(p, n, b))
  BY <1>1, HopefulIsLate, Descent DEF SInv, IInv, Led
<1> QED BY <1>1, <1>2 DEF SInv, Expected

\* The entries of the children found are what is queued.
LEMMA WidenedQueue ==
  ASSUME db \in Databases, OneKeyword, OneTree, InRange, DOMAIN T_max \subseteq Stepped,
         Stepped \in SUBSET Stores, poi_th = Len(stores), UNCHANGED <<db, score, poi_th>>, Widens
  PROVE  Queued'
<1>1. Stepped' = Stepped
  BY DEF Stepped
<1> SUFFICES ASSUME NEW e \in Queue'
             PROVE  /\ e.p \in Stepped /\ ~e.isUser
                    /\ poi_th = Len(stores) /\ nonRareKeys(e.p)' # {}
                    /\ e.node \in GTree /\ e.id \in Borders[e.node]
                    /\ e = BorderEntry(e.p, e.node, e.id, nonRareKeys(e.p))'
  BY <1>1 DEF Queued
<1>2. PICK p \in Climbing : e \in Entries(p, Climb(p, T_max[p]).entries)
  BY WidenIs
<1>3. p \in Stepped /\ p \in Stores /\ T_max[p] \in GTree /\ db.pAt[p] \in Under[T_max[p]]
  BY DEF Climbing, InRange
<1>4. PICK c \in Climb(p, T_max[p]).entries : \E b \in Borders[c] :
         c \in GTree /\ nonRareKeys(p) # {} /\ e = BorderEntry(p, c, b, nonRareKeys(p))
  <2> DEFINE n == T_max[p]
  <2>1. \E c \in Climb(p, n).entries : \E b \in Borders[c] :
          /\ c \in GTree /\ db.pAt[p] \in Vertices \ Under[c] /\ nonRareKeys(p) # {}
          /\ e = BorderEntry(p, c, b, nonRareKeys(p))
    <3> HIDE DEF n
    <3>1. p \in Stores /\ n \in GTree /\ db.pAt[p] \in Under[n] /\ e \in Entries(p, Climb(p, n).entries)
      BY <1>2, <1>3 DEF n
    <3> QED BY <3>1, ClimbEntries
  <2> QED BY <2>1
<1>5. PICK b \in Borders[c] :
         c \in GTree /\ nonRareKeys(p) # {} /\ e = BorderEntry(p, c, b, nonRareKeys(p))
  BY <1>4
<1>6. e.p = p /\ e.node = c /\ e.id = b /\ ~e.isUser
  BY <1>5 DEF BorderEntry
<1> QED BY <1>3, <1>5, <1>6, Frame

\* Climbing loses nobody, and the search ends when nobody is left.
LEMMA ExtendLosesNone == ASSUME ShortestPaths, OneTree, SInv, Extend PROVE SInv'
<1>1. /\ Searching /\ Queue = {} /\ pc' = IF Queue' = {} THEN "verify" ELSE pc
      /\ UNCHANGED <<db, score, poi_th, occurring, upEntryMark, borderMark>> /\ Widens
  BY DEF Extend, Widens, marks
<1>2. /\ IInv' /\ OneKeyword' /\ Bounded' /\ Stepped' = Stepped
      /\ Known /\ OneKeyword /\ InRange
  BY <1>1, ExtendKeeps, Frame DEF SInv, IInv, Known, Stepped
<1>3. DOMAIN T_max \subseteq Stepped /\ Stepped \in SUBSET Stores
  BY SteppedAreStores DEF SInv, Entered
<1>4. ASSUME NEW p \in Climbing
      PROVE  p \in Stepped /\ p \in Stores /\ T_max[p] \in GTree /\ db.pAt[p] \in Under[T_max[p]]
  BY <1>2, <1>3 DEF Climbing, InRange
<1>5. Entered'
  <2>1. DOMAIN T_max' \subseteq Stepped
    BY <1>1, <1>4, WidenIs
  <2> QED BY <1>1, <1>2, <2>1, Frame DEF SInv, Entered
<1>6. Queued'
  BY <1>1, <1>2, <1>3, WidenedQueue DEF Searching, Known
<1>7. InRange'
  <2> SUFFICES ASSUME NEW p \in DOMAIN T_max'
               PROVE  T_max'[p] \in GTree /\ db.pAt[p] \in Under[T_max'[p]]
    BY <1>1 DEF InRange
  <2> QED BY <1>1, <1>4, WidenIs, RangeClimbs
<1>8. \A u, p : Hopeful(u, p)' <=> Hopeful(u, p)
  BY <1>1, Frame DEF Hopeful
<1>9. ASSUME NEW u \in Users, NEW p \in Stepped, Hopeful(u, p)
      PROVE  /\ Queue' # {}
             /\ \/ \E n \in GTree : \E b \in Borders[n] : Way(u, p, n, b)' /\ Come(p, n, b)'
                \/ Outside(u, p)'
  <2>1. Outside(u, p) /\ p \in Stores /\ Late(u, p) /\ Within(u, p)
    BY <1>1, <1>9, OnlyOutside, HopefulIsLate DEF SInv
  <2>2. /\ Queue' # {}
        /\ \/ \E n \in GTree : \E b \in Borders[n] :
                Way(u, p, n, b) /\ BorderEntry(p, n, b, nonRareKeys(p)) \in Queue'
           \/ p \in DOMAIN T_max' /\ db.uAt[u] \notin Under[T_max'[p]]
    BY <1>1, <1>2, <1>3, <2>1, ReachedNext
  <2> QED BY <1>1, <2>2, Frame DEF Come, Awaited, Outside
<1>10. Expected'
  BY <1>2, <1>8, <1>9 DEF Expected
<1>11. Led'
  <2> SUFFICES ASSUME NEW u \in Users, NEW p \in Stepped, Hopeful(u, p)
               PROVE  LedFor(u, p)'
    BY <1>2, <1>8 DEF Led
  <2>1. \A n \in GTree : \A b \in Borders[n] : ~(Way(u, p, n, b) /\ <<b, n, p>> \in borderMark)
    BY <1>1, OnlyOutside DEF Come
  <2>2. \A n, b : Way(u, p, n, b)' <=> Way(u, p, n, b)
    BY <1>1, Frame
  <2> QED BY <1>1, <2>1, <2>2 DEF LedFor
<1>12. Phases'
  <2>1. pc' # "filter" => \A u \in Users, p \in Stepped : ~Hopeful(u, p)
    BY <1>1, <1>9 DEF Searching
  <2> QED BY <1>1, <1>2, <1>8, <2>1 DEF Phases, Searching
<1> QED BY <1>2, <1>5, <1>6, <1>7, <1>10, <1>11, <1>12 DEF SInv

\* When no store climbs on nobody is outside.
LEMMA SearchEndsLosesNone == ASSUME ShortestPaths, OneTree, SInv, SearchEnds PROVE SInv'
<1>1. /\ Searching /\ Queue = {} /\ DOMAIN T_max = {}
      /\ UNCHANGED <<db, score, poi_th, occurring, upEntryMark, borderMark, Queue, T_max>>
  BY DEF SearchEnds, marks
<1>2. IInv'
  BY ExtendKeeps DEF SInv
<1>3. \A u \in Users, p \in Stepped : ~Hopeful(u, p)
  BY <1>1, OnlyOutside DEF Outside
<1>4. Phases'
  <2>1. \A u, p : Hopeful(u, p)' <=> Hopeful(u, p)
    BY <1>1, Frame DEF Hopeful
  <2>2. Stepped' = Stepped
    BY <1>1 DEF Stepped
  <2> QED BY <1>1, <1>3, <2>1, <2>2 DEF SInv, Phases, Searching
<1> QED BY <1>1, <1>2, <1>4, StandsStill

\* Verifying users and returning come after the search.
LEMMA AnswerLosesNone ==
  ASSUME SInv, (\E u \in Users : Verify(u)) \/ Return \/ UNCHANGED vars
  PROVE  SInv'
<1>1. /\ UNCHANGED <<db, score, poi_th, occurring, upEntryMark, borderMark, Queue, T_max>>
      /\ pc' # "filter" => pc # "filter"
  BY DEF Verify, Return, vars, marks
<1>2. IInv'
  BY VerifyKeeps, ReturnKeeps, StutterKeeps DEF SInv
<1>3. Phases'
  <2>1. \A u, p : Hopeful(u, p)' <=> Hopeful(u, p)
    BY <1>1, Frame DEF Hopeful
  <2>2. Stepped' = Stepped
    BY <1>1 DEF Stepped
  <2> QED BY <1>1, <2>1, <2>2 DEF SInv, Phases
<1> QED BY <1>1, <1>2, <1>3, StandsStill

\* Before the first step there is nobody to lose.
LEMMA NobodyYet == Init /\ OneKeyword => SInv
<1> SUFFICES ASSUME Init, OneKeyword PROVE SInv
  OBVIOUS
<1>1. IInv
  BY InitEstablishes
<1>2. Bounded
  BY DEF Init, Prepared, ScoresOfDb, Bounded
<1>3. /\ poi_th = 0 /\ occurring = [p \in Stores |-> {}] /\ upEntryMark = {} /\ borderMark = {}
      /\ Queue = {} /\ T_max = <<>> /\ pc = "filter"
  BY DEF Init, Start
<1>4. Stepped = {} /\ DOMAIN T_max = {} /\ Len(stores) \in Nat
  BY <1>3, RoadAssumption DEF Stepped
<1>5. Entered /\ Queued /\ InRange /\ Expected /\ Led /\ Phases
  BY <1>3, <1>4 DEF Entered, Queued, InRange, Expected, Led, Phases
<1> QED BY <1>1, <1>2, <1>5 DEF SInv

\* No step loses anybody.
LEMMA NoneLost == ASSUME ShortestPaths, OneTree, SInv, [Next]_vars PROVE SInv'
<1>1. CASE FirstStep
  BY <1>1, FirstStepLosesNone
<1>2. CASE \E e \in Queue : PopUser(e) \/ PopSeenBorder(e) \/ PopBorder(e)
  BY <1>2, PopUserLosesNone, PopSeenBorderLosesNone, PopBorderLosesNone
<1>3. CASE Extend
  BY <1>3, ExtendLosesNone
<1>4. CASE SearchEnds
  BY <1>4, SearchEndsLosesNone
<1>5. CASE (\E u \in Users : Verify(u)) \/ Return \/ UNCHANGED vars
  BY <1>5, AnswerLosesNone
<1> QED BY <1>1, <1>2, <1>3, <1>4, <1>5 DEF Next

\* The inductive invariant of the search: on a road network with shortest
\* distances and one tree over it, for stores with one frequent keyword at most.
THEOREM SearchInvariant ==
  ASSUME ShortestPaths, OneTree
  PROVE  Spec /\ OneKeyword => []SInv
<1>1. SInv /\ [Next]_vars => SInv'
  BY NoneLost
<1> QED BY <1>1, NobodyYet, PTL DEF Spec

\* Whoever is to be found is queued, beyond a queued border or out of the range.
LEMMA SearchReaches ==
  ASSUME ShortestPaths, OneTree
  PROVE  SInv => WinnersReachable
<1> SUFFICES ASSUME SInv, Searching, NEW u \in Users, NEW p \in Stores, Hopeful(u, p)
             PROVE  Reachable(u, p)
  BY DEF WinnersReachable, Hopeful
<1>1. p \in Stepped
  BY AllStepped DEF Searching
<1>2. PICK t \in FrequentTerms : nonRareKeys(p) = {t} /\ Shared(u, p) = {t}
  BY <1>1, HopefulIsLate, KeyOfLate DEF SInv, IInv
<1>3. \/ UserQueued(u, p)
      \/ \E n \in GTree : \E b \in Borders[n] : Way(u, p, n, b) /\ Awaited(p, n, b)
      \/ Outside(u, p)
  <2>1. \/ UserQueued(u, p)
        \/ \E n \in GTree : \E b \in Borders[n] : Way(u, p, n, b) /\ Come(p, n, b)
        \/ Outside(u, p)
    BY <1>1 DEF SInv, Expected
  <2>2. LedFor(u, p)
    BY <1>1 DEF SInv, Led
  <2> QED BY <2>1, <2>2, Descent DEF SInv, IInv
<1>4. CASE UserQueued(u, p)
  BY <1>4 DEF Reachable, UserQueued, UserEntry
<1>5. ASSUME NEW n \in GTree, NEW b \in Borders[n], Way(u, p, n, b), Awaited(p, n, b)
      PROVE  Reachable(u, p)
  <2> DEFINE e == BorderEntry(p, n, b, nonRareKeys(p))
  <2>1. e \in Queue /\ e.p = p /\ ~e.isUser /\ e.node = n /\ e.keys = {t}
    BY <1>2, <1>5 DEF Awaited, BorderEntry
  <2>2. db.uAt[u] \in Under[n] /\ t \in db.uKeys[u]
    BY <1>2, <1>5 DEF Way, Shared
  <2> HIDE DEF e
  <2> QED BY <2>1, <2>2 DEF Reachable
<1>6. CASE Outside(u, p)
  BY <1>6 DEF Reachable, Outside
<1> QED BY <1>3, <1>4, <1>5, <1>6

\* The search loses no user that a store wins within their leaves: one not
\* evaluated yet can still be reached, through every marking, pruning and
\* extension (query_plus.h:4381-4591).
THEOREM WinnersAreReachable ==
  ASSUME ShortestPaths, OneTree
  PROVE  Spec /\ OneKeyword => []WinnersReachable
<1>1. SInv => WinnersReachable
  BY SearchReaches
<1> QED BY <1>1, SearchInvariant, PTL

\* When the search is over nobody is to be found.
LEMMA SearchExact == SInv => QueryExact
<1> SUFFICES ASSUME SInv PROVE QueryExact
  OBVIOUS
<1>1. ASSUME pc = "done", NEW u \in Users, NEW p \in Stores, WinsWithin(u, p)
      PROVE  u \in batch_results[p]
  <2>1. p \in Stepped /\ ~Hopeful(u, p)
    BY <1>1, AllStepped DEF SInv, Phases
  <2>2. <<u, p>> \in upEntryMark
    BY <1>1, <2>1 DEF Hopeful
  <2> QED BY <1>1, <2>2 DEF SInv, IInv, Shapes, EvaluatedReturned, WinsWithin
<1> QED BY <1>1 DEF SInv, IInv, QueryExact, NoWinnerLost

\* In the end every store has every user it wins within their leaves, and nobody
\* that it is not among the K best POIs of.
THEOREM QueryIsExact ==
  ASSUME ShortestPaths, OneTree
  PROVE  Spec /\ OneKeyword => []QueryExact
<1>1. SInv => QueryExact
  BY SearchExact
<1> QED BY <1>1, SearchInvariant, PTL

-----------------------------------------------------------------------------
(* Types.                                                                  *)

\* What the step of a user's evaluation leaves in shape.
Few ==
  /\ upEntryMark \subseteq Users \X Stores /\ candidate_User \subseteq Users
  /\ \A u \in Users : Cardinality(candidate_usr_related_store[u]) <= K

\* A user keeps K stores at most.
LEMMA KeepsFew ==
  ASSUME IInv, NEW u \in Users, NEW p \in Stores,
         Cardinality(candidate_usr_related_store[u]) <= K, NEW S \in Kept(u, p)
  PROVE  Cardinality(S) <= K
<1> DEFINE old == candidate_usr_related_store[u]
           all == old \cup {p}
<1>1. old \in SUBSET Stores /\ IsFiniteSet(old) /\ Cardinality(old) \in Nat /\ K \in Nat
  <2>1. old \in SUBSET Stores /\ Stores \in SUBSET Pois /\ IsFiniteSet(Pois) /\ K \in Nat
    BY StoresArePois, RoadAssumption DEF IInv, Shapes
  <2> QED BY <2>1, FS_Subset, FS_CardinalityType
<1>2. IsFiniteSet(all) /\ Cardinality(all) \in Nat /\ Cardinality(all) <= K + 1
  <2>1. IsFiniteSet(all)
        /\ Cardinality(all) = IF p \in old THEN Cardinality(old) ELSE Cardinality(old) + 1
    <3> HIDE DEF old
    <3> QED BY <1>1, FS_AddElement
  <2> QED BY <1>1, <2>1
<1>3. CASE S = all /\ Cardinality(all) <= K
  BY <1>3
<1>4. ASSUME NEW q \in all, S = all \ {q}
      PROVE  Cardinality(S) <= K
  <2> HIDE DEF all
  <2>1. Cardinality(all \ {q}) = Cardinality(all) - 1
    BY <1>2, FS_RemoveElement
  <2> QED BY <1>1, <1>2, <1>4, <2>1
<1>5. (S = all /\ Cardinality(all) <= K) \/ \E q \in all : S = all \ {q}
  BY DEF Kept
<1> QED BY <1>3, <1>4, <1>5

\* So few are kept.
LEMMA EvaluateKeepsFew ==
  ASSUME IInv, Few, NEW p \in Stores, NEW S \in SUBSET Users, Evaluate(p, S)
  PROVE  Few'
<1>1. PICK T \in Passing(p, S) :
        /\ candidate_User' = candidate_User \cup T
        /\ candidate_usr_related_store' \in
             {f \in [Users -> SUBSET Stores] :
                \A u \in Users : IF u \in T THEN f[u] \in Kept(u, p)
                                 ELSE f[u] = candidate_usr_related_store[u]}
  BY DEF Evaluate
<1>2. T \in SUBSET Users /\ upEntryMark' = upEntryMark \cup (S \X {p})
  BY DEF Passing, Evaluate
<1>3. ASSUME NEW u \in Users
      PROVE  Cardinality(candidate_usr_related_store'[u]) <= K
  <2>1. Cardinality(candidate_usr_related_store[u]) <= K
    BY DEF Few
  <2>2. CASE u \in T
    <3>1. candidate_usr_related_store'[u] \in Kept(u, p)
      BY <1>1, <2>2
    <3> QED BY <2>1, <3>1, KeepsFew
  <2>3. CASE u \notin T
    BY <1>1, <2>1, <2>3
  <2> QED BY <2>2, <2>3
<1> QED BY <1>1, <1>2, <1>3 DEF Few

\* Only evaluations change what is kept.
LEMMA FewStay == ASSUME IInv, Few, [Next]_vars PROVE Few'
<1>1. CASE FirstStep
  <2> DEFINE p == stores[poi_th + 1]
             early == SocialUsers(p) \cup UsersWith(midKeys(p)) \cup UsersWith(rareKeys(p))
  <2>1. p \in Stores
    <3>1. poi_th \in Nat /\ poi_th < Len(stores)
      BY <1>1 DEF IInv, Shapes, FirstStep
    <3> QED BY <3>1, RoadAssumption DEF Stores, ToSet
  <2>2. early \in SUBSET Users /\ Evaluate(p, early)
    BY <1>1 DEF FirstStep, SocialUsers, UsersWith, getTermUserInvList
  <2> QED BY <2>1, <2>2, EvaluateKeepsFew
<1>2. ASSUME NEW e \in Queue, PopUser(e)
      PROVE  Few'
  <2>1. e.p \in Stores /\ {e.id} \cap Unmarked(e.p) \in SUBSET Users
    BY DEF IInv, Shapes, Unmarked
  <2> QED BY <1>2, <2>1, EvaluateKeepsFew DEF PopUser
<1>3. ASSUME NEW e \in Queue, PopSeenBorder(e) \/ PopBorder(e)
      PROVE  Few'
  BY <1>3 DEF PopSeenBorder, PopBorder, Few, marks, candidates
<1>4. CASE Extend \/ SearchEnds \/ Return \/ UNCHANGED vars
  BY <1>4 DEF Extend, SearchEnds, Return, vars, Few, marks, candidates
<1>5. ASSUME NEW u \in Users, Verify(u)
      PROVE  Few'
  BY <1>5 DEF Verify, Few, marks
<1> QED BY <1>1, <1>2, <1>3, <1>4, <1>5 DEF Next

\* Nothing is kept at first.
LEMMA NothingKept == Init => Few
<1>1. K \in Nat /\ Cardinality({}) = 0
  BY RoadAssumption, FS_EmptySet
<1> QED BY <1>1 DEF Init, Start, Few

\* The invariant gives the types.
LEMMA SearchTypes == SInv /\ Few => QueryKeepsWinners
<1> SUFFICES ASSUME SInv, Few PROVE TypeOK
  BY DEF SInv, IInv, QueryKeepsWinners
<1>1. Stepped \in SUBSET Stores /\ Placed(db)
  BY SteppedAreStores, DatabasesAssumption DEF SInv, IInv
<1>2. ASSUME NEW e \in Queue
      PROVE  /\ e.p \in Stores /\ e.node \in GTree /\ e.keys \subseteq Terms
             /\ e.id \in IF e.isUser THEN Users ELSE Borders[e.node]
  <2>1. e.p \in Stores
    BY <1>1 DEF SInv, Queued
  <2>2. CASE e.isUser
    <3>1. e.id \in Users /\ e = UserEntry(e.p, e.id)
      BY <2>2 DEF SInv, Queued
    <3>2. PICK u \in Users : u = e.id
      BY <3>1
    <3>3. e = UserEntry(e.p, u)
      BY <3>1, <3>2
    <3>4. e.node = LeafOf[db.uAt[u]] /\ e.keys = {}
      BY <3>3 DEF UserEntry
    <3>5. db.uAt[u] \in Vertices
      BY <1>1 DEF Placed
    <3> QED BY <2>1, <2>2, <3>1, <3>4, <3>5, EveryPath
  <2>3. CASE ~e.isUser
    <3>1. e.node \in GTree /\ e.id \in Borders[e.node]
          /\ e = BorderEntry(e.p, e.node, e.id, nonRareKeys(e.p))
      BY <2>3 DEF SInv, Queued
    <3>2. e.keys = nonRareKeys(e.p)
      BY <3>1 DEF BorderEntry
    <3>3. nonRareKeys(e.p) \in SUBSET Terms
      BY <1>1, <2>1, StoresArePois DEF nonRareKeys, Placed
    <3> QED BY <2>1, <2>3, <3>1, <3>2, <3>3
  <2> QED BY <2>2, <2>3
<1>3. /\ poi_th \in 0 .. Len(stores) /\ pc \in {"filter", "verify", "done"}
      /\ occurring \in [Stores -> SUBSET Users]
      /\ DOMAIN T_max \subseteq Stores /\ \A p \in DOMAIN T_max : T_max[p] \in GTree
      /\ candidate_usr_related_store \in [Users -> SUBSET Stores]
      /\ batch_results \in [Stores -> SUBSET Users]
  BY DEF SInv, IInv, Shapes, Entered, InRange
<1> QED BY <1>2, <1>3 DEF TypeOK, Few

\* Types, and that a store is kept for the user it wins until it is returned for
\* him (query_plus.h:4426-4442, 4594-4690).
THEOREM WinnersAreKept ==
  ASSUME ShortestPaths, OneTree
  PROVE  Spec /\ OneKeyword => []QueryKeepsWinners
<1>1. SInv /\ Few => QueryKeepsWinners
  BY SearchTypes
<1>2. SInv /\ Few /\ [Next]_vars => (SInv /\ Few)'
  BY NoneLost, FewStay DEF SInv
<1>3. Init /\ OneKeyword => SInv /\ Few
  BY NobodyYet, NothingKept
<1> QED BY <1>1, <1>2, <1>3, PTL DEF Spec
-----------------------------------------------------------------------------
(* The filter evaluates nobody twice for a store.                          *)

\* The store's search goes on below the node instead of taking its few users.
Spread(p, n) == db.pAt[p] \in Under[n] \/ ~Sparse(p, n)

\* The node is not over the store, and the search came to it through nodes with
\* many users.
Away(p, n) ==
  /\ n \in GTree /\ db.pAt[p] \notin Under[n]
  /\ \A v \in Vertices : \A j \in 1 .. Len(gtreepath[v]) :
       gtreepath[v][j] = n => \A i \in 1 .. j - 1 : Spread(p, gtreepath[v][i])

\* The user has been evaluated for the store, himself or with his leaf.
Dealt(u, p) == <<u, p>> \in upEntryMark \/ <<LeafOf[db.uAt[u]], p>> \in nodepMark

\* Users are queued who are in the leaf of the store, and borders of nodes that
\* are away from it.
Apart ==
  \A e \in Queue :
    /\ e.p \in Stepped
    /\ e.isUser => e.id \in Users /\ LeafOf[db.uAt[e.id]] = LeafOf[db.pAt[e.p]]
    /\ ~e.isUser => Away(e.p, e.node)

\* A store has one place of a user, when it has been evaluated for him.
Once ==
  /\ candidate_usr_related_store \in [Users -> [Stores -> Nat]]
  /\ \A u \in Users, p \in Stores :
       /\ candidate_usr_related_store[u][p] <= 1
       /\ Held(candidate_usr_related_store[u], p) => p \in Stepped /\ Dealt(u, p)

\* The inductive invariant of the evaluations.
FShape ==
  /\ db \in Databases /\ Entered /\ InRange /\ Apart /\ Once
  /\ \A n \in GTree, p \in Stores : <<n, p>> \in nodepMark => p \in Stepped /\ Away(p, n)

\* A node whose users the search takes one by one stays so.
LEMMA AwayStays ==
  ASSUME UNCHANGED db, NEW p, occurring'[p] = occurring[p], NEW n
  PROVE  Away(p, n)' <=> Away(p, n)
<1>1. \A m : OccursUnder(p, m)' = OccursUnder(p, m)
  BY DEF OccursUnder
<1>2. \A m : Spread(p, m)' <=> Spread(p, m)
  BY <1>1 DEF Spread, Sparse
<1> QED BY <1>2 DEF Away

\* The search comes to the children of a node over the store, and of one with many
\* users that it has come to.
LEMMA AwayBelow ==
  ASSUME OneTree, NEW p, NEW n \in GTree, NEW c \in Children[n], db.pAt[p] \notin Under[c],
         db.pAt[p] \in Under[n] \/ (Away(p, n) /\ ~Sparse(p, n))
  PROVE  Away(p, c)
<1> DEFINE z == db.pAt[p]
<1>1. c \in GTree
  BY DEF Children
<1>2. ASSUME NEW v \in Vertices, NEW j \in 1 .. Len(gtreepath[v]), gtreepath[v][j] = c,
             NEW i \in 1 .. j - 1
      PROVE  Spread(p, gtreepath[v][i])
  <2> DEFINE path == gtreepath[v]
  <2>1. v \in Under[c] /\ Len(path) \in Nat
    BY <1>2, EveryPath
  <2>2. PICK k \in 1 .. Len(path) - 1 : path[k] = n /\ path[k+1] = c
    BY <2>1, UnderChild
  <2>3. k + 1 \in 1 .. Len(path) /\ k \in 1 .. Len(path)
    <3> HIDE DEF path
    <3> QED BY <2>1, <2>2
  <2>4. j = k + 1
    BY <1>2, <2>2, <2>3, PathsAgree
  <2>5. i \in 1 .. k /\ i \in 1 .. Len(path)
    <3> HIDE DEF path
    <3> QED BY <2>1, <2>2, <2>4
  <2>6. CASE z \in Under[n]
    <3>1. z \in Vertices /\ \E m \in 1 .. Len(gtreepath[z]) : gtreepath[z][m] = n
      BY <2>6, PlaceOnPath
    <3>2. PICK m \in 1 .. Len(gtreepath[z]) : gtreepath[z][m] = n
      BY <3>1
    <3>3. k = m /\ \A l \in 1 .. k : path[l] = gtreepath[z][l]
      BY <2>2, <2>3, <3>1, <3>2, PathsAgree
    <3>4. i \in 1 .. Len(gtreepath[z]) /\ path[i] = gtreepath[z][i]
      <4>1. Len(gtreepath[z]) \in Nat
        BY <3>1, EveryPath
      <4> HIDE DEF path, z
      <4> QED BY <2>5, <3>2, <3>3, <4>1
    <3>5. z \in Under[gtreepath[z][i]]
      BY <3>1, <3>4, EveryPath
    <3> QED BY <3>4, <3>5 DEF Spread
  <2>7. CASE Away(p, n) /\ ~Sparse(p, n)
    <3>1. CASE i = k
      BY <2>2, <2>7, <3>1 DEF Spread
    <3>2. CASE i # k
      <4>1. i \in 1 .. k - 1
        BY <2>5, <3>2
      <4> QED BY <2>2, <2>3, <2>7, <4>1 DEF Away
    <3> QED BY <3>1, <3>2
  <2> QED BY <2>6, <2>7
<1> QED BY <1>1, <1>2 DEF Away

\* No leaf is come to below a node whose few users are taken.
LEMMA NoneBelowSparse ==
  ASSUME NEW p, NEW n \in GTree, ~isleaf(n), Sparse(p, n), db.pAt[p] \notin Under[n], NEW v \in Under[n]
  PROVE  ~Away(p, LeafOf[v])
<1> DEFINE path == gtreepath[v]
<1>1. v \in Vertices /\ \E i \in 1 .. Len(path) : path[i] = n
  BY PlaceOnPath
<1>2. PICK i \in 1 .. Len(path) : path[i] = n
  BY <1>1
<1>3. Len(path) \in Nat \ {0} /\ LeafOf[v] = path[Len(path)]
  BY <1>1, EveryPath
<1>4. i # Len(path)
  BY <1>1, <1>2, <1>3 DEF isleaf
<1>5. i \in 1 .. Len(path) - 1 /\ Len(path) \in 1 .. Len(path)
  <2> HIDE DEF path
  <2> QED BY <1>2, <1>3, <1>4
<1>6. ~Spread(p, path[i])
  BY <1>2 DEF Spread
<1> QED BY <1>1, <1>3, <1>5, <1>6 DEF Away

\* Who is evaluated, and did not have the store yet, has it once.
LEMMA ScoreOnce ==
  ASSUME Once, NEW p \in Stores, NEW S \in SUBSET Users, Score(p, S),
         \A u \in S : ~Held(candidate_usr_related_store[u], p)
  PROVE  /\ candidate_usr_related_store' \in [Users -> [Stores -> Nat]]
         /\ \A u \in Users, q \in Stores :
              /\ candidate_usr_related_store'[u][q] <= 1
              /\ Held(candidate_usr_related_store'[u], q) =>
                   Held(candidate_usr_related_store[u], q) \/ (q = p /\ u \in S)
<1> DEFINE kept == candidate_usr_related_store
           Counts == [Stores -> Nat]
<1>1. PICK T \in Passing(p, S) :
        /\ DOMAIN kept' = Users /\ kept' = [u \in Users |-> kept'[u]]
        /\ \A u \in Users : IF u \in T THEN kept'[u] \in Pushed(u, kept[u], p) ELSE kept'[u] = kept[u]
  BY DEF Score
<1>2. T \in SUBSET S
  BY <1>1 DEF Passing
<1>3. ASSUME NEW u \in Users
      PROVE  /\ kept'[u] \in Counts
             /\ \A q \in Stores : /\ kept'[u][q] <= 1
                                  /\ Held(kept'[u], q) => Held(kept[u], q) \/ (q = p /\ u \in S)
  <2>1. kept[u] \in Counts /\ \A q \in Stores : kept[u][q] <= 1
    BY DEF Once
  <2>2. CASE u \notin T
    BY <1>1, <2>1, <2>2
  <2>3. CASE u \in T
    <3> DEFINE all == [kept[u] EXCEPT ![p] = @ + 1]
    <3>1. kept[u][p] = 0 /\ u \in S
      BY <1>2, <2>1, <2>3 DEF Held
    <3>2. all \in Counts /\ \A q \in Stores : all[q] <= 1 /\ (q # p => all[q] = kept[u][q])
      BY <2>1, <3>1
    <3>3. kept'[u] \in Pushed(u, kept[u], p)
      BY <1>1, <2>3
    <3>4. kept'[u] = all \/ \E q \in Stores : Held(all, q) /\ kept'[u] = [all EXCEPT ![q] = @ - 1]
      BY <3>3 DEF Pushed
    <3> HIDE DEF all
    <3>5. kept'[u] \in Counts /\ \A q \in Stores : kept'[u][q] <= all[q]
      <4>1. CASE kept'[u] = all
        BY <3>2, <4>1
      <4>2. ASSUME NEW q \in Stores, Held(all, q), kept'[u] = [all EXCEPT ![q] = @ - 1]
            PROVE  kept'[u] \in Counts /\ \A r \in Stores : kept'[u][r] <= all[r]
        BY <3>2, <4>2 DEF Held
      <4> QED BY <3>4, <4>1, <4>2
    <3>6. \A q \in Stores : kept'[u][q] \in Nat /\ all[q] \in Nat
      BY <3>2, <3>5
    <3> HIDE DEF kept
    <3> QED BY <3>1, <3>2, <3>5, <3>6 DEF Held
  <2> QED BY <2>2, <2>3
<1> QED BY <1>1, <1>3

\* So does whoever has a store then.
LEMMA OnceStays ==
  ASSUME Once, UNCHANGED db, NEW p \in Stores, NEW S \in SUBSET Users, Score(p, S),
         Stepped \subseteq Stepped', p \in Stepped',
         upEntryMark \subseteq upEntryMark', nodepMark \subseteq nodepMark',
         \A u \in S : Dealt(u, p)' /\ ~Held(candidate_usr_related_store[u], p)
  PROVE  Once'
<1>1. /\ candidate_usr_related_store' \in [Users -> [Stores -> Nat]]
      /\ \A u \in Users, q \in Stores :
           /\ candidate_usr_related_store'[u][q] <= 1
           /\ Held(candidate_usr_related_store'[u], q) =>
                Held(candidate_usr_related_store[u], q) \/ (q = p /\ u \in S)
  BY ScoreOnce
<1>2. ASSUME NEW u \in Users, NEW q \in Stores, Held(candidate_usr_related_store[u], q)
      PROVE  q \in Stepped' /\ Dealt(u, q)'
  BY <1>2 DEF Once, Dealt
<1> QED BY <1>1, <1>2 DEF Once, Held

\* What a step of the search has to show.
LEMMA FShapeStays ==
  ASSUME FShape, UNCHANGED <<db, score, poi_th, occurring>>, upEntryMark \subseteq upEntryMark',
         DOMAIN T_max' \subseteq Stepped, InRange', Once',
         \A e \in Queue' \ Queue :
           /\ e.p \in Stepped
           /\ e.isUser => e.id \in Users /\ LeafOf[db.uAt[e.id]] = LeafOf[db.pAt[e.p]]
           /\ ~e.isUser => Away(e.p, e.node),
         \A n \in GTree, p \in Stores :
           <<n, p>> \in nodepMark' \ nodepMark => p \in Stepped /\ Away(p, n)
  PROVE  FShape'
<1>1. Stepped' = Stepped
  BY DEF Stepped
<1>2. \A p, n : Away(p, n)' <=> Away(p, n)
  BY AwayStays
<1>3. Entered'
  <2> SUFFICES ASSUME NEW p \in Stepped
               PROVE  /\ \A u \in EarlyUsers(p)' : <<u, p>> \in upEntryMark'
                      /\ occurring[p] = UsersWith(nonRareKeys(p))'
                                          \ (SocialUsers(p)' \cup UsersWith(midKeys(p))')
    BY <1>1 DEF FShape, Entered
  <2>1. \A u \in EarlyUsers(p) : <<u, p>> \in upEntryMark
    BY DEF FShape, Entered
  <2> QED BY <2>1, Frame DEF FShape, Entered
<1>4. Apart'
  <2> SUFFICES ASSUME NEW e \in Queue'
               PROVE  /\ e.p \in Stepped
                      /\ e.isUser => e.id \in Users /\ LeafOf[db.uAt[e.id]] = LeafOf[db.pAt[e.p]]
                      /\ ~e.isUser => Away(e.p, e.node)
    BY <1>1, <1>2 DEF Apart
  <2> QED BY DEF FShape, Apart
<1>5. ASSUME NEW n \in GTree, NEW p \in Stores, <<n, p>> \in nodepMark'
      PROVE  p \in Stepped' /\ Away(p, n)'
  BY <1>1, <1>2, <1>5 DEF FShape
<1> QED BY <1>3, <1>4, <1>5 DEF FShape

\* At first nobody has been evaluated.
LEMMA FShapeAtFirst == FastInit => FShape
<1> SUFFICES ASSUME FastInit PROVE FShape
  OBVIOUS
<1>1. /\ db \in Databases /\ poi_th = 0 /\ occurring = [p \in Stores |-> {}]
      /\ nodepMark = {} /\ Queue = {} /\ T_max = <<>>
      /\ candidate_usr_related_store = [u \in Users |-> [p \in Stores |-> 0]]
  BY DEF FastInit, FastStart, Prepared
<1>2. Stepped = {} /\ DOMAIN T_max = {} /\ Len(stores) \in Nat
  BY <1>1, RoadAssumption DEF Stepped
<1>3. Once
  BY <1>1 DEF Once, Held
<1> QED BY <1>1, <1>2, <1>3 DEF FShape, Entered, InRange, Apart

\* The users of the first step do not have its store yet.
LEMMA FShapeFirstStep ==
  ASSUME OneTree, FShape, FastFirstStep
  PROVE  /\ FShape'
         /\ LET p == stores[poi_th + 1]
            IN  \A u \in EarlyUsers(p) : ~Held(candidate_usr_related_store[u], p)
<1>0. PICK p0 : p0 = stores[poi_th + 1]
  OBVIOUS
<1> DEFINE early == EarlyUsers(p0)
<1>1. /\ UNCHANGED <<db, score, nodepMark>> /\ Opens(p0) /\ Score(p0, early)
  BY <1>0 DEF FastFirstStep, EarlyUsers, Before, Mark, Opens
<1>2. /\ p0 \in Stores /\ p0 \notin Stepped /\ Stepped' = Stepped \cup {p0}
      /\ Entered' /\ InRange'
      /\ \A e \in Queue' : e \in Queue \/ \E u \in Users : /\ e = UserEntry(p0, u)
                                                           /\ LeafOf[db.uAt[u]] = LeafOf[db.pAt[p0]]
  BY <1>1, Opened DEF FShape
<1>3. /\ upEntryMark' = upEntryMark \cup (early \X {p0})
      /\ occurring' = [occurring EXCEPT ![p0] = UsersWith(nonRareKeys(p0))
                                                  \ (SocialUsers(p0) \cup UsersWith(midKeys(p0)))]
  BY <1>1 DEF Opens
<1>4. ASSUME NEW p \in Stepped, NEW n
      PROVE  Away(p, n)' <=> Away(p, n)
  <2>1. occurring'[p] = occurring[p]
    <3>1. p \in Stores /\ p # p0 /\ occurring \in [Stores -> SUBSET Users]
      BY <1>2, SteppedAreStores DEF FShape, Entered
    <3> QED BY <1>3, <3>1
  <2> QED BY <1>1, <2>1, AwayStays
<1>8. early \in SUBSET Users
  BY DEF EarlyUsers, SocialUsers, UsersWith, getTermUserInvList
<1>9. \A u \in early : Dealt(u, p0)' /\ ~Held(candidate_usr_related_store[u], p0)
  BY <1>2, <1>3, <1>8 DEF FShape, Once, Dealt
<1>5. Once'
  <2> HIDE DEF early
  <2> QED BY <1>1, <1>2, <1>3, <1>8, <1>9, OnceStays DEF FShape
<1>6. Apart'
  <2> SUFFICES ASSUME NEW e \in Queue'
               PROVE  /\ e.p \in Stepped'
                      /\ e.isUser => e.id \in Users /\ LeafOf[db.uAt[e.id]] = LeafOf[db.pAt[e.p]]
                      /\ ~e.isUser => Away(e.p, e.node)'
    BY <1>1 DEF Apart
  <2>1. CASE e \in Queue
    BY <1>2, <1>4, <2>1 DEF FShape, Apart
  <2>2. CASE e \notin Queue
    <3>1. PICK u \in Users : e = UserEntry(p0, u) /\ LeafOf[db.uAt[u]] = LeafOf[db.pAt[p0]]
      BY <1>2, <2>2
    <3>2. e.p = p0 /\ e.id = u /\ e.isUser
      BY <3>1 DEF UserEntry
    <3> QED BY <1>2, <3>1, <3>2
  <2> QED BY <2>1, <2>2
<1>7. ASSUME NEW n \in GTree, NEW p \in Stores, <<n, p>> \in nodepMark'
      PROVE  p \in Stepped' /\ Away(p, n)'
  BY <1>1, <1>2, <1>4, <1>7 DEF FShape
<1> QED BY <1>0, <1>1, <1>2, <1>5, <1>6, <1>7, <1>9 DEF FShape

\* A user popped is in the leaf of the store, which is not dealt with as a leaf.
LEMMA FShapePopUser ==
  ASSUME OneTree, FShape, NEW e \in Queue, FastPopUser(e)
  PROVE  /\ FShape'
         /\ \A u \in {e.id} \cap Unmarked(e.p) : ~Held(candidate_usr_related_store[u], e.p)
<1> DEFINE S == {e.id} \cap Unmarked(e.p)
<1>1. /\ UNCHANGED search /\ UNCHANGED nodepMark /\ e.isUser /\ Queue' = Queue \ {e}
      /\ upEntryMark' = upEntryMark \cup (S \X {e.p}) /\ Score(e.p, S)
  BY DEF FastPopUser, Mark
<1>2. /\ e.p \in Stepped /\ e.p \in Stores /\ S \in SUBSET Users
      /\ e.id \in Users /\ LeafOf[db.uAt[e.id]] = LeafOf[db.pAt[e.p]]
  BY <1>1, SteppedAreStores DEF FShape, Apart, Unmarked
<1>3. ASSUME NEW u \in S
      PROVE  Dealt(u, e.p)' /\ ~Held(candidate_usr_related_store[u], e.p)
  <2>1. <<u, e.p>> \in upEntryMark' /\ <<u, e.p>> \notin upEntryMark /\ u \in Users
    BY <1>1 DEF Unmarked
  <2> DEFINE n == LeafOf[db.uAt[u]]
             z == db.pAt[e.p]
  <2>2. n = LeafOf[z] /\ z \in Vertices
    BY <1>2, StoresArePois, DatabasesAssumption DEF FShape, Placed
  <2>3. n \in GTree /\ z \in Under[n]
    <3> HIDE DEF z
    <3>1. LeafOf[z] \in GTree /\ LeafOf[z] \in ToSet(gtreepath[z])
      BY <2>2, EveryPath
    <3> HIDE DEF n
    <3> QED BY <2>2, <3>1 DEF Under
  <2>4. <<n, e.p>> \notin nodepMark
    <3> HIDE DEF n
    <3> QED BY <1>2, <2>3 DEF FShape, Away
  <2> QED BY <1>2, <2>1, <2>4 DEF FShape, Once, Dealt
<1>4. UNCHANGED <<db, score, poi_th, occurring, T_max>> /\ Stepped' = Stepped
  BY <1>1 DEF search, Stepped
<1>5. Once'
  <2> HIDE DEF S
  <2> QED BY <1>1, <1>2, <1>3, <1>4, OnceStays DEF FShape
<1>6. InRange' /\ DOMAIN T_max' \subseteq Stepped
  BY <1>4 DEF FShape, InRange, Entered
<1>7. FShape'
  <2> HIDE DEF S
  <2> QED BY <1>1, <1>4, <1>5, <1>6, FShapeStays
<1> QED BY <1>3, <1>7

\* Nothing is evaluated.
LEMMA OnceUnchanged ==
  ASSUME Once, UNCHANGED <<db, candidate_usr_related_store, poi_th>>,
         upEntryMark \subseteq upEntryMark', nodepMark \subseteq nodepMark'
  PROVE  Once'
<1>1. Stepped' = Stepped
  BY DEF Stepped
<1> QED BY <1>1 DEF Once, Held, Dealt

\* Borders passed over, or on the way down, take the search to children of busy nodes.
LEMMA FShapePopInner ==
  ASSUME OneTree, FShape, NEW e \in Queue, FastPopSeenBorder(e) \/ PopInner(e)
  PROVE  FShape'
<1>1. /\ UNCHANGED search /\ UNCHANGED <<upEntryMark, nodepMark, candidate_usr_related_store>>
      /\ ~e.isUser
      /\ \/ Queue' = Queue \ {e}
         \/ \E keys : Queue' = (Queue \ {e}) \cup Beyond(e, keys) /\ ~isleaf(e.node) /\ ~Sparse(e.p, e.node)
  BY DEF FastPopSeenBorder, PopSeenBorder, PopInner, NewBorder, marks, candidates
<1>2. e.p \in Stepped /\ Away(e.p, e.node)
  BY <1>1 DEF FShape, Apart
<1>3. ASSUME NEW f \in Queue' \ Queue
      PROVE  f.p \in Stepped /\ ~f.isUser /\ Away(f.p, f.node)
  <2>1. PICK keys : f \in Beyond(e, keys) /\ ~isleaf(e.node) /\ ~Sparse(e.p, e.node)
    BY <1>1
  <2>2. e.node \in GTree /\ db.pAt[e.p] \notin Under[e.node]
    BY <1>2 DEF Away
  <2>3. f.p = e.p /\ ~f.isUser /\ f.node \in Children[e.node] /\ f.node \in GTree
    BY <2>1, <2>2, BeyondIs
  <2>4. db.pAt[e.p] \notin Under[f.node]
    BY <2>2, <2>3, UnderChild
  <2>5. Away(e.p, f.node)
    BY <1>2, <2>1, <2>2, <2>3, <2>4, AwayBelow
  <2> QED BY <1>2, <2>3, <2>5
<1>4. UNCHANGED <<db, score, poi_th, occurring, T_max>>
  BY <1>1 DEF search
<1>5. Once'
  BY <1>1, <1>4, OnceUnchanged DEF FShape
<1>6. InRange' /\ DOMAIN T_max' \subseteq Stepped
  BY <1>4 DEF FShape, InRange, Entered
<1> QED BY <1>1, <1>3, <1>4, <1>5, <1>6, FShapeStays

\* The users of a leaf are evaluated at one border, and only there.
LEMMA FShapePopLeaf ==
  ASSUME OneTree, FShape, NEW e \in Queue, PopLeaf(e)
  PROVE  FShape' /\ \A u \in LeafUsers(e) : u \in Users /\ ~Held(candidate_usr_related_store[u], e.p)
<1> DEFINE S == LeafUsers(e)
           p == e.p
           n == e.node
<1>1. /\ UNCHANGED search /\ UNCHANGED upEntryMark /\ ~e.isUser /\ Queue' = Queue \ {e} /\ isleaf(n)
      /\ nodepMark' = nodepMark \cup {<<n, p>>} /\ Score(p, S)
  BY DEF PopLeaf, NewBorder
<1>2. p \in Stepped /\ p \in Stores /\ Away(p, n)
  BY <1>1, SteppedAreStores DEF FShape, Apart
<1> HIDE DEF p, n
<1>3. ASSUME NEW u \in S
      PROVE  u \in Users /\ LeafOf[db.uAt[u]] = n /\ <<u, p>> \notin upEntryMark /\ <<n, p>> \notin nodepMark
  <2>1. /\ <<n, p>> \notin nodepMark /\ u \in Unmarked(p)
        /\ \E t \in e.keys : u \in getUsrTermRelatedEntry(t, n)
    BY DEF LeafUsers, p, n
  <2>2. u \in Users /\ db.uAt[u] \in Under[n]
    BY <1>1, <2>1 DEF getUsrTermRelatedEntry, UsersUnder, getTermUserInvList
  <2>3. db.uAt[u] \in Vertices /\ n \in GTree
    BY <1>2, <2>2, DatabasesAssumption DEF FShape, Placed, Away
  <2> QED BY <1>1, <2>1, <2>2, <2>3, UnderLeaf DEF Unmarked
<1> HIDE DEF S
<1>4. UNCHANGED <<db, score, poi_th, occurring, T_max>> /\ Stepped' = Stepped
  BY <1>1 DEF search, Stepped
<1>7. \A u \in S : ~Held(candidate_usr_related_store[u], p)
  BY <1>2, <1>3 DEF FShape, Once, Dealt
<1>5. Once'
  <2>1. \A u \in S : Dealt(u, p)'
    BY <1>1, <1>3, <1>4 DEF Dealt
  <2>2. S \in SUBSET Users
    BY <1>3
  <2> QED BY <1>1, <1>2, <1>4, <1>7, <2>1, <2>2, OnceStays DEF FShape
<1>6. InRange' /\ DOMAIN T_max' \subseteq Stepped
  BY <1>4 DEF FShape, InRange, Entered
<1>8. FShape'
  BY <1>1, <1>2, <1>4, <1>5, <1>6, FShapeStays
<1> QED BY <1>3, <1>7, <1>8 DEF S, p

\* The few users of a node are not in leaves dealt with: the search did not go
\* below it.
LEMMA FShapePopSparse ==
  ASSUME OneTree, FShape, NEW e \in Queue, PopSparse(e)
  PROVE  /\ FShape'
         /\ \A u \in OccursUnder(e.p, e.node) \cap Unmarked(e.p) :
              ~Held(candidate_usr_related_store[u], e.p)
<1> DEFINE p == e.p
           n == e.node
           S == OccursUnder(p, n) \cap Unmarked(p)
<1>1. /\ UNCHANGED search /\ ~e.isUser /\ Queue' = Queue \ {e} /\ ~isleaf(n) /\ Sparse(p, n)
      /\ nodepMark' = nodepMark \cup {<<n, p>>}
      /\ upEntryMark' = upEntryMark \cup (S \X {p}) /\ Score(p, S)
  BY DEF PopSparse, NewBorder, Mark
<1>2. p \in Stepped /\ p \in Stores /\ Away(p, n)
  BY <1>1, SteppedAreStores DEF FShape, Apart
<1>3. n \in GTree /\ db.pAt[p] \notin Under[n]
  BY <1>2 DEF Away
<1> HIDE DEF p, n
<1>4. ASSUME NEW u \in S
      PROVE  /\ u \in Users /\ <<u, p>> \notin upEntryMark
             /\ <<LeafOf[db.uAt[u]], p>> \notin nodepMark
  <2>1. u \in Users /\ <<u, p>> \notin upEntryMark /\ db.uAt[u] \in Under[n]
    BY DEF Unmarked, OccursUnder
  <2>2. ~Away(p, LeafOf[db.uAt[u]])
    BY <1>1, <1>3, <2>1, NoneBelowSparse
  <2>3. LeafOf[db.uAt[u]] \in GTree
    <3>1. db.uAt[u] \in Vertices
      BY <2>1, DatabasesAssumption DEF FShape, Placed
    <3> QED BY <3>1, EveryPath
  <2> QED BY <1>2, <2>1, <2>2, <2>3 DEF FShape
<1> HIDE DEF S
<1>5. UNCHANGED <<db, score, poi_th, occurring, T_max>> /\ Stepped' = Stepped
  BY <1>1 DEF search, Stepped
<1>8. \A u \in S : ~Held(candidate_usr_related_store[u], p)
  BY <1>2, <1>4 DEF FShape, Once, Dealt
<1>6. Once'
  <2>1. \A u \in S : Dealt(u, p)'
    BY <1>1, <1>4, <1>5 DEF Dealt
  <2>2. S \in SUBSET Users
    BY <1>4
  <2> QED BY <1>1, <1>2, <1>5, <1>8, <2>1, <2>2, OnceStays DEF FShape
<1>7. InRange' /\ DOMAIN T_max' \subseteq Stepped
  BY <1>5 DEF FShape, InRange, Entered
<1>9. FShape'
  BY <1>1, <1>2, <1>5, <1>6, <1>7, FShapeStays
<1> QED BY <1>8, <1>9 DEF S, p, n

\* The climbs go to children of nodes over the store.
LEMMA FShapeExtend == ASSUME OneTree, FShape, FastExtend \/ FastSearchEnds PROVE FShape'
<1>1. /\ UNCHANGED <<db, score, poi_th, occurring, upEntryMark, nodepMark, candidate_usr_related_store>>
      /\ Widens \/ UNCHANGED <<Queue, T_max>>
  BY DEF FastExtend, FastSearchEnds, Widens, marks, candidates
<1>2. Once'
  BY <1>1, OnceUnchanged DEF FShape
<1>3. CASE UNCHANGED <<Queue, T_max>>
  <2>1. InRange' /\ DOMAIN T_max' \subseteq Stepped
    BY <1>1, <1>3 DEF FShape, InRange, Entered
  <2> QED BY <1>1, <1>2, <1>3, <2>1, FShapeStays
<1>4. CASE Widens
  <2>1. ASSUME NEW p \in Climbing
        PROVE  p \in Stepped /\ T_max[p] \in GTree /\ db.pAt[p] \in Under[T_max[p]]
    BY DEF Climbing, FShape, InRange, Entered
  <2>2. InRange' /\ DOMAIN T_max' \subseteq Stepped
    <3>1. \A p \in DOMAIN T_max' : T_max'[p] \in GTree /\ db.pAt[p] \in Under[T_max'[p]] /\ p \in Stepped
      BY <1>4, <2>1, WidenIs, RangeClimbs
    <3> QED BY <1>1, <3>1 DEF InRange
  <2>3. ASSUME NEW e \in Queue'
        PROVE  e.p \in Stepped /\ ~e.isUser /\ Away(e.p, e.node)
    <3>1. PICK p \in Climbing : e \in Entries(p, Climb(p, T_max[p]).entries)
      BY <1>4, WidenIs
    <3> DEFINE r == Climb(p, T_max[p])
    <3>2. PICK c \in r.entries : \E b \in Borders[c] :
             e = BorderEntry(p, c, b, nonRareKeys(p) \cap TermsUnder(c))
      <4> HIDE DEF r
      <4> QED BY <3>1 DEF Entries, r
    <3>3. e.p = p /\ ~e.isUser /\ e.node = c
      BY <3>2 DEF BorderEntry
    <3>4. /\ r.node \in GTree /\ db.pAt[p] \in Under[r.node]
          /\ c \in Children[r.node] /\ db.pAt[p] \notin Under[c]
      BY <2>1, <3>2, RangeClimbs
    <3> HIDE DEF r
    <3>5. Away(p, c)
      BY <3>4, AwayBelow
    <3> QED BY <2>1, <3>3, <3>5
  <2> QED BY <1>1, <1>2, <2>2, <2>3, FShapeStays
<1> QED BY <1>1, <1>3, <1>4

\* No step evaluates anybody twice.
LEMMA FShapeKept == ASSUME OneTree, FShape, [FastNext]_fastVars PROVE FShape'
<1>1. CASE FastFirstStep
  BY <1>1, FShapeFirstStep
<1>2. ASSUME NEW e \in Queue, FastPopUser(e) \/ FastPopSeenBorder(e) \/ PopLeaf(e) \/ PopSparse(e) \/ PopInner(e)
      PROVE  FShape'
  BY <1>2, FShapePopUser, FShapePopInner, FShapePopLeaf, FShapePopSparse
<1>3. CASE FastExtend \/ FastSearchEnds
  BY <1>3, FShapeExtend
<1>4. CASE UNCHANGED fastVars
  <2>1. UNCHANGED <<db, score, poi_th, occurring, upEntryMark, nodepMark, Queue, T_max,
                    candidate_usr_related_store>>
    BY <1>4 DEF fastVars, vars, marks, candidates
  <2>2. Once' /\ InRange' /\ DOMAIN T_max' \subseteq Stepped
    BY <2>1, OnceUnchanged DEF FShape, InRange, Entered
  <2> QED BY <2>1, <2>2, FShapeStays
<1> QED BY <1>1, <1>2, <1>3, <1>4 DEF FastNext

\* No store takes two of the K places a user has, though users of a leaf are not
\* marked when evaluated (query_plus.h:5885, 5901-5925).
THEOREM NoStoreTwice ==
  ASSUME OneTree
  PROVE  FastSpec => []StoresDistinct
<1>1. FShape /\ [FastNext]_fastVars => FShape'
  BY FShapeKept
<1>2. FShape => StoresDistinct
  BY DEF FShape, Once, StoresDistinct
<1> QED BY <1>1, <1>2, FShapeAtFirst, PTL DEF FastSpec

-----------------------------------------------------------------------------
(* The filter loses no winner.                                             *)

\* p wins u within their leaves, who does not keep it.
Missed(u, p) == WinsWithin(u, p) /\ ~Keeps(u, p)

\* Whoever has been evaluated for a store that wins him keeps it.
MarkedKeep == \A u \in Users, p \in Stores : Wins(u, p) /\ <<u, p>> \in upEntryMark => Keeps(u, p)

\* The user is queued himself, or beyond a border that has come up.
Followed(u, p) ==
  \/ UserQueued(u, p)
  \/ \E n \in GTree : \E b \in Borders[n] : Way(u, p, n, b) /\ Come(p, n, b)

\* Where the search has whoever is missed.
Searched ==
  \A u \in Users, p \in Stepped :
    Missed(u, p) => (Followed(u, p) \/ Outside(u, p)) /\ LedFor(u, p)

\* No border is evaluated before the search, and nobody is missed after it.
FPhases ==
  /\ poi_th # Len(stores) => borderMark = {}
  /\ pc # "filter" => poi_th = Len(stores) /\ \A u \in Users, p \in Stepped : ~Missed(u, p)

\* The inductive invariant of the filter.
FInv ==
  /\ FShape /\ Known /\ OneKeyword /\ Queued
  /\ MarkedKeep /\ LeavesDone /\ Searched /\ FPhases

\* Stores kept once each are as many as there are places taken.
LEMMA FewAreHeld ==
  ASSUME NEW kept \in [Stores -> Nat], \A q \in Stores : kept[q] <= 1
  PROVE  Size(kept) \in Nat /\ Size(kept) <= Cardinality({q \in Stores : Held(kept, q)})
<1> DEFINE At(T) == {q \in T : Held(kept, q)}
           P == {T \in SUBSET Stores : Total(kept, T) <= Cardinality(At(T))}
<1>1. IsFiniteSet(Stores)
  BY StoresArePois, RoadAssumption, FS_Subset
<1>2. Size(kept) = Total(kept, Stores)
  BY DEF Size, Total
<1>3. Total(kept, Stores) \in Nat
  BY <1>1, TotalRemove
<1>4. {} \in P
  <2>1. Total(kept, {}) = 0 /\ At({}) = {} /\ Cardinality({}) = 0
    BY TotalEmpty, FS_EmptySet
  <2>2. Total(kept, {}) <= Cardinality(At({}))
    BY <2>1
  <2> QED BY <2>2
<1>5. ASSUME NEW T \in SUBSET Stores, NEW x \in Stores \ T, T \in P
      PROVE  T \cup {x} \in P
  <2>1. IsFiniteSet(T) /\ IsFiniteSet(At(T)) /\ Cardinality(At(T)) \in Nat
    BY <1>1, FS_Subset, FS_CardinalityType
  <2>2. Total(kept, T \cup {x}) = Total(kept, T) + kept[x]
    BY <2>1, TotalAdd
  <2>3. Total(kept, T) \in Nat /\ Total(kept, T) <= Cardinality(At(T))
    BY <1>5, <2>1, TotalRemove
  <2>4. kept[x] \in {0, 1}
    OBVIOUS
  <2>5. CASE kept[x] = 0
    <3>1. At(T \cup {x}) = At(T)
      BY <2>5 DEF Held
    <3>2. Total(kept, T \cup {x}) <= Cardinality(At(T \cup {x}))
      <4> HIDE DEF At
      <4> QED BY <2>1, <2>2, <2>3, <2>5, <3>1
    <3> QED BY <3>2
  <2>6. CASE kept[x] = 1
    <3>1. At(T \cup {x}) = At(T) \cup {x} /\ x \notin At(T)
      BY <2>6 DEF Held
    <3>2. Total(kept, T \cup {x}) <= Cardinality(At(T \cup {x}))
      <4> HIDE DEF At
      <4>1. Cardinality(At(T) \cup {x}) = Cardinality(At(T)) + 1
        BY <2>1, <3>1, FS_AddElement
      <4> QED BY <2>1, <2>2, <2>3, <2>6, <3>1, <4>1
    <3> QED BY <3>2
  <2> QED BY <2>4, <2>5, <2>6
<1>6. Stores \in P
  <2> HIDE DEF P
  <2> QED BY <1>1, <1>4, <1>5, SetInduction
<1> QED BY <1>2, <1>3, <1>6

\* A store that wins a user is never the worst of more than K, each kept once.
LEMMA WinnerHeld ==
  ASSUME Known, NEW u \in Users, NEW q \in Stores, NEW kept \in [Stores -> Nat],
         \A r \in Stores : kept[r] <= 1, ~Held(kept, q), NEW f \in Pushed(u, kept, q),
         NEW p \in Stores, Held(kept, p) \/ p = q, Wins(u, p)
  PROVE  Held(f, p)
<1> DEFINE all == [kept EXCEPT ![q] = @ + 1]
           held == {r \in Stores : Held(all, r)}
           better == {r \in Pois : Less(score.topk[u], score.gsk[u][r])}
<1>1. all \in [Stores -> Nat] /\ (\A r \in Stores : all[r] <= 1) /\ Held(all, p)
  BY DEF Held
<1>2. p \in Pois /\ Shared(u, p) # {} /\ Less(score.topk[u], score.gsk[u][p])
  BY StoresArePois DEF Wins
<1>3. /\ score.topk[u] \in Fractions /\ \A r \in Pois : score.gsk[u][r] \in Fractions
      /\ Cardinality(better) < K
  BY <1>2, WinnerScores DEF Known
<1> HIDE DEF all
<1>4. CASE f = all
  BY <1>1, <1>4
<1>5. CASE ~(Size(all) <= K)
  <2>1. PICK w \in Stores : /\ Held(all, w)
                            /\ \A r \in Stores : Held(all, r) => ~Less(score.gsk[u][r], score.gsk[u][w])
                            /\ f = [all EXCEPT ![w] = @ - 1]
    BY <1>5 DEF Pushed, all
  <2>2. ASSUME w = p PROVE FALSE
    <3>1. ASSUME NEW r \in held PROVE r \in better
      <4>1. ~Less(score.gsk[u][r], score.gsk[u][p]) /\ r \in Pois
        BY <2>1, <2>2, StoresArePois
      <4> QED BY <1>2, <1>3, <4>1, LessTransitive
    <3>2. held \in SUBSET better /\ IsFiniteSet(better)
      BY <3>1, RoadAssumption, FS_Subset
    <3>3. Size(all) \in Nat /\ Size(all) <= Cardinality(held)
      BY <1>1, FewAreHeld
    <3> HIDE DEF held, better
    <3>4. /\ Cardinality(held) <= Cardinality(better)
          /\ Cardinality(held) \in Nat /\ Cardinality(better) \in Nat
      BY <3>2, FS_Subset, FS_CardinalityType
    <3>5. K \in Nat
      BY RoadAssumption
    <3> QED BY <1>3, <1>5, <3>3, <3>4, <3>5
  <2> QED BY <1>1, <2>1, <2>2 DEF Held
<1> QED BY <1>4, <1>5 DEF Pushed, all

\* Users evaluated for q keep it if it wins them, and what they kept before.
WinnersHold(q, S) ==
  \A u \in Users, p \in Stores :
    Wins(u, p) /\ (Keeps(u, p) \/ (u \in S /\ p = q)) => Keeps(u, p)'

\* The evaluation of users who do not have the store yet loses no winner.
LEMMA ScoreKeeps ==
  ASSUME Once, Known, NEW q \in Stores, NEW S \in SUBSET Users, Score(q, S),
         \A u \in S : ~Held(candidate_usr_related_store[u], q)
  PROVE  WinnersHold(q, S)
<1> DEFINE kept == candidate_usr_related_store
<1>1. PICK T \in Passing(q, S) :
        /\ candidate_User' = candidate_User \cup T
        /\ \A u \in Users : IF u \in T THEN kept'[u] \in Pushed(u, kept[u], q) ELSE kept'[u] = kept[u]
  BY DEF Score
<1> SUFFICES ASSUME NEW u \in Users, NEW p \in Stores, Wins(u, p),
                    Keeps(u, p) \/ (u \in S /\ p = q)
             PROVE  u \in candidate_User' /\ Held(kept'[u], p)
  BY DEF WinnersHold, Keeps
<1>2. T \in SUBSET S
  BY <1>1 DEF Passing
<1>3. (u \in candidate_User /\ Held(kept[u], p)) \/ (u \in T /\ p = q)
  <2>1. CASE Keeps(u, p)
    BY <2>1 DEF Keeps
  <2>2. CASE u \in S /\ p = q
    <3>1. p \in Pois /\ Shared(u, p) # {} /\ Less(score.topk[u], score.gsk[u][p])
      BY StoresArePois DEF Wins
    <3>2. Less(score.lcl[u], score.gsk[u][p])
      BY <3>1, WinnerScores DEF Known
    <3> QED BY <1>1, <2>2, <3>2 DEF Passing
  <2> QED BY <2>1, <2>2
<1>4. CASE u \notin T
  BY <1>1, <1>3, <1>4
<1>5. CASE u \in T
  <2>1. /\ kept[u] \in [Stores -> Nat] /\ \A r \in Stores : kept[u][r] <= 1
        /\ ~Held(kept[u], q) /\ kept'[u] \in Pushed(u, kept[u], q)
    BY <1>1, <1>2, <1>5 DEF Once
  <2>2. Held(kept[u], p) \/ p = q
    BY <1>3
  <2> HIDE DEF kept
  <2>3. Held(kept'[u], p)
    BY <2>1, <2>2, WinnerHeld
  <2> QED BY <1>1, <1>5, <2>3
<1> QED BY <1>4, <1>5

\* Nothing evaluated, nothing lost.
LEMMA NoneEvaluated == ASSUME UNCHANGED candidates, NEW q PROVE WinnersHold(q, {})
BY DEF candidates, WinnersHold, Keeps, Held

\* What is known stays so.
LEMMA KnownStays == ASSUME Known, UNCHANGED <<db, score>> PROVE Known'
BY Unscored, Frame DEF Known

\* A user left to the search is in the lists of his leaf.
LEMMA LateRelated ==
  ASSUME db \in Databases, OneKeyword, NEW u \in Users, NEW p \in Stores, Late(u, p),
         NEW n, isleaf(n), db.uAt[u] \in Under[n]
  PROVE  u \in Related(n, nonRareKeys(p))
<1>1. PICK t \in FrequentTerms : nonRareKeys(p) = {t} /\ Shared(u, p) = {t}
  BY KeyOfLate
<1>2. u \in getUsrTermRelatedEntry(t, n)
  BY <1>1 DEF getUsrTermRelatedEntry, UsersUnder, getTermUserInvList, Shared
<1> QED BY <1>1, <1>2 DEF Related

\* Who is won and does not keep the store is left to the search.
LEMMA UnkeptIsLate ==
  ASSUME Entered, MarkedKeep, NEW u \in Users, NEW p \in Stepped, Wins(u, p), ~Keeps(u, p)
  PROVE  p \in Stores /\ Late(u, p) /\ <<u, p>> \notin upEntryMark
<1>1. p \in Stores /\ <<u, p>> \notin upEntryMark
  BY SteppedAreStores DEF MarkedKeep
<1>2. u \notin EarlyUsers(p)
  BY <1>1 DEF Entered
<1> QED BY <1>1, <1>2 DEF Late

\* So is who is missed.
LEMMA MissedIsLate ==
  ASSUME Entered, MarkedKeep, NEW u \in Users, NEW p \in Stepped, Missed(u, p)
  PROVE  p \in Stores /\ Late(u, p) /\ <<u, p>> \notin upEntryMark /\ Within(u, p)
BY UnkeptIsLate DEF Missed, WinsWithin

\* A border of the node has led on towards u.
GoneOn(u, p, n) ==
  IF isleaf(n) THEN UserQueued(u, p)
  ELSE \E c \in Children[n] : db.uAt[u] \in Under[c] /\ \A d \in Borders[c] : Come(p, c, d)

\* A step of the search loses u if he stays queued, borders over him stay until
\* they are marked, and one marked leads on.
LEMMA FollowedOn ==
  ASSUME UNCHANGED <<db, score>>, NEW u, NEW p, LedFor(u, p), borderMark \subseteq borderMark',
         UserQueued(u, p) => UserEntry(p, u) \in Queue',
         \A n \in GTree : \A b \in Borders[n] :
           db.uAt[u] \in Under[n] /\ Awaited(p, n, b) =>
             BorderEntry(p, n, b, nonRareKeys(p)) \in Queue' \/ <<b, n, p>> \in borderMark',
         \A n \in GTree : \A b \in Borders[n] :
           Way(u, p, n, b) /\ <<b, n, p>> \in borderMark' \ borderMark => GoneOn(u, p, n)'
  PROVE  LedFor(u, p)' /\ (Followed(u, p) => Followed(u, p)')
<1>1. UserQueued(u, p) => UserQueued(u, p)'
  BY Frame DEF UserQueued
<1>2. ASSUME NEW n \in GTree, NEW b \in Borders[n], db.uAt[u] \in Under[n], Come(p, n, b)
      PROVE  Come(p, n, b)'
  BY <1>2, Frame DEF Come, Awaited
<1>3. \A n, b : Way(u, p, n, b)' <=> Way(u, p, n, b)
  BY Frame
<1>4. Followed(u, p) => Followed(u, p)'
  BY <1>1, <1>2, <1>3 DEF Followed, Way
<1>5. ASSUME NEW n \in GTree, NEW b \in Borders[n], Way(u, p, n, b), <<b, n, p>> \in borderMark
      PROVE  GoneOn(u, p, n)'
  <2>1. GoneOn(u, p, n)
    BY <1>5 DEF LedFor, GoneOn
  <2>2. \A c \in Children[n] : c \in GTree
    BY DEF Children
  <2> QED BY <1>1, <1>2, <2>1, <2>2 DEF GoneOn
<1>6. \A n \in GTree : \A b \in Borders[n] :
        Way(u, p, n, b)' /\ <<b, n, p>> \in borderMark' => GoneOn(u, p, n)'
  BY <1>3, <1>5
<1>7. LedFor(u, p)'
  BY <1>6 DEF LedFor, GoneOn
<1> QED BY <1>4, <1>7

\* Leaves dealt with before stay so.
LEMMA LeavesStay ==
  ASSUME LeavesDone, UNCHANGED <<db, score>>, NEW q, NEW S, WinnersHold(q, S),
         \A n \in GTree, p \in Stores :
           isleaf(n) /\ <<n, p>> \in nodepMark' \ nodepMark =>
             \A u \in Users : db.uAt[u] \in Under[n] /\ Wins(u, p) => Keeps(u, p)'
  PROVE  LeavesDone'
<1> SUFFICES ASSUME NEW n \in GTree, NEW p \in Stores, isleaf(n), <<n, p>> \in nodepMark',
                    NEW u \in Users, db.uAt[u] \in Under[n], Wins(u, p)
             PROVE  Keeps(u, p)'
  BY Frame DEF LeavesDone
<1>1. CASE <<n, p>> \in nodepMark
  BY <1>1 DEF LeavesDone, WinnersHold
<1>2. CASE <<n, p>> \notin nodepMark
  BY <1>2
<1> QED BY <1>1, <1>2

\* Whoever is marked has been evaluated.
LEMMA MarkedStay ==
  ASSUME MarkedKeep, UNCHANGED <<db, score>>, NEW q, NEW S, WinnersHold(q, S),
         upEntryMark' \subseteq upEntryMark \cup (S \X {q})
  PROVE  MarkedKeep'
<1> SUFFICES ASSUME NEW u \in Users, NEW p \in Stores, Wins(u, p), <<u, p>> \in upEntryMark'
             PROVE  Keeps(u, p)'
  BY Frame DEF MarkedKeep
<1>1. CASE <<u, p>> \in upEntryMark
  BY <1>1 DEF MarkedKeep, WinnersHold
<1>2. CASE <<u, p>> \in S \X {q}
  BY <1>2 DEF WinnersHold
<1> QED BY <1>1, <1>2

\* What a step of the search has to show.
LEMMA FInvStays ==
  ASSUME FInv, FShape', Queued', LeavesDone', Searching, UNCHANGED search,
         NEW q, NEW S, WinnersHold(q, S), upEntryMark' \subseteq upEntryMark \cup (S \X {q}),
         borderMark \subseteq borderMark',
         \A u \in Users, p \in Stepped :
           Missed(u, p) /\ Missed(u, p)' =>
             /\ UserQueued(u, p) => UserEntry(p, u) \in Queue'
             /\ \A n \in GTree : \A b \in Borders[n] :
                  db.uAt[u] \in Under[n] /\ Awaited(p, n, b) =>
                    BorderEntry(p, n, b, nonRareKeys(p)) \in Queue' \/ <<b, n, p>> \in borderMark'
             /\ \A n \in GTree : \A b \in Borders[n] :
                  Way(u, p, n, b) /\ <<b, n, p>> \in borderMark' \ borderMark => GoneOn(u, p, n)'
  PROVE  FInv'
<1>1. UNCHANGED <<db, score, poi_th, T_max, pc>> /\ Stepped' = Stepped
  BY DEF search, Stepped
<1>2. Known' /\ OneKeyword'
  BY <1>1, KnownStays, Frame DEF FInv
<1>3. Stepped \in SUBSET Stores
  BY SteppedAreStores DEF FInv, FShape
<1>4. \A u \in Users, p \in Stepped : Missed(u, p)' => Missed(u, p)
  BY <1>1, <1>3, Frame DEF Missed, WinsWithin, WinnersHold
<1>5. MarkedKeep'
  BY <1>1, MarkedStay DEF FInv
<1>6. Searched'
  <2> SUFFICES ASSUME NEW u \in Users, NEW p \in Stepped, Missed(u, p)'
               PROVE  (Followed(u, p)' \/ Outside(u, p)') /\ LedFor(u, p)'
    BY <1>1 DEF Searched
  <2>1. Missed(u, p) /\ (Followed(u, p) \/ Outside(u, p)) /\ LedFor(u, p)
    BY <1>4 DEF FInv, Searched
  <2>2. LedFor(u, p)' /\ (Followed(u, p) => Followed(u, p)')
    BY <1>1, <2>1, FollowedOn
  <2>3. Outside(u, p) => Outside(u, p)'
    BY <1>1 DEF Outside
  <2> QED BY <2>1, <2>2, <2>3
<1>7. FPhases'
  BY <1>1 DEF FPhases, Searching
<1> QED BY <1>2, <1>5, <1>6, <1>7 DEF FInv

\* At first nobody is marked, queued or left outside.
LEMMA FInvAtFirst == FastInit /\ OneKeyword => FInv
<1> SUFFICES ASSUME FastInit, OneKeyword PROVE FInv
  OBVIOUS
<1>1. /\ Prepared /\ poi_th = 0 /\ pc = "filter"
      /\ upEntryMark = {} /\ borderMark = {} /\ nodepMark = {} /\ Queue = {}
  BY DEF FastInit, FastStart
<1>2. Stepped = {}
  BY <1>1 DEF Stepped
<1>3. Known
  BY <1>1 DEF Prepared, ScoresOfDb, Known, Scored, Bounded
<1>4. Queued /\ MarkedKeep /\ LeavesDone /\ Searched /\ FPhases
  BY <1>1, <1>2 DEF Queued, MarkedKeep, LeavesDone, Searched, FPhases
<1> QED BY <1>3, <1>4, FShapeAtFirst DEF FInv

\* The first step of a store misses nobody who is not queued or left outside.
LEMMA FInvFirstStep == ASSUME OneTree, FInv, FastFirstStep PROVE FInv'
<1>0. PICK p0 : p0 = stores[poi_th + 1]
  OBVIOUS
<1> DEFINE early == EarlyUsers(p0)
<1>1. /\ pc = "filter" /\ UNCHANGED <<db, score, borderMark, nodepMark, pc>>
      /\ Opens(p0) /\ Score(p0, early)
  BY <1>0 DEF FastFirstStep, EarlyUsers, Before, Mark, Opens
<1>2. /\ FShape' /\ \A u \in early : ~Held(candidate_usr_related_store[u], p0)
  BY <1>0, FShapeFirstStep DEF FInv
<1>3. /\ p0 \in Stores /\ p0 \notin Stepped /\ Stepped' = Stepped \cup {p0} /\ poi_th # Len(stores)
      /\ \A e \in Queue' : e \in Queue \/ \E u \in Users : e = UserEntry(p0, u)
      /\ \A u \in Users : Late(u, p0) => \/ UserEntry(p0, u) \in Queue'
                                         \/ p0 \in DOMAIN T_max' /\ db.uAt[u] \notin Under[T_max'[p0]]
  BY <1>1, Opened DEF FInv, FShape
<1>4. /\ upEntryMark' = upEntryMark \cup (early \X {p0}) /\ Queue \subseteq Queue'
      /\ T_max' = [q \in DOMAIN T_max \cup {p0} |-> IF q = p0 THEN LeafOf[db.pAt[p0]] ELSE T_max[q]]
  BY <1>1 DEF Opens
<1>5. WinnersHold(p0, early)
  <2>1. early \in SUBSET Users
    BY DEF EarlyUsers, SocialUsers, UsersWith, getTermUserInvList
  <2> HIDE DEF early
  <2> QED BY <1>1, <1>2, <1>3, <2>1, ScoreKeeps DEF FInv, FShape
<1>6. Stepped \in SUBSET Stores /\ borderMark = {}
  BY <1>3, SteppedAreStores DEF FInv, FShape, FPhases
<1>7. Known' /\ OneKeyword' /\ LeavesDone'
  <2>1. Known' /\ OneKeyword'
    BY <1>1, KnownStays, Frame DEF FInv
  <2> HIDE DEF early
  <2>2. LeavesDone'
    BY <1>1, <1>5, LeavesStay DEF FInv
  <2> QED BY <2>1, <2>2
<1>8. Queued'
  <2> SUFFICES ASSUME NEW e \in Queue'
               PROVE  e.p \in Stepped' /\ e.isUser /\ e.id \in Users /\ e = UserEntry(e.p, e.id)'
    BY DEF Queued
  <2>1. CASE e \in Queue
    BY <1>1, <1>3, <2>1, Frame DEF FInv, Queued
  <2>2. CASE e \notin Queue
    <3>1. PICK u \in Users : e = UserEntry(p0, u)
      BY <1>3, <2>2
    <3>2. e.p = p0 /\ e.id = u /\ e.isUser
      BY <3>1 DEF UserEntry
    <3> QED BY <1>1, <1>3, <3>1, <3>2, Frame
  <2> QED BY <2>1, <2>2
<1>9. MarkedKeep'
  <2> HIDE DEF early
  <2> QED BY <1>1, <1>4, <1>5, MarkedStay DEF FInv
<1>10. ASSUME NEW u \in Users, NEW p \in Stepped', Missed(u, p)'
       PROVE  (Followed(u, p)' \/ Outside(u, p)') /\ LedFor(u, p)'
  <2>1. p \in Stores /\ Missed(u, p) /\ (p \in Stepped \/ p = p0)
    BY <1>1, <1>3, <1>5, <1>6, <1>10, Frame DEF Missed, WinsWithin, WinnersHold
  <2>2. LedFor(u, p)'
    BY <1>1, <1>6 DEF LedFor
  <2>3. CASE p \in Stepped
    <3>1. (Followed(u, p) \/ Outside(u, p)) /\ LedFor(u, p)
      BY <2>1, <2>3 DEF FInv, Searched
    <3>2. UserQueued(u, p) => UserEntry(p, u) \in Queue'
      BY <1>4 DEF UserQueued
    <3>3. \A n, b : Awaited(p, n, b) => BorderEntry(p, n, b, nonRareKeys(p)) \in Queue'
      BY <1>4 DEF Awaited
    <3>4. Followed(u, p) => Followed(u, p)'
      BY <1>1, <1>6, <3>1, <3>2, <3>3, FollowedOn
    <3>5. Outside(u, p) => Outside(u, p)'
      BY <1>1, <1>3, <1>4, <2>3 DEF Outside
    <3> QED BY <2>2, <3>1, <3>4, <3>5
  <2>4. CASE p = p0
    <3>1. u \notin early
      BY <1>1, <1>5, <1>10, <2>1, <2>4, Frame DEF Missed, WinsWithin, WinnersHold
    <3>2. Late(u, p0)
      BY <2>1, <2>4, <3>1 DEF Late, Missed, WinsWithin
    <3> QED BY <1>1, <1>3, <2>2, <2>4, <3>2, Frame DEF Followed, UserQueued, Outside
  <2> QED BY <2>1, <2>3, <2>4
<1>11. Searched' /\ FPhases'
  BY <1>1, <1>6, <1>10 DEF Searched, FPhases
<1> QED BY <1>2, <1>7, <1>8, <1>9, <1>11 DEF FInv

\* A user popped is kept, if he is won.
LEMMA FInvPopUser == ASSUME OneTree, FInv, NEW e \in Queue, FastPopUser(e) PROVE FInv'
<1> DEFINE S == {e.id} \cap Unmarked(e.p)
<1>1. /\ Searching /\ UNCHANGED search /\ UNCHANGED <<borderMark, nodepMark>> /\ e.isUser
      /\ Queue' = Queue \ {e}
      /\ upEntryMark' = upEntryMark \cup (S \X {e.p}) /\ Score(e.p, S)
  BY DEF FastPopUser, Mark
<1>2. FShape' /\ \A u \in S : ~Held(candidate_usr_related_store[u], e.p)
  BY FShapePopUser DEF FInv
<1>3. UNCHANGED <<db, score>> /\ e.p \in Stores /\ S \in SUBSET Users
  BY <1>1, SteppedAreStores DEF FInv, FShape, Apart, Unmarked, search
<1>4. WinnersHold(e.p, S)
  <2> HIDE DEF S
  <2> QED BY <1>1, <1>2, <1>3, ScoreKeeps DEF FInv, FShape
<1>5. Queued'
  BY <1>1, QueuedStill DEF FInv
<1>6. LeavesDone'
  <2> HIDE DEF S
  <2> QED BY <1>1, <1>3, <1>4, LeavesStay DEF FInv
<1>7. ASSUME NEW u \in Users, NEW p \in Stepped, Missed(u, p), Missed(u, p)', UserQueued(u, p)
      PROVE  UserEntry(p, u) \in Queue'
  <2> SUFFICES ASSUME UserEntry(p, u) = e
               PROVE  FALSE
    BY <1>1, <1>7 DEF UserQueued
  <2>1. e.p = p /\ e.id = u
    BY DEF UserEntry
  <2>2. u \in S
    BY <1>3, <1>7, <2>1, MissedIsLate DEF FInv, FShape, Unmarked
  <2> QED BY <1>3, <1>4, <1>7, <2>1, <2>2, Frame DEF Missed, WinsWithin, WinnersHold
<1>8. \A p, n, b : Awaited(p, n, b) => BorderEntry(p, n, b, nonRareKeys(p)) \in Queue'
  BY <1>1 DEF Awaited, BorderEntry
<1> HIDE DEF S
<1> QED BY <1>1, <1>2, <1>4, <1>5, <1>6, <1>7, <1>8, FInvStays

\* Nobody waits for a border that has been evaluated.
LEMMA FInvPopSeen == ASSUME OneTree, FInv, NEW e \in Queue, FastPopSeenBorder(e) PROVE FInv'
<1>1. /\ Searching /\ UNCHANGED search /\ UNCHANGED <<marks, candidates, nodepMark>> /\ ~e.isUser
      /\ Queue' = Queue \ {e} /\ BorderKey(e) \in borderMark
  BY DEF FastPopSeenBorder, PopSeenBorder
<1>2. FShape' /\ Queued' /\ WinnersHold(e.p, {})
  BY <1>1, FShapePopInner, QueuedStill, NoneEvaluated DEF FInv
<1>3. UNCHANGED <<db, score, upEntryMark, borderMark>>
  BY <1>1 DEF search, marks
<1>4. LeavesDone'
  BY <1>1, <1>2, <1>3, LeavesStay DEF FInv
<1>5. \A u, p : UserQueued(u, p) => UserEntry(p, u) \in Queue'
  BY <1>1 DEF UserQueued, UserEntry
<1>6. ASSUME NEW p, NEW n, NEW b, Awaited(p, n, b)
      PROVE  BorderEntry(p, n, b, nonRareKeys(p)) \in Queue' \/ <<b, n, p>> \in borderMark'
  BY <1>1, <1>3, <1>6 DEF Awaited, BorderEntry, BorderKey
<1> QED BY <1>1, <1>2, <1>3, <1>4, <1>5, <1>6, FInvStays

\* A border entry, of a node that the store is not under.
LEMMA BorderQueued ==
  ASSUME Queued, Entered, NEW e \in Queue, ~e.isUser
  PROVE  /\ e.p \in Stepped /\ e.p \in Stores
         /\ e.node \in GTree /\ e.id \in Borders[e.node] /\ e.id \in Vertices
         /\ nonRareKeys(e.p) # {} /\ e.keys = nonRareKeys(e.p) /\ e.dist = PoiDist(e.id, e.p)
         /\ BorderKey(e) = <<e.id, e.node, e.p>>
         /\ e = BorderEntry(e.p, e.node, e.id, nonRareKeys(e.p))
<1>1. /\ e.p \in Stepped /\ e.node \in GTree /\ e.id \in Borders[e.node] /\ nonRareKeys(e.p) # {}
      /\ e = BorderEntry(e.p, e.node, e.id, nonRareKeys(e.p))
  BY DEF Queued
<1>2. e.p \in Stores /\ e.id \in Vertices
  BY <1>1, SteppedAreStores DEF Borders, Under
<1>3. \A p, n, b : LET f == BorderEntry(p, n, b, nonRareKeys(p))
                   IN  f.keys = nonRareKeys(p) /\ f.dist = PoiDist(b, p)
  BY DEF BorderEntry
<1> QED BY <1>1, <1>2, <1>3 DEF BorderKey

\* What a border popped leaves in the queue.
LEMMA OthersWait ==
  ASSUME NEW e \in Queue, ~e.isUser, Queue \ {e} \subseteq Queue',
         <<e.id, e.node, e.p>> \in borderMark'
  PROVE  /\ \A u, p : UserQueued(u, p) => UserEntry(p, u) \in Queue'
         /\ \A p, n, b : Awaited(p, n, b) =>
              BorderEntry(p, n, b, nonRareKeys(p)) \in Queue' \/ <<b, n, p>> \in borderMark'
<1>1. \A u, p : UserQueued(u, p) => UserEntry(p, u) \in Queue'
  BY DEF UserQueued, UserEntry
<1>2. ASSUME NEW p, NEW n, NEW b, Awaited(p, n, b)
      PROVE  BorderEntry(p, n, b, nonRareKeys(p)) \in Queue' \/ <<b, n, p>> \in borderMark'
  <2> SUFFICES ASSUME BorderEntry(p, n, b, nonRareKeys(p)) = e
               PROVE  <<b, n, p>> \in borderMark'
    BY <1>2 DEF Awaited
  <2>1. e.id = b /\ e.node = n /\ e.p = p
    BY DEF BorderEntry
  <2> QED BY <2>1
<1> QED BY <1>1, <1>2

\* A leaf dealt with for a store has nobody left whom the store wins.
LEMMA FInvPopLeaf == ASSUME OneTree, FInv, NEW e \in Queue, PopLeaf(e) PROVE FInv'
<1> DEFINE S == LeafUsers(e)
           p0 == e.p
           n0 == e.node
<1>1. /\ Searching /\ UNCHANGED search /\ UNCHANGED upEntryMark /\ ~e.isUser /\ isleaf(n0)
      /\ Queue' = Queue \ {e} /\ borderMark' = borderMark \cup {BorderKey(e)}
      /\ nodepMark' = nodepMark \cup {<<n0, p0>>} /\ Score(p0, S)
  BY DEF PopLeaf, NewBorder
<1>2. /\ p0 \in Stepped /\ p0 \in Stores /\ n0 \in GTree
      /\ BorderKey(e) = <<e.id, n0, p0>> /\ e.keys = nonRareKeys(p0)
  BY <1>1, BorderQueued DEF FInv, FShape
<1>3. /\ FShape' /\ S \in SUBSET Users /\ \A u \in S : ~Held(candidate_usr_related_store[u], p0)
  BY FShapePopLeaf DEF FInv
<1>4. WinnersHold(p0, S) /\ UNCHANGED <<db, score>> /\ Queued'
  <2>1. Queued'
    BY <1>1, QueuedStill DEF FInv
  <2>2. UNCHANGED <<db, score>>
    BY <1>1 DEF search
  <2> HIDE DEF S, p0
  <2> QED BY <1>1, <1>2, <1>3, <2>1, <2>2, ScoreKeeps DEF FInv, FShape
<1>5. ASSUME NEW u \in Users, db.uAt[u] \in Under[n0], Wins(u, p0)
      PROVE  Keeps(u, p0)'
  <2>1. CASE Keeps(u, p0)
    BY <1>2, <1>4, <1>5, <2>1 DEF WinnersHold
  <2>2. CASE ~Keeps(u, p0)
    <3>1. Late(u, p0) /\ <<u, p0>> \notin upEntryMark
      BY <1>2, <1>5, <2>2, UnkeptIsLate DEF FInv, FShape
    <3>2. u \in Related(n0, nonRareKeys(p0))
      <4> HIDE DEF n0, p0
      <4> QED BY <1>1, <1>2, <1>5, <3>1, LateRelated DEF FInv, Known
    <3>3. <<n0, p0>> \notin nodepMark
      BY <1>1, <1>2, <1>5, <2>2 DEF FInv, LeavesDone
    <3>4. u \in S
      BY <1>2, <3>1, <3>2, <3>3 DEF LeafUsers, Related, Unmarked
    <3> QED BY <1>2, <1>4, <1>5, <3>4 DEF WinnersHold
  <2> QED BY <2>1, <2>2
<1>6. LeavesDone'
  <2>1. ASSUME NEW n \in GTree, NEW p \in Stores, isleaf(n), <<n, p>> \in nodepMark' \ nodepMark,
               NEW u \in Users, db.uAt[u] \in Under[n], Wins(u, p)
        PROVE  Keeps(u, p)'
    BY <1>1, <1>5, <2>1
  <2> HIDE DEF S, p0
  <2> QED BY <1>4, <2>1, LeavesStay DEF FInv
<1>7. ASSUME NEW u \in Users, NEW p \in Stepped, Missed(u, p)', NEW n \in GTree, NEW b \in Borders[n],
             Way(u, p, n, b), <<b, n, p>> \in borderMark' \ borderMark
      PROVE  FALSE
  <2>1. n = n0 /\ p = p0
    BY <1>1, <1>2, <1>7
  <2> QED BY <1>4, <1>5, <1>7, <2>1, Frame DEF Way, Missed, WinsWithin
<1>8. /\ Queue \ {e} \subseteq Queue' /\ <<e.id, n0, p0>> \in borderMark'
      /\ borderMark \subseteq borderMark'
  BY <1>1, <1>2
<1>9. /\ \A u, p : UserQueued(u, p) => UserEntry(p, u) \in Queue'
      /\ \A p, n, b : Awaited(p, n, b) =>
           BorderEntry(p, n, b, nonRareKeys(p)) \in Queue' \/ <<b, n, p>> \in borderMark'
  BY <1>1, <1>8, OthersWait
<1> HIDE DEF S, p0, n0
<1> QED BY <1>1, <1>3, <1>4, <1>6, <1>7, <1>8, <1>9, FInvStays

\* The few users of a node are all evaluated.
LEMMA FInvPopSparse ==
  ASSUME ShortestPaths, OneTree, FInv, NEW e \in Queue, PopSparse(e)
  PROVE  FInv'
<1> DEFINE p0 == e.p
           n0 == e.node
           S == OccursUnder(p0, n0) \cap Unmarked(p0)
<1>1. /\ Searching /\ UNCHANGED search /\ ~e.isUser /\ ~isleaf(n0)
      /\ Queue' = Queue \ {e} /\ borderMark' = borderMark \cup {BorderKey(e)}
      /\ nodepMark' = nodepMark \cup {<<n0, p0>>}
      /\ upEntryMark' = upEntryMark \cup (S \X {p0}) /\ Score(p0, S)
  BY DEF PopSparse, NewBorder, Mark
<1>2. /\ p0 \in Stepped /\ p0 \in Stores /\ n0 \in GTree /\ BorderKey(e) = <<e.id, n0, p0>>
      /\ S \in SUBSET Users
  BY <1>1, BorderQueued DEF FInv, FShape, Unmarked
<1>3. FShape' /\ \A u \in S : ~Held(candidate_usr_related_store[u], p0)
  BY FShapePopSparse DEF FInv
<1>4. WinnersHold(p0, S) /\ UNCHANGED <<db, score>> /\ Queued'
  <2>1. Queued'
    BY <1>1, QueuedStill DEF FInv
  <2>2. UNCHANGED <<db, score>>
    BY <1>1 DEF search
  <2> HIDE DEF S, p0
  <2> QED BY <1>1, <1>2, <1>3, <2>1, <2>2, ScoreKeeps DEF FInv, FShape
<1>5. LeavesDone'
  <2>1. \A n, p : <<n, p>> \in nodepMark' \ nodepMark => ~isleaf(n)
    BY <1>1
  <2> HIDE DEF S, p0
  <2> QED BY <1>4, <2>1, LeavesStay DEF FInv
<1>6. ASSUME NEW u \in Users, NEW p \in Stepped, Missed(u, p), Missed(u, p)',
             NEW n \in GTree, NEW b \in Borders[n],
             Way(u, p, n, b), <<b, n, p>> \in borderMark' \ borderMark
      PROVE  FALSE
  <2>1. n = n0 /\ p = p0
    BY <1>1, <1>2, <1>6
  <2>2. Late(u, p) /\ <<u, p>> \notin upEntryMark /\ u \in occurring[p]
    BY <1>6, MissedIsLate, LateOccurs DEF FInv, FShape
  <2>3. u \in S
    BY <1>6, <2>1, <2>2 DEF OccursUnder, Unmarked, Way
  <2> QED BY <1>2, <1>4, <1>6, <2>1, <2>3, Frame DEF Missed, WinsWithin, WinnersHold
<1>7. /\ Queue \ {e} \subseteq Queue' /\ <<e.id, n0, p0>> \in borderMark'
      /\ borderMark \subseteq borderMark' /\ upEntryMark' \subseteq upEntryMark \cup (S \X {p0})
  BY <1>1, <1>2
<1>8. /\ \A u, p : UserQueued(u, p) => UserEntry(p, u) \in Queue'
      /\ \A p, n, b : Awaited(p, n, b) =>
           BorderEntry(p, n, b, nonRareKeys(p)) \in Queue' \/ <<b, n, p>> \in borderMark'
  BY <1>1, <1>7, OthersWait
<1> HIDE DEF S, p0, n0
<1> QED BY <1>1, <1>3, <1>4, <1>5, <1>6, <1>7, <1>8, FInvStays

\* A border leads to the child over everybody it is on the way to.
LEMMA FInvPopInner ==
  ASSUME ShortestPaths, OneTree, FInv, NEW e \in Queue, PopInner(e)
  PROVE  FInv'
<1> DEFINE p0 == e.p
           n0 == e.node
           b0 == e.id
           keys == getBorder_SB_BatchNVD_Cluster(e)
<1>1. /\ Searching /\ UNCHANGED search /\ UNCHANGED <<upEntryMark, nodepMark, candidates>>
      /\ ~e.isUser /\ ~isleaf(n0) /\ Queue' = (Queue \ {e}) \cup Beyond(e, keys)
      /\ borderMark' = borderMark \cup {BorderKey(e)}
  BY DEF PopInner, NewBorder
<1>2. /\ p0 \in Stepped /\ p0 \in Stores /\ n0 \in GTree /\ b0 \in Vertices
      /\ nonRareKeys(p0) # {} /\ BorderKey(e) = <<b0, n0, p0>>
      /\ e.keys = nonRareKeys(p0) /\ e.dist = PoiDist(b0, p0)
      /\ poi_th = Len(stores)
  BY <1>1, BorderQueued DEF FInv, FShape, Searching
<1>3. keys = KeysLeft(p0, n0, b0)
  BY <1>2 DEF getBorder_SB_BatchNVD_Cluster, KeysLeft
<1>4. FShape' /\ WinnersHold(p0, {}) /\ UNCHANGED <<db, score>>
  BY <1>1, FShapePopInner, NoneEvaluated DEF FInv, search
<1> HIDE DEF p0, n0, b0, keys
<1>5. keys \in {{}, nonRareKeys(p0)}
  BY <1>2, <1>3, KeysLeftAre DEF FInv
<1>6. Queued'
  <2>1. ASSUME NEW f \in Beyond(e, keys)
        PROVE  /\ f.p \in Stepped
               /\ \/ f.isUser /\ f.id \in Users /\ f = UserEntry(f.p, f.id)
                  \/ /\ ~f.isUser /\ poi_th = Len(stores) /\ nonRareKeys(f.p) # {}
                     /\ f.node \in GTree /\ f.id \in Borders[f.node]
                     /\ f = BorderEntry(f.p, f.node, f.id, nonRareKeys(f.p))
    <3>1. f.p = p0 /\ keys = nonRareKeys(p0)
      BY <1>2, <1>5, BeyondIs DEF p0, n0
    <3>2. \/ f.isUser /\ f.id \in Users /\ f = UserEntry(p0, f.id)
          \/ ~f.isUser /\ f.node \in GTree /\ f.id \in Borders[f.node]
             /\ f = BorderEntry(p0, f.node, f.id, keys)
      BY <1>2, BeyondIs DEF p0, n0
    <3> QED BY <1>2, <3>1, <3>2
  <2> QED BY <1>1, <2>1, QueuedStill DEF FInv
<1>7. LeavesDone'
  BY <1>1, <1>4, LeavesStay DEF FInv
<1>8. ASSUME NEW u \in Users, Missed(u, p0), Way(u, p0, n0, b0)
      PROVE  GoneOn(u, p0, n0)'
  <2>1. Late(u, p0) /\ u \in occurring[p0]
    BY <1>2, <1>8, MissedIsLate, LateOccurs DEF FInv, FShape
  <2>2. /\ keys = nonRareKeys(p0)
        /\ \E c \in Children[n0] :
             c \in GTree /\ db.uAt[u] \in Under[c] /\ c \in Related(n0, nonRareKeys(p0))
    BY <1>1, <1>2, <1>3, <1>8, <2>1, LeadsOn DEF FInv
  <2>3. PICK c \in Children[n0] : db.uAt[u] \in Under[c] /\ c \in Related(n0, keys)
    BY <2>2
  <2>4. ASSUME NEW d \in Borders[c]
        PROVE  Come(p0, c, d)'
    <3> DEFINE f == BorderEntry(p0, c, d, keys)
    <3>1. f = BorderEntry(p0, c, d, nonRareKeys(p0))'
      BY <1>4, <2>2, Frame
    <3>2. BorderKey(f) = <<d, c, p0>>
      BY DEF BorderEntry, BorderKey
    <3>3. CASE BorderKey(f) \in borderMark
      BY <1>1, <3>2, <3>3 DEF Come
    <3>4. CASE BorderKey(f) \notin borderMark
      <4>1. f \in Beyond(e, keys)
        BY <1>1, <2>3, <3>4 DEF Beyond, Related, p0, n0
      <4> HIDE DEF f
      <4> QED BY <1>1, <3>1, <4>1 DEF Come, Awaited
    <3> QED BY <3>3, <3>4
  <2> QED BY <1>1, <1>4, <2>3, <2>4 DEF GoneOn
<1>9. ASSUME NEW u \in Users, NEW p \in Stepped, Missed(u, p), NEW n \in GTree, NEW b \in Borders[n],
             Way(u, p, n, b), <<b, n, p>> \in borderMark' \ borderMark
      PROVE  GoneOn(u, p, n)'
  <2>1. n = n0 /\ p = p0 /\ b = b0
    BY <1>1, <1>2, <1>9
  <2> QED BY <1>8, <1>9, <2>1
<1>10. /\ \A u, p : UserQueued(u, p) => UserEntry(p, u) \in Queue'
       /\ \A p, n, b : Awaited(p, n, b) =>
            BorderEntry(p, n, b, nonRareKeys(p)) \in Queue' \/ <<b, n, p>> \in borderMark'
  <2>1. Queue \ {e} \subseteq Queue' /\ <<e.id, e.node, e.p>> \in borderMark'
    BY <1>1, <1>2 DEF p0, n0, b0
  <2> QED BY <1>1, <2>1, OthersWait
<1>11. borderMark \subseteq borderMark' /\ upEntryMark' \subseteq upEntryMark \cup ({} \X {p0})
  BY <1>1
<1> QED BY <1>1, <1>4, <1>6, <1>7, <1>9, <1>10, <1>11, FInvStays

\* When the queue is empty nobody is followed.
LEMMA NobodyFollowed ==
  ASSUME ShortestPaths, OneTree, db \in Databases, Queue = {}, NEW u \in Users, NEW p \in Stores,
         LedFor(u, p)
  PROVE  /\ ~Followed(u, p)
         /\ \A n \in GTree : \A b \in Borders[n] : ~(Way(u, p, n, b) /\ Come(p, n, b))
<1>1. ~UserQueued(u, p) /\ \A n, b : ~Awaited(p, n, b)
  BY DEF UserQueued, Awaited
<1>2. \A n \in GTree : \A b \in Borders[n] : ~(Way(u, p, n, b) /\ Come(p, n, b))
  BY <1>1, Descent
<1> QED BY <1>1, <1>2 DEF Followed

\* Climbing loses nobody, and the search ends when nobody is missed.
LEMMA FInvExtend == ASSUME ShortestPaths, OneTree, FInv, FastExtend PROVE FInv'
<1>1. /\ Searching /\ Queue = {} /\ Widens
      /\ pc' = IF Queue' = {} THEN "done" ELSE pc
      /\ UNCHANGED <<db, score, poi_th, occurring, upEntryMark, borderMark, nodepMark, candidates>>
  BY DEF FastExtend, Widens, marks
<1>2. /\ FShape' /\ Known' /\ OneKeyword' /\ Stepped' = Stepped /\ Stepped \in SUBSET Stores
      /\ DOMAIN T_max \subseteq Stepped /\ InRange
  BY <1>1, FShapeExtend, KnownStays, SteppedAreStores, Frame DEF FInv, FShape, Entered, Stepped
<1>3. \A q : WinnersHold(q, {})
  BY <1>1, NoneEvaluated
<1>4. MarkedKeep' /\ LeavesDone'
  BY <1>1, <1>3, MarkedStay, LeavesStay DEF FInv
<1>5. Queued'
  BY <1>1, <1>2, WidenedQueue DEF Searching, FInv, Known
<1>6. \A u \in Users, p \in Stepped : Missed(u, p)' => Missed(u, p)
  BY <1>1, <1>2, <1>3, Frame DEF Missed, WinsWithin, WinnersHold
<1>7. ASSUME NEW u \in Users, NEW p \in Stepped, Missed(u, p)
      PROVE  Queue' # {} /\ (Followed(u, p)' \/ Outside(u, p)') /\ LedFor(u, p)'
  <2>1. LedFor(u, p) /\ Outside(u, p) /\ p \in Stores /\ Late(u, p) /\ Within(u, p)
    BY <1>1, <1>7, NobodyFollowed, MissedIsLate DEF FInv, FShape, Searched
  <2>2. /\ Queue' # {}
        /\ \/ \E n \in GTree : \E b \in Borders[n] :
                Way(u, p, n, b) /\ BorderEntry(p, n, b, nonRareKeys(p)) \in Queue'
           \/ p \in DOMAIN T_max' /\ db.uAt[u] \notin Under[T_max'[p]]
    BY <1>1, <1>2, <2>1, ReachedNext DEF FInv
  <2>3. Followed(u, p)' \/ Outside(u, p)'
    BY <1>1, <2>2, Frame DEF Followed, Come, Awaited, Outside
  <2>4. \A n \in GTree : \A b \in Borders[n] : ~(Way(u, p, n, b) /\ <<b, n, p>> \in borderMark)
    BY <1>1, <2>1, NobodyFollowed DEF Come, FInv, FShape
  <2>5. LedFor(u, p)'
    BY <1>1, <2>4, Frame DEF LedFor
  <2> QED BY <2>2, <2>3, <2>5
<1>8. Searched'
  BY <1>2, <1>6, <1>7 DEF Searched
<1>9. FPhases'
  BY <1>1, <1>2, <1>6, <1>7 DEF FPhases, Searching
<1> QED BY <1>2, <1>4, <1>5, <1>8, <1>9 DEF FInv

\* When no store climbs on nobody is outside.
LEMMA FInvSearchEnds ==
  ASSUME ShortestPaths, OneTree, FInv, FastSearchEnds \/ UNCHANGED fastVars
  PROVE  FInv'
<1>1. /\ UNCHANGED <<db, score, poi_th, occurring, upEntryMark, borderMark, nodepMark, candidates,
                     Queue, T_max>>
      /\ pc' # pc => Searching /\ Queue = {} /\ DOMAIN T_max = {}
  BY DEF FastSearchEnds, marks, fastVars, vars
<1>2. /\ FShape' /\ Known' /\ OneKeyword' /\ Stepped' = Stepped /\ Stepped \in SUBSET Stores
  BY <1>1, FShapeKept, KnownStays, SteppedAreStores, Frame DEF FInv, FShape, Stepped, FastNext
<1>3. \A q : WinnersHold(q, {})
  BY <1>1, NoneEvaluated
<1>4. MarkedKeep' /\ LeavesDone'
  BY <1>1, <1>3, MarkedStay, LeavesStay DEF FInv
<1>5. Queued'
  BY <1>1, <1>2, Frame DEF FInv, Queued
<1>6. \A u \in Users, p \in Stepped : Missed(u, p)' => Missed(u, p)
  BY <1>1, <1>2, <1>3, Frame DEF Missed, WinsWithin, WinnersHold
<1>7. Searched'
  <2> SUFFICES ASSUME NEW u \in Users, NEW p \in Stepped, Missed(u, p)
               PROVE  (Followed(u, p)' \/ Outside(u, p)') /\ LedFor(u, p)'
    BY <1>2, <1>6 DEF Searched
  <2>1. (Followed(u, p) \/ Outside(u, p)) /\ LedFor(u, p)
    BY DEF FInv, Searched
  <2>2. UserQueued(u, p) => UserEntry(p, u) \in Queue'
    BY <1>1 DEF UserQueued
  <2>3. \A n, b : Awaited(p, n, b) => BorderEntry(p, n, b, nonRareKeys(p)) \in Queue'
    BY <1>1 DEF Awaited
  <2>4. LedFor(u, p)' /\ (Followed(u, p) => Followed(u, p)')
    BY <1>1, <2>1, <2>2, <2>3, FollowedOn
  <2>5. Outside(u, p) => Outside(u, p)'
    BY <1>1 DEF Outside
  <2> QED BY <2>1, <2>4, <2>5
<1>8. FPhases'
  <2>1. ASSUME pc' # pc, NEW u \in Users, NEW p \in Stepped
        PROVE  ~Missed(u, p)
    BY <1>1, <1>2, <2>1, NobodyFollowed DEF FInv, FShape, Searched, Outside
  <2> QED BY <1>1, <1>2, <1>6, <2>1 DEF FInv, FPhases, Searching
<1> QED BY <1>2, <1>4, <1>5, <1>7, <1>8 DEF FInv

\* No step of the filter loses anybody.
LEMMA FInvKept == ASSUME ShortestPaths, OneTree, FInv, [FastNext]_fastVars PROVE FInv'
<1>1. CASE FastFirstStep
  BY <1>1, FInvFirstStep
<1>2. ASSUME NEW e \in Queue, FastPopUser(e) \/ FastPopSeenBorder(e) \/ PopLeaf(e) \/ PopSparse(e) \/ PopInner(e)
      PROVE  FInv'
  BY <1>2, FInvPopUser, FInvPopSeen, FInvPopLeaf, FInvPopSparse, FInvPopInner
<1>3. CASE FastExtend \/ FastSearchEnds \/ UNCHANGED fastVars
  BY <1>3, FInvExtend, FInvSearchEnds
<1> QED BY <1>1, <1>2, <1>3 DEF FastNext

\* A leaf dealt with for a store has nobody left whom the store wins and who does
\* not keep it, whichever border came first (query_plus.h:5886).
THEOREM LeavesAreDone ==
  ASSUME ShortestPaths, OneTree
  PROVE  FastSpec /\ OneKeyword => []LeavesDone
<1>1. FInv /\ [FastNext]_fastVars => FInv'
  BY FInvKept
<1>2. FInv => LeavesDone
  BY DEF FInv
<1> QED BY <1>1, <1>2, FInvAtFirst, PTL DEF FastSpec

\* When the filter is over nobody is missed.
LEMMA FilterComplete == FInv => CandidatesComplete
<1> SUFFICES ASSUME FInv, pc = "done"
             PROVE  \A u \in Users, p \in Stores : WinsWithin(u, p) => Keeps(u, p)
  BY DEF CandidatesComplete
<1>1. Stepped = Stores /\ \A u \in Users, p \in Stepped : ~Missed(u, p)
  BY AllStepped DEF FInv, FPhases
<1> QED BY <1>1 DEF Missed

\* The candidates given to the heuristic lack no user that a store wins within
\* their leaves, nor the store (query_plus.h:5403-6059).
THEOREM CandidatesAreComplete ==
  ASSUME ShortestPaths, OneTree
  PROVE  FastSpec /\ OneKeyword => []CandidatesComplete
<1>1. FInv /\ [FastNext]_fastVars => FInv'
  BY FInvKept
<1>2. FInv => CandidatesComplete
  BY FilterComplete
<1> QED BY <1>1, <1>2, FInvAtFirst, PTL DEF FastSpec

-----------------------------------------------------------------------------
(* The query of one store.                                                 *)

\* Whoever has been evaluated and is won is a candidate or returned; a user
\* returned has the store among his best.
Judged ==
  /\ batch_results \in [Stores -> SUBSET Users]
  /\ \A u \in candidate_User : u \in Users /\ Shared(u, poi) # {}
  /\ \A u \in batch_results[poi] : ~Less(score.gsk[u][poi], score.topk[u])
  /\ \A u \in Users :
       Wins(u, poi) /\ <<u, poi>> \in upEntryMark => u \in candidate_User \/ u \in batch_results[poi]

\* What is queued.
OneQueued ==
  \A e \in Queue :
    /\ e.p = poi
    /\ e.isUser => e.id \in Users /\ e = UserEntry(poi, e.id)
    /\ ~e.isUser => /\ nonRareKeys(poi) # {} /\ e.node \in GTree /\ e.id \in Borders[e.node]
                    /\ e = BorderEntry(poi, e.node, e.id, nonRareKeys(poi))

\* The range is a node over the store, or ended, which a tree of a single leaf
\* does not let it be.
OneRange ==
  \/ node_highest = NoNode /\ ~isleaf(Root)
  \/ node_highest \in GTree /\ db.pAt[poi] \in Under[node_highest]

\* What the search has done and where it has whoever is hopeful.
OneSearch ==
  /\ \A u \in EarlyUsers(poi) : <<u, poi>> \in upEntryMark
  /\ occurring[poi] = UsersWith(nonRareKeys(poi)) \ EarlyUsers(poi)
  /\ \A n \in nodeMark : Deserted(n)
  /\ OneQueued
  /\ \A u \in Users :
       Hopeful(u, poi) =>
         /\ LedFor(u, poi)
         /\ Followed(u, poi) \/ (node_highest # NoNode /\ db.uAt[u] \notin Under[node_highest])

\* The inductive invariant of the single query.
OneInv ==
  /\ poi \in Stores /\ Known /\ OneKeyword /\ Judged /\ OneRange
  /\ occurring \in [Stores -> SUBSET Users]
  /\ pc = "first" => /\ Queue = {} /\ borderMark = {} /\ nodeMark = {}
                     /\ node_highest = LeafOf[db.pAt[poi]]
  /\ pc = "filter" => OneSearch
  /\ pc \in {"verify", "done"} => \A u \in Users : ~Hopeful(u, poi)
  /\ pc = "done" => candidate_User = {}


\* What a user is judged by does not change in the search.
LEMMA JudgedStays ==
  ASSUME Judged, UNCHANGED <<db, score, poi, upEntryMark, candidate_User, batch_results>>
  PROVE  Judged'
BY DEF Judged, Wins, Shared

\* Whoever is tested and won becomes a candidate.
LEMMA TestJudges ==
  ASSUME Known, poi \in Stores, Judged, NEW S \in SUBSET Users, Test(S),
         UNCHANGED <<db, score, poi, batch_results>>
  PROVE  /\ Judged' /\ upEntryMark' = upEntryMark \cup (S \X {poi})
<1>1. PICK T \in Passing(poi, S) : candidate_User' = candidate_User \cup T
  BY DEF Test
<1>2. upEntryMark' = upEntryMark \cup (S \X {poi}) /\ poi \in Pois
  BY StoresArePois DEF Test
<1>3. T \in SUBSET S /\ \A u \in T : Shared(u, poi) # {}
  BY DEF Passing
<1>4. ASSUME NEW u \in Users, Wins(u, poi), <<u, poi>> \in upEntryMark'
      PROVE  u \in candidate_User' \/ u \in batch_results[poi]
  <2>1. CASE <<u, poi>> \in upEntryMark
    BY <1>1, <1>4, <2>1 DEF Judged
  <2>2. CASE u \in S
    <3>1. Less(score.lcl[u], score.gsk[u][poi])
      BY <1>2, <1>4, WinnerScores DEF Known, Wins
    <3> QED BY <1>1, <2>2, <3>1 DEF Passing
  <2> QED BY <1>2, <1>4, <2>1, <2>2
<1> QED BY <1>1, <1>2, <1>3, <1>4 DEF Judged, Wins, Shared

\* Who is hopeful in the search is left to it, and in its lists.
LEMMA OneLate ==
  ASSUME OneInv, pc = "filter", NEW u \in Users, Hopeful(u, poi)
  PROVE  /\ poi \in Stores /\ Late(u, poi) /\ Within(u, poi) /\ u \in occurring[poi]
         /\ u \in UsersWith(nonRareKeys(poi)) \ EarlyUsers(poi)
         /\ \A n \in nodeMark : db.uAt[u] \notin Under[n]
<1>1. poi \in Stores /\ OneSearch /\ Late(u, poi) /\ Within(u, poi)
  BY DEF OneInv, OneSearch, Hopeful, WinsWithin, Late
<1>2. u \in UsersWith(nonRareKeys(poi)) \ EarlyUsers(poi)
  BY <1>1, KeyOfLate DEF OneInv, Known
<1>3. u \in occurring[poi]
  BY <1>1, <1>2 DEF OneSearch
<1>4. \A n \in nodeMark : db.uAt[u] \notin Under[n]
  BY <1>1, <1>3 DEF OneSearch, Deserted, OccursUnder
<1> QED BY <1>1, <1>2, <1>3, <1>4

\* What a step of the search has to show.
LEMMA OneInvStays ==
  ASSUME OneInv, InLoop, UNCHANGED inSearch, Judged', OneQueued',
         upEntryMark \subseteq upEntryMark', borderMark \subseteq borderMark',
         \A n \in nodeMark' : Deserted(n),
         \A u \in Users :
           Hopeful(u, poi) /\ Hopeful(u, poi)' =>
             /\ UserQueued(u, poi) => UserEntry(poi, u) \in Queue'
             /\ \A n \in GTree : \A b \in Borders[n] :
                  db.uAt[u] \in Under[n] /\ Awaited(poi, n, b) =>
                    BorderEntry(poi, n, b, nonRareKeys(poi)) \in Queue' \/ <<b, n, poi>> \in borderMark'
             /\ \A n \in GTree : \A b \in Borders[n] :
                  Way(u, poi, n, b) /\ <<b, n, poi>> \in borderMark' \ borderMark => GoneOn(u, poi, n)'
  PROVE  OneInv'
<1>1. UNCHANGED <<db, score, poi, occurring, node_highest, batch_results, pc>> /\ pc = "filter"
  BY DEF inSearch, ofBatch, InLoop
<1>2. OneSearch /\ poi \in Stores
  BY <1>1 DEF OneInv
<1>3. Known' /\ OneKeyword'
  BY <1>1, KnownStays, Frame DEF OneInv
<1>4. OneRange'
  BY <1>1 DEF OneInv, OneRange
<1>5. ASSUME NEW u \in Users, Hopeful(u, poi)'
      PROVE  /\ LedFor(u, poi)'
             /\ Followed(u, poi)' \/ (node_highest # NoNode /\ db.uAt[u] \notin Under[node_highest])
  <2>1. Hopeful(u, poi)
    BY <1>1, <1>5, Frame DEF Hopeful
  <2>2. /\ LedFor(u, poi)
        /\ Followed(u, poi) \/ (node_highest # NoNode /\ db.uAt[u] \notin Under[node_highest])
    BY <1>2, <2>1 DEF OneSearch
  <2>3. LedFor(u, poi)' /\ (Followed(u, poi) => Followed(u, poi)')
    <3> DEFINE p == poi
    <3>1. /\ LedFor(u, p)
          /\ UserQueued(u, p) => UserEntry(p, u) \in Queue'
          /\ \A n \in GTree : \A b \in Borders[n] :
               db.uAt[u] \in Under[n] /\ Awaited(p, n, b) =>
                 BorderEntry(p, n, b, nonRareKeys(p)) \in Queue' \/ <<b, n, p>> \in borderMark'
          /\ \A n \in GTree : \A b \in Borders[n] :
               Way(u, p, n, b) /\ <<b, n, p>> \in borderMark' \ borderMark => GoneOn(u, p, n)'
      BY <1>1, <1>5, <2>1, <2>2
    <3> QED BY <1>1, <3>1, FollowedOn
  <2> QED BY <2>2, <2>3
<1>6. OneSearch'
  <2>1. \A u \in EarlyUsers(poi)' : <<u, poi>> \in upEntryMark'
    BY <1>1, <1>2, Frame DEF OneSearch
  <2>2. occurring[poi] = UsersWith(nonRareKeys(poi))' \ EarlyUsers(poi)'
    BY <1>1, <1>2, Frame DEF OneSearch
  <2>3. \A n \in nodeMark' : Deserted(n)'
    BY <1>1 DEF Deserted, OccursUnder
  <2> QED BY <1>1, <1>5, <2>1, <2>2, <2>3 DEF OneSearch
<1> QED BY <1>1, <1>2, <1>3, <1>4, <1>6 DEF OneInv

\* The entries left in the queue are what they were.
LEMMA OneQueuedStill ==
  ASSUME OneQueued, UNCHANGED <<db, score, poi>>,
         \A e \in Queue' \ Queue :
           /\ e.p = poi
           /\ \/ e.isUser /\ e.id \in Users /\ e = UserEntry(poi, e.id)
              \/ /\ ~e.isUser /\ nonRareKeys(poi) # {} /\ e.node \in GTree /\ e.id \in Borders[e.node]
                 /\ e = BorderEntry(poi, e.node, e.id, nonRareKeys(poi))
  PROVE  OneQueued'
<1> SUFFICES ASSUME NEW e \in Queue'
             PROVE  /\ e.p = poi
                    /\ e.isUser => e.id \in Users /\ e = UserEntry(poi, e.id)'
                    /\ ~e.isUser =>
                         /\ nonRareKeys(poi)' # {} /\ e.node \in GTree /\ e.id \in Borders[e.node]
                         /\ e = BorderEntry(poi, e.node, e.id, nonRareKeys(poi))'
  BY DEF OneQueued
<1>1. /\ e.p = poi
      /\ \/ e.isUser /\ e.id \in Users /\ e = UserEntry(poi, e.id)
         \/ /\ ~e.isUser /\ nonRareKeys(poi) # {} /\ e.node \in GTree /\ e.id \in Borders[e.node]
            /\ e = BorderEntry(poi, e.node, e.id, nonRareKeys(poi))
  BY DEF OneQueued
<1>2. nonRareKeys(poi)' = nonRareKeys(poi) /\ UserEntry(poi, e.id)' = UserEntry(poi, e.id)
      /\ BorderEntry(poi, e.node, e.id, nonRareKeys(poi))'
           = BorderEntry(poi, e.node, e.id, nonRareKeys(poi))
  BY Frame
<1> QED BY <1>1, <1>2

\* The naive query marks everybody who shares a keyword.
LEMMA OneNaive == ASSUME OneInv, NaiveFilter PROVE OneInv'
<1> DEFINE S == UsersWith(db.pKeys[poi])
<1>1. /\ pc' = "verify" /\ UNCHANGED <<db, score, poi, occurring, node_highest, batch_results>>
      /\ Test(S)
  BY DEF NaiveFilter, ofBatch
<1>2. S \in SUBSET Users
  BY DEF UsersWith, getTermUserInvList
<1>3. Judged' /\ upEntryMark' = upEntryMark \cup (S \X {poi})
  <2> HIDE DEF S
  <2> QED BY <1>1, <1>2, TestJudges DEF OneInv
<1>4. ASSUME NEW u \in Users, Wins(u, poi)
      PROVE  <<u, poi>> \in upEntryMark'
  <2>1. u \in S
    BY <1>4 DEF Wins, Shared, UsersWith, getTermUserInvList
  <2> QED BY <1>3, <2>1
<1>5. \A u \in Users : ~Hopeful(u, poi)'
  BY <1>1, <1>4, Frame DEF Hopeful, WinsWithin
<1>6. Known' /\ OneKeyword' /\ OneRange'
  BY <1>1, KnownStays, Frame DEF OneInv, OneRange
<1> QED BY <1>1, <1>3, <1>5, <1>6 DEF OneInv

\* The first step leaves nobody who is not queued or outside the leaf.
LEMMA OneFirst == ASSUME OneTree, OneInv, SingleFirstStep PROVE OneInv'
<1> DEFINE z == db.pAt[poi]
           others == UsersWith(nonRareKeys(poi)) \ EarlyUsers(poi)
<1>1. /\ pc = "first" /\ pc' = "filter" /\ Test(EarlyUsers(poi))
      /\ UNCHANGED <<db, score, poi, borderMark, node_highest, nodeMark, batch_results>>
      /\ occurring' = [occurring EXCEPT ![poi] = others]
      /\ Queue' = {UserEntry(poi, u) : u \in {v \in others : LeafOf[db.uAt[v]] = node_highest}}
  BY DEF SingleFirstStep, ofBatch, Early, EarlyUsers
<1>2. /\ borderMark = {} /\ nodeMark = {} /\ node_highest = LeafOf[z]
      /\ poi \in Stores /\ poi \in Pois /\ Placed(db)
  BY <1>1, StoresArePois, DatabasesAssumption DEF OneInv, Known
<1>3. EarlyUsers(poi) \in SUBSET Users /\ others \in SUBSET Users
  BY DEF EarlyUsers, SocialUsers, UsersWith, getTermUserInvList
<1>4. Judged' /\ upEntryMark' = upEntryMark \cup (EarlyUsers(poi) \X {poi})
  BY <1>1, <1>3, TestJudges DEF OneInv
<1>5. LeafOf[z] \in GTree /\ z \in Under[LeafOf[z]] /\ isleaf(LeafOf[z]) /\ LeafOf[z] # NoNode
  <2>1. z \in Vertices
    BY <1>2 DEF Placed
  <2> HIDE DEF z
  <2>2. LeafOf[z] \in GTree /\ LeafOf[z] \in ToSet(gtreepath[z])
    BY <2>1, EveryPath
  <2>3. LeafOf[z] \in Nat
    BY <2>1, EveryPath
  <2> QED BY <2>1, <2>2, <2>3 DEF Under, isleaf, NoNode
<1>6. Known' /\ OneKeyword' /\ OneRange' /\ occurring' \in [Stores -> SUBSET Users]
      /\ occurring'[poi] = others
  <2>1. Known' /\ OneKeyword' /\ OneRange'
    BY <1>1, <1>2, <1>5, KnownStays, Frame DEF OneInv, OneRange
  <2> HIDE DEF others
  <2> QED BY <1>1, <1>2, <1>3, <2>1 DEF OneInv
<1>7. OneQueued'
  <2> SUFFICES ASSUME NEW e \in Queue'
               PROVE  e.p = poi /\ e.isUser /\ e.id \in Users /\ e = UserEntry(poi, e.id)'
    BY <1>1 DEF OneQueued
  <2>1. PICK u \in Users : e = UserEntry(poi, u)
    BY <1>1, <1>3
  <2>2. e.p = poi /\ e.id = u /\ e.isUser
    BY <2>1 DEF UserEntry
  <2> QED BY <1>1, <2>1, <2>2, Frame
<1>8. ASSUME NEW u \in Users, Hopeful(u, poi)'
      PROVE  Followed(u, poi)' \/ db.uAt[u] \notin Under[node_highest]
  <2>1. Wins(u, poi) /\ u \notin EarlyUsers(poi)
    BY <1>1, <1>4, <1>8, Frame DEF Hopeful, WinsWithin
  <2>2. u \in others
    BY <1>2, <2>1, KeyOfLate DEF Late, OneInv, Known
  <2>3. CASE LeafOf[db.uAt[u]] = node_highest
    <3>1. UserEntry(poi, u) \in Queue'
      BY <1>1, <2>2, <2>3
    <3> QED BY <1>1, <3>1, Frame DEF Followed, UserQueued
  <2>4. CASE LeafOf[db.uAt[u]] # node_highest
    <3>1. db.uAt[u] \in Vertices
      BY <1>2 DEF Placed
    <3> QED BY <1>2, <1>5, <2>4, <3>1, UnderLeaf
  <2> QED BY <2>3, <2>4
<1>9. OneSearch'
  <2>1. EarlyUsers(poi)' = EarlyUsers(poi) /\ UsersWith(nonRareKeys(poi))' = UsersWith(nonRareKeys(poi))
    BY <1>1, Frame
  <2>2. \A u \in Users : LedFor(u, poi)'
    BY <1>1, <1>2 DEF LedFor
  <2> QED BY <1>1, <1>2, <1>4, <1>5, <1>6, <1>7, <1>8, <2>1, <2>2 DEF OneSearch
<1> QED BY <1>1, <1>2, <1>4, <1>6, <1>9 DEF OneInv

\* A user popped is hopeful no longer.
LEMMA OnePopUser == ASSUME OneInv, NEW e \in Queue, SinglePopUser(e) PROVE OneInv'
<1> DEFINE S == {e.id} \cap Unmarked(poi)
<1>1. /\ InLoop /\ UNCHANGED inSearch /\ UNCHANGED <<borderMark, nodeMark>> /\ e.isUser
      /\ Queue' = Queue \ {e} /\ Test(S)
  BY DEF SinglePopUser
<1>2. UNCHANGED <<db, score, poi, batch_results>> /\ S \in SUBSET Users /\ OneSearch
  BY <1>1 DEF inSearch, ofBatch, Unmarked, OneInv, InLoop
<1>3. Judged' /\ upEntryMark' = upEntryMark \cup (S \X {poi})
  <2> HIDE DEF S
  <2> QED BY <1>1, <1>2, TestJudges DEF OneInv
<1>4. OneQueued' /\ \A n \in nodeMark' : Deserted(n)
  BY <1>1, <1>2, OneQueuedStill DEF OneSearch
<1>5. ASSUME NEW u \in Users, Hopeful(u, poi)', UserQueued(u, poi)
      PROVE  UserEntry(poi, u) \in Queue'
  <2> SUFFICES ASSUME UserEntry(poi, u) = e
               PROVE  FALSE
    BY <1>1, <1>5 DEF UserQueued
  <2>1. e.id = u
    BY DEF UserEntry
  <2>2. <<u, poi>> \in upEntryMark'
    BY <1>3, <2>1 DEF Unmarked
  <2> QED BY <1>2, <1>5, <2>2 DEF Hopeful
<1>6. \A n, b : Awaited(poi, n, b) => BorderEntry(poi, n, b, nonRareKeys(poi)) \in Queue'
  BY <1>1 DEF Awaited, BorderEntry
<1>7. upEntryMark \subseteq upEntryMark' /\ borderMark' = borderMark
  BY <1>1, <1>3
<1> HIDE DEF S
<1> QED BY <1>1, <1>3, <1>4, <1>5, <1>6, <1>7, OneInvStays

\* A node given up, now or before, has nobody who is hopeful; a border seen before
\* has led on.
LEMMA OneDiscard == ASSUME OneInv, NEW e \in Queue, Discard(e) \/ GiveUp(e) PROVE OneInv'
<1>1. /\ InLoop /\ UNCHANGED inSearch /\ UNCHANGED <<upEntryMark, borderMark, candidate_User>>
      /\ ~e.isUser /\ Queue' = Queue \ {e}
      /\ nodeMark' \subseteq nodeMark \cup {n \in {e.node} : Deserted(n)}
      /\ e.node \in nodeMark \/ Deserted(e.node) \/ BorderKey(e) \in borderMark
  BY DEF Discard, GiveUp, marks
<1>2. UNCHANGED <<db, score, poi, batch_results>> /\ OneSearch /\ pc = "filter"
  BY <1>1 DEF inSearch, ofBatch, OneInv, InLoop
<1>3. /\ Judged' /\ OneQueued' /\ \A n \in nodeMark' : Deserted(n)
  BY <1>1, <1>2, JudgedStays, OneQueuedStill DEF OneInv, OneSearch
<1>4. \A u, p : UserQueued(u, p) => UserEntry(p, u) \in Queue'
  BY <1>1 DEF UserQueued, UserEntry
<1>5. ASSUME NEW u \in Users, Hopeful(u, poi), NEW n, NEW b, db.uAt[u] \in Under[n], Awaited(poi, n, b)
      PROVE  BorderEntry(poi, n, b, nonRareKeys(poi)) \in Queue' \/ <<b, n, poi>> \in borderMark'
  <2> SUFFICES ASSUME BorderEntry(poi, n, b, nonRareKeys(poi)) = e
               PROVE  <<b, n, poi>> \in borderMark'
    BY <1>1, <1>5 DEF Awaited
  <2>1. e.id = b /\ e.node = n /\ e.p = poi
    BY DEF BorderEntry
  <2>2. ~Deserted(n) /\ n \notin nodeMark
    BY <1>2, <1>5, OneLate DEF Deserted, OccursUnder
  <2> QED BY <1>1, <2>1, <2>2 DEF BorderKey
<1> QED BY <1>1, <1>3, <1>4, <1>5, OneInvStays

\* A border expanded leads on towards whoever is hopeful beyond it.
LEMMA OneExpand ==
  ASSUME ShortestPaths, OneTree, OneInv, NEW e \in Queue, Expand(e)
  PROVE  OneInv'
<1> DEFINE n0 == e.node
           b0 == e.id
           keys == getBorder_SB_NVD_Cluster(e)
<1>1. /\ InLoop /\ UNCHANGED inSearch /\ UNCHANGED <<upEntryMark, candidate_User, nodeMark>>
      /\ ~e.isUser /\ Queue' = (Queue \ {e}) \cup BeyondBorder(e, keys)
      /\ borderMark' = borderMark \cup {BorderKey(e)}
  BY DEF Expand
<1>2. /\ UNCHANGED <<db, score, poi, batch_results>> /\ OneSearch /\ pc = "filter" /\ poi \in Stores
      /\ Known /\ OneKeyword
  BY <1>1 DEF inSearch, ofBatch, OneInv, InLoop
<1>3. /\ e.p = poi /\ n0 \in GTree /\ b0 \in Borders[n0] /\ b0 \in Vertices
      /\ nonRareKeys(poi) # {} /\ BorderKey(e) = <<b0, n0, poi>>
      /\ e.keys = nonRareKeys(poi) /\ e.dist = PoiDist(b0, poi)
  <2>1. /\ e.p = poi /\ n0 \in GTree /\ b0 \in Borders[n0] /\ nonRareKeys(poi) # {}
        /\ e = BorderEntry(poi, n0, b0, nonRareKeys(poi))
    BY <1>1, <1>2 DEF OneSearch, OneQueued
  <2>2. \A p, n, b : LET f == BorderEntry(p, n, b, nonRareKeys(p))
                     IN  f.keys = nonRareKeys(p) /\ f.dist = PoiDist(b, p)
    BY DEF BorderEntry
  <2>3. b0 \in Vertices
    BY <2>1 DEF Borders, Under
  <2> HIDE DEF n0, b0
  <2>4. e.keys = nonRareKeys(poi) /\ e.dist = PoiDist(b0, poi)
    BY <2>1, <2>2
  <2> QED BY <2>1, <2>3, <2>4 DEF BorderKey, n0, b0
<1>4. keys = KeysLeft(poi, n0, b0)
  BY <1>3 DEF getBorder_SB_NVD_Cluster, KeysLeft
<1> HIDE DEF n0, b0, keys
<1>5. keys \in {{}, nonRareKeys(poi)}
  BY <1>2, <1>3, <1>4, KeysLeftAre
<1>6. OneQueued'
  <2>1. ASSUME NEW f \in BeyondBorder(e, keys)
        PROVE  /\ f.p = poi
               /\ \/ f.isUser /\ f.id \in Users /\ f = UserEntry(poi, f.id)
                  \/ /\ ~f.isUser /\ nonRareKeys(poi) # {} /\ f.node \in GTree /\ f.id \in Borders[f.node]
                     /\ f = BorderEntry(poi, f.node, f.id, nonRareKeys(poi))
    <3>1. f.p = poi /\ keys = nonRareKeys(poi)
      BY <1>3, <1>5, BeyondIs DEF n0
    <3>2. \/ f.isUser /\ f.id \in Users /\ f = UserEntry(poi, f.id)
          \/ ~f.isUser /\ f.node \in GTree /\ f.id \in Borders[f.node]
             /\ f = BorderEntry(poi, f.node, f.id, keys)
      BY <1>3, BeyondIs DEF n0
    <3> QED BY <1>3, <3>1, <3>2
  <2> QED BY <1>1, <1>2, <2>1, OneQueuedStill DEF OneSearch
<1>7. Judged' /\ \A n \in nodeMark' : Deserted(n)
  BY <1>1, <1>2, JudgedStays DEF OneInv, OneSearch
<1>8. ASSUME NEW u \in Users, Hopeful(u, poi), Way(u, poi, n0, b0)
      PROVE  GoneOn(u, poi, n0)'
  <2>1. Late(u, poi) /\ u \in occurring[poi]
    BY <1>2, <1>8, OneLate
  <2>2. /\ keys = nonRareKeys(poi)
        /\ isleaf(n0) => u \in Related(n0, keys)
        /\ ~isleaf(n0) => \E c \in Children[n0] : db.uAt[u] \in Under[c] /\ c \in Related(n0, keys)
    BY <1>2, <1>4, <1>8, <2>1, LeadsOn
  <2>3. CASE isleaf(n0)
    <3>1. UserEntry(poi, u) \in BeyondBorder(e, keys)
      BY <1>8, <2>2, <2>3 DEF BeyondBorder, Related, Hopeful, Unmarked, n0
    <3>2. UserQueued(u, poi)'
      BY <1>1, <1>2, <3>1, Frame DEF UserQueued
    <3> QED BY <1>2, <2>3, <3>2 DEF GoneOn
  <2>4. CASE ~isleaf(n0)
    <3>1. PICK c \in Children[n0] : db.uAt[u] \in Under[c] /\ c \in Related(n0, keys)
      BY <2>2, <2>4
    <3>2. ASSUME NEW d \in Borders[c]
          PROVE  Come(poi, c, d)'
      <4>1. BorderEntry(poi, c, d, keys) \in BeyondBorder(e, keys)
        BY <2>4, <3>1 DEF BeyondBorder, Related, n0
      <4>2. BorderEntry(poi, c, d, keys) = BorderEntry(poi, c, d, nonRareKeys(poi))'
        BY <1>2, <2>2, Frame
      <4> QED BY <1>1, <1>2, <4>1, <4>2 DEF Come, Awaited
    <3> QED BY <1>2, <2>4, <3>1, <3>2 DEF GoneOn
  <2> QED BY <2>3, <2>4
<1>9. ASSUME NEW u \in Users, Hopeful(u, poi), NEW n \in GTree, NEW b \in Borders[n],
             Way(u, poi, n, b), <<b, n, poi>> \in borderMark' \ borderMark
      PROVE  GoneOn(u, poi, n)'
  <2>1. n = n0 /\ b = b0
    BY <1>1, <1>3, <1>9
  <2> QED BY <1>8, <1>9, <2>1
<1>10. /\ \A u, p : UserQueued(u, p) => UserEntry(p, u) \in Queue'
       /\ \A p, n, b : Awaited(p, n, b) =>
            BorderEntry(p, n, b, nonRareKeys(p)) \in Queue' \/ <<b, n, p>> \in borderMark'
  <2>1. Queue \ {e} \subseteq Queue' /\ <<e.id, e.node, e.p>> \in borderMark'
    BY <1>1, <1>3 DEF n0, b0
  <2> QED BY <1>1, <2>1, OthersWait
<1>11. upEntryMark \subseteq upEntryMark' /\ borderMark \subseteq borderMark'
  BY <1>1
<1> QED BY <1>1, <1>6, <1>7, <1>9, <1>10, <1>11, OneInvStays

\* A tree with a node over z that is not the root has a root that is no leaf.
LEMMA RootAbove ==
  ASSUME OneTree, NEW n \in GTree, NEW z \in Under[n]
  PROVE  /\ n # NoNode /\ Root \in GTree /\ z \in Under[Root]
         /\ n # Root => ~isleaf(Root)
<1>1. z \in Vertices /\ \E i \in 1 .. Len(gtreepath[z]) : gtreepath[z][i] = n
  BY PlaceOnPath
<1>2. PICK i \in 1 .. Len(gtreepath[z]) : gtreepath[z][i] = n
  BY <1>1
<1>3. /\ Len(gtreepath[z]) \in Nat \ {0} /\ gtreepath[z] \in Seq(Nat)
      /\ gtreepath[z][1] = Root /\ 1 \in 1 .. Len(gtreepath[z])
      /\ LeafOf[z] = gtreepath[z][Len(gtreepath[z])]
  BY <1>1, EveryPath DEF OneTree
<1>4. n # NoNode
  BY <1>2, <1>3 DEF NoNode
<1>5. Root \in GTree /\ z \in Under[Root]
  BY <1>1, <1>3, EveryPath
<1>6. ASSUME isleaf(Root)
      PROVE  n = Root
  <2>1. LeafOf[z] = Root
    BY <1>1, <1>5, <1>6, UnderLeaf
  <2>2. Len(gtreepath[z]) \in 1 .. Len(gtreepath[z]) /\ gtreepath[z][Len(gtreepath[z])] = gtreepath[z][1]
    BY <1>3, <2>1
  <2>3. \A i1, j1 \in 1 .. Len(gtreepath[z]) : gtreepath[z][i1] = gtreepath[z][j1] => i1 = j1
    BY <1>1, PathsAgree
  <2>4. Len(gtreepath[z]) = 1
    BY <1>3, <2>2, <2>3
  <2> QED BY <1>2, <1>3, <2>4
<1> QED BY <1>4, <1>5, <1>6

\* The keywords beyond a node are found as the batch query finds them.
LEMMA KeyUpperIs == ASSUME NEW n PROVE Key_upper(n) = KeysBeyond(poi, n)
<1>1. \A b : getBorder_SB_NVD(b, PoiDist(b, poi), nonRareKeys(poi))
               = getBorder_SB_BatchNVD(BorderEntry(poi, n, b, nonRareKeys(poi)))
  BY DEF getBorder_SB_NVD, getBorder_SB_BatchNVD, BorderEntry
<1> QED BY <1>1 DEF Key_upper, KeysBeyond

\* What a step that widens the range has to show.
LEMMA OneWidened ==
  ASSUME OneInv, pc = "filter", ShortestPaths, OneTree, Queue = {},
         UNCHANGED <<db, score, poi, occurring, marks, candidate_User, nodeMark, batch_results>>,
         OneRange', OneQueued', pc' = "verify" <=> Queue' = {}, pc' \in {"filter", "verify"},
         \A u \in Users : Hopeful(u, poi) /\ LedFor(u, poi) =>
           /\ Queue' # {}
           /\ Followed(u, poi)' \/ (node_highest' # NoNode /\ db.uAt[u] \notin Under[node_highest'])
  PROVE  OneInv'
<1>1. /\ UNCHANGED <<db, score, poi, occurring, upEntryMark, borderMark, candidate_User, nodeMark,
                     batch_results>>
      /\ OneSearch /\ Judged' /\ Known' /\ OneKeyword'
  BY JudgedStays, KnownStays, Frame DEF OneInv, marks
<1>2. \A u : Hopeful(u, poi)' <=> Hopeful(u, poi)
  BY <1>1, Frame DEF Hopeful
<1>3. \A u \in Users : Hopeful(u, poi) => LedFor(u, poi)
  BY <1>1 DEF OneSearch
<1>4. ASSUME NEW u \in Users, Hopeful(u, poi)
      PROVE  LedFor(u, poi)'
  <2>1. \A n \in GTree : \A b \in Borders[n] : ~(Way(u, poi, n, b) /\ Come(poi, n, b))
    <3> DEFINE p == poi
    <3>1. LedFor(u, p) /\ p \in Stores /\ db \in Databases
      BY <1>3, <1>4 DEF OneInv, Known
    <3> HIDE DEF p
    <3>2. \A n \in GTree : \A b \in Borders[n] : ~(Way(u, p, n, b) /\ Come(p, n, b))
      BY <3>1, NobodyFollowed
    <3> QED BY <3>2 DEF p
  <2>2. \A n \in GTree : \A b \in Borders[n] : ~(Way(u, poi, n, b) /\ <<b, n, poi>> \in borderMark)
    BY <2>1 DEF Come
  <2> QED BY <1>1, <2>2, Frame DEF LedFor
<1>5. OneSearch'
  <2>1. /\ \A u \in EarlyUsers(poi)' : <<u, poi>> \in upEntryMark
        /\ occurring[poi] = UsersWith(nonRareKeys(poi))' \ EarlyUsers(poi)'
    BY <1>1, Frame DEF OneSearch
  <2>2. \A n \in nodeMark : Deserted(n)'
    BY <1>1 DEF OneSearch, Deserted, OccursUnder
  <2> QED BY <1>1, <1>2, <1>3, <1>4, <2>1, <2>2 DEF OneSearch
<1>6. pc' = "verify" => \A u \in Users : ~Hopeful(u, poi)'
  BY <1>2, <1>3
<1> QED BY <1>1, <1>5, <1>6 DEF OneInv

\* Climbing loses nobody, and the search ends when nobody is left.
LEMMA OneExtend == ASSUME ShortestPaths, OneTree, OneInv, Extend_Range PROVE OneInv'
<1> DEFINE m == node_highest
           r == Climb(poi, m)
           z == db.pAt[poi]
           found == Entries(poi, r.entries)
<1>1. /\ pc = "filter" /\ Queue = {} /\ m # NoNode
      /\ node_highest' = (IF r.node # Root /\ Key_upper(r.node) = {} THEN NoNode ELSE r.node)
      /\ Queue' = found /\ pc' = (IF found = {} THEN "verify" ELSE pc)
      /\ UNCHANGED <<db, score, poi, occurring, marks, candidate_User, nodeMark, batch_results>>
  BY DEF Extend_Range, Enter, Found, InLoop, ofBatch
<1>2. /\ m \in GTree /\ z \in Under[m] /\ poi \in Stores /\ Known /\ OneKeyword /\ db \in Databases
      /\ OneSearch
  BY <1>1 DEF OneInv, OneRange, Known
<1>3. r.node \in GTree /\ z \in Under[r.node]
  BY <1>2, RangeClimbs
<1>4. \A f : f \in found =>
        \E c \in r.entries : \E b \in Borders[c] :
          /\ c \in GTree /\ nonRareKeys(poi) # {} /\ f = BorderEntry(poi, c, b, nonRareKeys(poi))
  BY <1>2, ClimbEntries
<1>5. \A c \in r.entries : \A b \in Borders[c] : BorderEntry(poi, c, b, nonRareKeys(poi)) \in found
  BY <1>2, RangeClimbs, ClimbEntries
<1> HIDE DEF found
<1>6. OneRange'
  <2>1. r.node # NoNode /\ (r.node # Root => ~isleaf(Root))
    <3> HIDE DEF r, z
    <3> QED BY <1>3, RootAbove
  <2> QED BY <1>1, <1>3, <2>1 DEF OneRange
<1>7. OneQueued'
  <2> SUFFICES ASSUME NEW f \in Queue'
               PROVE  /\ f.p = poi /\ ~f.isUser /\ nonRareKeys(poi)' # {}
                      /\ f.node \in GTree /\ f.id \in Borders[f.node]
                      /\ f = BorderEntry(poi, f.node, f.id, nonRareKeys(poi))'
    BY <1>1 DEF OneQueued
  <2> HIDE DEF r
  <2>1. PICK c \in r.entries : \E b \in Borders[c] :
           c \in GTree /\ nonRareKeys(poi) # {} /\ f = BorderEntry(poi, c, b, nonRareKeys(poi))
    BY <1>1, <1>4
  <2>2. PICK b \in Borders[c] :
           c \in GTree /\ nonRareKeys(poi) # {} /\ f = BorderEntry(poi, c, b, nonRareKeys(poi))
    BY <2>1
  <2>3. f.p = poi /\ f.node = c /\ f.id = b /\ ~f.isUser
    BY <2>2 DEF BorderEntry
  <2> QED BY <1>1, <2>2, <2>3, Frame
<1>8. ASSUME NEW u \in Users, Hopeful(u, poi), LedFor(u, poi)
      PROVE  /\ Queue' # {}
             /\ Followed(u, poi)' \/ (node_highest' # NoNode /\ db.uAt[u] \notin Under[node_highest'])
  <2>1. ~Followed(u, poi)
    <3> DEFINE p == poi
    <3>1. LedFor(u, p) /\ p \in Stores
      BY <1>2, <1>8
    <3> HIDE DEF p
    <3>2. ~Followed(u, p)
      BY <1>1, <1>2, <3>1, NobodyFollowed
    <3> QED BY <3>2 DEF p
  <2>2. db.uAt[u] \notin Under[m]
    BY <1>2, <1>8, <2>1 DEF OneSearch
  <2>3. Late(u, poi) /\ Within(u, poi)
    BY <1>1, <1>8, OneLate
  <2>4. /\ \E c \in r.entries : \E b \in Borders[c] : TRUE
        /\ \/ \E c \in r.entries : c \in GTree /\ \E b \in Borders[c] : Way(u, poi, c, b)
           \/ db.uAt[u] \notin Under[r.node] /\ GoesOn(poi, r.node)
    BY <1>2, <2>2, <2>3, MeetsOrGoesOn
  <2> HIDE DEF r
  <2>5. Queue' # {}
    BY <1>1, <1>5, <2>4
  <2>6. CASE \E c \in r.entries : c \in GTree /\ \E b \in Borders[c] : Way(u, poi, c, b)
    <3>1. PICK c \in r.entries : c \in GTree /\ \E b \in Borders[c] : Way(u, poi, c, b)
      BY <2>6
    <3>2. PICK b \in Borders[c] : Way(u, poi, c, b)
      BY <3>1
    <3>3. BorderEntry(poi, c, b, nonRareKeys(poi)) \in Queue'
      BY <1>1, <1>5
    <3> QED BY <1>1, <2>5, <3>1, <3>2, <3>3, Frame DEF Followed, Come, Awaited
  <2>7. CASE db.uAt[u] \notin Under[r.node] /\ GoesOn(poi, r.node)
    <3>1. node_highest' = r.node /\ r.node # NoNode
      BY <1>1, <1>3, <2>7, KeyUpperIs, RootAbove DEF GoesOn
    <3> QED BY <2>5, <2>7, <3>1
  <2> QED BY <2>4, <2>6, <2>7
<1>9. (pc' = "verify" <=> Queue' = {}) /\ pc' \in {"filter", "verify"}
  BY <1>1
<1> HIDE DEF r, z, m
<1> QED BY <1>1, <1>6, <1>7, <1>8, <1>9, OneWidened

\* What is read before the tree, after the search was ended, can only be entered
\* when nobody is left.
LEMMA OneReadBefore == ASSUME ShortestPaths, OneTree, OneInv, ReadBeforeTree PROVE OneInv'
<1>1. /\ pc = "filter" /\ Queue = {} /\ node_highest = NoNode
      /\ UNCHANGED <<db, score, poi, occurring, marks, candidate_User, nodeMark, batch_results>>
      /\ \/ pc' = "crashed" /\ UNCHANGED <<Queue, node_highest>>
         \/ node_highest' = Root /\ Enter(Siblings(poi, Root, NoNode))
  BY DEF ReadBeforeTree, InLoop, ofBatch
<1>2. /\ ~isleaf(Root) /\ poi \in Stores /\ Known /\ OneKeyword /\ db \in Databases
      /\ OneSearch /\ db.pAt[poi] \in Vertices
  <2>1. poi \in Stores /\ Known /\ OneKeyword /\ db \in Databases /\ OneSearch
    BY <1>1 DEF OneInv, Known
  <2>2. LeafOf[db.pAt[poi]] # NoNode /\ db.pAt[poi] \in Vertices
    <3>1. db.pAt[poi] \in Vertices
      BY <2>1, StoresArePois, DatabasesAssumption DEF Placed
    <3> DEFINE z == db.pAt[poi]
    <3> HIDE DEF z
    <3>2. z \in Vertices => LeafOf[z] # NoNode
      BY EveryPath DEF NoNode
    <3> QED BY <3>1, <3>2 DEF z
  <2>3. ~(node_highest \in GTree /\ db.pAt[poi] \in Under[node_highest])
    <3> DEFINE n == node_highest
               z == db.pAt[poi]
    <3>1. n = NoNode
      BY <1>1
    <3> HIDE DEF n, z
    <3>2. ~(n \in GTree /\ z \in Under[n])
      BY <3>1, RootAbove
    <3> QED BY <3>2 DEF n, z
  <2> QED BY <2>1, <2>2, <2>3 DEF OneInv, OneRange
<1>3. CASE pc' = "crashed" /\ UNCHANGED <<Queue, node_highest>>
  <2>1. Judged' /\ Known' /\ OneKeyword' /\ OneRange'
    BY <1>1, <1>3, JudgedStays, KnownStays, Frame DEF OneInv, OneRange, marks
  <2> QED BY <1>1, <1>3, <2>1 DEF OneInv
<1>4. CASE node_highest' = Root /\ Enter(Siblings(poi, Root, NoNode))
  <2> DEFINE children == Siblings(poi, Root, NoNode)
             found == Entries(poi, children)
  <2>1. Queue' = found /\ pc' = IF found = {} THEN "verify" ELSE pc
    BY <1>4 DEF Enter
  <2>2. ASSUME NEW c \in children
        PROVE  /\ c \in GTree /\ nonRareKeys(poi) # {}
               /\ nonRareKeys(poi) \cap TermsUnder(c) = nonRareKeys(poi)
    <3>1. PICK t \in nonRareKeys(poi) : c \in getUsrTermRelatedEntry(t, Root)
      BY DEF Siblings
    <3>2. c \in Children[Root] /\ UsersUnder(c, t) # {}
      BY <1>2, <3>1 DEF getUsrTermRelatedEntry
    <3>3. Root \in GTree
      <4> DEFINE z == db.pAt[poi]
      <4>1. z \in Vertices
        BY <1>2
      <4> HIDE DEF z
      <4> QED BY <4>1, EveryPath DEF OneTree
    <3>4. c \in GTree
      BY <3>2, <3>3 DEF Children
    <3> HIDE DEF children
    <3> QED BY <1>2, <3>2, <3>4, FoundKeys
  <2>3. OneRange'
    <3> DEFINE z == db.pAt[poi]
    <3>1. z \in Vertices
      BY <1>2
    <3> HIDE DEF z
    <3>2. Root \in GTree /\ z \in Under[Root]
      BY <3>1, EveryPath DEF OneTree
    <3> QED BY <1>1, <1>4, <3>2 DEF OneRange, z
  <2>4. OneQueued'
    <3> SUFFICES ASSUME NEW f \in Queue'
                 PROVE  /\ f.p = poi /\ ~f.isUser /\ nonRareKeys(poi)' # {}
                        /\ f.node \in GTree /\ f.id \in Borders[f.node]
                        /\ f = BorderEntry(poi, f.node, f.id, nonRareKeys(poi))'
      BY <1>1 DEF OneQueued
    <3> HIDE DEF children
    <3>1. PICK c \in children : \E b \in Borders[c] : f = BorderEntry(poi, c, b, nonRareKeys(poi) \cap TermsUnder(c))
      BY <2>1, EntriesAre
    <3>2. PICK b \in Borders[c] : f = BorderEntry(poi, c, b, nonRareKeys(poi))
      BY <2>2, <3>1
    <3>3. f.p = poi /\ f.node = c /\ f.id = b /\ ~f.isUser
      BY <3>2 DEF BorderEntry
    <3> QED BY <1>1, <2>2, <3>2, <3>3, Frame
  <2>5. ASSUME NEW u \in Users, Hopeful(u, poi), LedFor(u, poi)
        PROVE  FALSE
    <3> DEFINE p == poi
    <3>1. LedFor(u, p) /\ Followed(u, p) /\ p \in Stores /\ db \in Databases
      BY <1>1, <1>2, <2>5 DEF OneSearch, OneInv, Known
    <3> HIDE DEF p
    <3> QED BY <1>1, <3>1, NobodyFollowed
  <2>6. (pc' = "verify" <=> Queue' = {}) /\ pc' \in {"filter", "verify"}
    BY <1>1, <2>1
  <2> HIDE DEF children, found
  <2> QED BY <1>1, <2>3, <2>4, <2>5, <2>6, OneWidened
<1> QED BY <1>1, <1>3, <1>4

\* A candidate judged is returned if the store wins him, and only if it is among
\* his best.
LEMMA OneVerify == ASSUME OneInv, NEW u \in Users, SingleVerify(u) PROVE OneInv'
<1>1. /\ pc = "verify" /\ u \in candidate_User /\ candidate_User' = candidate_User \ {u}
      /\ UNCHANGED <<db, score, poi, occurring, upEntryMark, borderMark, Queue, node_highest, nodeMark, pc>>
  BY DEF SingleVerify, ofBatch, marks
<1> DEFINE passes(up) == \/ Less(score.topk[u], score.gsk[u][poi])
                         \/ Same(score.topk[u], score.gsk[u][poi]) /\ ~up
<1>2. PICK up \in BOOLEAN :
         batch_results' = IF passes(up) THEN [batch_results EXCEPT ![poi] = @ \cup {u}] ELSE batch_results
  BY DEF SingleVerify
<1>3. /\ poi \in Stores /\ poi \in Pois /\ Known /\ Placed(db) /\ Shared(u, poi) # {}
      /\ Judged /\ batch_results \in [Stores -> SUBSET Users]
  BY <1>1, StoresArePois, DatabasesAssumption DEF OneInv, Known, Judged
<1>4. passes(up) => ~Less(score.gsk[u][poi], score.topk[u])
  <2>1. score.gsk[u][poi] \in Fractions /\ score.topk[u] \in Fractions
    <3>1. RelatedPois(u) # {}
      BY <1>3 DEF RelatedPois
    <3>2. score.gsk[u][poi] = GSKScore(u, poi) /\ score.topk[u] = TopkScore(u)
      BY <1>3 DEF Known, Scored
    <3> QED BY <1>3, <3>1, <3>2, ScoreTypes, TopkTypes
  <2> DEFINE x == score.topk[u]
             y == score.gsk[u][poi]
  <2> HIDE DEF x, y
  <2>2. x \in Fractions /\ y \in Fractions
    BY <2>1 DEF x, y
  <2>3. Less(x, y) => ~Less(y, x)
    BY <2>2, LessAsymmetric
  <2>4. Same(x, y) => ~Less(y, x)
    <3>1. x[1] * y[2] \in Nat /\ y[1] * x[2] \in Nat
      BY <2>2 DEF Fractions
    <3> QED BY <3>1 DEF Same, Less
  <2> QED BY <2>3, <2>4 DEF x, y
<1>5. /\ batch_results' \in [Stores -> SUBSET Users]
      /\ batch_results'[poi] = batch_results[poi] \cup {v \in {u} : passes(up)}
  <2> HIDE DEF passes
  <2> QED BY <1>2, <1>3
<1>6. Wins(u, poi) => passes(up)
  BY DEF Wins
<1>7. Judged'
  <2> HIDE DEF passes
  <2>1. \A v : Wins(v, poi)' <=> Wins(v, poi)
    BY <1>1, Frame
  <2>2. \A v : Shared(v, poi)' = Shared(v, poi)
    BY <1>1 DEF Shared
  <2>3. \A v \in batch_results'[poi] : ~Less(score.gsk[v][poi], score.topk[v])
    BY <1>3, <1>4, <1>5 DEF Judged
  <2>4. \A v \in Users : Wins(v, poi) /\ <<v, poi>> \in upEntryMark =>
          v \in candidate_User' \/ v \in batch_results'[poi]
    BY <1>1, <1>3, <1>5, <1>6 DEF Judged
  <2>5. \A v \in candidate_User' : v \in Users /\ Shared(v, poi) # {}
    BY <1>1, <1>3 DEF Judged
  <2> QED BY <1>1, <1>5, <2>1, <2>2, <2>3, <2>4, <2>5 DEF Judged
<1>8. Known' /\ OneKeyword' /\ OneRange' /\ \A v : Hopeful(v, poi)' <=> Hopeful(v, poi)
  BY <1>1, <1>3, KnownStays, Frame DEF OneInv, OneRange, Hopeful
<1> QED BY <1>1, <1>3, <1>7, <1>8 DEF OneInv

\* Returning changes nothing else.
LEMMA OneReturn == ASSUME OneInv, SingleReturn \/ UNCHANGED singleVars PROVE OneInv'
<1>1. UNCHANGED <<db, score, poi, occurring, upEntryMark, borderMark, Queue, node_highest, nodeMark,
                  candidate_User, batch_results>>
  BY DEF SingleReturn, ofBatch, marks, candidates, singleVars, vars
<1>2. pc' = pc \/ (pc = "verify" /\ candidate_User = {} /\ pc' = "done")
  BY DEF SingleReturn, singleVars, vars
<1>4. Judged' /\ Known' /\ OneKeyword' /\ OneRange'
  BY <1>1, JudgedStays, KnownStays, Frame DEF OneInv, OneRange
<1>5. \A u : Hopeful(u, poi)' <=> Hopeful(u, poi)
  BY <1>1, Frame DEF Hopeful
<1>6. ASSUME pc = "filter" PROVE OneSearch'
  <2>1. OneSearch
    BY <1>6 DEF OneInv
  <2>2. OneQueued'
    BY <1>1, <2>1, OneQueuedStill DEF OneSearch
  <2>3. \A u : /\ LedFor(u, poi) => LedFor(u, poi)'
               /\ Followed(u, poi) => Followed(u, poi)'
    <3>1. \A u : UserQueued(u, poi)' <=> UserQueued(u, poi)
      BY <1>1, Frame DEF UserQueued
    <3>2. \A n, b : Come(poi, n, b)' <=> Come(poi, n, b)
      BY <1>1, Frame DEF Come, Awaited
    <3>3. \A u, n, b : Way(u, poi, n, b)' <=> Way(u, poi, n, b)
      BY <1>1, Frame
    <3>4. \A u : LedFor(u, poi) => LedFor(u, poi)'
      BY <1>1, <3>1, <3>2, <3>3 DEF LedFor
    <3>5. \A u : Followed(u, poi) => Followed(u, poi)'
      BY <1>1, <3>1, <3>2, <3>3 DEF Followed
    <3> QED BY <3>4, <3>5
  <2>4. /\ \A u \in EarlyUsers(poi)' : <<u, poi>> \in upEntryMark
        /\ occurring[poi] = UsersWith(nonRareKeys(poi))' \ EarlyUsers(poi)'
    BY <1>1, <2>1, Frame DEF OneSearch
  <2>5. \A n \in nodeMark : Deserted(n)'
    BY <1>1, <2>1 DEF OneSearch, Deserted, OccursUnder
  <2> QED BY <1>1, <1>5, <2>1, <2>2, <2>3, <2>4, <2>5 DEF OneSearch
<1> QED BY <1>1, <1>2, <1>4, <1>5, <1>6 DEF OneInv

\* A query starts with nothing searched.
LEMMA OneAtFirst == ASSUME OneTree PROVE SingleInit /\ OneKeyword => OneInv
<1> SUFFICES ASSUME SingleInit, OneKeyword PROVE OneInv
  OBVIOUS
<1>1. /\ db \in Databases /\ score = ScoresOfDb /\ poi \in Stores
      /\ node_highest = LeafOf[db.pAt[poi]] /\ nodeMark = {} /\ borderMark = {} /\ Queue = {}
      /\ occurring = [p \in Stores |-> {}] /\ upEntryMark = {} /\ candidate_User = {}
      /\ batch_results = [p \in Stores |-> {}] /\ pc = "first"
  BY DEF SingleInit, SingleStart, Prepared
<1>2. Known
  <2>1. Scored
    BY <1>1 DEF Scored, ScoresOfDb
  <2>2. Bounded
    BY <1>1 DEF Bounded, ScoresOfDb
  <2> QED BY <1>1, <2>1, <2>2 DEF Known
<1>3. Judged
  BY <1>1 DEF Judged
<1>4. OneRange
  <2> DEFINE z == db.pAt[poi]
  <2>1. z \in Vertices
    BY <1>1, StoresArePois, DatabasesAssumption DEF Placed
  <2> HIDE DEF z
  <2>2. LeafOf[z] \in GTree /\ z \in Under[LeafOf[z]]
    <3>1. LeafOf[z] \in GTree /\ LeafOf[z] \in ToSet(gtreepath[z])
      BY <2>1, EveryPath
    <3> QED BY <2>1, <3>1 DEF Under
  <2> QED BY <1>1, <2>2 DEF OneRange, z
<1> QED BY <1>1, <1>2, <1>3, <1>4 DEF OneInv

\* No step of the query loses anybody.
LEMMA OneKept == ASSUME ShortestPaths, OneTree, OneInv, [SingleNext]_singleVars PROVE OneInv'
<1>1. CASE NaiveFilter \/ SingleFirstStep
  BY <1>1, OneNaive, OneFirst
<1>2. ASSUME NEW e \in Queue, SinglePopUser(e) \/ Discard(e) \/ GiveUp(e) \/ Expand(e)
      PROVE  OneInv'
  BY <1>2, OnePopUser, OneDiscard, OneExpand
<1>3. CASE Extend_Range \/ ReadBeforeTree
  BY <1>3, OneExtend, OneReadBefore
<1>4. ASSUME NEW u \in Users, SingleVerify(u)
      PROVE  OneInv'
  BY <1>4, OneVerify
<1>5. CASE SingleReturn \/ UNCHANGED singleVars
  BY <1>5, OneReturn
<1> QED BY <1>1, <1>2, <1>3, <1>4, <1>5 DEF SingleNext

\* Whoever is to be found is queued, beyond a queued border or out of the range.
LEMMA OneReaches ==
  ASSUME ShortestPaths, OneTree
  PROVE  OneInv => CustomersReachable
<1> SUFFICES ASSUME OneInv, pc = "filter", NEW u \in Users, Hopeful(u, poi),
                    ~(node_highest # NoNode /\ db.uAt[u] \notin Under[node_highest])
             PROVE  \E e \in Queue :
                      IF e.isUser THEN e.id = u
                      ELSE /\ e.node \notin nodeMark /\ db.uAt[u] \in Under[e.node]
                           /\ e.keys \cap db.uKeys[u] # {}
  BY DEF CustomersReachable, InLoop, Hopeful, StillFound
<1>1. OneSearch /\ LedFor(u, poi) /\ Followed(u, poi)
  BY DEF OneInv, OneSearch
<1>2. /\ poi \in Stores /\ Late(u, poi) /\ \A n \in nodeMark : db.uAt[u] \notin Under[n]
  BY OneLate
<1>3. UserQueued(u, poi) \/ \E n \in GTree : \E b \in Borders[n] : Way(u, poi, n, b) /\ Awaited(poi, n, b)
  <2> DEFINE p == poi
  <2>1. LedFor(u, p) /\ Followed(u, p) /\ p \in Stores
    BY <1>1, <1>2
  <2> HIDE DEF p
  <2>2. UserQueued(u, p) \/ \E n \in GTree : \E b \in Borders[n] : Way(u, p, n, b) /\ Awaited(p, n, b)
    BY <2>1, Descent DEF Followed, OneInv, Known
  <2> QED BY <2>2 DEF p
<1>4. CASE UserQueued(u, poi)
  <2>1. UserEntry(poi, u).isUser /\ UserEntry(poi, u).id = u
    BY DEF UserEntry
  <2> QED BY <1>4, <2>1 DEF UserQueued
<1>5. ASSUME NEW n \in GTree, NEW b \in Borders[n], Way(u, poi, n, b), Awaited(poi, n, b)
      PROVE  \E e \in Queue :
               /\ ~e.isUser /\ e.node \notin nodeMark /\ db.uAt[u] \in Under[e.node]
               /\ e.keys \cap db.uKeys[u] # {}
  <2> DEFINE e == BorderEntry(poi, n, b, nonRareKeys(poi))
  <2>1. e \in Queue /\ ~e.isUser /\ e.node = n /\ e.keys = nonRareKeys(poi)
    BY <1>5 DEF Awaited, BorderEntry
  <2>2. nonRareKeys(poi) \cap db.uKeys[u] # {}
    <3>1. PICK t : nonRareKeys(poi) = {t} /\ Shared(u, poi) = {t}
      BY <1>2, KeyOfLate DEF OneInv, Known
    <3> QED BY <3>1 DEF Shared
  <2>3. db.uAt[u] \in Under[n] /\ n \notin nodeMark
    BY <1>2, <1>5 DEF Way
  <2> HIDE DEF e
  <2> QED BY <2>1, <2>2, <2>3
<1> QED BY <1>3, <1>4, <1>5

\* No mark, bound or end of the extension hides a user that the POI wins within
\* their leaves (query_plus.h:2567-2733, query_basic.h:11996-12160).
THEOREM CustomersAreReachable ==
  ASSUME ShortestPaths, OneTree
  PROVE  SingleSpec /\ OneKeyword => []CustomersReachable
<1>1. OneInv /\ [SingleNext]_singleVars => OneInv'
  BY OneKept
<1>2. OneInv => CustomersReachable
  BY OneReaches
<1>3. SingleInit /\ OneKeyword => OneInv
  BY OneAtFirst
<1> QED BY <1>1, <1>2, <1>3, PTL DEF SingleSpec

\* A query that returns has every user that the POI wins within their leaves, and
\* none for whom it is not among the K best (query_plus.h:2440-2812).
THEOREM CustomersAreExact ==
  ASSUME ShortestPaths, OneTree
  PROVE  SingleSpec /\ OneKeyword => []CustomersExact
<1>1. OneInv /\ [SingleNext]_singleVars => OneInv'
  BY OneKept
<1>2. OneInv => CustomersExact
  BY DEF OneInv, CustomersExact, Judged, Hopeful, WinsWithin
<1>3. SingleInit /\ OneKeyword => OneInv
  BY OneAtFirst
<1> QED BY <1>1, <1>2, <1>3, PTL DEF SingleSpec

-----------------------------------------------------------------------------
(* The queries, of which one runs.                                         *)

\* The invariant of the one that runs.
QInv ==
  /\ query = "batch" => SInv /\ Few
  /\ query = "filter" => FInv
  /\ query = "single" => OneInv

\* Each starts in its invariant.
LEMMA QueryStarts == ASSUME OneTree PROVE QueriesInit /\ OneKeyword => QInv
<1> SUFFICES ASSUME QueriesInit, OneKeyword PROVE QInv
  OBVIOUS
<1>1. CASE query = "batch"
  <2>1. Init
    BY <1>1 DEF QueriesInit, Init
  <2> QED BY <1>1, <2>1, NobodyYet, NothingKept DEF QInv
<1>2. CASE query = "filter"
  <2>1. FastInit
    BY <1>2 DEF QueriesInit, FastInit
  <2> QED BY <1>2, <2>1, FInvAtFirst DEF QInv
<1>3. CASE query = "single"
  <2>1. SingleInit
    BY <1>3 DEF QueriesInit, SingleInit
  <2> QED BY <1>3, <2>1, OneAtFirst DEF QInv
<1> QED BY <1>1, <1>2, <1>3 DEF QueriesInit

\* A step is one of the query that runs.
LEMMA QueryStays ==
  ASSUME ShortestPaths, OneTree, QInv, [QueriesNext]_allVars
  PROVE  QInv'
<1>1. query' = query
  BY DEF QueriesNext, allVars
<1>2. CASE query = "batch"
  <2>1. [Next]_vars
    BY <1>2 DEF QueriesNext, allVars
  <2>2. SInv' /\ Few'
    BY <1>2, <2>1, NoneLost, FewStay DEF QInv, SInv
  <2> QED BY <1>1, <1>2, <2>2 DEF QInv
<1>3. CASE query = "filter"
  <2>1. [FastNext]_fastVars
    BY <1>3 DEF QueriesNext, allVars, fastVars
  <2>2. FInv'
    BY <1>3, <2>1, FInvKept DEF QInv
  <2> QED BY <1>1, <1>3, <2>2 DEF QInv
<1>4. CASE query = "single"
  <2>1. [SingleNext]_singleVars
    BY <1>4 DEF QueriesNext, allVars, singleVars, singles
  <2>2. OneInv'
    BY <1>4, <2>1, OneKept DEF QInv
  <2> QED BY <1>1, <1>4, <2>2 DEF QInv
<1> QED BY <1>1, <1>2, <1>3, <1>4 DEF QInv

\* The inductive invariant of whichever of the three queries has been started:
\* its own, under the same conditions.
THEOREM QueriesInvariant ==
  ASSUME ShortestPaths, OneTree
  PROVE  QueriesSpec /\ OneKeyword => []QInv
<1>1. QInv /\ [QueriesNext]_allVars => QInv'
  BY QueryStays
<1>2. QueriesInit /\ OneKeyword => QInv
  BY QueryStarts
<1> QED BY <1>1, <1>2, PTL DEF QueriesSpec

\* A batch query keeps a store for a user that it wins until it is returned for
\* him (query_plus.h:4426-4442, 4594-4690).
THEOREM BatchWinnersKept ==
  ASSUME ShortestPaths, OneTree
  PROVE  QueriesSpec /\ OneKeyword => []BatchKeepsWinners
<1>1. QInv => BatchKeepsWinners
  BY SearchTypes DEF QInv, BatchKeepsWinners
<1> QED BY <1>1, QueriesInvariant, PTL

\* No mark, bound or extension of a batch loses a user that a store wins within
\* their leaves (query_plus.h:4381-4591).
THEOREM BatchWinnersReached ==
  ASSUME ShortestPaths, OneTree
  PROVE  QueriesSpec /\ OneKeyword => []BatchReachesWinners
<1>1. QInv => BatchReachesWinners
  BY SearchReaches DEF QInv, BatchReachesWinners
<1> QED BY <1>1, QueriesInvariant, PTL

\* A batch returns the users a store wins within their leaves, and nobody that it
\* is not among the K best POIs of (query_plus.h:4594-4690).
THEOREM BatchIsExact ==
  ASSUME ShortestPaths, OneTree
  PROVE  QueriesSpec /\ OneKeyword => []BatchExact
<1>1. QInv => BatchExact
  BY SearchExact DEF QInv, BatchExact
<1> QED BY <1>1, QueriesInvariant, PTL

\* The filter is sound: no store has two places of a user, a leaf dealt with is
\* done, and the candidates lack no user that a store wins within their leaves
\* (query_plus.h:5403-6059).
THEOREM FilterIsSound ==
  ASSUME ShortestPaths, OneTree
  PROVE  QueriesSpec /\ OneKeyword => []FilterSound
<1>1. QInv => FilterSound
  <2>1. FInv => StoresDistinct
    BY DEF FInv, FShape, Once, StoresDistinct
  <2>2. FInv => LeavesDone
    BY DEF FInv
  <2> QED BY <2>1, <2>2, FilterComplete DEF QInv, FilterSound
<1> QED BY <1>1, QueriesInvariant, PTL

\* The query of one store hides nobody that it wins within their leaves and
\* returns them, and nobody with K better ones (query_plus.h:2440-2812).
THEOREM SingleIsSound ==
  ASSUME ShortestPaths, OneTree
  PROVE  QueriesSpec /\ OneKeyword => []SingleSound
<1>1. QInv => SingleSound
  <2>1. OneInv => CustomersExact
    BY DEF OneInv, CustomersExact, Judged, Hopeful, WinsWithin
  <2> QED BY <2>1, OneReaches DEF QInv, SingleSound
<1> QED BY <1>1, QueriesInvariant, PTL

=============================================================================
