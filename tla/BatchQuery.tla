------------------------------ MODULE BatchQuery ------------------------------
(***************************************************************************)
(* RkGSKQ_Batch_NVD_SyntheticData (query_plus.h): for every store of the   *)
(* chain, the users that have it among their K best POIs, computed for all *)
(* stores together.  Each store evaluates the users its social and rare-   *)
(* keyword lists give; then one queue, ordered by distance, searches the   *)
(* G-tree for the others, from each store's leaf outwards, pruning at the  *)
(* borders of nodes; BatchExtend_Range (query_basic.h) widens the range    *)
(* when the queue runs empty.  The users that pass their lower bound are   *)
(* verified with a top-K query.                                            *)
(*                                                                         *)
(* Scores that differ keep their order through the float they are stored   *)
(* in on the way (class Result, TopkQueryCurrentResult); a score compared  *)
(* with its own stored value may come out larger or not.                   *)
(***************************************************************************)
EXTENDS RoadIndex

CONSTANT Databases  \* what db may be

\* A lower bound polls only POIs that share a keyword with the user; the bound
\* of a frequent keyword expands K POIs that have it.
ASSUME DatabasesAssumption ==
  \A d \in Databases :
    /\ Placed(d)
    /\ \A u \in Users : d.polled[u] \subseteq {p \in Pois : d.pKeys[p] \cap d.uKeys[u] # {}}
    /\ \A b \in Vertices, t \in Terms :
         LET with == {p \in Pois : t \in d.pKeys[p]}
         IN  Cardinality(with) > K => /\ d.expanded[b][t] \subseteq with
                                      /\ Cardinality(d.expanded[b][t]) = K

VARIABLES
  poi_th,        \* how many stores have had their first step
  occurring,     \* store -> users its search is for (uOCCURList of the root)
  upEntryMark,   \* <<u, p>> evaluated
  borderMark,    \* <<border, node, store>> evaluated
  Queue,         \* user and border entries
  T_max,         \* store -> the highest node its search has reached
  candidate_usr_related_store,  \* user -> at most K stores
  candidate_User,
  batch_results, \* store -> users
  pc

marks      == <<upEntryMark, borderMark>>
candidates == <<candidate_usr_related_store, candidate_User>>
vars == <<db, score, poi_th, occurring, marks, Queue, T_max, candidates, batch_results, pc>>

\* uOCCURList of node n.
OccursUnder(p, n) == {u \in occurring[p] : db.uAt[u] \in Under[n]}
\* uCLUSTERList: the keywords that users of n with t have with t.
Cluster(p, n, t) ==
  UNION {db.uKeys[u] \cap nonRareKeys(p) :
           u \in {v \in OccursUnder(p, n) : t \in db.uKeys[v]}}

UserEntry(p, u) ==
  [isUser |-> TRUE, id |-> u, p |-> p, node |-> LeafOf[db.uAt[u]], keys |-> {},
   dist |-> usrToPOIDistance(u, p)]
BorderEntry(p, n, b, keys) ==
  [isUser |-> FALSE, id |-> b, p |-> p, node |-> n, keys |-> keys,
   dist |-> PoiDist(b, p)]

-----------------------------------------------------------------------------
(* Pruning.                                                                *)

\* The loop over rank_term, bounds descending: a term is removed when its
\* bound beats the best score a user with it, at distance d, can have; with[t]
\* are the terms such a user may have.
Prune(b, d, keys, with) ==
  LET upper(t, left) == <<Alpha + tfIDF_termSet(with[t] \cap left), 1 + d>>
  IN  MapThenFoldSet(LAMBDA t, left : IF Less(upper(t, left), score.sb[b][t])
                                      THEN left \ {t} ELSE left,
                     keys, LAMBDA t : t,
                     LAMBDA S : CHOOSE t \in S : \A s \in S : ~Less(score.sb[b][s], score.sb[b][t]),
                     keys)

getBorder_SB_BatchNVD(e) == Prune(e.id, e.dist, e.keys, [t \in e.keys |-> e.keys])
getBorder_SB_BatchNVD_Cluster(e) ==
  Prune(e.id, e.dist, e.keys, [t \in e.keys |-> Cluster(e.p, e.node, t)])

-----------------------------------------------------------------------------
(* Evaluating users.                                                       *)

\* The sets of users of S that may pass `score > bound' for p: those that
\* beat it, and any of those that equal it.
Passing(p, S) ==
  {T \in SUBSET {u \in S : Shared(u, p) # {} /\ ~Less(score.gsk[u][p], score.lcl[u])} :
     \A u \in S : Less(score.lcl[u], score.gsk[u][p]) => u \in T}

\* Mutants of Kept: the size is never checked; the order of the queue is
\* that of the results, the best first.
BugKeepsAll(u, p) == {candidate_usr_related_store[u] \cup {p}}
BugPopsBest(u, p) ==
  LET all == candidate_usr_related_store[u] \cup {p}
  IN  IF Cardinality(all) <= K THEN {all}
      ELSE {all \ {q} : q \in {q \in all : \A r \in all : ~Less(score.gsk[u][q], score.gsk[u][r])}}

\* The stores a user keeps once p is pushed: beyond K the worst is popped.
Kept(u, p) ==
  LET all == candidate_usr_related_store[u] \cup {p}
  IN  IF Cardinality(all) <= K THEN {all}
      ELSE {all \ {q} : q \in {q \in all : \A r \in all : ~Less(score.gsk[u][r], score.gsk[u][q])}}

\* Users S are evaluated for p: marked, and those that pass become
\* candidates.
Evaluate(p, S) ==
  /\ upEntryMark' = upEntryMark \cup (S \X {p})
  /\ \E T \in Passing(p, S) :
       /\ candidate_User' = candidate_User \cup T
       /\ candidate_usr_related_store' \in
            {f \in [Users -> SUBSET Stores] :
               \A u \in Users : IF u \in T THEN f[u] \in Kept(u, p)
                                ELSE f[u] = candidate_usr_related_store[u]}

Unmarked(p) == {u \in Users : <<u, p>> \notin upEntryMark}

-----------------------------------------------------------------------------
\* The scores are there to read off.
Prepared == db \in Databases /\ score = ScoresOfDb
Start ==
  /\ poi_th = 0 /\ occurring = [p \in Stores |-> {}]
  /\ upEntryMark = {} /\ borderMark = {}
  /\ Queue = {} /\ T_max = <<>>
  /\ candidate_usr_related_store = [u \in Users |-> {}] /\ candidate_User = {}
  /\ batch_results = [p \in Stores |-> {}]
  /\ pc = "filter"
Init == Prepared /\ Start

SocialUsers(p) == {u \in Users : <<u, p>> \in db.friends}
UsersWith(terms) == UNION {getTermUserInvList(t) : t \in terms}

\* The first step of a store: friends of its visitors and users with its
\* less frequent keywords are evaluated, users of its own leaf are queued.
FirstStep ==
  /\ pc = "filter" /\ poi_th < Len(stores) /\ poi_th' = poi_th + 1
  /\ LET p      == stores[poi_th + 1]
         before == SocialUsers(p) \cup UsersWith(midKeys(p))
         early  == before \cup UsersWith(rareKeys(p))
         near   == {u \in UsersWith(nonRareKeys(p)) \ early :
                      LeafOf[db.uAt[u]] = LeafOf[db.pAt[p]]}
     IN  /\ Evaluate(p, early)
         /\ occurring' = [occurring EXCEPT ![p] = UsersWith(nonRareKeys(p)) \ before]
         /\ Queue' = Queue \cup {UserEntry(p, u) : u \in near}
         /\ T_max' = [q \in DOMAIN T_max \cup {p} |->
                        IF q = p THEN LeafOf[db.pAt[p]] ELSE T_max[q]]
  /\ UNCHANGED <<db, score, borderMark, batch_results, pc>>

Searching == pc = "filter" /\ poi_th = Len(stores)
IsTop(e) == e \in Queue /\ \A f \in Queue : e.dist <= f.dist
search == <<db, score, poi_th, occurring, T_max, batch_results, pc>>

PopUser(e) ==
  /\ Searching /\ IsTop(e) /\ e.isUser
  /\ Queue' = Queue \ {e}
  /\ Evaluate(e.p, {e.id} \cap Unmarked(e.p))
  /\ UNCHANGED <<search, borderMark>>

BorderKey(e) == <<e.id, e.node, e.p>>

\* The border is evaluated already, for whichever keywords.
PopSeenBorder(e) ==
  /\ Searching /\ IsTop(e) /\ ~e.isUser /\ BorderKey(e) \in borderMark
  /\ Queue' = Queue \ {e}
  /\ UNCHANGED <<search, marks, candidates>>

\* What a border entry leads to when keys are left after pruning.
Beyond(e, keys) ==
  LET related == UNION {getUsrTermRelatedEntry(t, e.node) : t \in keys}
  IN  IF isleaf(e.node) THEN {UserEntry(e.p, u) : u \in related \cap Unmarked(e.p)}
      ELSE {f \in UNION {{BorderEntry(e.p, c, b, keys) : b \in Borders[c]} : c \in related} :
              BorderKey(f) \notin borderMark}

PopBorder(e) ==
  /\ Searching /\ IsTop(e) /\ ~e.isUser /\ BorderKey(e) \notin borderMark
  /\ borderMark' = borderMark \cup {BorderKey(e)}
  /\ IF OccursUnder(e.p, e.node) = {} THEN Queue' = Queue \ {e}
     ELSE \E keys \in {getBorder_SB_BatchNVD_Cluster(e)} :
            Queue' = (Queue \ {e}) \cup Beyond(e, keys)
  /\ UNCHANGED <<search, upEntryMark, candidates>>

-----------------------------------------------------------------------------
(* BatchExtend_Range.                                                      *)

\* Children of `above' on other branches than `below' with users for p.
Siblings(p, above, below) ==
  (UNION {getUsrTermRelatedEntry(t, above) : t \in nonRareKeys(p)}) \ {below}

\* Mutant of Climb: the node recorded is the one above that whose children are
\* searched.
BugClimbsTooFar(p, n) ==
  LET path  == <<n>> \o Above(n)
      stops == {j \in 2 .. Len(path) : Siblings(p, path[j], path[j-1]) # {}}
  IN  IF stops = {} THEN [node |-> n, entries |-> {}]
      ELSE [node    |-> path[Min({Min(stops) + 1, Len(path)})],
            entries |-> Siblings(p, path[Min(stops)], path[Min(stops)-1])]

\* Where p's climb from n stops: the node reached, and the children to
\* search.  Without any, n is kept.
Climb(p, n) ==
  LET path  == <<n>> \o Above(n)
      stops == {j \in 2 .. Len(path) : Siblings(p, path[j], path[j-1]) # {}}
  IN  IF stops = {} THEN [node |-> n, entries |-> {}]
      ELSE [node    |-> path[Min(stops)],
            entries |-> Siblings(p, path[Min(stops)], path[Min(stops)-1])]

\* Key_upper: the keywords not pruned at every border of n.
KeysBeyond(p, n) ==
  UNION {getBorder_SB_BatchNVD(BorderEntry(p, n, b, nonRareKeys(p))) : b \in Borders[n]}

Climbing == {p \in DOMAIN T_max : T_max[p] # Root}
Reached == [p \in Climbing |-> Climb(p, T_max[p])]
TermsUnder(c) == UNION {db.uKeys[u] : u \in {v \in Users : db.uAt[v] \in Under[c]}}

\* Where the climbs of the stores lead, and the entries of the children found.
GoesOn(p, n) == n = Root \/ KeysBeyond(p, n) # {}
Entries(p, children) ==
  UNION {{BorderEntry(p, c, b, nonRareKeys(p) \cap TermsUnder(c)) : b \in Borders[c]} :
           c \in children}

Extend ==
  /\ Searching /\ Queue = {} /\ DOMAIN T_max # {}
  /\ \E reached \in {Reached} :
       /\ T_max' = [p \in {q \in Climbing : GoesOn(q, reached[q].node)} |-> reached[p].node]
       /\ \E found \in {UNION {Entries(p, reached[p].entries) : p \in Climbing}} :
            /\ Queue' = found
            /\ pc' = IF found = {} THEN "verify" ELSE pc
  /\ UNCHANGED <<db, score, poi_th, occurring, marks, candidates, batch_results>>

SearchEnds ==
  /\ Searching /\ Queue = {} /\ DOMAIN T_max = {}
  /\ pc' = "verify"
  /\ UNCHANGED <<db, score, poi_th, occurring, marks, Queue, T_max, candidates, batch_results>>

-----------------------------------------------------------------------------
\* A store kept for u has a score over u's K-th best; one that has that
\* score itself may pass or not.
Beats(u, p, roundsDown) ==
  \/ Less(score.topk[u], score.gsk[u][p])
  \/ roundsDown /\ Same(score.topk[u], score.gsk[u][p])

\* Mutant of Won: the stores are taken worst first, up to one that fails.
BugWorstFirst(u, roundsDown) ==
  {p \in candidate_usr_related_store[u] :
     \A q \in candidate_usr_related_store[u] :
       ~Less(score.gsk[u][p], score.gsk[u][q]) => Beats(u, q, roundsDown)}

\* The stores kept for u are taken best first, up to one that fails.
Won(u, roundsDown) ==
  {p \in candidate_usr_related_store[u] :
     \A q \in candidate_usr_related_store[u] :
       ~Less(score.gsk[u][q], score.gsk[u][p]) => Beats(u, q, roundsDown)}

Verify(u) ==
  /\ pc = "verify" /\ u \in candidate_User
  /\ candidate_User' = candidate_User \ {u}
  /\ \E roundsDown \in BOOLEAN :
       batch_results' = [p \in Stores |-> IF p \in Won(u, roundsDown)
                                          THEN batch_results[p] \cup {u} ELSE batch_results[p]]
  /\ UNCHANGED <<db, score, poi_th, occurring, marks, Queue, T_max, candidate_usr_related_store, pc>>

Return ==
  /\ pc = "verify" /\ candidate_User = {} /\ pc' = "done"
  /\ UNCHANGED <<db, score, poi_th, occurring, marks, Queue, T_max, candidates, batch_results>>

Next ==
  \/ FirstStep
  \/ \E e \in Queue : PopUser(e) \/ PopSeenBorder(e) \/ PopBorder(e)
  \/ Extend \/ SearchEnds
  \/ \E u \in Users : Verify(u)
  \/ Return

\* One thread runs the query; nothing in it waits.
Spec == Init /\ [][Next]_vars /\ WF_vars(Next)
-----------------------------------------------------------------------------
(* Properties *)

TypeOK ==
  /\ poi_th \in 0 .. Len(stores) /\ pc \in {"filter", "verify", "done"}
  /\ occurring \in [Stores -> SUBSET Users]
  /\ upEntryMark \subseteq Users \X Stores
  /\ \A e \in Queue : /\ e.p \in Stores /\ e.node \in GTree /\ e.keys \subseteq Terms
                      /\ e.id \in IF e.isUser THEN Users ELSE Borders[e.node]
  /\ DOMAIN T_max \subseteq Stores /\ \A p \in DOMAIN T_max : T_max[p] \in GTree
  /\ candidate_usr_related_store \in [Users -> SUBSET Stores]
  /\ \A u \in Users : Cardinality(candidate_usr_related_store[u]) <= K
  /\ candidate_User \subseteq Users
  /\ batch_results \in [Stores -> SUBSET Users]

\* p beats u's K-th best POI.
Wins(u, p) == Shared(u, p) # {} /\ Less(score.topk[u], score.gsk[u][p])

\* The winners that the search finds.  Of the others the way to the store need
\* not lead through the borders of the nodes over the end Ni, where the search
\* prunes (loadInfo.h:549-553, query_plus.h:4231): some are lost.
WinsWithin(u, p) == Wins(u, p) /\ Within(u, p)

\* A store that wins a user is never pushed out of the K kept for the user
\* by other stores, nor stopped by the lower bound (query_plus.h:4129-4135,
\* 4426-4442).
WinnersKept ==
  \A u \in Users, p \in Stores :
    <<u, p>> \in upEntryMark /\ Wins(u, p) =>
      /\ p \in candidate_usr_related_store[u]
      /\ pc = "filter" => u \in candidate_User

\* Where u may still be found for p: in the queue, beyond a queued border of
\* a node over it, or outside the range reached, which will be extended.
Reachable(u, p) ==
  \/ \E e \in Queue :
       /\ e.p = p
       /\ IF e.isUser THEN e.id = u
          ELSE db.uAt[u] \in Under[e.node] /\ e.keys \cap db.uKeys[u] # {}
  \/ p \in DOMAIN T_max /\ db.uAt[u] \notin Under[T_max[p]]

\* Every store has one frequent keyword at most.
OneKeyword == \A p \in Stores : \A t, s \in nonRareKeys(p) : t = s

\* The search loses no winner whose road, like the store's, stays within its
\* leaf: one not evaluated yet can still be reached, through every marking,
\* pruning and extension (query_plus.h:4381-4591).
WinnersReachable ==
  Searching => \A u \in Users, p \in Stores :
                 WinsWithin(u, p) /\ <<u, p>> \notin upEntryMark => Reachable(u, p)

\* In the end every store has every such user.
NoWinnerLost ==
  pc = "done" => \A u \in Users, p \in Stores : WinsWithin(u, p) => u \in batch_results[p]

\* A user that a store has been evaluated for and wins is returned for it, when
\* its turn has come (query_plus.h:4594-4690).
EvaluatedReturned ==
  pc # "filter" => \A u \in Users, p \in Stores :
                     <<u, p>> \in upEntryMark /\ Wins(u, p) =>
                       u \in candidate_User \/ u \in batch_results[p]

\* p is one of u's K best POIs: fewer than K are better.
AmongBest(u, p) ==
  /\ Shared(u, p) # {}
  /\ Cardinality({q \in Pois : Less(score.gsk[u][p], score.gsk[u][q])}) < K

\* Nobody is returned for a store that is not one of his K best POIs.
ResultsAreCustomers ==
  \A p \in Stores : \A u \in batch_results[p] : AmongBest(u, p)

\* The store is kept for the user until it is returned for him.
QueryKeepsWinners == TypeOK /\ WinnersKept /\ EvaluatedReturned

\* The answer has the users a store wins within their leaves, and nobody it is
\* not among the K best POIs of; ties may go either way.
QueryExact == NoWinnerLost /\ ResultsAreCustomers

\* query_plus.h:4682, printed when the best store kept for a candidate has
\* gsk_score_max >= Rk_u: "found potential user u".  So some store has it.
AnnouncedCounts ==
  [][\A u \in candidate_User \ candidate_User' :
       (\E p \in candidate_usr_related_store[u] : ~Less(score.gsk[u][p], score.topk[u]))
         => \E p \in Stores : u \in batch_results'[p]]_vars

\* query_basic.h:12308, "the expansion at p can be terminated": a store is
\* dropped from the extension only if nobody it wins is left outside.
StopsInTime ==
  [][\A p \in DOMAIN T_max \ DOMAIN T_max' :
       \A u \in Users :
         WinsWithin(u, p) /\ <<u, p>> \notin upEntryMark =>
           \/ db.uAt[u] \in Under[T_max[p]]
           \/ db.uAt[u] \in Under[Climb(p, T_max[p]).node]]_vars
=============================================================================
