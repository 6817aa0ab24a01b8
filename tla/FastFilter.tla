------------------------------ MODULE FastFilter ------------------------------
(***************************************************************************)
(* Fast_Batch_NVDFilter (query_plus.h): the search of RkGSKQ_Batch_NVD,    *)
(* made to give the candidate users only, for batchFilterThenHeuristic.    *)
(* It evaluates the users of a leaf as soon as one border of the leaf      *)
(* comes up, and those of a node with few users without going down.        *)
(*                                                                         *)
(* Entries, pruning and the extension of the range are those of            *)
(* BatchQuery.  A store's users of a leaf are evaluated without a mark of  *)
(* their own, so candidate_usr_related_store is here what it is in the     *)
(* code, a queue that may hold a store twice: user -> store -> how often.  *)
(***************************************************************************)
EXTENDS BatchQuery

CONSTANT NODE_SPARCITY_VALUE_HEURIS

VARIABLE nodepMark  \* <<node, p>> dealt with

fastVars == <<vars, nodepMark>>

Held(kept, p) == kept[p] > 0
Size(kept) == MapThenSumSet(LAMBDA p : kept[p], Stores)

\* Mutant of Pushed: of more than K the best one is popped.
BugPopsBestOf(u, kept, p) ==
  LET all == [kept EXCEPT ![p] = @ + 1]
  IN  IF Size(all) <= K THEN {all}
      ELSE {[all EXCEPT ![q] = @ - 1] :
              q \in {q \in Stores : /\ Held(all, q)
                                    /\ \A r \in Stores : Held(all, r) =>
                                         ~Less(score.gsk[u][q], score.gsk[u][r])}}

\* What u keeps once p is pushed: of more than K the worst is popped.
Pushed(u, kept, p) ==
  LET all == [kept EXCEPT ![p] = @ + 1]
  IN  IF Size(all) <= K THEN {all}
      ELSE {[all EXCEPT ![q] = @ - 1] :
              q \in {q \in Stores : /\ Held(all, q)
                                    /\ \A r \in Stores : Held(all, r) =>
                                         ~Less(score.gsk[u][r], score.gsk[u][q])}}

\* Those of S that pass their bound become candidates.
Score(p, S) ==
  \E T \in Passing(p, S) :
    /\ candidate_User' = candidate_User \cup T
    /\ candidate_usr_related_store' \in
         {f \in [Users -> UNION {Pushed(u, candidate_usr_related_store[u], p) : u \in T}
                            \cup Range(candidate_usr_related_store)] :
            \A u \in Users : IF u \in T THEN f[u] \in Pushed(u, candidate_usr_related_store[u], p)
                             ELSE f[u] = candidate_usr_related_store[u]}
Mark(p, S) == upEntryMark' = upEntryMark \cup (S \X {p})
-----------------------------------------------------------------------------
FastStart ==
  /\ poi_th = 0 /\ occurring = [p \in Stores |-> {}]
  /\ upEntryMark = {} /\ borderMark = {} /\ nodepMark = {}
  /\ Queue = {} /\ T_max = <<>>
  /\ candidate_usr_related_store = [u \in Users |-> [p \in Stores |-> 0]]
  /\ candidate_User = {}
  /\ batch_results = [p \in Stores |-> {}]
  /\ pc = "filter"
FastInit == Prepared /\ FastStart

\* Users evaluated before the lists of the search are built.
Before(p) == SocialUsers(p) \cup UsersWith(midKeys(p))

FastFirstStep ==
  /\ pc = "filter" /\ poi_th < Len(stores) /\ poi_th' = poi_th + 1
  /\ LET p     == stores[poi_th + 1]
         early == Before(p) \cup UsersWith(rareKeys(p))
         near  == {u \in UsersWith(nonRareKeys(p)) \ early :
                     LeafOf[db.uAt[u]] = LeafOf[db.pAt[p]]}
     IN  /\ Mark(p, early) /\ Score(p, early)
         /\ occurring' = [occurring EXCEPT ![p] = UsersWith(nonRareKeys(p)) \ Before(p)]
         /\ Queue' = Queue \cup {UserEntry(p, u) : u \in near}
         /\ T_max' = [q \in DOMAIN T_max \cup {p} |->
                        IF q = p THEN LeafOf[db.pAt[p]] ELSE T_max[q]]
  /\ UNCHANGED <<db, score, borderMark, nodepMark, batch_results, pc>>

FastPopUser(e) ==
  /\ Searching /\ IsTop(e) /\ e.isUser
  /\ Queue' = Queue \ {e}
  /\ LET S == {e.id} \cap Unmarked(e.p) IN Mark(e.p, S) /\ Score(e.p, S)
  /\ UNCHANGED <<search, borderMark, nodepMark>>

FastPopSeenBorder(e) == PopSeenBorder(e) /\ UNCHANGED nodepMark

NewBorder(e) ==
  /\ Searching /\ IsTop(e) /\ ~e.isUser /\ BorderKey(e) \notin borderMark
  /\ borderMark' = borderMark \cup {BorderKey(e)}

\* Mutants of LeafUsers: a leaf is dealt with at each of its borders; users
\* are evaluated that were so in the first step; one evaluated for a store is not for others.
BugEachBorder(e) ==
  (UNION {getUsrTermRelatedEntry(t, e.node) : t \in e.keys}) \cap Unmarked(e.p)
BugMarkedToo(e) ==
  IF <<e.node, e.p>> \in nodepMark THEN {}
  ELSE UNION {getUsrTermRelatedEntry(t, e.node) : t \in e.keys}

BugAnyStore(e) ==
  IF <<e.node, e.p>> \in nodepMark THEN {}
  ELSE {u \in UNION {getUsrTermRelatedEntry(t, e.node) : t \in e.keys} :
          \A p \in Stores : <<u, p>> \notin upEntryMark}

\* The users of a leaf that its first border evaluates.
LeafUsers(e) ==
  IF <<e.node, e.p>> \in nodepMark THEN {}
  ELSE (UNION {getUsrTermRelatedEntry(t, e.node) : t \in e.keys}) \cap Unmarked(e.p)

PopLeaf(e) ==
  /\ NewBorder(e) /\ isleaf(e.node)
  /\ Queue' = Queue \ {e}
  /\ nodepMark' = nodepMark \cup {<<e.node, e.p>>}
  /\ Score(e.p, LeafUsers(e))
  /\ UNCHANGED <<search, upEntryMark>>

Sparse(p, n) == Cardinality(OccursUnder(p, n)) < NODE_SPARCITY_VALUE_HEURIS

PopSparse(e) ==
  /\ NewBorder(e) /\ ~isleaf(e.node) /\ Sparse(e.p, e.node)
  /\ Queue' = Queue \ {e}
  /\ nodepMark' = nodepMark \cup {<<e.node, e.p>>}
  /\ LET S == OccursUnder(e.p, e.node) \cap Unmarked(e.p) IN Mark(e.p, S) /\ Score(e.p, S)
  /\ UNCHANGED search

PopInner(e) ==
  /\ NewBorder(e) /\ ~isleaf(e.node) /\ ~Sparse(e.p, e.node)
  /\ \E keys \in {getBorder_SB_BatchNVD_Cluster(e)} :
       Queue' = (Queue \ {e}) \cup Beyond(e, keys)
  /\ UNCHANGED <<search, upEntryMark, nodepMark, candidates>>

FastExtend ==
  /\ Searching /\ Queue = {} /\ DOMAIN T_max # {}
  /\ \E reached \in {Reached} :
       /\ T_max' = [p \in {q \in Climbing : GoesOn(q, reached[q].node)} |-> reached[p].node]
       /\ \E found \in {UNION {Entries(p, reached[p].entries) : p \in Climbing}} :
            /\ Queue' = found
            /\ pc' = IF found = {} THEN "done" ELSE pc
  /\ UNCHANGED <<db, score, poi_th, occurring, marks, nodepMark, candidates, batch_results>>

FastSearchEnds ==
  /\ Searching /\ Queue = {} /\ DOMAIN T_max = {}
  /\ pc' = "done"
  /\ UNCHANGED <<db, score, poi_th, occurring, marks, nodepMark, Queue, T_max, candidates,
                 batch_results>>

FastNext ==
  \/ FastFirstStep
  \/ \E e \in Queue : \/ FastPopUser(e) \/ FastPopSeenBorder(e)
                      \/ PopLeaf(e) \/ PopSparse(e) \/ PopInner(e)
  \/ FastExtend \/ FastSearchEnds

\* One thread runs the filter; nothing in it waits.
FastSpec == FastInit /\ [][FastNext]_fastVars /\ WF_fastVars(FastNext)
-----------------------------------------------------------------------------
(* Properties *)

Keeps(u, p) == u \in candidate_User /\ Held(candidate_usr_related_store[u], p)

\* A user of a leaf is not marked when evaluated; still no store takes two of
\* the K places a user has, and pushes another store out (query_plus.h:5885,
\* 5901-5925).
StoresDistinct ==
  \A u \in Users, p \in Stores : candidate_usr_related_store[u][p] <= 1

\* query_plus.h:5886, "mark that this node has been dealt with for this poi":
\* a leaf dealt with for p has nobody left that p wins, whichever of its
\* borders came first and with whichever keywords.
LeavesDone ==
  \A n \in GTree, p \in Stores :
    isleaf(n) /\ <<n, p>> \in nodepMark =>
      \A u \in Users : db.uAt[u] \in Under[n] /\ Wins(u, p) => Keeps(u, p)

\* The candidates given to the heuristic lack no user that a store wins within
\* their leaves, nor the store: none was pruned, left out of the range, or
\* pushed out by other stores of the user.
CandidatesComplete ==
  pc = "done" => \A u \in Users, p \in Stores : WinsWithin(u, p) => Keeps(u, p)
=============================================================================
