----------------------------- MODULE SingleQuery -----------------------------
(***************************************************************************)
(* The reverse top-k query of one POI (query_plus.h): the search from its  *)
(* leaf outwards, RkGSKQ_bottom2up_by_NVD_noneReturn with Extend_Range     *)
(* (query_basic.h), and RkGSKQ_NVD_Naive_optimized, which asks every user  *)
(* with one of its keywords.                                               *)
(*                                                                         *)
(* Scores, entries and pruning are those of BatchQuery, whose algorithm    *)
(* grew out of this one; marks and candidates are here for one POI.        *)
(*                                                                         *)
(* When the bounds end the search, node_highest becomes -1, and the next   *)
(* call of Extend_Range reads GTree[-1], memory before the tree.  It       *)
(* crashes, or reads zeros: a node without borders, child of the root.     *)
(***************************************************************************)
EXTENDS BatchQuery

VARIABLES
  poi,           \* the POI queried
  node_highest,  \* the highest node the search has reached, or NoNode
  nodeMark       \* nodes given up for want of users

singleVars == <<vars, poi, node_highest, nodeMark>>

NoNode == -1

SingleStart ==
  /\ poi \in Stores /\ node_highest = LeafOf[db.pAt[poi]] /\ nodeMark = {}
  /\ poi_th = 0 /\ occurring = [p \in Stores |-> {}] /\ T_max = <<>>
  /\ upEntryMark = {} /\ borderMark = {} /\ Queue = {}
  /\ candidate_usr_related_store = [u \in Users |-> {}] /\ candidate_User = {}
  /\ batch_results = [p \in Stores |-> {}]
  /\ pc = "first"
SingleInit == Prepared /\ SingleStart

\* What a single query never changes: the variables of a batch.
ofBatch == <<db, score, poi, poi_th, T_max, candidate_usr_related_store>>

\* Users S are marked, and those that pass their lower bound become
\* candidates.
Test(S) ==
  /\ upEntryMark' = upEntryMark \cup (S \X {poi})
  /\ \E T \in Passing(poi, S) : candidate_User' = candidate_User \cup T

\* RkGSKQ_NVD_Naive_optimized up to the verification.
NaiveFilter ==
  /\ pc = "first" /\ pc' = "verify"
  /\ Test(UsersWith(db.pKeys[poi]))
  /\ UNCHANGED <<ofBatch, occurring, borderMark, Queue, node_highest, nodeMark, batch_results>>

\* Users evaluated before the search: friends of visitors, users with rare
\* keywords and users with keywords few users have.
Early == SocialUsers(poi) \cup UsersWith(midKeys(poi)) \cup UsersWith(rareKeys(poi))

SingleFirstStep ==
  /\ pc = "first" /\ pc' = "filter"
  /\ Test(Early)
  /\ LET others == UsersWith(nonRareKeys(poi)) \ Early
     IN  /\ occurring' = [occurring EXCEPT ![poi] = others]
         /\ Queue' = {UserEntry(poi, u) : u \in {v \in others : LeafOf[db.uAt[v]] = node_highest}}
  /\ UNCHANGED <<ofBatch, borderMark, node_highest, nodeMark, batch_results>>
-----------------------------------------------------------------------------
(* The search.                                                             *)

InLoop == pc = "filter"
inSearch == <<ofBatch, occurring, node_highest, batch_results, pc>>

SinglePopUser(e) ==
  /\ InLoop /\ IsTop(e) /\ e.isUser
  /\ Queue' = Queue \ {e}
  /\ Test({e.id} \cap Unmarked(poi))
  /\ UNCHANGED <<inSearch, borderMark, nodeMark>>

Deserted(n) == OccursUnder(poi, n) = {}

\* Mutant of Discard: what needs no second look is not taken off the queue.
BugNotPopped(e) ==
  /\ InLoop /\ IsTop(e) /\ ~e.isUser
  /\ \/ e.node \in nodeMark
     \/ ~Deserted(e.node) /\ BorderKey(e) \in borderMark
  /\ UNCHANGED <<inSearch, marks, Queue, candidate_User, nodeMark>>

\* The node is given up already, or its border is evaluated already.
Discard(e) ==
  /\ InLoop /\ IsTop(e) /\ ~e.isUser
  /\ \/ e.node \in nodeMark
     \/ ~Deserted(e.node) /\ BorderKey(e) \in borderMark
  /\ Queue' = Queue \ {e}
  /\ UNCHANGED <<inSearch, marks, candidate_User, nodeMark>>

\* NODE_SPARCITY_VALUE is 1: a node is given up when it has no users left, and
\* there is nobody to push.
GiveUp(e) ==
  /\ InLoop /\ IsTop(e) /\ ~e.isUser /\ e.node \notin nodeMark /\ Deserted(e.node)
  /\ nodeMark' = nodeMark \cup {e.node}
  /\ Queue' = Queue \ {e}
  /\ UNCHANGED <<inSearch, marks, candidate_User>>

\* Users of a leaf that are not marked, or borders of children, seen or not.
BeyondBorder(e, keys) ==
  LET related == UNION {getUsrTermRelatedEntry(t, e.node) : t \in keys}
  IN  IF isleaf(e.node) THEN {UserEntry(poi, u) : u \in related \cap Unmarked(poi)}
      ELSE UNION {{BorderEntry(poi, c, b, keys) : b \in Borders[c]} : c \in related}

getBorder_SB_NVD_Cluster(e) ==
  Prune(e.id, e.dist, e.keys, [t \in e.keys |-> Cluster(poi, e.node, t)])

Expand(e) ==
  /\ InLoop /\ IsTop(e) /\ ~e.isUser /\ e.node \notin nodeMark /\ ~Deserted(e.node)
  /\ BorderKey(e) \notin borderMark
  /\ borderMark' = borderMark \cup {BorderKey(e)}
  /\ \E keys \in {getBorder_SB_NVD_Cluster(e)} : Queue' = (Queue \ {e}) \cup BeyondBorder(e, keys)
  /\ UNCHANGED <<inSearch, upEntryMark, candidate_User, nodeMark>>
-----------------------------------------------------------------------------
(* Extend_Range.                                                           *)

getBorder_SB_NVD(b, d, keys) == Prune(b, d, keys, [t \in keys |-> keys])
Key_upper(n) ==
  UNION {getBorder_SB_NVD(b, PoiDist(b, poi), nonRareKeys(poi)) : b \in Borders[n]}

\* The entries are those of the children found; without any the loop ends.
Enter(children) ==
  \E found \in {Entries(poi, children)} :
    /\ Queue' = found
    /\ pc' = IF found = {} THEN "verify" ELSE pc

\* Mutant of Found: a search that ends has no further children to enter.
BugEndsAtOnce(reached) ==
  IF reached.node # Root /\ Key_upper(reached.node) = {} THEN {} ELSE reached.entries

\* The children found on the climb are searched even when nobody beyond the
\* node reached can rank the POI high enough.
Found(reached) == reached.entries

Extend_Range ==
  /\ InLoop /\ Queue = {} /\ node_highest # NoNode
  /\ \E reached \in {Climb(poi, node_highest)} :
       /\ node_highest' = IF reached.node # Root /\ Key_upper(reached.node) = {}
                          THEN NoNode ELSE reached.node
       /\ Enter(Found(reached))
  /\ UNCHANGED <<ofBatch, occurring, marks, candidate_User, nodeMark, batch_results>>

ReadBeforeTree ==
  /\ InLoop /\ Queue = {} /\ node_highest = NoNode
  /\ \/ pc' = "crashed" /\ UNCHANGED <<Queue, node_highest>>
     \/ node_highest' = Root /\ Enter(Siblings(poi, Root, NoNode))
  /\ UNCHANGED <<ofBatch, occurring, marks, candidate_User, nodeMark, batch_results>>
-----------------------------------------------------------------------------
\* A candidate counts if its score for the POI is at least that of its K-th
\* best; one equal to it has been through a float and may be smaller.
SingleVerify(u) ==
  /\ pc = "verify" /\ u \in candidate_User
  /\ candidate_User' = candidate_User \ {u}
  /\ \E roundsUp \in BOOLEAN :
       batch_results' = IF \/ Less(score.topk[u], score.gsk[u][poi])
                           \/ Same(score.topk[u], score.gsk[u][poi]) /\ ~roundsUp
                        THEN [batch_results EXCEPT ![poi] = @ \cup {u}] ELSE batch_results
  /\ UNCHANGED <<ofBatch, occurring, marks, Queue, node_highest, nodeMark, pc>>

SingleReturn ==
  /\ pc = "verify" /\ candidate_User = {} /\ pc' = "done"
  /\ UNCHANGED <<ofBatch, occurring, marks, Queue, node_highest, nodeMark, candidate_User,
                 batch_results>>

SingleNext ==
  \/ NaiveFilter \/ SingleFirstStep
  \/ \E e \in Queue : SinglePopUser(e) \/ Discard(e) \/ GiveUp(e) \/ Expand(e)
  \/ Extend_Range \/ ReadBeforeTree
  \/ \E u \in Users : SingleVerify(u)
  \/ SingleReturn

\* One thread runs the query; nothing in it waits.
SingleSpec == SingleInit /\ [][SingleNext]_singleVars /\ WF_singleVars(SingleNext)
-----------------------------------------------------------------------------
(* Properties *)

\* Where a user not evaluated yet may still be found: in the queue, beyond a
\* queued border over it, or outside the range reached, unless the search has
\* been ended.
StillFound(u) ==
  \/ \E e \in Queue : IF e.isUser THEN e.id = u
                      ELSE /\ e.node \notin nodeMark /\ db.uAt[u] \in Under[e.node]
                           /\ e.keys \cap db.uKeys[u] # {}
  \/ node_highest # NoNode /\ db.uAt[u] \notin Under[node_highest]

\* No mark, bound or end of the extension hides a user that the POI wins, if
\* both roads stay within their leaves (query_plus.h:2567-2733,
\* query_basic.h:11996-12160).
CustomersReachable ==
  InLoop => \A u \in Users :
              WinsWithin(u, poi) /\ <<u, poi>> \notin upEntryMark => StillFound(u)

\* A query that returns has every such user, and none for whom the POI is not
\* among the K best; both algorithms, so there they differ in ties only.
CustomersExact ==
  pc = "done" => /\ \A u \in Users : WinsWithin(u, poi) => u \in batch_results[poi]
                 /\ \A u \in batch_results[poi] : ~Less(score.gsk[u][poi], score.topk[u])
=============================================================================
