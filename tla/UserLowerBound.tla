--------------------------- MODULE UserLowerBound ---------------------------
(***************************************************************************)
(* getUserLCL_NVD (query_basic.h): a lower bound of the score of a user's  *)
(* K-th best POI, that of the K-th best of the first POIs found for the    *)
(* user's keywords.  The bound of a user is kept for later calls.          *)
(*                                                                         *)
(* Distances are upper bounds, by the ends Ni of both roads.  A read       *)
(* past the end of a posting list or from an empty queue, of which no      *)
(* outcome is defined, leads to the state "undefined".                     *)
(***************************************************************************)
EXTENDS NVDIndex

CONSTANT Upper     \* vertex -> vertex -> what getDistanceUpper_PHL asks phl for

\* What phl.Query gives unscaled is no less than the distance.
UpperAbove ==
  \A v, w \in Vertices : Upper[v][w] \in Nat /\ Dist[v][w] <= Upper[v][w]

VARIABLES
  usr, listed,    \* the call: its user, the keywords done
  polled,         \* polled_object_lists
  boundQueue,     \* its entries: <<POI, keyword>>
  usr_SBCache,    \* user -> bound
  result, at      \* what the last call returned; where this one is

lclData == <<db, score, nvd>>
lclVars == <<lclData, usr, listed, polled, boundQueue, usr_SBCache, result, at>>

\* Of the cache: neither K nor alpha is in it, which are those of every call.
BugByPlace(u) == db.uAt[u]
Key(u) == u

Neither == <<-1, 1>>     \* returned for a user without any POI
\* getDistanceUpper_Oracle
Far(p) == Upper[db.uAt[usr]][db.pAt[p]] + db.uDis[usr] + db.pDis[p]
Bound(p) == <<Alpha + tfIDF_termSet(Shared(usr, p)), 1 + Far(p)>>
-----------------------------------------------------------------------------
LCLStart ==
  /\ usr \in Users /\ listed = {} /\ polled = <<>> /\ boundQueue = {}
  /\ usr_SBCache = <<>> /\ result = Neither /\ at = "idle"
LCLInit == Prepared /\ LCLStart

Call ==
  /\ at = "idle"
  /\ \E u \in Users : Key(u) \notin DOMAIN usr_SBCache /\ usr' = u
  /\ listed' = {} /\ polled' = <<>> /\ boundQueue' = {}
  /\ at' = "fill"
  /\ UNCHANGED <<lclData, usr_SBCache, result>>

CallCached ==
  /\ at = "idle"
  /\ \E u \in Users :
       /\ Key(u) \in DOMAIN usr_SBCache
       /\ usr' = u /\ result' = usr_SBCache[Key(u)]
  /\ UNCHANGED <<lclData, listed, polled, boundQueue, usr_SBCache, at>>

\* Those of S not polled yet.
NotPolled(S) == S \ ToSet(polled)

\* POIs of S are pushed for keyword t.
Push(S, t, Q) ==
  /\ polled' = polled \o SetToSeq(NotPolled(S))
  /\ boundQueue' = Q \cup {<<p, t>> : p \in NotPolled(S)}

LCLFill ==
  /\ at = "fill"
  /\ \E t \in Keywords(usr) \ listed :
       /\ Push(IF Frequent(t) THEN getNNPOIs(db.uAt[usr], t) ELSE With(t), t, boundQueue)
       /\ listed' = listed \cup {t}
  /\ UNCHANGED <<lclData, usr, usr_SBCache, result, at>>

hasFrequentKey == \E t \in Keywords(usr) : Frequent(t)

EndFill ==
  /\ at = "fill" /\ listed = Keywords(usr)
  /\ IF boundQueue = {} THEN result' = Neither /\ at' = "idle"
     ELSE IF ~hasFrequentKey /\ Len(polled) < K THEN result' = <<0, 1>> /\ at' = "idle"
     ELSE at' = "poll" /\ UNCHANGED result
  /\ UNCHANGED <<lclData, usr, listed, polled, boundQueue, usr_SBCache>>

BugKept(Q, e) == Q
Popped(Q, e) == Q \ {e}

BugNoneAdjacent(p, t) == {}
Adjacent(p, t) == getPOIAdj(p, t)

\* The place in a posting list stays 1, the second: a list that has one was
\* pushed as a whole, of a list of one it is past the end.
LCLPoll ==
  /\ at = "poll" /\ Len(polled) < K
  /\ \E e \in boundQueue :
       /\ \A f \in boundQueue : Far(e[1]) <= Far(f[1])
       /\ IF Frequent(e[2])
            THEN Push(Adjacent(e[1], e[2]), e[2], Popped(boundQueue, e)) /\ UNCHANGED at
            ELSE /\ boundQueue' = Popped(boundQueue, e)
                 /\ at' = IF Cardinality(With(e[2])) = 1 THEN "undefined" ELSE at
                 /\ UNCHANGED polled
  /\ UNCHANGED <<lclData, usr, listed, usr_SBCache, result>>

LCLPollEmpty ==
  /\ at = "poll" /\ Len(polled) < K /\ boundQueue = {}
  /\ at' = "undefined"
  /\ UNCHANGED <<lclData, usr, listed, polled, boundQueue, usr_SBCache, result>>

LCLReturn ==
  /\ at = "poll" /\ Len(polled) >= K
  /\ result' = KthBest([j \in DOMAIN polled |-> Bound(polled[j])])
  /\ usr_SBCache' = Put(usr_SBCache, Key(usr), result')
  /\ at' = "idle"
  /\ UNCHANGED <<lclData, usr, listed, polled, boundQueue>>

\* A call runs on; that there is another one is not assumed.
LCLStep == LCLFill \/ EndFill \/ LCLPoll \/ LCLPollEmpty \/ LCLReturn
LCLNext == Call \/ CallCached \/ LCLStep

LCLSpec == LCLInit /\ [][LCLNext]_lclVars /\ WF_lclVars(LCLStep)
-----------------------------------------------------------------------------
(* Properties.                                                             *)

\* Types; no POI is polled twice, and what is in the queue was polled.
LCLTypeOK ==
  /\ usr \in Users /\ (at = "fill" => listed \subseteq Keywords(usr))
  /\ ToSet(polled) \subseteq Pois /\ IsInjective(polled)
  /\ \A e \in boundQueue : e[1] \in ToSet(polled) \cap With(e[2])
  /\ DOMAIN usr_SBCache \subseteq Users
  /\ at \in {"idle", "fill", "poll", "undefined"}

\* What a call returns is never above the score of the user's K-th best POI,
\* if there is any, be it computed or kept: a store below it can be dropped
\* for the user.
IsLowerBound == at = "idle" /\ RelatedPois(usr) # {} => ~Less(score.topk[usr], result)

\* A user with frequent keywords only, of which no two share a POI, is always
\* served: the diagram has K POIs to poll.
ServedByDiagram ==
  (/\ \A t \in Keywords(usr) : Frequent(t) /\ Cardinality(With(t)) >= K
   /\ \A t, x \in Keywords(usr) : t # x => With(t) \cap With(x) = {}) => at # "undefined"

=============================================================================
