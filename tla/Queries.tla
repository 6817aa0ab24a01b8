-------------------------------- MODULE Queries --------------------------------
(***************************************************************************)
(* The reverse top-k queries of query_plus.h: of all stores of a chain     *)
(* (BatchQuery), the filter made of it (FastFilter) and of one store       *)
(* (SingleQuery).  The driver (main.cpp) runs one of them at a time, and   *)
(* its marks and queue are its own.                                        *)
(***************************************************************************)
EXTENDS FastFilter, SingleQuery

VARIABLE query  \* the one that runs: "batch", "filter" or "single"

singles == <<poi, node_highest, nodeMark>>
allVars == <<vars, nodepMark, singles, query>>

NoFilter == nodepMark = {}
NoSingle == poi = stores[1] /\ node_highest = Root /\ nodeMark = {}

QueriesInit ==
  /\ Prepared
  /\ \/ query = "batch" /\ Start /\ NoFilter /\ NoSingle
     \/ query = "filter" /\ FastStart /\ NoSingle
     \/ query = "single" /\ SingleStart /\ NoFilter
QueriesNext ==
  /\ UNCHANGED query
  /\ \/ query = "batch" /\ Next /\ UNCHANGED <<nodepMark, singles>>
     \/ query = "filter" /\ FastNext /\ UNCHANGED singles
     \/ query = "single" /\ SingleNext /\ UNCHANGED nodepMark

\* One thread runs the query; nothing in it waits.
QueriesSpec == QueriesInit /\ [][QueriesNext]_allVars /\ WF_allVars(QueriesNext)
-----------------------------------------------------------------------------
(* Properties *)

\* A batch query keeps a store for a user that it wins until it is returned for
\* him, whatever stores compete for him (query_plus.h:4426-4442, 4594-4690).
BatchKeepsWinners == query = "batch" => QueryKeepsWinners

\* No mark, bound or extension loses a user that a store wins, if both roads stay
\* within their leaves or lie in one leaf (query_plus.h:4381-4591).
BatchReachesWinners == query = "batch" => WinnersReachable

\* The answer of a batch has these users, and nobody that the store is not among
\* the K best POIs of (query_plus.h:4594-4690).
BatchExact == query = "batch" => QueryExact

\* In the filter no store takes two places of a user, a leaf dealt with has
\* nobody left that the store wins, and the candidates lack no user that a store
\* wins within their leaves, nor the store (query_plus.h:5403-6059).
FilterSound == query = "filter" => StoresDistinct /\ LeavesDone /\ CandidatesComplete

\* Nothing hides a user that the POI of a single query wins within their leaves;
\* when it returns it has every such user and nobody with K better ones
\* (query_plus.h:2440-2812).
SingleSound == query = "single" => CustomersReachable /\ CustomersExact

\* Every query ends: the searches go up the tree and mark what they come to
\* (query_plus.h:4381, 5803, 2567).
QueriesEnd == <>(pc \in {"done", "crashed"})
=============================================================================
