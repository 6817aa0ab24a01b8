--------------------------- MODULE PrunedEstimater ---------------------------
(* One sampled graph of the pruned Monte Carlo method (PMC/pmc.hpp): its     *)
(* strongly connected components, the influence of each, computed with the   *)
(* help of a hub and kept until a seed takes part of it away.  An estimater  *)
(* is a record; each method is an operator that returns the new one.         *)
EXTENDS Integers, FiniteSets, Sequences, FiniteSetsExt, SequencesExt

CONSTANT n     \* the users are 0 .. n-1

User == 0 .. n - 1
Ascending(s) == SetToSortSeq(s, <)

Heads(edges, v) == {e[2] : e \in {f \in edges : f[1] = v}}
Tails(edges, v) == {e[1] : e \in {f \in edges : f[2] = v}}
Reversed(edges) == {<<e[2], e[1]>> : e \in edges}

\* What is reached from s over nodes of the set within.
RECURSIVE Reached(_, _, _)
Reached(edges, s, within) ==
  LET new == {e[2] : e \in {f \in edges : f[1] \in s /\ f[2] \in within}} \ s
  IN  IF new = {} THEN s ELSE Reached(edges, s \cup new, within)

\* ------------------------------------------- scc: the two passes with a stack
\* The top of the stack is its last element.
RECURSIVE FinishOrder(_, _, _, _)
FinishOrder(live, stack, vis, lis) ==
  IF stack = <<>> THEN lis
  ELSE LET v == Last(stack)[1]
           rest == Front(stack)
           heads == Ascending(Heads(live, v))
           pushed == Append(rest, <<v, 1>>) \o [i \in DOMAIN heads |-> <<heads[i], 0>>]
       IN  IF Last(stack)[2] = 1 THEN FinishOrder(live, rest, vis, Append(lis, v))
           ELSE IF v \in vis THEN FinishOrder(live, rest, vis, lis)
           ELSE FinishOrder(live, pushed, vis \cup {v}, lis)

NoComp == 0 - 1
RECURSIVE Components(_, _, _, _)
Components(live, stack, comp, k) ==
  IF stack = <<>> THEN [comp |-> comp, k |-> k]
  ELSE LET v == Last(stack)[1]
           arg == Last(stack)[2]
           c == IF arg = NoComp THEN k ELSE arg
           tails == Ascending(Tails(live, v))
       IN  IF comp[v] # NoComp THEN Components(live, Front(stack), comp, k)
           ELSE Components(live, Front(stack) \o [i \in DOMAIN tails |-> <<tails[i], c>>],
                           [comp EXCEPT ![v] = c], IF arg = NoComp THEN k + 1 ELSE k)

BugUserOrder(live) == [i \in 1 .. n |-> i - 1]
Finished(live) == FinishOrder(live, [i \in 1 .. n |-> <<i - 1, 0>>], {}, <<>>)
scc(live) ==
  LET lis == Finished(live)
  IN  Components(live, [i \in 1 .. n |-> <<lis[i], NoComp>>], [u \in User |-> NoComp], 0)

\* --------------------------------------------------------------- the methods
Weight(e, s) == Cardinality({u \in User : e.comp[u] \in s})
Nodes(e) == 0 .. e.n_super - 1
Known(e, v, value) == [e EXCEPT !.memo = @ \cup {v}, !.sigmas[v] = value]

\* sigma: what v0 reaches that is not removed.  From an ancestor of the hub the
\* search leaves out what the hub reaches and adds the hub's own value.
Pruned(e, v0) == IF v0 \in e.ancestor THEN e.descendant ELSE {}

RECURSIVE sigma(_, _)
sigma(e, v0) ==
  LET children == Heads(e.edges, v0) \ e.removed
      child    == CHOOSE c \in children : TRUE
      below    == sigma(e, child)
      atHub    == IF v0 \in e.ancestor THEN sigma(e, e.hub) ELSE e
      searched == Reached(e.edges, {v0}, Nodes(e) \ (e.removed \cup Pruned(e, v0)))
  IN  IF v0 \in e.memo THEN e
      ELSE IF v0 \in e.removed THEN Known(e, v0, 0)
      ELSE IF children = {} THEN Known(e, v0, Weight(e, {v0}))
      ELSE IF Cardinality(children) = 1 THEN Known(below, v0, below.sigmas[child] + Weight(e, {v0}))
      ELSE Known(atHub, v0, Weight(e, searched) + IF v0 \in e.ancestor THEN atHub.sigmas[e.hub] ELSE 0)

sigmaAll(e, s) == FoldLeft(sigma, e, Ascending(s))

\* first: the hub is the first node of greatest degree; its descendants and
\* ancestors are forgotten once every node has its value.
Hub(nodes, edges) ==
  LET Degree(v) == Cardinality(Heads(edges, v)) + Cardinality(Tails(edges, v))
  IN  Min({v \in nodes : \A w \in nodes : Degree(w) <= Degree(v)})

\* The components of a sample, the edges between them, and first; up are those
\* whose gain is to be computed.
estimater(live, up) ==
  LET parts == scc(live)
      nodes == 0 .. parts.k - 1
      edges == {<<parts.comp[x[1]], parts.comp[x[2]]>> : x \in live} \ {<<v, v>> : v \in nodes}
      hub   == Hub(nodes, edges)
      e     == sigmaAll([n_super |-> parts.k, comp |-> parts.comp, edges |-> edges, hub |-> hub,
                         descendant |-> Reached(edges, {hub}, nodes),
                         ancestor |-> Reached(Reversed(edges), {hub}, nodes) \ {hub},
                         memo |-> {}, removed |-> {}, sigmas |-> [v \in nodes |-> 0],
                         up |-> up, flag |-> TRUE], nodes)
  IN  [e EXCEPT !.descendant = {}, !.ancestor = {}]

init(live) == estimater(live, User)
init_POI(live, stores) == estimater(live, stores)

\* add: what a seed reaches is removed; it loses its value, and so does what
\* reaches it over nodes left.
BugForgetsRemovedOnly(e, rm) == rm
Outdated(e, rm) ==
  LET before == UNION {Tails(e.edges, v) : v \in rm} \ (e.removed \cup rm)
  IN  rm \cup Reached(Reversed(e.edges), before, Nodes(e))
add(e, u) ==
  LET rm  == Reached(e.edges, {e.comp[u]}, Nodes(e) \ e.removed)
      old == Outdated(e, rm)
  IN  [e EXCEPT !.removed = @ \cup rm, !.memo = @ \ old,
                !.up = {w \in User : e.comp[w] \in old}]

\* addPOI: one user after the other.
addPOI(e, users) == FoldLeft(add, e, Ascending(users))

\* update: the gains of the users in up, and the estimater that knows them.
update(e) == [sigmaAll(e, {e.comp[u] : u \in e.up}) EXCEPT !.flag = FALSE]
BugNotSubtracted(e, u) == 0
Former(e, u) == IF e.flag THEN 0 ELSE e.sigmas[e.comp[u]]
UserGain(gain, e) ==
  [u \in DOMAIN gain |->
     IF u \in e.up THEN gain[u] - Former(e, u) + update(e).sigmas[e.comp[u]] ELSE gain[u]]

\* updateForPOI: up is read as POIs; a POI that has no result has no users.
CustomersOf(results, ids) == UNION {results[p] : p \in ids \cap DOMAIN results}
updateForPOI(e, results) ==
  [sigmaAll(e, {e.comp[u] : u \in CustomersOf(results, e.up)}) EXCEPT !.flag = FALSE]
POIGain(gain, e, results) ==
  LET after == updateForPOI(e, results)
  IN  [p \in DOMAIN gain |->
         IF p \notin e.up THEN gain[p]
         ELSE gain[p] + MapThenSumSet(LAMBDA u : after.sigmas[e.comp[u]] - Former(e, u), results[p])]
==============================================================================
