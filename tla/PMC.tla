--------------------------------- MODULE PMC ---------------------------------
(* Influence maximisation by pruned Monte Carlo (PMC/pmc.cpp): R samples of  *)
(* the social network, then k greedy choices on the gains they give.  runIM  *)
(* chooses users, minPOIbyPMC stores, each by the users it is a result for.  *)
EXTENDS PrunedEstimater

CONSTANTS
  Networks,   \* sets of links <<u, v, sure>>: a sure one has probability 1
  R, k,
  Results     \* batch results: from store to users

VARIABLES
  es,         \* the social network
  results,
  infs,       \* the estimaters
  samples,    \* the live links of each
  gain,
  chosen,     \* seeds or POIs, in order
  curSeedSet,
  sel         \* what comes next

vars == <<es, results, infs, samples, gain, chosen, curSeedSet, sel>>

Links == {<<e[1], e[2]>> : e \in es}
SureLinks == {<<e[1], e[2]>> : e \in {f \in es : f[3]}}

\* One sample, for users or for stores.
Sample(New(_)) ==
  /\ sel = "sample"
  /\ \E live \in SUBSET Links :
       /\ SureLinks \subseteq live
       /\ infs' = Append(infs, New(live))
       /\ samples' = Append(samples, live)
  /\ sel' = IF Len(infs') = R THEN "update" ELSE "sample"
  /\ UNCHANGED <<es, results, gain, chosen, curSeedSet>>
SampleUsers == Sample(init)
SamplePOIs == Sample(LAMBDA live : init_POI(live, DOMAIN results))

UpdateUsers ==
  /\ sel = "update"
  /\ gain' = FoldLeft(UserGain, gain, infs)
  /\ infs' = [j \in DOMAIN infs |-> update(infs[j])]
  /\ sel' = "select"
  /\ UNCHANGED <<es, results, samples, chosen, curSeedSet>>

UpdatePOIs ==
  /\ sel = "update"
  /\ gain' = FoldLeft(LAMBDA g, e : POIGain(g, e, results), gain, infs)
  /\ infs' = [j \in DOMAIN infs |-> updateForPOI(infs[j], results)]
  /\ sel' = "select"
  /\ UNCHANGED <<es, results, samples, chosen, curSeedSet>>

AfterChoice == IF Len(chosen') = k THEN "return" ELSE "update"

\* The first of greatest gain.
BugLastGreater(s) == Max({x \in s : x = Min(s) \/ gain[x] > gain[Min(s)]})
Best(s) == Min({x \in s : \A y \in s : gain[y] <= gain[x]})

SelectUser ==
  /\ sel = "select"
  /\ chosen' = Append(chosen, Best(User))
  /\ infs' = [j \in DOMAIN infs |-> add(infs[j], Best(User))]
  /\ sel' = AfterChoice
  /\ UNCHANGED <<es, results, samples, gain, curSeedSet>>

Unselected == DOMAIN results \ ToSet(chosen)
SelectPOI ==
  /\ sel = "select"
  /\ LET p == Best(Unselected)
     IN  /\ chosen' = Append(chosen, p)
         /\ infs' = [j \in DOMAIN infs |-> addPOI(infs[j], results[p])]
         /\ curSeedSet' = curSeedSet \cup results[p]
  /\ sel' = AfterChoice
  /\ UNCHANGED <<es, results, samples, gain>>

ReturnUsers ==
  /\ sel = "return" /\ sel' = "done"
  /\ curSeedSet' = curSeedSet \cup ToSet(chosen)
  /\ UNCHANGED <<es, results, infs, samples, gain, chosen>>

\* The seed set is replaced by fixed users on the way out.
ReturnPOIs ==
  /\ sel = "return" /\ sel' = "done"
  /\ curSeedSet' = 30 .. 69
  /\ UNCHANGED <<es, results, infs, samples, gain, chosen>>

Init ==
  /\ es \in Networks /\ infs = <<>> /\ samples = <<>> /\ chosen = <<>>
  /\ curSeedSet = {} /\ sel = "sample"
InitUsers == Init /\ results = <<>> /\ gain = [u \in User |-> 0]
InitPOIs == Init /\ results \in Results /\ gain = [p \in DOMAIN results |-> 0]

NextUsers == SampleUsers \/ UpdateUsers \/ SelectUser \/ ReturnUsers
NextPOIs == SamplePOIs \/ UpdatePOIs \/ SelectPOI \/ ReturnPOIs

runIM == InitUsers /\ [][NextUsers]_vars
minPOIbyPMC == InitPOIs /\ [][NextPOIs]_vars

\* --------------------------------------------------------------- properties
\* What users reach in sample j, themselves included.
Influence(j, users) == Reached(samples[j], users, User)

Seeds == IF results = <<>> THEN ToSet(chosen) ELSE CustomersOf(results, ToSet(chosen))

\* What a user adds to the seeds, over all samples.
Marginal(u) ==
  LET In(j) == Cardinality(Influence(j, {u}) \ Influence(j, Seeds))
  IN  MapThenSumSet(In, DOMAIN samples)

TypeOK ==
  /\ Len(infs) = Len(samples) /\ Len(infs) <= R /\ Len(chosen) <= k
  /\ \A j \in DOMAIN infs :
       /\ infs[j].memo \cup infs[j].removed \subseteq Nodes(infs[j])
       /\ infs[j].sigmas \in [Nodes(infs[j]) -> 0 .. n]

\* scc puts two users in one component exactly if each reaches the other
\* (pmc.cpp:110), by a finishing order and a search of the reversed links.
ComponentsExact ==
  \A j \in DOMAIN infs : \A u, v \in User :
    infs[j].comp[u] = infs[j].comp[v] <=> v \in Influence(j, {u}) /\ u \in Influence(j, {v})

\* A value that is kept is the number of users its component reaches and no seed
\* does, whatever was pruned at the hub, chained through only children, or kept
\* while seeds were added (pmc.hpp:161).
SigmaExact ==
  \A j \in DOMAIN infs : \A u \in User :
    infs[j].comp[u] \in infs[j].memo =>
      infs[j].sigmas[infs[j].comp[u]] = Cardinality(Influence(j, {u}) \ Influence(j, Seeds))

\* What is removed from a sample is what the seeds reach there (pmc.hpp:397).
RemovedIsReached ==
  \A j \in DOMAIN infs : {u \in User : infs[j].comp[u] \in infs[j].removed} = Influence(j, Seeds)

\* The gains a user is chosen by are its marginal influence, though only the
\* users in up were looked at since the last choice (pmc.hpp:465).
GainIsMarginal == sel = "select" => \A u \in User : gain[u] = Marginal(u)

\* Each user chosen adds as much as any other would (pmc.cpp:78).
ChoosesGreatest ==
  sel = "select" => \A u \in User : Marginal(u) <= Marginal(Last(chosen'))

\* No store is chosen twice (pmc.cpp:261).
POIsDistinct == IsInjective(chosen)

\* The first store chosen is one whose users have the greatest influence.
POIInfluence(p) == MapThenSumSet(Marginal, results[p])
FirstPOIGreatest ==
  sel = "select" /\ chosen = <<>> =>
    \A p \in DOMAIN results : POIInfluence(p) <= POIInfluence(chosen'[1])

==============================================================================
