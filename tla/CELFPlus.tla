------------------------------ MODULE CELFPlus ------------------------------
(* CELF++ (CELF_PLUS/MC.cc).  Beside its gain an entry may hold the gain it  *)
(* would have if the best candidate of its round became a seed, so that it   *)
(* need not be looked at in the next round.  mineSeedSetPlus chooses users,  *)
(* minePOI_CLEFPlus stores, each by the users it is a result for.            *)
EXTENDS MonteCarlo

CONSTANTS
  budget, startIt,  \* of the configuration file
  Results           \* batch results: from store to users

VARIABLES
  AM,
  customers,   \* the users each candidate activates
  gainTable,   \* the greatest gain at the end
  pBest,       \* the best candidate looked at in this round, or None
  chosen,      \* seeds or POIs, in order
  curSeedSet,
  totalCov,
  stale,       \* history: a gain was used that was foreseen before the last round
  sel
vars == <<AM, customers, gainTable, pBest, chosen, curSeedSet, totalCov, stale, sel>>

None == 0 - 1
Cov(S) == ICCov(AM, S)
GainOf(node) == (CHOOSE e \in ToSet(gainTable) : e.node = node).gain

\* The entry of x computed anew, best and its gain being those found so far.
BugGainAlone(x, best, bestGain) ==
  [node |-> x, gain |-> Cov(customers[x]), flag |-> Len(chosen) + 1, v_best |-> x, gain_next |-> 0]
CovPlus(x, best, bestGain) ==
  LET S == curSeedSet \cup customers[x]
      gain == Cov(S) - totalCov
      isBest == best = None \/ gain > bestGain
      covX == IF Cardinality(curSeedSet) >= startIt - 1 THEN Cov(S \cup {best}) ELSE Cov(S)
  IN  [node |-> x, gain |-> gain, flag |-> Len(chosen) + 1,
       v_best |-> IF isBest THEN x ELSE best,
       gain_next |-> IF isBest THEN 0 ELSE covX - totalCov - bestGain]

\* With startIt = 1 the first round has best candidates already.
FirstEntry(inf, x) ==
  LET before == {y \in DOMAIN inf : y < x}
  IN  IF startIt > 1 \/ before = {} THEN CovPlus(x, None, 0)
      ELSE LET best == Min({y \in before : \A z \in before : inf[z] <= inf[y]})
           IN  CovPlus(x, best, inf[best])

top == Last(gainTable)
nextGain == gainTable[Len(gainTable) - 1].gain
lastSeedID == Last(chosen)

ChooseWith(x, gain, rest) ==
  /\ chosen' = Append(chosen, x)
  /\ curSeedSet' = curSeedSet \cup customers[x]
  /\ totalCov' = totalCov + gain
  /\ gainTable' = rest
  /\ pBest' = None
  /\ UNCHANGED <<AM, customers, sel>>

FirstPass ==
  /\ sel = "loop" /\ chosen = <<>>
  /\ \E inf \in {[x \in DOMAIN customers |-> Cov(customers[x])]} :
     \E table \in {InOrder({FirstEntry(inf, x) : x \in DOMAIN inf})} :
       ChooseWith(Last(table).node, Last(table).gain, Front(table))
  /\ UNCHANGED stale

More == Len(chosen) \in 1 .. budget - 1 /\ totalCov < Cardinality(User)

\* The top was looked at in this round already: line 7 of the algorithm.
BugSeen == FALSE
Unseen == top.flag # Len(chosen) + 1
PickSeen ==
  /\ sel = "loop" /\ More /\ ~ Unseen
  /\ ChooseWith(top.node, top.gain, Front(gainTable)) /\ UNCHANGED stale

\* The last seed is the one its second gain was computed with: line 10.
Foreseen == Unseen /\ top.v_best = lastSeedID

\* Whether seeds were chosen in between is not asked; and MoveForeseen writes 0
\* for nobody, but 0 is a user.
UseForeseen == stale' = (stale \/ top.flag # Len(chosen) \/ top.v_best = 0)

PickForeseen ==
  /\ sel = "loop" /\ More /\ Foreseen /\ top.gain_next >= nextGain
  /\ ChooseWith(top.node, top.gain_next, Front(gainTable)) /\ UseForeseen

Reinsert(e, best) ==
  /\ gainTable' = Insert(Front(gainTable), e)
  /\ pBest' = best
  /\ UNCHANGED <<AM, customers, chosen, curSeedSet, totalCov, sel>>

BugGainKept ==
  /\ sel = "loop" /\ More /\ Foreseen /\ top.gain_next < nextGain
  /\ UseForeseen
  /\ Reinsert([top EXCEPT !.v_best = 0, !.gain_next = 0, !.flag = Len(chosen) + 1],
              IF pBest = None \/ top.gain_next > GainOf(pBest) THEN top.node ELSE pBest)
MoveForeseen ==
  /\ sel = "loop" /\ More /\ Foreseen /\ top.gain_next < nextGain
  /\ UseForeseen
  /\ Reinsert([top EXCEPT !.gain = top.gain_next, !.v_best = 0, !.gain_next = 0,
                          !.flag = Len(chosen) + 1],
              IF pBest = None \/ top.gain_next > GainOf(pBest) THEN top.node ELSE pBest)

ICCovPlus == CovPlus(top.node, pBest, IF pBest = None THEN 0 ELSE GainOf(pBest))

PickComputed ==
  /\ sel = "loop" /\ More /\ Unseen /\ ~ Foreseen /\ ICCovPlus.gain >= nextGain
  /\ ChooseWith(top.node, ICCovPlus.gain, Front(gainTable)) /\ UNCHANGED stale

MoveComputed ==
  /\ sel = "loop" /\ More /\ Unseen /\ ~ Foreseen /\ ICCovPlus.gain < nextGain
  /\ LET best == ICCovPlus.v_best = top.node /\ Cardinality(curSeedSet) >= startIt - 1
     IN  Reinsert(ICCovPlus, IF best THEN top.node ELSE pBest)
  /\ UNCHANGED stale

Finish ==
  /\ sel = "loop" /\ chosen # <<>> /\ ~ More /\ sel' = "done"
  /\ UNCHANGED <<AM, customers, gainTable, pBest, chosen, curSeedSet, totalCov, stale>>

Init ==
  /\ AM \in Networks /\ gainTable = <<>> /\ pBest = None /\ chosen = <<>>
  /\ curSeedSet = {} /\ totalCov = 0 /\ stale = FALSE /\ sel = "loop"
InitUsers == Init /\ customers = [u \in User |-> {u}]
\* Stores that are nobody's result are left out.
InitPOIs ==
  /\ Init
  /\ \E r \in Results : customers = [p \in {q \in DOMAIN r : r[q] # {}} |-> r[p]]

Next ==
  FirstPass \/ PickSeen \/ PickForeseen \/ MoveForeseen \/ PickComputed \/ MoveComputed \/ Finish
mineSeedSetPlus == InitUsers /\ [][Next]_vars /\ WF_vars(Next)
minePOI_CLEFPlus == InitPOIs /\ [][Next]_vars /\ WF_vars(Next)

\* --------------------------------------------------------------- properties
\* What a candidate adds to the influence of the seeds.
Marginal(x) == Cov(curSeedSet \cup customers[x]) - Cov(curSeedSet)

TypeOK ==
  /\ \A i \in 2 .. Len(gainTable) : gainTable[i - 1].gain <= gainTable[i].gain
  /\ \A e \in ToSet(gainTable) : e.node \in DOMAIN customers /\ e.flag <= Len(chosen) + 1
  /\ ToSet(chosen) \cap {e.node : e \in ToSet(gainTable)} = {}
  /\ pBest \in DOMAIN customers \cup {None}

\* The influence reported is that of the seeds (MC.cc:522) until a gain has
\* been used that was foreseen for other seeds.
TotalCovExact == ~ stale => totalCov = Cov(curSeedSet)

\* Till then the gain kept for the case that v_best becomes a seed is right
\* when it has become one in the round in which it was foreseen (MC.h:26).
NextGainIsMarginal ==
  ~ stale /\ chosen # <<>> =>
    \A e \in ToSet(gainTable) :
      e.v_best = lastSeedID /\ e.v_best # 0 /\ e.flag = Len(chosen) => e.gain_next = Marginal(e.node)

\* Till then an entry looked at in this round has the gain it would be chosen
\* with, and no entry a gain too small.
SeenGainExact ==
  ~ stale =>
    \A e \in ToSet(gainTable) :
      /\ e.gain >= Marginal(e.node)
      /\ e.flag = Len(chosen) + 1 => e.gain = Marginal(e.node)

\* Each choice adds as much as any other would (MC.cc:487), until then.
PicksGreatest ==
  chosen' # chosen /\ ~ stale' =>
    \A x \in DOMAIN customers : Marginal(x) <= Marginal(Last(chosen'))

\* It takes three seeds: one foreseen as the best of the second round at the
\* earliest, but not chosen in it, and then chosen third (MC.cc:429).
StaleIsLate == stale => Len(chosen) >= startIt + 1

\* The first two stores chosen add as much as any other would.
FirstTwoGreatest ==
  chosen' # chosen /\ Len(chosen) < 2 =>
    \A x \in DOMAIN customers : Marginal(x) <= Marginal(Last(chosen'))

=============================================================================
