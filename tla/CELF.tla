-------------------------------- MODULE CELF --------------------------------
(* mineSeedSet (CELF_PLUS/MC.cc): lazy greedy choice of seeds.  The key of a *)
(* user in covQueue is its gain when it was last looked at, a bound on the   *)
(* gain it has now.                                                          *)
EXTENDS MonteCarlo, FiniteSetsExt

CONSTANT budget   \* the number of seeds, at least two less than that of the users

VARIABLES
  AM,
  covQueue,       \* users by the gain last computed, the greatest at the end
  curSeedSet,
  totalCov,
  usersExamined,  \* in this round
  sel
vars == <<AM, covQueue, curSeedSet, totalCov, usersExamined, sel>>

Cov(S) == ICCov(AM, S)

\* The users of greatest influence alone.
Greatest == {u \in User : \A v \in User : Cov({v}) <= Cov({u})}

FirstKeys(inf) == InOrder({[gain |-> inf[u], node |-> u] : u \in User})
BugNothingErased(inf) == FirstKeys(inf)
Remaining(inf) == Front(FirstKeys(inf))

\* The first of them becomes a seed, the last entry of the queue is erased.
FirstPass ==
  /\ sel = "first" /\ sel' = "loop"
  /\ \E inf \in {[u \in User |-> Cov({u})]} :
       LET best == Min(Greatest)
       IN  covQueue' = Remaining(inf) /\ curSeedSet' = {best} /\ totalCov' = inf[best]
  /\ UNCHANGED <<AM, usersExamined>>

top == Last(covQueue)
Seen == top.node \in usersExamined
BugOldGain == top.gain + totalCov
newCov == IF Seen THEN top.gain + totalCov ELSE Cov(curSeedSet \cup {top.node})
nextGain == covQueue[Len(covQueue) - 1].gain
More == sel = "loop" /\ Cardinality(curSeedSet) < budget

BugPicksAny == TRUE
Picked == Seen \/ newCov - totalCov >= nextGain

Pick ==
  /\ More /\ Picked
  /\ curSeedSet' = curSeedSet \cup {top.node}
  /\ totalCov' = newCov
  /\ usersExamined' = {}
  /\ covQueue' = Front(covQueue)
  /\ UNCHANGED <<AM, sel>>

BugMoveOldGain ==
  /\ More /\ ~ Picked
  /\ curSeedSet' = curSeedSet \ {top.node}
  /\ covQueue' = Insert(Front(covQueue), top)
  /\ UNCHANGED <<AM, totalCov, usersExamined, sel>>
Move ==
  /\ More /\ ~ Picked
  /\ curSeedSet' = curSeedSet \ {top.node}
  /\ usersExamined' = usersExamined \cup {top.node}
  /\ covQueue' = Insert(Front(covQueue), [gain |-> newCov - totalCov, node |-> top.node])
  /\ UNCHANGED <<AM, totalCov, sel>>

Finish ==
  /\ sel = "loop" /\ Cardinality(curSeedSet) >= budget /\ sel' = "done"
  /\ UNCHANGED <<AM, covQueue, curSeedSet, totalCov, usersExamined>>

Init ==
  /\ AM \in Networks /\ covQueue = <<>> /\ curSeedSet = {} /\ totalCov = 0
  /\ usersExamined = {} /\ sel = "first"
Next == FirstPass \/ Pick \/ Move \/ Finish
mineSeedSet == Init /\ [][Next]_vars /\ WF_vars(Next)

\* --------------------------------------------------------------- properties
Queued == {covQueue[i].node : i \in DOMAIN covQueue}

TypeOK ==
  /\ covQueue \in Seq([gain : Int, node : User]) /\ IsInjective(covQueue)
  /\ \A i \in 2 .. Len(covQueue) : covQueue[i - 1].gain <= covQueue[i].gain
  /\ curSeedSet \subseteq User /\ totalCov \in 0 .. Cardinality(User)
  /\ usersExamined \subseteq Queued

\* Two users of greatest influence: the entry erased is not that of the seed.
Tied == Cardinality(Greatest) > 1

\* The influence reported is that of the seeds, though it is summed up from
\* gains that may be older than the last seed (MC.cc:251), or of the seeds
\* with the first, which a tie may have cost its place.
TotalCovExact ==
  sel # "first" =>
    \/ totalCov = Cov(curSeedSet)
    \/ Tied /\ totalCov = Cov(curSeedSet \cup {Min(Greatest)})

\* A key is never below the gain the user has now: why the rest of the queue
\* need not be looked at (MC.cc:270).
KeysBound ==
  sel # "first" /\ ~ Tied =>
    \A i \in DOMAIN covQueue : Cov(curSeedSet \cup {covQueue[i].node}) - totalCov <= covQueue[i].gain

\* No other user would add more than the one that becomes a seed (MC.cc:270);
\* after a tie, the first one.
PicksGreatest ==
  (sel = "first" \/ ~ Tied) /\ curSeedSet' \ curSeedSet # {} =>
    \A u \in User : Cov(curSeedSet \cup {u}) <= Cov(curSeedSet')

\* A user moved was no seed (MC.cc:296), except for the first of those tied:
\* only its entry is still in the queue, and it is looked at again.
SeedsKept == curSeedSet \ curSeedSet' \subseteq (IF Tied THEN {Min(Greatest)} ELSE {})

=============================================================================
