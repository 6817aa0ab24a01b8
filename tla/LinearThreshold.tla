--------------------------- MODULE LinearThreshold ---------------------------
(* One simulation of the linear threshold model (LTCov and LTCovPlus of      *)
(* CELF_PLUS/MC.cc): a user becomes active when the weights of the links it  *)
(* has from active users pass its threshold, which is drawn when it is first *)
(* seen.  LTCovPlus goes on from there with one more user, the best found so *)
(* far, to know what it would add.                                           *)
EXTENDS Integers, FiniteSets, Sequences, FiniteSetsExt, SequencesExt

CONSTANTS
  User,
  Networks,   \* AM: weights [from, to -> weight]
  One,        \* the weight that stands for 1: thresholds are 0 .. One
  startIt

VARIABLES
  AM,
  S,                 \* the seeds, the candidate included
  best,              \* pBestMG, a user or None
  T,                 \* users to be processed
  Q,                 \* users seen: [threshold, inWeight, active]
  cov1, covPlus1,
  sel
vars == <<AM, S, best, T, Q, cov1, covPlus1, sel>>

None == 0 - 1
Neighbors(v) == {u \in User : AM[v, u] > 0}
Weight(from, u) == MapThenSumSet(LAMBDA v : AM[v, u], from)

\* Weights added to the users of ws, those not seen before with any threshold.
Added(ws, from, th) ==
  [u \in DOMAIN Q \cup ws |->
     IF u \notin ws THEN Q[u]
     ELSE IF u \in DOMAIN Q THEN [Q[u] EXCEPT !.inWeight = @ + Weight(from, u)]
     ELSE [threshold |-> th[u], inWeight |-> Weight(from, u), active |-> FALSE]]

\* The users next to the seeds, in the order the seeds are gone through.
Start ==
  /\ sel = "start" /\ sel' = "spread"
  /\ LET ws == (UNION {Neighbors(v) : v \in S}) \ S
         By(u) == Min({v \in S : u \in Neighbors(v)})
         Before(u, w) == By(u) < By(w) \/ (By(u) = By(w) /\ u < w)
     IN  /\ \E th \in [ws -> 0 .. One] : Q' = Added(ws, S, th)
         /\ T' = SetToSortSeq(ws, Before)
  /\ cov1' = Cardinality(S) /\ covPlus1' = Cardinality(S)
  /\ UNCHANGED <<AM, S, best>>

\* Weights are compared with a tolerance above the threshold: equal is not enough.
Passes(u) == ~ Q[u].active /\ Q[u].inWeight > Q[u].threshold

\* The users a link from u still matters to.
BugSeenOnly(u) ==
  {w \in Neighbors(u) \ S : ~ (sel = "spreadBest" /\ w = best) /\ w \notin DOMAIN Q}
Open(u) ==
  {w \in Neighbors(u) \ S :
     /\ ~ (sel = "spreadBest" /\ w = best)
     /\ w \in DOMAIN Q => ~ Q[w].active}

Activate ==
  /\ sel \in {"spread", "spreadBest"} /\ T # <<>> /\ Passes(Head(T))
  /\ LET u == Head(T)
     IN  /\ \E th \in [Open(u) \ DOMAIN Q -> 0 .. One] :
              Q' = [Added(Open(u), {u}, th) EXCEPT ![u].active = TRUE]
         /\ T' = Tail(T) \o SetToSortSeq(Open(u), <)
  /\ cov1' = IF sel = "spread" THEN cov1 + 1 ELSE cov1
  /\ covPlus1' = covPlus1 + 1
  /\ UNCHANGED <<AM, S, best, sel>>

Skip ==
  /\ sel \in {"spread", "spreadBest"} /\ T # <<>> /\ ~ Passes(Head(T))
  /\ T' = Tail(T)
  /\ UNCHANGED <<AM, S, best, Q, cov1, covPlus1, sel>>

BugBestAgain == best # None /\ Cardinality(S) - 1 >= startIt - 1
BestIsOpen ==
  /\ best # None /\ Cardinality(S) - 1 >= startIt - 1
  /\ best \in DOMAIN Q => ~ Q[best].active

AddBest ==
  /\ sel = "spread" /\ T = <<>> /\ BestIsOpen /\ sel' = "spreadBest"
  /\ \E th \in [Open(best) \ DOMAIN Q -> 0 .. One] : Q' = Added(Open(best), {best}, th)
  /\ T' = SetToSortSeq(Open(best), <)
  /\ covPlus1' = covPlus1 + 1
  /\ UNCHANGED <<AM, S, best, cov1>>

Finish ==
  /\ T = <<>> /\ sel' = "done"
  /\ sel = "spreadBest" \/ (sel = "spread" /\ ~ BestIsOpen)
  /\ UNCHANGED <<AM, S, best, T, Q, cov1, covPlus1>>

Init ==
  /\ AM \in Networks /\ S \in (SUBSET User) \ {{}} /\ best \in (User \ S) \cup {None}
  /\ T = <<>> /\ Q = <<>> /\ cov1 = 0 /\ covPlus1 = 0 /\ sel = "start"
Next == Start \/ Activate \/ Skip \/ AddBest \/ Finish
LTCovPlus == Init /\ [][Next]_vars /\ WF_vars(Next)

\* --------------------------------------------------------------- properties
Active == {u \in DOMAIN Q : Q[u].active}

\* A user not seen has no link from an active one: its threshold does not matter.
Influenced(seeds) ==
  LET Closed(X) == \A u \in DOMAIN Q \ X : Weight(X, u) <= Q[u].threshold
  IN  UNION {X \in {seeds \cup X : X \in SUBSET DOMAIN Q} :
               Closed(X) /\ \A Y \in {seeds \cup Y : Y \in SUBSET DOMAIN Q} : Closed(Y) => X \subseteq Y}

\* The weights into a user are never more than 1 (MC.cc:1393 reports it).
TypeOK ==
  /\ \A u \in DOMAIN Q : Q[u].threshold \in 0 .. One /\ Q[u].inWeight \in 1 .. One
  /\ Range(T) \subseteq DOMAIN Q
  /\ DOMAIN Q \cap S = {}

\* The weight kept for an inactive user is that of its links from all active
\* ones, each counted once, though links are followed in no special order
\* (MC.cc:1391).
WeightsExact ==
  LET from == S \cup Active
  IN  \A u \in DOMAIN Q \ Active :
        /\ sel = "spread" => Q[u].inWeight = Weight(from, u)
        /\ sel = "spreadBest" /\ u # best => Q[u].inWeight = Weight(from \cup {best}, u)

\* When nothing is left to process, the active users are the least set that the
\* thresholds allow, and both counts are the sizes of such sets: without the
\* best user and with it (MC.cc:1486).
CoverageExact ==
  /\ sel = "spread" /\ T = <<>> =>
       S \cup Active = Influenced(S) /\ cov1 = Cardinality(Influenced(S))
  /\ sel = "spreadBest" /\ T = <<>> =>
       /\ S \cup Active \cup {best} = Influenced(S \cup {best})
       /\ covPlus1 = Cardinality(Influenced(S \cup {best}))

=============================================================================
