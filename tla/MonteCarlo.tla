----------------------------- MODULE MonteCarlo -----------------------------
(* What the simulations of CELF_PLUS/MC.cc estimate, and the table ordered by *)
(* gain (a multimap) that CELF and CELF++ take their candidates from.  Every *)
(* link has probability 1, so that all runs of a simulation agree.           *)
EXTENDS Integers, FiniteSets, Sequences, SequencesExt

CONSTANTS
  User,       \* UIDs
  Networks    \* the neighbours of each user, as AM has them

\* What is activated from S.
RECURSIVE activeNodes(_, _)
activeNodes(AM, S) ==
  LET more == S \cup UNION {AM[v] : v \in S \cap User}
  IN  IF more = S THEN S ELSE activeNodes(AM, more)

ICCov(AM, S) == Cardinality(activeNodes(AM, S))

\* multimap::insert: after the entries whose gain is equal.
Insert(table, e) ==
  LET NotMore(f) == f.gain <= e.gain
      More(f) == f.gain > e.gain
  IN  SelectSeq(table, NotMore) \o <<e>> \o SelectSeq(table, More)

\* The entries of S inserted in the order of their nodes.
InOrder(S) ==
  LET Before(e, f) == e.gain < f.gain \/ (e.gain = f.gain /\ e.node < f.node)
  IN  [i \in 1 .. Cardinality(S) |->
         CHOOSE e \in S : Cardinality({f \in S : Before(f, e)}) = i - 1]
=============================================================================
