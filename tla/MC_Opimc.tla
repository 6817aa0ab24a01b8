------------------------------ MODULE MC_Opimc ------------------------------
(* Three users, three stores, two rounds.  User 1 is influenced by user 0  *)
(* alone, over an edge that is always live; user 2 by both others.         *)
EXTENDS Opimc, TLC

CONSTANTS p1, p2, p3

MCPois == {p1, p2, p3}
MCInNeighbors == (0 :> {}) @@ (1 :> {0}) @@ (2 :> {0, 1})

\* Three candidates whose users reach everyone, two of them shared; then two
\* candidates on a constrained graph without user 0.
MCResults ==
  { (p1 :> {0}) @@ (p2 :> {0, 1}) @@ (p3 :> {2}),
    (p1 :> {1}) @@ (p2 :> {1, 2}) @@ (p3 :> {}) }
=============================================================================
