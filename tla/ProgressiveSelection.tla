------------------------ MODULE ProgressiveSelection ------------------------
(***************************************************************************)
(* batchFilterThenHeuristic (process.h): verify the candidate users of the *)
(* batch filter one by one, the most influential first, and now and then   *)
(* stop to choose K stores twice: on the users that are verified, and on   *)
(* those and all that are not verified yet.  When the first choice is good *)
(* against the second the rest is not verified.                            *)
(*                                                                         *)
(* The choices are the steps of HopSelection, on social_graph's two tables *)
(* in turn; what stays of the first one is infGraph->poiSet.               *)
(***************************************************************************)
EXTENDS HopSelection

CONSTANTS Inputs,  \* what the batch filter and the top-K queries may give
          Miu,     \* percent of the influence verified before the first choice
          Delta,   \* percent more before each further one
          Ratio    \* thousandths of the second choice's influence that suffice

ASSUME InputAssumption ==
  /\ \A in \in Inputs : DOMAIN in.score \subseteq Users
  /\ Ratio \in Nat

\* An input: user -> store -> its score; user -> its K-th best score so far,
\* and after the top-K query, which is no less.  Users with no candidate store
\* are not in it.
VARIABLES
  input,
  order,        \* the candidates, by influence
  i,            \* how many are verified
  incremental_results,             \* store -> verified users that have it
  total_inf_base, total_inf_upper, \* influence verified, and that possible
  check_count,  \* choices made
  seeds,        \* infGraph->poiSet: the last choice on verified users
  inf_base,     \* its influence
  phase         \* verify, check, base, upper, end

progressVars == <<input, order, i, incremental_results, total_inf_base,
                  total_inf_upper, check_count, seeds, inf_base, phase>>
allVars == <<vars, progressVars>>

\* associated_poiIDMap: stores not below the bound known of u.
Associated(in, u) == {o \in DOMAIN in.score[u] : in.score[u][o] >= in.rk_current[u]}

\* The stores u is a potential user of.
Customer(u) == {o \in Associated(input, u) : input.score[u][o] > input.Rk[u]}

\* Influence of u on its neighbours and, through each, on theirs.
u_inf(u) ==
  Unit + MapThenSumSet(
    LAMBDA v : Unit \div inDeg(v)
      + MapThenSumSet(LAMBDA w : Unit \div (inDeg(v) * inDeg(w)), out_neighbors(v)),
    out_neighbors(u))

TotalInf(S) == MapThenSumSet(u_inf, S)

\* Q_inf, emptied: users with an associated store, by influence.
Orders(in) ==
  LET S == {u \in DOMAIN in.score : Associated(in, u) # {}}
  IN  {s \in [1 .. Cardinality(S) -> S] :
         /\ \A j, k \in DOMAIN s : j < k => s[j] # s[k]
         /\ \A j, k \in DOMAIN s : j < k => u_inf(s[j]) >= u_inf(s[k])}

Verified == {order[j] : j \in 1 .. i}
\* The candidates from remained_th on.
Remained == {order[j] : j \in i+1 .. Len(order)}

\* setPUConnection
baseTable == Connection(incremental_results)

\* setPUConnection_Upper: the verified users, and the others with every
\* store they are associated with.
BugUpperAlone == baseTable
upperTable ==
  Connection([o \in Pois |->
    incremental_results[o] \cup {u \in Remained : o \in Associated(input, u)}])

\* What the verification would end with.
Truth == [o \in Pois |-> {u \in ToSet(order) : o \in Customer(u)}]
-----------------------------------------------------------------------------
ProgressInit ==
  /\ Init
  /\ input \in Inputs
  /\ order \in Orders(input)
  /\ i = 0
  /\ incremental_results = [o \in Pois |-> {}]
  /\ total_inf_base = 0 /\ total_inf_upper = TotalInf(ToSet(order))
  /\ check_count = 0 /\ seeds = <<>> /\ inf_base = 0
  /\ phase = "verify"

UpperAfter(u, customer) == IF customer THEN total_inf_upper ELSE total_inf_upper - u_inf(u)

\* The top-K query of the next candidate.
Verify ==
  /\ phase = "verify" /\ i < Len(order)
  /\ LET u == order[i+1]
         customer == Customer(u) # {}
     IN  /\ total_inf_base' = IF customer THEN total_inf_base + u_inf(u) ELSE total_inf_base
         /\ total_inf_upper' = UpperAfter(u, customer)
         /\ incremental_results' = [o \in Pois |->
              IF o \in Customer(u) THEN incremental_results[o] \cup {u} ELSE incremental_results[o]]
  /\ i' = i + 1 /\ phase' = "check"
  /\ UNCHANGED <<vars, input, order, check_count, seeds, inf_base>>

\* 0/0, which is not >= anything, when no candidate is left.
RateReached ==
  total_inf_upper > 0 /\ 100 * total_inf_base >= (Miu + check_count * Delta) * total_inf_upper

Continue ==
  /\ phase = "check" /\ ~RateReached
  /\ phase' = "verify"
  /\ UNCHANGED <<vars, input, order, i, incremental_results, total_inf_base,
                 total_inf_upper, check_count, seeds, inf_base>>

\* minePOIsHopBased4Heuristic
ChooseBase ==
  /\ phase = "check" /\ RateReached
  /\ check_count' = check_count + 1
  /\ Start(baseTable)
  /\ phase' = "base"
  /\ UNCHANGED <<input, order, i, incremental_results, total_inf_base,
                 total_inf_upper, seeds, inf_base>>

\* minePOIsHopBased4Heuristic_upper
ChooseUpper ==
  /\ phase = "base" /\ sel = "done"
  /\ seeds' = poiSet /\ inf_base' = influence
  /\ Start(upperTable)
  /\ phase' = "upper"
  /\ UNCHANGED <<input, order, i, incremental_results, total_inf_base,
                 total_inf_upper, check_count>>

\* current_ratio > relative_ratio
Satisfied == 1000 * inf_base > Ratio * influence

Decide ==
  /\ phase = "upper" /\ sel = "done"
  /\ phase' = IF Satisfied THEN "end" ELSE "verify"
  /\ UNCHANGED <<vars, input, order, i, incremental_results, total_inf_base,
                 total_inf_upper, check_count, seeds, inf_base>>

\* No candidate is left to verify.
Exhaust ==
  /\ phase = "verify" /\ i = Len(order)
  /\ phase' = "end"
  /\ UNCHANGED <<vars, input, order, i, incremental_results, total_inf_base,
                 total_inf_upper, check_count, seeds, inf_base>>

Select == phase \in {"base", "upper"} /\ Loop /\ UNCHANGED progressVars

ProgressNext == Verify \/ Continue \/ ChooseBase \/ ChooseUpper \/ Select \/ Decide \/ Exhaust

ProgressSpec == ProgressInit /\ [][ProgressNext]_allVars
-----------------------------------------------------------------------------
ProgressTypeOK ==
  /\ TypeOK
  /\ i \in 0 .. Len(order)
  /\ incremental_results \in [Pois -> SUBSET Users]
  /\ total_inf_base = TotalInf({u \in Verified : Customer(u) # {}})
  /\ total_inf_upper = total_inf_base + TotalInf(Remained)
  /\ Len(seeds) <= K

Below(r, s) == \A o \in DOMAIN r : o \in DOMAIN s /\ r[o] \subseteq s[o]

\* The table a choice is made on lies below what the verification would end
\* with when it stands for the verified users, and above it when it stands
\* for what is still possible.
TablesEnclose ==
  sel = "greedy" =>
    /\ phase = "base" => Below(br_usr_table, Connection(Truth))
    /\ phase = "upper" => Below(Connection(Truth), br_usr_table)

\* How often inf_base may count the influence of a user: a store that shares
\* followers, and no user, with one chosen is counted in full.
Counted == IF OverlapsShare(baseTable) THEN 1 ELSE K

\* Verification ends early only when the stores chosen have, for all users,
\* Ratio thousandths of what greedy choice finds on every user still
\* possible, which is itself 1 - (1 - 1/K)^K of the greatest influence; only a
\* Counted-th of it where followers are shared.
StopJustified ==
  phase = "end" /\ i < Len(order) =>
    LET truth == Connection(Truth)
        best  == Max({PoiInf(truth, P) : P \in {Q \in SUBSET DOMAIN truth : Cardinality(Q) <= K}})
    IN  1000 * Power(K)[K] * (Counted * PoiInf(truth, ToSet(seeds)))
          >= Ratio * (Power(K)[K] - Power(K-1)[K]) * best

\* Progressive verification stops only when its choice is good enough for what
\* the rest could still add (process.h:1371), and the choices it makes until
\* then keep their promises.
VerificationSound ==
  /\ TablesEnclose /\ StopJustified
  /\ phase \in {"base", "upper"} =>
       SeedsDistinct /\ KeysBound /\ InfluenceExact /\ PicksGreatest /\ GreedyBound
=============================================================================
