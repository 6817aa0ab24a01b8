---------------------- MODULE ProgressiveSelection_proofs ----------------------
(***************************************************************************)
(* Proofs about the lazy selection on one hop and the progressive          *)
(* verification around it, for every social network, table and K: the lazy *)
(* greedy choice is sound and good, the verification makes it on tables    *)
(* that enclose the true one, and stops only with a choice good enough.    *)
(*                                                                         *)
(* All of it rests on the influence being submodular in the users: the     *)
(* chance of a neighbour grows with every user that reaches him, and by    *)
(* less each time.                                                         *)
(***************************************************************************)
EXTENDS ProgressiveSelection, FiniteFacts

-----------------------------------------------------------------------------
(* What is left of Unit after m factors 1 - 1/d.                           *)

\* A share of a number is no more than it, and that of a lesser one no more.
LEMMA Division ==
  ASSUME NEW x \in Nat, NEW y \in Nat, x <= y, NEW d \in Nat \ {0}
  PROVE  x \div d \in Nat /\ x \div d <= x /\ x \div d <= y \div d
<1>1. x \div d \in Nat /\ x \div d <= x
  OBVIOUS
<1>2. x \div d <= y \div d
  OBVIOUS
<1> QED BY <1>1, <1>2

\* bigPai(d) is what the loop computes.
LEMMA PaiDef ==
  ASSUME Unit \in Nat, NEW d \in Nat \ {0}
  PROVE  /\ bigPai(d)[0] = Unit
         /\ \A m \in Nat : /\ bigPai(d)[m] \in Nat
                          /\ bigPai(d)[m+1] = bigPai(d)[m] - bigPai(d)[m] \div d
<1> DEFINE Full(f) == f = [m \in Nat |-> IF m = 0 THEN Unit ELSE f[m-1] - f[m-1] \div d]
           step == [x \in Nat |-> x - x \div d]
<1>0. PICK f : Iterates(f, Unit, step)
  <2> HIDE DEF step
  <2> QED BY Recursion
<1>1. f = [m \in Nat |-> f[m]] /\ f[0] = Unit /\ \A m \in Nat : f[m+1] = step[f[m]]
  <2> HIDE DEF step
  <2> QED BY <1>0 DEF Iterates
<1>2. \A m \in Nat : f[m] \in Nat
  <2> DEFINE P == {m \in Nat : f[m] \in Nat}
  <2>1. 0 \in P
    BY <1>1
  <2>2. ASSUME NEW m \in Nat, m \in P
        PROVE  m + 1 \in P
    <3>1. f[m] \in Nat /\ f[m+1] = step[f[m]]
      BY <1>1, <2>2
    <3>2. f[m] \div d \in Nat /\ f[m] \div d <= f[m]
      <4> HIDE DEF step, P
      <4> QED BY <3>1, Division
    <3> QED BY <3>1, <3>2
  <2>3. Nat \subseteq P
    BY <2>1, <2>2, NumberInduction
  <2> QED BY <2>3
<1>3. Full(f)
  <2>1. \A m \in Nat : f[m] = IF m = 0 THEN Unit ELSE f[m-1] - f[m-1] \div d
    <3> SUFFICES ASSUME NEW m \in Nat, m # 0
                 PROVE  f[m] = f[m-1] - f[m-1] \div d
      BY <1>1
    <3>1. m-1 \in Nat /\ (m-1)+1 = m
      OBVIOUS
    <3> QED BY <1>1, <1>2, <3>1
  <2> QED BY <1>1, <2>1
<1>4. bigPai(d) = CHOOSE g : Full(g)
  BY DEF bigPai
<1>5. ASSUME NEW g, Full(g)
      PROVE  /\ g[0] = Unit
             /\ \A m \in Nat : g[m] \in Nat /\ g[m+1] = g[m] - g[m] \div d
  <2>0. \A m \in Nat : m+1 \in Nat /\ m+1 # 0 /\ (m+1)-1 = m
    OBVIOUS
  <2>1. g[0] = Unit /\ \A m \in Nat : g[m+1] = g[m] - g[m] \div d
    BY <1>5, <2>0
  <2> DEFINE P == {m \in Nat : g[m] \in Nat}
  <2>2. 0 \in P
    BY <2>1
  <2>3. ASSUME NEW m \in Nat, m \in P
        PROVE  m + 1 \in P
    <3>1. g[m] \in Nat /\ g[m+1] = g[m] - g[m] \div d
      BY <2>1, <2>3
    <3>2. g[m] \div d \in Nat /\ g[m] \div d <= g[m]
      BY <3>1, Division
    <3> QED BY <3>1, <3>2
  <2>4. Nat \subseteq P
    BY <2>2, <2>3, NumberInduction
  <2> QED BY <2>1, <2>4
<1>6. Full(bigPai(d))
  <2> HIDE DEF Full
  <2> QED BY <1>3, <1>4
<1> HIDE DEF Full
<1> QED BY <1>5, <1>6

\* More factors leave less, and take away less.
LEMMA PaiFalls ==
  ASSUME Unit \in Nat, NEW d \in Nat \ {0}
  PROVE  /\ \A m \in Nat : bigPai(d)[m] \in Nat /\ bigPai(d)[m] <= Unit
         /\ \A m, k \in Nat : bigPai(d)[m+k] <= bigPai(d)[m]
         /\ \A m, n, k \in Nat :
              m <= n => bigPai(d)[m] - bigPai(d)[m+k] >= bigPai(d)[n] - bigPai(d)[n+k]
<1> DEFINE f == bigPai(d)
<1>0. f[0] = Unit /\ \A m \in Nat : f[m] \in Nat /\ f[m+1] = f[m] - f[m] \div d
  BY PaiDef
<1> HIDE DEF f
<1>1. \A m \in Nat : f[m] \in Nat /\ f[m] <= Unit
  <2> DEFINE P == {m \in Nat : f[m] \in Nat /\ f[m] <= Unit}
  <2>1. 0 \in P
    BY <1>0
  <2>2. ASSUME NEW m \in Nat, m \in P
        PROVE  m + 1 \in P
    <3>1. f[m] \div d \in Nat /\ f[m] \div d <= f[m]
      BY <2>2, Division
    <3> QED BY <1>0, <2>2, <3>1
  <2>3. Nat \subseteq P
    BY <2>1, <2>2, NumberInduction
  <2> QED BY <2>3
<1>2. ASSUME NEW m \in Nat
      PROVE  \A k \in Nat : f[m+k] <= f[m]
  <2> DEFINE P == {k \in Nat : f[m+k] <= f[m]}
  <2>1. 0 \in P
    BY <1>1
  <2>2. ASSUME NEW k \in Nat, k \in P
        PROVE  k + 1 \in P
    <3>1. m+k \in Nat /\ m+(k+1) = (m+k)+1
      OBVIOUS
    <3>2. f[m+k] \div d \in Nat /\ f[m+k] \in Nat /\ f[m] \in Nat
      BY <1>1, <3>1, Division
    <3>3. f[(m+k)+1] = f[m+k] - f[m+k] \div d
      BY <1>0, <3>1
    <3> QED BY <2>2, <3>1, <3>2, <3>3
  <2>3. Nat \subseteq P
    BY <2>1, <2>2, NumberInduction
  <2> QED BY <2>3
<1>3. ASSUME NEW m \in Nat, NEW n \in Nat, m <= n
      PROVE  \A k \in Nat : f[m] - f[m+k] >= f[n] - f[n+k]
  <2> DEFINE P == {k \in Nat : f[m] - f[m+k] >= f[n] - f[n+k]}
  <2>1. 0 \in P
    BY <1>1
  <2>2. ASSUME NEW k \in Nat, k \in P
        PROVE  k + 1 \in P
    <3>1. m+k \in Nat /\ m+(k+1) = (m+k)+1 /\ n+k \in Nat /\ n+(k+1) = (n+k)+1
      OBVIOUS
    <3>2. f[n+k] <= f[m+k]
      <4>1. n-m \in Nat /\ (m+k)+(n-m) = n+k
        BY <1>3
      <4> QED BY <1>2, <3>1, <4>1
    <3>3. f[n+k] \in Nat /\ f[m+k] \in Nat /\ f[m] \in Nat /\ f[n] \in Nat
      BY <1>1, <3>1
    <3>4. f[n+k] \div d \in Nat /\ f[m+k] \div d \in Nat /\ f[n+k] \div d <= f[m+k] \div d
      BY <3>2, <3>3, Division
    <3>5. f[(m+k)+1] = f[m+k] - f[m+k] \div d /\ f[(n+k)+1] = f[n+k] - f[n+k] \div d
      BY <1>0, <3>1
    <3> HIDE DEF P
    <3>6. f[m] - f[m+k] >= f[n] - f[n+k]
      BY <2>2 DEF P
    <3>7. f[m] - f[m+(k+1)] >= f[n] - f[n+(k+1)]
      BY <3>1, <3>3, <3>4, <3>5, <3>6
    <3> QED BY <3>7 DEF P
  <2>3. Nat \subseteq P
    BY <2>1, <2>2, NumberInduction
  <2> QED BY <2>3
<1> QED BY <1>1, <1>2, <1>3 DEF f

\* What v counts for with the users of S: as a neighbour, and in all.
chance(S) ==
  [v \in Users |-> IF InNeighbors[v] \cap S = {} THEN 0 ELSE influence_ratio(S)[v]]
weight(S) == [v \in Users |-> (IF v \in S THEN Unit ELSE 0) + chance(S)[v]]

-----------------------------------------------------------------------------
(* The influence of a set of users is a sum over all users.                *)

\* The users with an edge to v that are in S, and its chance.
LEMMA ChanceOf ==
  ASSUME NEW S \in SUBSET Users, NEW v \in Users
  PROVE  /\ IsFiniteSet(InNeighbors[v] \cap S) /\ Cardinality(InNeighbors[v] \cap S) \in Nat
         /\ inDeg(v) \in Nat /\ IsFiniteSet(InNeighbors[v])
         /\ InNeighbors[v] \cap S # {} => inDeg(v) # 0
         /\ InNeighbors[v] \cap S = {} => chance(S)[v] = 0
         /\ InNeighbors[v] \cap S # {} => chance(S)[v] = influence_ratio(S)[v]
         /\ inDeg(v) # 0 => chance(S)[v] = Unit - bigPai(inDeg(v))[Cardinality(InNeighbors[v] \cap S)]
         /\ chance(S)[v] \in Nat
<1>1. InNeighbors[v] \in SUBSET Users /\ InNeighbors[v] \cap S \in SUBSET Users
  BY NetworkAssumption
<1>2. IsFiniteSet(InNeighbors[v]) /\ IsFiniteSet(InNeighbors[v] \cap S)
  BY <1>1, FS_Subset, NetworkAssumption
<1>3. Cardinality(InNeighbors[v] \cap S) \in Nat /\ inDeg(v) \in Nat
  BY <1>2, FS_CardinalityType DEF inDeg
<1>4. InNeighbors[v] \cap S # {} => inDeg(v) # 0
  BY <1>2, FS_EmptySet DEF inDeg
<1>5. /\ InNeighbors[v] \cap S = {} => chance(S)[v] = 0
      /\ InNeighbors[v] \cap S # {} =>
           /\ chance(S)[v] = influence_ratio(S)[v]
           /\ chance(S)[v] = Unit - bigPai(inDeg(v))[Cardinality(InNeighbors[v] \cap S)]
  BY DEF chance, influence_ratio
<1>6. inDeg(v) # 0 =>
        /\ chance(S)[v] = Unit - bigPai(inDeg(v))[Cardinality(InNeighbors[v] \cap S)]
        /\ chance(S)[v] \in Nat
  <2> SUFFICES ASSUME inDeg(v) # 0
               PROVE  /\ chance(S)[v] = Unit - bigPai(inDeg(v))[Cardinality(InNeighbors[v] \cap S)]
                      /\ chance(S)[v] \in Nat
    OBVIOUS
  <2>1. Unit \in Nat /\ inDeg(v) \in Nat \ {0}
    BY <1>3, NetworkAssumption
  <2>2. /\ bigPai(inDeg(v))[0] = Unit
        /\ bigPai(inDeg(v))[Cardinality(InNeighbors[v] \cap S)] \in Nat
        /\ bigPai(inDeg(v))[Cardinality(InNeighbors[v] \cap S)] <= Unit
    BY <1>3, <2>1, PaiDef, PaiFalls
  <2>3. Cardinality({}) = 0
    BY FS_EmptySet
  <2>4. chance(S)[v] = Unit - bigPai(inDeg(v))[Cardinality(InNeighbors[v] \cap S)]
    <3>1. CASE InNeighbors[v] \cap S = {}
      <4>1. chance(S)[v] = 0 /\ Cardinality(InNeighbors[v] \cap S) = 0
        BY <1>5, <2>3, <3>1
      <4> QED BY <2>1, <2>2, <4>1
    <3>2. CASE InNeighbors[v] \cap S # {}
      BY <1>5, <3>2
    <3> QED BY <3>1, <3>2
  <2> QED BY <2>1, <2>2, <2>4
<1>7. chance(S)[v] \in Nat
  BY <1>4, <1>5, <1>6
<1> QED BY <1>2, <1>3, <1>4, <1>5, <1>6, <1>7

\* What a set of users is worth, summed over those it may reach.
LEMMA InfluenceIsTotal ==
  ASSUME NEW S \in SUBSET Users
  PROVE  /\ compute_usersetLocalInf(S) = Total(weight(S), Users)
         /\ compute_usersetLocalInf(S) \in Nat
         /\ \A v \in Users : weight(S)[v] \in Nat
<1> DEFINE own == [v \in Users |-> IF v \in S THEN Unit ELSE 0]
           none == [v \in Users |-> 0]
           r == chance(S)
<1>0. IsFiniteSet(Users) /\ Unit \in Nat
  BY NetworkAssumption
<1>1. \A v \in Users : r[v] \in Nat /\ own[v] \in Nat /\ none[v] = 0
                       /\ weight(S)[v] = own[v] + r[v] /\ weight(S)[v] \in Nat
  <2>1. \A v \in Users : r[v] \in Nat
    BY ChanceOf
  <2> QED BY <1>0, <2>1 DEF weight
<1>2. Total(influence_ratio(S), HopNeighbors(S)) = Total(r, Users)
  <2>1. HopNeighbors(S) \in SUBSET Users /\ IsFiniteSet(HopNeighbors(S))
    <3>1. HopNeighbors(S) \in SUBSET Users
      BY DEF HopNeighbors, out_neighbors
    <3> QED BY <1>0, <3>1, FS_Subset
  <2>2. ASSUME NEW v \in Users \ HopNeighbors(S) PROVE r[v] = 0
    <3>1. InNeighbors[v] \cap S = {}
      BY DEF HopNeighbors, out_neighbors
    <3> QED BY <3>1, ChanceOf
  <2>3. ASSUME NEW v \in HopNeighbors(S) PROVE r[v] = influence_ratio(S)[v]
    <3>1. InNeighbors[v] \cap S # {} /\ v \in Users
      BY DEF HopNeighbors, out_neighbors
    <3> QED BY <3>1, ChanceOf
  <2> HIDE DEF r
  <2>4. Total(r, HopNeighbors(S)) = Total(influence_ratio(S), HopNeighbors(S))
    BY <1>1, <2>1, <2>3, TotalSame
  <2>5. Total(r, HopNeighbors(S)) = Total(r, Users)
    BY <1>0, <1>1, <2>1, <2>2, TotalWithoutZeros
  <2> QED BY <2>4, <2>5
<1>3. Unit * Cardinality(S) = Total(own, Users)
  <2>1. IsFiniteSet(S)
    BY <1>0, FS_Subset
  <2>2. Total(own, S) = Unit * Cardinality(S)
    BY <1>0, <2>1, TotalConstant
  <2>3. Total(own, S) = Total(own, Users)
    BY <1>0, <1>1, TotalWithoutZeros
  <2> QED BY <2>2, <2>3
<1>4. Total(none, Users) = 0
  <2>1. \A x \in Users : none[x] = 0
    OBVIOUS
  <2> HIDE DEF none
  <2>2. Total(none, Users) = 0 * Cardinality(Users) /\ Cardinality(Users) \in Nat
    BY <1>0, <2>1, TotalConstant, FS_CardinalityType
  <2> QED BY <2>2
<1> HIDE DEF own, none, r
<1>5. /\ Total(own, Users) \in Nat /\ Total(r, Users) \in Nat /\ Total(weight(S), Users) \in Nat
  BY <1>0, <1>1, TotalRemove
<1>6. Total(own, Users) + Total(r, Users) = Total(weight(S), Users)
  <2>0. /\ \A v \in Users : own[v] \in Nat /\ r[v] \in Nat /\ weight(S)[v] \in Nat /\ none[v] \in Nat
        /\ \A v \in Users : weight(S)[v] + none[v] >= own[v] + r[v]
        /\ \A v \in Users : own[v] + r[v] >= weight(S)[v] + none[v]
    BY <1>1
  <2>1. Total(weight(S), Users) + Total(none, Users) >= Total(own, Users) + Total(r, Users)
    BY <1>0, <2>0, TotalExchange
  <2>2. Total(own, Users) + Total(r, Users) >= Total(weight(S), Users) + Total(none, Users)
    BY <1>0, <2>0, TotalExchange
  <2> QED BY <1>4, <1>5, <2>1, <2>2
<1>7. compute_usersetLocalInf(S) = Unit * Cardinality(S) + Total(influence_ratio(S), HopNeighbors(S))
  BY DEF compute_usersetLocalInf, Total
<1> QED BY <1>1, <1>2, <1>3, <1>5, <1>6, <1>7

-----------------------------------------------------------------------------
(* The influence is submodular: the more users there are already, the less *)
(* others add.                                                             *)

\* What T has in N is counted in two parts.
LEMMA CountSplit ==
  ASSUME NEW N, NEW S, NEW T, IsFiniteSet(N \cap S), IsFiniteSet(N \cap (T \ S))
  PROVE  Cardinality(N \cap (S \cup T)) = Cardinality(N \cap S) + Cardinality(N \cap (T \ S))
<1> DEFINE X == N \cap S
           Y == N \cap (T \ S)
<1>1. N \cap (S \cup T) = X \cup Y /\ X \cap Y = {}
  OBVIOUS
<1> HIDE DEF X, Y
<1>2. IsFiniteSet(X) /\ IsFiniteSet(Y)
  BY DEF X, Y
<1>3. Cardinality(X \cup Y) = Cardinality(X) + Cardinality(Y) - Cardinality(X \cap Y)
  BY <1>2, FS_Union
<1>4. Cardinality(X \cap Y) = 0
  BY <1>1, FS_EmptySet
<1>5. Cardinality(X) \in Nat /\ Cardinality(Y) \in Nat
  BY <1>2, FS_CardinalityType
<1>6. Cardinality(N \cap (S \cup T)) = Cardinality(X \cup Y)
  BY <1>1
<1>7. Cardinality(N \cap (S \cup T)) = Cardinality(X) + Cardinality(Y)
  BY <1>3, <1>4, <1>5, <1>6
<1> QED BY <1>7 DEF X, Y

\* At one user.
LEMMA WeightFalls ==
  ASSUME NEW B \in SUBSET Users, NEW A \in SUBSET B, NEW Q \in SUBSET Users,
         NEW v \in Users
  PROVE  /\ weight(A \cup Q)[v] + weight(B)[v] >= weight(B \cup Q)[v] + weight(A)[v]
         /\ weight(A)[v] <= weight(B)[v]
<1> DEFINE N == InNeighbors[v]
           m == Cardinality(N \cap A)
           n == Cardinality(N \cap B)
           j == Cardinality(N \cap (Q \ A))
           k == Cardinality(N \cap (Q \ B))
           pai == bigPai(inDeg(v))
           own(S) == IF v \in S THEN Unit ELSE 0
           r(S) == chance(S)[v]
<1>0. A \in SUBSET Users /\ A \cup Q \in SUBSET Users /\ B \cup Q \in SUBSET Users
      /\ Q \ A \in SUBSET Users /\ Q \ B \in SUBSET Users /\ B \ A \in SUBSET Users
  OBVIOUS
<1>1. /\ IsFiniteSet(N \cap A) /\ IsFiniteSet(N \cap B) /\ IsFiniteSet(N \cap (Q \ A))
      /\ IsFiniteSet(N \cap (Q \ B)) /\ IsFiniteSet(N \cap (B \ A))
      /\ m \in Nat /\ n \in Nat /\ j \in Nat /\ k \in Nat
      /\ Cardinality(N \cap (B \ A)) \in Nat
  BY <1>0, ChanceOf
<1>2. /\ Cardinality(N \cap (A \cup Q)) = m + j
      /\ Cardinality(N \cap (B \cup Q)) = n + k
      /\ n = m + Cardinality(N \cap (B \ A))
  <2>1. \A S, T : IsFiniteSet(N \cap S) /\ IsFiniteSet(N \cap (T \ S)) =>
          Cardinality(N \cap (S \cup T)) = Cardinality(N \cap S) + Cardinality(N \cap (T \ S))
    BY CountSplit
  <2>2. A \cup B = B
    OBVIOUS
  <2> QED BY <1>1, <2>1, <2>2
<1>3. k <= j
  <2>1. N \cap (Q \ B) \in SUBSET (N \cap (Q \ A))
    OBVIOUS
  <2> QED BY <1>1, <2>1, FS_Subset
<1>4. inDeg(v) # 0 =>
        /\ r(A) = Unit - pai[m] /\ r(B) = Unit - pai[n]
        /\ r(A \cup Q) = Unit - pai[m + j] /\ r(B \cup Q) = Unit - pai[n + k]
  BY <1>0, <1>2, ChanceOf
<1>5. /\ r(A) \in Nat /\ r(B) \in Nat /\ r(A \cup Q) \in Nat /\ r(B \cup Q) \in Nat
  BY <1>0, ChanceOf
<1>6. Unit \in Nat
  BY NetworkAssumption
<1>7. r(A \cup Q) + r(B) >= r(B \cup Q) + r(A) /\ r(A) <= r(B)
  <2>1. CASE inDeg(v) = 0
    <3>1. N \cap A = {} /\ N \cap B = {} /\ N \cap (A \cup Q) = {} /\ N \cap (B \cup Q) = {}
      BY <1>0, <2>1, ChanceOf
    <3>2. r(A) = 0 /\ r(B) = 0 /\ r(A \cup Q) = 0 /\ r(B \cup Q) = 0
      BY <1>0, <3>1, ChanceOf
    <3> HIDE DEF r
    <3> QED BY <3>2
  <2>2. CASE inDeg(v) # 0
    <3>1. inDeg(v) \in Nat \ {0}
      BY <2>2, ChanceOf
    <3>2. /\ \A x \in Nat : pai[x] \in Nat
          /\ \A x, y \in Nat : pai[x+y] <= pai[x]
          /\ \A x, y, z \in Nat : x <= y => pai[x] - pai[x+z] >= pai[y] - pai[y+z]
      BY <1>6, <3>1, PaiFalls
    <3> HIDE DEF pai, m, n, j, k, r
    <3>3. m <= n
      BY <1>1, <1>2
    <3>4. pai[n] <= pai[m]
      BY <1>1, <1>2, <3>2
    <3>5. pai[m + j] <= pai[m + k]
      <4>1. m + k \in Nat /\ j - k \in Nat /\ (m + k) + (j - k) = m + j
        BY <1>1, <1>3
      <4> QED BY <3>2, <4>1
    <3>6. pai[m] - pai[m + k] >= pai[n] - pai[n + k]
      BY <1>1, <3>2, <3>3
    <3>7. pai[m] \in Nat /\ pai[n] \in Nat /\ pai[m + j] \in Nat /\ pai[m + k] \in Nat
          /\ pai[n + k] \in Nat
      <4>1. m + j \in Nat /\ m + k \in Nat /\ n + k \in Nat
        BY <1>1
      <4> QED BY <1>1, <3>2, <4>1
    <3> QED BY <1>4, <1>6, <2>2, <3>4, <3>5, <3>6, <3>7
  <2> QED BY <2>1, <2>2
<1>8. own(A \cup Q) + own(B) >= own(B \cup Q) + own(A) /\ own(A) <= own(B)
      /\ \A S : own(S) \in Nat
  BY <1>6
<1>9. /\ weight(A)[v] = own(A) + r(A) /\ weight(B)[v] = own(B) + r(B)
      /\ weight(A \cup Q)[v] = own(A \cup Q) + r(A \cup Q)
      /\ weight(B \cup Q)[v] = own(B \cup Q) + r(B \cup Q)
  BY DEF weight
<1> HIDE DEF own, r
<1> QED BY <1>5, <1>7, <1>8, <1>9

\* Users who reach none that S reaches add the same with S as without.
LEMMA WeightApart ==
  ASSUME NEW C \in SUBSET Users, NEW S \in SUBSET Users, NEW Q \in SUBSET Users,
         S \cap Q = {}, HopNeighbors(S) \cap HopNeighbors(Q) = {}, NEW v \in Users
  PROVE  weight(C \cup S \cup Q)[v] + weight(C)[v] = weight(C \cup S)[v] + weight(C \cup Q)[v]
<1> DEFINE N == InNeighbors[v]
           own(T) == IF v \in T THEN Unit ELSE 0
           r(T) == chance(T)[v]
<1>1. N \cap S = {} \/ N \cap Q = {}
  BY DEF HopNeighbors, out_neighbors
<1>2. r(C \cup S \cup Q) + r(C) = r(C \cup S) + r(C \cup Q)
  <2>0. \A T \in SUBSET Users : r(T) \in Nat
    BY ChanceOf
  <2>1. \A T, R : N \cap T = N \cap R => r(T) = r(R)
    BY DEF chance, influence_ratio
  <2>2. r(C \cup S \cup Q) \in Nat /\ r(C) \in Nat /\ r(C \cup S) \in Nat /\ r(C \cup Q) \in Nat
    BY <2>0
  <2>3. CASE N \cap S = {}
    <3>1. N \cap (C \cup S \cup Q) = N \cap (C \cup Q) /\ N \cap (C \cup S) = N \cap C
      BY <2>3
    <3>2. r(C \cup S \cup Q) = r(C \cup Q) /\ r(C \cup S) = r(C)
      BY <2>1, <3>1
    <3> HIDE DEF r
    <3> QED BY <2>2, <3>2
  <2>4. CASE N \cap Q = {}
    <3>1. N \cap (C \cup S \cup Q) = N \cap (C \cup S) /\ N \cap (C \cup Q) = N \cap C
      BY <2>4
    <3>2. r(C \cup S \cup Q) = r(C \cup S) /\ r(C \cup Q) = r(C)
      BY <2>1, <3>1
    <3> HIDE DEF r
    <3> QED BY <2>2, <3>2
  <2> QED BY <1>1, <2>3, <2>4
<1>3. own(C \cup S \cup Q) + own(C) = own(C \cup S) + own(C \cup Q) /\ \A T : own(T) \in Nat
  BY NetworkAssumption
<1>4. /\ weight(C \cup S \cup Q)[v] = own(C \cup S \cup Q) + r(C \cup S \cup Q)
      /\ weight(C)[v] = own(C) + r(C)
      /\ weight(C \cup S)[v] = own(C \cup S) + r(C \cup S)
      /\ weight(C \cup Q)[v] = own(C \cup Q) + r(C \cup Q)
  BY DEF weight
<1>5. r(C \cup S \cup Q) \in Nat /\ r(C) \in Nat /\ r(C \cup S) \in Nat /\ r(C \cup Q) \in Nat
  BY ChanceOf
<1> HIDE DEF own, r
<1> QED BY <1>2, <1>3, <1>4, <1>5

\* The whole of it.
LEMMA Submodular ==
  ASSUME NEW B \in SUBSET Users, NEW A \in SUBSET B, NEW Q \in SUBSET Users
  PROVE  /\ compute_usersetLocalInf(A \cup Q) + compute_usersetLocalInf(B)
              >= compute_usersetLocalInf(B \cup Q) + compute_usersetLocalInf(A)
         /\ compute_usersetLocalInf(A) <= compute_usersetLocalInf(B)
<1>0. A \in SUBSET Users /\ A \cup Q \in SUBSET Users /\ B \cup Q \in SUBSET Users
      /\ IsFiniteSet(Users)
  BY NetworkAssumption
<1>1. \A T \in SUBSET Users : /\ compute_usersetLocalInf(T) = Total(weight(T), Users)
                              /\ \A v \in Users : weight(T)[v] \in Nat
  BY InfluenceIsTotal
<1>2. \A v \in Users :
        /\ weight(A \cup Q)[v] + weight(B)[v] >= weight(B \cup Q)[v] + weight(A)[v]
        /\ weight(A)[v] <= weight(B)[v]
  BY WeightFalls
<1>3. Total(weight(A \cup Q), Users) + Total(weight(B), Users)
        >= Total(weight(B \cup Q), Users) + Total(weight(A), Users)
  BY <1>0, <1>1, <1>2, TotalExchange
<1>4. Total(weight(A), Users) <= Total(weight(B), Users)
  <2>1. Users \in SUBSET Users
    OBVIOUS
  <2> QED BY <1>0, <1>1, <1>2, <2>1, TotalMonotonic
<1> QED BY <1>0, <1>1, <1>3, <1>4

\* Users who reach no one that S reaches add the same with S as without.
LEMMA Modular ==
  ASSUME NEW C \in SUBSET Users, NEW S \in SUBSET Users, NEW Q \in SUBSET Users,
         S \cap Q = {}, HopNeighbors(S) \cap HopNeighbors(Q) = {}
  PROVE  compute_usersetLocalInf(C \cup S \cup Q) + compute_usersetLocalInf(C)
           = compute_usersetLocalInf(C \cup S) + compute_usersetLocalInf(C \cup Q)
<1>0. C \cup S \in SUBSET Users /\ C \cup Q \in SUBSET Users /\ C \cup S \cup Q \in SUBSET Users
      /\ IsFiniteSet(Users)
  BY NetworkAssumption
<1>1. \A T \in SUBSET Users : /\ compute_usersetLocalInf(T) = Total(weight(T), Users)
                              /\ compute_usersetLocalInf(T) \in Nat
                              /\ \A v \in Users : weight(T)[v] \in Nat
  BY InfluenceIsTotal
<1>2. \A v \in Users :
        /\ weight(C \cup S \cup Q)[v] + weight(C)[v] >= weight(C \cup S)[v] + weight(C \cup Q)[v]
        /\ weight(C \cup S)[v] + weight(C \cup Q)[v] >= weight(C \cup S \cup Q)[v] + weight(C)[v]
  <2> SUFFICES ASSUME NEW v \in Users
               PROVE  /\ weight(C \cup S \cup Q)[v] + weight(C)[v] >= weight(C \cup S)[v] + weight(C \cup Q)[v]
                      /\ weight(C \cup S)[v] + weight(C \cup Q)[v] >= weight(C \cup S \cup Q)[v] + weight(C)[v]
    OBVIOUS
  <2>1. weight(C \cup S \cup Q)[v] + weight(C)[v] = weight(C \cup S)[v] + weight(C \cup Q)[v]
    BY WeightApart
  <2>2. weight(C \cup S \cup Q)[v] \in Nat /\ weight(C)[v] \in Nat
        /\ weight(C \cup S)[v] \in Nat /\ weight(C \cup Q)[v] \in Nat
    BY <1>0, <1>1
  <2> QED BY <2>1, <2>2
<1>3. Total(weight(C \cup S \cup Q), Users) + Total(weight(C), Users)
        >= Total(weight(C \cup S), Users) + Total(weight(C \cup Q), Users)
  BY <1>0, <1>1, <1>2, TotalExchange
<1>4. Total(weight(C \cup S), Users) + Total(weight(C \cup Q), Users)
        >= Total(weight(C \cup S \cup Q), Users) + Total(weight(C), Users)
  BY <1>0, <1>1, <1>2, TotalExchange
<1> QED BY <1>0, <1>1, <1>3, <1>4

-----------------------------------------------------------------------------
(* Gains of POIs.                                                          *)

\* The users of a table are users.
TableOK(t) == DOMAIN t \subseteq Pois /\ \A p \in DOMAIN t : t[p] \subseteq Users

\* No POI has no influence.
LEMMA NothingAtFirst ==
  ASSUME NEW t
  PROVE  PoiInf(t, {}) = 0
<1>1. UsersOf(t, {}) = {} /\ HopNeighbors({}) = {}
  BY DEF UsersOf, HopNeighbors
<1>2. compute_usersetLocalInf({}) = Unit * Cardinality({}) + Total(influence_ratio({}), {})
  BY <1>1 DEF compute_usersetLocalInf, Total
<1>3. Total(influence_ratio({}), {}) = 0 /\ Cardinality({}) = 0 /\ Unit \in Nat
  BY TotalEmpty, FS_EmptySet, NetworkAssumption
<1>4. compute_usersetLocalInf({}) = 0
  BY <1>2, <1>3
<1> QED BY <1>1, <1>4 DEF PoiInf

\* A gain is a number, no greater the more POIs there are, and nothing for a
\* POI that is there.
LEMMA Gains ==
  ASSUME NEW t, TableOK(t), NEW P \in SUBSET DOMAIN t, NEW R \in SUBSET P, NEW q \in DOMAIN t
  PROVE  /\ PoiInf(t, P) \in Nat /\ LocalGain(t, P, q) \in Nat
         /\ LocalGain(t, P, q) <= LocalGain(t, R, q)
         /\ q \in P => LocalGain(t, P, q) = 0
         /\ PoiInf(t, P \cup {q}) = PoiInf(t, P) + LocalGain(t, P, q)
<1> DEFINE A == UsersOf(t, R)
           B == UsersOf(t, P)
           Q == t[q]
<1>1. A \in SUBSET B /\ B \in SUBSET Users /\ Q \in SUBSET Users
  BY DEF TableOK, UsersOf
<1>2. UsersOf(t, P \cup {q}) = B \cup Q /\ UsersOf(t, R \cup {q}) = A \cup Q
  BY DEF UsersOf
<1> HIDE DEF A, B, Q
<1>3. /\ compute_usersetLocalInf(A) \in Nat /\ compute_usersetLocalInf(B) \in Nat
      /\ compute_usersetLocalInf(A \cup Q) \in Nat /\ compute_usersetLocalInf(B \cup Q) \in Nat
  <2>1. A \in SUBSET Users /\ A \cup Q \in SUBSET Users /\ B \cup Q \in SUBSET Users
    BY <1>1
  <2> QED BY <1>1, <2>1, InfluenceIsTotal
<1>4. compute_usersetLocalInf(A \cup Q) + compute_usersetLocalInf(B)
        >= compute_usersetLocalInf(B \cup Q) + compute_usersetLocalInf(A)
  BY <1>1, Submodular
<1>5. compute_usersetLocalInf(B) <= compute_usersetLocalInf(B \cup Q)
  <2>1. B \in SUBSET (B \cup Q) /\ B \cup Q \in SUBSET Users
    BY <1>1
  <2> QED BY <1>1, <2>1, Submodular
<1>6. /\ PoiInf(t, P) = compute_usersetLocalInf(B) /\ PoiInf(t, R) = compute_usersetLocalInf(A)
      /\ PoiInf(t, P \cup {q}) = compute_usersetLocalInf(B \cup Q)
      /\ PoiInf(t, R \cup {q}) = compute_usersetLocalInf(A \cup Q)
  BY <1>2 DEF PoiInf, A, B
<1>7. q \in P => PoiInf(t, P \cup {q}) = PoiInf(t, P)
  <2>1. q \in P => P \cup {q} = P
    OBVIOUS
  <2> QED BY <2>1
<1> QED BY <1>3, <1>4, <1>5, <1>6, <1>7 DEF LocalGain

\* A POI gains the same with one it shares nothing with.
LEMMA GainApart ==
  ASSUME NEW t, TableOK(t), NEW P \in SUBSET DOMAIN t, NEW p \in DOMAIN t, NEW q \in DOMAIN t,
         t[p] \cap t[q] = {}, HopNeighbors(t[p]) \cap HopNeighbors(t[q]) = {}
  PROVE  LocalGain(t, P \cup {p}, q) = LocalGain(t, P, q)
<1> DEFINE C == UsersOf(t, P)
           S == t[p]
           Q == t[q]
<1>1. C \in SUBSET Users /\ S \in SUBSET Users /\ Q \in SUBSET Users
  BY DEF TableOK, UsersOf
<1>2. /\ UsersOf(t, P \cup {p}) = C \cup S /\ UsersOf(t, P \cup {q}) = C \cup Q
      /\ UsersOf(t, P \cup {p} \cup {q}) = C \cup S \cup Q
  BY DEF UsersOf
<1>3. S \cap Q = {} /\ HopNeighbors(S) \cap HopNeighbors(Q) = {}
  OBVIOUS
<1>4. /\ PoiInf(t, P) = compute_usersetLocalInf(C)
      /\ PoiInf(t, P \cup {p}) = compute_usersetLocalInf(C \cup S)
      /\ PoiInf(t, P \cup {q}) = compute_usersetLocalInf(C \cup Q)
      /\ PoiInf(t, P \cup {p} \cup {q}) = compute_usersetLocalInf(C \cup S \cup Q)
  BY <1>2 DEF PoiInf
<1> HIDE DEF C, S, Q
<1>5. compute_usersetLocalInf(C \cup S \cup Q) + compute_usersetLocalInf(C)
        = compute_usersetLocalInf(C \cup S) + compute_usersetLocalInf(C \cup Q)
  BY <1>1, <1>3, Modular
<1>6. /\ compute_usersetLocalInf(C) \in Nat /\ compute_usersetLocalInf(C \cup S) \in Nat
      /\ compute_usersetLocalInf(C \cup Q) \in Nat /\ compute_usersetLocalInf(C \cup S \cup Q) \in Nat
  <2>1. C \cup S \in SUBSET Users /\ C \cup Q \in SUBSET Users /\ C \cup S \cup Q \in SUBSET Users
    BY <1>1
  <2> QED BY <1>1, <2>1, InfluenceIsTotal
<1> QED BY <1>4, <1>5, <1>6 DEF LocalGain

-----------------------------------------------------------------------------
(* The queue, and the sequence of POIs chosen.                             *)

\* A bag counts each entry it holds.
IsQueue(B) == \A e \in DOMAIN B : B[e] \in Nat \ {0}

\* One entry is taken off the queue.
LEMMA QueueTake ==
  ASSUME NEW B, IsQueue(B), NEW e
  PROVE  /\ IsQueue(B (-) SetToBag({e}))
         /\ DOMAIN (B (-) SetToBag({e})) \subseteq DOMAIN B
         /\ DOMAIN B \ {e} \subseteq DOMAIN (B (-) SetToBag({e}))
<1> DEFINE left == [x \in DOMAIN B |-> IF x \in {e} THEN B[x] - 1 ELSE B[x]]
<1>1. B (-) SetToBag({e}) = [x \in {y \in DOMAIN left : left[y] > 0} |-> left[x]]
  BY DEF (-), SetToBag
<1>2. \A x \in DOMAIN B : left[x] \in Nat /\ (x # e => left[x] > 0)
  BY DEF IsQueue
<1>3. DOMAIN left = DOMAIN B
  OBVIOUS
<1> HIDE DEF left
<1> QED BY <1>1, <1>2, <1>3 DEF IsQueue

\* A set of entries is pushed.
LEMMA QueuePut ==
  ASSUME NEW B, IsQueue(B), NEW S
  PROVE  /\ IsQueue(B (+) SetToBag(S))
         /\ DOMAIN (B (+) SetToBag(S)) = DOMAIN B \cup S
BY DEF (+), SetToBag, IsQueue

\* A sequence with one more at its end.
LEMMA OneMore ==
  ASSUME NEW S, NEW s \in Seq(S), NEW x \in S
  PROVE  /\ Append(s, x) \in Seq(S) /\ Len(Append(s, x)) = Len(s) + 1
         /\ ToSet(Append(s, x)) = ToSet(s) \cup {x}
         /\ \A k \in 1 .. Len(s) : Append(s, x)[k] = s[k]
         /\ Append(s, x)[Len(s) + 1] = x
         /\ ToSet(s) = {s[k] : k \in 1 .. Len(s)} /\ ToSet(s) \subseteq S
<1>1. /\ Append(s, x) \in Seq(S) /\ Len(Append(s, x)) = Len(s) + 1
      /\ \A k \in 1 .. Len(s) : Append(s, x)[k] = s[k]
      /\ Append(s, x)[Len(s) + 1] = x
  OBVIOUS
<1>2. \A r \in Seq(S) : ToSet(r) = {r[k] : k \in 1 .. Len(r)}
  BY DEF ToSet
<1>3. ToSet(Append(s, x)) = ToSet(s) \cup {x}
  <2> DEFINE a == Append(s, x)
  <2>1. ToSet(a) = {a[k] : k \in 1 .. Len(s) + 1} /\ ToSet(s) = {s[k] : k \in 1 .. Len(s)}
    BY <1>1, <1>2
  <2>2. Len(s) \in Nat /\ \A k \in 1 .. Len(s) : a[k] = s[k]
    BY <1>1
  <2>3. a[Len(s) + 1] = x
    BY <1>1
  <2> HIDE DEF a
  <2>4. 1 .. Len(s) + 1 = (1 .. Len(s)) \cup {Len(s) + 1}
    BY <2>2
  <2>5. {a[k] : k \in 1 .. Len(s) + 1} = {a[k] : k \in 1 .. Len(s)} \cup {x}
    BY <2>3, <2>4
  <2>6. {a[k] : k \in 1 .. Len(s)} = {s[k] : k \in 1 .. Len(s)}
    BY <2>2
  <2>7. ToSet(a) = ToSet(s) \cup {x}
    BY <2>1, <2>5, <2>6
  <2> QED BY <2>7 DEF a
<1> QED BY <1>1, <1>2, <1>3

-----------------------------------------------------------------------------
(* The selection, called on any table, again and again.                    *)

\* The types, and how many POIs are chosen.
HopTypes ==
  /\ TypeOK
  /\ IsQueue(heap)
  /\ coverage \in [DOMAIN br_usr_table -> Nat]
  /\ poiSet \in Seq(DOMAIN br_usr_table)
  /\ sel = "greedy" => Len(poiSet) < K
  /\ sel = "done" => Len(poiSet) = K

\* What is returned is never less than the influence of the POIs chosen.
NotLess == influence >= PoiInf(br_usr_table, Chosen)

\* The gains kept are the gains there are.
GainsExact ==
  sel = "greedy" /\ OverlapsShareUser =>
    \A q \in poiMark : coverage[q] = LocalGain(br_usr_table, Chosen, q)

\* So is what is counted.
SharedExact == OverlapsShareUser => influence = PoiInf(br_usr_table, Chosen)

\* What holds where entries of chosen POIs are skipped.
Skipping == SkipSelected => SeedsDistinct /\ GainsExact /\ SharedExact /\ PicksGreatest

\* What a choice rests on.
HInv == HopTypes /\ KeysBound /\ NotLess /\ Skipping

\* Before any call.
LEMMA HopInit ==
  ASSUME Init
  PROVE  HInv
<1>1. /\ br_usr_table = <<>> /\ heap = EmptyBag /\ coverage = <<>> /\ poiMark = {}
      /\ poiSet = <<>> /\ influence = 0 /\ sel = "idle"
  BY DEF Init
<1>2. Len(poiSet) = 0 /\ Chosen = {} /\ DOMAIN poiSet = {}
  BY <1>1 DEF Chosen, ToSet
<1>3. DOMAIN br_usr_table = {} /\ DOMAIN heap = {} /\ coverage \in [{} -> Nat]
  BY <1>1 DEF EmptyBag, SetToBag
<1>4. HopTypes
  BY <1>1, <1>2, <1>3, SelectionAssumption DEF HopTypes, TypeOK, IsQueue, BagToSet
<1>5. PoiInf(br_usr_table, Chosen) = 0
  BY <1>2, NothingAtFirst
<1>6. KeysBound /\ NotLess /\ GainsExact /\ SharedExact
  BY <1>1, <1>5 DEF KeysBound, NotLess, GainsExact, SharedExact
<1>7. SeedsDistinct
  BY <1>2 DEF SeedsDistinct, IsInjective
<1>8. PicksGreatest
  BY <1>2 DEF PicksGreatest
<1> QED BY <1>4, <1>6, <1>7, <1>8 DEF HInv, Skipping

\* The call: every gain is that of a POI alone.
LEMMA HopStart ==
  ASSUME HInv, NEW t \in Tables, Start(t)
  PROVE  HInv'
<1> DEFINE alone == [p \in DOMAIN t |-> PoiInf(t, {p})]
<1>1. /\ br_usr_table' = t /\ coverage' = alone /\ heap' = Entries(DOMAIN t, alone)
      /\ poiMark' = DOMAIN t /\ poiSet' = <<>> /\ influence' = 0 /\ sel' = "greedy"
  BY DEF Start
<1>2. TableOK(t)
  BY DEF TableOK, Tables
<1>3. Len(poiSet') = 0 /\ Chosen' = {} /\ DOMAIN poiSet' = {} /\ poiSet' \in Seq(DOMAIN br_usr_table')
  BY <1>1 DEF Chosen, ToSet
<1>4. ASSUME NEW q \in DOMAIN t
      PROVE  alone[q] \in Nat /\ alone[q] = LocalGain(t, {}, q)
  <2>1. LocalGain(t, {}, q) \in Nat /\ PoiInf(t, {} \cup {q}) = PoiInf(t, {}) + LocalGain(t, {}, q)
    BY <1>2, Gains
  <2>2. PoiInf(t, {}) = 0 /\ {} \cup {q} = {q}
    BY NothingAtFirst
  <2> QED BY <2>1, <2>2
<1> HIDE DEF alone
<1>5. DOMAIN alone = DOMAIN t /\ alone \in [DOMAIN t -> Nat]
  <2>1. alone = [p \in DOMAIN t |-> alone[p]] /\ DOMAIN alone = DOMAIN t
    BY DEF alone
  <2> QED BY <1>4, <2>1
<1>6. IsQueue(heap') /\ DOMAIN heap' = {<<q, alone[q]>> : q \in DOMAIN t}
  BY <1>1 DEF Entries, SetToBag, IsQueue
<1>7. HopTypes'
  BY <1>1, <1>2, <1>3, <1>4, <1>5, <1>6, SelectionAssumption DEF HopTypes, TypeOK, TableOK, BagToSet
<1>8. KeysBound'
  <2> SUFFICES ASSUME NEW q \in DOMAIN t
               PROVE  /\ alone[q] >= LocalGain(t, {}, q)
                      /\ \E e \in DOMAIN heap' : e[1] = q /\ e[2] >= alone[q]
    BY <1>1, <1>3 DEF KeysBound, BagToSet
  <2>1. <<q, alone[q]>> \in DOMAIN heap'
    BY <1>6
  <2>2. alone[q] >= LocalGain(t, {}, q) /\ alone[q] >= alone[q]
    BY <1>4
  <2> QED BY <2>1, <2>2
<1>9. PoiInf(br_usr_table', Chosen') = 0
  BY <1>3, NothingAtFirst
<1>10. NotLess' /\ GainsExact' /\ SharedExact'
  BY <1>1, <1>3, <1>4, <1>9 DEF NotLess, GainsExact, SharedExact
<1>11. SeedsDistinct' /\ PicksGreatest'
  BY <1>3 DEF SeedsDistinct, IsInjective, PicksGreatest
<1> QED BY <1>7, <1>8, <1>10, <1>11 DEF HInv, Skipping

\* Steps that leave the gains and the choice as they are.
LEMMA HopSameChoice ==
  ASSUME HInv, UNCHANGED <<br_usr_table, coverage, poiMark, poiSet, influence>>, sel' \in {sel, "undefined"},
         HopTypes', KeysBound'
  PROVE  HInv'
<1>1. NotLess' /\ Skipping'
  BY DEF HInv, NotLess, Skipping, SeedsDistinct, GainsExact, SharedExact, PicksGreatest, Chosen,
         OverlapsShareUser, OverlapsShare
<1> QED BY <1>1 DEF HInv

\* A stale top is pushed again with a key that still bounds the gain.
LEMMA HopReinsert ==
  ASSUME HInv, Reinsert
  PROVE  HInv'
<1>1. UNCHANGED <<br_usr_table, coverage, poiMark, poiSet, influence, sel>> /\ sel = "greedy"
  BY DEF Reinsert
<1>2. PICK e \in DOMAIN heap :
        /\ IsTop(e) /\ Stale(e)
        /\ heap' = (heap (-) SetToBag({e})) (+) SetToBag({<<e[1], FreshKey(e)>>})
  BY DEF Reinsert, BagToSet
<1> DEFINE new == <<e[1], coverage[e[1]]>>
           left == heap (-) SetToBag({e})
<1>3. IsQueue(heap') /\ DOMAIN heap' = DOMAIN left \cup {new}
      /\ DOMAIN left \subseteq DOMAIN heap /\ DOMAIN heap \ {e} \subseteq DOMAIN left
  <2>1. IsQueue(heap)
    BY DEF HInv, HopTypes
  <2>2. IsQueue(left) /\ DOMAIN left \subseteq DOMAIN heap /\ DOMAIN heap \ {e} \subseteq DOMAIN left
    BY <2>1, QueueTake
  <2>3. heap' = left (+) SetToBag({new})
    BY <1>2 DEF FreshKey
  <2> HIDE DEF left, new
  <2> QED BY <2>2, <2>3, QueuePut
<1>4. e[1] \in DOMAIN br_usr_table /\ coverage[e[1]] \in Nat
  BY DEF HInv, HopTypes, TypeOK, BagToSet
<1>5. new[1] = e[1] /\ new[2] = coverage[e[1]]
  OBVIOUS
<1> HIDE DEF new, left
<1>6. \A f \in DOMAIN heap' : f[1] \in DOMAIN br_usr_table /\ f[2] \in Nat
  <2>1. \A f \in DOMAIN heap : f[1] \in DOMAIN br_usr_table /\ f[2] \in Nat
    BY DEF HInv, HopTypes, TypeOK, BagToSet
  <2> QED BY <1>3, <1>4, <1>5, <2>1
<1>7. HopTypes'
  BY <1>1, <1>3, <1>6 DEF HInv, HopTypes, TypeOK, Chosen, BagToSet
<1>8. KeysBound'
  <2> SUFFICES ASSUME NEW q \in poiMark
               PROVE  /\ coverage[q] >= LocalGain(br_usr_table, Chosen, q)
                      /\ \E f \in DOMAIN heap' : f[1] = q /\ f[2] >= coverage[q]
    BY <1>1 DEF KeysBound, BagToSet, Chosen
  <2>1. /\ coverage[q] >= LocalGain(br_usr_table, Chosen, q)
        /\ \E f \in DOMAIN heap : f[1] = q /\ f[2] >= coverage[q]
    BY <1>1 DEF HInv, KeysBound, BagToSet
  <2>2. PICK f \in DOMAIN heap : f[1] = q /\ f[2] >= coverage[q]
    BY <2>1
  <2>3. CASE f = e
    <3>1. new[1] = q /\ new[2] >= coverage[q]
      BY <1>4, <1>5, <2>2, <2>3
    <3> QED BY <1>3, <2>1, <3>1
  <2>4. CASE f # e
    BY <1>3, <2>1, <2>2, <2>4
  <2> QED BY <2>3, <2>4
<1> QED BY <1>1, <1>7, <1>8, HopSameChoice

\* An entry of a chosen POI bounds no other.
LEMMA HopSkip ==
  ASSUME HInv, Skip
  PROVE  HInv'
<1>1. UNCHANGED <<br_usr_table, coverage, poiMark, poiSet, influence, sel>> /\ sel = "greedy"
  BY DEF Skip
<1>2. PICK e \in DOMAIN heap : Skipped(e) /\ heap' = heap (-) SetToBag({e})
  BY DEF Skip, BagToSet
<1>3. IsQueue(heap') /\ DOMAIN heap' \subseteq DOMAIN heap /\ DOMAIN heap \ {e} \subseteq DOMAIN heap'
  <2>1. IsQueue(heap)
    BY DEF HInv, HopTypes
  <2> QED BY <1>2, <2>1, QueueTake
<1>4. HopTypes'
  BY <1>1, <1>3 DEF HInv, HopTypes, TypeOK, Chosen, BagToSet
<1>5. KeysBound'
  <2> SUFFICES ASSUME NEW q \in poiMark
               PROVE  /\ coverage[q] >= LocalGain(br_usr_table, Chosen, q)
                      /\ \E f \in DOMAIN heap' : f[1] = q /\ f[2] >= coverage[q]
    BY <1>1 DEF KeysBound, BagToSet, Chosen
  <2>1. /\ coverage[q] >= LocalGain(br_usr_table, Chosen, q)
        /\ \E f \in DOMAIN heap : f[1] = q /\ f[2] >= coverage[q]
    BY <1>1 DEF HInv, KeysBound, BagToSet
  <2>2. PICK f \in DOMAIN heap : f[1] = q /\ f[2] >= coverage[q]
    BY <2>1
  <2>3. f # e
    BY <1>2, <2>2 DEF Skipped
  <2> QED BY <1>3, <2>1, <2>2, <2>3
<1> QED BY <1>1, <1>4, <1>5, HopSameChoice

\* The read of an empty queue.
LEMMA HopRunDry ==
  ASSUME HInv, RunDry
  PROVE  HInv'
<1>1. UNCHANGED <<br_usr_table, heap, coverage, poiMark, poiSet, influence>> /\ sel' = "undefined"
  BY DEF RunDry
<1>2. HopTypes' /\ KeysBound'
  BY <1>1 DEF HInv, HopTypes, TypeOK, Chosen, KeysBound
<1> QED BY <1>1, <1>2, HopSameChoice

\* What a choice does, with the names the proof needs.
Chooses(e, cov) ==
  LET p == e[1]
      U == need_updated_pois(p)
  IN  /\ sel = "greedy" /\ e \in DOMAIN heap
      /\ IsTop(e) /\ ~Stale(e) /\ ~Skipped(e)
      /\ cov = [q \in DOMAIN coverage |-> IF q \in U THEN inf_delta(p, q) ELSE coverage[q]]
      /\ coverage' = cov
      /\ heap' = (heap (-) SetToBag({e})) (+) Entries(U, cov)
      /\ influence' = influence + coverage[p]
      /\ poiSet' = Append(poiSet, p)
      /\ poiMark' = poiMark \ {p}
      /\ sel' = IF poiMark = {p} THEN "undefined"
                ELSE IF Len(poiSet) + 1 = K THEN "done" ELSE "greedy"
      /\ br_usr_table' = br_usr_table

\* Choose is a choice of some entry with some gains.
LEMMA ChooseIs ==
  ASSUME Choose
  PROVE  \E e, cov : Chooses(e, cov)
<1>1. PICK e \in DOMAIN heap :
        /\ IsTop(e) /\ ~Stale(e) /\ ~Skipped(e)
        /\ \E U \in {need_updated_pois(e[1])} :
           \E cov \in {[q \in DOMAIN coverage |->
                          IF q \in U THEN inf_delta(e[1], q) ELSE coverage[q]]} :
             /\ coverage' = cov
             /\ heap' = (heap (-) SetToBag({e})) (+) Entries(U, cov)
        /\ influence' = influence + coverage[e[1]]
        /\ poiSet' = Append(poiSet, e[1])
        /\ poiMark' = poiMark \ {e[1]}
        /\ sel' = IF poiMark = {e[1]} THEN "undefined"
                  ELSE IF Len(poiSet) + 1 = K THEN "done" ELSE "greedy"
  BY Zenon DEF Choose, BagToSet
<1> DEFINE cov == [q \in DOMAIN coverage |->
                     IF q \in need_updated_pois(e[1]) THEN inf_delta(e[1], q) ELSE coverage[q]]
<1>2. coverage' = cov /\ heap' = (heap (-) SetToBag({e})) (+) Entries(need_updated_pois(e[1]), cov)
  BY <1>1, Zenon
<1>3. sel = "greedy" /\ br_usr_table' = br_usr_table
  BY DEF Choose
<1>4. Chooses(e, cov)
  BY <1>1, <1>2, <1>3, Zenon DEF Chooses
<1> QED BY <1>4

\* What the choice of the POI of e means for the gains.
LEMMA ChosenGains ==
  ASSUME HInv, NEW e, NEW cov, Chooses(e, cov)
  PROVE  LET p == e[1] IN
         /\ p \in DOMAIN br_usr_table /\ coverage[p] \in Nat
         /\ poiSet \in Seq(DOMAIN br_usr_table) /\ Chosen \in SUBSET DOMAIN br_usr_table
         /\ TableOK(br_usr_table) /\ poiMark = DOMAIN br_usr_table \ Chosen
         /\ poiMark \in SUBSET DOMAIN br_usr_table
         /\ Chosen' = Chosen \cup {p}
         /\ PoiInf(br_usr_table, Chosen) \in Nat /\ influence \in Nat
         /\ PoiInf(br_usr_table, Chosen') = PoiInf(br_usr_table, Chosen) + LocalGain(br_usr_table, Chosen, p)
         /\ LocalGain(br_usr_table, Chosen, p) \in Nat
         /\ coverage[p] >= LocalGain(br_usr_table, Chosen, p)
         /\ \A q \in poiMark : coverage[p] >= coverage[q]
         /\ \A q \in DOMAIN br_usr_table :
              coverage[q] \in Nat /\ LocalGain(br_usr_table, Chosen, q) \in Nat
         /\ need_updated_pois(p) \subseteq poiMark \ {p}
         /\ \A q \in need_updated_pois(p) : cov[q] = LocalGain(br_usr_table, Chosen \cup {p}, q)
         /\ \A q \in DOMAIN br_usr_table \ need_updated_pois(p) : cov[q] = coverage[q]
         /\ cov \in [DOMAIN br_usr_table -> Nat]
<1> DEFINE p == e[1]
           t == br_usr_table
<1>1. e[1] \in DOMAIN br_usr_table /\ e[2] \in Nat /\ coverage \in [DOMAIN br_usr_table -> Nat]
  BY DEF HInv, HopTypes, TypeOK, BagToSet, Chooses
<1>2. TableOK(t) /\ poiSet \in Seq(DOMAIN t) /\ poiMark = DOMAIN t \ Chosen /\ influence \in Nat
  BY DEF HInv, HopTypes, TypeOK, TableOK
<1>3. /\ Chosen \in SUBSET DOMAIN t /\ Chosen' = Chosen \cup {p}
      /\ poiMark \in SUBSET DOMAIN t
  <2>1. poiSet' = Append(poiSet, p)
    BY DEF Chooses
  <2> QED BY <1>1, <1>2, <2>1, OneMore DEF Chosen
<1>4. \A q \in DOMAIN t : coverage[q] \in Nat /\ LocalGain(t, Chosen, q) \in Nat
                          /\ LocalGain(t, Chosen \cup {p}, q) \in Nat
  <2>1. Chosen \cup {p} \in SUBSET DOMAIN t
    BY <1>1, <1>3
  <2> QED BY <1>1, <1>2, <1>3, <2>1, Gains
<1>5. PoiInf(t, Chosen) \in Nat /\ PoiInf(t, Chosen \cup {p}) = PoiInf(t, Chosen) + LocalGain(t, Chosen, p)
      /\ (p \in Chosen => LocalGain(t, Chosen, p) = 0)
  BY <1>1, <1>2, <1>3, Gains
<1>6. coverage[p] >= LocalGain(t, Chosen, p)
  <2>1. CASE p \in Chosen
    BY <1>1, <1>4, <1>5, <2>1
  <2>2. CASE p \notin Chosen
    BY <1>1, <1>2, <2>2 DEF HInv, KeysBound, Chooses
  <2> QED BY <2>1, <2>2
<1>7. \A q \in poiMark : coverage[p] >= coverage[q]
  <2> SUFFICES ASSUME NEW q \in poiMark
               PROVE  coverage[p] >= coverage[q]
    OBVIOUS
  <2>1. PICK f \in DOMAIN heap : f[1] = q /\ f[2] >= coverage[q]
    BY DEF HInv, KeysBound, Chooses, BagToSet
  <2>2. f[2] <= e[2] /\ f[2] \in Nat
    BY DEF Chooses, IsTop, BagToSet, HInv, HopTypes, TypeOK
  <2>3. e[2] <= coverage[p]
    BY <1>1, <1>4 DEF Chooses, Stale
  <2> QED BY <1>1, <1>3, <1>4, <2>1, <2>2, <2>3
<1>8. need_updated_pois(p) \subseteq poiMark \ {p}
  BY DEF need_updated_pois
<1>9. /\ DOMAIN cov = DOMAIN t
      /\ \A q \in need_updated_pois(p) : cov[q] = LocalGain(t, Chosen \cup {p}, q)
      /\ \A q \in DOMAIN t \ need_updated_pois(p) : cov[q] = coverage[q]
      /\ cov = [q \in DOMAIN t |-> cov[q]]
  <2>1. cov = [q \in DOMAIN t |-> IF q \in need_updated_pois(p)
                                  THEN LocalGain(t, Chosen \cup {p}, q) ELSE coverage[q]]
    BY <1>1 DEF Chooses, inf_delta
  <2> QED BY <1>3, <1>8, <2>1
<1>10. cov \in [DOMAIN t -> Nat]
  <2>1. \A q \in DOMAIN t : cov[q] \in Nat
    BY <1>4, <1>9
  <2> QED BY <1>9, <2>1
<1> QED BY <1>1, <1>2, <1>3, <1>4, <1>5, <1>6, <1>7, <1>8, <1>9, <1>10

\* A choice keeps the types.
LEMMA ChooseTypes ==
  ASSUME HInv, NEW e, NEW cov, Chooses(e, cov)
  PROVE  /\ HopTypes'
         /\ DOMAIN heap' \subseteq DOMAIN heap \cup {<<q, cov[q]>> : q \in need_updated_pois(e[1])}
         /\ DOMAIN heap \ {e} \subseteq DOMAIN heap'
         /\ {<<q, cov[q]>> : q \in need_updated_pois(e[1])} \subseteq DOMAIN heap'
<1> DEFINE p == e[1]
           U == need_updated_pois(p)
           new == {<<q, cov[q]>> : q \in U}
           left == heap (-) SetToBag({e})
<1>1. IsQueue(heap') /\ DOMAIN heap' = DOMAIN left \cup new
      /\ DOMAIN left \subseteq DOMAIN heap /\ DOMAIN heap \ {e} \subseteq DOMAIN left
  <2>1. IsQueue(heap)
    BY DEF HInv, HopTypes
  <2>2. IsQueue(left) /\ DOMAIN left \subseteq DOMAIN heap /\ DOMAIN heap \ {e} \subseteq DOMAIN left
    BY <2>1, QueueTake
  <2>3. heap' = left (+) SetToBag(new)
    BY DEF Chooses, Entries
  <2> HIDE DEF left, new
  <2> QED BY <2>2, <2>3, QueuePut
<1>2. /\ p \in DOMAIN br_usr_table /\ coverage[p] \in Nat
      /\ poiSet \in Seq(DOMAIN br_usr_table)
      /\ poiMark = DOMAIN br_usr_table \ Chosen
      /\ Chosen' = Chosen \cup {p} /\ influence \in Nat
      /\ U \subseteq poiMark \ {p} /\ cov \in [DOMAIN br_usr_table -> Nat]
  BY ChosenGains
<1>3. /\ br_usr_table' = br_usr_table /\ coverage' = cov /\ influence' = influence + coverage[p]
      /\ poiSet' = Append(poiSet, p) /\ poiMark' = poiMark \ {p} /\ sel = "greedy"
      /\ sel' = "greedy" => Len(poiSet) + 1 # K
      /\ sel' = "done" => Len(poiSet) + 1 = K
  BY DEF Chooses
<1>4. \A f \in DOMAIN heap' : f[1] \in DOMAIN br_usr_table /\ f[2] \in Nat
  <2>1. \A f \in DOMAIN heap : f[1] \in DOMAIN br_usr_table /\ f[2] \in Nat
    BY DEF HInv, HopTypes, TypeOK, BagToSet
  <2>2. \A f \in new : f[1] \in DOMAIN br_usr_table /\ f[2] \in Nat
    BY <1>2
  <2> QED BY <1>1, <2>1, <2>2
<1>5. /\ poiSet' \in Seq(DOMAIN br_usr_table) /\ Len(poiSet') = Len(poiSet) + 1 /\ Len(poiSet) \in Nat
  BY <1>2, <1>3, OneMore
<1>6. Len(poiSet) < K
  BY <1>3 DEF HInv, HopTypes
<1>7. poiMark' = DOMAIN br_usr_table \ Chosen'
  BY <1>2, <1>3
<1>8. TypeOK'
  <2>1. DOMAIN br_usr_table \subseteq Pois /\ \A q \in DOMAIN br_usr_table : br_usr_table[q] \subseteq Users
    BY DEF HInv, HopTypes, TypeOK
  <2>2. DOMAIN cov = DOMAIN br_usr_table /\ Len(poiSet') <= K /\ influence' \in Nat
    BY <1>2, <1>3, <1>5, <1>6, SelectionAssumption
  <2> QED BY <1>3, <1>4, <1>7, <2>1, <2>2 DEF TypeOK, BagToSet
<1>9. HopTypes'
  BY <1>1, <1>2, <1>3, <1>5, <1>6, <1>8, SelectionAssumption DEF HopTypes
<1> HIDE DEF left, new
<1>10. DOMAIN heap' \subseteq DOMAIN heap \cup new /\ DOMAIN heap \ {e} \subseteq DOMAIN heap' /\ new \subseteq DOMAIN heap'
  BY <1>1
<1> QED BY <1>9, <1>10 DEF new

\* A choice keeps the gains above what a POI adds: those computed anew are
\* exact, and the others can only have become too large.
LEMMA ChooseKeys ==
  ASSUME HInv, NEW e, NEW cov, Chooses(e, cov)
  PROVE  KeysBound'
<1> DEFINE p == e[1]
           U == need_updated_pois(p)
           t == br_usr_table
<1>1. /\ p \in DOMAIN t /\ TableOK(t) /\ Chosen \in SUBSET DOMAIN t /\ Chosen' = Chosen \cup {p}
      /\ poiMark \in SUBSET DOMAIN t
      /\ \A q \in U : cov[q] = LocalGain(t, Chosen \cup {p}, q)
      /\ \A q \in DOMAIN t \ U : cov[q] = coverage[q]
      /\ \A q \in DOMAIN t : coverage[q] \in Nat /\ LocalGain(t, Chosen, q) \in Nat
      /\ cov \in [DOMAIN t -> Nat]
  BY ChosenGains
<1>2. /\ DOMAIN heap \ {e} \subseteq DOMAIN heap'
      /\ \A q \in U : <<q, cov[q]>> \in DOMAIN heap'
  BY ChooseTypes
<1>3. br_usr_table' = t /\ coverage' = cov /\ poiMark' = poiMark \ {p} /\ sel = "greedy"
  BY DEF Chooses
<1> SUFFICES ASSUME NEW q \in poiMark \ {p}
             PROVE  /\ cov[q] >= LocalGain(t, Chosen \cup {p}, q)
                    /\ \E f \in DOMAIN heap' : f[1] = q /\ f[2] >= cov[q]
  BY <1>1, <1>3 DEF KeysBound, BagToSet
<1>4. /\ coverage[q] >= LocalGain(t, Chosen, q)
      /\ \E f \in DOMAIN heap : f[1] = q /\ f[2] >= coverage[q]
  BY <1>3 DEF HInv, KeysBound, BagToSet
<1>5. LocalGain(t, Chosen \cup {p}, q) \in Nat /\ LocalGain(t, Chosen \cup {p}, q) <= LocalGain(t, Chosen, q)
  <2>1. Chosen \cup {p} \in SUBSET DOMAIN t /\ Chosen \in SUBSET (Chosen \cup {p}) /\ q \in DOMAIN t
    BY <1>1
  <2> QED BY <1>1, <2>1, Gains
<1> HIDE DEF U
<1>6. CASE q \in U
  <2>1. cov[q] = LocalGain(t, Chosen \cup {p}, q) /\ <<q, cov[q]>> \in DOMAIN heap'
    BY <1>1, <1>2, <1>6
  <2>2. cov[q] >= cov[q]
    BY <1>5, <2>1
  <2> QED BY <1>5, <2>1, <2>2
<1>7. CASE q \notin U
  <2>1. cov[q] = coverage[q]
    BY <1>1, <1>7
  <2>2. PICK f \in DOMAIN heap : f[1] = q /\ f[2] >= coverage[q]
    BY <1>4
  <2>3. f # e /\ f \in DOMAIN heap'
    BY <1>2, <2>2
  <2> QED BY <1>1, <1>4, <1>5, <2>1, <2>2, <2>3
<1> QED BY <1>6, <1>7

\* What is added to the influence is no less than what the POI adds.
LEMMA ChooseNotLess ==
  ASSUME HInv, NEW e, NEW cov, Chooses(e, cov)
  PROVE  NotLess'
<1> DEFINE p == e[1]
<1>1. /\ coverage[p] \in Nat /\ influence \in Nat /\ PoiInf(br_usr_table, Chosen) \in Nat
      /\ PoiInf(br_usr_table, Chosen') = PoiInf(br_usr_table, Chosen) + LocalGain(br_usr_table, Chosen, p)
      /\ LocalGain(br_usr_table, Chosen, p) \in Nat
      /\ coverage[p] >= LocalGain(br_usr_table, Chosen, p)
  BY ChosenGains
<1>2. influence >= PoiInf(br_usr_table, Chosen)
  BY DEF HInv, NotLess
<1>3. br_usr_table' = br_usr_table /\ influence' = influence + coverage[p]
  BY DEF Chooses
<1> QED BY <1>1, <1>2, <1>3 DEF NotLess

\* Where an entry of a POI chosen is skipped.
LEMMA ChooseSkipping ==
  ASSUME HInv, NEW e, NEW cov, Chooses(e, cov)
  PROVE  Skipping'
<1> DEFINE p == e[1]
           t == br_usr_table
<1> SUFFICES ASSUME SkipSelected
             PROVE  SeedsDistinct' /\ GainsExact' /\ SharedExact' /\ PicksGreatest'
  BY DEF Skipping
<1>1. /\ p \in DOMAIN t /\ TableOK(t) /\ Chosen \in SUBSET DOMAIN t /\ Chosen' = Chosen \cup {p}
      /\ poiSet \in Seq(DOMAIN t) /\ poiMark = DOMAIN t \ Chosen
      /\ influence \in Nat /\ PoiInf(t, Chosen) \in Nat
      /\ PoiInf(t, Chosen') = PoiInf(t, Chosen) + LocalGain(t, Chosen, p)
      /\ \A q \in poiMark : coverage[p] >= coverage[q]
      /\ \A q \in need_updated_pois(p) : cov[q] = LocalGain(t, Chosen \cup {p}, q)
      /\ \A q \in DOMAIN t \ need_updated_pois(p) : cov[q] = coverage[q]
      /\ \A q \in DOMAIN t : coverage[q] \in Nat /\ LocalGain(t, Chosen, q) \in Nat
  BY ChosenGains
<1>2. /\ br_usr_table' = t /\ coverage' = cov /\ poiMark' = poiMark \ {p} /\ sel = "greedy"
      /\ poiSet' = Append(poiSet, p) /\ influence' = influence + coverage[p]
  BY DEF Chooses
<1>3. p \in poiMark /\ p \notin Chosen
  BY <1>1 DEF Chooses, Skipped
<1>4. SeedsDistinct /\ GainsExact /\ SharedExact /\ PicksGreatest
  BY DEF HInv, Skipping
<1>5. /\ Len(poiSet) \in Nat /\ Len(poiSet') = Len(poiSet) + 1
      /\ \A k \in 1 .. Len(poiSet) : poiSet'[k] = poiSet[k]
      /\ poiSet'[Len(poiSet) + 1] = p
      /\ Chosen = {poiSet[k] : k \in 1 .. Len(poiSet)}
      /\ DOMAIN poiSet = 1 .. Len(poiSet) /\ DOMAIN poiSet' = 1 .. Len(poiSet) + 1
  <2>1. Append(poiSet, p) \in Seq(DOMAIN t)
    BY <1>1, OneMore
  <2> QED BY <1>1, <1>2, <2>1, OneMore DEF Chosen
<1>6. SeedsDistinct'
  <2>1. \A k \in 1 .. Len(poiSet) : poiSet[k] # p
    BY <1>3, <1>5
  <2>2. \A k, j \in 1 .. Len(poiSet) : poiSet[k] = poiSet[j] => k = j
    BY <1>4, <1>5 DEF SeedsDistinct, IsInjective
  <2>3. \A k, j \in 1 .. Len(poiSet) + 1 : poiSet'[k] = poiSet'[j] => k = j
    BY <1>5, <2>1, <2>2
  <2> QED BY <1>5, <2>3 DEF SeedsDistinct, IsInjective
<1>7. GainsExact'
  <2> SUFFICES ASSUME OverlapsShareUser, NEW q \in poiMark \ {p}
               PROVE  cov[q] = LocalGain(t, Chosen \cup {p}, q)
    BY <1>1, <1>2 DEF GainsExact, OverlapsShareUser, OverlapsShare
  <2>1. CASE q \in need_updated_pois(p)
    BY <1>1, <2>1
  <2>2. CASE q \notin need_updated_pois(p)
    <3>1. q \in DOMAIN t /\ cov[q] = coverage[q] /\ coverage[q] = LocalGain(t, Chosen, q)
      BY <1>1, <1>2, <1>4, <2>2 DEF GainsExact
    <3>2. t[p] \cap t[q] = {}
      BY <2>2, <3>1 DEF need_updated_pois, SharingUser
    <3>3. HopNeighbors(t[p]) \cap HopNeighbors(t[q]) = {}
      BY <1>1, <3>1, <3>2 DEF OverlapsShareUser, OverlapsShare
    <3>4. TableOK(t) /\ p \in DOMAIN t /\ Chosen \in SUBSET DOMAIN t
      BY <1>1
    <3> HIDE DEF p, t
    <3>5. LocalGain(t, Chosen \cup {p}, q) = LocalGain(t, Chosen, q)
      BY <3>1, <3>2, <3>3, <3>4, GainApart
    <3> QED BY <3>1, <3>5
  <2> QED BY <2>1, <2>2
<1>8. OverlapsShareUser => coverage[p] = LocalGain(t, Chosen, p)
  BY <1>2, <1>3, <1>4 DEF GainsExact
<1>9. SharedExact'
  <2>1. NotLess'
    BY ChooseNotLess
  <2>2. OverlapsShareUser => influence' = PoiInf(t, Chosen')
    BY <1>1, <1>2, <1>4, <1>8 DEF SharedExact
  <2> QED BY <1>2, <2>1, <2>2 DEF SharedExact, NotLess, OverlapsShareUser, OverlapsShare
<1>10. PicksGreatest'
  <2> DEFINE Before(s, k) == {s[j] : j \in 1 .. k-1}
             Best(s, k) == \A q \in DOMAIN t : LocalGain(t, Before(s, k), s[k]) >= LocalGain(t, Before(s, k), q)
  <2> SUFFICES ASSUME OverlapsShareUser, NEW k \in 1 .. Len(poiSet) + 1
               PROVE  Best(poiSet', k)
    BY <1>2, <1>5 DEF PicksGreatest, OverlapsShareUser, OverlapsShare
  <2>1. CASE k # Len(poiSet) + 1
    <3>1. k \in 1 .. Len(poiSet) /\ Before(poiSet', k) = Before(poiSet, k) /\ poiSet'[k] = poiSet[k]
      BY <1>5, <2>1
    <3>2. Best(poiSet, k)
      BY <1>4, <3>1 DEF PicksGreatest
    <3> HIDE DEF Before
    <3> QED BY <3>1, <3>2
  <2>2. CASE k = Len(poiSet) + 1
    <3>1. Before(poiSet', k) = Chosen /\ poiSet'[k] = p
      BY <1>5, <2>2
    <3>2. ASSUME NEW q \in DOMAIN t
          PROVE  LocalGain(t, Chosen, p) >= LocalGain(t, Chosen, q)
      <4>1. CASE q \in Chosen
        <5>1. LocalGain(t, Chosen, q) = 0 /\ LocalGain(t, Chosen, p) \in Nat
          BY <1>1, <4>1, Gains
        <5> QED BY <5>1
      <4>2. CASE q \notin Chosen
        <5>1. q \in poiMark /\ coverage[q] = LocalGain(t, Chosen, q)
          BY <1>1, <1>2, <1>4, <4>2 DEF GainsExact
        <5> QED BY <1>1, <1>8, <5>1
      <4> QED BY <4>1, <4>2
    <3> HIDE DEF Before
    <3> QED BY <3>1, <3>2
  <2> QED BY <2>1, <2>2
<1> QED BY <1>6, <1>7, <1>9, <1>10

\* A choice keeps all of it.
LEMMA HopChoose ==
  ASSUME HInv, Choose
  PROVE  HInv'
<1>1. PICK e, cov : Chooses(e, cov)
  BY ChooseIs
<1> QED BY <1>1, ChooseTypes, ChooseKeys, ChooseNotLess, ChooseSkipping DEF HInv

\* And so does a step that changes nothing.
LEMMA HopStay ==
  ASSUME HInv, UNCHANGED vars
  PROVE  HInv'
<1>1. UNCHANGED <<br_usr_table, heap, coverage, poiMark, poiSet, influence, sel>>
  BY DEF vars
<1>2. HopTypes' /\ KeysBound'
  BY <1>1 DEF HInv, HopTypes, TypeOK, Chosen, KeysBound
<1> QED BY <1>1, <1>2, HopSameChoice

-----------------------------------------------------------------------------
(* How good the choice is.                                                 *)

\* A power is a number; each next one is the last times the base.
LEMMA Powers ==
  ASSUME NEW b \in Nat
  PROVE  /\ Power(b)[0] = 1
         /\ \A n \in Nat : Power(b)[n] \in Nat /\ Power(b)[n+1] = Power(b)[n] * b
<1> DEFINE Full(f) == f = [n \in Nat |-> IF n = 0 THEN 1 ELSE f[n-1] * b]
           step == [x \in Nat |-> x * b]
<1>0. PICK f : Iterates(f, 1, step)
  <2> HIDE DEF step
  <2> QED BY Recursion
<1>1. f = [n \in Nat |-> f[n]] /\ f[0] = 1 /\ \A n \in Nat : f[n+1] = step[f[n]]
  <2> HIDE DEF step
  <2> QED BY <1>0 DEF Iterates
<1>2. \A x \in Nat : step[x] = x * b /\ step[x] \in Nat
  OBVIOUS
<1> HIDE DEF step
<1>3. \A n \in Nat : f[n] \in Nat
  <2> DEFINE P == {n \in Nat : f[n] \in Nat}
  <2>1. 0 \in P
    BY <1>1
  <2>2. ASSUME NEW n \in Nat, n \in P
        PROVE  n + 1 \in P
    <3>1. f[n] \in Nat /\ f[n+1] = step[f[n]]
      BY <1>1, <2>2
    <3> HIDE DEF P
    <3>2. f[n+1] \in Nat
      BY <1>2, <3>1
    <3> QED BY <3>2 DEF P
  <2>3. Nat \subseteq P
    BY <2>1, <2>2, NumberInduction
  <2> QED BY <2>3
<1>4. Full(f)
  <2>1. \A n \in Nat : f[n] = IF n = 0 THEN 1 ELSE f[n-1] * b
    <3> SUFFICES ASSUME NEW n \in Nat, n # 0
                 PROVE  f[n] = f[n-1] * b
      BY <1>1
    <3>1. n-1 \in Nat /\ (n-1)+1 = n
      OBVIOUS
    <3> QED BY <1>1, <1>2, <1>3, <3>1
  <2> QED BY <1>1, <2>1
<1>5. Power(b) = CHOOSE g : Full(g)
  BY DEF Power
<1>6. ASSUME NEW g, Full(g)
      PROVE  g[0] = 1 /\ \A n \in Nat : g[n] \in Nat /\ g[n+1] = g[n] * b
  <2>0. \A n \in Nat : n+1 \in Nat /\ n+1 # 0 /\ (n+1)-1 = n
    OBVIOUS
  <2>1. g[0] = 1 /\ \A n \in Nat : g[n+1] = g[n] * b
    BY <1>6, <2>0
  <2> DEFINE P == {n \in Nat : g[n] \in Nat}
  <2>2. 0 \in P
    BY <2>1
  <2>3. ASSUME NEW n \in Nat, n \in P
        PROVE  n + 1 \in P
    <3>1. g[n] \in Nat /\ g[n+1] = g[n] * b
      BY <2>1, <2>3
    <3> QED BY <3>1
  <2>4. Nat \subseteq P
    BY <2>2, <2>3, NumberInduction
  <2> QED BY <2>1, <2>4
<1>7. Full(Power(b))
  <2> HIDE DEF Full
  <2> QED BY <1>4, <1>5
<1> HIDE DEF Full
<1> QED BY <1>6, <1>7

\* Where none adds more than c, P adds at most c as often as it has members.
LEMMA SumOfGains ==
  ASSUME NEW t, TableOK(t), NEW C \in SUBSET DOMAIN t, NEW P \in SUBSET DOMAIN t,
         NEW c \in Nat, \A q \in DOMAIN t : LocalGain(t, C, q) <= c
  PROVE  /\ PoiInf(t, P) \in Nat /\ Cardinality(P) \in Nat
         /\ PoiInf(t, P) <= PoiInf(t, C) + c * Cardinality(P)
<1>1. IsFiniteSet(P)
  <2>1. P \in SUBSET Pois
    BY DEF TableOK
  <2> QED BY <2>1, FS_Subset, NetworkAssumption
<1> DEFINE good == {s \in SUBSET P : PoiInf(t, C \cup s) <= PoiInf(t, C) + c * Cardinality(s)}
<1>0. PoiInf(t, C) \in Nat
  <2>1. UsersOf(t, C) \in SUBSET Users
    BY DEF TableOK, UsersOf
  <2> QED BY <2>1, InfluenceIsTotal DEF PoiInf
<1>2. {} \in good
  <2>1. C \cup {} = C /\ Cardinality({}) = 0
    BY FS_EmptySet
  <2> QED BY <1>0, <2>1
<1>3. ASSUME NEW s \in SUBSET P, NEW x \in P \ s, s \in good
      PROVE  s \cup {x} \in good
  <2>1. Cardinality(s) \in Nat /\ Cardinality(s \cup {x}) = Cardinality(s) + 1
    BY <1>1, FS_Subset, FS_AddElement, FS_CardinalityType
  <2>2. C \cup s \in SUBSET DOMAIN t /\ C \in SUBSET (C \cup s) /\ x \in DOMAIN t
    OBVIOUS
  <2>3. /\ PoiInf(t, C \cup s) \in Nat /\ LocalGain(t, C \cup s, x) \in Nat
        /\ LocalGain(t, C \cup s, x) <= LocalGain(t, C, x)
        /\ PoiInf(t, C \cup s \cup {x}) = PoiInf(t, C \cup s) + LocalGain(t, C \cup s, x)
    BY <2>2, Gains
  <2>4. LocalGain(t, C, x) <= c /\ LocalGain(t, C, x) \in Nat
    BY <2>2, Gains
  <2>5. PoiInf(t, C \cup s) <= PoiInf(t, C) + c * Cardinality(s)
    BY <1>3
  <2>6. c * (Cardinality(s) + 1) = c * Cardinality(s) + c /\ c * Cardinality(s) \in Nat
    BY <2>1
  <2>7. PoiInf(t, C \cup s \cup {x}) = PoiInf(t, C \cup (s \cup {x}))
    <3>1. C \cup s \cup {x} = C \cup (s \cup {x})
      OBVIOUS
    <3> QED BY <3>1
  <2> HIDE DEF good
  <2>8. PoiInf(t, C \cup (s \cup {x})) <= PoiInf(t, C) + c * Cardinality(s \cup {x})
    BY <1>0, <2>1, <2>3, <2>4, <2>5, <2>6, <2>7
  <2> QED BY <2>8 DEF good
<1>4. P \in good
  <2> HIDE DEF good
  <2> QED BY <1>1, <1>2, <1>3, SetInduction
<1>5. UsersOf(t, P) \in SUBSET UsersOf(t, C \cup P) /\ UsersOf(t, C \cup P) \in SUBSET Users
  BY DEF TableOK, UsersOf
<1>6. PoiInf(t, P) <= PoiInf(t, C \cup P) /\ PoiInf(t, P) \in Nat /\ PoiInf(t, C \cup P) \in Nat
  <2>1. UsersOf(t, P) \in SUBSET Users
    BY <1>5
  <2> QED BY <1>5, <2>1, Submodular, InfluenceIsTotal DEF PoiInf
<1>7. Cardinality(P) \in Nat
  BY <1>1, FS_CardinalityType
<1>8. c * Cardinality(P) \in Nat
  BY <1>7
<1> QED BY <1>0, <1>4, <1>6, <1>7, <1>8

\* What is missing, x, shrinks by c, at least a K-th of it.
LEMMA Shrinks ==
  ASSUME NEW k \in Nat \ {0}, NEW a \in Nat, NEW b \in Nat, NEW best \in Nat, NEW x \in Int, NEW c \in Nat,
         a * x <= b * best, x <= k * c
  PROVE  (a * k) * (x - c) <= (b * (k-1)) * best
<1>1. (a * k) * (x - c) = a * (k * x - k * c)
  OBVIOUS
<1>2. a * (k * x - k * c) <= a * ((k-1) * x)
  <2>1. k * x - k * c <= (k-1) * x
    <3>1. (k-1) * x = k * x - x
      OBVIOUS
    <3> QED BY <3>1
  <2> DEFINE y == k * x - k * c
             z == (k-1) * x
  <2>2. y \in Int /\ z \in Int
    OBVIOUS
  <2> HIDE DEF y, z
  <2>3. y <= z => a * y <= a * z
    BY <2>2
  <2> QED BY <2>1, <2>3 DEF y, z
<1>3. a * ((k-1) * x) = (k-1) * (a * x)
  OBVIOUS
<1>4. (k-1) * (a * x) <= (k-1) * (b * best)
  <2> DEFINE y == a * x
             z == b * best
  <2>1. y \in Int /\ z \in Int /\ k-1 \in Nat /\ y <= z
    OBVIOUS
  <2> HIDE DEF y, z
  <2>2. (k-1) * y <= (k-1) * z
    BY <2>1
  <2> QED BY <2>2 DEF y, z
<1>5. (k-1) * (b * best) = (b * (k-1)) * best
  OBVIOUS
<1>6. a * (k * x - k * c) \in Int /\ a * ((k-1) * x) \in Int /\ (k-1) * (b * best) \in Int
  OBVIOUS
<1> QED BY <1>1, <1>2, <1>3, <1>4, <1>5, <1>6

\* The influence of P, and what is missing to it.
LEMMA BestInf ==
  ASSUME TableOK(br_usr_table), NEW P \in SUBSET DOMAIN br_usr_table
  PROVE  PoiInf(br_usr_table, P) \in Nat
<1>1. UsersOf(br_usr_table, P) \in SUBSET Users
  BY DEF TableOK, UsersOf
<1> QED BY <1>1, InfluenceIsTotal DEF PoiInf

\* With no POI chosen everything is missing.
LEMMA GreedyFirst ==
  ASSUME TableOK(br_usr_table), Len(poiSet) = 0, influence = 0
  PROVE  GreedyBound
<1> SUFFICES ASSUME NEW P \in SUBSET DOMAIN br_usr_table
             PROVE  Power(K)[0] * (PoiInf(br_usr_table, P) - 0) <= Power(K-1)[0] * PoiInf(br_usr_table, P)
  BY DEF GreedyBound
<1>1. Power(K)[0] = 1 /\ Power(K-1)[0] = 1
  BY Powers, SelectionAssumption
<1>2. PoiInf(br_usr_table, P) \in Nat
  BY BestInf
<1> QED BY <1>1, <1>2

\* A choice shrinks what is missing by a K-th of it at least.
LEMMA ChooseGreedy ==
  ASSUME HInv, GreedyBound, NEW e, NEW cov, Chooses(e, cov)
  PROVE  GreedyBound'
<1> DEFINE p == e[1]
           t == br_usr_table
           n == Len(poiSet)
<1>1. /\ p \in DOMAIN t /\ TableOK(t) /\ Chosen \in SUBSET DOMAIN t
      /\ poiSet \in Seq(DOMAIN t) /\ poiMark = DOMAIN t \ Chosen
      /\ influence \in Nat /\ PoiInf(t, Chosen) \in Nat /\ coverage[p] \in Nat
      /\ \A q \in poiMark : coverage[p] >= coverage[q]
      /\ \A q \in DOMAIN t : coverage[q] \in Nat /\ LocalGain(t, Chosen, q) \in Nat
  BY ChosenGains
<1>2. /\ br_usr_table' = t /\ poiSet' = Append(poiSet, p) /\ influence' = influence + coverage[p]
      /\ sel = "greedy"
  BY DEF Chooses
<1>3. Len(poiSet') = n + 1 /\ n \in Nat
  BY <1>1, <1>2, OneMore
<1>4. ASSUME NEW q \in DOMAIN t
      PROVE  LocalGain(t, Chosen, q) <= coverage[p]
  <2>1. CASE q \in Chosen
    <3>1. LocalGain(t, Chosen, q) = 0
      BY <1>1, <2>1, Gains
    <3> QED BY <1>1, <3>1
  <2>2. CASE q \notin Chosen
    <3>1. q \in poiMark /\ coverage[q] >= LocalGain(t, Chosen, q)
      BY <1>1, <1>2, <2>2 DEF HInv, KeysBound
    <3> QED BY <1>1, <3>1
  <2> QED BY <2>1, <2>2
<1> SUFFICES ASSUME NEW P \in SUBSET DOMAIN t, Cardinality(P) <= K
             PROVE  Power(K)[n + 1] * (PoiInf(t, P) - (influence + coverage[p]))
                      <= Power(K-1)[n + 1] * PoiInf(t, P)
  BY <1>2, <1>3 DEF GreedyBound
<1> DEFINE a == Power(K)[n]
           b == Power(K-1)[n]
           best == PoiInf(t, P)
           c == coverage[p]
           x == best - influence
<1>5. /\ a \in Nat /\ b \in Nat /\ Power(K)[n + 1] = a * K /\ Power(K-1)[n + 1] = b * (K-1)
  <2>1. K \in Nat /\ K-1 \in Nat
    BY SelectionAssumption
  <2> QED BY <1>3, <2>1, Powers
<1>6. best \in Nat /\ best <= PoiInf(t, Chosen) + c * Cardinality(P) /\ Cardinality(P) \in Nat
  BY <1>1, <1>4, SumOfGains
<1>7. a * x <= b * best
  BY DEF GreedyBound
<1>8. x <= K * c
  <2>1. c * Cardinality(P) <= K * c
    <3> DEFINE m == Cardinality(P)
    <3>1. m \in Nat /\ m <= K /\ K \in Nat /\ c \in Nat
      BY <1>1, <1>6, SelectionAssumption
    <3> HIDE DEF m, c
    <3>2. c * m <= K * c
      <4>1. K - m \in Nat /\ c * (K - m) \in Nat /\ c * (K - m) = K * c - c * m /\ c * m \in Nat /\ K * c \in Nat
        BY <3>1
      <4> QED BY <4>1
    <3> QED BY <3>2 DEF m
  <2>2. influence >= PoiInf(t, Chosen)
    BY DEF HInv, NotLess
  <2>3. c * Cardinality(P) \in Nat /\ K * c \in Nat
    BY <1>1, <1>6, SelectionAssumption
  <2> QED BY <1>1, <1>6, <2>1, <2>2, <2>3
<1>9. c \in Nat /\ x \in Int
  BY <1>1, <1>6
<1>10. best - (influence + c) = x - c
  BY <1>1, <1>6, <1>9
<1> HIDE DEF a, b, best, c, x
<1>11. (a * K) * (x - c) <= (b * (K-1)) * best
  BY <1>5, <1>6, <1>7, <1>8, <1>9, Shrinks, SelectionAssumption
<1>12. Power(K)[n + 1] * (x - c) <= Power(K-1)[n + 1] * best
  BY <1>5, <1>11
<1> QED BY <1>10, <1>12 DEF best, c

\* Steps that choose nothing.
LEMMA GreedyStays ==
  ASSUME GreedyBound, UNCHANGED <<br_usr_table, poiSet, influence>>
  PROVE  GreedyBound'
BY DEF GreedyBound

\* No gain kept is more than its POI's influence alone, so that the influence
\* counts what the POIs chosen have at most once for each of them.
NotOver ==
  /\ sel = "greedy" => \A q \in DOMAIN br_usr_table : coverage[q] <= PoiInf(br_usr_table, {q})
  /\ influence <= Len(poiSet) * PoiInf(br_usr_table, Chosen)

\* What POIs have is no less with more of them, and a POI gains at most what
\* it has alone.
LEMMA AloneAtMost ==
  ASSUME NEW t, TableOK(t), NEW P \in SUBSET DOMAIN t, NEW q \in DOMAIN t
  PROVE  /\ PoiInf(t, P) \in Nat /\ PoiInf(t, P \cup {q}) \in Nat /\ PoiInf(t, {q}) \in Nat
         /\ PoiInf(t, P) <= PoiInf(t, P \cup {q}) /\ PoiInf(t, {q}) <= PoiInf(t, P \cup {q})
         /\ LocalGain(t, P, q) <= PoiInf(t, {q})
<1>1. /\ PoiInf(t, P) \in Nat /\ LocalGain(t, P, q) \in Nat
      /\ LocalGain(t, P, q) <= LocalGain(t, {}, q)
      /\ PoiInf(t, P \cup {q}) = PoiInf(t, P) + LocalGain(t, P, q)
  <2>1. {} \in SUBSET P
    OBVIOUS
  <2> QED BY <2>1, Gains
<1>2. /\ PoiInf(t, {}) = 0 /\ LocalGain(t, {}, q) \in Nat
      /\ PoiInf(t, {} \cup {q}) = PoiInf(t, {}) + LocalGain(t, {}, q)
  <2>1. {} \in SUBSET DOMAIN t /\ {} \in SUBSET {}
    OBVIOUS
  <2> QED BY <2>1, Gains, NothingAtFirst
<1>3. {} \cup {q} = {q} /\ P \cup {q} = {q} \cup P
  OBVIOUS
<1>4. PoiInf(t, {q}) = LocalGain(t, {}, q)
  BY <1>2, <1>3
<1>5. PoiInf(t, {q}) <= PoiInf(t, P \cup {q})
  <2>1. UsersOf(t, {q}) \in SUBSET UsersOf(t, P \cup {q}) /\ UsersOf(t, P \cup {q}) \in SUBSET Users
    BY DEF TableOK, UsersOf
  <2> QED BY <2>1, Submodular, InfluenceIsTotal DEF PoiInf
<1> QED BY <1>1, <1>2, <1>4, <1>5

\* A choice counts no more than it adds alone.
LEMMA ChooseNotOver ==
  ASSUME HInv, NotOver, NEW e, NEW cov, Chooses(e, cov)
  PROVE  NotOver'
<1> DEFINE p == e[1]
           t == br_usr_table
           n == Len(poiSet)
<1>1. /\ p \in DOMAIN t /\ TableOK(t) /\ poiSet \in Seq(DOMAIN t) /\ Chosen \in SUBSET DOMAIN t
      /\ Chosen' = Chosen \cup {p} /\ coverage[p] \in Nat /\ influence \in Nat
      /\ need_updated_pois(p) \subseteq poiMark \ {p} /\ poiMark \in SUBSET DOMAIN t
      /\ \A q \in need_updated_pois(p) : cov[q] = LocalGain(t, Chosen \cup {p}, q)
      /\ \A q \in DOMAIN t \ need_updated_pois(p) : cov[q] = coverage[q]
  BY ChosenGains
<1>2. /\ br_usr_table' = t /\ poiSet' = Append(poiSet, p) /\ coverage' = cov
      /\ influence' = influence + coverage[p] /\ sel = "greedy"
  BY DEF Chooses
<1>3. Len(poiSet') = n + 1 /\ n \in Nat
  BY <1>1, <1>2, OneMore
<1>4. /\ coverage[p] <= PoiInf(t, {p}) /\ influence <= n * PoiInf(t, Chosen)
      /\ \A q \in DOMAIN t : coverage[q] <= PoiInf(t, {q})
  BY <1>1, <1>2 DEF NotOver
<1>5. ASSUME NEW q \in DOMAIN t
      PROVE  cov[q] <= PoiInf(t, {q})
  <2>1. CASE q \in need_updated_pois(p)
    <3>1. Chosen \cup {p} \in SUBSET DOMAIN t /\ TableOK(t)
      BY <1>1
    <3>2. LocalGain(t, Chosen \cup {p}, q) <= PoiInf(t, {q})
      <4> HIDE DEF p, t
      <4> QED BY <3>1, AloneAtMost
    <3>3. cov[q] = LocalGain(t, Chosen \cup {p}, q)
      BY <1>1, <2>1
    <3> QED BY <3>2, <3>3
  <2>2. CASE q \notin need_updated_pois(p)
    BY <1>1, <1>4, <2>2
  <2> QED BY <2>1, <2>2
<1>6. influence + coverage[p] <= (n + 1) * PoiInf(t, Chosen \cup {p})
  <2> DEFINE was == PoiInf(t, Chosen)
             now == PoiInf(t, Chosen \cup {p})
             one == PoiInf(t, {p})
  <2>1. was \in Nat /\ now \in Nat /\ one \in Nat /\ was <= now /\ one <= now
    BY <1>1, AloneAtMost
  <2>2. influence <= n * was /\ coverage[p] <= one
    BY <1>4
  <2> HIDE DEF was, now, one
  <2>3. n * was <= n * now
    <3>1. now - was \in Nat
      BY <2>1
    <3>2. n * (now - was) \in Nat /\ n * (now - was) = n * now - n * was /\ n * was \in Nat /\ n * now \in Nat
      BY <1>3, <2>1, <3>1
    <3> QED BY <3>2
  <2>4. (n + 1) * now = n * now + now /\ n * now \in Nat /\ n * was \in Nat
    BY <1>3, <2>1
  <2>5. influence + coverage[p] <= (n + 1) * now
    BY <1>1, <2>1, <2>2, <2>3, <2>4
  <2> QED BY <2>5 DEF now
<1>7. PoiInf(br_usr_table', Chosen') = PoiInf(t, Chosen \cup {p})
  BY <1>1, <1>2
<1>8. \A q \in DOMAIN br_usr_table' : coverage'[q] <= PoiInf(br_usr_table', {q})
  BY <1>2, <1>5
<1> QED BY <1>2, <1>3, <1>6, <1>7, <1>8 DEF NotOver

\* Steps that choose nothing.
LEMMA NotOverStays ==
  ASSUME NotOver, UNCHANGED <<br_usr_table, coverage, poiSet, influence>>, sel' \in {sel, "undefined"}
  PROVE  NotOver'
BY DEF NotOver, Chosen

\* The inductive invariant of the selection.
GInv == HInv /\ NotOver /\ GreedyBound

\* Every step of the selection, and every call, keeps it.
LEMMA GreedyNext ==
  ASSUME GInv, [HopNext]_vars
  PROVE  GInv'
<1>0. HInv /\ NotOver /\ GreedyBound
  BY DEF GInv
<1>1. ASSUME NEW t \in Tables, Start(t) PROVE GInv'
  <2>1. HInv'
    BY <1>0, <1>1, HopStart
  <2>2. TableOK(t) /\ br_usr_table' = t /\ Len(poiSet') = 0 /\ influence' = 0
    BY <1>1 DEF TableOK, Tables, Start
  <2>3. GreedyBound'
    <3> SUFFICES ASSUME NEW P \in SUBSET DOMAIN t
                 PROVE  Power(K)[0] * (PoiInf(t, P) - 0) <= Power(K-1)[0] * PoiInf(t, P)
      BY <2>2 DEF GreedyBound
    <3>1. Power(K)[0] = 1 /\ Power(K-1)[0] = 1
      BY Powers, SelectionAssumption
    <3>2. UsersOf(t, P) \in SUBSET Users
      BY <2>2 DEF TableOK, UsersOf
    <3>3. PoiInf(t, P) \in Nat
      BY <3>2, InfluenceIsTotal DEF PoiInf
    <3> QED BY <3>1, <3>3
  <2>4. NotOver'
    <3>1. \A q \in DOMAIN t : PoiInf(t, {q}) \in Nat
      BY <2>2, AloneAtMost
    <3>2. /\ br_usr_table' = t /\ \A q \in DOMAIN t : coverage'[q] = PoiInf(t, {q})
      BY <1>1 DEF Start
    <3>3. Chosen' = {} /\ PoiInf(t, {}) = 0
      <4>1. poiSet' = <<>>
        BY <1>1 DEF Start
      <4> QED BY <4>1, NothingAtFirst DEF Chosen, ToSet
    <3>4. influence' <= Len(poiSet') * PoiInf(br_usr_table', Chosen')
      <4>1. PoiInf(br_usr_table', Chosen') = 0
        BY <3>2, <3>3
      <4>2. influence' = 0 /\ Len(poiSet') = 0
        BY <2>2
      <4> QED BY <4>1, <4>2
    <3>5. \A q \in DOMAIN t : coverage'[q] <= PoiInf(t, {q})
      <4> SUFFICES ASSUME NEW q \in DOMAIN t PROVE coverage'[q] <= PoiInf(t, {q})
        OBVIOUS
      <4> DEFINE x == coverage'[q]
                 y == PoiInf(t, {q})
      <4>1. x = y /\ y \in Nat
        BY <3>1, <3>2
      <4> HIDE DEF x, y
      <4>2. x <= y
        BY <4>1
      <4> QED BY <4>2 DEF x, y
    <3> QED BY <3>2, <3>4, <3>5 DEF NotOver
  <2> QED BY <2>1, <2>3, <2>4 DEF GInv
<1>2. ASSUME Choose PROVE GInv'
  <2>1. PICK e, cov : Chooses(e, cov)
    BY <1>2, ChooseIs
  <2> QED BY <1>0, <1>2, <2>1, HopChoose, ChooseNotOver, ChooseGreedy DEF GInv
<1>3. CASE Reinsert
  BY <1>0, <1>3, HopReinsert, NotOverStays, GreedyStays DEF GInv, Reinsert
<1>4. CASE Skip
  BY <1>0, <1>4, HopSkip, NotOverStays, GreedyStays DEF GInv, Skip
<1>5. CASE RunDry
  BY <1>0, <1>5, HopRunDry, NotOverStays, GreedyStays DEF GInv, RunDry
<1>6. CASE UNCHANGED vars
  BY <1>0, <1>6, HopStay, NotOverStays, GreedyStays DEF GInv, vars
<1> QED BY <1>1, <1>2, <1>3, <1>4, <1>5, <1>6 DEF HopNext, Loop

\* It holds before any call.
LEMMA GreedyInit ==
  ASSUME Init
  PROVE  GInv
<1>1. HInv
  BY HopInit
<1>2. TableOK(br_usr_table) /\ Len(poiSet) = 0 /\ influence = 0
  BY DEF Init, TableOK
<1>3. NotOver
  <2>1. Chosen = {} /\ PoiInf(br_usr_table, {}) = 0
    BY NothingAtFirst DEF Init, Chosen, ToSet
  <2> QED BY <1>2, <2>1 DEF Init, NotOver
<1> QED BY <1>1, <1>2, <1>3, GreedyFirst DEF GInv

\* What the invariant says of the influence.
LEMMA ExactEnough ==
  ASSUME SkipSelected, GInv
  PROVE  InfluenceExact
BY DEF GInv, HInv, NotLess, NotOver, Skipping, SharedExact, InfluenceExact

\* The inductive invariant holds throughout.
THEOREM HopInvariant ==
  HopSpec => []GInv
BY GreedyInit, GreedyNext, PTL DEF HopSpec

\* The keys and gains kept never fall below what a POI would add, though only
\* POIs that share a user with the one chosen are looked at again; every POI
\* with a gain has an entry in the queue (infgraph.h:1911, 1925).
THEOREM GainsNeverTooSmall ==
  HopSpec => [](TypeOK /\ KeysBound)
<1>1. GInv => TypeOK /\ KeysBound
  BY DEF GInv, HInv, HopTypes
<1> QED BY <1>1, HopInvariant, PTL

\* The influence returned is at least 1 - (1 - 1/K)^K of that of any K POIs,
\* with entries of chosen POIs skipped or not.
THEOREM GreedyIsGood ==
  HopSpec => []GreedyBound
<1>1. GInv => GreedyBound
  BY DEF GInv
<1> QED BY <1>1, HopInvariant, PTL

\* Where entries of chosen POIs are skipped no POI is chosen twice, and with
\* no common neighbour unseen the influence is exact and every choice the best.
THEOREM SkippingIsSound ==
  ASSUME SkipSelected
  PROVE  HopSpec => [](SeedsDistinct /\ InfluenceExact /\ PicksGreatest)
<1>1. GInv => SeedsDistinct /\ InfluenceExact /\ PicksGreatest
  BY ExactEnough DEF GInv, HInv, Skipping
<1> QED BY <1>1, HopInvariant, PTL

-----------------------------------------------------------------------------
(* The verification around it: its tables.                                 *)

\* The table the verification would end with.
truth == Connection(Truth)

\* The base table as the verified users give it.
Recorded == incremental_results = [o \in Pois |-> {u \in Verified : o \in Customer(u)}]

\* How far the verification is; a choice is made only in its two phases.
ProgressTypes ==
  /\ input \in Inputs /\ order \in Seq(Users) /\ i \in 0 .. Len(order)
  /\ phase \in {"verify", "check", "base", "upper", "end"}
  /\ sel # "greedy" \/ phase \in {"base", "upper"}

\* The table of the choice that is being made.
TableIs ==
  /\ phase = "base" => br_usr_table = baseTable
  /\ phase = "upper" => br_usr_table = upperTable

\* The inductive invariant of the choices and their tables.
TInv == GInv /\ ProgressTypes /\ Recorded /\ TableIs

\* The candidates in any order are a sequence of users.
LEMMA OrdersOK ==
  ASSUME NEW in \in Inputs, NEW s \in Orders(in)
  PROVE  s \in Seq(Users)
<1> DEFINE S == {u \in DOMAIN in.score : Associated(in, u) # {}}
<1>1. S \in SUBSET Users
  BY InputAssumption
<1>2. IsFiniteSet(S) /\ Cardinality(S) \in Nat
  BY <1>1, FS_Subset, FS_CardinalityType, NetworkAssumption
<1> DEFINE n == Cardinality(S)
<1>3. s \in [1 .. n -> S]
  BY DEF Orders
<1> HIDE DEF S, n
<1>4. n \in Nat /\ s \in [1 .. n -> Users]
  BY <1>1, <1>2, <1>3 DEF n
<1> QED BY <1>4

\* Whom the verification has seen, and the others.
LEMMA SeenAndRemained ==
  ASSUME ProgressTypes
  PROVE  /\ ToSet(order) = Verified \cup Remained /\ ToSet(order) \subseteq Users
         /\ DOMAIN order = 1 .. Len(order) /\ Len(order) \in Nat
BY DEF ProgressTypes, ToSet, Verified, Remained

\* The two tables enclose the one the verification would end with.
LEMMA TablesAre ==
  ASSUME ProgressTypes, Recorded
  PROVE  /\ baseTable \in Tables /\ upperTable \in Tables /\ truth \in Tables
         /\ TableOK(baseTable) /\ TableOK(upperTable) /\ TableOK(truth)
         /\ Below(baseTable, truth) /\ Below(truth, upperTable)
<1> DEFINE lower == [o \in Pois |-> {u \in Verified : o \in Customer(u)}]
           upper == [o \in Pois |-> incremental_results[o] \cup {u \in Remained : o \in Associated(input, u)}]
<1>1. /\ ToSet(order) = Verified \cup Remained /\ ToSet(order) \subseteq Users
  BY SeenAndRemained
<1>2. baseTable = Connection(lower) /\ upperTable = Connection(upper)
  BY DEF baseTable, upperTable, Recorded
<1>3. \A o \in Pois : /\ lower[o] \subseteq Truth[o] /\ Truth[o] \subseteq upper[o]
                      /\ upper[o] \subseteq Users
  BY <1>1 DEF Recorded, Truth, Customer
<1>4. DOMAIN lower = Pois /\ DOMAIN upper = Pois /\ DOMAIN Truth = Pois
  BY DEF Truth
<1> HIDE DEF lower, upper
<1>5. ASSUME NEW r, DOMAIN r = Pois, \A o \in Pois : r[o] \subseteq Users
      PROVE  Connection(r) \in Tables /\ TableOK(Connection(r))
  <2>1. /\ DOMAIN Connection(r) = {q \in Pois : r[q] # {}}
        /\ Connection(r) \in [{q \in Pois : r[q] # {}} -> SUBSET Users]
    BY <1>5 DEF Connection
  <2>2. {q \in Pois : r[q] # {}} \in SUBSET Pois
    OBVIOUS
  <2> QED BY <2>1, <2>2 DEF Tables, TableOK
<1>6. ASSUME NEW r, NEW s, DOMAIN r = Pois, DOMAIN s = Pois, \A o \in Pois : r[o] \subseteq s[o]
      PROVE  Below(Connection(r), Connection(s))
  BY <1>6 DEF Below, Connection
<1>7. /\ \A o \in Pois : lower[o] \subseteq Users
      /\ \A o \in Pois : Truth[o] \subseteq Users
  BY <1>3
<1>8. /\ Connection(lower) \in Tables /\ TableOK(Connection(lower))
      /\ Connection(upper) \in Tables /\ TableOK(Connection(upper))
      /\ truth \in Tables /\ TableOK(truth)
  BY <1>3, <1>4, <1>5, <1>7 DEF truth
<1>9. Below(Connection(lower), truth) /\ Below(truth, Connection(upper))
  BY <1>3, <1>4, <1>6 DEF truth
<1> QED BY <1>2, <1>8, <1>9

\* Steps that verify no one leave the tables as they are.
LEMMA SameRecord ==
  ASSUME Recorded, UNCHANGED <<input, order, i, incremental_results>>
  PROVE  /\ Recorded' /\ baseTable' = baseTable /\ upperTable' = upperTable /\ truth' = truth
         /\ Verified' = Verified
BY DEF Recorded, baseTable, upperTable, truth, Truth, Verified, Remained, Customer, Associated

\* The top-K query of a candidate records him with the stores he is a customer of.
LEMMA VerifyRecords ==
  ASSUME ProgressTypes, Recorded, Verify
  PROVE  ProgressTypes' /\ Recorded'
<1>1. /\ phase = "verify" /\ i < Len(order) /\ i' = i + 1 /\ phase' = "check"
      /\ incremental_results' = [o \in Pois |->
              IF o \in Customer(order[i+1]) THEN incremental_results[o] \cup {order[i+1]}
              ELSE incremental_results[o]]
      /\ UNCHANGED <<sel, input, order>>
  BY DEF Verify, vars
<1>2. ProgressTypes'
  BY <1>1 DEF ProgressTypes
<1>3. Recorded'
  <2>1. Verified' = Verified \cup {order[i+1]}
    BY <1>1 DEF Verified, ProgressTypes
  <2>2. \A u : Customer(u)' = Customer(u)
    BY <1>1 DEF Customer, Associated
  <2>3. incremental_results = [o \in Pois |-> {u \in Verified : o \in Customer(u)}]
    BY DEF Recorded
  <2>4. ASSUME NEW o \in Pois
        PROVE  {u \in Verified \cup {order[i+1]} : o \in Customer(u)}
                 = IF o \in Customer(order[i+1]) THEN {u \in Verified : o \in Customer(u)} \cup {order[i+1]}
                   ELSE {u \in Verified : o \in Customer(u)}
    OBVIOUS
  <2>5. incremental_results' = [o \in Pois |-> {u \in Verified \cup {order[i+1]} : o \in Customer(u)}]
    BY <1>1, <2>3, <2>4
  <2>6. \A o : {u \in Verified' : o \in Customer(u)'} = {u \in Verified \cup {order[i+1]} : o \in Customer(u)}
    BY <2>1, <2>2
  <2> QED BY <2>5, <2>6 DEF Recorded
<1> QED BY <1>2, <1>3

\* Every step of the verification is one of the selection, or leaves it alone.
LEMMA ChoiceStep ==
  ASSUME ProgressTypes, Recorded, [ProgressNext]_allVars
  PROVE  [HopNext]_vars
<1>1. baseTable \in Tables /\ upperTable \in Tables
  BY TablesAre
<1> QED BY <1>1 DEF ProgressNext, Verify, Continue, ChooseBase, ChooseUpper, Select, Decide, Exhaust,
                    HopNext, allVars

\* Nothing is verified at first.
LEMMA TablesInit ==
  ASSUME ProgressInit
  PROVE  TInv
<1>1. Init /\ input \in Inputs /\ order \in Orders(input) /\ i = 0
      /\ incremental_results = [o \in Pois |-> {}] /\ phase = "verify"
  BY DEF ProgressInit
<1>2. GInv
  BY <1>1, GreedyInit
<1>3. order \in Seq(Users)
  BY <1>1, OrdersOK
<1>4. ProgressTypes
  BY <1>1, <1>3 DEF ProgressTypes, Init
<1>5. Recorded
  <2>1. Verified = {}
    BY <1>1 DEF Verified
  <2> QED BY <1>1, <2>1 DEF Recorded
<1>6. TableIs
  BY <1>1 DEF TableIs
<1> QED BY <1>2, <1>4, <1>5, <1>6 DEF TInv

\* Every step keeps the tables and what the choices rest on.
LEMMA TablesNext ==
  ASSUME TInv, [ProgressNext]_allVars
  PROVE  TInv'
<1>0. GInv /\ ProgressTypes /\ Recorded /\ TableIs
  BY DEF TInv
<1>1. GInv'
  BY <1>0, ChoiceStep, GreedyNext
<1>2. CASE Verify
  <2>1. TableIs'
    BY <1>2 DEF Verify, TableIs
  <2> QED BY <1>0, <1>1, <1>2, <2>1, VerifyRecords DEF TInv
<1>3. ASSUME UNCHANGED <<input, order, i, incremental_results>>
      PROVE  Recorded' /\ baseTable' = baseTable /\ upperTable' = upperTable
  BY <1>0, <1>3, SameRecord
<1>4. CASE Continue
  <2>1. phase' = "verify" /\ UNCHANGED <<sel, input, order, i, incremental_results>> /\ phase = "check"
    BY <1>4 DEF Continue, vars
  <2>2. ProgressTypes' /\ TableIs'
    BY <1>0, <2>1 DEF ProgressTypes, TableIs
  <2> QED BY <1>1, <1>3, <2>1, <2>2 DEF TInv
<1>5. CASE ChooseBase
  <2>1. phase' = "base" /\ Start(baseTable) /\ UNCHANGED <<input, order, i, incremental_results>>
    BY <1>5 DEF ChooseBase
  <2>2. ProgressTypes'
    BY <1>0, <2>1 DEF ProgressTypes
  <2>3. TableIs'
    BY <1>3, <2>1 DEF TableIs, Start
  <2> QED BY <1>1, <1>3, <2>1, <2>2, <2>3 DEF TInv
<1>6. CASE ChooseUpper
  <2>1. phase' = "upper" /\ Start(upperTable) /\ UNCHANGED <<input, order, i, incremental_results>>
    BY <1>6 DEF ChooseUpper
  <2>2. ProgressTypes'
    BY <1>0, <2>1 DEF ProgressTypes
  <2>3. TableIs'
    BY <1>3, <2>1 DEF TableIs, Start
  <2> QED BY <1>1, <1>3, <2>1, <2>2, <2>3 DEF TInv
<1>7. CASE Select
  <2>1. phase \in {"base", "upper"} /\ phase' = phase /\ UNCHANGED <<input, order, i, incremental_results>>
    BY <1>7 DEF Select, progressVars
  <2>2. br_usr_table' = br_usr_table
    BY <1>7 DEF Select, Loop, Reinsert, Skip, Choose, RunDry
  <2>3. ProgressTypes'
    BY <1>0, <2>1 DEF ProgressTypes
  <2>4. TableIs'
    BY <1>0, <1>3, <2>1, <2>2 DEF TableIs
  <2> QED BY <1>1, <1>3, <2>1, <2>3, <2>4 DEF TInv
<1>8. CASE Decide
  <2>1. /\ phase' \in {"end", "verify"} /\ sel = "done"
        /\ UNCHANGED <<sel, input, order, i, incremental_results>>
    BY <1>8 DEF Decide, vars
  <2>2. ProgressTypes' /\ TableIs'
    BY <1>0, <2>1 DEF ProgressTypes, TableIs
  <2> QED BY <1>1, <1>3, <2>1, <2>2 DEF TInv
<1>9. CASE Exhaust
  <2>1. phase = "verify" /\ phase' = "end" /\ UNCHANGED <<sel, input, order, i, incremental_results>>
    BY <1>9 DEF Exhaust, vars
  <2>2. ProgressTypes' /\ TableIs'
    BY <1>0, <2>1 DEF ProgressTypes, TableIs
  <2> QED BY <1>1, <1>3, <2>1, <2>2 DEF TInv
<1>10. CASE UNCHANGED allVars
  <2>1. UNCHANGED <<br_usr_table, sel, input, order, i, incremental_results, phase>>
    BY <1>10 DEF allVars, vars, progressVars
  <2>2. ProgressTypes' /\ TableIs'
    BY <1>0, <1>3, <2>1 DEF ProgressTypes, TableIs
  <2> QED BY <1>1, <1>3, <2>1, <2>2 DEF TInv
<1> QED BY <1>2, <1>4, <1>5, <1>6, <1>7, <1>8, <1>9, <1>10 DEF ProgressNext

-----------------------------------------------------------------------------
(* What the verification stops with.                                       *)

\* What is kept of the first choice.
SeedsKept ==
  phase = "upper" =>
    /\ ToSet(seeds) \subseteq DOMAIN baseTable
    /\ inf_base \in Nat /\ inf_base <= Counted * PoiInf(baseTable, ToSet(seeds))

\* The choice verification ends with is good for every K stores.
StopGood ==
  phase = "end" /\ i < Len(order) =>
    /\ ToSet(seeds) \subseteq DOMAIN truth
    /\ \A P \in SUBSET DOMAIN truth :
         Cardinality(P) <= K =>
           1000 * Power(K)[K] * (Counted * PoiInf(truth, ToSet(seeds)))
             >= Ratio * (Power(K)[K] - Power(K-1)[K]) * PoiInf(truth, P)

\* The inductive invariant of the verification.
PInv == TInv /\ SeedsKept /\ StopGood

\* More users, more influence.
LEMMA BelowLess ==
  ASSUME NEW r, NEW s, TableOK(r), TableOK(s), Below(r, s), NEW P \in SUBSET DOMAIN r
  PROVE  /\ P \in SUBSET DOMAIN s
         /\ PoiInf(r, P) \in Nat /\ PoiInf(s, P) \in Nat /\ PoiInf(r, P) <= PoiInf(s, P)
<1>1. P \in SUBSET DOMAIN s /\ UsersOf(r, P) \in SUBSET UsersOf(s, P)
  BY DEF Below, UsersOf
<1>2. UsersOf(s, P) \in SUBSET Users /\ UsersOf(r, P) \in SUBSET Users
  BY <1>1 DEF TableOK, UsersOf
<1> QED BY <1>1, <1>2, Submodular, InfluenceIsTotal DEF PoiInf

\* A greater base has the greater powers.
LEMMA PowerMonotonic ==
  ASSUME NEW a \in Nat, NEW b \in Nat, a <= b
  PROVE  \A n \in Nat : Power(a)[n] <= Power(b)[n]
<1> DEFINE P == {n \in Nat : Power(a)[n] <= Power(b)[n]}
<1>1. 0 \in P
  BY Powers
<1>2. ASSUME NEW n \in Nat, n \in P
      PROVE  n + 1 \in P
  <2>1. /\ Power(a)[n] \in Nat /\ Power(a)[n+1] = Power(a)[n] * a
        /\ Power(b)[n] \in Nat /\ Power(b)[n+1] = Power(b)[n] * b
    BY Powers
  <2> DEFINE x == Power(a)[n]
             y == Power(b)[n]
  <2>2. x \in Nat /\ y \in Nat /\ x <= y
    BY <1>2, <2>1
  <2> HIDE DEF x, y
  <2>3. x * a <= y * a
    <3>1. y - x \in Nat /\ (y - x) * a \in Nat /\ (y - x) * a = y * a - x * a /\ x * a \in Nat /\ y * a \in Nat
      BY <2>2
    <3> QED BY <3>1
  <2>4. y * a <= y * b
    <3>1. b - a \in Nat /\ y * (b - a) \in Nat /\ y * (b - a) = y * b - y * a /\ y * b \in Nat /\ y * a \in Nat
      BY <2>2
    <3> QED BY <3>1
  <2>5. x * a \in Nat /\ y * a \in Nat /\ y * b \in Nat
    BY <2>2
  <2>6. x * a <= y * b
    BY <2>3, <2>4, <2>5
  <2>7. Power(a)[n+1] <= Power(b)[n+1]
    BY <2>1, <2>6 DEF x, y
  <2> QED BY <2>7
<1>3. Nat \subseteq P
  BY <1>1, <1>2, NumberInduction
<1> QED BY <1>3

\* A greater number has the greater multiples.
LEMMA TimesMonotonic ==
  ASSUME NEW c \in Nat, NEW x \in Nat, NEW y \in Nat, x <= y
  PROVE  c * x \in Nat /\ c * y \in Nat /\ c * x <= c * y
<1>1. y - x \in Nat /\ c * (y - x) \in Nat /\ c * (y - x) = c * y - c * x
  OBVIOUS
<1>2. c * x \in Nat /\ c * y \in Nat
  OBVIOUS
<1> QED BY <1>1, <1>2

\* What is kept when the first choice is done.
LEMMA ChooseUpperKeeps ==
  ASSUME SkipSelected, TInv, ChooseUpper
  PROVE  SeedsKept'
<1>1. /\ phase = "base" /\ sel = "done" /\ phase' = "upper" /\ Start(upperTable)
      /\ seeds' = poiSet /\ inf_base' = influence
      /\ UNCHANGED <<input, order, i, incremental_results>>
  BY DEF ChooseUpper
<1>2. baseTable' = baseTable
  BY <1>1, SameRecord DEF TInv
<1>3. br_usr_table = baseTable
  BY <1>1 DEF TInv, TableIs
<1>4. Len(poiSet) = K /\ poiSet \in Seq(DOMAIN br_usr_table)
  BY <1>1 DEF TInv, GInv, HInv, HopTypes
<1>5. ToSet(poiSet) \subseteq DOMAIN baseTable
  BY <1>3, <1>4 DEF ToSet
<1>6. influence \in Nat /\ influence <= Counted * PoiInf(baseTable, ToSet(poiSet))
  <2>1. influence <= Len(poiSet) * PoiInf(baseTable, ToSet(poiSet)) /\ influence \in Nat
    BY <1>3 DEF TInv, GInv, NotOver, Chosen, HInv, HopTypes, TypeOK
  <2>2. PoiInf(baseTable, ToSet(poiSet)) \in Nat
    <3>1. TableOK(br_usr_table)
      BY <1>3, TablesAre DEF TInv
    <3> QED BY <1>3, <1>5, <3>1, BestInf
  <2>3. CASE OverlapsShare(baseTable)
    <3>1. influence = PoiInf(baseTable, ToSet(poiSet))
      BY <1>3, <2>3 DEF TInv, GInv, HInv, Skipping, SharedExact, OverlapsShareUser, Chosen
    <3> QED BY <2>1, <2>2, <2>3, <3>1 DEF Counted
  <2>4. CASE ~OverlapsShare(baseTable)
    BY <1>4, <2>1, <2>4 DEF Counted
  <2> QED BY <2>3, <2>4
<1>7. ToSet(seeds)' = ToSet(poiSet)
  BY <1>1 DEF ToSet
<1>8. PoiInf(baseTable, ToSet(seeds))' = PoiInf(baseTable, ToSet(poiSet)) /\ Counted' = Counted
  BY <1>1, <1>2 DEF PoiInf, UsersOf, ToSet, Counted, OverlapsShare
<1> QED BY <1>1, <1>2, <1>5, <1>6, <1>7, <1>8 DEF SeedsKept

\* Steps that choose no seeds.
LEMMA SameSeeds ==
  ASSUME Recorded, UNCHANGED <<input, order, i, incremental_results, seeds>>
  PROVE  /\ baseTable' = baseTable /\ truth' = truth /\ ToSet(seeds)' = ToSet(seeds)
         /\ Counted' = Counted
         /\ PoiInf(baseTable, ToSet(seeds))' = PoiInf(baseTable, ToSet(seeds))
         /\ PoiInf(truth, ToSet(seeds))' = PoiInf(truth, ToSet(seeds))
         /\ \A P : PoiInf(truth, P)' = PoiInf(truth, P)
<1>1. baseTable' = baseTable /\ truth' = truth
  BY SameRecord
<1>2. ToSet(seeds)' = ToSet(seeds)
  BY DEF ToSet
<1>3. Counted' = Counted
  BY <1>1 DEF Counted, OverlapsShare
<1> QED BY <1>1, <1>2, <1>3 DEF PoiInf, UsersOf

\* From what the two choices say of each other to what is stopped with.
LEMMA Enough ==
  ASSUME NEW a \in Nat, NEW b \in Nat, b <= a, NEW r \in Nat,
         NEW base \in Nat, NEW chosen \in Nat, base <= chosen,
         NEW upper \in Nat, 1000 * base >= r * upper,
         NEW best \in Nat, NEW most \in Nat, best <= most,
         a * (most - upper) <= b * most
  PROVE  1000 * a * chosen >= r * (a - b) * best
<1>1. (a - b) * most <= a * upper
  <2>1. (a - b) * most = a * most - b * most /\ a * (most - upper) = a * most - a * upper
    OBVIOUS
  <2>2. a * most \in Nat /\ b * most \in Nat /\ a * upper \in Nat
    OBVIOUS
  <2> QED BY <2>1, <2>2
<1>2. (a - b) * best <= (a - b) * most
  <2>1. (a - b) \in Nat /\ most - best \in Nat
    OBVIOUS
  <2>2. (a - b) * (most - best) \in Nat
    BY <2>1
  <2>3. (a - b) * (most - best) = (a - b) * most - (a - b) * best
    OBVIOUS
  <2>4. (a - b) * most \in Nat /\ (a - b) * best \in Nat
    BY <2>1
  <2> QED BY <2>2, <2>3, <2>4
<1> DEFINE u == (a - b) * best
           v == a * upper
<1>3. u \in Nat /\ v \in Nat /\ u <= v
  <2>1. (a - b) \in Nat /\ (a - b) * most \in Nat
    OBVIOUS
  <2>2. (a - b) * best \in Nat /\ a * upper \in Nat
    BY <2>1
  <2> QED BY <1>1, <1>2, <2>1, <2>2
<1>4. r * (a - b) * best = r * u
  OBVIOUS
<1>5. a * (r * upper) = r * v
  OBVIOUS
<1>6. a * (r * upper) <= a * (1000 * base)
  <2>1. 1000 * base - r * upper \in Nat
    <3>1. r * upper \in Nat
      OBVIOUS
    <3> QED BY <3>1
  <2>2. a * (1000 * base - r * upper) \in Nat
    BY <2>1
  <2>3. a * (1000 * base - r * upper) = a * (1000 * base) - a * (r * upper)
    OBVIOUS
  <2>4. a * (1000 * base) \in Nat /\ r * upper \in Nat /\ a * (r * upper) \in Nat
    <3>1. r * upper \in Nat
      OBVIOUS
    <3> QED BY <3>1
  <2> QED BY <2>2, <2>3, <2>4
<1>7. a * (1000 * base) <= 1000 * a * chosen
  <2>1. chosen - base \in Nat /\ 1000 * a \in Nat
    OBVIOUS
  <2>2. (1000 * a) * (chosen - base) \in Nat
    BY <2>1
  <2>3. (1000 * a) * (chosen - base) = 1000 * a * chosen - a * (1000 * base)
    OBVIOUS
  <2>4. 1000 * a * chosen \in Nat /\ a * (1000 * base) \in Nat
    OBVIOUS
  <2> QED BY <2>2, <2>3, <2>4
<1> HIDE DEF u, v
<1>8. r * u <= r * v
  <2>1. v - u \in Nat /\ r * (v - u) \in Nat /\ r * (v - u) = r * v - r * u
    BY <1>3
  <2>2. r * v \in Nat /\ r * u \in Nat
    BY <1>3
  <2> QED BY <2>1, <2>2
<1> DEFINE x == r * v
           y == a * (1000 * base)
           z == 1000 * a * chosen
           w == r * u
<1>9. w <= x /\ x <= y /\ y <= z
  BY <1>5, <1>6, <1>7, <1>8
<1>10. w \in Nat /\ x \in Nat /\ y \in Nat /\ z \in Nat
  BY <1>3
<1>11. r * (a - b) * best = w /\ 1000 * a * chosen = z
  BY <1>4
<1> HIDE DEF w, x, y, z
<1> QED BY <1>9, <1>10, <1>11

\* When the second choice shows that the first one is enough, it is.
LEMMA SatisfiedGood ==
  ASSUME TInv, SeedsKept, phase = "upper", sel = "done", Satisfied
  PROVE  /\ ToSet(seeds) \subseteq DOMAIN truth
         /\ \A P \in SUBSET DOMAIN truth :
              Cardinality(P) <= K =>
                1000 * Power(K)[K] * (Counted * PoiInf(truth, ToSet(seeds)))
                  >= Ratio * (Power(K)[K] - Power(K-1)[K]) * PoiInf(truth, P)
<1>1. /\ TableOK(baseTable) /\ TableOK(upperTable) /\ TableOK(truth)
      /\ Below(baseTable, truth) /\ Below(truth, upperTable)
  BY TablesAre DEF TInv
<1>2. /\ br_usr_table = upperTable /\ ToSet(seeds) \in SUBSET DOMAIN baseTable
      /\ inf_base \in Nat /\ inf_base <= Counted * PoiInf(baseTable, ToSet(seeds))
  BY DEF TInv, TableIs, SeedsKept
<1>3. /\ ToSet(seeds) \in SUBSET DOMAIN truth
      /\ Counted * PoiInf(truth, ToSet(seeds)) \in Nat
      /\ inf_base <= Counted * PoiInf(truth, ToSet(seeds))
  <2>1. /\ ToSet(seeds) \in SUBSET DOMAIN truth
        /\ PoiInf(baseTable, ToSet(seeds)) \in Nat /\ PoiInf(truth, ToSet(seeds)) \in Nat
        /\ PoiInf(baseTable, ToSet(seeds)) <= PoiInf(truth, ToSet(seeds))
    BY <1>1, <1>2, BelowLess
  <2>2. Counted \in Nat
    BY SelectionAssumption DEF Counted
  <2> DEFINE less == PoiInf(baseTable, ToSet(seeds))
             more == PoiInf(truth, ToSet(seeds))
  <2>3. Counted * less \in Nat /\ Counted * more \in Nat /\ Counted * less <= Counted * more
    <3>1. less \in Nat /\ more \in Nat /\ less <= more
      BY <2>1
    <3> HIDE DEF less, more
    <3> QED BY <2>2, <3>1, TimesMonotonic
  <2> QED BY <1>2, <2>1, <2>3
<1>4. influence \in Nat /\ Len(poiSet) = K /\ GreedyBound
  BY DEF TInv, GInv, HInv, HopTypes, TypeOK
<1>5. K \in Nat /\ K - 1 \in Nat /\ K - 1 <= K /\ Ratio \in Nat
  BY SelectionAssumption, InputAssumption
<1>6. Power(K)[K] \in Nat /\ Power(K-1)[K] \in Nat /\ Power(K-1)[K] <= Power(K)[K]
  BY <1>5, Powers, PowerMonotonic
<1> SUFFICES ASSUME NEW P \in SUBSET DOMAIN truth, Cardinality(P) <= K
             PROVE  1000 * Power(K)[K] * (Counted * PoiInf(truth, ToSet(seeds)))
                      >= Ratio * (Power(K)[K] - Power(K-1)[K]) * PoiInf(truth, P)
  BY <1>3
<1>7. /\ P \in SUBSET DOMAIN upperTable /\ PoiInf(truth, P) \in Nat
      /\ PoiInf(upperTable, P) \in Nat /\ PoiInf(truth, P) <= PoiInf(upperTable, P)
  BY <1>1, BelowLess
<1>8. Power(K)[K] * (PoiInf(upperTable, P) - influence) <= Power(K-1)[K] * PoiInf(upperTable, P)
  BY <1>2, <1>4, <1>7 DEF GreedyBound
<1>9. 1000 * inf_base >= Ratio * influence
  <2>1. Ratio * influence \in Nat
    BY <1>4, <1>5
  <2> QED BY <1>2, <2>1 DEF Satisfied
<1> DEFINE a == Power(K)[K]
           b == Power(K-1)[K]
           chosen == Counted * PoiInf(truth, ToSet(seeds))
           best == PoiInf(truth, P)
           most == PoiInf(upperTable, P)
<1>10. /\ a \in Nat /\ b \in Nat /\ b <= a /\ chosen \in Nat /\ inf_base \in Nat /\ inf_base <= chosen
       /\ influence \in Nat /\ best \in Nat /\ most \in Nat /\ best <= most
       /\ a * (most - influence) <= b * most
  BY <1>2, <1>3, <1>4, <1>6, <1>7, <1>8
<1> HIDE DEF a, b, chosen, best, most
<1>11. 1000 * a * chosen >= Ratio * (a - b) * best
  BY <1>5, <1>9, <1>10, Enough
<1> QED BY <1>11 DEF a, b, chosen, best

\* Every step keeps what the verification stops with good.
LEMMA VerificationNext ==
  ASSUME SkipSelected, PInv, [ProgressNext]_allVars
  PROVE  PInv'
<1>0. TInv /\ SeedsKept /\ StopGood /\ ProgressTypes /\ Recorded
  BY DEF PInv, TInv
<1>1. TInv'
  BY <1>0, TablesNext
<1>2. CASE Verify
  <2>1. phase' = "check"
    BY <1>2 DEF Verify
  <2> QED BY <1>1, <2>1 DEF PInv, SeedsKept, StopGood
<1>3. CASE Continue
  <2>1. phase' = "verify"
    BY <1>3 DEF Continue
  <2> QED BY <1>1, <2>1 DEF PInv, SeedsKept, StopGood
<1>4. CASE ChooseBase
  <2>1. phase' = "base"
    BY <1>4 DEF ChooseBase
  <2> QED BY <1>1, <2>1 DEF PInv, SeedsKept, StopGood
<1>5. CASE ChooseUpper
  <2>1. phase' = "upper"
    BY <1>5 DEF ChooseUpper
  <2> QED BY <1>0, <1>1, <1>5, <2>1, ChooseUpperKeeps DEF PInv, StopGood
<1>6. CASE Select
  <2>1. /\ phase \in {"base", "upper"} /\ phase' = phase
        /\ UNCHANGED <<input, order, i, incremental_results, seeds, inf_base>>
    BY <1>6 DEF Select, progressVars
  <2>2. SeedsKept'
    BY <1>0, <2>1, SameSeeds DEF SeedsKept
  <2> QED BY <1>1, <2>1, <2>2 DEF PInv, StopGood
<1>7. CASE Decide
  <2>1. /\ phase = "upper" /\ sel = "done" /\ phase' = IF Satisfied THEN "end" ELSE "verify"
        /\ UNCHANGED <<input, order, i, incremental_results, seeds>>
    BY <1>7 DEF Decide
  <2>2. StopGood'
    BY <1>0, <2>1, SameSeeds, SatisfiedGood DEF StopGood
  <2> QED BY <1>1, <2>1, <2>2 DEF PInv, SeedsKept
<1>8. CASE Exhaust
  <2>1. phase' = "end" /\ i' = Len(order') /\ i' \in Nat
    BY <1>0, <1>8 DEF Exhaust, ProgressTypes
  <2> QED BY <1>1, <2>1 DEF PInv, SeedsKept, StopGood
<1>9. CASE UNCHANGED allVars
  <2>1. UNCHANGED <<input, order, i, incremental_results, seeds, inf_base, phase>>
    BY <1>9 DEF allVars, progressVars
  <2>2. SeedsKept' /\ StopGood'
    BY <1>0, <2>1, SameSeeds DEF SeedsKept, StopGood
  <2> QED BY <1>1, <2>2 DEF PInv
<1> QED BY <1>2, <1>3, <1>4, <1>5, <1>6, <1>7, <1>8, <1>9 DEF ProgressNext

\* Nothing is chosen at first.
LEMMA VerificationInit ==
  ASSUME ProgressInit
  PROVE  PInv
<1>1. phase = "verify"
  BY DEF ProgressInit
<1> QED BY <1>1, TablesInit DEF PInv, SeedsKept, StopGood

\* The invariant of the tables gives what the choices promise.
LEMMA TablesSound ==
  ASSUME SkipSelected, TInv
  PROVE  /\ TablesEnclose
         /\ SeedsDistinct /\ KeysBound /\ InfluenceExact /\ PicksGreatest /\ GreedyBound
<1>1. Below(baseTable, truth) /\ Below(truth, upperTable)
  BY TablesAre DEF TInv
<1>2. TablesEnclose
  BY <1>1 DEF TablesEnclose, TInv, TableIs, truth
<1> QED BY <1>2, ExactEnough DEF TInv, GInv, HInv, Skipping

\* What is good for every K stores is good for the best of them.
LEMMA StopSound ==
  ASSUME TInv, StopGood
  PROVE  StopJustified
<1> SUFFICES ASSUME phase = "end", i < Len(order)
             PROVE  1000 * Power(K)[K] * (Counted * PoiInf(truth, ToSet(seeds)))
                      >= Ratio * (Power(K)[K] - Power(K-1)[K])
                           * Max({PoiInf(truth, P) : P \in {Q \in SUBSET DOMAIN truth : Cardinality(Q) <= K}})
  BY DEF StopJustified, truth
<1> DEFINE sets == {Q \in SUBSET DOMAIN truth : Cardinality(Q) <= K}
           inf == [P \in sets |-> PoiInf(truth, P)]
           sums == {PoiInf(truth, P) : P \in sets}
<1>1. TableOK(truth)
  BY TablesAre DEF TInv
<1>2. IsFiniteSet(sets)
  <2>1. DOMAIN truth \in SUBSET Pois
    BY <1>1 DEF TableOK
  <2>2. IsFiniteSet(SUBSET DOMAIN truth)
    BY <2>1, FS_Subset, FS_SUBSET, NetworkAssumption
  <2> QED BY <2>2, FS_Subset
<1>3. sums = {inf[P] : P \in sets}
  OBVIOUS
<1>4. IsFiniteSet(sums)
  <2> HIDE DEF sets, inf, sums
  <2> QED BY <1>2, <1>3, ImageFinite
<1>5. sums \subseteq Nat
  <2>1. Below(truth, truth)
    BY DEF Below
  <2>2. \A P \in SUBSET DOMAIN truth : PoiInf(truth, P) \in Nat
    BY <1>1, <2>1, BelowLess
  <2> QED BY <2>2
<1>6. sums # {}
  <2>1. {} \in sets
    BY FS_EmptySet, SelectionAssumption
  <2> QED BY <2>1
<1>7. Max(sums) \in sums
  <2> HIDE DEF sets, inf, sums
  <2>1. sums \in SUBSET Int
    BY <1>5
  <2> QED BY <1>4, <1>6, <2>1, MaxIsGreatest
<1>8. PICK P \in sets : Max(sums) = PoiInf(truth, P)
  BY <1>7
<1> QED BY <1>8 DEF StopGood

-----------------------------------------------------------------------------
(* Theorems.                                                               *)

\* Verifying progressively is choosing from tables one after the other: every
\* step is one of the selection (process.h, batchFilterThenHeuristic, against
\* infgraph.h, do_poiSelection_Heuristic and its _upper).
THEOREM VerificationChooses ==
  ProgressSpec => HopSpec
<1>1. ProgressInit => TInv /\ Init
  BY TablesInit DEF ProgressInit
<1>2. TInv /\ [ProgressNext]_allVars => TInv' /\ [HopNext]_vars
  BY TablesNext, ChoiceStep DEF TInv
<1> QED BY <1>1, <1>2, PTL DEF ProgressSpec, HopSpec

\* Both choices keep their promises whenever they are made: they are made on
\* tables that enclose the true one, no store is chosen twice, every choice is
\* as good as any other, and the influence is 1 - (1 - 1/K)^K of the greatest.
THEOREM ChoicesSound ==
  ASSUME SkipSelected
  PROVE  ProgressSpec => [](/\ TablesEnclose
                            /\ SeedsDistinct /\ KeysBound /\ InfluenceExact /\ PicksGreatest
                            /\ GreedyBound)
<1>1. ProgressInit => TInv
  BY TablesInit
<1>2. TInv /\ [ProgressNext]_allVars => TInv'
  BY TablesNext
<1>3. TInv => /\ TablesEnclose
              /\ SeedsDistinct /\ KeysBound /\ InfluenceExact /\ PicksGreatest /\ GreedyBound
  BY TablesSound
<1> QED BY <1>1, <1>2, <1>3, PTL DEF ProgressSpec

\* The verification that ends early has a choice that is good enough, by the
\* factor that the influence of shared followers may be overstated
\* (process.h:1371, infgraph.h:1911).
THEOREM VerificationIsSound ==
  ASSUME SkipSelected
  PROVE  ProgressSpec => []VerificationSound
<1>1. ProgressInit => PInv
  BY VerificationInit
<1>2. PInv /\ [ProgressNext]_allVars => PInv'
  BY VerificationNext
<1>3. PInv => VerificationSound
  BY TablesSound, StopSound DEF PInv, VerificationSound
<1> QED BY <1>1, <1>2, <1>3, PTL DEF ProgressSpec
================================================================================
