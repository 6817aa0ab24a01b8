---------------------------- MODULE FiniteFacts ----------------------------
(* What the proofs need to know of finite sets and no library states       *)
(* without a parameter that is an operator: least numbers and first        *)
(* elements, induction on a set and on a number (the hypothesis is a set   *)
(* instead of a predicate), the sums MapThenSumSet computes, and the       *)
(* greatest and least members.                                             *)
EXTENDS Integers, FiniteSets, FiniteSetsExt, FiniteSetTheorems, WellFoundedInduction, TLAPS

\* Every nonempty set of natural numbers has a least element.
LEMMA LeastNatural ==
  ASSUME NEW S \in SUBSET Nat, S # {}
  PROVE  \E m \in S : \A k \in S : m <= k
<1> DEFINE less == {ss \in Nat \X Nat : ss[1] < ss[2]}
<1>1. IsWellFoundedOn(less, Nat)
  BY NatLessThanWellFounded, Zenon DEF OpToRel
<1>2. \E m \in S : \A k \in S : <<k, m>> \notin less
  <2> HIDE DEF less
  <2> QED BY <1>1, WFMin
<1>3. PICK m \in S : \A k \in S : <<k, m>> \notin less
  BY <1>2
<1>4. ASSUME NEW k \in S PROVE m <= k
  <2>1. k < m => <<k, m>> \in less
    OBVIOUS
  <2> HIDE DEF less
  <2> QED BY <1>3, <2>1
<1> QED BY <1>4

\* In a finite set that is not empty something comes first in a strict order.
LEMMA FirstOfOrder ==
  ASSUME NEW S, IsFiniteSet(S), S # {}, NEW order,
         \A p \in S : <<p, p>> \notin order,
         \A p, q, r \in S : <<p, q>> \in order /\ <<q, r>> \in order => <<p, r>> \in order
  PROVE  \E p \in S : \A q \in S : <<q, p>> \notin order
<1> DEFINE Before(p) == {q \in S : <<q, p>> \in order}
           sizes == {Cardinality(Before(p)) : p \in S}
<1>1. \A p \in S : IsFiniteSet(Before(p)) /\ Cardinality(Before(p)) \in Nat
  <2> SUFFICES ASSUME NEW p \in S
               PROVE  IsFiniteSet(Before(p)) /\ Cardinality(Before(p)) \in Nat
    OBVIOUS
  <2>1. Before(p) \in SUBSET S
    OBVIOUS
  <2> HIDE DEF Before
  <2>2. IsFiniteSet(Before(p))
    BY <2>1, FS_Subset
  <2> QED BY <2>2, FS_CardinalityType
<1>2. sizes \in SUBSET Nat /\ sizes # {}
  <2> HIDE DEF Before
  <2> QED BY <1>1
<1>3. PICK m \in sizes : \A k \in sizes : m <= k
  <2> HIDE DEF sizes
  <2> QED BY <1>2, LeastNatural
<1>4. PICK p \in S : m = Cardinality(Before(p))
  OBVIOUS
<1>5. ASSUME NEW q \in S, <<q, p>> \in order
      PROVE  FALSE
  <2>1. Before(q) \in SUBSET Before(p) /\ Before(q) # Before(p)
    BY <1>5
  <2>2. Cardinality(Before(p)) <= Cardinality(Before(q))
    <3>1. Cardinality(Before(q)) \in sizes
      OBVIOUS
    <3> HIDE DEF sizes, Before
    <3> QED BY <1>3, <1>4, <3>1
  <2> HIDE DEF Before
  <2>3. Cardinality(Before(q)) <= Cardinality(Before(p))
        /\ Cardinality(Before(q)) # Cardinality(Before(p))
    BY <1>1, <2>1, FS_Subset
  <2> QED BY <1>1, <2>2, <2>3
<1> QED BY <1>5

-----------------------------------------------------------------------------
(* Induction.                                                              *)


\* Induction on a finite set, P being the subsets of it that are all right.
LEMMA SetInduction ==
  ASSUME NEW S, IsFiniteSet(S), NEW P, {} \in P,
         \A T \in SUBSET S : \A x \in S \ T : T \in P => T \cup {x} \in P
  PROVE  S \in P
<1> DEFINE bad == {T \in SUBSET S : T \notin P}
           sizes == {Cardinality(T) : T \in bad}
<1> SUFFICES ASSUME S \notin P
             PROVE  FALSE
  OBVIOUS
<1>1. \A T \in SUBSET S : IsFiniteSet(T) /\ Cardinality(T) \in Nat
  BY FS_Subset, FS_CardinalityType
<1>2. sizes \in SUBSET Nat /\ sizes # {}
  <2>1. S \in bad
    OBVIOUS
  <2>2. bad \subseteq SUBSET S
    OBVIOUS
  <2> HIDE DEF bad
  <2> QED BY <1>1, <2>1, <2>2
<1>3. PICK m \in sizes : \A k \in sizes : m <= k
  <2> HIDE DEF sizes
  <2> QED BY <1>2, LeastNatural
<1>4. PICK T \in bad : m = Cardinality(T)
  OBVIOUS
<1>5. T # {}
  OBVIOUS
<1>6. PICK x \in T : TRUE
  BY <1>5
<1>7. T \ {x} \in SUBSET S /\ x \in S \ (T \ {x}) /\ (T \ {x}) \cup {x} = T
  OBVIOUS
<1>8. T \ {x} \in bad
  BY <1>7
<1>9. Cardinality(T \ {x}) \in sizes
  BY <1>8
<1>10. Cardinality(T \ {x}) = Cardinality(T) - 1
  BY <1>1, FS_RemoveElement
<1>11. Cardinality(T) \in Nat
  BY <1>1
<1> HIDE DEF sizes, bad
<1> QED BY <1>3, <1>4, <1>9, <1>10, <1>11

\* Induction on a number, P being those that are all right.
LEMMA NumberInduction ==
  ASSUME NEW P, 0 \in P, \A n \in Nat : n \in P => n + 1 \in P
  PROVE  Nat \subseteq P
<1> DEFINE bad == {n \in Nat : n \notin P}
<1> SUFFICES ASSUME bad # {}
             PROVE  FALSE
  OBVIOUS
<1>1. bad \in SUBSET Nat
  OBVIOUS
<1>2. PICK m \in bad : \A k \in bad : m <= k
  <2> HIDE DEF bad
  <2> QED BY <1>1, LeastNatural
<1>3. m \in Nat /\ m # 0 /\ m - 1 \in Nat
  OBVIOUS
<1>4. m - 1 \notin bad
  <2> HIDE DEF bad
  <2> QED BY <1>2, <1>3
<1>5. m - 1 \in P
  BY <1>3, <1>4
<1> QED BY <1>3, <1>5

\* f is the sequence up to n that starts with base, each step taking what
\* follows from step.
Steps(base, step, f, n) == f = [m \in 0 .. n |-> IF m = 0 THEN base ELSE step[f[m-1]]]

\* There is one.
LEMMA StepsExist ==
  ASSUME NEW base, NEW step, NEW n \in Nat
  PROVE  \E f : Steps(base, step, f, n)
<1> DEFINE P == {k \in Nat : \E f : Steps(base, step, f, k)}
<1>1. 0 \in P
  <2>1. Steps(base, step, [m \in 0 .. 0 |-> base], 0)
    BY DEF Steps
  <2> QED BY <2>1
<1>2. ASSUME NEW k \in Nat, k \in P
      PROVE  k + 1 \in P
  <2>1. PICK f : Steps(base, step, f, k)
    BY <1>2
  <2> DEFINE g == [m \in 0 .. k+1 |-> IF m = k+1 THEN step[f[k]] ELSE f[m]]
  <2>2. ASSUME NEW m \in 0 .. k+1
        PROVE  g[m] = IF m = 0 THEN base ELSE step[g[m-1]]
    <3>1. CASE m = k+1
      BY <3>1
    <3>2. CASE m # k+1
      <4>0. m \in 0 .. k
        BY <3>2
      <4>1. f[m] = IF m = 0 THEN base ELSE step[f[m-1]]
        BY <2>1, <4>0 DEF Steps
      <4>2. m # 0 => g[m-1] = f[m-1]
        BY <3>2
      <4> QED BY <3>2, <4>1, <4>2
    <3> QED BY <3>1, <3>2
  <2>3. Steps(base, step, g, k+1)
    <3>1. g = [m \in 0 .. k+1 |-> g[m]]
      OBVIOUS
    <3> HIDE DEF g
    <3> QED BY <2>2, <3>1 DEF Steps
  <2> QED BY <2>3
<1>3. Nat \subseteq P
  BY <1>1, <1>2, NumberInduction
<1> QED BY <1>3

\* And only one, however far it goes.
LEMMA StepsUnique ==
  ASSUME NEW base, NEW step, NEW n \in Nat, NEW f, NEW g,
         Steps(base, step, f, n), Steps(base, step, g, n+1)
  PROVE  f[n] = g[n]
<1> DEFINE P == {k \in Nat : k <= n => f[k] = g[k]}
<1>1. 0 \in P
  BY DEF Steps
<1>2. ASSUME NEW k \in Nat, k \in P
      PROVE  k + 1 \in P
  <2> SUFFICES ASSUME k + 1 <= n
               PROVE  f[k+1] = g[k+1]
    OBVIOUS
  <2>1. f[k] = g[k]
    BY <1>2
  <2>2. f[k+1] = step[f[k]] /\ g[k+1] = step[g[k]]
    <3>1. k+1 \in 0 .. n /\ k+1 \in 0 .. n+1 /\ k+1 # 0 /\ (k+1)-1 = k
      OBVIOUS
    <3> QED BY <3>1 DEF Steps
  <2> QED BY <2>1, <2>2
<1>3. Nat \subseteq P
  BY <1>1, <1>2, NumberInduction
<1> QED BY <1>3

\* f starts with base, and each next value follows from step.
Iterates(f, base, step) ==
  f = [m \in Nat |-> f[m]] /\ f[0] = base /\ \A m \in Nat : f[m+1] = step[f[m]]

\* A function on the numbers may be defined by its first value and by each
\* next one.
LEMMA Recursion ==
  ASSUME NEW base, NEW step
  PROVE  \E f : Iterates(f, base, step)
<1> DEFINE part(m) == CHOOSE f : Steps(base, step, f, m)
           F == [m \in Nat |-> part(m)[m]]
<1>1. \A m \in Nat : Steps(base, step, part(m), m)
  BY StepsExist
<1>2. ASSUME NEW m \in Nat
      PROVE  F[m] = IF m = 0 THEN base ELSE step[F[m-1]]
  <2>1. part(m)[m] = IF m = 0 THEN base ELSE step[part(m)[m-1]]
    <3> HIDE DEF part
    <3> QED BY <1>1 DEF Steps
  <2>2. ASSUME m # 0 PROVE part(m)[m-1] = part(m-1)[m-1]
    <3>1. m-1 \in Nat /\ (m-1)+1 = m
      BY <2>2
    <3> HIDE DEF part
    <3> QED BY <1>1, <3>1, StepsUnique
  <2>3. F[m] = part(m)[m] /\ (m # 0 => F[m-1] = part(m-1)[m-1])
    <3> HIDE DEF part
    <3> QED OBVIOUS
  <2> HIDE DEF F, part
  <2> QED BY <2>1, <2>2, <2>3
<1>3. F = [m \in Nat |-> F[m]]
  OBVIOUS
<1> HIDE DEF F
<1>4. \A m \in Nat : m+1 \in Nat /\ m+1 # 0 /\ (m+1)-1 = m
  OBVIOUS
<1>5. Iterates(F, base, step)
  BY <1>2, <1>3, <1>4 DEF Iterates
<1> QED BY <1>5

-----------------------------------------------------------------------------
(* Sums over finite sets, as MapThenSumSet computes them.                  *)

\* The sum of f over S, the operator of the community module with a function.
Total(f, S) == MapThenSumSet(LAMBDA x : f[x], S)

\* The element that the recursion of MapThenSumSet takes first.
Some(s) == CHOOSE x \in s : TRUE

\* g gives every set of D the sum of f on it.
Sums(g, f, D) == g = [s \in D |-> IF s = {} THEN 0 ELSE f[Some(s)] + g[s \ {Some(s)}]]

\* The subsets of S with at most n elements.
UpTo(S, n) == {s \in SUBSET S : Cardinality(s) <= n}

\* The recursion in MapThenSumSet, for any function.
LEMMA TotalDef ==
  ASSUME NEW S, NEW f
  PROVE  Total(f, S) = (CHOOSE g : Sums(g, f, SUBSET S))[S]
BY DEF Total, MapThenSumSet, MapThenFoldSet, Sums, Some

\* An element less.
LEMMA OneLess ==
  ASSUME NEW s, IsFiniteSet(s), s # {}
  PROVE  /\ Some(s) \in s
         /\ IsFiniteSet(s \ {Some(s)})
         /\ Cardinality(s) \in Nat /\ Cardinality(s \ {Some(s)}) \in Nat
         /\ Cardinality(s \ {Some(s)}) = Cardinality(s) - 1
<1>1. Some(s) \in s
  BY DEF Some
<1> QED BY <1>1, FS_RemoveElement, FS_CardinalityType

\* The recursion has a solution.
LEMMA SumsExist ==
  ASSUME NEW S, IsFiniteSet(S), NEW f
  PROVE  \E g : Sums(g, f, SUBSET S)
<1> DEFINE P == {n \in Nat : \E g : Sums(g, f, UpTo(S, n))}
<1>1. \A s \in SUBSET S : IsFiniteSet(s) /\ Cardinality(s) \in Nat
  BY FS_Subset, FS_CardinalityType
<1>2. 0 \in P
  <2> DEFINE g == [s \in UpTo(S, 0) |-> 0]
  <2>1. \A s \in UpTo(S, 0) : s = {}
    BY <1>1, FS_EmptySet DEF UpTo
  <2>2. Sums(g, f, UpTo(S, 0))
    BY <2>1 DEF Sums
  <2> QED BY <2>2
<1>3. ASSUME NEW n \in Nat, n \in P
      PROVE  n + 1 \in P
  <2>1. PICK g : Sums(g, f, UpTo(S, n))
    BY <1>3
  <2> DEFINE h == [s \in UpTo(S, n+1) |-> IF s = {} THEN 0 ELSE f[Some(s)] + g[s \ {Some(s)}]]
  <2>2. ASSUME NEW s \in UpTo(S, n+1), s # {}
        PROVE  g[s \ {Some(s)}] = h[s \ {Some(s)}]
    <3> DEFINE r == s \ {Some(s)}
    <3>1. r \in SUBSET S /\ Cardinality(r) <= n /\ Cardinality(r) \in Nat
      BY <1>1, <2>2, OneLess DEF UpTo
    <3>2. r \in UpTo(S, n) /\ r \in UpTo(S, n + 1)
      BY <3>1 DEF UpTo
    <3>3. g[r] = IF r = {} THEN 0 ELSE f[Some(r)] + g[r \ {Some(r)}]
      <4> HIDE DEF r
      <4> QED BY <2>1, <3>2 DEF Sums
    <3>4. h[r] = IF r = {} THEN 0 ELSE f[Some(r)] + g[r \ {Some(r)}]
      <4> HIDE DEF r
      <4> QED BY <3>2
    <3> QED BY <3>3, <3>4
  <2>3. Sums(h, f, UpTo(S, n+1))
    <3>1. h = [s \in UpTo(S, n+1) |-> IF s = {} THEN 0 ELSE f[Some(s)] + h[s \ {Some(s)}]]
      BY <2>2
    <3> HIDE DEF h
    <3> QED BY <3>1 DEF Sums
  <2> HIDE DEF h
  <2> QED BY <2>3
<1>4. Nat \subseteq P
  <2> HIDE DEF P
  <2> QED BY <1>2, <1>3, NumberInduction
<1>5. Cardinality(S) \in P
  <2> HIDE DEF P
  <2> QED BY <1>1, <1>4
<1>6. UpTo(S, Cardinality(S)) = SUBSET S
  BY FS_Subset DEF UpTo
<1> QED BY <1>5, <1>6

\* Any two solutions agree where both are defined.
LEMMA SumsAgree ==
  ASSUME NEW S, IsFiniteSet(S), NEW T \in SUBSET S, NEW f, NEW g, NEW h,
         Sums(g, f, SUBSET S), Sums(h, f, SUBSET T)
  PROVE  g[T] = h[T]
<1> DEFINE P == {n \in Nat : \A s \in SUBSET T : Cardinality(s) <= n => g[s] = h[s]}
<1>1. \A s \in SUBSET S : IsFiniteSet(s) /\ Cardinality(s) \in Nat
  BY FS_Subset, FS_CardinalityType
<1>2. 0 \in P
  <2>1. \A s \in SUBSET T : Cardinality(s) <= 0 => s = {}
    BY <1>1, FS_EmptySet
  <2>2. g[{}] = 0 /\ h[{}] = 0
    BY DEF Sums
  <2> QED BY <2>1, <2>2
<1>3. ASSUME NEW n \in Nat, n \in P
      PROVE  n + 1 \in P
  <2>1. ASSUME NEW s \in SUBSET T, Cardinality(s) <= n + 1, s # {}
        PROVE  g[s] = h[s]
    <3>1. s \ {Some(s)} \in SUBSET T /\ Cardinality(s \ {Some(s)}) <= n
      BY <1>1, <2>1, OneLess
    <3>2. g[s \ {Some(s)}] = h[s \ {Some(s)}]
      BY <1>3, <3>1
    <3>3. s \in SUBSET S
      OBVIOUS
    <3>4. g[s] = f[Some(s)] + g[s \ {Some(s)}]
      BY <2>1, <3>3 DEF Sums
    <3>5. h[s] = f[Some(s)] + h[s \ {Some(s)}]
      BY <2>1 DEF Sums
    <3> QED BY <3>2, <3>4, <3>5
  <2>2. g[{}] = 0 /\ h[{}] = 0
    BY DEF Sums
  <2>3. \A s \in SUBSET T : Cardinality(s) <= n + 1 => g[s] = h[s]
    BY <2>1, <2>2
  <2> QED BY <2>3
<1>4. Cardinality(T) \in P
  <2>1. Nat \subseteq P
    <3> HIDE DEF P
    <3> QED BY <1>2, <1>3, NumberInduction
  <2> HIDE DEF P
  <2> QED BY <1>1, <2>1
<1> QED BY <1>1, <1>4

\* The sum over no element, and the element MapThenSumSet takes first.
LEMMA TotalStep ==
  ASSUME NEW S, IsFiniteSet(S), NEW f
  PROVE  /\ Total(f, {}) = 0
         /\ S # {} => Total(f, S) = f[Some(S)] + Total(f, S \ {Some(S)})
<1> DEFINE G(T) == CHOOSE g : Sums(g, f, SUBSET T)
<1>1. ASSUME NEW T, IsFiniteSet(T)
      PROVE  Sums(G(T), f, SUBSET T) /\ Total(f, T) = G(T)[T]
  BY <1>1, SumsExist, TotalDef
<1> HIDE DEF G
<1>2. Total(f, {}) = 0
  BY <1>1, FS_EmptySet DEF Sums
<1>3. ASSUME S # {}
      PROVE  Total(f, S) = f[Some(S)] + Total(f, S \ {Some(S)})
  <2>1. G(S)[S] = f[Some(S)] + G(S)[S \ {Some(S)}]
    BY <1>1, <1>3 DEF Sums
  <2>2. G(S)[S \ {Some(S)}] = G(S \ {Some(S)})[S \ {Some(S)}]
    <3>1. Sums(G(S), f, SUBSET S) /\ Sums(G(S \ {Some(S)}), f, SUBSET (S \ {Some(S)}))
      BY <1>1, <1>3, OneLess
    <3> QED BY <3>1, SumsAgree
  <2> QED BY <1>1, <1>3, <2>1, <2>2, OneLess
<1> QED BY <1>2, <1>3

\* The sum over no element.
LEMMA TotalEmpty == \A f : Total(f, {}) = 0
BY TotalStep, FS_EmptySet

\* What is summed up may be taken out of the sum in any order.
LEMMA TotalRemove ==
  ASSUME NEW S, IsFiniteSet(S), NEW f, \A x \in S : f[x] \in Nat
  PROVE  /\ Total(f, S) \in Nat
         /\ \A x \in S : Total(f, S) = f[x] + Total(f, S \ {x})
<1> DEFINE OK(T) == /\ Total(f, T) \in Nat
                    /\ \A x \in T : Total(f, T) = f[x] + Total(f, T \ {x})
           P == {n \in Nat : \A T \in SUBSET S : Cardinality(T) <= n => OK(T)}
<1>1. \A T \in SUBSET S : IsFiniteSet(T) /\ Cardinality(T) \in Nat
  BY FS_Subset, FS_CardinalityType
<1>2. 0 \in P
  <2>1. \A T \in SUBSET S : Cardinality(T) <= 0 => T = {}
    BY <1>1, FS_EmptySet
  <2>2. OK({})
    BY TotalEmpty
  <2> HIDE DEF OK
  <2> QED BY <2>1, <2>2
<1>3. ASSUME NEW n \in Nat, n \in P
      PROVE  n + 1 \in P
  <2>1. ASSUME NEW T \in SUBSET S, Cardinality(T) <= n + 1, T # {}
        PROVE  OK(T)
    <3> DEFINE c == Some(T)
    <3>1. c \in T /\ T \ {c} \in SUBSET S /\ Cardinality(T \ {c}) <= n
      BY <1>1, <2>1, OneLess
    <3>2. OK(T \ {c})
      <4> HIDE DEF OK, c
      <4> QED BY <1>3, <3>1
    <3>3. Total(f, T) = f[c] + Total(f, T \ {c})
      BY <1>1, <2>1, TotalStep
    <3>4. Total(f, T) \in Nat
      BY <3>1, <3>2, <3>3
    <3>5. ASSUME NEW x \in T, x # c
          PROVE  Total(f, T) = f[x] + Total(f, T \ {x})
      <4>1. Total(f, T \ {c}) = f[x] + Total(f, (T \ {c}) \ {x})
        BY <3>2, <3>5
      <4>2. T \ {x} \in SUBSET S /\ Cardinality(T \ {x}) <= n
        BY <1>1, <2>1, FS_RemoveElement
      <4>3. OK(T \ {x})
        <5> HIDE DEF OK, c
        <5> QED BY <1>3, <4>2
      <4>4. Total(f, T \ {x}) = f[c] + Total(f, (T \ {x}) \ {c})
        BY <3>1, <3>5, <4>3
      <4>5. (T \ {c}) \ {x} = (T \ {x}) \ {c}
        OBVIOUS
      <4>6. OK((T \ {c}) \ {x})
        <5>1. (T \ {c}) \ {x} \in SUBSET S
          OBVIOUS
        <5>2. Cardinality((T \ {c}) \ {x}) <= n
          <6>1. (T \ {c}) \ {x} \in SUBSET (T \ {c})
            OBVIOUS
          <6>2. Cardinality((T \ {c}) \ {x}) <= Cardinality(T \ {c})
            BY <1>1, <3>1, <6>1, FS_Subset
          <6> QED BY <1>1, <3>1, <5>1, <6>2
        <5> HIDE DEF OK, c
        <5> QED BY <1>3, <5>1, <5>2
      <4>7. f[x] \in Nat /\ f[c] \in Nat
        BY <3>1, <3>5
      <4>8. Total(f, (T \ {c}) \ {x}) \in Nat
        BY <4>6
      <4>9. Total(f, (T \ {c}) \ {x}) = Total(f, (T \ {x}) \ {c})
        BY <4>5
      <4> HIDE DEF OK, c
      <4> QED BY <3>3, <4>1, <4>4, <4>7, <4>8, <4>9
    <3> QED BY <3>3, <3>4, <3>5
  <2>2. OK({})
    BY TotalEmpty
  <2>3. \A T \in SUBSET S : Cardinality(T) <= n + 1 => OK(T)
    <3> HIDE DEF OK
    <3> QED BY <2>1, <2>2
  <2> HIDE DEF OK
  <2> QED BY <2>3
<1>4. Cardinality(S) \in P
  <2>1. Nat \subseteq P
    <3> HIDE DEF P
    <3> QED BY <1>2, <1>3, NumberInduction
  <2> HIDE DEF P
  <2> QED BY <1>1, <2>1
<1> QED BY <1>1, <1>4

\* An element more.
LEMMA TotalAdd ==
  ASSUME NEW S, IsFiniteSet(S), NEW x, x \notin S, NEW f, f[x] \in Nat, \A y \in S : f[y] \in Nat
  PROVE  Total(f, S \cup {x}) = Total(f, S) + f[x]
<1>1. IsFiniteSet(S \cup {x}) /\ (S \cup {x}) \ {x} = S
  BY FS_AddElement
<1>2. Total(f, S \cup {x}) = f[x] + Total(f, (S \cup {x}) \ {x})
  BY <1>1, TotalRemove
<1>3. Total(f, S) \in Nat
  BY TotalRemove
<1>4. Total(f, (S \cup {x}) \ {x}) = Total(f, S)
  BY <1>1
<1> QED BY <1>2, <1>3, <1>4

\* More elements, a greater sum; greater summands too.
LEMMA TotalMonotonic ==
  ASSUME NEW S, IsFiniteSet(S), NEW T \in SUBSET S, NEW f, NEW h,
         \A x \in S : f[x] \in Nat /\ h[x] \in Nat,
         \A x \in T : f[x] <= h[x]
  PROVE  Total(f, T) <= Total(h, S)
<1> DEFINE P == {s \in SUBSET S : Total(f, s \cap T) <= Total(h, s)}
<1>1. {} \in P
  <2>1. Total(f, {}) = 0 /\ Total(h, {}) = 0
    BY TotalEmpty
  <2>2. {} \cap T = {}
    OBVIOUS
  <2>3. Total(f, {} \cap T) <= Total(h, {})
    BY <2>1, <2>2
  <2> QED BY <2>3
<1>2. ASSUME NEW s \in SUBSET S, NEW x \in S \ s, s \in P
      PROVE  s \cup {x} \in P
  <2> SUFFICES Total(f, (s \cup {x}) \cap T) <= Total(h, s \cup {x})
    OBVIOUS
  <2>1. IsFiniteSet(s) /\ IsFiniteSet(s \cap T)
    BY FS_Subset
  <2>2. Total(f, s \cap T) \in Nat /\ Total(h, s) \in Nat /\ Total(f, s \cap T) <= Total(h, s)
    BY <1>2, <2>1, TotalRemove
  <2>3. Total(h, s \cup {x}) = Total(h, s) + h[x]
    BY <2>1, TotalAdd
  <2>4. CASE x \in T
    <3>1. (s \cup {x}) \cap T = (s \cap T) \cup {x}
      BY <2>4
    <3>2. Total(f, (s \cap T) \cup {x}) = Total(f, s \cap T) + f[x]
      BY <2>1, TotalAdd
    <3> QED BY <2>2, <2>3, <2>4, <3>1, <3>2
  <2>5. CASE x \notin T
    <3>1. (s \cup {x}) \cap T = s \cap T
      BY <2>5
    <3> QED BY <2>2, <2>3, <3>1
  <2> QED BY <2>4, <2>5
<1>3. S \in P
  <2> HIDE DEF P
  <2> QED BY <1>1, <1>2, SetInduction
<1>4. S \cap T = T
  OBVIOUS
<1> QED BY <1>3, <1>4

\* Where two functions together are nowhere less than two others, neither are
\* their sums; so are the sums equal where they are.
LEMMA TotalExchange ==
  ASSUME NEW S, IsFiniteSet(S), NEW f, NEW g, NEW h, NEW k,
         \A x \in S : f[x] \in Nat /\ g[x] \in Nat /\ h[x] \in Nat /\ k[x] \in Nat,
         \A x \in S : f[x] + g[x] >= h[x] + k[x]
  PROVE  Total(f, S) + Total(g, S) >= Total(h, S) + Total(k, S)
<1> DEFINE P == {s \in SUBSET S : Total(f, s) + Total(g, s) >= Total(h, s) + Total(k, s)}
<1>1. {} \in P
  BY TotalEmpty
<1>2. ASSUME NEW s \in SUBSET S, NEW x \in S \ s, s \in P
      PROVE  s \cup {x} \in P
  <2>1. IsFiniteSet(s)
    BY FS_Subset
  <2>2. /\ Total(f, s \cup {x}) = Total(f, s) + f[x] /\ Total(g, s \cup {x}) = Total(g, s) + g[x]
        /\ Total(h, s \cup {x}) = Total(h, s) + h[x] /\ Total(k, s \cup {x}) = Total(k, s) + k[x]
    BY <2>1, TotalAdd
  <2>3. /\ Total(f, s) \in Nat /\ Total(g, s) \in Nat /\ Total(h, s) \in Nat /\ Total(k, s) \in Nat
    BY <2>1, TotalRemove
  <2>4. /\ f[x] \in Nat /\ g[x] \in Nat /\ h[x] \in Nat /\ k[x] \in Nat
        /\ f[x] + g[x] >= h[x] + k[x]
        /\ Total(f, s) + Total(g, s) >= Total(h, s) + Total(k, s)
    BY <1>2
  <2> HIDE DEF P
  <2>5. Total(f, s \cup {x}) + Total(g, s \cup {x}) >= Total(h, s \cup {x}) + Total(k, s \cup {x})
    BY <2>2, <2>3, <2>4
  <2> QED BY <2>5 DEF P
<1>3. S \in P
  <2> HIDE DEF P
  <2> QED BY <1>1, <1>2, SetInduction
<1> QED BY <1>3

\* Nothing is lost by leaving out zeros.
LEMMA TotalWithoutZeros ==
  ASSUME NEW S, IsFiniteSet(S), NEW T \in SUBSET S, NEW f,
         \A x \in S : f[x] \in Nat, \A x \in S \ T : f[x] = 0
  PROVE  Total(f, T) = Total(f, S)
<1> DEFINE P == {s \in SUBSET (S \ T) : Total(f, T \cup s) = Total(f, T)}
<1>1. {} \in P
  OBVIOUS
<1>2. ASSUME NEW s \in SUBSET (S \ T), NEW x \in (S \ T) \ s, s \in P
      PROVE  s \cup {x} \in P
  <2>1. IsFiniteSet(T \cup s) /\ x \notin T \cup s /\ T \cup (s \cup {x}) = (T \cup s) \cup {x}
    <3>1. T \cup s \in SUBSET S
      OBVIOUS
    <3>2. IsFiniteSet(T \cup s)
      BY <3>1, FS_Subset
    <3> QED BY <3>2
  <2>2. Total(f, (T \cup s) \cup {x}) = Total(f, T \cup s) + f[x] /\ Total(f, T \cup s) \in Nat
    BY <2>1, TotalAdd, TotalRemove
  <2>3. f[x] = 0 /\ Total(f, T \cup s) = Total(f, T)
    BY <1>2
  <2>4. Total(f, T \cup (s \cup {x})) = Total(f, T)
    <3>1. Total(f, T \cup (s \cup {x})) = Total(f, (T \cup s) \cup {x})
      BY <2>1
    <3> QED BY <2>2, <2>3, <3>1
  <2> QED BY <2>4
<1>3. IsFiniteSet(S \ T)
  BY FS_Difference
<1>4. S \ T \in P
  <2> HIDE DEF P
  <2> QED BY <1>1, <1>2, <1>3, SetInduction
<1> QED BY <1>4

\* A number as often as there are elements.
LEMMA TotalConstant ==
  ASSUME NEW S, IsFiniteSet(S), NEW c \in Nat, NEW f, \A x \in S : f[x] = c
  PROVE  Total(f, S) = c * Cardinality(S)
<1> DEFINE P == {s \in SUBSET S : Total(f, s) = c * Cardinality(s)}
<1>1. {} \in P
  BY TotalEmpty, FS_EmptySet
<1>2. ASSUME NEW s \in SUBSET S, NEW x \in S \ s, s \in P
      PROVE  s \cup {x} \in P
  <2>1. IsFiniteSet(s)
    BY FS_Subset
  <2>2. Total(f, s \cup {x}) = Total(f, s) + c
    <3>1. f[x] = c /\ x \notin s /\ \A y \in s : f[y] \in Nat
      OBVIOUS
    <3> HIDE DEF P
    <3>2. Total(f, s \cup {x}) = Total(f, s) + f[x]
      BY <2>1, <3>1, TotalAdd
    <3> QED BY <3>1, <3>2
  <2>3. Cardinality(s \cup {x}) = Cardinality(s) + 1 /\ Cardinality(s) \in Nat
    BY <2>1, FS_AddElement, FS_CardinalityType
  <2>4. c * (Cardinality(s) + 1) = c * Cardinality(s) + c
    BY <2>3
  <2> QED BY <1>2, <2>2, <2>3, <2>4
<1>3. S \in P
  <2> HIDE DEF P
  <2> QED BY <1>1, <1>2, SetInduction
<1> QED BY <1>3

\* Only what is summed up matters.
LEMMA TotalSame ==
  ASSUME NEW S, IsFiniteSet(S), NEW f, NEW g, \A x \in S : f[x] \in Nat /\ g[x] = f[x]
  PROVE  Total(f, S) = Total(g, S)
<1>1. S \in SUBSET S /\ \A x \in S : f[x] <= g[x] /\ g[x] <= f[x] /\ g[x] \in Nat
  OBVIOUS
<1>2. Total(f, S) <= Total(g, S) /\ Total(g, S) <= Total(f, S)
  BY <1>1, TotalMonotonic
<1>3. Total(f, S) \in Nat /\ Total(g, S) \in Nat
  BY <1>1, TotalRemove
<1> QED BY <1>2, <1>3

\* A union has at most as many elements as its members together.
LEMMA UnionBound ==
  ASSUME NEW S, IsFiniteSet(S), NEW A, \A x \in S : IsFiniteSet(A[x]), NEW f,
         \A x \in S : f[x] \in Nat /\ Cardinality(A[x]) <= f[x]
  PROVE  /\ IsFiniteSet(UNION {A[x] : x \in S})
         /\ Cardinality(UNION {A[x] : x \in S}) <= Total(f, S)
<1> DEFINE U(s) == UNION {A[x] : x \in s}
           P == {s \in SUBSET S : IsFiniteSet(U(s)) /\ Cardinality(U(s)) <= Total(f, s)}
<1>1. {} \in P
  <2>1. U({}) = {}
    OBVIOUS
  <2> HIDE DEF U
  <2> QED BY <2>1, TotalStep, FS_EmptySet
<1>2. ASSUME NEW s \in SUBSET S, NEW x \in S \ s, s \in P
      PROVE  s \cup {x} \in P
  <2>1. IsFiniteSet(s)
    BY FS_Subset
  <2>2. U(s \cup {x}) = U(s) \cup A[x]
    OBVIOUS
  <2>3. Total(f, s \cup {x}) = Total(f, s) + f[x] /\ Total(f, s) \in Nat
    BY <2>1, TotalAdd, TotalRemove
  <2>4. IsFiniteSet(U(s)) /\ Cardinality(U(s)) <= Total(f, s) /\ IsFiniteSet(A[x]) /\ Cardinality(A[x]) <= f[x]
    BY <1>2
  <2> SUFFICES IsFiniteSet(U(s) \cup A[x]) /\ Cardinality(U(s) \cup A[x]) <= Total(f, s \cup {x})
    BY <2>2
  <2> HIDE DEF U
  <2>5. /\ IsFiniteSet(U(s) \cup A[x])
        /\ Cardinality(U(s) \cup A[x]) = Cardinality(U(s)) + Cardinality(A[x]) - Cardinality(U(s) \cap A[x])
    BY <2>4, FS_Union
  <2>6. IsFiniteSet(U(s) \cap A[x])
    BY <2>4, FS_Intersection
  <2>7. Cardinality(U(s)) \in Nat /\ Cardinality(A[x]) \in Nat /\ Cardinality(U(s) \cap A[x]) \in Nat
    BY <2>4, <2>6, FS_CardinalityType
  <2> QED BY <2>3, <2>4, <2>5, <2>7
<1>3. S \in P
  <2> HIDE DEF P
  <2> QED BY <1>1, <1>2, SetInduction
<1> QED BY <1>3

-----------------------------------------------------------------------------
(* Greatest and least members, subsets of a given size.                    *)

\* As many values as arguments at most.
LEMMA ImageFinite ==
  ASSUME NEW S, IsFiniteSet(S), NEW f
  PROVE  IsFiniteSet({f[x] : x \in S})
<1> DEFINE g == [x \in S |-> f[x]]
<1>1. g \in Surjection(S, {f[x] : x \in S})
  BY DEF Surjection
<1> HIDE DEF g
<1> QED BY <1>1, FS_Surjection

\* Max is in the set and nothing in it is greater.
LEMMA MaxIsGreatest ==
  ASSUME NEW S \in SUBSET Int, IsFiniteSet(S), S # {}
  PROVE  Max(S) \in S /\ \A y \in S : y <= Max(S)
<1> DEFINE P == {s \in SUBSET S : s = {} \/ \E m \in s : \A y \in s : m >= y}
<1>1. {} \in P
  OBVIOUS
<1>2. ASSUME NEW s \in SUBSET S, NEW x \in S \ s, s \in P
      PROVE  s \cup {x} \in P
  <2> SUFFICES \E m \in s \cup {x} : \A y \in s \cup {x} : m >= y
    OBVIOUS
  <2>1. CASE s = {}
    BY <2>1
  <2>2. CASE s # {}
    <3>1. PICK m \in s : \A y \in s : m >= y
      BY <1>2, <2>2
    <3>2. m \in Int /\ x \in Int
      OBVIOUS
    <3>3. CASE m >= x
      BY <3>1, <3>3
    <3>4. CASE ~ (m >= x)
      <4>1. \A y \in s \cup {x} : x >= y
        BY <3>1, <3>2, <3>4
      <4> QED BY <4>1
    <3> QED BY <3>3, <3>4
  <2> QED BY <2>1, <2>2
<1>3. S \in P
  <2> HIDE DEF P
  <2> QED BY <1>1, <1>2, SetInduction
<1>4. \E m \in S : \A y \in S : m >= y
  BY <1>3
<1>5. Max(S) \in S /\ \A y \in S : Max(S) >= y
  BY <1>4 DEF Max
<1> QED BY <1>5

\* Min is in the set and nothing in it is less.
LEMMA MinIsLeast ==
  ASSUME NEW S \in SUBSET Nat, S # {}
  PROVE  Min(S) \in S /\ \A y \in S : Min(S) <= y
<1>1. \E m \in S : \A y \in S : m <= y
  BY LeastNatural
<1> QED BY <1>1 DEF Min

\* A set that is not too large is part of one of the size wanted.
LEMMA EnlargeTo ==
  ASSUME NEW S, IsFiniteSet(S), NEW k \in Nat, k <= Cardinality(S),
         NEW T \in SUBSET S, Cardinality(T) <= k
  PROVE  \E R \in kSubset(k, S) : T \subseteq R
<1> DEFINE large == {R \in SUBSET S : T \subseteq R /\ k <= Cardinality(R)}
           sizes == {Cardinality(R) : R \in large}
<1>1. \A R \in SUBSET S : IsFiniteSet(R) /\ Cardinality(R) \in Nat
  BY FS_Subset, FS_CardinalityType
<1>2. S \in large
  OBVIOUS
<1>3. sizes \in SUBSET Nat /\ sizes # {}
  BY <1>1, <1>2
<1>4. PICK m \in sizes : \A j \in sizes : m <= j
  <2> HIDE DEF sizes
  <2> QED BY <1>3, LeastNatural
<1>5. PICK R \in large : m = Cardinality(R)
  OBVIOUS
<1>6. Cardinality(R) <= k
  <2> SUFFICES ASSUME Cardinality(R) > k
               PROVE  FALSE
    BY <1>1
  <2>1. R # T
    BY <1>1
  <2>2. PICK x \in R \ T : TRUE
    BY <1>5, <2>1
  <2>3. R \ {x} \in SUBSET S /\ T \subseteq R \ {x}
    OBVIOUS
  <2>4. Cardinality(R \ {x}) = Cardinality(R) - 1
    BY <1>1, FS_RemoveElement
  <2>5. Cardinality(R) \in Nat
    BY <1>1
  <2>6. R \ {x} \in large
    BY <2>3, <2>4, <2>5
  <2>7. Cardinality(R \ {x}) \in sizes
    BY <2>6
  <2> HIDE DEF sizes, large
  <2> QED BY <1>4, <1>5, <2>4, <2>5, <2>7
<1>7. Cardinality(R) = k
  BY <1>1, <1>6
<1> QED BY <1>7 DEF kSubset
=============================================================================
