---------------------------- MODULE NatExtremes ----------------------------
(* The largest and the smallest member of a bounded set of natural numbers,  *)
(* and what follows from there being one.                                    *)
EXTENDS Integers, FiniteSets, FiniteSetTheorems, WellFoundedInduction, TLAPS

\* A finite set of numbers that is not empty has a largest one: among the sets
\* of larger numbers that its members leave, a minimal one is empty.
LEMMA LargestExists ==
    ASSUME NEW T \in SUBSET Nat, IsFiniteSet(T), T # {}
    PROVE  \E k \in T : \A j \in T : j <= k
<1> DEFINE Above(k) == {j \in T : j > k}
           Aboves == {Above(k) : k \in T}
<1>1. Aboves \subseteq FiniteSubsetsOf(T) /\ Aboves # {}
  <2>1. FiniteSubsetsOf(T) = SUBSET T
    BY FS_FiniteSubsetsOfFinite
  <2>2. Aboves \subseteq SUBSET T /\ Aboves # {}
    OBVIOUS
  <2> QED BY <2>1, <2>2
<1>2. PICK U \in Aboves :
         \A V \in Aboves : ~ (<<V, U>> \in StrictSubsetOrdering(T))
  BY <1>1, FS_StrictSubsetOrderingWellFounded, WFMin
<1>3. PICK k \in T : U = Above(k)
  OBVIOUS
<1>4. ASSUME NEW j \in T, j > k PROVE FALSE
  <2>1. Above(j) \in Aboves
    OBVIOUS
  <2>2. Above(j) \subseteq Above(k) /\ j \in Above(k) /\ j \notin Above(j)
    <3>1. j \in Nat /\ k \in Nat /\ \A i \in T : i \in Nat
      OBVIOUS
    <3>2. \A i \in T : i > j => i > k
      BY <1>4, <3>1
    <3>3. ~(j > j)
      BY <3>1
    <3> QED BY <1>4, <3>2, <3>3
  <2>3. <<Above(j), U>> \in StrictSubsetOrdering(T)
    BY <1>3, <2>2 DEF StrictSubsetOrdering
  <2> QED BY <1>2, <2>1, <2>3
<1> QED BY <1>4

\* A set of numbers up to n that is not empty has a smallest one.
LEMMA SmallestExists ==
    ASSUME NEW n \in Nat, NEW T \in SUBSET (0..n), T # {}
    PROVE  \E k \in T : \A j \in T : k <= j
<1> DEFINE M == {n - k : k \in T}
<1>0. \A k \in T : k \in Nat /\ n - k \in Nat /\ n - k <= n
  OBVIOUS
<1>1. M \in SUBSET Nat /\ M # {} /\ \A m \in M : m <= n
  BY <1>0
<1>2. IsFiniteSet(M)
  BY <1>1, FS_BoundedSetOfNaturals
<1>3. PICK m \in M : \A j \in M : j <= m
  BY <1>1, <1>2, LargestExists
<1>4. PICK k \in T : m = n - k
  OBVIOUS
<1>5. \A j \in T : n - j \in M
  OBVIOUS
<1>6. ASSUME NEW j \in T PROVE k <= j
  <2>1. n - j <= n - k
    BY <1>3, <1>4, <1>5
  <2>2. j \in Nat /\ k \in Nat
    BY <1>0
  <2> QED BY <2>1, <2>2
<1> QED BY <1>6

\* f has the values that the steps lead to from the first one, all of them in A.
Iterates(f, A, N, base, step) ==
    /\ f \in [0..N -> A] /\ f[0] = base
    /\ \A n \in 1..N : f[n] = step[n][f[n - 1]]

\* A sequence of values is determined by its first one and by the step from each
\* to the next: there is a function that has them.  Otherwise some n would be
\* the smallest up to which there is none, but what there is up to n - 1 has one
\* value more.
LEMMA RecursionExists ==
    ASSUME NEW A, NEW N \in Nat, NEW base \in A, NEW step \in [1..N -> [A -> A]]
    PROVE  \E f : Iterates(f, A, N, base, step)
<1> DEFINE Has(m, f) == f[0] = base /\ \A n \in 1..m : f[n] = step[n][f[n - 1]]
           T == {m \in 0..N : ~ \E f \in [0..m -> A] : Has(m, f)}
<1>1. SUFFICES ASSUME T # {} PROVE FALSE
  <2>1. N \in 0..N
    OBVIOUS
  <2>2. \A f : f \in [0..N -> A] /\ Has(N, f) => Iterates(f, A, N, base, step)
    BY DEF Iterates
  <2>3. ASSUME T = {} PROVE \E f \in [0..N -> A] : Has(N, f)
    BY <2>1, <2>3
  <2> HIDE DEF Has, T
  <2> QED BY <2>2, <2>3
<1>2. PICK m \in T : \A j \in T : m <= j
  <2>1. T \in SUBSET (0..N)
    OBVIOUS
  <2> HIDE DEF T
  <2> QED BY <1>1, <2>1, SmallestExists
<1>3. m # 0
  <2>1. ASSUME m = 0 PROVE FALSE
    <3>1. PICK f : f = [n \in 0..0 |-> base]
      OBVIOUS
    <3>2. f \in [0..0 -> A] /\ f[0] = base /\ 1..0 = {}
      BY <3>1
    <3>3. Has(0, f)
      BY <3>2
    <3> QED BY <2>1, <3>2, <3>3
  <2> QED BY <2>1
<1>4. m \in Nat /\ m - 1 \in 0..N /\ m - 1 < m /\ m \in 1..N
  BY <1>3
<1>5. PICK g \in [0..(m - 1) -> A] : Has(m - 1, g)
  <2>1. m - 1 \notin T
    <3> HIDE DEF T
    <3> QED BY <1>2, <1>4
  <2> QED BY <1>4, <2>1
<1>6. PICK f : f = [n \in 0..m |-> IF n = m THEN step[m][g[m - 1]] ELSE g[n]]
  OBVIOUS
<1>7. g[m - 1] \in A /\ step[m][g[m - 1]] \in A
  BY <1>4
<1>8. f \in [0..m -> A]
  BY <1>4, <1>6, <1>7
<1>9. f[0] = base
  BY <1>4, <1>5, <1>6
<1>10. ASSUME NEW n \in 1..m PROVE f[n] = step[n][f[n - 1]]
  <2>1. CASE n = m
    BY <1>4, <1>6, <2>1
  <2>2. CASE n # m
    <3>1. n \in 1..(m - 1) /\ n \in 0..m /\ n - 1 \in 0..m /\ n - 1 # m
      BY <1>4, <2>2
    <3>2. g[n] = step[n][g[n - 1]]
      BY <1>5, <3>1
    <3> QED BY <1>6, <2>2, <3>1, <3>2
  <2> QED BY <2>1, <2>2
<1>11. Has(m, f)
  BY <1>9, <1>10
<1> QED BY <1>2, <1>8, <1>11

=============================================================================
