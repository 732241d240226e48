--------------------------- MODULE NaturalLemmas ---------------------------
(***************************************************************************)
(* Facts about the natural numbers that the proofs share: the least and    *)
(* the greatest element of a set, induction for a set that holds 0 and is  *)
(* closed under + 1, and recursion.                                        *)
(***************************************************************************)
EXTENDS Integers, FiniteSetsExt, FiniteSetTheorems, WellFoundedInduction, TLAPS

(* The greatest and the least of a set of numbers are unique.              *)
LEMMA GreatestIsMax ==
  ASSUME NEW S \in SUBSET Nat, NEW n \in S, \A m \in S : n >= m
  PROVE  Max(S) = n
<1>1. \A x \in S : (\A m \in S : x >= m) => x = n
  OBVIOUS
<1>2. QED
  BY <1>1 DEF Max

LEMMA LeastIsMin ==
  ASSUME NEW S \in SUBSET Nat, NEW n \in S, \A m \in S : n <= m
  PROVE  Min(S) = n
<1>1. \A x \in S : (\A m \in S : x <= m) => x = n
  OBVIOUS
<1>2. QED
  BY <1>1 DEF Min

(* The least of them exists: its interval is minimal among the intervals.  *)
LEMMA LeastExists ==
  ASSUME NEW S \in SUBSET Nat, S # {}
  PROVE  Min(S) \in S /\ \A m \in S : Min(S) <= m
<1> DEFINE T == {0 .. n : n \in S}
<1>1. T \subseteq FiniteSubsetsOf(Nat) /\ T # {}
  <2>1. \A n \in S : 0 .. n \in SUBSET Nat /\ IsFiniteSet(0 .. n)
    BY FS_Interval
  <2>2. QED
    BY <2>1 DEF FiniteSubsetsOf
<1>2. PICK I \in T : \A J \in T : ~(<<J, I>> \in StrictSubsetOrdering(Nat))
  <2>1. IsWellFoundedOn(StrictSubsetOrdering(Nat), FiniteSubsetsOf(Nat))
    BY FS_StrictSubsetOrderingWellFounded
  <2> HIDE DEF T
  <2>2. QED
    BY <1>1, <2>1, WFMin
<1>3. PICK n \in S : I = 0 .. n
  OBVIOUS
<1>4. ASSUME NEW m \in S, m < n PROVE FALSE
  <2>1. 0 .. m \in T /\ 0 .. m \subseteq 0 .. n /\ n \in 0 .. n /\ n \notin 0 .. m
    BY <1>4
  <2>2. <<0 .. m, 0 .. n>> \in StrictSubsetOrdering(Nat)
    BY <2>1 DEF StrictSubsetOrdering
  <2>3. QED
    BY <1>2, <1>3, <2>1, <2>2
<1>5. \A m \in S : n <= m
  BY <1>4
<1>6. Min(S) = n
  BY <1>5, LeastIsMin
<1>7. QED
  BY <1>5, <1>6

(* The greatest of a bounded set is the least distance from the bound.     *)
LEMMA GreatestExists ==
  ASSUME NEW n \in Nat, NEW S \in SUBSET (0 .. n), S # {}
  PROVE  Max(S) \in S /\ \A m \in S : m <= Max(S)
<1> DEFINE T == {n - m : m \in S}
<1>1. T \in SUBSET Nat /\ T # {}
  <2>1. \A m \in S : n - m \in Nat
    OBVIOUS
  <2>2. PICK m \in S : TRUE
    OBVIOUS
  <2>3. n - m \in T
    OBVIOUS
  <2>4. QED
    BY <2>1, <2>3
<1>2. Min(T) \in T /\ \A d \in T : Min(T) <= d
  <2> HIDE DEF T
  <2>1. QED
    BY <1>1, LeastExists
<1>3. PICK k \in S : Min(T) = n - k
  BY <1>2
<1>4. \A m \in S : k >= m
  <2>1. \A m \in S : n - k <= n - m
    BY <1>2, <1>3
  <2>2. QED
    BY <2>1
<1>5. Max(S) = k
  BY <1>4, GreatestIsMax
<1>6. QED
  BY <1>4, <1>5

LEMMA NatSetInduction ==
  ASSUME NEW S \in SUBSET Nat, 0 \in S, \A n \in S : n + 1 \in S
  PROVE  S = Nat
<1>1. SUFFICES ASSUME Nat \ S # {} PROVE FALSE
  OBVIOUS
<1> DEFINE T == Nat \ S
           m == Min(T)
<1>2. m \in T /\ \A n \in T : m <= n
  BY <1>1, LeastExists
<1> HIDE DEF m
<1>3. m # 0 /\ m - 1 \in Nat /\ m - 1 \notin T
  BY <1>2
<1>4. m - 1 \in S /\ (m - 1) + 1 = m
  BY <1>2, <1>3
<1>5. QED
  BY <1>2, <1>4

(* The recursion f[0] = a, f[i] = G[i][f[i - 1]] has a solution.            *)
Steps(n, A) == [1 .. n -> [A -> A]]

Iterates(f, n, A, a, G) ==
  /\ f \in [0 .. n -> A]
  /\ f[0] = a
  /\ \A i \in 1 .. n : f[i] = G[i][f[i - 1]]

LEMMA Recursion ==
  ASSUME NEW n \in Nat, NEW A, NEW a \in A, NEW G \in Steps(n, A)
  PROVE  \E f : Iterates(f, n, A, a, G)
<1> USE DEF Steps
<1> DEFINE Fits(f, k) == /\ f \in [0 .. k -> A] /\ f[0] = a
                         /\ \A i \in 1 .. k : f[i] = G[i][f[i - 1]]
           S == {k \in Nat : k <= n => \E f : Fits(f, k)}
<1>1. 0 \in S
  <2>1. Fits([i \in 0 .. 0 |-> a], 0)
    OBVIOUS
  <2>2. QED
    BY <2>1
<1>2. ASSUME NEW k \in S PROVE k + 1 \in S
  <2>1. SUFFICES ASSUME k + 1 <= n PROVE \E f : Fits(f, k + 1)
    OBVIOUS
  <2>2. PICK f : Fits(f, k)
    BY <2>1
  <2> DEFINE g == [i \in 0 .. k + 1 |-> IF i = k + 1 THEN G[k + 1][f[k]] ELSE f[i]]
  <2>3. G[k + 1][f[k]] \in A
    BY <2>1, <2>2
  <2>4. /\ g \in [0 .. k + 1 -> A] /\ g[0] = a /\ g[k + 1] = G[k + 1][f[k]]
        /\ \A i \in 0 .. k : g[i] = f[i]
    BY <2>2, <2>3
  <2> HIDE DEF g
  <2>5. ASSUME NEW i \in 1 .. k + 1 PROVE g[i] = G[i][g[i - 1]]
    <3>1. CASE i = k + 1
      BY <2>4, <3>1
    <3>2. CASE i \in 1 .. k
      <4>1. g[i] = f[i] /\ g[i - 1] = f[i - 1]
        BY <2>4, <3>2
      <4>2. QED
        BY <4>1, <3>2, <2>2
    <3>3. QED
      BY <3>1, <3>2
  <2>6. Fits(g, k + 1)
    BY <2>4, <2>5
  <2>7. QED
    BY <2>6
<1>3. S = Nat
  <2> HIDE DEF S
  <2>1. S \in SUBSET Nat
    BY DEF S
  <2>2. QED
    BY <1>1, <1>2, <2>1, NatSetInduction
<1>4. PICK f : Fits(f, n)
  BY <1>3
<1>5. QED
  BY <1>4 DEF Iterates
=============================================================================
