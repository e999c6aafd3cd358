----------------------------- MODULE Arithmetic -----------------------------
(***************************************************************************)
(* What the other proofs need of numbers: induction as a fact about sets,  *)
(* on the natural numbers and on finite sets, from the well-founded order  *)
(* of the naturals; with it what a sum of the community module Functions   *)
(* is, in whatever order it chooses the terms; and what Quotient of module *)
(* Slopes cuts off.                                                        *)
(***************************************************************************)
EXTENDS Slopes, FiniteSets, WellFoundedInduction, FiniteSetTheorems, TLAPS

(* Every nonempty set of natural numbers has a least element. *)
LEMMA Least ==
  ASSUME NEW T \in SUBSET Nat, T # {}
  PROVE  \E x \in T : \A y \in T : x <= y
<1> DEFINE R == {ss \in Nat \X Nat : ss[1] < ss[2]}
<1>1. R = OpToRel(<, Nat)
  BY DEF OpToRel
<1>2. IsWellFoundedOn(R, Nat)
  BY <1>1, NatLessThanWellFounded
<1>3. \A x, y \in Nat : <<x, y>> \in R <=> x < y
  OBVIOUS
<1> HIDE DEF R
<1>4. PICK x \in T : \A y \in T : <<y, x>> \notin R
  BY <1>2, WFMin
<1>5. \A y \in T : ~(y < x)
  BY <1>3, <1>4
<1> QED BY <1>5

(* Induction on finite sets: Q has every subset of S if it has each one     *)
(* whose subsets with an element less it has. *)
LEMMA SubsetInduction ==
  ASSUME NEW S, IsFiniteSet(S), NEW Q,
         \A s \in SUBSET S : (\A x \in s : s \ {x} \in Q) => s \in Q
  PROVE  SUBSET S \subseteq Q
<1> DEFINE T == {Cardinality(s) : s \in (SUBSET S) \ Q}
<1> SUFFICES ASSUME T # {} PROVE FALSE
  OBVIOUS
<1>1. \A s \in SUBSET S : IsFiniteSet(s) /\ Cardinality(s) \in Nat
  BY FS_Subset, FS_CardinalityType
<1>2. T \in SUBSET Nat
  BY <1>1
<1>3. PICK k \in T : \A j \in T : k <= j
  BY <1>2, Least
<1>4. PICK s \in (SUBSET S) \ Q : k = Cardinality(s)
  BY <1>3
<1>5. PICK x \in s : s \ {x} \notin Q
  BY <1>4
<1>6. Cardinality(s \ {x}) = k - 1 /\ s \ {x} \in SUBSET S
  BY <1>1, <1>4, FS_RemoveElement
<1>7. k - 1 \in T /\ k \in Nat
  BY <1>2, <1>3, <1>5, <1>6
<1> QED BY <1>3, <1>7

(* Induction on the natural numbers *)
LEMMA NatSetInduction ==
  ASSUME NEW Q, 0 \in Q, \A n \in Nat : n \in Q => n + 1 \in Q
  PROVE  Nat \subseteq Q
<1> DEFINE T == Nat \ Q
<1> SUFFICES ASSUME T # {} PROVE FALSE
  OBVIOUS
<1>1. PICK x \in T : \A y \in T : x <= y
  BY Least
<1>2. x # 0 /\ x - 1 \in Nat /\ x - 1 \notin T
  BY <1>1
<1> QED BY <1>2

-----------------------------------------------------------------------------
(* The term that a sum over s adds last. *)
Pick(s) == CHOOSE x \in s : TRUE
(* g adds up f over the subsets of S. *)
Adds(g, f, S) ==
  g = [s \in SUBSET S |-> IF s = {} THEN 0 ELSE f[Pick(s)] + g[s \ {Pick(s)}]]

LEMMA SumDef ==
  ASSUME NEW f
  PROVE  SumFunction(f) = (CHOOSE g : Adds(g, f, DOMAIN f))[DOMAIN f]
BY DEF SumFunction, SumFunctionOnSet, FoldFunctionOnSet, MapThenFoldSet, Adds, Pick

LEMMA PickIn == ASSUME NEW s, s # {} PROVE Pick(s) \in s
BY DEF Pick

LEMMA AddsAt ==
  ASSUME NEW g, NEW f, NEW S, Adds(g, f, S)
  PROVE  \A s \in SUBSET S :
           g[s] = IF s = {} THEN 0 ELSE f[Pick(s)] + g[s \ {Pick(s)}]
<1> DEFINE rhs == [t \in SUBSET S |-> IF t = {} THEN 0 ELSE f[Pick(t)] + g[t \ {Pick(t)}]]
<1>1. g = rhs
  BY DEF Adds
<1>2. \A s \in SUBSET S :
        rhs[s] = IF s = {} THEN 0 ELSE f[Pick(s)] + g[s \ {Pick(s)}]
  OBVIOUS
<1> HIDE DEF rhs
<1> QED BY <1>1, <1>2

(* There is a function that adds up: by induction on k, one that does on    *)
(* all sets of up to k elements. *)
LEMMA AddsExists ==
  ASSUME NEW f, NEW S, IsFiniteSet(S)
  PROVE  \E g : Adds(g, f, S)
<1> DEFINE Rhs(g, s) == IF s = {} THEN 0 ELSE f[Pick(s)] + g[s \ {Pick(s)}]
           Upto(g, k) == \A s \in SUBSET S : Cardinality(s) <= k => g[s] = Rhs(g, s)
           Q == {k \in Nat : \E g : g = [s \in SUBSET S |-> g[s]] /\ Upto(g, k)}
<1>1. \A s \in SUBSET S : IsFiniteSet(s) /\ Cardinality(s) \in Nat
  BY FS_Subset, FS_CardinalityType
<1>2. 0 \in Q
  <2> DEFINE g == [s \in SUBSET S |-> 0]
  <2>1. \A s \in SUBSET S : Cardinality(s) <= 0 => s = {}
    BY <1>1, FS_EmptySet
  <2>2. Upto(g, 0)
    BY <2>1
  <2>3. g = [s \in SUBSET S |-> g[s]]
    OBVIOUS
  <2> HIDE DEF g, Upto
  <2> QED BY <2>2, <2>3
<1>3. ASSUME NEW k \in Nat, k \in Q PROVE k + 1 \in Q
  <2>1. PICK g : g = [s \in SUBSET S |-> g[s]] /\ Upto(g, k)
    BY <1>3
  <2> DEFINE h == [s \in SUBSET S |-> IF Cardinality(s) <= k THEN g[s] ELSE Rhs(g, s)]
  <2>2. ASSUME NEW s \in SUBSET S, Cardinality(s) <= k + 1, s # {}
        PROVE  h[s \ {Pick(s)}] = g[s \ {Pick(s)}]
    <3>1. /\ Cardinality(s \ {Pick(s)}) = Cardinality(s) - 1
          /\ s \ {Pick(s)} \in SUBSET S
      BY <1>1, <2>2, PickIn, FS_RemoveElement
    <3> QED BY <3>1, <2>2, <1>1
  <2>3. ASSUME NEW s \in SUBSET S, Cardinality(s) <= k + 1
        PROVE  h[s] = Rhs(h, s)
    <3>1. h[s] = Rhs(g, s)
      BY <2>1
    <3>2. Rhs(g, s) = Rhs(h, s)
      <4> HIDE DEF h
      <4> QED BY <2>2, <2>3
    <3> QED BY <3>1, <3>2
  <2>4. h = [s \in SUBSET S |-> h[s]]
    OBVIOUS
  <2>5. Upto(h, k + 1)
    <3> HIDE DEF h
    <3> QED BY <2>3
  <2> HIDE DEF h, Upto
  <2> QED BY <2>4, <2>5
<1>4. Cardinality(S) \in Q
  <2> HIDE DEF Q
  <2> QED BY <1>1, <1>2, <1>3, NatSetInduction
<1>5. PICK g : g = [s \in SUBSET S |-> g[s]] /\ Upto(g, Cardinality(S))
  BY <1>4
<1>6. \A s \in SUBSET S : g[s] = Rhs(g, s)
  BY <1>5, FS_Subset
<1>7. g = [s \in SUBSET S |-> Rhs(g, s)]
  BY <1>5, <1>6
<1> QED BY <1>7 DEF Adds

LEMMA AddsType ==
  ASSUME NEW S, IsFiniteSet(S), NEW f, \A x \in S : f[x] \in Int, NEW g, Adds(g, f, S)
  PROVE  \A s \in SUBSET S : g[s] \in Int
<1> DEFINE Q == {s \in SUBSET S : g[s] \in Int}
<1>1. ASSUME NEW s \in SUBSET S, \A x \in s : s \ {x} \in Q PROVE s \in Q
  <2>1. CASE s = {}
    BY <2>1, AddsAt
  <2>2. CASE s # {}
    <3>1. Pick(s) \in s /\ g[s] = f[Pick(s)] + g[s \ {Pick(s)}]
      BY <2>2, AddsAt, PickIn
    <3>2. f[Pick(s)] \in Int /\ g[s \ {Pick(s)}] \in Int
      BY <1>1, <3>1
    <3> QED BY <3>1, <3>2
  <2> QED BY <2>1, <2>2
<1>2. \A s \in SUBSET S : (\A x \in s : s \ {x} \in Q) => s \in Q
  BY <1>1
<1>3. SUBSET S \subseteq Q
  <2> HIDE DEF Q
  <2> QED BY <1>2, SubsetInduction
<1> QED BY <1>3

(* It does not matter which element is added last. *)
LEMMA AddsAny ==
  ASSUME NEW S, IsFiniteSet(S), NEW f, \A x \in S : f[x] \in Int, NEW g, Adds(g, f, S),
         NEW z \in S
  PROVE  g[S] = f[z] + g[S \ {z}]
<1> DEFINE Q == {s \in SUBSET S : \A y \in s : g[s] = f[y] + g[s \ {y}]}
<1>a. \A s \in SUBSET S :
        g[s] = IF s = {} THEN 0 ELSE f[Pick(s)] + g[s \ {Pick(s)}]
  BY AddsAt
<1>1. ASSUME NEW s \in SUBSET S, \A x \in s : s \ {x} \in Q, NEW y \in s
      PROVE  g[s] = f[y] + g[s \ {y}]
  <2> DEFINE x == Pick(s)
  <2>1. x \in s /\ g[s] = f[x] + g[s \ {x}]
    BY <1>a, PickIn
  <2>2. CASE x = y
    BY <2>1, <2>2
  <2>3. CASE x # y
    <3>1. g[s \ {x}] = f[y] + g[(s \ {x}) \ {y}]
      BY <1>1, <2>1, <2>3
    <3>2. g[s \ {y}] = f[x] + g[(s \ {y}) \ {x}]
      BY <1>1, <2>1, <2>3
    <3>3. (s \ {x}) \ {y} = (s \ {y}) \ {x}
      OBVIOUS
    <3>4. /\ f[x] \in Int /\ f[y] \in Int
          /\ g[(s \ {x}) \ {y}] \in Int
      <4> HIDE DEF x
      <4> QED BY <2>1, AddsType
    <3>5. f[x] + (f[y] + g[(s \ {x}) \ {y}]) = f[y] + (f[x] + g[(s \ {x}) \ {y}])
      <4> HIDE DEF x
      <4> QED BY <3>4
    <3> HIDE DEF x
    <3> QED BY <2>1, <3>1, <3>2, <3>3, <3>5, Zenon
  <2> QED BY <2>2, <2>3
<1>2. \A s \in SUBSET S : (\A x \in s : s \ {x} \in Q) => s \in Q
  BY <1>1
<1>3. SUBSET S \subseteq Q
  <2> HIDE DEF Q
  <2> QED BY <1>2, SubsetInduction
<1> QED BY <1>3

LEMMA AddsSame ==
  ASSUME NEW S, NEW S2, S2 \subseteq S, IsFiniteSet(S2),
         NEW f, NEW f2, \A x \in S2 : f2[x] = f[x],
         NEW g, Adds(g, f, S), NEW g2, Adds(g2, f2, S2)
  PROVE  \A s \in SUBSET S2 : g[s] = g2[s]
<1> DEFINE Q == {s \in SUBSET S2 : g[s] = g2[s]}
<1>a. \A s \in SUBSET S :
        g[s] = IF s = {} THEN 0 ELSE f[Pick(s)] + g[s \ {Pick(s)}]
  BY AddsAt
<1>b. \A s \in SUBSET S2 :
        g2[s] = IF s = {} THEN 0 ELSE f2[Pick(s)] + g2[s \ {Pick(s)}]
  BY AddsAt
<1>1. ASSUME NEW s \in SUBSET S2, \A x \in s : s \ {x} \in Q PROVE s \in Q
  <2>1. CASE s = {}
    BY <1>a, <1>b, <2>1
  <2>2. CASE s # {}
    <3>1. Pick(s) \in s
      BY <2>2, PickIn
    <3>2. g[s] = f[Pick(s)] + g[s \ {Pick(s)}]
      BY <1>a, <2>2
    <3>3. g2[s] = f2[Pick(s)] + g2[s \ {Pick(s)}]
      BY <1>b, <2>2
    <3>4. g[s \ {Pick(s)}] = g2[s \ {Pick(s)}] /\ f2[Pick(s)] = f[Pick(s)]
      BY <1>1, <3>1
    <3> QED BY <3>2, <3>3, <3>4
  <2> QED BY <2>1, <2>2
<1>2. \A s \in SUBSET S2 : (\A x \in s : s \ {x} \in Q) => s \in Q
  BY <1>1
<1>3. SUBSET S2 \subseteq Q
  <2> HIDE DEF Q
  <2> QED BY <1>2, SubsetInduction
<1> QED BY <1>3

(* A sum, one term at a time *)
LEMMA SumEmpty ==
  ASSUME NEW f, DOMAIN f = {} PROVE SumFunction(f) = 0
<1> DEFINE g == CHOOSE g : Adds(g, f, {})
<1>1. Adds(g, f, {})
  BY AddsExists, FS_EmptySet
<1> HIDE DEF g
<1>2. g[{}] = 0
  BY <1>1, AddsAt
<1> QED BY <1>2, SumDef DEF g

LEMMA SumLast ==
  ASSUME NEW n \in Nat, NEW f \in [1 .. n + 1 -> Int]
  PROVE  LET e == [j \in 1 .. n |-> f[j]] IN
         /\ SumFunction(e) \in Int
         /\ SumFunction(f) = SumFunction(e) + f[n + 1]
<1> DEFINE e == [j \in 1 .. n |-> f[j]]
           g == CHOOSE g : Adds(g, f, 1 .. n + 1)
           h == CHOOSE h : Adds(h, e, 1 .. n)
<1>1. /\ IsFiniteSet(1 .. n) /\ IsFiniteSet(1 .. n + 1)
      /\ 1 .. n \subseteq 1 .. n + 1
      /\ (1 .. n + 1) \ {n + 1} = 1 .. n
  <2>1. IsFiniteSet(1 .. n) /\ IsFiniteSet(1 .. n + 1)
    BY FS_Interval
  <2> QED BY <2>1
<1>2. Adds(g, f, 1 .. n + 1) /\ Adds(h, e, 1 .. n)
  BY <1>1, AddsExists
<1>3. SumFunction(f) = g[1 .. n + 1] /\ SumFunction(e) = h[1 .. n]
  BY SumDef, DOMAIN f = 1 .. n + 1, DOMAIN e = 1 .. n
<1>4. /\ \A x \in 1 .. n : e[x] = f[x]
      /\ \A x \in 1 .. n : e[x] \in Int
      /\ \A x \in 1 .. n + 1 : f[x] \in Int
  BY <1>1
<1> HIDE DEF e, g, h
<1>5. g[1 .. n] = h[1 .. n]
  <2> DEFINE S == 1 .. n + 1
             T == 1 .. n
  <2>0. T \subseteq S /\ IsFiniteSet(T) /\ Adds(g, f, S) /\ Adds(h, e, T) /\ \A x \in T : e[x] = f[x]
    BY <1>1, <1>2, <1>4
  <2>1. \A s \in SUBSET T : g[s] = h[s]
    <3> HIDE DEF S, T
    <3> QED BY <2>0, AddsSame
  <2> QED BY <2>1
<1>6. g[1 .. n + 1] = f[n + 1] + g[1 .. n]
  <2> DEFINE S == 1 .. n + 1
  <2>a. IsFiniteSet(S)
    BY <1>1
  <2>b. Adds(g, f, S)
    BY <1>2
  <2>c. \A x \in S : f[x] \in Int
    OBVIOUS
  <2>d. n + 1 \in S
    OBVIOUS
  <2>1. g[S] = f[n + 1] + g[S \ {n + 1}]
    <3> HIDE DEF S
    <3> QED BY <2>a, <2>b, <2>c, <2>d, AddsAny
  <2> QED BY <1>1, <2>1
<1>7. h[1 .. n] \in Int
  BY <1>1, <1>2, <1>4, AddsType
<1>8. /\ SumFunction(e) \in Int
      /\ SumFunction(f) = SumFunction(e) + f[n + 1]
  BY <1>3, <1>5, <1>6, <1>7
<1> QED BY <1>8 DEF e

(* The sum of the first k terms of t. *)
Total(t, k) == SumFunction([j \in 1 .. k |-> t[j]])

LEMMA TotalZero == ASSUME NEW t PROVE Total(t, 0) = 0
<1> DEFINE e == [j \in 1 .. 0 |-> t[j]]
<1>1. DOMAIN e = {}
  OBVIOUS
<1> HIDE DEF e
<1>2. SumFunction(e) = 0
  BY <1>1, SumEmpty
<1> QED BY <1>2 DEF Total, e

LEMMA TotalNext ==
  ASSUME NEW N \in Nat, NEW t \in [1 .. N -> Int], NEW k \in Nat, k < N
  PROVE  /\ Total(t, k) \in Int
         /\ Total(t, k + 1) = Total(t, k) + t[k + 1]
<1> DEFINE f == [j \in 1 .. k + 1 |-> t[j]]
           e == [j \in 1 .. k |-> f[j]]
<1>1. f \in [1 .. k + 1 -> Int] /\ f[k + 1] = t[k + 1]
  OBVIOUS
<1>2. e = [j \in 1 .. k |-> t[j]]
  OBVIOUS
<1> HIDE DEF f
<1>3. SumFunction(e) \in Int /\ SumFunction(f) = SumFunction(e) + f[k + 1]
  BY <1>1, SumLast
<1> QED BY <1>1, <1>2, <1>3 DEF Total, f

LEMMA TotalType ==
  ASSUME NEW N \in Nat, NEW t \in [1 .. N -> Int], NEW k \in 0 .. N
  PROVE  Total(t, k) \in Int
<1>1. CASE k = 0
  BY <1>1, TotalZero
<1>2. CASE k # 0
  <2>1. PICK l \in Nat : k = l + 1
    <3>1. k - 1 \in Nat /\ k = (k - 1) + 1
      BY <1>2
    <3> QED BY <3>1
  <2>2. Total(t, l) \in Int /\ Total(t, l + 1) = Total(t, l) + t[l + 1]
    BY <2>1, TotalNext
  <2> QED BY <2>1, <2>2
<1> QED BY <1>1, <1>2

(* A sum of terms between 0 and b *)
LEMMA TotalBounds ==
  ASSUME NEW N \in Nat, NEW b \in Nat, NEW t \in [1 .. N -> 0 .. b]
  PROVE  Total(t, N) \in Int /\ 0 <= Total(t, N) /\ Total(t, N) <= b * N
<1> DEFINE Q == {i \in Nat : i <= N => 0 <= Total(t, i) /\ Total(t, i) <= b * i}
<1>a. t \in [1 .. N -> Int]
  OBVIOUS
<1>b. \A l \in Nat : l < N => Total(t, l) \in Int /\ Total(t, l + 1) = Total(t, l) + t[l + 1]
  BY <1>a, TotalNext
<1>1. 0 \in Q
  BY TotalZero
<1>2. ASSUME NEW i \in Nat, i \in Q PROVE i + 1 \in Q
  <2> SUFFICES ASSUME i + 1 <= N
               PROVE  0 <= Total(t, i + 1) /\ Total(t, i + 1) <= b * (i + 1)
    OBVIOUS
  <2>1. /\ Total(t, i) \in Int /\ Total(t, i + 1) = Total(t, i) + t[i + 1]
        /\ 0 <= Total(t, i) /\ Total(t, i) <= b * i
    BY <1>b, <1>2
  <2>2. t[i + 1] \in Int /\ 0 <= t[i + 1] /\ t[i + 1] <= b
    OBVIOUS
  <2>3. b * (i + 1) = b * i + b /\ b * i \in Int
    OBVIOUS
  <2> HIDE DEF Q
  <2> QED BY <2>1, <2>2, <2>3
<1>3. Nat \subseteq Q
  <2> HIDE DEF Q
  <2> QED BY <1>1, <1>2, NatSetInduction
<1>4. Total(t, N) \in Int
  BY <1>a, TotalType
<1> QED BY <1>3, <1>4

(* The sum of 0 .. n-1 *)
LEMMA TotalIndices ==
  ASSUME NEW n \in Nat
  PROVE  LET sum == SumFunction([j \in 1 .. n |-> j - 1]) IN
         sum \in Int /\ 2 * sum = n * (n - 1)
<1> DEFINE t == [j \in 1 .. n |-> j - 1]
           Q == {i \in Nat : i <= n => 2 * Total(t, i) = i * (i - 1)}
<1>a. t \in [1 .. n -> Int]
  OBVIOUS
<1>b. \A l \in Nat : l < n => Total(t, l) \in Int /\ Total(t, l + 1) = Total(t, l) + t[l + 1]
  <2> HIDE DEF t
  <2> QED BY <1>a, TotalNext
<1>c. \A l \in Nat : l < n => t[l + 1] = l
  OBVIOUS
<1>1. 0 \in Q
  BY TotalZero
<1> HIDE DEF t
<1>2. ASSUME NEW i \in Nat, i \in Q PROVE i + 1 \in Q
  <2> SUFFICES ASSUME i + 1 <= n PROVE 2 * Total(t, i + 1) = (i + 1) * ((i + 1) - 1)
    OBVIOUS
  <2>1. PICK s \in Int : s = Total(t, i)
    BY <1>b
  <2>2. Total(t, i + 1) = s + i /\ 2 * s = i * (i - 1)
    BY <1>b, <1>c, <1>2, <2>1
  <2> HIDE DEF Q
  <2> QED BY <2>2
<1>3. Nat \subseteq Q
  <2> HIDE DEF Q
  <2> QED BY <1>1, <1>2, NatSetInduction
<1>4. Total(t, n) \in Int /\ 2 * Total(t, n) = n * (n - 1)
  <2>1. n \in 0 .. n
    OBVIOUS
  <2>2. Total(t, n) \in Int
    BY <1>a, <2>1, TotalType
  <2> QED BY <1>3, <2>2
<1>5. Total(t, n) = SumFunction(t)
  <2>1. t = [j \in 1 .. n |-> t[j]]
    BY DEF t
  <2> QED BY <2>1 DEF Total
<1> QED BY <1>4, <1>5 DEF t

LEMMA Square ==
  ASSUME NEW y \in Int
  PROVE  y * y \in Int /\ y * y >= 0 /\ (y # 0 => y * y > 0)
OBVIOUS

(* The sum of the squared distances of t's terms to z *)
LEMMA Distances ==
  ASSUME NEW N \in Nat, NEW t \in [1 .. N -> Int], NEW tt \in [1 .. N -> Int],
         \A j \in 1 .. N : tt[j] = t[j] * t[j], NEW z \in Int, NEW k \in 0 .. N
  PROVE  /\ Total(tt, k) - 2 * (z * Total(t, k)) + k * (z * z) >= 0
         /\ (\E j \in 1 .. k : t[j] # z) =>
              Total(tt, k) - 2 * (z * Total(t, k)) + k * (z * z) > 0
<1> DEFINE E(i) == Total(tt, i) - 2 * (z * Total(t, i)) + i * (z * z)
           Q == {i \in Nat : i <= N => E(i) >= 0 /\ ((\E j \in 1 .. i : t[j] # z) => E(i) > 0)}
<1>a. \A l \in Nat : l < N => Total(t, l) \in Int /\ Total(t, l + 1) = Total(t, l) + t[l + 1]
  BY TotalNext
<1>b. \A l \in Nat : l < N => Total(tt, l) \in Int /\ Total(tt, l + 1) = Total(tt, l) + tt[l + 1]
  BY TotalNext
<1>1. 0 \in Q
  BY TotalZero
<1>2. ASSUME NEW i \in Nat, i \in Q PROVE i + 1 \in Q
  <2> SUFFICES ASSUME i + 1 <= N
               PROVE  E(i + 1) >= 0 /\ ((\E j \in 1 .. i + 1 : t[j] # z) => E(i + 1) > 0)
    OBVIOUS
  <2>1. PICK s \in Int : s = Total(t, i)
    BY <1>a
  <2>2. PICK ss \in Int : ss = Total(tt, i)
    BY <1>b
  <2>3. PICK x \in Int : x = t[i + 1]
    OBVIOUS
  <2>4. Total(t, i + 1) = s + x
    BY <2>1, <2>3, <1>a
  <2>5. Total(tt, i + 1) = ss + x * x
    <3>1. Total(tt, i + 1) = ss + tt[i + 1]
      BY <2>2, <1>b
    <3> QED BY <3>1, <2>3
  <2>6. E(i) = ss - 2 * (z * s) + i * (z * z) /\ E(i) >= 0
    BY <1>2, <2>1, <2>2
  <2>7. E(i + 1) = (ss + x * x) - 2 * (z * (s + x)) + (i + 1) * (z * z)
    BY <2>4, <2>5
  <2>8. E(i + 1) = E(i) + (x - z) * (x - z)
    <3> HIDE DEF E
    <3> QED BY <2>6, <2>7
  <2>9. PICK q \in Int : q = (x - z) * (x - z) /\ q >= 0 /\ (x # z => q > 0)
    <3>1. PICK y \in Int : y = x - z
      OBVIOUS
    <3>2. y * y \in Int /\ y * y >= 0 /\ (y # 0 => y * y > 0)
      BY Square
    <3> QED BY <3>1, <3>2
  <2>10. E(i) \in Int
    <3> HIDE DEF E
    <3> QED BY <2>6
  <2> HIDE DEF E, Q
  <2>11. E(i + 1) = E(i) + q
    BY <2>8, <2>9
  <2>12. q \in Int /\ q >= 0 /\ (x # z => q > 0)
    BY <2>9
  <2>13. E(i) \in Int /\ E(i) >= 0
    BY <2>6, <2>10
  <2>14. E(i + 1) >= 0 /\ (x # z \/ E(i) > 0 => E(i + 1) > 0)
    BY <2>11, <2>12, <2>13
  <2>15. (\E j \in 1 .. i : t[j] # z) => E(i) > 0
    BY <1>2 DEF Q
  <2>16. \A j \in 1 .. i + 1 : j \in 1 .. i \/ j = i + 1
    OBVIOUS
  <2> QED BY <2>3, <2>14, <2>15, <2>16
<1>3. Nat \subseteq Q
  <2> HIDE DEF Q
  <2> QED BY <1>1, <1>2, NatSetInduction
<1> QED BY <1>3

LEMMA LastOrBefore ==
  ASSUME NEW i \in Nat, NEW j \in 1 .. i + 1
  PROVE  j \in 1 .. i \/ j = i + 1
OBVIOUS

(* The squared sum of terms that are not all the same is less than their    *)
(* number times the sum of their squares. *)
LEMMA Spread ==
  ASSUME NEW N \in Nat, NEW t \in [1 .. N -> Int], NEW tt \in [1 .. N -> Int],
         \A j \in 1 .. N : tt[j] = t[j] * t[j],
         \E j \in 1 .. N : t[j] # t[1]
  PROVE  Total(t, N) * Total(t, N) - N * Total(tt, N) < 0
<1> DEFINE D(i) == Total(t, i) * Total(t, i) - i * Total(tt, i)
           Q == {i \in Nat : i <= N => D(i) <= 0 /\ ((\E j \in 1 .. i : t[j] # t[1]) => D(i) < 0)}
<1>a. \A l \in Nat : l < N => Total(t, l) \in Int /\ Total(t, l + 1) = Total(t, l) + t[l + 1]
  BY TotalNext
<1>b. \A l \in Nat : l < N => Total(tt, l) \in Int /\ Total(tt, l + 1) = Total(tt, l) + tt[l + 1]
  BY TotalNext
<1>1. 0 \in Q
  BY TotalZero
<1>2. ASSUME NEW i \in Nat, i \in Q PROVE i + 1 \in Q
  <2> SUFFICES ASSUME i + 1 <= N
               PROVE  D(i + 1) <= 0 /\ ((\E j \in 1 .. i + 1 : t[j] # t[1]) => D(i + 1) < 0)
    OBVIOUS
  <2>1. PICK s \in Int : s = Total(t, i)
    BY <1>a
  <2>2. PICK ss \in Int : ss = Total(tt, i)
    BY <1>b
  <2>3. PICK z \in Int : z = t[i + 1]
    OBVIOUS
  <2>4. Total(t, i + 1) = s + z
    BY <2>1, <2>3, <1>a
  <2>5. Total(tt, i + 1) = ss + z * z
    <3>1. Total(tt, i + 1) = ss + tt[i + 1]
      BY <2>2, <1>b
    <3> QED BY <3>1, <2>3
  <2>6. D(i) = s * s - i * ss /\ D(i) <= 0
    BY <1>2, <2>1, <2>2
  <2>7. D(i + 1) = (s + z) * (s + z) - (i + 1) * (ss + z * z)
    BY <2>4, <2>5
  <2>8. PICK E \in Int : E = ss - 2 * (z * s) + i * (z * z)
    OBVIOUS
  <2>9. D(i + 1) = D(i) - E
    <3> HIDE DEF D
    <3> QED BY <2>6, <2>7, <2>8
  <2>10. E >= 0 /\ ((\E j \in 1 .. i : t[j] # z) => E > 0)
    <3>1. i \in 0 .. N
      OBVIOUS
    <3>2. /\ Total(tt, i) - 2 * (z * Total(t, i)) + i * (z * z) >= 0
          /\ (\E j \in 1 .. i : t[j] # z) =>
               Total(tt, i) - 2 * (z * Total(t, i)) + i * (z * z) > 0
      BY <3>1, Distances
    <3> QED BY <3>2, <2>1, <2>2, <2>8
  <2>11. D(i) \in Int
    <3> HIDE DEF D
    <3> QED BY <2>6
  <2>12. (\E j \in 1 .. i : t[j] # t[1]) => D(i) < 0
    BY <1>2 DEF Q
  <2> HIDE DEF D, Q
  <2>13. (\E j \in 1 .. i + 1 : t[j] # t[1]) =>
           (\E j \in 1 .. i : t[j] # t[1]) \/ (\E j \in 1 .. i : t[j] # z)
    <3> SUFFICES ASSUME NEW j \in 1 .. i + 1, t[j] # t[1],
                        \A k \in 1 .. i : t[k] = t[1] /\ t[k] = z
                 PROVE  FALSE
      OBVIOUS
    <3>1. j = i + 1
      BY LastOrBefore
    <3>2. t[j] = z
      BY <3>1, <2>3
    <3>3. i = 0 \/ 1 \in 1 .. i
      BY SMT
    <3>4. CASE i = 0
      <4>1. j = 1
        BY <3>1, <3>4
      <4> QED BY <4>1
    <3>5. CASE 1 \in 1 .. i
      <4>1. t[1] = z
        BY <3>5
      <4> QED BY <4>1, <3>2
    <3> QED BY <3>3, <3>4, <3>5
  <2>14. D(i) \in Int /\ D(i) <= 0
    BY <2>6, <2>11
  <2>15. E \in Int /\ E >= 0
    BY <2>10
  <2>16. D(i + 1) <= 0 /\ (D(i) < 0 \/ E > 0 => D(i + 1) < 0)
    BY <2>9, <2>14, <2>15
  <2> QED BY <2>10, <2>12, <2>13, <2>16
<1>3. Nat \subseteq Q
  <2> HIDE DEF Q
  <2> QED BY <1>1, <1>2, NatSetInduction
<1> QED BY <1>3

(* ... and equal to it if they are all the same *)
LEMMA NoSpread ==
  ASSUME NEW N \in Nat, NEW t \in [1 .. N -> Int], NEW tt \in [1 .. N -> Int],
         \A j \in 1 .. N : tt[j] = t[j] * t[j],
         NEW c \in Int, \A j \in 1 .. N : t[j] = c
  PROVE  Total(t, N) * Total(t, N) - N * Total(tt, N) = 0
<1> DEFINE Q == {i \in Nat : i <= N => Total(t, i) = i * c /\ Total(tt, i) = i * (c * c)}
<1>a. \A l \in Nat : l < N => Total(t, l) \in Int /\ Total(t, l + 1) = Total(t, l) + t[l + 1]
  BY TotalNext
<1>b. \A l \in Nat : l < N => Total(tt, l) \in Int /\ Total(tt, l + 1) = Total(tt, l) + tt[l + 1]
  BY TotalNext
<1>1. 0 \in Q
  BY TotalZero
<1>2. ASSUME NEW i \in Nat, i \in Q PROVE i + 1 \in Q
  <2> SUFFICES ASSUME i + 1 <= N
               PROVE  /\ Total(t, i + 1) = (i + 1) * c
                      /\ Total(tt, i + 1) = (i + 1) * (c * c)
    OBVIOUS
  <2>1. PICK cc \in Int : cc = c * c
    OBVIOUS
  <2>2. Total(t, i + 1) = i * c + c
    BY <1>2, <1>a
  <2>3. Total(tt, i + 1) = i * cc + cc
    BY <1>2, <1>b, <2>1
  <2> HIDE DEF Q
  <2>4. (i + 1) * c = i * c + c /\ (i + 1) * cc = i * cc + cc
    OBVIOUS
  <2> QED BY <2>1, <2>2, <2>3, <2>4
<1>3. Nat \subseteq Q
  <2> HIDE DEF Q
  <2> QED BY <1>1, <1>2, NatSetInduction
<1>4. Total(t, N) = N * c /\ Total(tt, N) = N * (c * c)
  BY <1>3
<1>5. (N * c) * (N * c) = N * (N * (c * c))
  OBVIOUS
<1>6. N * (N * (c * c)) \in Int
  OBVIOUS
<1> QED BY <1>4, <1>5, <1>6

-----------------------------------------------------------------------------
LEMMA MultiplyMonotone ==
  ASSUME NEW x \in Int, NEW y \in Int, NEW c \in Nat, x <= y
  PROVE  x * c <= y * c
OBVIOUS

(* Division without a remainder in sight *)
LEMMA DivAtLeast ==
  ASSUME NEW a \in Nat, NEW b \in Nat \ {0}, NEW c \in Int
  PROVE  /\ a \div b \in Nat
         /\ c >= 0 => (a \div b >= c <=> a >= c * b)
<1> DEFINE d == a \div b
           r == a % b
<1>1. d \in Int /\ r \in 0 .. b - 1 /\ a = b * d + r
  OBVIOUS
<1> HIDE DEF d, r
<1>2. d \in Nat
  <2> SUFFICES ASSUME d <= -1 PROVE FALSE
    BY <1>1
  <2>1. d * b <= (-1) * b
    BY <1>1, MultiplyMonotone
  <2> QED BY <1>1, <2>1
<1>3. ASSUME c >= 0, d >= c PROVE a >= c * b
  <2>1. c * b <= d * b
    BY <1>1, <1>3, MultiplyMonotone
  <2> QED BY <1>1, <2>1
<1>4. ASSUME c >= 0, ~(d >= c) PROVE ~(a >= c * b)
  <2>1. (d + 1) * b <= c * b
    BY <1>1, <1>4, MultiplyMonotone
  <2>2. (d + 1) * b = b * d + b
    BY <1>1
  <2> QED BY <1>1, <2>1, <2>2
<1> QED BY <1>2, <1>3, <1>4 DEF d

(* Quotient cuts the fraction towards zero. *)
LEMMA QuotientCuts ==
  ASSUME NEW p \in Int, NEW q \in Int \ {0}, NEW k \in Int
  PROVE  /\ Quotient(p, q) \in Int
         /\ Quotient(p, q) >= k <=> CutAtLeast([num |-> p, den |-> q], k)
<1> DEFINE a == IF p < 0 THEN -p ELSE p
           b == IF q < 0 THEN -q ELSE q
           d == a \div b
<1>1. a \in Nat /\ b \in Nat \ {0}
  OBVIOUS
<1>2. Quotient(p, q) = IF (p < 0) = (q < 0) THEN d ELSE -d
  BY DEF Quotient
<1>3. PICK c \in Nat : c = IF k > 0 THEN k ELSE 1 - k
  OBVIOUS
<1>4. d \in Nat /\ (d >= c <=> a >= c * b)
  <2> HIDE DEF a, b
  <2> QED BY <1>1, DivAtLeast
<1>5. AtLeast([num |-> p, den |-> q], k) <=> IF q > 0 THEN p >= k * q ELSE p <= k * q
  BY DEF AtLeast
<1>6. Above([num |-> p, den |-> q], k - 1) <=> IF q > 0 THEN p > (k - 1) * q ELSE p < (k - 1) * q
  BY DEF Above
<1>7. CutAtLeast([num |-> p, den |-> q], k) <=>
        IF k > 0 THEN IF q > 0 THEN p >= k * q ELSE p <= k * q
                 ELSE IF q > 0 THEN p > (k - 1) * q ELSE p < (k - 1) * q
  BY <1>5, <1>6 DEF CutAtLeast
<1> HIDE DEF d
(* With p and q of the same sign the quotient is d, of different signs -d.  *)
<1>8. CASE (p < 0) = (q < 0)
  <2>1. Quotient(p, q) = d
    BY <1>2, <1>8
  <2>2. CASE k > 0
    <3>1. c = k /\ (a >= k * b <=> IF q > 0 THEN p >= k * q ELSE p <= k * q)
      BY <1>3, <1>8, <2>2
    <3> QED BY <1>4, <1>7, <2>1, <2>2, <3>1
  <2>3. CASE k <= 0
    <3>1. PICK l \in Nat : l = -k
      BY <2>3
    <3>2. PICK t \in Int : t = (k - 1) * q
      OBVIOUS
    <3>3. t = -(l * q) - q /\ l * b >= 0
      BY <1>1, <3>1, <3>2
    <3>4. IF q > 0 THEN p > t ELSE p < t
      BY <1>8, <3>3
    <3> QED BY <1>4, <1>7, <2>1, <2>3, <3>2, <3>4
  <2> QED BY <2>2, <2>3
<1>9. CASE (p < 0) # (q < 0)
  <2>1. Quotient(p, q) = -d
    BY <1>2, <1>9
  <2>2. CASE k > 0
    <3>1. k * b > 0
      BY <1>1, <2>2
    <3>2. ~(IF q > 0 THEN p >= k * q ELSE p <= k * q)
      BY <3>1, <1>9
    <3> QED BY <1>4, <1>7, <2>1, <2>2, <3>2
  <2>3. CASE k <= 0
    <3>1. c = 1 - k /\ (c * b = IF q > 0 THEN -((k - 1) * q) ELSE (k - 1) * q)
      BY <1>3, <2>3
    <3>2. (a >= c * b) <=> ~(IF q > 0 THEN p > (k - 1) * q ELSE p < (k - 1) * q)
      BY <3>1, <1>9
    <3>3. -d >= k <=> ~(d >= c)
      BY <1>4, <3>1
    <3> QED BY <1>4, <1>7, <2>1, <2>3, <3>2, <3>3
  <2> QED BY <2>2, <2>3
<1> QED BY <1>8, <1>9
=============================================================================
