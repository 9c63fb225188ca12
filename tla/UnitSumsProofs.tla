--------------------------- MODULE UnitSumsProofs ---------------------------
(***************************************************************************)
(* Facts about sums, each proved from the size of the set of their units.  *)
(* The functions summed are arbitrary: only their values on the set summed *)
(* over matter.                                                            *)
(***************************************************************************)
EXTENDS UnitSums, FiniteSetTheorems, WellFoundedInduction, TLAPS

\* A number has as many units as it says.
LEMMA OneRow ==
  ASSUME NEW x, NEW n \in Nat
  PROVE  IsFiniteSet({x} \X (1..n)) /\ Cardinality({x} \X (1..n)) = n
<1>1. IsFiniteSet({x}) /\ Cardinality({x}) = 1
  BY FS_Singleton
<1>2. IsFiniteSet(1..n) /\ Cardinality(1..n) = n
  BY FS_Interval
<1>3. Cardinality({x} \X (1..n)) = 1 * n
  BY <1>1, <1>2, FS_Product
<1> QED BY <1>1, <1>2, <1>3, FS_Product

\* The sum over nothing.
LEMMA EmptySum ==
  ASSUME NEW f
  PROVE  Units(f, {}) = {} /\ IsFiniteSet(Units(f, {})) /\ Total(f, {}) = 0
BY FS_EmptySet DEF Units, Total

\* A sum is a natural number.
LEMMA SumIsNat ==
  ASSUME NEW f, NEW S, IsFiniteSet(Units(f, S))
  PROVE  Total(f, S) \in Nat
BY FS_CardinalityType DEF Total

\* Two functions that agree on a set have the same sum over it.
LEMMA SameSum ==
  ASSUME NEW f, NEW g, NEW S, \A x \in S : f[x] = g[x]
  PROVE  Units(f, S) = Units(g, S) /\ Total(f, S) = Total(g, S)
<1>1. Units(f, S) = Units(g, S)
  BY DEF Units
<1> QED BY <1>1 DEF Total

\* Summing over one more element.
LEMMA SumWithOneMore ==
  ASSUME NEW f, NEW S, NEW x, x \notin S, f[x] \in Nat,
         IsFiniteSet(Units(f, S))
  PROVE  /\ IsFiniteSet(Units(f, S \cup {x}))
         /\ Total(f, S \cup {x}) = Total(f, S) + f[x]
<1> DEFINE row == {x} \X (1..f[x])
<1>1. Units(f, S \cup {x}) = Units(f, S) \cup row
  BY DEF Units
<1>2. Units(f, S) \cap row = {}
  BY DEF Units
<1>3. IsFiniteSet(row) /\ Cardinality(row) = f[x]
  BY OneRow
<1>4. /\ Cardinality(Units(f, S) \cap row) = 0
      /\ Cardinality(Units(f, S)) \in Nat
  <2>1. Cardinality(Units(f, S) \cap row) = 0
    BY <1>2, FS_EmptySet, Zenon
  <2> QED BY <2>1, FS_CardinalityType
<1> HIDE DEF row
<1>5. /\ IsFiniteSet(Units(f, S) \cup row)
      /\ Cardinality(Units(f, S) \cup row) =
           Cardinality(Units(f, S)) + Cardinality(row)
             - Cardinality(Units(f, S) \cap row)
  BY <1>3, FS_Union
<1>6. Cardinality(Units(f, S) \cup row) = Cardinality(Units(f, S)) + f[x]
  BY <1>3, <1>4, <1>5
<1> QED BY <1>1, <1>5, <1>6 DEF Total

\* A sum over fewer elements, and of smaller numbers, is smaller.
LEMMA SmallerSum ==
  ASSUME NEW f, NEW g, NEW S, NEW T, T \subseteq S,
         IsFiniteSet(Units(g, S)), \A x \in T : f[x] \in Int /\ g[x] \in Int,
         \A x \in T : f[x] <= g[x]
  PROVE  IsFiniteSet(Units(f, T)) /\ Total(f, T) <= Total(g, S)
<1>1. Units(f, T) \subseteq Units(g, S)
  <2> SUFFICES ASSUME NEW x \in T, NEW u \in {x} \X (1..f[x])
               PROVE  u \in Units(g, S)
    BY DEF Units
  <2>1. u \in {x} \X (1..g[x])
    OBVIOUS
  <2> QED BY <2>1 DEF Units
<1> QED BY <1>1, FS_Subset DEF Total

\* One of the numbers summed changes.
LEMMA SumAfterChange ==
  ASSUME NEW f, NEW g, NEW S, NEW x \in S, f[x] \in Nat, g[x] \in Nat,
         \A y \in S \ {x} : f[y] = g[y], IsFiniteSet(Units(f, S))
  PROVE  /\ IsFiniteSet(Units(g, S))
         /\ Total(g, S) = Total(f, S) - f[x] + g[x]
         /\ f[x] <= Total(f, S)
<1> DEFINE R == S \ {x}
<1>1. S = R \cup {x} /\ x \notin R
  OBVIOUS
<1>2. Units(f, R) = Units(g, R) /\ Total(f, R) = Total(g, R)
  BY SameSum
<1>3. IsFiniteSet(Units(f, R))
  <2>1. Units(f, R) \subseteq Units(f, S)
    BY DEF Units
  <2> QED BY <2>1, FS_Subset
<1>4. Total(f, R) \in Nat
  BY <1>3, SumIsNat
<1> HIDE DEF R
<1>5. Total(f, R \cup {x}) = Total(f, R) + f[x]
  BY <1>1, <1>3, SumWithOneMore
<1>6. /\ IsFiniteSet(Units(g, R \cup {x}))
      /\ Total(g, R \cup {x}) = Total(g, R) + g[x]
  BY <1>1, <1>2, <1>3, SumWithOneMore
<1> QED BY <1>1, <1>2, <1>4, <1>5, <1>6

\* Finitely many numbers have a sum.
LEMMA SumOverFinite ==
  ASSUME NEW f, NEW S, IsFiniteSet(S), NEW n \in Int,
         \A x \in S : f[x] \in Int /\ f[x] <= n
  PROVE  IsFiniteSet(Units(f, S))
<1>1. Units(f, S) \subseteq S \X (1..n)
  BY DEF Units
<1>2. IsFiniteSet(1..n)
  BY FS_Interval
<1>3. IsFiniteSet(S \X (1..n))
  BY <1>2, FS_Product
<1> QED BY <1>1, <1>3, FS_Subset

-----------------------------------------------------------------------------
(* Sums over the positions of a list.                                      *)

\* A set of natural numbers that is not empty has a least element.  With it a
\* fact about every prefix of a list is proved from its shortest exception.
LEMMA LeastNumber ==
  ASSUME NEW T \in SUBSET Nat, T # {}
  PROVE  \E m \in T : \A n \in T : m <= n
<1> DEFINE R == StrictSubsetOrdering(Nat)
           U == {1..n : n \in T}
<1>1. IsWellFoundedOn(R, FiniteSubsetsOf(Nat))
  BY FS_StrictSubsetOrderingWellFounded
<1>2. U \subseteq FiniteSubsetsOf(Nat)
  BY FS_Interval DEF FiniteSubsetsOf
<1>3. U # {}
  OBVIOUS
<1> HIDE DEF U, R
<1>4. \E x \in U : \A y \in U : ~ (<<y, x>> \in R)
  BY <1>1, <1>2, <1>3, WFMin
<1> USE DEF U, R
<1>5. PICK m \in T : \A n \in T : ~ (<<1..n, 1..m>> \in R)
  BY <1>4
<1>6. \A n \in T : m <= n
  <2> SUFFICES ASSUME NEW n \in T, n < m PROVE FALSE
    OBVIOUS
  <2>1. 1..n \subseteq 1..m /\ m \in 1..m /\ m \notin 1..n
    OBVIOUS
  <2>2. <<1..n, 1..m>> \in R
    BY <2>1 DEF StrictSubsetOrdering
  <2> QED BY <2>2, <1>5
<1> QED BY <1>6

\* A ratio that bounds each pair of numbers bounds their sums.
LEMMA RatioOfSums ==
  ASSUME NEW n \in Nat, NEW f, NEW g, NEW d \in Nat, NEW m \in Nat,
         \A i \in 1..n : f[i] \in Nat /\ g[i] \in Nat /\ f[i] * d <= m * g[i],
         IsFiniteSet(Units(f, 1..n)), IsFiniteSet(Units(g, 1..n))
  PROVE  Total(f, 1..n) * d <= m * Total(g, 1..n)
<1> DEFINE Holds(k) == Total(f, 1..k) * d <= m * Total(g, 1..k)
           T == {k \in 0..n : ~Holds(k)}
<1> SUFFICES ASSUME T # {} PROVE FALSE
  OBVIOUS
<1>1. PICK k \in T : \A j \in T : k <= j
  <2>1. T \in SUBSET Nat
    OBVIOUS
  <2> HIDE DEF T
  <2> QED BY <2>1, LeastNumber
<1>2. k # 0
  <2>1. Total(f, {}) = 0 /\ Total(g, {}) = 0 /\ 1..0 = {}
    BY EmptySum
  <2>2. Holds(0)
    BY <2>1
  <2> QED BY <2>2
<1>3. k \in 1..n /\ k - 1 \in 0..n /\ k \in Nat
  BY <1>2
<1>4. Holds(k - 1)
  BY <1>1, <1>3
<1> DEFINE before == 1 .. k - 1
<1>5. 1..k = before \cup {k} /\ k \notin before /\ before \subseteq 1..n
  BY <1>3
<1> HIDE DEF before
<1>6. IsFiniteSet(Units(f, before)) /\ IsFiniteSet(Units(g, before))
  <2>1. /\ Units(f, before) \subseteq Units(f, 1..n)
        /\ Units(g, before) \subseteq Units(g, 1..n)
    BY <1>5 DEF Units
  <2> QED BY <2>1, FS_Subset
<1>7. f[k] \in Nat /\ g[k] \in Nat /\ f[k] * d <= m * g[k]
  BY <1>3
<1> DEFINE a == Total(f, before)
           b == Total(g, before)
<1>8. a \in Nat /\ b \in Nat
  BY <1>6, SumIsNat
<1>9. Total(f, 1..k) = a + f[k] /\ Total(g, 1..k) = b + g[k]
  BY <1>5, <1>6, <1>7, SumWithOneMore
<1>10. a * d <= m * b
  BY <1>4 DEF before
<1> DEFINE x == f[k]
           y == g[k]
<1> HIDE DEF a, b
<1>11. (a + x) * d <= m * (b + y)
  <2>1. \A p, q, u, v \in Nat : p * d <= m * u /\ q * d <= m * v
           => (p + q) * d <= m * (u + v)
    OBVIOUS
  <2>2. x \in Nat /\ y \in Nat /\ x * d <= m * y
    BY <1>7
  <2> HIDE DEF x, y
  <2> QED BY <1>8, <1>10, <2>1, <2>2
<1> QED BY <1>1, <1>9, <1>11
=============================================================================
