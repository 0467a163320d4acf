------------------------- MODULE NodeRegistryProofs -------------------------
(***************************************************************************)
(* Proofs about NodeRegistry, for any builders, options and addresses.     *)
(* Induction over numbers goes through sets: a set of naturals that is not *)
(* empty has a least element.                                              *)
(***************************************************************************)
EXTENDS NodeRegistry, FiniteSetTheorems, WellFoundedInduction, TLAPS

\* The prover of every leaf that names no other.
USE Zenon

-----------------------------------------------------------------------------
(* Sets of numbers and sorted sequences *)

\* A function of the places 1..n is a sequence.
LEMMA FunctionIsSequence ==
    ASSUME NEW S, NEW n \in Nat, NEW f \in [1..n -> S]
    PROVE  f \in Seq(S)
BY SMT

\* A set of naturals has a least element.
LEMMA Least ==
    ASSUME NEW S \in SUBSET Nat, S # {}
    PROVE  \E x \in S : \A y \in S : x <= y
<1>1. PICK x \in S : \A y \in S : ~(<<y, x>> \in OpToRel(<, Nat))
  BY WFMin, NatLessThanWellFounded
<1>2. ASSUME NEW y \in S PROVE x <= y
  <2>1. ~(y < x)
    BY <1>1 DEF OpToRel
  <2> QED BY <2>1, SMT
<1> QED BY <1>2

\* A set that has 0 and with each number the next one has them all.
LEMMA SetInduction ==
    ASSUME NEW T, 0 \in T, \A n \in Nat : n \in T => n + 1 \in T
    PROVE  Nat \subseteq T
<1> DEFINE Rest == Nat \ T
<1>1. SUFFICES ASSUME Rest # {} PROVE FALSE
  OBVIOUS
<1>2. PICK x \in Rest : \A y \in Rest : x <= y
  BY <1>1, Least
<1>3. x # 0 /\ x - 1 \in Nat
  BY <1>2, SMT
<1>4. x - 1 \notin Rest
  BY <1>2, <1>3, SMT
<1>5. (x - 1) + 1 \in T
  BY <1>3, <1>4
<1> QED BY <1>2, <1>5, SMT

\* Finitely many naturals have a bound.
LEMMA Bounded ==
    ASSUME NEW n \in Nat, NEW f \in [1..n -> Nat]
    PROVE  \E b \in Nat : \A i \in 1..n : f[i] <= b
<1> DEFINE T == {k \in Nat : \E b \in Nat : \A i \in 1..n : i <= k => f[i] <= b}
<1>1. 0 \in T
  BY SMT
<1>2. ASSUME NEW k \in Nat, k \in T PROVE k + 1 \in T
  <2>1. PICK b \in Nat : \A i \in 1..n : i <= k => f[i] <= b
    BY <1>2
  <2>2. CASE k + 1 \in 1..n
    <3> DEFINE c == IF f[k + 1] <= b THEN b ELSE f[k + 1]
    <3>1. c \in Nat /\ b <= c /\ f[k + 1] <= c
      BY <2>2, SMT
    <3>2. ASSUME NEW i \in 1..n, i <= k + 1 PROVE f[i] <= c
      <4>1. CASE i = k + 1
        BY <4>1, <3>1
      <4>2. CASE i <= k
        BY <4>2, <2>1, <3>1, SMT
      <4> QED BY <4>1, <4>2, <3>2, SMT
    <3> HIDE DEF c
    <3> QED BY <3>1, <3>2, SMT
  <2>3. CASE k + 1 \notin 1..n
    <3>1. \A i \in 1..n : i <= k + 1 => i <= k
      BY <2>3, SMT
    <3>2. \A i \in 1..n : i <= k + 1 => f[i] <= b
      BY <2>1, <3>1
    <3> QED BY <3>2, SMT
  <2> QED BY <2>2, <2>3
<1>3. n \in T
  <2>1. \A k \in Nat : k \in T => k + 1 \in T
    BY <1>2
  <2> HIDE DEF T
  <2>2. Nat \subseteq T
    BY <1>1, <2>1, SetInduction
  <2> QED BY <2>2
<1> QED BY <1>3, SMT

\* Max finds the largest element of a finite set of naturals.
LEMMA MaxOf ==
    ASSUME NEW S \in SUBSET Nat, S # {}, IsFiniteSet(S)
    PROVE  Max(S) \in S /\ \A y \in S : y <= Max(S)
<1>1. PICK n \in Nat : ExistsSurjection(1..n, S)
  BY FS_NatSurjection
<1>2. PICK f \in [1..n -> S] : \A y \in S : \E i \in 1..n : f[i] = y
  BY <1>1 DEF ExistsSurjection, Surjection
<1>3. f \in [1..n -> Nat]
  BY <1>2
<1>4. PICK b \in Nat : \A i \in 1..n : f[i] <= b
  BY <1>3, Bounded
<1> DEFINE U == {u \in Nat : \A y \in S : y <= u}
<1>5. b \in U
  BY <1>2, <1>4
<1>6. PICK m \in U : \A u \in U : m <= u
  BY <1>5, Least
<1>7. m \in S
  <2> SUFFICES ASSUME m \notin S PROVE FALSE
    OBVIOUS
  <2>1. \A y \in S : y < m
    BY <1>6, SMT
  <2>2. PICK z \in S : z \in Nat
    OBVIOUS
  <2>a. z < m
    BY <2>1
  <2>3. m - 1 \in Nat /\ \A y \in S : y <= m - 1
    BY <2>1, <2>a, <1>6, SMT
  <2>4. m <= m - 1
    BY <2>3, <1>6
  <2> QED BY <2>4, <2>3, SMT
<1>8. \A y \in S : m >= y
  BY <1>6
<1>9. \A y \in S : Max(S) >= y /\ Max(S) \in S
  BY <1>7, <1>8 DEF Max
<1> QED BY <1>7, <1>9

\* A finite set can be sorted by a function that tells its elements apart.
LEMMA SortExists ==
    ASSUME NEW S, IsFiniteSet(S), NEW f \in [S -> Nat],
           \A x, y \in S : f[x] = f[y] => x = y
    PROVE  \E s \in [1..Cardinality(S) -> S] :
               \A i, j \in 1..Cardinality(S) : i < j => f[s[i]] < f[s[j]]
<1> DEFINE n == Cardinality(S)
           Up(k, s) == \A i, j \in 1..k : i < j => f[s[i]] < f[s[j]]
           Left(k, s) == {x \in S : \A i \in 1..k : s[i] # x}
           Low(k, s) == \A x \in Left(k, s) : \A i \in 1..k : f[s[i]] < f[x]
           T == {k \in Nat : k <= n => \E s \in [1..k -> S] : Up(k, s) /\ Low(k, s)}
<1>n. n \in Nat
  BY FS_CardinalityType
<1>1. 0 \in T
  <2> DEFINE s == [i \in 1..0 |-> i]
  <2>1. s \in [1..0 -> S] /\ Up(0, s) /\ Low(0, s)
    BY SMT
  <2> HIDE DEF s, Up, Low
  <2> QED BY <2>1
<1>2. ASSUME NEW k \in Nat, k \in T, k + 1 <= n
      PROVE  \E s \in [1..k + 1 -> S] : Up(k + 1, s) /\ Low(k + 1, s)
  <2>1. PICK s \in [1..k -> S] : Up(k, s) /\ Low(k, s)
    BY <1>2, <1>n, SMTT(60)
  <2>2. Left(k, s) # {}
    <3> SUFFICES ASSUME Left(k, s) = {} PROVE FALSE
      OBVIOUS
    <3>1. \A x \in S : \E i \in 1..k : s[i] = x
      OBVIOUS
    <3>2. s \in Surjection(1..k, S)
      BY <3>1 DEF Surjection
    <3>3. Cardinality(S) <= k
      BY <3>2, FS_SurjCardinalityBound DEF ExistsSurjection
    <3> QED BY <3>3, <1>2, <1>n, SMT
  <2> DEFINE V == {f[x] : x \in Left(k, s)}
  <2>3. V \in SUBSET Nat /\ V # {}
    BY <2>2, SMT
  <2>4. PICK v \in V : \A w \in V : v <= w
    BY <2>3, Least
  <2>5. PICK x \in Left(k, s) : f[x] = v
    BY <2>4
  <2>6. x \in S /\ (\A i \in 1..k : s[i] # x) /\ f[x] \in Nat
    BY <2>5
  <2>7. \A y \in Left(k, s) : f[x] <= f[y]
    BY <2>4, <2>5, SMT
  <2>8. \A i \in 1..k : f[s[i]] < f[x]
    BY <2>1, <2>5
  <2> DEFINE t == [i \in 1..k + 1 |-> IF i = k + 1 THEN x ELSE s[i]]
  <2>9. /\ t \in [1..k + 1 -> S] /\ t[k + 1] = x
        /\ \A i \in 1..k : t[i] = s[i] /\ i \in 1..k + 1
    BY <2>6, SMT
  <2>10. \A i \in 1..k + 1 : i \in 1..k \/ i = k + 1
    BY SMT
  <2> HIDE DEF t
  <2>11. Up(k + 1, t)
    <3> SUFFICES ASSUME NEW i \in 1..k + 1, NEW j \in 1..k + 1, i < j
                 PROVE  f[t[i]] < f[t[j]]
      OBVIOUS
    <3>1. i \in 1..k
      BY <2>10, SMT
    <3>2. CASE j = k + 1
      BY <3>1, <3>2, <2>8, <2>9
    <3>3. CASE j \in 1..k
      BY <3>1, <3>3, <2>1, <2>9
    <3> QED BY <3>2, <3>3, <2>10
  <2>12. Low(k + 1, t)
    <3> SUFFICES ASSUME NEW y \in Left(k + 1, t), NEW i \in 1..k + 1
                 PROVE  f[t[i]] < f[y]
      OBVIOUS
    <3>0. k + 1 \in 1..k + 1
      BY SMT
    <3>1. y \in S /\ y # x /\ \A h \in 1..k : s[h] # y
      BY <2>9, <3>0
    <3>2. y \in Left(k, s)
      BY <3>1
    <3>3. f[y] \in Nat /\ f[x] <= f[y] /\ f[x] # f[y]
      BY <3>1, <3>2, <2>6, <2>7
    <3>4. CASE i = k + 1
      BY <3>3, <3>4, <2>6, <2>9, SMT
    <3>5. CASE i \in 1..k
      BY <3>2, <3>5, <2>1, <2>9
    <3> QED BY <3>4, <3>5, <2>10
  <2> HIDE DEF Up, Low
  <2> QED BY <2>9, <2>11, <2>12
<1>3. n \in T
  <2>1. \A k \in Nat : k \in T => k + 1 \in T
    <3> SUFFICES ASSUME NEW k \in Nat, k \in T PROVE k + 1 \in T
      OBVIOUS
    <3>1. k + 1 <= n => \E s \in [1..k + 1 -> S] : Up(k + 1, s) /\ Low(k + 1, s)
      BY <1>2
    <3> HIDE DEF Up, Low
    <3> QED BY <3>1, SMT
  <2> HIDE DEF T
  <2>2. Nat \subseteq T
    BY <1>1, <2>1, SetInduction
  <2> QED BY <2>2, <1>n
<1>4. PICK s \in [1..n -> S] : Up(n, s)
  <2> HIDE DEF Up, Low
  <2> QED BY <1>3, <1>n, SMT
<1> QED BY <1>4

\* A strictly sorted sequence as long as its set is large has every element.
LEMMA SortCovers ==
    ASSUME NEW S, IsFiniteSet(S), NEW f \in [S -> Nat],
           NEW s \in [1..Cardinality(S) -> S],
           \A i, j \in 1..Cardinality(S) : i < j => f[s[i]] < f[s[j]]
    PROVE  \A x \in S : \E i \in 1..Cardinality(S) : s[i] = x
<1> DEFINE n == Cardinality(S)
<1>1. n \in Nat
  BY FS_CardinalityType
<1>2. ASSUME NEW i \in 1..n, NEW j \in 1..n, s[i] = s[j] PROVE i = j
  <2>1. ~(i < j) /\ ~(j < i)
    BY <1>2, SMT
  <2> QED BY <2>1, <1>1, SMT
<1>3. s \in Injection(1..n, S)
  BY <1>2 DEF Injection, IsInjective
<1>4. Cardinality(1..n) = n
  BY <1>1, FS_Interval, SMT
<1>5. s \in Surjection(1..n, S)
  BY <1>3, <1>4, FS_Injection
<1> QED BY <1>5 DEF Surjection

\* f increases strictly over its n places; every value of a is one of b.
Rising(n, f) == \A i, j \in 1..n : i < j => f[i] < f[j]
Within(n, a, m, b) == \A i \in 1..n : \E j \in 1..m : b[j] = a[i]

\* In a strictly increasing sequence the order of places is that of values.
LEMMA IncreasingOrder ==
    ASSUME NEW n \in Nat, NEW a \in [1..n -> Nat], Rising(n, a),
           NEW i \in 1..n, NEW j \in 1..n, a[i] < a[j]
    PROVE  i < j
<1>1. i # j
  BY SMT
<1>2. ~(j < i)
  <2> SUFFICES ASSUME j < i PROVE FALSE
    OBVIOUS
  <2>1. a[j] < a[i] /\ a[i] \in Nat /\ a[j] \in Nat
    BY DEF Rising
  <2> QED BY <2>1, SMT
<1> QED BY <1>1, <1>2, SMT

\* The places of a strictly increasing sequence have different values.
LEMMA RisingInjective ==
    ASSUME NEW n \in Nat, NEW a \in [1..n -> Nat], Rising(n, a)
    PROVE  \A i, j \in 1..n : a[i] = a[j] => i = j
<1> SUFFICES ASSUME NEW i \in 1..n, NEW j \in 1..n, a[i] = a[j] PROVE i = j
  OBVIOUS
<1>1. ~(i < j) /\ ~(j < i)
  BY SMT DEF Rising
<1> QED BY <1>1, SMT

\* The first place where two increasing sequences of the same values differ
\* is not one where the first has the smaller value.
LEMMA NotSmaller ==
    ASSUME NEW n \in Nat, NEW a \in [1..n -> Nat], NEW b \in [1..n -> Nat],
           Rising(n, a), Rising(n, b), Within(n, a, n, b),
           NEW x \in 1..n, \A y \in 1..n : y < x => a[y] = b[y]
    PROVE  ~(a[x] < b[x])
<1> SUFFICES ASSUME a[x] < b[x] PROVE FALSE
  OBVIOUS
<1>1. PICK j \in 1..n : b[j] = a[x]
  BY DEF Within
<1>2. b[j] < b[x]
  BY <1>1
<1>3. j < x
  BY <1>2, IncreasingOrder
<1>4. a[j] = b[j] /\ a[j] < a[x]
  BY <1>3 DEF Rising
<1>5. a[j] \in Nat /\ a[x] \in Nat /\ a[j] = a[x]
  BY <1>1, <1>4
<1> QED BY <1>4, <1>5, SMT

\* Increasing sequences of the same values are the same.
LEMMA SortUnique ==
    ASSUME NEW n \in Nat, NEW m \in Nat, NEW a \in [1..n -> Nat], NEW b \in [1..m -> Nat],
           Rising(n, a), Rising(m, b), Within(n, a, m, b), Within(m, b, n, a)
    PROVE  n = m /\ \A i \in 1..n : a[i] = b[i]
<1> DEFINE R == {a[i] : i \in 1..n}
<1>1. \A i, j \in 1..n : a[i] = a[j] => i = j
  BY RisingInjective
<1>2. \A i, j \in 1..m : b[i] = b[j] => i = j
  BY RisingInjective
<1>3. Cardinality(R) = n
  <2>1. a \in Bijection(1..n, R)
    BY <1>1 DEF Bijection, Injection, Surjection, IsInjective
  <2> QED BY <2>1, FS_CountingElements DEF ExistsBijection
<1>4. Cardinality(R) = m
  <2>1. b \in [1..m -> R] /\ \A r \in R : \E j \in 1..m : b[j] = r
    BY SMT DEF Within
  <2>2. b \in Bijection(1..m, R)
    <3> HIDE DEF R
    <3> QED BY <1>2, <2>1 DEF Bijection, Injection, Surjection, IsInjective
  <2> QED BY <2>2, FS_CountingElements DEF ExistsBijection
<1>5. n = m
  BY <1>3, <1>4
<1> DEFINE D == {i \in 1..n : a[i] # b[i]}
<1>6. D = {}
  <2> SUFFICES ASSUME D # {} PROVE FALSE
    OBVIOUS
  <2>1. D \in SUBSET Nat
    BY SMT
  <2>2. PICK x \in D : \A y \in D : x <= y
    BY <2>1, Least
  <2>3. x \in 1..n /\ a[x] # b[x] /\ \A y \in 1..n : y < x => a[y] = b[y]
    BY <2>2, SMT
  <2>4. b \in [1..n -> Nat] /\ Rising(n, b) /\ Within(n, a, n, b) /\ Within(n, b, n, a)
    BY <1>5
  <2>5. ~(a[x] < b[x])
    BY <1>5, <2>3, <2>4, NotSmaller
  <2>6. ~(b[x] < a[x])
    <3>1. \A y \in 1..n : y < x => b[y] = a[y]
      BY <2>3
    <3> QED BY <1>5, <2>3, <2>4, <3>1, NotSmaller
  <2>7. a[x] \in Nat /\ b[x] \in Nat
    BY <2>3, <2>4
  <2> QED BY <2>3, <2>5, <2>6, <2>7, SMT
<1> QED BY <1>5, <1>6

-----------------------------------------------------------------------------
(* Configurations *)

NodeRec == [id : Nat \ {0}, addr : Addrs, by : Builders]

\* A node has a number as its ID.
LEMMA IDsAreNumbers ==
    ASSUME nodes \in Seq(NodeRec)
    PROVE  \A n \in DOMAIN nodes : nodes[n] \in NodeRec /\ IdOf(n) \in Nat /\ IdOf(n) # 0
<1>1. \A n \in DOMAIN nodes : nodes[n] \in NodeRec
  BY SMT
<1> QED BY <1>1 DEF IdOf, NodeRec

\* What SortByID returns for nodes of different IDs.
LEMMA SortFacts ==
    ASSUME nodes \in Seq(NodeRec), NEW S \in SUBSET DOMAIN nodes,
           \A m, n \in S : IdOf(m) = IdOf(n) => m = n
    PROVE  /\ SortByID(S) \in Seq(DOMAIN nodes)
           /\ Sorted(SortByID(S))
           /\ Range(SortByID(S)) = S
<1> DEFINE k == Cardinality(S)
           f == [n \in S |-> IdOf(n)]
<1>1. DOMAIN nodes = 1..Len(nodes) /\ Len(nodes) \in Nat
  BY SMT
<1>2. IsFiniteSet(S) /\ k \in Nat
  <2>1. IsFiniteSet(1..Len(nodes))
    BY <1>1, FS_Interval, SMT
  <2>2. IsFiniteSet(S)
    BY <1>1, <2>1, FS_Subset
  <2> QED BY <2>2, FS_CardinalityType
<1>3. f \in [S -> Nat] /\ \A n \in S : f[n] = IdOf(n)
  BY IDsAreNumbers
<1> HIDE DEF f
<1>4. \A x, y \in S : f[x] = f[y] => x = y
  BY <1>3
<1>5. PICK t \in [1..k -> S] : \A i, j \in 1..k : i < j => f[t[i]] < f[t[j]]
  BY <1>2, <1>3, <1>4, SortExists
<1>6. Sorted(t)
  <2> SUFFICES ASSUME NEW i \in 1..k, NEW j \in 1..k, i < j PROVE IdOf(t[i]) < IdOf(t[j])
    BY <1>5 DEF Sorted
  <2> QED BY <1>3, <1>5, SMT
<1> DEFINE s == SortByID(S)
<1>7. s \in [1..k -> S] /\ Sorted(s)
  BY <1>5, <1>6 DEF SortByID
<1> HIDE DEF s
<1>8. \A i, j \in 1..k : i < j => f[s[i]] < f[s[j]]
  <2> SUFFICES ASSUME NEW i \in 1..k, NEW j \in 1..k, i < j PROVE f[s[i]] < f[s[j]]
    OBVIOUS
  <2>1. IdOf(s[i]) < IdOf(s[j]) /\ s[i] \in S /\ s[j] \in S
    BY <1>7 DEF Sorted
  <2> QED BY <2>1, <1>3
<1>9. \A x \in S : \E i \in 1..k : s[i] = x
  <2>1. s \in [1..Cardinality(S) -> S]
    BY <1>7
  <2>2. \A i, j \in 1..Cardinality(S) : i < j => f[s[i]] < f[s[j]]
    BY <1>8
  <2>3. IsFiniteSet(S) /\ f \in [S -> Nat]
    BY <1>2, <1>3
  <2> HIDE DEF k
  <2>4. \A x \in S : \E i \in 1..Cardinality(S) : s[i] = x
    BY <2>1, <2>2, <2>3, SortCovers
  <2> QED BY <2>4 DEF k
<1>10. Range(s) = S
  BY <1>7, <1>9 DEF Range
<1>11. s \in Seq(DOMAIN nodes)
  <2>1. s \in [1..k -> DOMAIN nodes]
    BY <1>7
  <2> QED BY <2>1, <1>2, SMT
<1> QED BY <1>7, <1>10, <1>11 DEF s

\* The IDs of a sequence are those of its elements.
LEMMA IDsOfSet ==
    ASSUME NEW c, NEW d, Range(c) = Range(d) PROVE NodeIDs(c) = NodeIDs(d)
<1>1. \A x, y : Range(x) = Range(y) => NodeIDs(x) \subseteq NodeIDs(y)
  BY SMT DEF Range, NodeIDs
<1> QED BY <1>1, SMT

\* The same, without the sequence.
LEMMA IDsOf ==
    ASSUME NEW c PROVE NodeIDs(c) = {IdOf(n) : n \in Range(c)}
BY DEF Range, NodeIDs

\* Nodes of a sorted configuration have different IDs.
LEMMA SortedApart ==
    ASSUME nodes \in Seq(NodeRec), NEW c \in Seq(DOMAIN nodes), Sorted(c),
           NEW m \in Range(c), NEW n \in Range(c), IdOf(m) = IdOf(n)
    PROVE  m = n
<1>1. PICK i \in DOMAIN c : c[i] = m
  BY DEF Range
<1>2. PICK j \in DOMAIN c : c[j] = n
  BY DEF Range
<1>3. i \in Nat /\ j \in Nat /\ m \in DOMAIN nodes /\ n \in DOMAIN nodes
  BY <1>1, <1>2, SMT
<1>4. IdOf(m) \in Nat /\ IdOf(n) \in Nat
  BY <1>3, IDsAreNumbers
<1>5. i < j => IdOf(m) < IdOf(n)
  BY <1>1, <1>2 DEF Sorted
<1>6. j < i => IdOf(n) < IdOf(m)
  BY <1>1, <1>2 DEF Sorted
<1>7. i = j
  BY <1>3, <1>4, <1>5, <1>6, SMT
<1> QED BY <1>1, <1>2, <1>7

\* The look-up table, as TypeOK and the registrations make it.
Table ==
    /\ nodes \in Seq(NodeRec)
    /\ \A id \in DOMAIN lookup : lookup[id] \in DOMAIN nodes /\ IdOf(lookup[id]) = id
    /\ \A n \in DOMAIN nodes : IdOf(n) \in DOMAIN lookup

\* Add looks the missing IDs up and sorts them in.
LEMMA AddFacts ==
    ASSUME Table, NEW c \in Seq(DOMAIN nodes), Sorted(c), c # <<>>,
           NEW d \in Seq(DOMAIN nodes)
    PROVE  /\ Add(c, NodeIDs(d)) \in Seq(DOMAIN nodes)
           /\ Sorted(Add(c, NodeIDs(d)))
           /\ NodeIDs(Add(c, NodeIDs(d))) = NodeIDs(c) \cup NodeIDs(d)
           /\ Range(c) \subseteq Range(Add(c, NodeIDs(d)))
<1> DEFINE new == Found(NodeIDs(d) \ NodeIDs(c))
           S == Range(c) \cup new
<1>1. nodes \in Seq(NodeRec)
  BY DEF Table
<1>2. Range(c) \subseteq DOMAIN nodes /\ Range(d) \subseteq DOMAIN nodes
  BY SMT DEF Range
<1>3. ASSUME NEW n \in new
      PROVE  n \in DOMAIN nodes /\ IdOf(n) \in NodeIDs(d) \ NodeIDs(c) /\ n = lookup[IdOf(n)]
  BY <1>3 DEF Found, Table
<1>4. ASSUME NEW m \in S, NEW n \in S, IdOf(m) = IdOf(n) PROVE m = n
  <2>1. \A k \in Range(c) : IdOf(k) \in NodeIDs(c)
    BY IDsOf
  <2>2. CASE m \in Range(c) /\ n \in Range(c)
    BY <1>1, <1>4, <2>2, SortedApart
  <2>3. CASE m \in new /\ n \in new
    BY <1>3, <1>4, <2>3
  <2>4. CASE (m \in new /\ n \in Range(c)) \/ (n \in new /\ m \in Range(c))
    BY <1>3, <1>4, <2>1, <2>4
  <2> HIDE DEF new
  <2> QED BY <2>2, <2>3, <2>4
<1>5. S \in SUBSET DOMAIN nodes
  BY <1>2, <1>3
<1>6. Add(c, NodeIDs(d)) = SortByID(S)
  BY DEF Add
<1> HIDE DEF S
<1>7. /\ SortByID(S) \in Seq(DOMAIN nodes)
      /\ Sorted(SortByID(S))
      /\ Range(SortByID(S)) = S
  BY <1>1, <1>4, <1>5, SortFacts
<1>8. {IdOf(n) : n \in S} = NodeIDs(c) \cup NodeIDs(d)
  <2>1. ASSUME NEW n \in S PROVE IdOf(n) \in NodeIDs(c) \cup NodeIDs(d)
    <3> HIDE DEF new
    <3> QED BY <1>3, IDsOf DEF S
  <2>2. ASSUME NEW id \in NodeIDs(c) PROVE \E n \in S : IdOf(n) = id
    BY IDsOf DEF S
  <2>3. ASSUME NEW id \in NodeIDs(d) \ NodeIDs(c) PROVE \E n \in S : IdOf(n) = id
    <3>1. PICK k \in Range(d) : IdOf(k) = id
      BY IDsOf
    <3>2. id \in DOMAIN lookup /\ IdOf(lookup[id]) = id
      BY <3>1, <1>2 DEF Table
    <3>3. lookup[id] \in new
      BY <3>2 DEF Found
    <3> QED BY <3>2, <3>3 DEF S
  <2> QED BY <2>1, <2>2, <2>3
<1>9. NodeIDs(SortByID(S)) = {IdOf(n) : n \in S}
  BY <1>7, IDsOf
<1> QED BY <1>6, <1>7, <1>8, <1>9 DEF S

\* Union on configurations of one manager.
LEMMA UnionFacts ==
    ASSUME Table, NEW c \in Seq(DOMAIN nodes), Sorted(c),
           NEW d \in Seq(DOMAIN nodes), Sorted(d)
    PROVE  /\ Union(c, d) \in Seq(DOMAIN nodes)
           /\ Sorted(Union(c, d))
           /\ NodeIDs(Union(c, d)) = NodeIDs(c) \cup NodeIDs(d)
           /\ Range(c) \subseteq Range(Union(c, d))
<1>0. NodeIDs(<<>>) = {} /\ Range(<<>>) = {}
  BY SMT DEF NodeIDs, Range
<1>1. CASE c = <<>>
  BY <1>0, <1>1 DEF Union
<1>2. CASE c # <<>> /\ d = <<>>
  BY <1>0, <1>2 DEF Union
<1>3. CASE c # <<>> /\ d # <<>>
  BY <1>3, AddFacts DEF Union
<1> QED BY <1>1, <1>2, <1>3

\* Equal on sorted configurations compares their sets of IDs.
LEMMA EqualFacts ==
    ASSUME nodes \in Seq(NodeRec), NEW c \in Seq(DOMAIN nodes), Sorted(c),
           NEW d \in Seq(DOMAIN nodes), Sorted(d)
    PROVE  Equal(c, d) <=> NodeIDs(c) = NodeIDs(d)
<1> DEFINE a == [i \in 1..Len(c) |-> IdOf(c[i])]
           b == [i \in 1..Len(d) |-> IdOf(d[i])]
<1>1. /\ Len(c) \in Nat /\ DOMAIN c = 1..Len(c) /\ \A i \in 1..Len(c) : c[i] \in DOMAIN nodes
      /\ Len(d) \in Nat /\ DOMAIN d = 1..Len(d) /\ \A i \in 1..Len(d) : d[i] \in DOMAIN nodes
  BY SMT
<1>2. a \in [1..Len(c) -> Nat] /\ b \in [1..Len(d) -> Nat]
  BY <1>1, IDsAreNumbers
<1>3. (\A i \in 1..Len(c) : a[i] = IdOf(c[i])) /\ (\A i \in 1..Len(d) : b[i] = IdOf(d[i]))
  OBVIOUS
<1>4. NodeIDs(c) = {a[i] : i \in 1..Len(c)} /\ NodeIDs(d) = {b[i] : i \in 1..Len(d)}
  BY <1>1 DEF NodeIDs
<1> HIDE DEF a, b
<1>5. Equal(c, d) => NodeIDs(c) = NodeIDs(d)
  <2> SUFFICES ASSUME Equal(c, d) PROVE NodeIDs(c) = NodeIDs(d)
    OBVIOUS
  <2>1. Len(c) = Len(d) /\ \A i \in 1..Len(c) : a[i] = b[i]
    BY <1>1, <1>3 DEF Equal
  <2> QED BY <1>4, <2>1
<1>6. Rising(Len(c), a) /\ Rising(Len(d), b)
  BY <1>1, <1>3 DEF Sorted, Rising
<1>7. ASSUME NodeIDs(c) = NodeIDs(d) PROVE Equal(c, d)
  <2>1. Len(c) = Len(d) /\ \A i \in 1..Len(c) : a[i] = b[i]
    <3> DEFINE n == Len(c)
               m == Len(d)
    <3>1. n \in Nat /\ m \in Nat /\ a \in [1..n -> Nat] /\ b \in [1..m -> Nat]
      BY <1>1, <1>2
    <3>2. Rising(n, a) /\ Rising(m, b)
      BY <1>6
    <3>3. {a[i] : i \in 1..n} = {b[i] : i \in 1..m}
      BY <1>4, <1>7
    <3>4. Within(n, a, m, b) /\ Within(m, b, n, a)
      BY <3>3 DEF Within
    <3> HIDE DEF n, m
    <3>5. n = m /\ \A i \in 1..n : a[i] = b[i]
      BY <3>1, <3>2, <3>4, SortUnique, ZenonT(40)
    <3> QED BY <3>5 DEF n, m
  <2> QED BY <1>1, <1>3, <2>1 DEF Equal
<1> QED BY <1>5, <1>7

\* RemoveIDs leaves the other nodes, in their order.
LEMMA RemoveFacts ==
    ASSUME nodes \in Seq(NodeRec), NEW c \in Seq(DOMAIN nodes), Sorted(c), NEW ids
    PROVE  /\ RemoveIDs(c, ids) \in Seq(DOMAIN nodes)
           /\ Sorted(RemoveIDs(c, ids))
           /\ NodeIDs(RemoveIDs(c, ids)) = NodeIDs(c) \ ids
<1> DEFINE keep == {i \in DOMAIN c : IdOf(c[i]) \notin ids}
           k == Cardinality(keep)
           f == [i \in keep |-> i]
           Up(p) == \A i, j \in DOMAIN p : i < j => p[i] < p[j]
           at == CHOOSE p \in [1..k -> keep] : Up(p)
           rest == [i \in DOMAIN at |-> c[at[i]]]
<1>1. Len(c) \in Nat /\ DOMAIN c = 1..Len(c) /\ \A i \in 1..Len(c) : c[i] \in DOMAIN nodes
  BY SMT
<1>2. keep \subseteq DOMAIN c
  OBVIOUS
<1>3. IsFiniteSet(keep) /\ k \in Nat
  <2>1. IsFiniteSet(1..Len(c))
    BY <1>1, FS_Interval, SMT
  <2>2. IsFiniteSet(keep)
    BY <1>1, <1>2, <2>1, FS_Subset
  <2> QED BY <2>2, FS_CardinalityType
<1>4. RemoveIDs(c, ids) = rest
  BY DEF RemoveIDs
<1>5. \A i \in DOMAIN c : i \in keep <=> IdOf(c[i]) \notin ids
  OBVIOUS
<1> HIDE DEF keep
<1>6. f \in [keep -> Nat] /\ \A i \in keep : f[i] = i
  BY <1>1, <1>2, SMT
<1>7. \A i, j \in keep : f[i] = f[j] => i = j
  BY <1>6
<1> HIDE DEF f
<1>8. \E p \in [1..k -> keep] : Up(p)
  <2>1. PICK p \in [1..k -> keep] : \A i, j \in 1..k : i < j => f[p[i]] < f[p[j]]
    BY <1>3, <1>6, <1>7, SortExists
  <2>2. DOMAIN p = 1..k /\ \A i \in 1..k : f[p[i]] = p[i]
    BY <1>6, <2>1
  <2>3. \A i, j \in 1..k : i < j => p[i] < p[j]
    <3> SUFFICES ASSUME NEW i \in 1..k, NEW j \in 1..k, i < j PROVE p[i] < p[j]
      OBVIOUS
    <3>1. f[p[i]] < f[p[j]] /\ f[p[i]] = p[i] /\ f[p[j]] = p[j]
      BY <2>1, <2>2
    <3> QED BY <3>1, SMT
  <2> QED BY <2>2, <2>3
<1>9. at \in [1..k -> keep] /\ Up(at)
  BY <1>8
<1> HIDE DEF at
<1>10. DOMAIN at = 1..k /\ \A i, j \in 1..k : i < j => at[i] < at[j]
  BY <1>9
<1>11. \A i \in keep : \E j \in 1..k : at[j] = i
  <2>1. \A i, j \in 1..k : i < j => f[at[i]] < f[at[j]]
    BY <1>6, <1>9, <1>10
  <2>2. at \in [1..k -> keep] /\ f \in [keep -> Nat] /\ IsFiniteSet(keep)
    BY <1>3, <1>6, <1>9
  <2> HIDE DEF Up
  <2> QED BY <2>1, <2>2, SortCovers
<1> HIDE DEF k
<1>12. DOMAIN rest = 1..k /\ \A i \in 1..k : at[i] \in keep /\ rest[i] = c[at[i]]
  BY <1>9, <1>10
<1>13. rest \in Seq(DOMAIN nodes)
  <2>1. rest \in [1..k -> DOMAIN nodes]
    BY <1>1, <1>2, <1>9, <1>10
  <2> QED BY <1>3, <2>1, FunctionIsSequence
<1> HIDE DEF rest
<1>14. Sorted(rest)
  BY <1>2, <1>10, <1>12, SMT DEF Sorted
<1>15. ASSUME NEW id PROVE id \in NodeIDs(rest) <=> id \in NodeIDs(c) /\ id \notin ids
  <2>1. id \in NodeIDs(rest) <=> \E i \in 1..k : id = IdOf(c[at[i]])
    BY <1>12 DEF NodeIDs
  <2>2. id \in NodeIDs(c) <=> \E i \in DOMAIN c : id = IdOf(c[i])
    BY DEF NodeIDs
  <2>3. (\E i \in 1..k : id = IdOf(c[at[i]])) <=> \E i \in keep : id = IdOf(c[i])
    BY <1>11, <1>12
  <2> QED BY <1>2, <1>5, <2>1, <2>2, <2>3
<1> QED BY <1>4, <1>13, <1>14, <1>15

-----------------------------------------------------------------------------
(* The invariant *)

GoodOption(o) ==
    ~o.isList => /\ Len(o.ids) = Len(o.addrs)
                 /\ \A i, j \in DOMAIN o.ids : i < j => o.ids[i] < o.ids[j]

\* The ID of entry i of e's option.
IDAt(e, i) == IF opt[e].isList THEN FirstListID(e) + i - 1 ELSE opt[e].ids[i]

\* What add has checked when it goes on to register a node; the look-up in the
\* manager's table is not among it, because it may be out of date.
Vetted(e) ==
    /\ Len(built[e]) < Entries(opt[e])
    /\ ~Reserved(e) /\ EntryAddr(e) # Invalid
    /\ Existing(e) = {} /\ ~AddrTaken(e)

Complete(e) ==
    /\ NodeIDs(cfg[e]) = NodeIDs(base[e]) \cup NodeIDs(built[e])
    /\ Sorted(cfg[e])
    /\ \A n \in (Range(base[e]) \cup Range(built[e])) \ Range(cfg[e]) :
          \E m \in Range(cfg[e]) :
              IdOf(m) = IdOf(n) /\ {nodes[m].by, nodes[n].by} \in beside

\* A builder has built the nodes of its first entries and checked the next one.
Own(e) ==
    /\ GoodOption(opt[e])
    /\ pc[e] = "idle" => built[e] = <<>>
    /\ \A i \in DOMAIN built[e] : IdOf(built[e][i]) = IDAt(e, i)
    /\ pc[e] = "register" => Vetted(e)
    /\ Sorted(cfg[e]) /\ Sorted(base[e])
    /\ pc[e] = "returned" => Complete(e)

\* Nodes that a working builder does not know are of builders beside it.
Seen ==
    /\ \A e \in Working : \A n \in DOMAIN nodes :
          n \in known[e] \/ n \in Range(built[e]) \/ {nodes[n].by, e} \in beside
    /\ \A a, b \in Working : a # b => {a, b} \in beside

\* Extend needs a configuration, and so that NewConfig has returned.
Lives ==
    /\ \A b \in Builders : cfg[b] # <<>> => pc[b] = "returned"
    /\ pc[Creator] # "returned" =>
          /\ \A e \in Extenders : pc[e] = "idle"
          /\ closedAt = IF pc[Creator] = "failed" THEN Len(nodes) + 1 ELSE 0

Inv ==
    /\ TypeOK
    /\ Table
    /\ \A e \in Builders : Own(e)
    /\ Seen
    /\ DuplicatesOnlyFromRaces
    /\ Lives

-----------------------------------------------------------------------------
(* What a step leaves alone *)

\* Nodes are only added.
Kept ==
    /\ DOMAIN nodes \subseteq DOMAIN nodes'
    /\ \A n \in DOMAIN nodes : nodes'[n] = nodes[n]

\* A sequence over a set is one over any larger set.
LEMMA SeqGrows ==
    ASSUME NEW S, NEW T, S \subseteq T, NEW s \in Seq(S) PROVE s \in Seq(T)
<1>1. s \in [1..Len(s) -> T] /\ Len(s) \in Nat
  BY SMT
<1> QED BY <1>1, SMT

\* The elements of a sequence over a set are in the set.
LEMMA SeqElems ==
    ASSUME NEW S, NEW s \in Seq(S)
    PROVE  DOMAIN s = 1..Len(s) /\ Len(s) \in Nat /\ Range(s) \subseteq S
BY SMT DEF Range

\* The first ID of a list is a positive number.
LEMMA FirstIDType ==
    ASSUME TypeOK, NEW e \in Builders PROVE FirstListID(e) \in Nat /\ FirstListID(e) # 0
<1> DEFINE K == known[e]
           f == [n \in K |-> IdOf(n)]
           R == {IdOf(n) : n \in K}
<1>1. nodes \in Seq(NodeRec) /\ K \subseteq DOMAIN nodes
  BY DEF TypeOK, NodeRec
<1>2. DOMAIN nodes = 1..Len(nodes) /\ Len(nodes) \in Nat
  BY <1>1, SMT
<1>3. IsFiniteSet(1..Len(nodes))
  BY <1>2, FS_Interval, SMT
<1>4. IsFiniteSet(K)
  <2> HIDE DEF K
  <2> QED BY <1>1, <1>2, <1>3, FS_Subset
<1>5. f \in Surjection(K, R)
  BY DEF Surjection
<1>6. IsFiniteSet(R)
  <2> HIDE DEF R, f, K
  <2> QED BY <1>4, <1>5, FS_Surjection
<1>7. IsFiniteSet(R \cup {0})
  <2> HIDE DEF R
  <2> QED BY <1>6, FS_AddElement
<1>8. R \cup {0} \in SUBSET Nat /\ R \cup {0} # {}
  BY <1>1, IDsAreNumbers, SMT
<1>9. Max(R \cup {0}) \in Nat
  <2> HIDE DEF R
  <2> QED BY <1>7, <1>8, MaxOf
<1> QED BY <1>9, SMT DEF FirstListID

\* New nodes do not change the IDs of a list whose builder has started.
LEMMA FirstIDStays ==
    ASSUME Kept, NEW e, known[e] \subseteq DOMAIN nodes, known'[e] = known[e]
    PROVE  FirstListID(e)' = FirstListID(e)
<1>1. {nodes'[n].id : n \in known'[e]} = {nodes[n].id : n \in known[e]}
  BY DEF Kept
<1> QED BY <1>1 DEF FirstListID, IdOf

\* The IDs of the entries of an option increase.
LEMMA EntriesIncrease ==
    ASSUME TypeOK, NEW e \in Builders, GoodOption(opt[e]),
           NEW i \in 1..Entries(opt[e]), NEW j \in 1..Entries(opt[e])
    PROVE  IDAt(e, i) \in Nat /\ (i < j => IDAt(e, i) < IDAt(e, j))
<1>1. FirstListID(e) \in Nat
  BY FirstIDType
<1>2. opt[e] \in OptionKinds
  BY DEF TypeOK
<1>3. i \in Nat /\ j \in Nat /\ i >= 1 /\ j >= 1
  BY <1>2, SMT DEF Entries, OptionKinds
<1>4. CASE opt[e].isList
  BY <1>1, <1>3, <1>4, SMT DEF IDAt
<1>5. CASE ~opt[e].isList
  <2>1. opt[e].ids \in Seq(Nat) /\ i \in DOMAIN opt[e].ids /\ j \in DOMAIN opt[e].ids
    BY <1>2, <1>5, SMT DEF GoodOption, OptionKinds, Entries
  <2>2. opt[e].ids[i] \in Nat /\ (i < j => opt[e].ids[i] < opt[e].ids[j])
    BY <1>5, <2>1, SMT DEF GoodOption
  <2> QED BY <1>5, <2>2 DEF IDAt
<1> QED BY <1>4, <1>5

\* A step that does not touch what e has.
Rests(e) ==
    /\ opt'[e] = opt[e] /\ base'[e] = base[e] /\ known'[e] = known[e]
    /\ built'[e] = built[e] /\ cfg'[e] = cfg[e]

\* The nodes of a configuration keep their records.
LEMMA IDsKept ==
    ASSUME Kept, NEW c \in Seq(DOMAIN nodes)
    PROVE  /\ \A i \in DOMAIN c : c[i] \in DOMAIN nodes /\ nodes'[c[i]] = nodes[c[i]]
           /\ \A n \in Range(c) : n \in DOMAIN nodes /\ nodes'[n] = nodes[n]
BY SMT DEF Kept, Range

\* The configurations and the option of a builder that has none of them changed.
LEMMA ConfigsStay ==
    ASSUME TypeOK, Kept, NEW e \in Builders,
           opt'[e] = opt[e], base'[e] = base[e], known'[e] = known[e], cfg'[e] = cfg[e]
    PROVE  /\ Sorted(cfg[e]) => Sorted(cfg[e])'
           /\ Sorted(base[e]) => Sorted(base[e])'
           /\ NodeIDs(cfg[e])' = NodeIDs(cfg[e])
           /\ NodeIDs(base[e])' = NodeIDs(base[e])
           /\ FirstListID(e)' = FirstListID(e)
           /\ \A i : IDAt(e, i)' = IDAt(e, i)
<1>1. /\ cfg[e] \in Seq(DOMAIN nodes) /\ base[e] \in Seq(DOMAIN nodes)
      /\ known[e] \subseteq DOMAIN nodes
  BY DEF TypeOK
<1>2. /\ \A i \in DOMAIN cfg[e] : nodes'[cfg[e][i]] = nodes[cfg[e][i]]
      /\ \A i \in DOMAIN base[e] : nodes'[base[e][i]] = nodes[base[e][i]]
  BY <1>1, IDsKept
<1>3. Sorted(cfg[e]) => Sorted(cfg[e])'
  BY <1>2, SMT DEF Sorted, IdOf
<1>4. Sorted(base[e]) => Sorted(base[e])'
  BY <1>2, SMT DEF Sorted, IdOf
<1>5. NodeIDs(cfg[e])' = NodeIDs(cfg[e])
  BY <1>2, SMT DEF NodeIDs, IdOf
<1>6. NodeIDs(base[e])' = NodeIDs(base[e])
  BY <1>2, SMT DEF NodeIDs, IdOf
<1>7. FirstListID(e)' = FirstListID(e)
  BY <1>1, FirstIDStays
<1>8. \A i : IDAt(e, i)' = IDAt(e, i)
  BY <1>7 DEF IDAt
<1> QED BY <1>3, <1>4, <1>5, <1>6, <1>7, <1>8

\* The same for a builder that rests, with its list and its next entry.
LEMMA ListsStay ==
    ASSUME TypeOK, Kept, NEW e \in Builders, Rests(e)
    PROVE  /\ Sorted(cfg[e]) => Sorted(cfg[e])'
           /\ Sorted(base[e]) => Sorted(base[e])'
           /\ NodeIDs(cfg[e])' = NodeIDs(cfg[e])
           /\ NodeIDs(base[e])' = NodeIDs(base[e])
           /\ NodeIDs(built[e])' = NodeIDs(built[e])
           /\ \A i : IDAt(e, i)' = IDAt(e, i)
           /\ EntryID(e)' = EntryID(e) /\ EntryAddr(e)' = EntryAddr(e)
<1>1. built[e] \in Seq(DOMAIN nodes)
  BY DEF TypeOK
<1>2. \A i \in DOMAIN built[e] : nodes'[built[e][i]] = nodes[built[e][i]]
  BY <1>1, IDsKept
<1>3. NodeIDs(built[e])' = NodeIDs(built[e])
  BY <1>2 DEF Rests, NodeIDs, IdOf
<1>4. /\ Sorted(cfg[e]) => Sorted(cfg[e])'
      /\ Sorted(base[e]) => Sorted(base[e])'
      /\ NodeIDs(cfg[e])' = NodeIDs(cfg[e])
      /\ NodeIDs(base[e])' = NodeIDs(base[e])
      /\ FirstListID(e)' = FirstListID(e)
      /\ \A i : IDAt(e, i)' = IDAt(e, i)
  BY ConfigsStay DEF Rests
<1>5. EntryID(e)' = EntryID(e) /\ EntryAddr(e)' = EntryAddr(e)
  BY <1>4 DEF EntryID, EntryAddr, Rests
<1> QED BY <1>3, <1>4, <1>5

\* What add has checked stays true while other builders go on.
LEMMA VettedStays ==
    ASSUME TypeOK, Kept, NEW e \in Builders, Rests(e), Vetted(e) PROVE Vetted(e)'
<1>1. EntryID(e)' = EntryID(e) /\ EntryAddr(e)' = EntryAddr(e)
  BY ListsStay
<1>2. known[e] \subseteq DOMAIN nodes /\ built[e] \in Seq(DOMAIN nodes)
  BY DEF TypeOK
<1>3. /\ \A n \in known[e] : nodes'[n] = nodes[n]
      /\ \A n \in Range(built[e]) : nodes'[n] = nodes[n]
  BY <1>2, IDsKept DEF Kept
<1>4. Range(built[e])' = Range(built[e])
  BY DEF Rests, Range
<1>5. (Len(built[e]) < Entries(opt[e]))' /\ (~Reserved(e))' /\ (EntryAddr(e) # Invalid)'
  BY <1>1 DEF Vetted, Rests, Reserved, Entries
<1>6. (~AddrTaken(e))'
  BY <1>1, <1>3, <1>4 DEF Vetted, AddrTaken, Rests
<1>7. (Existing(e) = {})'
  <2>1. {n \in known'[e] : nodes'[n].id = EntryID(e)'} = {n \in known[e] : nodes[n].id = EntryID(e)}
    BY <1>1, <1>3 DEF Rests
  <2>2. Existing(e)' = Existing(e)
    BY <2>1 DEF Existing, IdOf
  <2> QED BY <2>2 DEF Vetted
<1> QED BY <1>5, <1>6, <1>7 DEF Vetted

\* A configuration that was complete stays so.
LEMMA CompleteStays ==
    ASSUME TypeOK, Kept, beside \subseteq beside', NEW e \in Builders, Rests(e), Complete(e)
    PROVE  Complete(e)'
<1>1. /\ cfg[e] \in Seq(DOMAIN nodes) /\ base[e] \in Seq(DOMAIN nodes)
      /\ built[e] \in Seq(DOMAIN nodes)
  BY DEF TypeOK
<1>2. /\ \A n \in Range(cfg[e]) : nodes'[n] = nodes[n]
      /\ \A n \in Range(base[e]) : nodes'[n] = nodes[n]
      /\ \A n \in Range(built[e]) : nodes'[n] = nodes[n]
  BY <1>1, IDsKept
<1>3. /\ Range(cfg[e])' = Range(cfg[e]) /\ Range(base[e])' = Range(base[e])
      /\ Range(built[e])' = Range(built[e])
  BY DEF Rests, Range
<1>4. (NodeIDs(cfg[e]) = NodeIDs(base[e]) \cup NodeIDs(built[e]))' /\ Sorted(cfg[e])'
  BY ListsStay DEF Complete
<1>5. ASSUME NEW n \in (Range(base[e]) \cup Range(built[e])) \ Range(cfg[e])
      PROVE  \E m \in Range(cfg[e]) :
                 nodes'[m].id = nodes'[n].id /\ {nodes'[m].by, nodes'[n].by} \in beside'
  <2>1. PICK m \in Range(cfg[e]) :
                 nodes[m].id = nodes[n].id /\ {nodes[m].by, nodes[n].by} \in beside
    BY <1>5 DEF Complete, IdOf
  <2> QED BY <2>1, <1>2
<1> QED BY <1>3, <1>4, <1>5 DEF Complete, IdOf

\* The claim about one builder survives the steps of the others.
LEMMA OwnStays ==
    ASSUME TypeOK, Kept, beside \subseteq beside', NEW e \in Builders, Rests(e), Own(e),
           pc'[e] = pc[e]
    PROVE  Own(e)'
<1>1. /\ Sorted(cfg[e])' /\ Sorted(base[e])'
      /\ \A i : IDAt(e, i)' = IDAt(e, i)
  BY ListsStay DEF Own
<1>2. built[e] \in Seq(DOMAIN nodes)
  BY DEF TypeOK
<1>3. \A i \in DOMAIN built[e] : nodes'[built[e][i]] = nodes[built[e][i]]
  BY <1>2, IDsKept
<1>4. \A i \in DOMAIN built'[e] : IdOf(built[e][i])' = IDAt(e, i)'
  BY <1>1, <1>3, SMT DEF Own, Rests, IdOf
<1>5. (pc[e] = "register" => Vetted(e))'
  BY VettedStays DEF Own
<1>6. (pc[e] = "returned" => Complete(e))'
  BY CompleteStays DEF Own
<1> QED BY <1>1, <1>4, <1>5, <1>6 DEF Own, Rests

-----------------------------------------------------------------------------
(* One lemma for each kind of step *)

\* Nothing happens to the nodes.
LEMMA TableStays ==
    ASSUME Table, nodes' = nodes, lookup' = lookup PROVE Table' /\ Kept
BY DEF Table, Kept, IdOf

\* Builders that start do not undo what is known about duplicates.
LEMMA DuplicatesStay ==
    ASSUME DuplicatesOnlyFromRaces, nodes' = nodes, beside \subseteq beside'
    PROVE  DuplicatesOnlyFromRaces'
BY DEF DuplicatesOnlyFromRaces, IdOf

\* newNodeBuilder: all nodes there are become known.
LEMMA BeginStep ==
    ASSUME Inv, NEW e \in Builders, Begin(e) PROVE Inv'
<1>0. /\ TypeOK /\ Table /\ (\A f \in Builders : Own(f)) /\ Seen
      /\ DuplicatesOnlyFromRaces /\ Lives
  BY DEF Inv
<1>1. PICK o \in Options :
          /\ opt' = [opt EXCEPT ![e] = o]
          /\ \/ e = Creator /\ base' = base
             \/ /\ e \in Extenders
                /\ \E b \in Builders : cfg[b] # <<>> /\ base' = [base EXCEPT ![e] = cfg[b]]
  BY DEF Begin
<1>2. /\ pc[e] = "idle" /\ pc' = [pc EXCEPT ![e] = "add"]
      /\ known' = [known EXCEPT ![e] = DOMAIN nodes]
      /\ beside' = beside \cup {{e, b} : b \in Working}
      /\ UNCHANGED <<nodes, lookup, closedAt, built, cfg>>
  BY DEF Begin
<1>3. Table' /\ Kept
  BY <1>0, <1>2, TableStays
<1>4. beside \subseteq beside'
  BY <1>2
<1>5. DuplicatesOnlyFromRaces'
  BY <1>0, <1>2, <1>4, DuplicatesStay
<1>6. o \in OptionKinds /\ GoodOption(o)
  BY <1>1, OptionAssumption DEF GoodOption
<1>7. built[e] = <<>>
  BY <1>0, <1>2 DEF Own
<1>8. TypeOK'
  <2>1. opt' \in [Builders -> OptionKinds] /\ base' \in [Builders -> Seq(DOMAIN nodes)]
    BY <1>0, <1>1, <1>6 DEF TypeOK
  <2>2. /\ pc' \in [Builders -> {"idle", "add", "register", "returned", "failed"}]
        /\ known' \in [Builders -> SUBSET DOMAIN nodes]
    BY <1>0, <1>2 DEF TypeOK
  <2>3. \A f \in Builders : Len(built[f]) <= Entries(opt'[f])
    <3> SUFFICES ASSUME NEW f \in Builders PROVE Len(built[f]) <= Entries(opt'[f])
      OBVIOUS
    <3>1. CASE f = e
      <4>1. opt'[e] = o
        BY <1>0, <1>1 DEF TypeOK
      <4>2. Len(o.addrs) \in Nat
        BY <1>6, SMT DEF OptionKinds
      <4> QED BY <3>1, <4>1, <4>2, <1>7, SMT DEF Entries
    <3>2. CASE f # e
      BY <3>2, <1>0, <1>1 DEF TypeOK
    <3> QED BY <3>1, <3>2
  <2>4. beside' \subseteq SUBSET Builders
    <3>1. \A b \in Working : {e, b} \in SUBSET Builders
      BY DEF Working
    <3>2. beside \subseteq SUBSET Builders
      BY <1>0 DEF TypeOK
    <3> QED BY <3>1, <3>2, <1>2, SMT
  <2>5. /\ nodes' \in Seq([id : Nat \ {0}, addr : Addrs, by : Builders])
        /\ \A id \in DOMAIN lookup' : (lookup[id] \in DOMAIN nodes /\ IdOf(lookup[id]) = id)'
        /\ closedAt' \in 0..(Len(nodes') + 1)
    BY <1>0, <1>2 DEF TypeOK, IdOf
  <2>6. {base', built', cfg'} \subseteq [Builders -> Seq(DOMAIN nodes')]
    <3>1. built \in [Builders -> Seq(DOMAIN nodes)] /\ cfg \in [Builders -> Seq(DOMAIN nodes)]
      BY <1>0 DEF TypeOK
    <3> QED BY <3>1, <2>1, <1>2
  <2> QED BY <2>1, <2>2, <2>3, <2>4, <2>5, <2>6, <1>2 DEF TypeOK
<1>9. ASSUME NEW f \in Builders PROVE Own(f)'
  <2>1. CASE f # e
    <3>1. Rests(f) /\ pc'[f] = pc[f]
      BY <2>1, <1>0, <1>1, <1>2 DEF Rests, TypeOK
    <3> QED BY <3>1, <1>0, <1>3, <1>4, OwnStays
  <2>2. CASE f = e
    <3>1. GoodOption(opt[e])' /\ pc'[e] = "add"
      BY <1>0, <1>1, <1>2, <1>6 DEF TypeOK, GoodOption
    <3>2. Sorted(cfg[e])'
      BY <1>0, <1>2 DEF Own, Sorted, IdOf
    <3>3. Sorted(base[e])'
      <4>1. base'[e] = base[e] \/ \E b \in Builders : base'[e] = cfg[b]
        BY <1>0, <1>1 DEF TypeOK
      <4> QED BY <4>1, <1>0, <1>2 DEF Own, Sorted, IdOf
    <3> QED BY <2>2, <3>1, <3>2, <3>3, <1>2, <1>7, SMT DEF Own
  <2> QED BY <2>1, <2>2
<1>10. Seen'
  <2>1. \A f \in Builders : f \in Working' <=> f \in Working \/ f = e
    BY <1>0, <1>2 DEF Working, TypeOK
  <2>2. \A f \in Builders : f # e => known'[f] = known[f]
    BY <1>0, <1>2 DEF TypeOK
  <2>3. known'[e] = DOMAIN nodes
    BY <1>0, <1>2 DEF TypeOK
  <2>4. Working' \subseteq Builders /\ Working \subseteq Builders
    BY DEF Working
  <2>5. ASSUME NEW f \in Working', NEW n \in DOMAIN nodes'
        PROVE  (n \in known[f] \/ n \in Range(built[f]) \/ {nodes[n].by, f} \in beside)'
    <3>1. CASE f = e
      BY <3>1, <2>3, <1>2
    <3>2. CASE f # e
      BY <3>2, <2>1, <2>2, <2>4, <1>0, <1>2, <1>4 DEF Seen
    <3> QED BY <3>1, <3>2
  <2>6. ASSUME NEW a \in Working', NEW b \in Working', a # b PROVE {a, b} \in beside'
    <3>1. CASE a \in Working /\ b \in Working
      BY <3>1, <2>6, <1>0, <1>4 DEF Seen
    <3>2. CASE a = e /\ b \in Working
      BY <3>2, <1>2
    <3>3. CASE b = e /\ a \in Working
      <4>1. {a, b} = {e, a}
        BY <3>3
      <4> QED BY <3>3, <4>1, <1>2
    <3> QED BY <2>1, <2>4, <2>6, <3>1, <3>2, <3>3
  <2> QED BY <2>5, <2>6 DEF Seen
<1>11. Lives'
  <2>1. \A b \in Builders : cfg[b] # <<>> => pc'[b] = "returned"
    BY <1>0, <1>2 DEF Lives, TypeOK
  <2>2. CASE e = Creator
    BY <2>1, <2>2, <1>0, <1>2, OptionAssumption, SMT DEF Lives, TypeOK, Builders
  <2>3. CASE e \in Extenders
    <3>1. PICK b \in Builders : cfg[b] # <<>>
      BY <2>3, <1>1, OptionAssumption
    <3>2. pc[b] = "returned"
      BY <3>1, <1>0 DEF Lives
    <3>3. pc[Creator] = "returned" /\ Creator # e
      BY <2>3, <3>2, <1>0, OptionAssumption DEF Lives, Builders
    <3>4. pc'[Creator] = "returned"
      BY <3>3, <1>0, <1>2 DEF TypeOK, Builders
    <3> QED BY <2>1, <3>4, <1>2 DEF Lives
  <2> QED BY <2>2, <2>3 DEF Builders
<1> QED BY <1>3, <1>5, <1>8, <1>9, <1>10, <1>11 DEF Inv

\* A builder that works has not returned; if it extends, NewConfig has.
LEMMA WorkingFacts ==
    ASSUME TypeOK, Lives, NEW e \in Builders, pc[e] \in {"add", "register"}
    PROVE  /\ cfg[e] = <<>>
           /\ e = Creator => closedAt = 0 /\ \A f \in Extenders : pc[f] = "idle"
           /\ e # Creator => pc[Creator] = "returned"
BY DEF Lives, Builders

\* Builders that stop working leave the others as they are.
LEMMA SeenStays ==
    ASSUME Seen, UNCHANGED <<nodes, known, built, beside>>, Working' \subseteq Working
    PROVE  Seen'
BY DEF Seen

\* The error paths; NewConfig's own closes the manager.
LEMMA FailStep ==
    ASSUME Inv, NEW e \in Builders, pc[e] \in {"add", "register"}, Fail(e),
           UNCHANGED <<opt, base, known, cfg, beside>>
    PROVE  Inv'
<1>0. /\ TypeOK /\ Table /\ (\A f \in Builders : Own(f)) /\ Seen
      /\ DuplicatesOnlyFromRaces /\ Lives
  BY DEF Inv
<1>1. /\ pc' = [pc EXCEPT ![e] = "failed"] /\ CloseOnError(e)
      /\ UNCHANGED <<nodes, lookup, built>>
  BY DEF Fail
<1>2. /\ pc'[e] = "failed" /\ \A f \in Builders : f # e => pc'[f] = pc[f]
      /\ pc' \in [Builders -> {"idle", "add", "register", "returned", "failed"}]
  BY <1>0, <1>1 DEF TypeOK
<1>3. Table' /\ Kept
  BY <1>0, <1>1, TableStays
<1>4. DuplicatesOnlyFromRaces'
  BY <1>0, <1>1, DuplicatesStay
<1>5. Len(nodes) \in Nat
  BY <1>0, SMT DEF TypeOK
<1>6. closedAt' = IF e = Creator THEN Len(nodes) + 1 ELSE closedAt
  BY <1>0, <1>1, WorkingFacts DEF CloseOnError, closeNodes, Closed
<1>7. TypeOK'
  <2>1. closedAt' \in 0..(Len(nodes) + 1)
    BY <1>0, <1>5, <1>6, SMT DEF TypeOK
  <2> QED BY <2>1, <1>0, <1>1, <1>2 DEF TypeOK, IdOf
<1>8. ASSUME NEW f \in Builders PROVE Own(f)'
  <2>1. Rests(f)
    BY <1>1 DEF Rests
  <2>2. CASE f # e
    BY <2>1, <2>2, <1>0, <1>2, <1>3, OwnStays
  <2>3. CASE f = e
    <3>1. /\ Sorted(cfg[e])' /\ Sorted(base[e])'
          /\ \A i : IDAt(e, i)' = IDAt(e, i)
      BY <2>1, <2>3, <1>0, <1>3, ListsStay DEF Own
    <3>2. \A i \in DOMAIN built'[e] : IdOf(built[e][i])' = IDAt(e, i)'
      BY <3>1, <1>0, <1>1 DEF Own, IdOf
    <3>3. GoodOption(opt[e])'
      BY <1>0 DEF Own, GoodOption
    <3> QED BY <2>3, <3>1, <3>2, <3>3, <1>2 DEF Own
  <2> QED BY <2>2, <2>3
<1>9. Seen'
  <2>1. Working' \subseteq Working
    BY <1>2 DEF Working
  <2> QED BY <2>1, <1>0, <1>1, SeenStays
<1>10. Lives'
  <2>1. \A b \in Builders : cfg[b] # <<>> => pc'[b] = "returned"
    BY <1>0, <1>2, WorkingFacts DEF Lives
  <2>2. CASE e = Creator
    <3>1. \A f \in Extenders : pc'[f] = "idle"
      BY <2>2, <1>0, <1>2, WorkingFacts, OptionAssumption DEF Builders
    <3> QED BY <2>1, <2>2, <3>1, <1>1, <1>2, <1>6 DEF Lives
  <2>3. CASE e # Creator
    <3>1. pc'[Creator] = "returned"
      BY <2>3, <1>0, <1>2, WorkingFacts DEF Builders
    <3> QED BY <2>1, <3>1 DEF Lives
  <2> QED BY <2>2, <2>3
<1> QED BY <1>3, <1>4, <1>7, <1>8, <1>9, <1>10 DEF Inv

\* The entry that e is adding is the next one of its option.
LEMMA NextEntry ==
    ASSUME TypeOK, NEW e \in Builders, Own(e), Len(built[e]) < Entries(opt[e])
    PROVE  /\ Len(built[e]) + 1 \in 1..Entries(opt[e])
           /\ EntryID(e) = IDAt(e, Len(built[e]) + 1)
           /\ EntryID(e) \in Nat
           /\ EntryAddr(e) \in Addrs \cup {Invalid}
           /\ \A n \in Range(built[e]) : IdOf(n) < EntryID(e)
<1> DEFINE k == Len(built[e]) + 1
<1>1. opt[e] \in OptionKinds /\ built[e] \in Seq(DOMAIN nodes)
  BY DEF TypeOK
<1>2. Entries(opt[e]) \in Nat /\ Len(built[e]) \in Nat /\ DOMAIN built[e] = 1..Len(built[e])
  BY <1>1, SMT DEF OptionKinds, Entries
<1>3. k \in 1..Entries(opt[e])
  BY <1>2, SMT
<1>4. EntryID(e) = IDAt(e, k)
  BY DEF EntryID, IDAt
<1>5. IDAt(e, k) \in Nat
  BY <1>3, EntriesIncrease DEF Own
<1>6. EntryAddr(e) \in Addrs \cup {Invalid}
  <2>1. opt[e].addrs \in Seq(Addrs) /\ k \in DOMAIN opt[e].addrs
    BY <1>1, <1>3, SMT DEF OptionKinds, Entries
  <2>2. opt[e].addrs[k] \in Addrs
    BY <2>1, SMT
  <2> QED BY <2>2, OptionAssumption DEF EntryAddr
<1>7. ASSUME NEW n \in Range(built[e]) PROVE IdOf(n) < EntryID(e)
  <2>1. PICK i \in DOMAIN built[e] : built[e][i] = n
    BY DEF Range
  <2>2. i \in 1..Entries(opt[e]) /\ i < k
    BY <1>2, SMT
  <2>3. IDAt(e, i) < IDAt(e, k)
    BY <1>3, <2>2, EntriesIncrease DEF Own
  <2> QED BY <2>1, <2>3, <1>4 DEF Own
<1> QED BY <1>3, <1>4, <1>5, <1>6, <1>7

\* An entry of an ID that none of the known nodes has.
LEMMA NoneExisting ==
    ASSUME TypeOK, NEW e \in Builders, Existing(e) = {}
    PROVE  \A n \in known[e] : IdOf(n) # EntryID(e)
<1> DEFINE same == {n \in known[e] : IdOf(n) = EntryID(e)}
<1> SUFFICES ASSUME same # {} PROVE FALSE
  OBVIOUS
<1>1. nodes \in Seq(NodeRec) /\ known[e] \subseteq DOMAIN nodes
  BY DEF TypeOK, NodeRec
<1>2. DOMAIN nodes = 1..Len(nodes) /\ Len(nodes) \in Nat
  BY <1>1, SMT
<1>3. same \in SUBSET (1..Len(nodes)) /\ same \in SUBSET Nat
  BY <1>1, <1>2, SMT
<1>4. IsFiniteSet(same)
  <2>1. IsFiniteSet(1..Len(nodes))
    BY <1>2, FS_Interval, SMT
  <2> HIDE DEF same
  <2> QED BY <1>3, <2>1, FS_Subset
<1>5. Max(same) \in same /\ \A y \in same : y <= Max(same)
  <2> HIDE DEF same
  <2> QED BY <1>3, <1>4, MaxOf
<1>6. Max(same) \in Existing(e)
  BY <1>5 DEF Existing
<1> QED BY <1>6

\* Append at the end of a list of nodes.
LEMMA AppendFacts ==
    ASSUME NEW S, NEW s \in Seq(S), NEW n \in S
    PROVE  /\ Append(s, n) \in Seq(S)
           /\ Len(Append(s, n)) = Len(s) + 1 /\ Len(s) \in Nat
           /\ DOMAIN Append(s, n) = DOMAIN s \cup {Len(s) + 1}
           /\ \A i \in DOMAIN s : Append(s, n)[i] = s[i]
           /\ Append(s, n)[Len(s) + 1] = n
           /\ Range(Append(s, n)) = Range(s) \cup {n}
<1>1. /\ Append(s, n) \in Seq(S)
      /\ Len(Append(s, n)) = Len(s) + 1 /\ Len(s) \in Nat
      /\ DOMAIN Append(s, n) = DOMAIN s \cup {Len(s) + 1}
      /\ \A i \in DOMAIN s : Append(s, n)[i] = s[i]
      /\ Append(s, n)[Len(s) + 1] = n
  BY SMT
<1>2. Range(Append(s, n)) = Range(s) \cup {n}
  <2> DEFINE t == Append(s, n)
  <2> HIDE DEF t
  <2>1. /\ DOMAIN t = DOMAIN s \cup {Len(s) + 1}
        /\ \A i \in DOMAIN s : t[i] = s[i]
        /\ t[Len(s) + 1] = n
    BY <1>1 DEF t
  <2>2. Range(t) = Range(s) \cup {n}
    BY <2>1, SMT DEF Range
  <2> QED BY <2>2 DEF t
<1> QED BY <1>1, <1>2

\* The own state of a builder that adds node n to its list.
LEMMA OwnAppends ==
    ASSUME TypeOK, Kept, NEW e \in Builders, Own(e), NEW n,
           opt'[e] = opt[e], base'[e] = base[e], known'[e] = known[e], cfg'[e] = cfg[e],
           built'[e] = Append(built[e], n), n \in DOMAIN nodes', nodes'[n].id = EntryID(e),
           Len(built[e]) < Entries(opt[e]), pc'[e] = "add"
    PROVE  Own(e)'
<1>1. /\ Sorted(cfg[e])' /\ Sorted(base[e])'
      /\ \A i : IDAt(e, i)' = IDAt(e, i)
  BY ConfigsStay DEF Own
<1>2. built[e] \in Seq(DOMAIN nodes)
  BY DEF TypeOK
<1>3. built[e] \in Seq(DOMAIN nodes')
  BY <1>2, SeqGrows DEF Kept
<1>4. /\ DOMAIN built'[e] = DOMAIN built[e] \cup {Len(built[e]) + 1}
      /\ \A i \in DOMAIN built[e] : built'[e][i] = built[e][i]
      /\ built'[e][Len(built[e]) + 1] = n
  BY <1>3, AppendFacts, SMT
<1>5. \A i \in DOMAIN built[e] : nodes'[built[e][i]] = nodes[built[e][i]]
  BY <1>2, IDsKept
<1>6. EntryID(e) = IDAt(e, Len(built[e]) + 1)
  BY NextEntry
<1>7. ASSUME NEW i \in DOMAIN built'[e] PROVE IdOf(built[e][i])' = IDAt(e, i)'
  <2>1. CASE i \in DOMAIN built[e]
    BY <2>1, <1>1, <1>4, <1>5, SMT DEF Own, IdOf
  <2>2. CASE i = Len(built[e]) + 1
    BY <2>2, <1>1, <1>4, <1>6 DEF IdOf
  <2> QED BY <2>1, <2>2, <1>4
<1>8. GoodOption(opt[e])'
  BY DEF Own, GoodOption
<1> QED BY <1>1, <1>7, <1>8 DEF Own

\* nodeBuilder.add finds a node of the entry's ID and takes it.
LEMMA ReuseStep ==
    ASSUME Inv, NEW e \in Builders, pc[e] = "add", Len(built[e]) < Entries(opt[e]),
           NEW n \in Existing(e), built' = [built EXCEPT ![e] = Append(@, n)],
           UNCHANGED <<nodes, lookup, closedAt, pc, opt, base, known, cfg, beside>>
    PROVE  Inv'
<1>0. /\ TypeOK /\ Table /\ (\A f \in Builders : Own(f)) /\ Seen
      /\ DuplicatesOnlyFromRaces /\ Lives
  BY DEF Inv
<1>1. n \in known[e] /\ IdOf(n) = EntryID(e)
  BY DEF Existing
<1>2. n \in DOMAIN nodes /\ built[e] \in Seq(DOMAIN nodes)
  BY <1>0, <1>1 DEF TypeOK
<1>3. /\ built'[e] = Append(built[e], n)
      /\ \A f \in Builders : f # e => built'[f] = built[f]
  BY <1>0 DEF TypeOK
<1>4. Table' /\ Kept
  BY <1>0, TableStays
<1>5. DuplicatesOnlyFromRaces'
  BY <1>0, DuplicatesStay
<1>6. /\ built'[e] \in Seq(DOMAIN nodes)
      /\ Len(built'[e]) = Len(built[e]) + 1 /\ Len(built[e]) \in Nat
      /\ Range(built'[e]) = Range(built[e]) \cup {n}
  <2>1. /\ Append(built[e], n) \in Seq(DOMAIN nodes)
        /\ Len(Append(built[e], n)) = Len(built[e]) + 1 /\ Len(built[e]) \in Nat
        /\ Range(Append(built[e], n)) = Range(built[e]) \cup {n}
    BY <1>2, AppendFacts, SMT
  <2> QED BY <2>1, <1>3
<1>7. TypeOK'
  <2>1. built' \in [Builders -> Seq(DOMAIN nodes)]
    BY <1>0, <1>3, <1>6 DEF TypeOK
  <2>2. Entries(opt[e]) \in Nat
    BY <1>0, SMT DEF TypeOK, OptionKinds, Entries
  <2>3. \A f \in Builders : Len(built'[f]) <= Entries(opt[f])
    BY <1>0, <1>3, <1>6, <2>2, SMT DEF TypeOK
  <2> QED BY <1>0, <2>1, <2>3, SMTT(60) DEF TypeOK, IdOf
<1>8. ASSUME NEW f \in Builders PROVE Own(f)'
  <2>1. CASE f # e
    <3>1. Rests(f)
      BY <2>1, <1>3 DEF Rests
    <3> QED BY <3>1, <1>0, <1>4, OwnStays
  <2>2. CASE f = e
    <3>1. nodes'[n].id = EntryID(e)
      BY <1>1 DEF IdOf
    <3> QED BY <2>2, <3>1, <1>0, <1>2, <1>3, <1>4, OwnAppends
  <2> QED BY <2>1, <2>2
<1>9. Seen'
  <2>1. Working' = Working /\ Working \subseteq Builders
    BY DEF Working
  <2>2. \A f \in Builders : Range(built[f]) \subseteq Range(built'[f])
    BY <1>3, <1>6
  <2> QED BY <2>1, <2>2, <1>0 DEF Seen
<1>10. Lives'
  BY <1>0 DEF Lives
<1> QED BY <1>4, <1>5, <1>7, <1>8, <1>9, <1>10 DEF Inv

\* nodeBuilder.add finds nothing against a new node.
LEMMA CheckStep ==
    ASSUME Inv, NEW e \in Builders, pc[e] = "add", Vetted(e),
           pc' = [pc EXCEPT ![e] = "register"],
           UNCHANGED <<nodes, lookup, closedAt, built, opt, base, known, cfg, beside>>
    PROVE  Inv'
<1>0. /\ TypeOK /\ Table /\ (\A f \in Builders : Own(f)) /\ Seen
      /\ DuplicatesOnlyFromRaces /\ Lives
  BY DEF Inv
<1>1. /\ pc'[e] = "register" /\ \A f \in Builders : f # e => pc'[f] = pc[f]
      /\ pc' \in [Builders -> {"idle", "add", "register", "returned", "failed"}]
  BY <1>0 DEF TypeOK
<1>2. Table' /\ Kept
  BY <1>0, TableStays
<1>3. DuplicatesOnlyFromRaces'
  BY <1>0, DuplicatesStay
<1>4. TypeOK'
  BY <1>0, <1>1 DEF TypeOK, IdOf
<1>5. ASSUME NEW f \in Builders PROVE Own(f)'
  <2>1. Rests(f)
    BY DEF Rests
  <2>2. CASE f # e
    BY <2>1, <2>2, <1>0, <1>1, <1>2, OwnStays
  <2>3. CASE f = e
    <3>1. Vetted(e)'
      BY <2>1, <2>3, <1>0, <1>2, VettedStays
    <3>2. /\ Sorted(cfg[e])' /\ Sorted(base[e])'
          /\ \A i : IDAt(e, i)' = IDAt(e, i)
      BY <2>1, <2>3, <1>0, <1>2, ListsStay DEF Own
    <3>3. \A i \in DOMAIN built'[e] : IdOf(built[e][i])' = IDAt(e, i)'
      BY <3>2, <1>0 DEF Own, IdOf
    <3>4. GoodOption(opt[e])'
      BY <1>0 DEF Own, GoodOption
    <3> QED BY <2>3, <3>1, <3>2, <3>3, <3>4, <1>1 DEF Own
  <2> QED BY <2>2, <2>3
<1>6. Seen'
  <2>1. Working' \subseteq Working
    BY <1>1 DEF Working
  <2> QED BY <2>1, <1>0, SeenStays
<1>7. Lives'
  <2>1. \A b \in Builders : cfg[b] # <<>> => pc'[b] = "returned"
    BY <1>0, <1>1 DEF Lives
  <2>2. CASE e = Creator
    <3>1. closedAt = 0 /\ \A f \in Extenders : pc'[f] = "idle"
      BY <2>2, <1>0, <1>1, WorkingFacts, OptionAssumption DEF Builders
    <3> QED BY <2>1, <2>2, <3>1, <1>1 DEF Lives
  <2>3. CASE e # Creator
    <3>1. pc'[Creator] = "returned"
      BY <2>3, <1>0, <1>1, WorkingFacts DEF Builders
    <3> QED BY <2>1, <3>1 DEF Lives
  <2> QED BY <2>2, <2>3
<1> QED BY <1>2, <1>3, <1>4, <1>5, <1>6, <1>7 DEF Inv

\* Configuration.Close by the application.
LEMMA CloseStep ==
    ASSUME Inv, Close PROVE Inv'
<1>0. /\ TypeOK /\ Table /\ (\A f \in Builders : Own(f)) /\ Seen
      /\ DuplicatesOnlyFromRaces /\ Lives
  BY DEF Inv
<1>1. UNCHANGED <<nodes, lookup, pc, opt, base, known, built, cfg, beside>>
  BY DEF Close
<1>2. closedAt' = Len(nodes) + 1 /\ Len(nodes) \in Nat
  BY <1>0, SMT DEF Close, closeNodes, TypeOK
<1>3. Table' /\ Kept
  BY <1>0, <1>1, TableStays
<1>4. DuplicatesOnlyFromRaces'
  BY <1>0, <1>1, DuplicatesStay
<1>5. TypeOK'
  BY <1>0, <1>1, <1>2, SMT DEF TypeOK, IdOf
<1>6. ASSUME NEW f \in Builders PROVE Own(f)'
  <2>1. Rests(f)
    BY <1>1 DEF Rests
  <2> QED BY <2>1, <1>0, <1>1, <1>3, OwnStays
<1>7. Seen'
  <2>1. Working' \subseteq Working
    BY <1>1 DEF Working
  <2> QED BY <2>1, <1>0, <1>1, SeenStays
<1>8. Lives'
  <2>1. PICK b \in Builders : cfg[b] # <<>>
    BY DEF Close
  <2>2. pc[Creator] = "returned"
    BY <2>1, <1>0 DEF Lives, Builders
  <2> QED BY <2>2, <1>0, <1>1 DEF Lives
<1> QED BY <1>3, <1>4, <1>5, <1>6, <1>7, <1>8 DEF Inv

\* addNode: the one step that makes nodes, and so duplicates.
LEMMA RegisterStep ==
    ASSUME Inv, NEW e \in Builders, pc[e] = "register", NEW n, n = Len(nodes) + 1,
           nodes' = Append(nodes, [id |-> EntryID(e), addr |-> EntryAddr(e), by |-> e]),
           lookup' = [id \in DOMAIN lookup \cup {EntryID(e)} |->
                         IF id = EntryID(e) THEN n ELSE lookup[id]],
           built' = [built EXCEPT ![e] = Append(@, n)],
           pc' = [pc EXCEPT ![e] = "add"],
           UNCHANGED <<closedAt, opt, base, known, cfg, beside>>
    PROVE  Inv'
<1> DEFINE r == [id |-> EntryID(e), addr |-> EntryAddr(e), by |-> e]
<1>0. /\ TypeOK /\ Table /\ (\A f \in Builders : Own(f)) /\ Seen
      /\ DuplicatesOnlyFromRaces /\ Lives /\ Vetted(e)
  BY DEF Inv, Own
<1>1. /\ nodes \in Seq(NodeRec) /\ known[e] \subseteq DOMAIN nodes
      /\ built[e] \in Seq(DOMAIN nodes) /\ Entries(opt[e]) \in Nat
  BY <1>0, SMT DEF TypeOK, NodeRec, OptionKinds, Entries
<1>2. /\ EntryID(e) \in Nat /\ EntryID(e) # 0 /\ EntryAddr(e) \in Addrs
      /\ Len(built[e]) < Entries(opt[e])
      /\ \A m \in Range(built[e]) : IdOf(m) < EntryID(e)
  BY <1>0, NextEntry DEF Vetted, Reserved
<1>3. r \in NodeRec
  BY <1>2 DEF NodeRec
<1>4. /\ nodes' \in Seq(NodeRec) /\ Len(nodes') = Len(nodes) + 1 /\ Len(nodes) \in Nat
      /\ DOMAIN nodes' = DOMAIN nodes \cup {n}
      /\ \A m \in DOMAIN nodes : nodes'[m] = nodes[m]
      /\ nodes'[n] = r
  <2> HIDE DEF r
  <2>1. nodes' = Append(nodes, r)
    BY DEF r
  <2>2. /\ Append(nodes, r) \in Seq(NodeRec) /\ Len(Append(nodes, r)) = Len(nodes) + 1
        /\ Len(nodes) \in Nat
        /\ DOMAIN Append(nodes, r) = DOMAIN nodes \cup {Len(nodes) + 1}
        /\ \A m \in DOMAIN nodes : Append(nodes, r)[m] = nodes[m]
        /\ Append(nodes, r)[Len(nodes) + 1] = r
    BY <1>1, <1>3, AppendFacts, SMT
  <2> QED BY <2>1, <2>2
<1>5. n \notin DOMAIN nodes
  BY <1>1, <1>4, SMT
<1>6. Kept
  BY <1>4 DEF Kept
<1>7. /\ nodes'[n].id = EntryID(e) /\ nodes'[n].addr = EntryAddr(e) /\ nodes'[n].by = e
  BY <1>4, SMT
<1>8. /\ pc'[e] = "add" /\ \A f \in Builders : f # e => pc'[f] = pc[f]
      /\ pc' \in [Builders -> {"idle", "add", "register", "returned", "failed"}]
      /\ built'[e] = Append(built[e], n) /\ \A f \in Builders : f # e => built'[f] = built[f]
  BY <1>0 DEF TypeOK
<1>9. built[e] \in Seq(DOMAIN nodes') /\ n \in DOMAIN nodes'
  BY <1>1, <1>4, <1>6, SeqGrows DEF Kept
<1>10. /\ built'[e] \in Seq(DOMAIN nodes')
       /\ Len(built'[e]) = Len(built[e]) + 1 /\ Len(built[e]) \in Nat
       /\ Range(built'[e]) = Range(built[e]) \cup {n}
  <2>1. /\ Append(built[e], n) \in Seq(DOMAIN nodes')
        /\ Len(Append(built[e], n)) = Len(built[e]) + 1 /\ Len(built[e]) \in Nat
        /\ Range(Append(built[e], n)) = Range(built[e]) \cup {n}
    BY <1>9, AppendFacts, SMT
  <2> QED BY <2>1, <1>8
<1>11. /\ DOMAIN lookup' = DOMAIN lookup \cup {EntryID(e)} /\ lookup'[EntryID(e)] = n
       /\ \A id \in DOMAIN lookup : id # EntryID(e) => lookup'[id] = lookup[id]
  OBVIOUS
<1>12. Table'
  <2>1. ASSUME NEW id \in DOMAIN lookup'
        PROVE  lookup'[id] \in DOMAIN nodes' /\ nodes'[lookup'[id]].id = id
    <3>1. CASE id = EntryID(e)
      BY <3>1, <1>4, <1>7, <1>11
    <3>2. CASE id # EntryID(e)
      BY <3>2, <1>0, <1>4, <1>11 DEF Table, IdOf
    <3> QED BY <3>1, <3>2
  <2>2. ASSUME NEW m \in DOMAIN nodes' PROVE nodes'[m].id \in DOMAIN lookup'
    <3>1. CASE m = n
      BY <3>1, <1>7, <1>11
    <3>2. CASE m \in DOMAIN nodes
      BY <3>2, <1>0, <1>4, <1>11 DEF Table, IdOf
    <3> QED BY <3>1, <3>2, <1>4
  <2> QED BY <2>1, <2>2, <1>4 DEF Table, IdOf
<1>13. TypeOK'
  <2>1. /\ base' \in [Builders -> Seq(DOMAIN nodes')] /\ cfg' \in [Builders -> Seq(DOMAIN nodes')]
        /\ known' \in [Builders -> SUBSET DOMAIN nodes']
    <3>1. /\ base \in [Builders -> Seq(DOMAIN nodes)] /\ cfg \in [Builders -> Seq(DOMAIN nodes)]
          /\ known \in [Builders -> SUBSET DOMAIN nodes] /\ DOMAIN nodes \subseteq DOMAIN nodes'
      BY <1>0, <1>4 DEF TypeOK
    <3>2. Seq(DOMAIN nodes) \subseteq Seq(DOMAIN nodes')
      BY <3>1, SeqGrows
    <3> QED BY <3>1, <3>2
  <2>2. built' \in [Builders -> Seq(DOMAIN nodes')]
    <3>1. built \in [Builders -> Seq(DOMAIN nodes)] /\ DOMAIN nodes \subseteq DOMAIN nodes'
      BY <1>0, <1>4 DEF TypeOK
    <3>2. \A f \in Builders : built'[f] \in Seq(DOMAIN nodes')
      BY <3>1, <1>8, <1>10, SeqGrows
    <3>3. DOMAIN built' = Builders /\ built' = [f \in Builders |-> built'[f]]
      BY <3>1
    <3> QED BY <3>2, <3>3
  <2>3. \A f \in Builders : Len(built'[f]) <= Entries(opt'[f])
    <3> SUFFICES ASSUME NEW f \in Builders PROVE Len(built'[f]) <= Entries(opt[f])
      BY DEF Entries
    <3>1. CASE f = e
      BY <3>1, <1>1, <1>2, <1>10, SMT
    <3>2. CASE f # e
      BY <3>2, <1>0, <1>8 DEF TypeOK
    <3> QED BY <3>1, <3>2
  <2>4. closedAt' \in 0..(Len(nodes') + 1)
    BY <1>0, <1>4, SMT DEF TypeOK
  <2>5. /\ nodes' \in Seq([id : Nat \ {0}, addr : Addrs, by : Builders])
        /\ \A id \in DOMAIN lookup' : (lookup[id] \in DOMAIN nodes /\ IdOf(lookup[id]) = id)'
    BY <1>4, <1>12 DEF NodeRec, Table
  <2>6. opt' \in [Builders -> OptionKinds] /\ beside' \subseteq SUBSET Builders
    BY <1>0 DEF TypeOK
  <2> QED BY <2>1, <2>2, <2>3, <2>4, <2>5, <2>6, <1>8, ZenonT(40) DEF TypeOK
<1>14. ASSUME NEW f \in Builders PROVE Own(f)'
  <2>1. CASE f # e
    <3>1. Rests(f) /\ pc'[f] = pc[f]
      BY <2>1, <1>8 DEF Rests
    <3> QED BY <3>1, <1>0, <1>6, OwnStays
  <2>2. CASE f = e
    BY <2>2, <1>0, <1>2, <1>6, <1>7, <1>8, <1>9, OwnAppends
  <2> QED BY <2>1, <2>2
<1>15. Seen'
  <2>1. Working' = Working /\ Working \subseteq Builders /\ e \in Working
    <3>1. \A f \in Builders : pc'[f] \in {"add", "register"} <=> pc[f] \in {"add", "register"}
      BY <1>8
    <3> QED BY <3>1 DEF Working
  <2>2. \A f \in Builders : Range(built[f]) \subseteq Range(built'[f])
    BY <1>8, <1>10
  <2>3. ASSUME NEW f \in Working, NEW m \in DOMAIN nodes'
        PROVE  m \in known[f] \/ m \in Range(built'[f]) \/ {nodes'[m].by, f} \in beside
    <3>1. CASE m \in DOMAIN nodes
      BY <3>1, <2>1, <2>2, <1>0, <1>4 DEF Seen
    <3>2. CASE m = n /\ f = e
      BY <3>2, <1>10
    <3>3. CASE m = n /\ f # e
      BY <3>3, <2>1, <1>0, <1>7 DEF Seen
    <3> QED BY <3>1, <3>2, <3>3, <1>4
  <2>4. \A f \in Builders : Range(built[f])' = Range(built'[f])
    BY DEF Range
  <2> QED BY <2>1, <2>3, <2>4, <1>0 DEF Seen
<1>16. DuplicatesOnlyFromRaces'
  <2>1. ASSUME NEW m \in DOMAIN nodes,
               nodes[m].id = EntryID(e) \/ nodes[m].addr = EntryAddr(e)
        PROVE  {nodes[m].by, e} \in beside
    <3>1. m \notin known[e]
      <4>1. \A k \in known[e] : IdOf(k) # EntryID(e)
        BY <1>0, NoneExisting DEF Vetted
      <4>2. \A k \in known[e] : nodes[k].addr # EntryAddr(e)
        BY <1>0 DEF Vetted, AddrTaken
      <4> QED BY <2>1, <4>1, <4>2 DEF IdOf
    <3>2. m \notin Range(built[e])
      <4>1. \A k \in Range(built[e]) : nodes[k].addr # EntryAddr(e)
        BY <1>0 DEF Vetted, AddrTaken
      <4>2. \A k \in Range(built[e]) : IdOf(k) # EntryID(e)
        <5>1. \A k \in Range(built[e]) : IdOf(k) \in Nat
          BY <1>1, SeqElems, IDsAreNumbers
        <5> QED BY <1>2, <5>1, SMT
      <4> QED BY <2>1, <4>1, <4>2 DEF IdOf
    <3>3. e \in Working
      BY DEF Working
    <3> QED BY <3>1, <3>2, <3>3, <1>0 DEF Seen
  <2>2. ASSUME NEW i \in DOMAIN nodes', NEW j \in DOMAIN nodes', i # j,
               nodes'[i].id = nodes'[j].id \/ nodes'[i].addr = nodes'[j].addr
        PROVE  {nodes'[i].by, nodes'[j].by} \in beside
    <3>1. CASE i \in DOMAIN nodes /\ j \in DOMAIN nodes
      BY <3>1, <2>2, <1>0, <1>4 DEF DuplicatesOnlyFromRaces, IdOf
    <3>2. CASE i \in DOMAIN nodes /\ j = n
      BY <3>2, <2>1, <2>2, <1>4, <1>7
    <3>3. CASE j \in DOMAIN nodes /\ i = n
      <4>1. {nodes'[j].by, e} \in beside
        BY <3>3, <2>1, <2>2, <1>4, <1>7
      <4>2. {nodes'[i].by, nodes'[j].by} = {nodes'[j].by, e}
        BY <3>3, <1>7
      <4> QED BY <4>1, <4>2
    <3> QED BY <2>2, <3>1, <3>2, <3>3, <1>4
  <2> QED BY <2>2 DEF DuplicatesOnlyFromRaces, IdOf
<1>17. Lives'
  <2>1. \A b \in Builders : cfg[b] # <<>> => pc'[b] = "returned"
    BY <1>0, <1>8 DEF Lives
  <2>2. CASE e = Creator
    <3>1. closedAt = 0 /\ \A f \in Extenders : pc'[f] = "idle"
      BY <2>2, <1>0, <1>8, WorkingFacts, OptionAssumption DEF Builders
    <3> QED BY <2>1, <2>2, <3>1, <1>8 DEF Lives
  <2>3. CASE e # Creator
    <3>1. pc'[Creator] = "returned"
      BY <2>3, <1>0, <1>8, WorkingFacts DEF Builders
    <3> QED BY <2>1, <3>1 DEF Lives
  <2> QED BY <2>2, <2>3
<1> QED BY <1>12, <1>13, <1>14, <1>15, <1>16, <1>17 DEF Inv

\* The nodes of a builder's list have different IDs.
LEMMA BuiltApart ==
    ASSUME TypeOK, NEW e \in Builders, Own(e)
    PROVE  \A m, n \in Range(built[e]) : IdOf(m) = IdOf(n) => m = n
<1> SUFFICES ASSUME NEW m \in Range(built[e]), NEW n \in Range(built[e]), IdOf(m) = IdOf(n)
             PROVE  m = n
  OBVIOUS
<1>1. PICK i \in DOMAIN built[e] : built[e][i] = m
  BY DEF Range
<1>2. PICK j \in DOMAIN built[e] : built[e][j] = n
  BY DEF Range
<1>3. /\ built[e] \in Seq(DOMAIN nodes) /\ Len(built[e]) <= Entries(opt[e])
      /\ Entries(opt[e]) \in Nat
  BY SMT DEF TypeOK, OptionKinds, Entries
<1>4. i \in 1..Entries(opt[e]) /\ j \in 1..Entries(opt[e]) /\ i \in Nat /\ j \in Nat
  BY <1>3, SMT
<1>5. IDAt(e, i) = IDAt(e, j)
  BY <1>1, <1>2 DEF Own
<1>6. GoodOption(opt[e])
  BY DEF Own
<1>7. IDAt(e, i) \in Nat /\ (i < j => IDAt(e, i) < IDAt(e, j))
  BY <1>4, <1>6, EntriesIncrease
<1>8. IDAt(e, j) \in Nat /\ (j < i => IDAt(e, j) < IDAt(e, i))
  BY <1>4, <1>6, EntriesIncrease
<1>9. i = j
  BY <1>4, <1>5, <1>7, <1>8, SMT
<1> QED BY <1>1, <1>2, <1>9

\* The configuration that NewConfig and Extend return.
LEMMA FinishStep ==
    ASSUME Inv, NEW e \in Builders, Finish(e) PROVE Inv'
<1> DEFINE d == SortByID(Range(built[e]))
           u == Union(base[e], d)
<1>0. /\ TypeOK /\ Table /\ (\A f \in Builders : Own(f)) /\ Seen
      /\ DuplicatesOnlyFromRaces /\ Lives
  BY DEF Inv
<1>1. /\ pc[e] = "add" /\ cfg' = [cfg EXCEPT ![e] = u] /\ pc' = [pc EXCEPT ![e] = "returned"]
      /\ UNCHANGED <<nodes, lookup, closedAt, opt, base, known, built, beside>>
  BY DEF Finish
<1>2. /\ pc'[e] = "returned" /\ \A f \in Builders : f # e => pc'[f] = pc[f]
      /\ pc' \in [Builders -> {"idle", "add", "register", "returned", "failed"}]
      /\ cfg'[e] = u /\ \A f \in Builders : f # e => cfg'[f] = cfg[f]
  <2> HIDE DEF u
  <2> QED BY <1>0, <1>1 DEF TypeOK
<1>3. Table' /\ Kept
  BY <1>0, <1>1, TableStays
<1>4. DuplicatesOnlyFromRaces'
  BY <1>0, <1>1, DuplicatesStay
<1>5. /\ nodes \in Seq(NodeRec) /\ base[e] \in Seq(DOMAIN nodes) /\ Sorted(base[e])
      /\ built[e] \in Seq(DOMAIN nodes)
  BY <1>0 DEF TypeOK, NodeRec, Own
<1>6. Range(built[e]) \in SUBSET DOMAIN nodes /\ Range(base[e]) \in SUBSET DOMAIN nodes
  BY <1>5, SeqElems
<1>7. d \in Seq(DOMAIN nodes) /\ Sorted(d) /\ Range(d) = Range(built[e])
  BY <1>0, <1>5, <1>6, BuiltApart, SortFacts
<1>8. NodeIDs(d) = NodeIDs(built[e])
  BY <1>7, IDsOfSet
<1>9. /\ u \in Seq(DOMAIN nodes) /\ Sorted(u)
      /\ NodeIDs(u) = NodeIDs(base[e]) \cup NodeIDs(built[e])
      /\ Range(base[e]) \subseteq Range(u)
  <2> HIDE DEF d
  <2> QED BY <1>0, <1>5, <1>7, <1>8, UnionFacts
<1> HIDE DEF u, d
<1>10. ASSUME NEW n \in (Range(base[e]) \cup Range(built[e])) \ Range(u)
       PROVE  \E m \in Range(u) : IdOf(m) = IdOf(n) /\ {nodes[m].by, nodes[n].by} \in beside
  <2>1. n \in Range(built[e]) /\ n \notin Range(u) /\ n \in DOMAIN nodes
    BY <1>6, <1>9, <1>10
  <2>2. IdOf(n) \in NodeIDs(built[e])
    BY <2>1, IDsOf
  <2>3. PICK m \in Range(u) : IdOf(m) = IdOf(n)
    BY <2>2, <1>9, IDsOf
  <2>4. m \in DOMAIN nodes /\ m # n
    BY <2>1, <2>3, <1>9, SeqElems
  <2> QED BY <2>1, <2>3, <2>4, <1>0 DEF DuplicatesOnlyFromRaces
<1>11. TypeOK'
  <2>1. cfg' \in [Builders -> Seq(DOMAIN nodes)]
    BY <1>0, <1>1, <1>9 DEF TypeOK
  <2> QED BY <2>1, <1>0, <1>1, <1>2, SMT DEF TypeOK, IdOf
<1>12. Complete(e)'
  <2>1. /\ Range(cfg[e])' = Range(u) /\ Range(base[e])' = Range(base[e])
        /\ Range(built[e])' = Range(built[e])
    BY <1>1, <1>2, SMT DEF Range
  <2>2. /\ NodeIDs(cfg[e])' = NodeIDs(u) /\ NodeIDs(base[e])' = NodeIDs(base[e])
        /\ NodeIDs(built[e])' = NodeIDs(built[e])
    BY <1>1, <1>2, SMT DEF NodeIDs, IdOf
  <2>3. Sorted(cfg[e])'
    BY <1>1, <1>2, <1>9 DEF Sorted, IdOf
  <2>4. \A n : IdOf(n)' = IdOf(n) /\ nodes'[n].by = nodes[n].by
    BY <1>1 DEF IdOf
  <2>5. \A n \in (Range(base[e])' \cup Range(built[e])') \ Range(cfg[e])' :
           \E m \in Range(cfg[e])' :
               IdOf(m)' = IdOf(n)' /\ {nodes'[m].by, nodes'[n].by} \in beside'
    BY <2>1, <2>4, <1>1, <1>10
  <2> QED BY <2>2, <2>3, <2>5, <1>9 DEF Complete
<1>13. ASSUME NEW f \in Builders PROVE Own(f)'
  <2>1. CASE f # e
    <3>1. Rests(f) /\ pc'[f] = pc[f]
      BY <2>1, <1>1, <1>2 DEF Rests
    <3> QED BY <3>1, <1>0, <1>1, <1>3, OwnStays
  <2>2. CASE f = e
    <3>1. FirstListID(e)' = FirstListID(e)
      BY <1>1 DEF FirstListID, IdOf
    <3>2. \A i : IDAt(e, i)' = IDAt(e, i)
      BY <1>1, <3>1 DEF IDAt
    <3>3. \A i \in DOMAIN built'[e] : IdOf(built[e][i])' = IDAt(e, i)'
      BY <3>2, <1>0, <1>1 DEF Own, IdOf
    <3>4. GoodOption(opt[e])' /\ Sorted(base[e])'
      BY <1>0, <1>1 DEF Own, GoodOption, Sorted, IdOf
    <3>5. Sorted(cfg[e])'
      BY <1>12 DEF Complete
    <3> QED BY <2>2, <3>3, <3>4, <3>5, <1>2, <1>12 DEF Own
  <2> QED BY <2>1, <2>2
<1>14. Seen'
  <2>1. Working' \subseteq Working
    BY <1>2 DEF Working
  <2> QED BY <2>1, <1>0, <1>1, SeenStays
<1>15. Lives'
  <2>1. \A b \in Builders : cfg'[b] # <<>> => pc'[b] = "returned"
    BY <1>0, <1>2 DEF Lives
  <2>2. pc'[Creator] = "returned"
    BY <1>0, <1>1, <1>2, WorkingFacts DEF Builders
  <2> QED BY <2>1, <2>2 DEF Lives
<1> QED BY <1>3, <1>4, <1>11, <1>13, <1>14, <1>15 DEF Inv

-----------------------------------------------------------------------------
(* The theorems *)

\* A new manager satisfies the invariant.
LEMMA InitInv == Init => Inv
<1> SUFFICES ASSUME Init PROVE Inv
  OBVIOUS
<1>1. /\ \A e \in Builders : /\ pc[e] = "idle" /\ base[e] = <<>> /\ known[e] = {}
                             /\ built[e] = <<>> /\ cfg[e] = <<>> /\ opt[e].isList
                             /\ opt[e].addrs = <<>>
      /\ nodes = <<>> /\ lookup = <<>> /\ closedAt = 0 /\ beside = {}
  BY DEF Init
<1>2. DOMAIN nodes = {} /\ DOMAIN lookup = {} /\ Len(nodes) = 0
  BY <1>1, SMT
<1>3. \A S : <<>> \in Seq(S)
  BY SMT
<1>4. TypeOK
  <2>1. [isList |-> TRUE, ids |-> <<>>, addrs |-> <<>>] \in OptionKinds
    BY SMT DEF OptionKinds
  <2>2. opt \in [Builders -> OptionKinds]
    BY <2>1 DEF Init
  <2>3. {base, built, cfg} \subseteq [Builders -> Seq(DOMAIN nodes)]
    BY <1>3 DEF Init
  <2>4. nodes \in Seq([id : Nat \ {0}, addr : Addrs, by : Builders])
    BY <1>1, <1>3
  <2>5. \A e \in Builders : Len(built[e]) <= Entries(opt[e])
    BY <1>1, SMT DEF Entries
  <2> QED BY <2>2, <2>3, <2>4, <2>5, <1>1, <1>2, SMT DEF TypeOK, Init
<1>5. Table
  BY <1>1, <1>2, <1>3 DEF Table
<1>6. \A e \in Builders : Own(e)
  BY <1>1, SMT DEF Own, GoodOption, Sorted
<1>7. Seen /\ DuplicatesOnlyFromRaces /\ Lives
  BY <1>1, <1>2, SMT DEF Seen, Working, DuplicatesOnlyFromRaces, Lives, Builders
<1> QED BY <1>4, <1>5, <1>6, <1>7 DEF Inv

\* Every step of every builder keeps the invariant.
LEMMA StepInv == Inv /\ [Next]_vars => Inv'
<1> SUFFICES ASSUME Inv, [Next]_vars PROVE Inv'
  OBVIOUS
<1>1. CASE UNCHANGED vars
  <2>1. UNCHANGED <<nodes, lookup, closedAt, pc, opt, base, known, built, cfg, beside>>
    BY <1>1 DEF vars
  <2>2. Table' /\ Kept /\ DuplicatesOnlyFromRaces'
    BY <2>1, TableStays, DuplicatesStay DEF Inv
  <2>3. TypeOK' /\ Lives'
    BY <2>1 DEF Inv, TypeOK, Lives, IdOf
  <2>4. ASSUME NEW e \in Builders PROVE Own(e)'
    <3>1. Rests(e) /\ TypeOK /\ Own(e)
      BY <2>1 DEF Rests, Inv
    <3> QED BY <3>1, <2>1, <2>2, OwnStays
  <2>5. Seen'
    <3>1. Working' \subseteq Working
      BY <2>1 DEF Working
    <3> QED BY <3>1, <2>1, SeenStays DEF Inv
  <2> QED BY <2>2, <2>3, <2>4, <2>5 DEF Inv
<1>2. CASE Close
  BY <1>2, CloseStep
<1>3. ASSUME NEW e \in Builders, Begin(e) PROVE Inv'
  BY <1>3, BeginStep
<1>4. ASSUME NEW e \in Builders, NoEntries(e) PROVE Inv'
  BY <1>4, FailStep DEF NoEntries
<1>5. ASSUME NEW e \in Builders, add(e) PROVE Inv'
  <2>1. /\ pc[e] = "add" /\ Len(built[e]) < Entries(opt[e])
        /\ UNCHANGED <<opt, base, known, cfg, beside>>
    BY <1>5 DEF add
  <2>2. CASE Fail(e)
    BY <2>1, <2>2, FailStep
  <2>3. CASE \E n \in Existing(e) : /\ built' = [built EXCEPT ![e] = Append(@, n)]
                                    /\ UNCHANGED <<nodes, lookup, closedAt, pc>>
    BY <2>1, <2>3, ReuseStep
  <2>4. CASE /\ Vetted(e) /\ pc' = [pc EXCEPT ![e] = "register"]
             /\ UNCHANGED <<nodes, lookup, closedAt, built>>
    BY <2>1, <2>4, CheckStep
  <2> QED BY <1>5, <2>2, <2>3, <2>4 DEF add, Vetted
<1>6. ASSUME NEW e \in Builders, register(e) PROVE Inv'
  <2>1. pc[e] = "register" /\ UNCHANGED <<opt, base, known, cfg, beside>>
    BY <1>6 DEF register
  <2>2. CASE Fail(e)
    BY <2>1, <2>2, FailStep
  <2>3. CASE ~Fail(e)
    <3> DEFINE n == Len(nodes) + 1
    <3>1. /\ nodes' = Append(nodes, [id |-> EntryID(e), addr |-> EntryAddr(e), by |-> e])
          /\ lookup' = [id \in DOMAIN lookup \cup {EntryID(e)} |->
                           IF id = EntryID(e) THEN n ELSE lookup[id]]
          /\ built' = [built EXCEPT ![e] = Append(@, n)]
          /\ pc' = [pc EXCEPT ![e] = "add"]
          /\ UNCHANGED closedAt
      BY <1>6, <2>3 DEF register
    <3> HIDE DEF n
    <3>2. n = Len(nodes) + 1
      BY DEF n
    <3> QED BY <2>1, <3>1, <3>2, RegisterStep
  <2> QED BY <2>2, <2>3
<1>7. ASSUME NEW e \in Builders, Finish(e) PROVE Inv'
  BY <1>7, FinishStep
<1> QED BY <1>1, <1>2, <1>3, <1>4, <1>5, <1>6, <1>7 DEF Next

\* Everything below follows from this invariant.
THEOREM Invariance == Spec => []Inv
BY InitInv, StepInv, PTL DEF Spec

\* The tables of the manager (mgr.go) and what builders hold of them are well
\* formed; every look-up finds a node of the ID that was looked up.
THEOREM TypeCorrect == Spec => []TypeOK
<1>1. Inv => TypeOK
  BY DEF Inv
<1> QED BY <1>1, Invariance, PTL

\* The checks of nodeBuilder.add and newNode, made outside the manager's lock,
\* let two nodes share an ID or an address only when the builders that added
\* them ran side by side, for any number of builders.
THEOREM DuplicatesHaveRaces == Spec => []DuplicatesOnlyFromRaces
<1>1. Inv => DuplicatesOnlyFromRaces
  BY DEF Inv
<1> QED BY <1>1, Invariance, PTL

\* NewConfig and Extend return all the IDs they were given, once and in order;
\* a node that is missing was displaced by a builder beside its own.
THEOREM ConfigsAreComplete == Spec => []ConfigIsComplete
<1>1. Inv => ConfigIsComplete
  BY DEF Inv, Own, Complete, ConfigIsComplete
<1> QED BY <1>1, Invariance, PTL

\* NewConfig's error path closes every node it had registered, and nobody can
\* extend a configuration of that manager.
THEOREM FailureClosesAll == Spec => []FailedNewConfigClosesAll
<1>1. Inv => FailedNewConfigClosesAll
  BY DEF Inv, Lives, FailedNewConfigClosesAll
<1> QED BY <1>1, Invariance, PTL

(* Equal, Union, Difference and Remove, on the configurations that builders
   returned, are equality, union and difference of sets of IDs.              *)
THEOREM SetOperations == Spec => []ConfigurationsAreSets
<1>1. ASSUME Inv PROVE ConfigurationsAreSets
  <2> SUFFICES ASSUME NEW e \in Builders, NEW f \in Builders
               PROVE  LET c == cfg[e]
                          d == cfg[f]
                      IN /\ Equal(c, d) <=> NodeIDs(c) = NodeIDs(d)
                         /\ NodeIDs(Union(c, d)) = NodeIDs(c) \cup NodeIDs(d)
                         /\ Equal(Union(c, d), Union(d, c))
                         /\ Equal(Union(Difference(c, d), d), Union(c, d))
                         /\ Equal(RemoveIDs(Union(c, d), NodeIDs(d) \ NodeIDs(c)), c)
    BY DEF ConfigurationsAreSets
  <2> DEFINE c == cfg[e]
             d == cfg[f]
             less == Difference(c, d)
             back == RemoveIDs(Union(c, d), NodeIDs(d) \ NodeIDs(c))
             Good(s) == s \in Seq(DOMAIN nodes) /\ Sorted(s)
  <2>1. Table /\ nodes \in Seq(NodeRec) /\ Good(c) /\ Good(d)
    BY <1>1 DEF Inv, Table, TypeOK, Own
  <2> HIDE DEF c, d
  <2>2. Good(Union(c, d)) /\ NodeIDs(Union(c, d)) = NodeIDs(c) \cup NodeIDs(d)
    BY <2>1, UnionFacts
  <2>3. Good(Union(d, c)) /\ NodeIDs(Union(d, c)) = NodeIDs(d) \cup NodeIDs(c)
    BY <2>1, UnionFacts
  <2>4. Good(less) /\ NodeIDs(less) = NodeIDs(c) \ NodeIDs(d)
    BY <2>1, RemoveFacts DEF Difference
  <2>5. Good(back) /\ NodeIDs(back) = NodeIDs(Union(c, d)) \ (NodeIDs(d) \ NodeIDs(c))
    BY <2>1, <2>2, RemoveFacts
  <2> HIDE DEF less, back
  <2>6. Good(Union(less, d)) /\ NodeIDs(Union(less, d)) = NodeIDs(less) \cup NodeIDs(d)
    BY <2>1, <2>4, UnionFacts
  <2>7. /\ NodeIDs(Union(c, d)) = NodeIDs(Union(d, c))
        /\ NodeIDs(Union(less, d)) = NodeIDs(Union(c, d))
        /\ NodeIDs(back) = NodeIDs(c)
    BY <2>2, <2>3, <2>4, <2>5, <2>6
  <2>8. ASSUME NEW s, NEW t, Good(s), Good(t)
        PROVE  Equal(s, t) <=> NodeIDs(s) = NodeIDs(t)
    BY <2>1, <2>8, EqualFacts
  <2>9. /\ Equal(c, d) <=> NodeIDs(c) = NodeIDs(d)
        /\ Equal(Union(c, d), Union(d, c))
        /\ Equal(Union(less, d), Union(c, d))
        /\ Equal(back, c)
    BY <2>1, <2>2, <2>3, <2>5, <2>6, <2>7, <2>8
  <2> QED BY <2>2, <2>9 DEF c, d, less, back
<1> QED BY <1>1, Invariance, PTL

=============================================================================
