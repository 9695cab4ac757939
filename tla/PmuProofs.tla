------------------------------- MODULE PmuProofs -------------------------------
(* Proofs about Pmu, for any events databases, any topdown hierarchy, any      *)
(* lists of counters and any number of registers.                              *)
EXTENDS Pmu, FiniteSetTheorems, FunctionTheorems, SequenceTheorems, WellFoundedInduction, TLAPS

-----------------------------------------------------------------------------
(* Sets of numbers, and sorting.                                               *)

(* A set of numbers has a smallest element.                                    *)
LEMMA LeastOf ==
  ASSUME NEW T, T \subseteq Nat, T # {}
  PROVE  \E m \in T : \A y \in T : m <= y
<1>. DEFINE R == OpToRel(<, Nat)
<1>1. PICK m \in T : \A y \in T : ~ (<<y, m>> \in R)
  BY NatLessThanWellFounded, WFMin
<1>2. \A y \in T : y \in Nat /\ m \in Nat
  OBVIOUS
<1>3. ASSUME NEW y \in T, y < m PROVE FALSE
  <2>1. <<y, m>> \in R
    BY <1>2, <1>3 DEF OpToRel
  <2>. QED BY <2>1, <1>1, Zenon
<1>. QED BY <1>2, <1>3

(* Max of a bounded set of numbers is its largest element.                     *)
LEMMA MaxOf ==
  ASSUME NEW N \in Nat, NEW S, S \subseteq 0 .. N, S # {}
  PROVE  Max(S) \in S /\ \A y \in S : y <= Max(S)
<1>. DEFINE T == {N - x : x \in S}
<1>1. T \subseteq Nat /\ T # {}
  <2>1. PICK x \in S : TRUE
    OBVIOUS
  <2>2. N - x \in T
    BY <2>1
  <2>3. \A y \in S : N - y \in Nat
    OBVIOUS
  <2>. QED BY <2>2, <2>3
<1>2. PICK m \in T : \A y \in T : m <= y
  <2>. HIDE DEF T
  <2>. QED BY <1>1, LeastOf
<1>4. PICK x \in S : m = N - x
  OBVIOUS
<1>5. \A y \in S : x >= y
  BY <1>2, <1>4
<1>. QED BY <1>5 DEF Max

(* Of a finite set of numbers too.                                             *)
LEMMA MaxOfFinite ==
  ASSUME NEW S, S \subseteq Nat, S # {}, IsFiniteSet(S)
  PROVE  Max(S) \in S /\ \A y \in S : y <= Max(S)
<1>. DEFINE above(y) == {x \in S : x >= y}
            C == {Cardinality(above(y)) : y \in S}
<1>1. \A y \in S : IsFiniteSet(above(y)) /\ Cardinality(above(y)) \in Nat
  BY FS_Subset, FS_CardinalityType
<1>2. PICK m \in C : \A c \in C : m <= c
  <2>1. C \subseteq Nat /\ C # {}
    BY <1>1
  <2>. HIDE DEF C
  <2>. QED BY <2>1, LeastOf
<1>3. PICK y \in S : m = Cardinality(above(y))
  OBVIOUS
<1>4. ASSUME NEW z \in S, z > y PROVE FALSE
  <2>0. \A x \in S : x \in Nat
    OBVIOUS
  <2>4. \A x \in S : x >= z => x >= y
    BY <1>4, <2>0
  <2>5. y >= y /\ ~ (y >= z)
    BY <1>4, <2>0
  <2>1. above(z) \in SUBSET above(y) /\ y \in above(y) /\ y \notin above(z)
    BY <2>4, <2>5
  <2>2. Cardinality(above(z)) <= Cardinality(above(y)) /\ Cardinality(above(z)) # Cardinality(above(y))
    <3>. HIDE DEF above
    <3>. QED BY <1>1, <2>1, FS_Subset
  <2>3. Cardinality(above(y)) <= Cardinality(above(z))
    BY <1>2, <1>3
  <2>. QED
    <3>. HIDE DEF above
    <3>. QED BY <1>1, <2>2, <2>3
<1>5. \A z \in S : y >= z
  BY <1>4
<1>. QED BY <1>5 DEF Max

(* Min of a set of numbers is its smallest element.                            *)
LEMMA MinOf ==
  ASSUME NEW S, S \subseteq Nat, S # {}
  PROVE  Min(S) \in S /\ \A y \in S : Min(S) <= y
BY LeastOf DEF Min

(* A function that takes different elements of 1 .. n to different elements of *)
(* 1 .. n takes every value there.                                             *)
LEMMA Pigeons ==
  ASSUME NEW n \in Nat, NEW f \in [1 .. n -> 1 .. n],
         \A i, j \in 1 .. n : f[i] = f[j] => i = j
  PROVE  \A k \in 1 .. n : \E i \in 1 .. n : f[i] = k
<1>0. DOMAIN f = 1 .. n
  OBVIOUS
<1>1. f \in Injection(1 .. n, 1 .. n)
  BY <1>0, Zenon DEF Injection, IsInjective
<1>3. IsFiniteSet(1 .. n)
  BY FS_Interval
<1>2. f \in Surjection(1 .. n, 1 .. n)
  BY <1>1, <1>3, FS_Injection
<1>. QED BY <1>2 DEF Surjection

(* The places of the elements are different, and each place is taken.          *)
LEMMA PlacesDiffer ==
  ASSUME NEW n \in Nat, NEW key \in [1 .. n -> Int]
  PROVE  /\ \A i \in 1 .. n : Place(key, i) \in 1 .. n
         /\ \A i, j \in 1 .. n : Precedes(key, i, j) => Place(key, i) < Place(key, j)
         /\ \A i, j \in 1 .. n : Place(key, i) = Place(key, j) => i = j
<1>. DEFINE before(i) == {j \in 1 .. n : Precedes(key, j, i)}
<1>0. \A i \in 1 .. n : key[i] \in Int /\ i \in Int
  OBVIOUS
<1>1. IsFiniteSet(1 .. n) /\ Cardinality(1 .. n) = n
  BY FS_Interval
<1>2. \A i \in 1 .. n : /\ before(i) \in SUBSET (1 .. n) /\ i \notin before(i)
                        /\ Place(key, i) = 1 + Cardinality(before(i))
  BY <1>0 DEF Precedes, Place
<1>3. \A i \in 1 .. n : IsFiniteSet(before(i)) /\ Cardinality(before(i)) \in Nat /\ Cardinality(before(i)) < n
  <2>. TAKE i \in 1 .. n
  <2>. HIDE DEF before
  <2>1. IsFiniteSet(before(i)) /\ Cardinality(before(i)) <= n /\ Cardinality(before(i)) # n
    BY <1>1, <1>2, FS_Subset
  <2>2. Cardinality(before(i)) \in Nat
    BY <2>1, FS_CardinalityType
  <2>. QED BY <2>1, <2>2
<1>4. \A i \in 1 .. n : Place(key, i) \in 1 .. n
  <2>. TAKE i \in 1 .. n
  <2>1. \A c \in Nat : c < n => 1 + c \in 1 .. n
    OBVIOUS
  <2>2. Place(key, i) = 1 + Cardinality(before(i)) /\ Cardinality(before(i)) \in Nat /\ Cardinality(before(i)) < n
    BY <1>2, <1>3
  <2>. QED BY <2>1, <2>2, Zenon
<1>5. ASSUME NEW i \in 1 .. n, NEW j \in 1 .. n, Precedes(key, i, j) PROVE Place(key, i) < Place(key, j)
  <2>1. before(i) \in SUBSET before(j)
    BY <1>0, <1>5 DEF Precedes
  <2>2. i \in before(j) /\ i \notin before(i)
    BY <1>2, <1>5
  <2>. HIDE DEF before
  <2>3. Cardinality(before(i)) <= Cardinality(before(j)) /\ Cardinality(before(i)) # Cardinality(before(j))
    BY <1>3, <2>1, <2>2, FS_Subset
  <2>. QED BY <1>2, <1>3, <2>3
<1>6. ASSUME NEW i \in 1 .. n, NEW j \in 1 .. n, i # j PROVE Place(key, i) # Place(key, j)
  <2>1. Precedes(key, i, j) \/ Precedes(key, j, i)
    BY <1>0, <1>6 DEF Precedes
  <2>. QED BY <1>4, <1>5, <2>1
<1>. QED BY <1>4, <1>5, <1>6

(* The order of a sort is a permutation, and it is by key.                     *)
LEMMA OrderIsPermutation ==
  ASSUME NEW n \in Nat, NEW key \in [1 .. n -> Int]
  PROVE  /\ Order(key) \in [1 .. n -> 1 .. n]
         /\ \A i, j \in 1 .. n : Order(key)[i] = Order(key)[j] => i = j
         /\ \A k \in 1 .. n : \E i \in 1 .. n : Order(key)[i] = k
         /\ \A i, j \in 1 .. n : i < j => key[Order(key)[i]] <= key[Order(key)[j]]
<1>. DEFINE o == Order(key)
            f == [i \in 1 .. n |-> Place(key, i)]
<1>1. /\ \A i \in 1 .. n : Place(key, i) \in 1 .. n
      /\ \A i, j \in 1 .. n : Precedes(key, i, j) => Place(key, i) < Place(key, j)
      /\ \A i, j \in 1 .. n : Place(key, i) = Place(key, j) => i = j
  BY PlacesDiffer
<1>2. \A k \in 1 .. n : \E i \in 1 .. n : Place(key, i) = k
  <2>1. f \in [1 .. n -> 1 .. n] /\ \A i, j \in 1 .. n : f[i] = f[j] => i = j
    BY <1>1
  <2>2. \A k \in 1 .. n : \E i \in 1 .. n : f[i] = k
    <3>. HIDE DEF f
    <3>. QED BY <2>1, Pigeons
  <2>. QED BY <2>2
<1>3. o = [k \in 1 .. n |-> CHOOSE i \in 1 .. n : Place(key, i) = k]
  BY DEF Order
<1>4. ASSUME NEW k \in 1 .. n PROVE o[k] \in 1 .. n /\ Place(key, o[k]) = k
  <2>1. o[k] = CHOOSE i \in 1 .. n : Place(key, i) = k
    BY <1>3
  <2>2. \E i \in 1 .. n : Place(key, i) = k
    BY <1>2
  <2>. QED BY <2>1, <2>2, Zenon
<1>5. o \in [1 .. n -> 1 .. n]
  BY <1>3, <1>4
<1>. HIDE DEF o
<1>6. \A i, j \in 1 .. n : o[i] = o[j] => i = j
  BY <1>4
<1>7. \A k \in 1 .. n : Place(key, k) \in 1 .. n /\ o[Place(key, k)] = k
  BY <1>1, <1>4
<1>8. ASSUME NEW i \in 1 .. n, NEW j \in 1 .. n, i < j PROVE key[o[i]] <= key[o[j]]
  <2>1. ~ Precedes(key, o[j], o[i])
    <3>1. Place(key, o[i]) = i /\ Place(key, o[j]) = j /\ o[i] \in 1 .. n /\ o[j] \in 1 .. n
      BY <1>4
    <3>2. ~ (j < i)
      BY <1>8
    <3>3. Precedes(key, o[j], o[i]) => Place(key, o[j]) < Place(key, o[i])
      BY <1>1, <3>1
    <3>. QED BY <3>1, <3>2, <3>3, Zenon
  <2>2. key[o[i]] \in Int /\ key[o[j]] \in Int
    BY <1>4
  <2>. QED BY <2>1, <2>2 DEF Precedes
<1>. QED BY <1>5, <1>6, <1>7, <1>8 DEF o

(* A sort keeps the elements of a sequence.                                    *)
LEMMA SortKeeps ==
  ASSUME NEW S, NEW s \in Seq(S), NEW key \in [1 .. Len(s) -> Int]
  PROVE  /\ StableSort(s, key) \in Seq(S) /\ Len(StableSort(s, key)) = Len(s)
         /\ \A k \in 1 .. Len(s) : StableSort(s, key)[k] = s[Order(key)[k]]
         /\ ToSet(StableSort(s, key)) = ToSet(s)
<1>. DEFINE n == Len(s)
            o == Order(key)
            r == StableSort(s, key)
<1>0. n \in Nat /\ DOMAIN s = 1 .. n /\ \A i \in 1 .. n : s[i] \in S
  OBVIOUS
<1>1. /\ o \in [1 .. n -> 1 .. n]
      /\ \A k \in 1 .. n : \E i \in 1 .. n : o[i] = k
  BY <1>0, OrderIsPermutation
<1>2. r = [k \in 1 .. n |-> s[o[k]]]
  BY <1>0 DEF StableSort
<1>. HIDE DEF n, o, r
<1>3. r \in [1 .. n -> S] /\ \A k \in 1 .. n : r[k] = s[o[k]] /\ o[k] \in 1 .. n
  BY <1>0, <1>1, <1>2
<1>4. r \in Seq(S) /\ Len(r) = n /\ DOMAIN r = 1 .. n
  BY <1>0, <1>3
<1>5. ToSet(r) = ToSet(s)
  BY <1>0, <1>1, <1>3, <1>4 DEF ToSet
<1>. QED BY <1>3, <1>4, <1>5 DEF n, o, r

(* SetToSeq lists the elements of a finite set, each once.                     *)
LEMMA SetToSeqLists ==
  ASSUME NEW S, IsFiniteSet(S)
  PROVE  /\ SetToSeq(S) \in Seq(S) /\ ToSet(SetToSeq(S)) = S
         /\ \A i, j \in 1 .. Len(SetToSeq(S)) : SetToSeq(S)[i] = SetToSeq(S)[j] => i = j
<1>. DEFINE n == Cardinality(S)
            q == SetToSeq(S)
<1>1. n \in Nat /\ ExistsBijection(1 .. n, S) /\ IsFiniteSet(1 .. n) /\ Cardinality(1 .. n) = n
  BY FS_CardinalityType, FS_Interval
<1>2. PICK b \in [1 .. n -> S] : IsInjective(b)
  BY <1>1 DEF ExistsBijection, Bijection, Injection
<1>3. q \in [1 .. n -> S] /\ IsInjective(q)
  BY <1>2 DEF SetToSeq
<1>. HIDE DEF q
<1>4. q \in Injection(1 .. n, S)
  BY <1>3 DEF Injection
<1>5. q \in Surjection(1 .. n, S)
  BY <1>1, <1>4, FS_Injection
<1>6. q \in Seq(S) /\ Len(q) = n /\ DOMAIN q = 1 .. n
  BY <1>1, <1>3
<1>7. ToSet(q) = S
  BY <1>3, <1>5, <1>6 DEF ToSet, Surjection
<1>8. \A i, j \in 1 .. Len(q) : q[i] = q[j] => i = j
  BY <1>3, <1>6 DEF IsInjective
<1>. QED BY <1>6, <1>7, <1>8 DEF q

-----------------------------------------------------------------------------

(* The names of events that may be resolved.                                   *)
Known ==
  (UNION {{pmc[i].name : i \in {j \in DOMAIN pmc : pmc[j].kind = "event"}} : pmc \in Requested})
    \cup (UNION {Nodes[node].reads : node \in DOMAIN Nodes})

-----------------------------------------------------------------------------
(* What is asked for.                                                          *)

(* A name is a pair of a base and a qualifier.                                 *)
LEMMA KnownPair == \A n \in Known : IsPair(n)
BY RequestedAssumption, NodesAssumption DEF Known

(* What is found when a node is computed is a finite set of events.            *)
LEMMA ReadsKnown ==
  ASSUME NEW node, HasNode(node)
  PROVE  ReadsOf(node) \subseteq Known /\ IsFiniteSet(ReadsOf(node))
<1>. DEFINE C == IF Children(node) = {} THEN {node} ELSE Children(node)
            R == {Nodes[m].reads : m \in C}
            f == [m \in C |-> Nodes[m].reads]
<1>1. C \subseteq DOMAIN Nodes
  BY NodesAssumption DEF Children, HasNode
<1>2. ReadsOf(node) = UNION R
  BY DEF ReadsOf
<1>3. IsFiniteSet(C)
  BY <1>1, NodesAssumption, FS_Subset
<1>4. IsFiniteSet(R)
  <2>1. f \in Surjection(C, R)
    BY DEF Surjection
  <2>. HIDE DEF f, R, C
  <2>. QED BY <1>3, <2>1, FS_Surjection
<1>5. \A T \in R : IsFiniteSet(T) /\ T \subseteq Known
  BY <1>1, NodesAssumption DEF Known
<1>6. IsFiniteSet(UNION R)
  <2>. HIDE DEF R
  <2>. QED BY <1>4, <1>5, FS_UNION
<1>. QED BY <1>1, <1>2, <1>5, <1>6

(* The names that a counter of the profile stands for.                         *)
LEMMA EventsKnown ==
  ASSUME NEW pmc \in Requested, NEW i \in DOMAIN pmc, \A node \in NodesAsked(pmc) : HasNode(node)
  PROVE  EventsOf(pmc[i]) \subseteq Known /\ IsFiniteSet(EventsOf(pmc[i]))
<1>1. CASE pmc[i].kind = "event"
  <2>1. EventsOf(pmc[i]) = {pmc[i].name}
    BY <1>1 DEF EventsOf
  <2>2. pmc[i].name \in Known
    BY <1>1 DEF Known
  <2>. QED BY <2>1, <2>2, FS_Singleton
<1>2. CASE pmc[i].kind = "node"
  <2>1. HasNode(pmc[i].name)
    BY <1>2 DEF NodesAsked
  <2>. QED BY <1>2, <2>1, ReadsKnown DEF EventsOf
<1>. QED BY <1>1, <1>2, RequestedAssumption

(* The events collected after each of the first n counters.                    *)
Collects(f, pmc, n) ==
  f = [m \in 0 .. n |-> IF m = 0 THEN <<>> ELSE AppendNew(f[m - 1], EventsOf(pmc[m]))]

(* There are such lists of events.                                             *)
LEMMA CollectsExists ==
  ASSUME NEW pmc, NEW N \in Nat
  PROVE  \E f : Collects(f, pmc, N)
<1>. DEFINE B == {n \in Nat : ~ \E f : Collects(f, pmc, n)}
<1>. SUFFICES ASSUME B # {} PROVE FALSE
  OBVIOUS
<1>1. PICK n \in B : \A y \in B : n <= y
  <2>1. B \subseteq Nat
    OBVIOUS
  <2>. HIDE DEF B
  <2>. QED BY <2>1, LeastOf
<1>2. CASE n = 0
  <2>. DEFINE f == [m \in 0 .. 0 |-> <<>>]
  <2>1. Collects(f, pmc, 0)
    BY DEF Collects
  <2>. QED BY <1>2, <2>1
<1>3. CASE n > 0
  <2>1. n - 1 \in Nat /\ n - 1 \notin B
    BY <1>1, <1>3
  <2>2. PICK f : Collects(f, pmc, n - 1)
    BY <2>1
  <2>. DEFINE g == [m \in 0 .. n |-> IF m < n THEN f[m] ELSE AppendNew(f[n - 1], EventsOf(pmc[n]))]
  <2>3. \A m \in 0 .. n : g[m] = IF m = 0 THEN <<>> ELSE AppendNew(g[m - 1], EventsOf(pmc[m]))
    <3>. TAKE m \in 0 .. n
    <3>1. CASE m = n
      <4>1. n - 1 \in 0 .. n /\ n - 1 < n /\ ~ (n < n) /\ n \in 0 .. n
        BY <2>1, <1>3
      <4>2. g[n - 1] = f[n - 1] /\ g[n] = AppendNew(f[n - 1], EventsOf(pmc[n]))
        BY <4>1
      <4>. QED BY <1>3, <3>1, <4>2
    <3>2. CASE m # n /\ m # 0
      <4>1. m \in 0 .. n - 1 /\ m < n /\ m - 1 \in 0 .. n /\ m - 1 < n
        BY <3>2, <2>1
      <4>2. f[m] = AppendNew(f[m - 1], EventsOf(pmc[m]))
        BY <2>2, <3>2, <4>1 DEF Collects
      <4>. QED BY <3>2, <4>1, <4>2
    <3>3. CASE m = 0 /\ m # n
      <4>1. 0 \in 0 .. n - 1 /\ 0 < n
        BY <3>3, <2>1, <1>3
      <4>2. f[0] = <<>>
        BY <2>2, <4>1 DEF Collects
      <4>. QED BY <3>3, <4>1, <4>2
    <3>. QED BY <3>1, <3>2, <3>3
  <2>4. Collects(g, pmc, n)
    BY <2>3 DEF Collects
  <2>. HIDE DEF g
  <2>. QED BY <2>4
<1>. QED BY <1>2, <1>3

(* And aggregatePmc returns the last of them.                                  *)
LEMMA AggregateCollects ==
  ASSUME NEW pmc, Len(pmc) \in Nat
  PROVE  \E f : Collects(f, pmc, Len(pmc)) /\ AggregatePmc(pmc) = f[Len(pmc)]
<1>. DEFINE u == CHOOSE f : Collects(f, pmc, Len(pmc))
<1>1. Collects(u, pmc, Len(pmc))
  BY CollectsExists
<1>2. AggregatePmc(pmc) = u[Len(pmc)]
  BY DEF AggregatePmc, Collects
<1>. QED BY <1>1, <1>2

(* A list without repetitions.                                                 *)
Unique(q) == \A i, j \in 1 .. Len(q) : q[i] = q[j] => i = j

(* Two lists without repetitions that share nothing.                           *)
LEMMA UniqueConcat ==
  ASSUME NEW S, NEW q \in Seq(S), NEW r \in Seq(S), Unique(q), Unique(r), ToSet(q) \cap ToSet(r) = {}
  PROVE  q \o r \in Seq(S) /\ Unique(q \o r) /\ ToSet(q \o r) = ToSet(q) \cup ToSet(r)
<1>. DEFINE c == q \o r
<1>1. /\ c \in Seq(S) /\ Len(c) = Len(q) + Len(r) /\ Len(q) \in Nat /\ Len(r) \in Nat
      /\ DOMAIN q = 1 .. Len(q) /\ DOMAIN r = 1 .. Len(r) /\ DOMAIN c = 1 .. Len(c)
  OBVIOUS
<1>2. \A i \in 1 .. Len(c) : c[i] = IF i <= Len(q) THEN q[i] ELSE r[i - Len(q)]
  OBVIOUS
<1>. HIDE DEF c
<1>3. \A i \in 1 .. Len(q) : i \in 1 .. Len(c) /\ c[i] = q[i]
  BY <1>1, <1>2
<1>4. \A i \in 1 .. Len(r) : Len(q) + i \in 1 .. Len(c) /\ c[Len(q) + i] = r[i]
  <2>. TAKE i \in 1 .. Len(r)
  <2>1. Len(q) + i \in 1 .. Len(c) /\ ~ (Len(q) + i <= Len(q)) /\ (Len(q) + i) - Len(q) = i
    BY <1>1
  <2>. QED BY <1>2, <2>1
<1>5. \A i \in 1 .. Len(c) : ~ (i <= Len(q)) => i - Len(q) \in 1 .. Len(r)
  BY <1>1
<1>6. ToSet(c) = ToSet(q) \cup ToSet(r)
  <2>1. ASSUME NEW x \in ToSet(c) PROVE x \in ToSet(q) \cup ToSet(r)
    <3>1. PICK i \in 1 .. Len(c) : x = c[i]
      BY <1>1 DEF ToSet
    <3>2. CASE i <= Len(q)
      <4>1. i \in DOMAIN q /\ x = q[i]
        BY <1>1, <1>2, <3>1, <3>2
      <4>. QED BY <4>1 DEF ToSet
    <3>3. CASE ~ (i <= Len(q))
      <4>1. i - Len(q) \in DOMAIN r /\ x = r[i - Len(q)]
        BY <1>1, <1>2, <1>5, <3>1, <3>3
      <4>. QED BY <4>1 DEF ToSet
    <3>. QED BY <3>2, <3>3
  <2>2. ToSet(q) \subseteq ToSet(c)
    BY <1>1, <1>3 DEF ToSet
  <2>3. ToSet(r) \subseteq ToSet(c)
    BY <1>1, <1>4 DEF ToSet
  <2>. QED BY <2>1, <2>2, <2>3
<1>7. Unique(c)
  <2>. SUFFICES ASSUME NEW i \in 1 .. Len(c), NEW j \in 1 .. Len(c), c[i] = c[j] PROVE i = j
    BY DEF Unique
  <2>0. \A k \in 1 .. Len(c) : \/ k <= Len(q) /\ k \in 1 .. Len(q) /\ c[k] = q[k]
                               \/ ~ (k <= Len(q)) /\ k - Len(q) \in 1 .. Len(r) /\ c[k] = r[k - Len(q)]
    <3>. TAKE k \in 1 .. Len(c)
    <3>1. CASE k <= Len(q)
      <4>1. k \in 1 .. Len(q)
        BY <1>1, <3>1
      <4>. QED BY <1>3, <3>1, <4>1
    <3>2. CASE ~ (k <= Len(q))
      <4>1. c[k] = r[k - Len(q)]
        BY <1>2, <3>2
      <4>. QED BY <1>5, <3>2, <4>1
    <3>. QED BY <3>1, <3>2
  <2>1. CASE i <= Len(q) /\ j <= Len(q)
    BY <2>0, <2>1 DEF Unique
  <2>2. CASE ~ (i <= Len(q)) /\ ~ (j <= Len(q))
    <3>1. i - Len(q) = j - Len(q)
      BY <2>0, <2>2 DEF Unique
    <3>. QED BY <1>1, <3>1
  <2>3. \A k \in 1 .. Len(c) : IF k <= Len(q) THEN c[k] \in ToSet(q) ELSE c[k] \in ToSet(r)
    BY <1>1, <2>0 DEF ToSet
  <2>. QED BY <2>1, <2>2, <2>3
<1>. QED BY <1>1, <1>6, <1>7 DEF c

(* aggregatePmc adds the events that it does not have yet.                     *)
LEMMA AppendNewLists ==
  ASSUME NEW q \in Seq(Known), Unique(q), NEW E, E \subseteq Known, IsFiniteSet(E)
  PROVE  /\ AppendNew(q, E) \in Seq(Known) /\ Unique(AppendNew(q, E))
         /\ ToSet(AppendNew(q, E)) = ToSet(q) \cup E
<1>. DEFINE N == E \ ToSet(q)
            r == SetToSeq(N)
<1>1. IsFiniteSet(N) /\ N \subseteq Known
  BY FS_Difference
<1>2. r \in Seq(N) /\ ToSet(r) = N /\ Unique(r)
  <2>. HIDE DEF N
  <2>. QED BY <1>1, SetToSeqLists DEF Unique
<1>3. r \in Seq(Known)
  <2>. HIDE DEF N, r
  <2>. QED BY <1>1, <1>2
<1>4. ToSet(q) \cap ToSet(r) = {}
  BY <1>2
<1>5. AppendNew(q, E) = q \o r
  BY DEF AppendNew
<1>6. q \o r \in Seq(Known) /\ Unique(q \o r) /\ ToSet(q \o r) = ToSet(q) \cup ToSet(r)
  <2>. HIDE DEF r
  <2>. QED BY <1>2, <1>3, <1>4, UniqueConcat
<1>7. ToSet(q) \cup N = ToSet(q) \cup E
  OBVIOUS
<1>. QED BY <1>2, <1>5, <1>6, <1>7

(* The events of the first n counters.                                         *)
Asked(pmc, n) == UNION {EventsOf(pmc[i]) : i \in 1 .. n}

(* aggregatePmc lists the events that are asked for, each once.                *)
LEMMA AggregateLists ==
  ASSUME NEW pmc \in Requested, \A node \in NodesAsked(pmc) : HasNode(node)
  PROVE  /\ AggregatePmc(pmc) \in Seq(Known) /\ Unique(AggregatePmc(pmc))
         /\ ToSet(AggregatePmc(pmc)) = Asked(pmc, Len(pmc))
<1>. DEFINE N == Len(pmc)
            lists(q, n) == q \in Seq(Known) /\ Unique(q) /\ ToSet(q) = Asked(pmc, n)
<1>1. N \in Nat /\ DOMAIN pmc = 1 .. N
  BY RequestedAssumption
<1>2. PICK f : Collects(f, pmc, N) /\ AggregatePmc(pmc) = f[N]
  BY <1>1, AggregateCollects
<1>3. \A m \in 0 .. N : f[m] = IF m = 0 THEN <<>> ELSE AppendNew(f[m - 1], EventsOf(pmc[m]))
  BY <1>2, Zenon DEF Collects
<1>4. lists(f[0], 0)
  <2>1. f[0] = <<>>
    BY <1>1, <1>3
  <2>. QED BY <2>1 DEF Unique, ToSet, Asked
<1>5. ASSUME NEW m \in 1 .. N, lists(f[m - 1], m - 1) PROVE lists(f[m], m)
  <2>1. f[m] = AppendNew(f[m - 1], EventsOf(pmc[m]))
    BY <1>1, <1>3
  <2>2. EventsOf(pmc[m]) \subseteq Known /\ IsFiniteSet(EventsOf(pmc[m]))
    BY <1>1, EventsKnown
  <2>3. /\ f[m] \in Seq(Known) /\ Unique(f[m]) /\ ToSet(f[m]) = ToSet(f[m - 1]) \cup EventsOf(pmc[m])
    BY <1>5, <2>1, <2>2, AppendNewLists
  <2>4. Asked(pmc, m) = Asked(pmc, m - 1) \cup EventsOf(pmc[m])
    <3>1. 1 .. m = (1 .. m - 1) \cup {m}
      BY <1>1
    <3>. QED BY <3>1 DEF Asked
  <2>. QED BY <1>5, <2>3, <2>4
<1>. DEFINE B == {m \in 0 .. N : ~ lists(f[m], m)}
<1>6. B = {}
  <2>. SUFFICES ASSUME B # {} PROVE FALSE
    OBVIOUS
  <2>. HIDE DEF lists
  <2>1. PICK m \in B : \A y \in B : m <= y
    <3>1. B \subseteq Nat
      BY <1>1
    <3>. HIDE DEF B
    <3>. QED BY <3>1, LeastOf
  <2>2. m # 0 /\ m \in Nat /\ m \in 1 .. N
    BY <1>1, <1>4
  <2>3. m - 1 \in 0 .. N /\ m - 1 \notin B
    BY <1>1, <2>1, <2>2
  <2>4. lists(f[m - 1], m - 1)
    BY <2>3
  <2>. QED BY <1>5, <2>2, <2>4
<1>7. lists(f[N], N)
  <2>. HIDE DEF lists
  <2>. QED BY <1>1, <1>6
<1>. QED BY <1>2, <1>7

-----------------------------------------------------------------------------
(* The inductive invariant.                                                    *)
Registers == {P \in SUBSET Nat : P # {} /\ IsFiniteSet(P)}
Types == {"GenericCore", "FixedCore", "OffCore"}
Masks == {0} \cup {CmaskValue(n[2]) : n \in Known}
Event == [name : Known, eventType : Types, counterMask : Masks, validPmc : Registers]
Req == [event : Event, select : Nat]

(* What the events database holds.                                             *)
DbOK(d) ==
  \A b \in DOMAIN d :
    d[b] \in [name : {<<b, None>>}, eventType : Types, counterMask : {0}, validPmc : Registers]

ListsOK ==
  /\ events \in Seq(Known) /\ todo \in Seq(Known)
  /\ generic \in Seq(Req) /\ fixed \in Seq(Req) /\ offcore \in Seq(Event)
  /\ offCoreEventCount = Len(offcore)
  /\ Len(generic) <= MaxGeneric /\ Len(fixed) <= MaxFixed /\ Len(offcore) <= MaxOffcore

(* Nothing is resolved before the counters are known.                          *)
Empty ==
  phase \in {"loading", "asked"} =>
    events = <<>> /\ todo = <<>> /\ generic = <<>> /\ fixed = <<>> /\ offcore = <<>>

(* The names of the events in a list of requests, each once.                   *)
NamesOf(requests) == {requests[i].event.name : i \in 1 .. Len(requests)}
UniqueNames(requests) ==
  \A i, j \in 1 .. Len(requests) : requests[i].event.name = requests[j].event.name => i = j

(* An event asked for is resolved, in one of the lists, or is still to be      *)
(* resolved.                                                                   *)
EachOnce ==
  /\ UniqueNames(generic) /\ UniqueNames(fixed) /\ Unique(todo)
  /\ NamesOf(generic) \cap NamesOf(fixed) = {}
  /\ ToSet(todo) \cap (NamesOf(generic) \cup NamesOf(fixed)) = {}
  /\ ToSet(events) = NamesOf(generic) \cup NamesOf(fixed) \cup ToSet(todo)

(* An offcore request selects the msr value of its event; a value has one.     *)
SelectsOwn(requests, msrs) ==
  /\ \A i \in 1 .. Len(requests) :
       requests[i].select # 0 =>
         requests[i].select \in 1 .. Len(msrs) /\ msrs[requests[i].select] = requests[i].event
  /\ \A k \in 1 .. Len(msrs) : \E i \in 1 .. Len(requests) : requests[i].select = k

(* The fixed requests are in the order of their registers.                     *)
Ascending(requests) ==
  \A i, j \in 1 .. Len(requests) : i < j => Register(requests[i]) <= Register(requests[j])

(* A request is in one register, which its event may use, or still to be       *)
(* allocated, to a register that its event may use.                            *)
Assigned(L) ==
  /\ slots \in [0 .. L - 1 -> (1 .. L) \cup {None}]
  /\ \A r \in 0 .. L - 1 : slots[r] # None => r \in generic[slots[r]].event.validPmc
  /\ \A r, s \in 0 .. L - 1 : slots[r] = slots[s] /\ slots[r] # None => r = s

Allocatable(L) == [index : 1 .. L, constraint : SUBSET (0 .. L - 1)]
Waiting(seq, L) ==
  /\ seq \in Seq(Allocatable(L))
  /\ \A i \in 1 .. Len(seq) : seq[i].constraint \subseteq generic[seq[i].index].event.validPmc
  /\ \A i, j \in 1 .. Len(seq) : seq[i].index = seq[j].index => i = j

NoneForgotten(L) ==
  \A k \in 1 .. L : \/ \E i \in 1 .. Len(allocatables) : allocatables[i].index = k
                    \/ \E r \in 0 .. L - 1 : slots[r] = k
NoneTwice(L) == \A i \in 1 .. Len(allocatables), r \in 0 .. L - 1 : slots[r] # allocatables[i].index

Allocating ==
  LET L == Len(generic) IN Assigned(L) /\ Waiting(allocatables, L) /\ NoneForgotten(L) /\ NoneTwice(L)

Resolved == phase # "failed" => EachOnce /\ SelectsOwn(generic, offcore) /\ Ascending(fixed)
Drained == phase \in {"allocating", "ready", "enabled"} => todo = <<>>
AllocOK == phase = "allocating" => Allocating
OrderOK == Programmed => InOrder(generic)

IInv == DbOK(db) /\ ListsOK /\ Empty /\ Resolved /\ Drained /\ AllocOK /\ OrderOK

-----------------------------------------------------------------------------
(* The database and its events.                                                *)

(* A database that loads has events of the three types, with their registers.  *)
LEMMA DatabaseLoads ==
  ASSUME NEW records \in Databases, Loads(records)
  PROVE  DbOK(EventsMap(records))
<1>. DEFINE M == EventsMap(records)
            at(b) == {i \in DOMAIN records : records[i].name = b}
<1>1. DOMAIN M = {records[i].name : i \in DOMAIN records}
      /\ \A b \in DOMAIN M : M[b] = UarchEvent(records[Max(at(b))])
  BY DEF EventsMap
<1>. SUFFICES ASSUME NEW b \in DOMAIN M
     PROVE  M[b] \in [name : {<<b, None>>}, eventType : Types, counterMask : {0}, validPmc : Registers]
  BY DEF DbOK
<1>2. PICK i \in DOMAIN records : i \in at(b) /\ Max(at(b)) = i
  <2>1. Len(records) \in Nat /\ at(b) \subseteq 0 .. Len(records) /\ at(b) # {}
    BY <1>1, DatabasesAssumption
  <2>2. Max(at(b)) \in at(b)
    <3>. HIDE DEF at
    <3>. QED BY <2>1, MaxOf
  <2>. QED BY <2>2
<1>3. /\ Finite(records[i].counter) /\ Finite(records[i].counterHTOff)
      /\ records[i].counter \cup records[i].counterHTOff # {}
  BY DatabasesAssumption DEF Loads
<1>4. ValidPmc(records[i]) \in Registers
  BY <1>3 DEF ValidPmc, Registers, Finite
<1>5. EventType(records[i]) \in Types
  BY DEF EventType, Types
<1>6. M[b] = UarchEvent(records[i]) /\ records[i].name = b
  BY <1>1, <1>2
<1>. QED BY <1>4, <1>5, <1>6 DEF UarchEvent

(* What the database gives for a name is an event of that name.                *)
LEMMA ItemIsEvent ==
  ASSUME DbOK(db), NEW n \in Known, InDb(n)
  PROVE  GetItem(n) \in Event /\ GetItem(n).name = n
<1>. DEFINE e == db[n[1]]
<1>1. e \in [name : {<<n[1], None>>}, eventType : Types, counterMask : {0}, validPmc : Registers]
  BY DEF InDb, DbOK
<1>2. n = <<n[1], n[2]>>
  BY KnownPair DEF IsPair
<1>3. CASE n[2] = None
  <2>1. GetItem(n) = e
    BY <1>3 DEF GetItem
  <2>2. e.name = n
    BY <1>1, <1>2, <1>3
  <2>. QED BY <1>1, <2>1, <2>2 DEF Event, Masks
<1>4. CASE n[2] # None
  <2>2. CmaskValue(n[2]) \in Masks
    BY DEF Masks
  <2>3. GetItem(n) = [e EXCEPT !.name = n, !.counterMask = CmaskValue(n[2])]
    BY <1>4 DEF GetItem
  <2>. HIDE DEF e
  <2>. QED BY <1>1, <2>2, <2>3 DEF Event
<1>. QED BY <1>3, <1>4

-----------------------------------------------------------------------------
(* The lists.                                                                  *)

(* The first of the names that are left.                                       *)
LEMMA HeadTail ==
  ASSUME NEW S, NEW q \in Seq(S), q # <<>>, Unique(q)
  PROVE  /\ Head(q) \in S /\ Tail(q) \in Seq(S) /\ Unique(Tail(q))
         /\ Head(q) \notin ToSet(Tail(q)) /\ ToSet(q) = {Head(q)} \cup ToSet(Tail(q))
<1>. DEFINE t == Tail(q)
<1>1. /\ Len(q) \in Nat /\ Len(q) > 0 /\ DOMAIN q = 1 .. Len(q) /\ Head(q) = q[1] /\ q[1] \in S
      /\ t \in Seq(S) /\ Len(t) = Len(q) - 1 /\ DOMAIN t = 1 .. Len(t)
  OBVIOUS
<1>2. \A i \in 1 .. Len(t) : t[i] = q[i + 1] /\ i + 1 \in 1 .. Len(q)
  BY <1>1
<1>. HIDE DEF t
<1>3. Unique(t)
  <2>. SUFFICES ASSUME NEW i \in 1 .. Len(t), NEW j \in 1 .. Len(t), t[i] = t[j] PROVE i = j
    BY DEF Unique
  <2>1. i + 1 = j + 1
    BY <1>2 DEF Unique
  <2>. QED BY <2>1
<1>4. Head(q) \notin ToSet(t)
  <2>. SUFFICES ASSUME NEW i \in 1 .. Len(t), t[i] = q[1] PROVE FALSE
    BY <1>1 DEF ToSet
  <2>1. i + 1 = 1
    BY <1>1, <1>2 DEF Unique
  <2>. QED BY <2>1
<1>5. ToSet(q) = {Head(q)} \cup ToSet(t)
  <2>1. ASSUME NEW i \in 1 .. Len(q) PROVE q[i] \in {Head(q)} \cup ToSet(t)
    <3>1. CASE i = 1
      BY <1>1, <3>1
    <3>2. CASE i # 1
      <4>1. i - 1 \in 1 .. Len(t) /\ (i - 1) + 1 = i
        BY <1>1, <3>2
      <4>2. t[i - 1] = q[i]
        BY <1>2, <4>1
      <4>. QED BY <1>1, <4>1, <4>2 DEF ToSet
    <3>. QED BY <3>1, <3>2
  <2>2. Head(q) \in ToSet(q)
    BY <1>1 DEF ToSet
  <2>3. ToSet(t) \subseteq ToSet(q)
    BY <1>1, <1>2 DEF ToSet
  <2>. QED BY <1>1, <2>1, <2>2, <2>3 DEF ToSet
<1>. QED BY <1>1, <1>3, <1>4, <1>5 DEF t

(* A request for an event that the list does not have yet.                     *)
LEMMA AddsName ==
  ASSUME NEW q \in Seq(Req), NEW req \in Req, UniqueNames(q), req.event.name \notin NamesOf(q)
  PROVE  /\ Append(q, req) \in Seq(Req) /\ Len(Append(q, req)) = Len(q) + 1
         /\ UniqueNames(Append(q, req))
         /\ NamesOf(Append(q, req)) = NamesOf(q) \cup {req.event.name}
<1>. DEFINE r == Append(q, req)
            name(i) == r[i].event.name
<1>1. /\ r \in Seq(Req) /\ Len(r) = Len(q) + 1 /\ Len(q) \in Nat
      /\ \A i \in 1 .. Len(q) : r[i] = q[i] /\ i \in 1 .. Len(r)
      /\ r[Len(q) + 1] = req /\ Len(q) + 1 \in 1 .. Len(r)
  OBVIOUS
<1>2. \A i \in 1 .. Len(r) : i \in 1 .. Len(q) \/ i = Len(q) + 1
  BY <1>1
<1>. HIDE DEF r
<1>3. NamesOf(r) = NamesOf(q) \cup {req.event.name}
  BY <1>1, <1>2 DEF NamesOf
<1>4. UniqueNames(r)
  <2>. SUFFICES ASSUME NEW i \in 1 .. Len(r), NEW j \in 1 .. Len(r), name(i) = name(j) PROVE i = j
    BY DEF UniqueNames
  <2>1. \A k \in 1 .. Len(q) : name(k) = q[k].event.name /\ name(k) \in NamesOf(q)
    BY <1>1 DEF NamesOf
  <2>2. name(Len(q) + 1) = req.event.name
    BY <1>1
  <2>3. CASE i \in 1 .. Len(q) /\ j \in 1 .. Len(q)
    <3>. HIDE DEF name
    <3>. QED BY <2>1, <2>3 DEF UniqueNames
  <2>. HIDE DEF name
  <2>. QED BY <1>2, <2>1, <2>2, <2>3
<1>. QED BY <1>1, <1>3, <1>4 DEF r

(* The requests in another order.                                              *)
Rearranges(r, q, o) ==
  /\ Len(r) = Len(q) /\ o \in [1 .. Len(q) -> 1 .. Len(q)]
  /\ \A i, j \in 1 .. Len(q) : o[i] = o[j] => i = j
  /\ \A k \in 1 .. Len(q) : \E i \in 1 .. Len(q) : o[i] = k
  /\ \A k \in 1 .. Len(q) : r[k] = q[o[k]]

(* A list in another order has the same names and the same selects.            *)
LEMMA Rearranged ==
  ASSUME NEW q, NEW r, NEW o, NEW msrs, Rearranges(r, q, o)
  PROVE  /\ UniqueNames(q) => UniqueNames(r)
         /\ NamesOf(r) = NamesOf(q)
         /\ SelectsOwn(q, msrs) => SelectsOwn(r, msrs)
<1>. DEFINE N == 1 .. Len(q)
<1>1. /\ 1 .. Len(r) = N /\ \A k \in N : o[k] \in N /\ r[k] = q[o[k]]
      /\ \A i, j \in N : o[i] = o[j] => i = j
      /\ \A k \in N : \E i \in N : o[i] = k
  BY DEF Rearranges
<1>. HIDE DEF N
<1>2. UniqueNames(q) => UniqueNames(r)
  <2>. SUFFICES ASSUME UniqueNames(q), NEW i \in N, NEW j \in N, r[i].event.name = r[j].event.name
       PROVE  i = j
    BY <1>1 DEF UniqueNames
  <2>1. \A a, b \in N : q[a].event.name = q[b].event.name => a = b
    BY DEF UniqueNames, N
  <2>2. o[i] \in N /\ o[j] \in N /\ r[i] = q[o[i]] /\ r[j] = q[o[j]]
    BY <1>1
  <2>3. o[i] = o[j]
    BY <2>1, <2>2
  <2>. QED BY <1>1, <2>3
<1>3. NamesOf(r) \subseteq NamesOf(q)
  <2>0. NamesOf(r) = {r[k].event.name : k \in N}
    BY <1>1 DEF NamesOf
  <2>. SUFFICES ASSUME NEW k \in N PROVE r[k].event.name \in NamesOf(q)
    BY <2>0
  <2>1. o[k] \in 1 .. Len(q) /\ r[k] = q[o[k]]
    BY <1>1 DEF N
  <2>. QED BY <2>1 DEF NamesOf
<1>4. NamesOf(q) \subseteq NamesOf(r)
  <2>. SUFFICES ASSUME NEW k \in N PROVE q[k].event.name \in NamesOf(r)
    BY DEF NamesOf, N
  <2>1. PICK i \in N : o[i] = k
    BY <1>1
  <2>. QED BY <1>1, <2>1 DEF NamesOf
<1>5. SelectsOwn(q, msrs) => SelectsOwn(r, msrs)
  <2>. SUFFICES ASSUME SelectsOwn(q, msrs) PROVE SelectsOwn(r, msrs)
    OBVIOUS
  <2>1. \A i \in N : r[i].select # 0 =>
          r[i].select \in 1 .. Len(msrs) /\ msrs[r[i].select] = r[i].event
    <3>. TAKE i \in N
    <3>1. o[i] \in 1 .. Len(q) /\ r[i] = q[o[i]]
      BY <1>1 DEF N
    <3>. QED BY <3>1 DEF SelectsOwn
  <2>2. ASSUME NEW k \in 1 .. Len(msrs) PROVE \E i \in N : r[i].select = k
    <3>1. PICK i \in N : q[i].select = k
      BY DEF SelectsOwn, N
    <3>2. PICK j \in N : o[j] = i
      BY <1>1
    <3>. QED BY <1>1, <3>1, <3>2
  <2>. QED BY <1>1, <2>1, <2>2 DEF SelectsOwn
<1>. QED BY <1>2, <1>3, <1>4, <1>5

(* The fixed requests are sorted by their register.                            *)
LEMMA SortsFixed ==
  ASSUME NEW q \in Seq(Req)
  PROVE  LET r == StableSort(q, [i \in DOMAIN q |-> Register(q[i])])
         IN  r \in Seq(Req) /\ Ascending(r) /\ \E o : Rearranges(r, q, o)
<1>. DEFINE key == [i \in DOMAIN q |-> Register(q[i])]
            r == StableSort(q, key)
            o == Order(key)
<1>1. Len(q) \in Nat /\ DOMAIN q = 1 .. Len(q) /\ \A i \in 1 .. Len(q) : q[i] \in Req
  OBVIOUS
<1>2. key \in [1 .. Len(q) -> Int]
  <2>. SUFFICES ASSUME NEW i \in 1 .. Len(q) PROVE Min(q[i].event.validPmc) \in Int
    BY <1>1 DEF Register
  <2>1. q[i].event.validPmc \in Registers
    BY <1>1 DEF Req, Event
  <2>2. q[i].event.validPmc \subseteq Nat /\ q[i].event.validPmc # {}
    BY <2>1 DEF Registers
  <2>3. Min(q[i].event.validPmc) \in q[i].event.validPmc
    BY <2>2, MinOf
  <2>. QED BY <2>2, <2>3
<1>7. \A i \in 1 .. Len(q) : key[i] = Register(q[i])
  BY <1>1
<1>. HIDE DEF key
<1>3. /\ o \in [1 .. Len(q) -> 1 .. Len(q)]
      /\ \A i, j \in 1 .. Len(q) : o[i] = o[j] => i = j
      /\ \A k \in 1 .. Len(q) : \E i \in 1 .. Len(q) : o[i] = k
      /\ \A i, j \in 1 .. Len(q) : i < j => key[o[i]] <= key[o[j]]
  BY <1>1, <1>2, OrderIsPermutation
<1>4. r \in Seq(Req) /\ Len(r) = Len(q) /\ \A k \in 1 .. Len(q) : r[k] = q[o[k]]
  BY <1>2, SortKeeps
<1>. HIDE DEF r, o
<1>5. Rearranges(r, q, o)
  BY <1>3, <1>4 DEF Rearranges
<1>8. Ascending(r)
  <2>1. \A k \in 1 .. Len(q) : o[k] \in 1 .. Len(q) /\ Register(r[k]) = key[o[k]]
    BY <1>3, <1>4, <1>7
  <2>2. ASSUME NEW i \in 1 .. Len(q), NEW j \in 1 .. Len(q), i < j
        PROVE  Register(r[i]) <= Register(r[j])
    <3>1. key[o[i]] <= key[o[j]]
      BY <1>3, <2>2
    <3>2. Register(r[i]) = key[o[i]] /\ Register(r[j]) = key[o[j]]
      BY <2>1
    <3>. QED BY <3>1, <3>2, Zenon
  <2>3. Len(r) = Len(q)
    BY <1>4
  <2>. QED BY <2>2, <2>3, Zenon DEF Ascending
<1>6. r \in Seq(Req) /\ Ascending(r) /\ \E p : Rearranges(r, q, p)
  BY <1>4, <1>5, <1>8
<1>. QED BY <1>6 DEF r, key

(* A request that selects no msr value, and one that selects a new one.        *)
LEMMA AddsSelect ==
  ASSUME NEW q \in Seq(Req), NEW msrs \in Seq(Event), SelectsOwn(q, msrs), NEW event \in Event
  PROVE  /\ SelectsOwn(Append(q, Request(event, 0)), msrs)
         /\ SelectsOwn(Append(q, Request(event, Len(msrs) + 1)), Append(msrs, event))
<1>. DEFINE L == Len(q)
            M == Len(msrs)
            n == Append(msrs, event)
<1>0. L \in Nat /\ M \in Nat
  OBVIOUS
<1>1. /\ \A i \in 1 .. L : q[i].select # 0 => q[i].select \in 1 .. M /\ msrs[q[i].select] = q[i].event
      /\ \A k \in 1 .. M : \E i \in 1 .. L : q[i].select = k
  BY DEF SelectsOwn
<1>2. \A s : /\ Len(Append(q, Request(event, s))) = L + 1
             /\ \A i \in 1 .. L : Append(q, Request(event, s))[i] = q[i]
             /\ Append(q, Request(event, s))[L + 1] = Request(event, s)
  OBVIOUS
<1>3. \A s : Request(event, s).select = s /\ Request(event, s).event = event
  BY DEF Request
<1>4. Len(n) = M + 1 /\ (\A k \in 1 .. M : n[k] = msrs[k]) /\ n[M + 1] = event
  OBVIOUS
<1>5. SelectsOwn(Append(q, Request(event, 0)), msrs)
  <2>. DEFINE r == Append(q, Request(event, 0))
  <2>1. Len(r) = L + 1 /\ (\A i \in 1 .. L : r[i] = q[i]) /\ r[L + 1].select = 0
    BY <1>2, <1>3
  <2>. HIDE DEF r, L, M
  <2>2. \A i \in 1 .. L + 1 : r[i].select # 0 => r[i].select \in 1 .. M /\ msrs[r[i].select] = r[i].event
    <3>. TAKE i \in 1 .. L + 1
    <3>1. i \in 1 .. L \/ i = L + 1
      BY <1>0
    <3>. QED BY <1>1, <2>1, <3>1
  <2>3. \A k \in 1 .. M : \E i \in 1 .. L + 1 : r[i].select = k
    <3>. TAKE k \in 1 .. M
    <3>1. PICK i \in 1 .. L : q[i].select = k
      BY <1>1
    <3>2. i \in 1 .. L + 1 /\ r[i].select = k
      BY <1>0, <2>1, <3>1
    <3>. QED BY <3>2
  <2>4. SelectsOwn(r, msrs)
    BY <2>1, <2>2, <2>3 DEF SelectsOwn, M
  <2>. QED BY <2>4 DEF r
<1>6. SelectsOwn(Append(q, Request(event, M + 1)), n)
  <2>. DEFINE r == Append(q, Request(event, M + 1))
  <2>1. /\ Len(r) = L + 1 /\ (\A i \in 1 .. L : r[i] = q[i])
        /\ r[L + 1].select = M + 1 /\ r[L + 1].event = event
    BY <1>2, <1>3
  <2>. HIDE DEF r, L, M, n
  <2>2. \A i \in 1 .. L + 1 : r[i].select # 0 => r[i].select \in 1 .. M + 1 /\ n[r[i].select] = r[i].event
    <3>. TAKE i \in 1 .. L + 1
    <3>1. i \in 1 .. L \/ i = L + 1
      BY <1>0
    <3>2. CASE i = L + 1
      <4>1. M + 1 \in 1 .. M + 1
        BY <1>0
      <4>. QED BY <1>4, <2>1, <3>2, <4>1
    <3>3. CASE i \in 1 .. L /\ r[i].select # 0
      <4>1. r[i] = q[i] /\ q[i].select \in 1 .. M /\ msrs[q[i].select] = q[i].event
        BY <1>1, <2>1, <3>3
      <4>2. q[i].select \in 1 .. M + 1
        BY <1>0, <4>1
      <4>. QED BY <1>4, <4>1, <4>2
    <3>. QED BY <3>1, <3>2, <3>3
  <2>3. \A k \in 1 .. M + 1 : \E i \in 1 .. L + 1 : r[i].select = k
    <3>. TAKE k \in 1 .. M + 1
    <3>1. CASE k = M + 1
      <4>1. L + 1 \in 1 .. L + 1
        BY <1>0
      <4>. QED BY <2>1, <3>1, <4>1
    <3>2. CASE k # M + 1
      <4>0. k \in 1 .. M
        BY <1>0, <3>2
      <4>1. PICK i \in 1 .. L : q[i].select = k
        BY <1>1, <4>0
      <4>2. i \in 1 .. L + 1 /\ r[i].select = k
        BY <1>0, <2>1, <4>1
      <4>. QED BY <4>2
    <3>. QED BY <3>1, <3>2
  <2>4. SelectsOwn(r, n)
    BY <1>4, <2>1, <2>2, <2>3 DEF SelectsOwn
  <2>. QED BY <2>4 DEF r
<1>. QED BY <1>5, <1>6

-----------------------------------------------------------------------------
(* The invariant is inductive.                                                 *)

(* It holds when nothing is loaded.                                            *)
LEMMA InitInv == Init => IInv
<1>. SUFFICES ASSUME Init PROVE IInv
  OBVIOUS
<1>1. phase = "loading" /\ db = <<>> /\ events = <<>> /\ todo = <<>>
      /\ offCoreEventCount = 0 /\ generic = <<>> /\ offcore = <<>> /\ fixed = <<>>
  BY DEF Init
<1>2. DbOK(db)
  BY <1>1 DEF DbOK
<1>3. ListsOK
  BY <1>1, LimitsAssumption DEF ListsOK
<1>4. EachOnce
  BY <1>1 DEF EachOnce, UniqueNames, Unique, NamesOf, ToSet
<1>5. SelectsOwn(generic, offcore) /\ Ascending(fixed)
  BY <1>1 DEF SelectsOwn, Ascending
<1>. QED BY <1>1, <1>2, <1>3, <1>4, <1>5 DEF IInv, Empty, Resolved, Drained, AllocOK, OrderOK, Programmed

(* After a failure only the lists matter.                                      *)
LEMMA FailedKeeps ==
  ASSUME phase' = "failed", DbOK(db)', ListsOK'
  PROVE  IInv'
BY DEF IInv, Empty, Resolved, Drained, AllocOK, OrderOK, Programmed

(* Loading changes the database only.                                          *)
LEMMA LoadKeeps ==
  ASSUME IInv, LoadEventsDb
  PROVE  IInv'
<1>1. /\ phase = "loading" /\ events' = events /\ todo' = todo
      /\ offCoreEventCount' = offCoreEventCount /\ generic' = generic /\ offcore' = offcore /\ fixed' = fixed
  BY DEF LoadEventsDb, setVars
<1>2. PICK records \in Databases :
        IF Loads(records)
        THEN db' = EventsMap(records) /\ phase' = "asked" /\ UNCHANGED error
        ELSE Raise("database") /\ UNCHANGED db
  BY DEF LoadEventsDb
<1>3. ListsOK'
  BY <1>1 DEF IInv, ListsOK
<1>4. CASE ~ Loads(records)
  BY <1>2, <1>3, <1>4, FailedKeeps DEF Raise, IInv
<1>5. CASE Loads(records)
  <2>1. phase' = "asked" /\ DbOK(db)'
    BY <1>2, <1>5, DatabaseLoads
  <2>2. Empty'
    BY <1>1, <2>1 DEF IInv, Empty
  <2>3. EachOnce /\ SelectsOwn(generic, offcore) /\ Ascending(fixed)
    BY <1>1 DEF IInv, Resolved
  <2>4. EachOnce'
    BY <1>1, <2>3 DEF EachOnce
  <2>5. SelectsOwn(generic, offcore)' /\ Ascending(fixed)'
    BY <1>1, <2>3 DEF Ascending
  <2>. QED BY <1>3, <2>1, <2>2, <2>4, <2>5 DEF IInv, Resolved, Drained, AllocOK, OrderOK, Programmed
<1>. QED BY <1>4, <1>5

(* The events asked for are all left to be resolved.                           *)
LEMMA CountersKeep ==
  ASSUME IInv, NEW pmc \in Requested, ResolveCounters(pmc)
  PROVE  IInv'
<1>1. /\ phase = "asked" /\ db' = db
      /\ offCoreEventCount' = offCoreEventCount /\ generic' = generic /\ offcore' = offcore /\ fixed' = fixed
  BY DEF ResolveCounters, setVars
<1>2. /\ events = <<>> /\ todo = <<>> /\ generic = <<>> /\ fixed = <<>> /\ offcore = <<>>
  BY <1>1 DEF IInv, Empty
<1>3. DbOK(db)'
  BY <1>1 DEF IInv
<1>4. CASE ~ \A node \in NodesAsked(pmc) : HasNode(node)
  <2>1. phase' = "failed" /\ events' = events /\ todo' = todo
    BY <1>4 DEF ResolveCounters, Raise
  <2>2. ListsOK'
    BY <1>1, <2>1 DEF IInv, ListsOK
  <2>. QED BY <1>3, <2>1, <2>2, FailedKeeps
<1>5. CASE \A node \in NodesAsked(pmc) : HasNode(node)
  <2>1. events' = AggregatePmc(pmc) /\ todo' = events'
    BY <1>5 DEF ResolveCounters
  <2>2. /\ events' \in Seq(Known) /\ Unique(events') /\ ToSet(events') = Asked(pmc, Len(pmc))
    BY <1>5, <2>1, AggregateLists
  <2>3. ListsOK'
    BY <1>1, <2>1, <2>2 DEF IInv, ListsOK
  <2>4. phase' \in {"failed", "resolving"}
    BY <1>5 DEF ResolveCounters, Raise
  <2>5. EachOnce'
    BY <1>1, <1>2, <2>1, <2>2 DEF EachOnce, UniqueNames, NamesOf
  <2>6. SelectsOwn(generic, offcore)'
    BY <1>1, <1>2 DEF SelectsOwn
  <2>7. Ascending(fixed)'
    BY <1>1, <1>2 DEF Ascending
  <2>8. CASE phase' = "resolving"
    BY <1>3, <2>3, <2>5, <2>6, <2>7, <2>8 DEF IInv, Empty, Resolved, Drained, AllocOK, OrderOK, Programmed
  <2>9. CASE phase' = "failed"
    BY <1>3, <2>3, <2>9, FailedKeeps
  <2>. QED BY <2>4, <2>8, <2>9
<1>. QED BY <1>4, <1>5

(* The first event left is in one list of requests more.                       *)
LEMMA MovesOne ==
  ASSUME EachOnce, todo \in Seq(Known), todo # <<>>, todo' = Tail(todo), events' = events,
         UniqueNames(generic)', UniqueNames(fixed)',
         \/ NamesOf(generic') = NamesOf(generic) \cup {Head(todo)} /\ NamesOf(fixed') = NamesOf(fixed)
         \/ NamesOf(fixed') = NamesOf(fixed) \cup {Head(todo)} /\ NamesOf(generic') = NamesOf(generic)
  PROVE  EachOnce'
<1>. DEFINE n == Head(todo)
            G == NamesOf(generic)
            F == NamesOf(fixed)
            T == ToSet(todo')
<1>1. Unique(todo')  /\ n \notin T /\ ToSet(todo) = {n} \cup T
  BY HeadTail DEF EachOnce
<1>2. /\ G \cap F = {} /\ ToSet(todo) \cap (G \cup F) = {} /\ ToSet(events') = G \cup F \cup ToSet(todo)
  BY DEF EachOnce
<1>. DEFINE H == NamesOf(generic')
            E == NamesOf(fixed')
<1>3. (H = G \cup {n} /\ E = F) \/ (E = F \cup {n} /\ H = G)
  OBVIOUS
<1>. HIDE DEF n, G, F, T, H, E
<1>4. H \cap E = {} /\ T \cap (H \cup E) = {} /\ ToSet(events') = H \cup E \cup T
  BY <1>1, <1>2, <1>3
<1>. QED BY <1>1, <1>4 DEF EachOnce, H, E, T

(* An event that is resolved moves to the list of its type.                    *)
LEMMA EventKeeps ==
  ASSUME IInv, ResolveEvent
  PROVE  IInv'
<1>. DEFINE n == Head(todo)
            event == GetItem(n)
<1>1. /\ phase = "resolving" /\ todo # <<>> /\ todo' = Tail(todo)
      /\ db' = db /\ events' = events
  BY DEF ResolveEvent
<1>2. /\ todo \in Seq(Known) /\ events \in Seq(Known)
      /\ generic \in Seq(Req) /\ fixed \in Seq(Req) /\ offcore \in Seq(Event)
      /\ offCoreEventCount = Len(offcore)
      /\ Len(generic) <= MaxGeneric /\ Len(fixed) <= MaxFixed /\ Len(offcore) <= MaxOffcore
  BY DEF IInv, ListsOK
<1>3. EachOnce /\ SelectsOwn(generic, offcore) /\ Ascending(fixed)
  BY <1>1 DEF IInv, Resolved
<1>4. DbOK(db)'
  BY <1>1 DEF IInv
<1>5. n \in Known /\ todo' \in Seq(Known) /\ n \in ToSet(todo) /\ events' \in Seq(Known)
  BY <1>1, <1>2, <1>3, HeadTail DEF EachOnce
<1>6. n \notin NamesOf(generic) /\ n \notin NamesOf(fixed)
  BY <1>3, <1>5 DEF EachOnce
<1>7. UniqueNames(generic) /\ UniqueNames(fixed)
  BY <1>3 DEF EachOnce
<1>8. ASSUME phase' = "failed", UNCHANGED setVars PROVE IInv'
  <2>1. generic' = generic /\ fixed' = fixed /\ offcore' = offcore /\ offCoreEventCount' = offCoreEventCount
    BY <1>8 DEF setVars
  <2>2. ListsOK'
    BY <1>2, <1>5, <2>1 DEF ListsOK
  <2>. QED BY <1>4, <1>8, <2>2, FailedKeeps
<1>9. ASSUME phase' = phase, ListsOK', EachOnce', SelectsOwn(generic, offcore)', Ascending(fixed)' PROVE IInv'
  BY <1>1, <1>4, <1>9 DEF IInv, Empty, Resolved, Drained, AllocOK, OrderOK, Programmed
<1>10. CASE ~ InDb(n)
  BY <1>8, <1>10 DEF ResolveEvent, Raise
<1>11. CASE InDb(n)
  <2>1. event \in Event /\ event.name = n
    BY <1>5, <1>11, ItemIsEvent DEF IInv
  <2>2. event.eventType \in Types
    BY <2>1 DEF Event
  <2>3. (CASE event.eventType = "GenericCore" -> AddGeneric(event)
           [] event.eventType = "FixedCore" -> AddFixed(event)
           [] event.eventType = "OffCore" -> AddOffCore(event))
    BY <1>11 DEF ResolveEvent
  <2>. DEFINE req(s) == Request(event, s)
  <2>. HIDE DEF event, n
  <2>4. ASSUME NEW s \in Nat PROVE req(s) \in Req /\ req(s).event.name = n
    BY <2>1 DEF Req, Request
  <2>5. MaxGeneric \in Nat /\ MaxFixed \in Nat /\ MaxOffcore \in Nat
        /\ Len(generic) \in Nat /\ Len(fixed) \in Nat /\ Len(offcore) \in Nat
    BY <1>2, LimitsAssumption
  <2>6. CASE event.eventType = "GenericCore"
    <3>1. AddGeneric(event)
      BY <2>3, <2>6
    <3>2. CASE Len(generic) >= MaxGeneric
      BY <1>8, <3>1, <3>2 DEF AddGeneric, Raise
    <3>3. CASE ~ (Len(generic) >= MaxGeneric)
      <4>1. /\ generic' = Append(generic, req(0)) /\ phase' = phase
            /\ offCoreEventCount' = offCoreEventCount /\ offcore' = offcore /\ fixed' = fixed
        BY <3>1, <3>3 DEF AddGeneric
      <4>2. /\ generic' \in Seq(Req) /\ Len(generic') = Len(generic) + 1 /\ UniqueNames(generic')
            /\ NamesOf(generic') = NamesOf(generic) \cup {n}
        <5>1. req(0) \in Req /\ req(0).event.name = n
          BY <2>4
        <5>. HIDE DEF req
        <5>. QED BY <1>2, <1>6, <1>7, <4>1, <5>1, AddsName
      <4>3. Len(generic') <= MaxGeneric
        BY <2>5, <3>3, <4>2
      <4>4. ListsOK'
        BY <1>2, <1>5, <4>1, <4>2, <4>3 DEF ListsOK
      <4>5. EachOnce'
        BY <1>1, <1>2, <1>3, <1>7, <4>1, <4>2, MovesOne DEF n
      <4>6. SelectsOwn(generic', offcore')
        BY <1>2, <1>3, <2>1, <4>1, AddsSelect
      <4>7. Ascending(fixed')
        BY <1>3, <4>1
      <4>. QED BY <1>9, <4>1, <4>4, <4>5, <4>6, <4>7
    <3>. QED BY <3>2, <3>3
  <2>7. CASE event.eventType = "FixedCore"
    <3>1. AddFixed(event)
      BY <2>3, <2>7
    <3>2. CASE Len(fixed) >= MaxFixed
      BY <1>8, <3>1, <3>2 DEF AddFixed, Raise
    <3>3. CASE ~ (Len(fixed) >= MaxFixed)
      <4>. DEFINE all == Append(fixed, req(0))
      <4>1. /\ fixed' = StableSort(all, [i \in DOMAIN all |-> Register(all[i])]) /\ phase' = phase
            /\ offCoreEventCount' = offCoreEventCount /\ offcore' = offcore /\ generic' = generic
        BY <3>1, <3>3 DEF AddFixed
      <4>2. /\ all \in Seq(Req) /\ Len(all) = Len(fixed) + 1 /\ UniqueNames(all)
            /\ NamesOf(all) = NamesOf(fixed) \cup {n}
        BY <1>2, <1>6, <1>7, <2>4, AddsName
      <4>. HIDE DEF all
      <4>3. PICK o : fixed' \in Seq(Req) /\ Ascending(fixed') /\ Rearranges(fixed', all, o)
        BY <4>1, <4>2, SortsFixed
      <4>4. UniqueNames(fixed') /\ NamesOf(fixed') = NamesOf(fixed) \cup {n} /\ Len(fixed') = Len(fixed) + 1
        BY <4>2, <4>3, Rearranged DEF Rearranges
      <4>5. Len(fixed') <= MaxFixed
        BY <2>5, <3>3, <4>4
      <4>6. ListsOK'
        BY <1>2, <1>5, <4>1, <4>3, <4>5 DEF ListsOK
      <4>7. EachOnce'
        BY <1>1, <1>2, <1>3, <1>7, <4>1, <4>4, MovesOne DEF n
      <4>8. SelectsOwn(generic', offcore')
        BY <1>3, <4>1
      <4>. QED BY <1>9, <4>1, <4>3, <4>6, <4>7, <4>8
    <3>. QED BY <3>2, <3>3
  <2>8. CASE event.eventType = "OffCore"
    <3>. DEFINE s == offCoreEventCount + 1
    <3>1. AddOffCoreRequests(event, s)
      BY <2>3, <2>8 DEF AddOffCore
    <3>2. CASE offCoreEventCount >= MaxOffcore
      <4>1. Raise("offcore") /\ UNCHANGED setVars
        BY <1>2, <2>5, <3>1, <3>2 DEF AddOffCoreRequests
      <4>. QED BY <1>8, <4>1 DEF Raise
    <3>3. CASE offCoreEventCount < MaxOffcore /\ Len(generic) >= MaxGeneric
      <4>1. Raise("generic") /\ UNCHANGED setVars
        BY <1>2, <2>5, <3>1, <3>3 DEF AddOffCoreRequests
      <4>. QED BY <1>8, <4>1 DEF Raise
    <3>4. CASE offCoreEventCount < MaxOffcore /\ ~ (Len(generic) >= MaxGeneric)
      <4>1. /\ generic' = Append(generic, req(s)) /\ offcore' = Append(offcore, event)
            /\ offCoreEventCount' = offCoreEventCount + 1 /\ phase' = phase /\ fixed' = fixed
        BY <1>2, <2>5, <3>1, <3>4 DEF AddOffCoreRequests
      <4>2. s = Len(offcore) + 1 /\ s \in Nat
        BY <1>2, <2>5
      <4>. HIDE DEF s
      <4>3. /\ generic' \in Seq(Req) /\ Len(generic') = Len(generic) + 1 /\ UniqueNames(generic')
            /\ NamesOf(generic') = NamesOf(generic) \cup {n}
        BY <1>2, <1>6, <1>7, <2>4, <4>1, <4>2, AddsName
      <4>4. offcore' \in Seq(Event) /\ Len(offcore') = Len(offcore) + 1
        BY <1>2, <2>1, <4>1
      <4>5. Len(generic') <= MaxGeneric /\ Len(offcore') <= MaxOffcore /\ offCoreEventCount' = Len(offcore')
        BY <1>2, <2>5, <3>4, <4>1, <4>3, <4>4
      <4>6. ListsOK'
        BY <1>2, <1>5, <4>1, <4>3, <4>4, <4>5 DEF ListsOK
      <4>7. EachOnce'
        BY <1>1, <1>2, <1>3, <1>7, <4>1, <4>3, MovesOne DEF n
      <4>8. SelectsOwn(generic', offcore')
        BY <1>2, <1>3, <2>1, <4>1, <4>2, AddsSelect
      <4>9. Ascending(fixed')
        BY <1>3, <4>1
      <4>. QED BY <1>9, <4>1, <4>6, <4>7, <4>8, <4>9
    <3>5. offCoreEventCount \in Nat
      BY <1>2, <2>5
    <3>. QED BY <2>5, <3>2, <3>3, <3>4, <3>5
  <2>. QED BY <2>2, <2>6, <2>7, <2>8 DEF Types
<1>. QED BY <1>10, <1>11

(* The allocation, and what follows it, leave the lists alone.                 *)
LEMMA SameLists ==
  ASSUME IInv, phase # "failed", UNCHANGED <<db, events, todo, setVars>>
  PROVE  DbOK(db)' /\ ListsOK' /\ Resolved'
<1>1. /\ db' = db /\ events' = events /\ todo' = todo
      /\ offCoreEventCount' = offCoreEventCount /\ generic' = generic /\ offcore' = offcore /\ fixed' = fixed
  BY DEF setVars
<1>2. DbOK(db)' /\ ListsOK'
  BY <1>1 DEF IInv, ListsOK
<1>3. EachOnce /\ SelectsOwn(generic, offcore) /\ Ascending(fixed)
  BY DEF IInv, Resolved
<1>4. EachOnce'
  BY <1>1, <1>3 DEF EachOnce
<1>5. SelectsOwn(generic', offcore') /\ Ascending(fixed)'
  BY <1>1, <1>3 DEF Ascending
<1>. QED BY <1>2, <1>4, <1>5 DEF Resolved

(* When the allocator is tried, the events may use as many registers as there  *)
(* are requests.                                                               *)
LEMMA FitsRegisters ==
  ASSUME NEW q \in Seq(Req), q # <<>>, SlotCount(q) = Len(q)
  PROVE  \A i \in 1 .. Len(q) : q[i].event.validPmc \subseteq 0 .. Len(q) - 1
<1>. DEFINE N == 1 .. Len(q)
            R == {q[i].event.validPmc : i \in N}
            f == [i \in N |-> q[i].event.validPmc]
            U == UNION R
<1>1. Len(q) \in Nat /\ Len(q) > 0 /\ DOMAIN q = N /\ 1 \in N
  OBVIOUS
<1>2. \A i \in N : q[i].event.validPmc \in Registers
  <2>1. \A i \in N : q[i] \in Req
    OBVIOUS
  <2>. QED BY <2>1 DEF Req, Event
<1>3. IsFiniteSet(R)
  <2>1. IsFiniteSet(N)
    BY <1>1, FS_Interval
  <2>2. f \in Surjection(N, R)
    BY DEF Surjection
  <2>. HIDE DEF f, R, N
  <2>. QED BY <2>1, <2>2, FS_Surjection
<1>4. \A P \in R : IsFiniteSet(P) /\ P \subseteq Nat /\ P # {}
  BY <1>2 DEF Registers
<1>5. R # {}
  BY <1>1
<1>6. IsFiniteSet(U) /\ U \subseteq Nat /\ U # {}
  <2>. HIDE DEF R
  <2>. QED BY <1>3, <1>4, <1>5, FS_UNION
<1>7. \A y \in U : y <= Max(U)
  <2>. HIDE DEF U
  <2>. QED BY <1>6, MaxOfFinite
<1>8. Max(U) + 1 = Len(q)
  BY <1>1 DEF SlotCount
<1>9. Max(U) \in Nat
  <2>. HIDE DEF U
  <2>. QED BY <1>6, MaxOfFinite
<1>. SUFFICES ASSUME NEW i \in N, NEW y \in q[i].event.validPmc PROVE y \in 0 .. Len(q) - 1
  OBVIOUS
<1>10. y \in U
  OBVIOUS
<1>. HIDE DEF U, N
<1>. QED BY <1>1, <1>6, <1>7, <1>8, <1>9, <1>10

(* The allocator begins with every request waiting.                            *)
LEMMA BeginKeeps ==
  ASSUME IInv, BeginAllocation
  PROVE  IInv'
<1>. DEFINE L == Len(generic)
<1>1. /\ phase = "resolving" /\ todo = <<>> /\ todo' = todo /\ generic' = generic
      /\ UNCHANGED <<db, events, todo, setVars>>
  BY DEF BeginAllocation, setVars
<1>2. generic \in Seq(Req) /\ L \in Nat /\ DOMAIN generic = 1 .. L
  BY DEF IInv, ListsOK
<1>3. DbOK(db)' /\ ListsOK' /\ Resolved'
  BY <1>1, SameLists
<1>4. CASE generic = <<>> \/ InOrder(generic)
  <2>1. phase' = "ready"
    BY <1>4 DEF BeginAllocation
  <2>2. InOrder(generic')
    BY <1>1, <1>4 DEF InOrder
  <2>. QED BY <1>1, <1>3, <2>1, <2>2 DEF IInv, Empty, Drained, AllocOK, OrderOK
<1>5. CASE ~ InOrder(generic) /\ generic # <<>> /\ SlotCount(generic) # L
  <2>1. phase' = "failed"
    BY <1>5 DEF BeginAllocation, Raise
  <2>. QED BY <1>3, <2>1, FailedKeeps
<1>6. CASE ~ InOrder(generic) /\ generic # <<>> /\ SlotCount(generic) = L
  <2>1. /\ allocatables' = [i \in DOMAIN generic |-> [index |-> i, constraint |-> generic[i].event.validPmc]]
        /\ slots' = [register \in 0 .. Len(generic) - 1 |-> None]
        /\ phase' = "allocating"
    BY <1>6, Zenon DEF BeginAllocation
  <2>. DEFINE a == allocatables'
  <2>2. \A i \in 1 .. L : generic[i].event.validPmc \subseteq 0 .. L - 1
    BY <1>2, <1>6, FitsRegisters
  <2>3. a \in [1 .. L -> Allocatable(L)]
    BY <1>2, <2>1, <2>2 DEF Allocatable
  <2>4. a \in Seq(Allocatable(L)) /\ Len(a) = L
    BY <1>2, <2>3
  <2>5. \A i \in 1 .. L : a[i].index = i /\ a[i].constraint = generic[i].event.validPmc
    BY <1>2, <2>1
  <2>6. \A r \in 0 .. L - 1 : slots'[r] = None
    BY <2>1
  <2>. HIDE DEF a, L
  <2>7. Waiting(allocatables, L)'
    <3>1. /\ \A i \in 1 .. Len(a) : a[i].constraint \subseteq generic[a[i].index].event.validPmc
          /\ \A i, j \in 1 .. Len(a) : a[i].index = a[j].index => i = j
      BY <2>4, <2>5
    <3>. QED BY <1>1, <2>4, <3>1 DEF Waiting, a, L
  <2>8. Assigned(L)'
    <3>1. slots' \in [0 .. L - 1 -> (1 .. L) \cup {None}]
      BY <2>1 DEF L
    <3>. QED BY <1>1, <2>6, <3>1 DEF Assigned, L
  <2>9. NoneForgotten(L)'
    BY <1>1, <2>4, <2>5 DEF NoneForgotten, a, L
  <2>10. NoneTwice(L)'
    <3>1. \A i \in 1 .. L, r \in 0 .. L - 1 : slots'[r] # a[i].index
      BY <1>2, <2>5, <2>6, NoneAssumption
    <3>. QED BY <1>1, <2>4, <3>1 DEF NoneTwice, a, L
  <2>11. Allocating'
    BY <2>7, <2>8, <2>9, <2>10 DEF Allocating, a, L
  <2>. QED BY <1>1, <1>3, <2>1, <2>11 DEF IInv, Empty, Drained, AllocOK, OrderOK, Programmed
<1>. QED BY <1>4, <1>5, <1>6

(* Sorting the requests that wait changes their order only.                    *)
LEMMA SortsWaiting ==
  ASSUME NEW L \in Nat, NEW seq, Waiting(seq, L)
  PROVE  /\ Waiting(Sorted(seq), L) /\ Len(Sorted(seq)) = Len(seq)
         /\ \A k \in 1 .. Len(seq) : \E i \in 1 .. Len(seq) : Sorted(seq)[k] = seq[i]
         /\ \A i \in 1 .. Len(seq) : \E k \in 1 .. Len(seq) : Sorted(seq)[k] = seq[i]
<1>. DEFINE key == [i \in DOMAIN seq |-> 0 - Cardinality(seq[i].constraint)]
            s == Sorted(seq)
            o == Order(key)
            N == 1 .. Len(seq)
<1>1. /\ seq \in Seq(Allocatable(L)) /\ Len(seq) \in Nat /\ DOMAIN seq = N
      /\ \A i \in N : seq[i] \in Allocatable(L)
  BY DEF Waiting
<1>2. /\ \A i \in N : seq[i].constraint \subseteq generic[seq[i].index].event.validPmc
      /\ \A i, j \in N : seq[i].index = seq[j].index => i = j
  BY DEF Waiting
<1>3. key \in [1 .. Len(seq) -> Int]
  <2>. SUFFICES ASSUME NEW i \in N PROVE 0 - Cardinality(seq[i].constraint) \in Int
    BY <1>1
  <2>1. seq[i].constraint \in SUBSET (0 .. L - 1)
    BY <1>1 DEF Allocatable
  <2>2. IsFiniteSet(0 .. L - 1)
    BY FS_Interval
  <2>3. Cardinality(seq[i].constraint) \in Nat
    BY <2>1, <2>2, FS_Subset, FS_CardinalityType
  <2>. QED BY <2>3
<1>4. s = StableSort(seq, key)
  BY DEF Sorted
<1>. HIDE DEF key, s
<1>5. /\ o \in [N -> N]
      /\ \A i, j \in N : o[i] = o[j] => i = j
      /\ \A k \in N : \E i \in N : o[i] = k
  BY <1>1, <1>3, OrderIsPermutation
<1>6. s \in Seq(Allocatable(L)) /\ Len(s) = Len(seq) /\ \A k \in N : s[k] = seq[o[k]]
  BY <1>1, <1>3, <1>4, SortKeeps
<1>. HIDE DEF o, N
<1>7. \A k \in N : o[k] \in N
  BY <1>5
<1>8. \A k \in N : s[k].constraint \subseteq generic[s[k].index].event.validPmc
  BY <1>2, <1>6, <1>7
<1>9. \A i, j \in N : s[i].index = s[j].index => i = j
  <2>. TAKE i \in N, j \in N
  <2>. HAVE s[i].index = s[j].index
  <2>1. o[i] = o[j]
    BY <1>2, <1>6, <1>7
  <2>. QED BY <1>5, <2>1
<1>10. Waiting(s, L)
  BY <1>6, <1>8, <1>9 DEF Waiting, N
<1>11. \A i \in N : \E k \in N : s[k] = seq[i]
  <2>. TAKE i \in N
  <2>1. PICK k \in N : o[k] = i
    BY <1>5
  <2>. QED BY <1>6, <2>1
<1>12. \A k \in N : \E i \in N : s[k] = seq[i]
  BY <1>6, <1>7
<1>. QED BY <1>6, <1>10, <1>11, <1>12 DEF s, N

(* The request that is allocated leaves; the others keep their order and may   *)
(* use no more registers than before.                                          *)
LEMMA Leaves ==
  ASSUME NEW L \in Nat, NEW s \in Seq(Allocatable(L)), s # <<>>, NEW cn
  PROVE  LET a == DiscardFirst(Front(s), cn)
         IN  /\ a \in Seq(Allocatable(L)) /\ Len(a) = Len(s) - 1
             /\ \A k \in 1 .. Len(s) - 1 : a[k].index = s[k].index /\ a[k].constraint \subseteq s[k].constraint
<1>. DEFINE f == Front(s)
            a == DiscardFirst(f, cn)
            A == Allocatable(L)
<1>1. Len(s) \in Nat /\ Len(s) > 0
  OBVIOUS
<1>2. /\ f \in Seq(A) /\ Len(f) = Len(s) - 1 /\ DOMAIN f = 1 .. Len(f)
      /\ \A k \in 1 .. Len(s) - 1 : f[k] = s[k] /\ f[k] \in A
  <2>. HIDE DEF A
  <2>1. f = SubSeq(s, 1, Len(s) - 1)
    BY DEF Front
  <2>4. \A k \in 1 .. Len(s) - 1 : s[k] \in A
    BY <1>1 DEF A
  <2>2. f \in Seq(A) /\ Len(f) = Len(s) - 1
    <3>. DEFINE n == Len(s) - 1
    <3>1. n \in Nat /\ n \in Int /\ 1 \in Int /\ \A k \in 1 .. n : s[k] \in A
      BY <1>1, <2>4
    <3>. HIDE DEF n
    <3>2. /\ SubSeq(s, 1, n) \in Seq(A)
          /\ Len(SubSeq(s, 1, n)) = IF 1 <= n THEN n - 1 + 1 ELSE 0
      BY <3>1, SubSeqProperties
    <3>3. Len(SubSeq(s, 1, n)) = n
      BY <3>1, <3>2
    <3>. QED BY <2>1, <3>2, <3>3 DEF n
  <2>3. \A k \in 1 .. Len(s) - 1 : f[k] = s[k]
    BY <1>1, <2>1
  <2>. QED BY <2>2, <2>3, <2>4
<1>. HIDE DEF f
<1>. DEFINE Goal == /\ a \in Seq(A) /\ Len(a) = Len(s) - 1
                    /\ \A k \in 1 .. Len(s) - 1 : a[k].index = s[k].index /\ a[k].constraint \subseteq s[k].constraint
<1>3. ASSUME f = <<>> PROVE Goal
  <2>1. a = f
    BY <1>3 DEF DiscardFirst
  <2>. HIDE DEF a, A
  <2>. QED BY <1>2, <2>1
<1>4. ASSUME f # <<>> PROVE Goal
  <2>1. a = [f EXCEPT ![1] = [f[1] EXCEPT !.constraint = f[1].constraint \ {cn}]]
    BY <1>4 DEF DiscardFirst
  <2>. DEFINE x == [f[1] EXCEPT !.constraint = f[1].constraint \ {cn}]
  <2>2. f[1] \in A /\ 1 \in 1 .. Len(f) /\ Len(f) \in Nat
    BY <1>1, <1>2, <1>4
  <2>3. x \in A /\ x.index = f[1].index /\ x.constraint \subseteq f[1].constraint
    <3>1. f[1] \in [index : 1 .. L, constraint : SUBSET (0 .. L - 1)]
      BY <2>2 DEF Allocatable
    <3>2. f[1].constraint \ {cn} \in SUBSET (0 .. L - 1)
      BY <3>1
    <3>. QED BY <3>1, <3>2 DEF Allocatable
  <2>. HIDE DEF x, A
  <2>4. a \in Seq(A) /\ Len(a) = Len(f) /\ \A k \in 1 .. Len(f) : a[k] = IF k = 1 THEN x ELSE f[k]
    BY <1>2, <2>1, <2>2, <2>3 DEF x
  <2>. HIDE DEF a
  <2>5. \A k \in 1 .. Len(s) - 1 : a[k].index = s[k].index /\ a[k].constraint \subseteq s[k].constraint
    <3>. TAKE k \in 1 .. Len(s) - 1
    <3>1. CASE k = 1
      BY <1>2, <2>3, <2>4, <3>1
    <3>2. CASE k # 1
      BY <1>2, <2>4, <3>2
    <3>. QED BY <3>1, <3>2
  <2>. QED BY <1>2, <2>4, <2>5
<1>5. Goal
  BY <1>3, <1>4
<1>. QED BY <1>5 DEF f

(* A call of allocate moves one request from those that wait to a register.    *)
LEMMA AllocateKeeps ==
  ASSUME IInv, Allocate
  PROVE  IInv'
<1>. DEFINE L == Len(generic)
            M == Len(allocatables)
            s == Sorted(allocatables)
            al == Last(s)
            cn == Min(FreeSlots(al))
<1>1. /\ phase = "allocating" /\ allocatables # <<>> /\ todo' = todo /\ generic' = generic
      /\ UNCHANGED <<db, events, todo, setVars>>
  BY DEF Allocate, setVars
<1>2. generic \in Seq(Req) /\ L \in Nat /\ todo = <<>>
  BY <1>1 DEF IInv, ListsOK, Drained
<1>3. DbOK(db)' /\ ListsOK' /\ Resolved'
  BY <1>1, SameLists
<1>4. Assigned(L) /\ Waiting(allocatables, L) /\ NoneForgotten(L) /\ NoneTwice(L)
  BY <1>1 DEF IInv, AllocOK, Allocating
<1>5. CASE FreeSlots(al) = {}
  <2>1. phase' = "failed"
    BY <1>5 DEF Allocate, Raise
  <2>. QED BY <1>3, <2>1, FailedKeeps
<1>6. CASE FreeSlots(al) # {}
  <2>1. /\ slots' = [slots EXCEPT ![cn] = al.index]
        /\ allocatables' = DiscardFirst(Front(s), cn)
        /\ phase' = phase
    BY <1>6 DEF Allocate
  <2>2. /\ Waiting(s, L) /\ Len(s) = M
        /\ \A k \in 1 .. M : \E i \in 1 .. M : s[k] = allocatables[i]
        /\ \A i \in 1 .. M : \E k \in 1 .. M : s[k] = allocatables[i]
    BY <1>2, <1>4, SortsWaiting
  <2>3. M \in Nat /\ M > 0
    BY <1>1, <1>4 DEF Waiting
  <2>. HIDE DEF s
  <2>4. /\ s \in Seq(Allocatable(L)) /\ \A k \in 1 .. M : s[k] \in Allocatable(L)
        /\ \A i \in 1 .. M : s[i].constraint \subseteq generic[s[i].index].event.validPmc
        /\ \A i, j \in 1 .. M : s[i].index = s[j].index => i = j
    <3>. HIDE DEF L, M
    <3>1. /\ s \in Seq(Allocatable(L))
          /\ \A i \in 1 .. Len(s) : s[i].constraint \subseteq generic[s[i].index].event.validPmc
          /\ \A i, j \in 1 .. Len(s) : s[i].index = s[j].index => i = j
      BY <2>2 DEF Waiting
    <3>2. \A k \in 1 .. Len(s) : s[k] \in Allocatable(L)
      BY <3>1
    <3>. QED BY <2>2, <3>1, <3>2
  <2>5. al = s[M] /\ M \in 1 .. M /\ al \in Allocatable(L)
    BY <2>2, <2>3, <2>4 DEF Last
  <2>6. al.index \in 1 .. L /\ al.constraint \subseteq 0 .. L - 1
        /\ al.constraint \subseteq generic[al.index].event.validPmc
    BY <2>4, <2>5 DEF Allocatable
  <2>. HIDE DEF al
  <2>7. cn \in al.constraint /\ slots[cn] = None
    <3>1. FreeSlots(al) \subseteq Nat
      BY <1>2, <2>6 DEF FreeSlots
    <3>2. Min(FreeSlots(al)) \in FreeSlots(al)
      BY <1>6, <3>1, MinOf
    <3>. QED BY <3>2 DEF FreeSlots
  <2>. HIDE DEF cn
  <2>8. cn \in 0 .. L - 1 /\ cn \in generic[al.index].event.validPmc
    BY <2>6, <2>7
  <2>. DEFINE a == allocatables'
  <2>9. /\ a \in Seq(Allocatable(L)) /\ Len(a) = M - 1
        /\ \A k \in 1 .. M - 1 : a[k].index = s[k].index /\ a[k].constraint \subseteq s[k].constraint
    <3>. DEFINE b == DiscardFirst(Front(s), cn)
    <3>1. s # <<>>
      BY <2>2, <2>3
    <3>. HIDE DEF L, M
    <3>2. /\ b \in Seq(Allocatable(L)) /\ Len(b) = Len(s) - 1
          /\ \A k \in 1 .. Len(s) - 1 : b[k].index = s[k].index /\ b[k].constraint \subseteq s[k].constraint
      BY <1>2, <2>4, <3>1, Leaves
    <3>3. a = b
      BY <2>1
    <3>. HIDE DEF a, b
    <3>. QED BY <2>2, <3>2, <3>3
  <2>10. /\ slots \in [0 .. L - 1 -> (1 .. L) \cup {None}]
         /\ \A r \in 0 .. L - 1 : slots[r] # None => r \in generic[slots[r]].event.validPmc
         /\ \A r, t \in 0 .. L - 1 : slots[r] = slots[t] /\ slots[r] # None => r = t
    BY <1>4 DEF Assigned
  <2>11. \A r \in 0 .. L - 1 : slots'[r] = IF r = cn THEN al.index ELSE slots[r]
    BY <2>1, <2>10
  <2>12. \A k \in 1 .. M, r \in 0 .. L - 1 : slots[r] # s[k].index
    <3>. TAKE k \in 1 .. M, r \in 0 .. L - 1
    <3>1. PICK i \in 1 .. M : s[k] = allocatables[i]
      BY <2>2
    <3>. QED BY <1>4, <3>1 DEF NoneTwice
  <2>13. \A k \in 1 .. M - 1 : k \in 1 .. M /\ k # M
    BY <2>3
  <2>14. \A k \in 1 .. M : k \in 1 .. M - 1 \/ k = M
    BY <2>3
  <2>. HIDE DEF L, M, a
  <2>15. Assigned(L)'
    <3>1. slots' \in [0 .. L - 1 -> (1 .. L) \cup {None}]
      BY <2>1, <2>6, <2>10
    <3>2. \A r \in 0 .. L - 1 : slots'[r] # None => r \in generic[slots'[r]].event.validPmc
      BY <2>8, <2>10, <2>11
    <3>3. \A r, t \in 0 .. L - 1 : slots'[r] = slots'[t] /\ slots'[r] # None => r = t
      BY <2>5, <2>10, <2>11, <2>12
    <3>. QED BY <1>1, <3>1, <3>2, <3>3 DEF Assigned, L
  <2>16. Waiting(allocatables, L)'
    <3>1. \A k \in 1 .. M - 1 : a[k].constraint \subseteq generic[a[k].index].event.validPmc
      BY <2>4, <2>9, <2>13
    <3>2. \A i, j \in 1 .. M - 1 : a[i].index = a[j].index => i = j
      BY <2>4, <2>9, <2>13
    <3>. QED BY <1>1, <2>9, <3>1, <3>2 DEF Waiting, a, L
  <2>17. NoneForgotten(L)'
    <3>1. ASSUME NEW k \in 1 .. L
          PROVE  (\E i \in 1 .. M - 1 : a[i].index = k) \/ (\E r \in 0 .. L - 1 : slots'[r] = k)
      <4>1. CASE \E i \in 1 .. M : allocatables[i].index = k
        <5>1. PICK i \in 1 .. M : allocatables[i].index = k
          BY <4>1
        <5>2. PICK j \in 1 .. M : s[j] = allocatables[i]
          BY <2>2
        <5>3. CASE j = M
          BY <2>5, <2>8, <2>11, <5>1, <5>2, <5>3
        <5>4. CASE j \in 1 .. M - 1
          BY <2>9, <5>1, <5>2, <5>4
        <5>. QED BY <2>14, <5>3, <5>4
      <4>2. CASE \E r \in 0 .. L - 1 : slots[r] = k
        <5>1. PICK r \in 0 .. L - 1 : slots[r] = k
          BY <4>2
        <5>2. k # None
          BY <1>2, NoneAssumption DEF L
        <5>. QED BY <2>7, <2>11, <5>1, <5>2
      <4>. QED BY <1>4, <4>1, <4>2 DEF NoneForgotten, M
    <3>. QED BY <1>1, <2>9, <3>1 DEF NoneForgotten, a, L
  <2>18. NoneTwice(L)'
    <3>1. \A k \in 1 .. M - 1, r \in 0 .. L - 1 : slots'[r] # a[k].index
      <4>. TAKE k \in 1 .. M - 1, r \in 0 .. L - 1
      <4>1. k \in 1 .. M /\ k # M /\ a[k].index = s[k].index
        BY <2>9, <2>13
      <4>2. al.index # s[k].index
        BY <2>4, <2>5, <4>1
      <4>3. slots[r] # s[k].index
        BY <2>12, <4>1
      <4>. QED BY <2>11, <4>1, <4>2, <4>3
    <3>. QED BY <1>1, <2>9, <3>1 DEF NoneTwice, a, L
  <2>19. Allocating'
    BY <2>15, <2>16, <2>17, <2>18 DEF Allocating, L
  <2>. QED BY <1>1, <1>2, <1>3, <2>1, <2>19 DEF IInv, Empty, Drained, AllocOK, OrderOK, Programmed
<1>. QED BY <1>5, <1>6

(* At the end every register holds a request: the sorted list has them all.    *)
LEMMA EndKeeps ==
  ASSUME IInv, EndAllocation
  PROVE  IInv'
<1>. DEFINE L == Len(generic)
            g == [k \in DOMAIN generic |-> generic[slots[k - 1]]]
            o == [k \in 1 .. L |-> slots[k - 1]]
<1>1. /\ phase = "allocating" /\ allocatables = <<>> /\ generic' = g /\ phase' = "ready"
      /\ db' = db /\ events' = events /\ todo' = todo
      /\ offCoreEventCount' = offCoreEventCount /\ offcore' = offcore /\ fixed' = fixed
  BY DEF EndAllocation
<1>2. generic \in Seq(Req) /\ L \in Nat /\ DOMAIN generic = 1 .. L /\ todo = <<>>
  BY <1>1 DEF IInv, ListsOK, Drained
<1>3. Assigned(L) /\ NoneForgotten(L)
  BY <1>1 DEF IInv, AllocOK, Allocating
<1>4. /\ slots \in [0 .. L - 1 -> (1 .. L) \cup {None}]
      /\ \A r \in 0 .. L - 1 : slots[r] # None => r \in generic[slots[r]].event.validPmc
      /\ \A r, t \in 0 .. L - 1 : slots[r] = slots[t] /\ slots[r] # None => r = t
  BY <1>3 DEF Assigned
<1>5. \A k \in 1 .. L : \E r \in 0 .. L - 1 : slots[r] = k
  <2>1. Len(allocatables) = 0
    BY <1>1
  <2>. HIDE DEF L
  <2>. QED BY <1>3, <2>1 DEF NoneForgotten
<1>. HIDE DEF L
<1>6. \A r \in 0 .. L - 1 : slots[r] \in 1 .. L
  <2>. DEFINE f == [k \in 1 .. L |-> (CHOOSE r \in 0 .. L - 1 : slots[r] = k) + 1]
  <2>1. \A k \in 1 .. L : f[k] \in 1 .. L /\ f[k] - 1 \in 0 .. L - 1 /\ slots[f[k] - 1] = k
    <3>. TAKE k \in 1 .. L
    <3>. DEFINE c == CHOOSE r \in 0 .. L - 1 : slots[r] = k
    <3>1. c \in 0 .. L - 1 /\ slots[c] = k
      BY <1>5
    <3>2. f[k] = c + 1
      OBVIOUS
    <3>. HIDE DEF c, f
    <3>3. f[k] \in 1 .. L /\ f[k] - 1 = c
      BY <1>2, <3>1, <3>2
    <3>. QED BY <3>1, <3>3
  <2>2. f \in [1 .. L -> 1 .. L]
    <3>1. DOMAIN f = 1 .. L /\ f = [k \in 1 .. L |-> f[k]]
      OBVIOUS
    <3>. HIDE DEF f
    <3>. QED BY <2>1, <3>1
  <2>. HIDE DEF f
  <2>3. \A i, j \in 1 .. L : f[i] = f[j] => i = j
    BY <2>1
  <2>4. \A k \in 1 .. L : \E i \in 1 .. L : f[i] = k
    BY <1>2, <2>2, <2>3, Pigeons
  <2>. TAKE r \in 0 .. L - 1
  <2>5. r + 1 \in 1 .. L /\ (r + 1) - 1 = r
    BY <1>2
  <2>6. PICK i \in 1 .. L : f[i] = r + 1
    BY <2>4, <2>5
  <2>7. slots[r] = i
    BY <2>1, <2>5, <2>6
  <2>. QED BY <2>7
<1>7. \A k \in 1 .. L : k - 1 \in 0 .. L - 1 /\ (k - 1) + 1 = k
  BY <1>2
<1>8. \A k \in 1 .. L : g[k] = generic[slots[k - 1]] /\ slots[k - 1] \in 1 .. L /\ generic[slots[k - 1]] \in Req
  BY <1>2, <1>6, <1>7 DEF L
<1>9. g \in Seq(Req) /\ Len(g) = L /\ DOMAIN g = 1 .. L
  <2>1. g \in [1 .. L -> Req]
    BY <1>2, <1>8
  <2>. HIDE DEF g
  <2>. QED BY <1>2, <2>1
<1>10. Rearranges(g, generic, o)
  <2>1. o \in [1 .. L -> 1 .. L] /\ \A k \in 1 .. L : o[k] = slots[k - 1]
    BY <1>8
  <2>. HIDE DEF o, g
  <2>2. \A i, j \in 1 .. L : o[i] = o[j] => i = j
    <3>. TAKE i \in 1 .. L, j \in 1 .. L
    <3>. HAVE o[i] = o[j]
    <3>1. slots[i - 1] = slots[j - 1] /\ slots[i - 1] # None
      <4>1. slots[i - 1] = slots[j - 1]
        BY <2>1
      <4>2. slots[i - 1] \in Nat
        BY <1>2, <1>8
      <4>. QED BY <4>1, <4>2, NoneAssumption
    <3>2. i - 1 = j - 1
      BY <1>4, <1>7, <3>1
    <3>. QED BY <1>2, <3>2
  <2>3. \A k \in 1 .. L : \E i \in 1 .. L : o[i] = k
    BY <1>2, <2>1, <2>2, Pigeons
  <2>4. \A k \in 1 .. L : g[k] = generic[o[k]]
    BY <1>8, <2>1
  <2>. QED BY <1>9, <2>1, <2>2, <2>3, <2>4, Zenon DEF Rearranges, L
<1>11. InOrder(g)
  <2>. SUFFICES ASSUME NEW k \in 1 .. L PROVE k - 1 \in g[k].event.validPmc
    BY <1>9 DEF InOrder, CanUse
  <2>1. slots[k - 1] # None
    BY <1>2, <1>8, NoneAssumption
  <2>. QED BY <1>4, <1>7, <1>8, <2>1
<1>. HIDE DEF g, o
<1>12. ListsOK'
  BY <1>1, <1>9 DEF IInv, ListsOK, L
<1>13. EachOnce /\ SelectsOwn(generic, offcore) /\ Ascending(fixed)
  BY <1>1 DEF IInv, Resolved
<1>14. /\ UniqueNames(generic) => UniqueNames(g)
       /\ NamesOf(g) = NamesOf(generic)
       /\ SelectsOwn(generic, offcore) => SelectsOwn(g, offcore)
  BY <1>10, Rearranged
<1>15. EachOnce'
  BY <1>1, <1>13, <1>14 DEF EachOnce
<1>16. SelectsOwn(generic', offcore') /\ Ascending(fixed)' /\ DbOK(db)'
  BY <1>1, <1>13, <1>14 DEF Ascending, IInv
<1>17. Resolved'
  BY <1>15, <1>16 DEF Resolved
<1>18. OrderOK'
  BY <1>1, <1>11 DEF OrderOK
<1>. QED BY <1>1, <1>2, <1>12, <1>16, <1>17, <1>18 DEF IInv, Empty, Drained, AllocOK

(* Programming the registers, or failing to, changes nothing of what is        *)
(* programmed.                                                                 *)
LEMMA ProgramKeeps ==
  ASSUME IInv, OpenFails \/ EnableCpu \/ BuildPerfEventsRequest
  PROVE  IInv'
<1>1. /\ phase # "failed" /\ phase' \in {"ready", "enabled", "failed"}
      /\ UNCHANGED <<db, events, todo, setVars>> /\ todo' = todo /\ generic' = generic
      /\ phase' # "failed" => phase = "ready"
  BY DEF OpenFails, EnableCpu, BuildPerfEventsRequest, Raise, setVars
<1>2. DbOK(db)' /\ ListsOK' /\ Resolved'
  BY <1>1, SameLists
<1>3. CASE phase' = "failed"
  BY <1>2, <1>3, FailedKeeps
<1>4. CASE phase' # "failed"
  <2>1. todo = <<>> /\ InOrder(generic)
    BY <1>1, <1>4 DEF IInv, Drained, OrderOK, Programmed
  <2>2. InOrder(generic')
    BY <1>1, <2>1
  <2>. QED BY <1>1, <1>2, <1>4, <2>1, <2>2 DEF IInv, Empty, Drained, AllocOK, OrderOK
<1>. QED BY <1>3, <1>4

(* So every step keeps the invariant.                                          *)
LEMMA NextInv == IInv /\ [Next]_vars => IInv'
<1>. SUFFICES ASSUME IInv, [Next]_vars PROVE IInv'
  OBVIOUS
<1>1. CASE LoadEventsDb
  BY <1>1, LoadKeeps
<1>2. CASE \E pmc \in Requested : ResolveCounters(pmc)
  BY <1>2, CountersKeep
<1>3. CASE ResolveEvent
  BY <1>3, EventKeeps
<1>4. CASE BeginAllocation
  BY <1>4, BeginKeeps
<1>5. CASE Allocate
  BY <1>5, AllocateKeeps
<1>6. CASE EndAllocation
  BY <1>6, EndKeeps
<1>7. CASE OpenFails \/ EnableCpu \/ BuildPerfEventsRequest
  BY <1>7, ProgramKeeps
<1>8. CASE UNCHANGED vars
  <2>1. /\ phase' = phase /\ db' = db /\ events' = events /\ todo' = todo
        /\ offCoreEventCount' = offCoreEventCount /\ generic' = generic /\ offcore' = offcore
        /\ fixed' = fixed /\ allocatables' = allocatables /\ slots' = slots
    BY <1>8 DEF vars, setVars, allocVars
  <2>2. DbOK(db)' /\ ListsOK' /\ Empty' /\ Drained'
    BY <2>1 DEF IInv, ListsOK, Empty, Drained
  <2>3. Resolved'
    BY <2>1 DEF IInv, Resolved, EachOnce, Ascending
  <2>4. AllocOK'
    BY <2>1 DEF IInv, AllocOK, Allocating, Assigned, Waiting, NoneForgotten, NoneTwice
  <2>5. OrderOK'
    BY <2>1 DEF IInv, OrderOK, Programmed
  <2>. QED BY <2>2, <2>3, <2>4, <2>5 DEF IInv
<1>. QED BY <1>1, <1>2, <1>3, <1>4, <1>5, <1>6, <1>7, <1>8 DEF Next

(* And it is invariant.                                                        *)
LEMMA Invariant == Spec => []IInv
BY InitInv, NextInv, PTL DEF Spec

-----------------------------------------------------------------------------
(* What is programmed.                                                         *)

(* allocateEvents: whatever the databases and the counters asked for, and      *)
(* although the allocator never goes back on a choice, a list of requests that *)
(* is sent has each request in a register its event may use.                   *)
THEOREM AllocationHolds == Spec => []AllocationSound
<1>1. IInv => AllocationSound
  BY DEF IInv, ListsOK, OrderOK, InOrder, AllocationSound
<1>. QED BY <1>1, Invariant, PTL

(* The names of the requests of both lists.                                    *)
LEMMA NamesAre ==
  ASSUME ListsOK, EachOnce
  PROVE  /\ Unique(Names) /\ DOMAIN Names = 1 .. Len(Names)
         /\ ToSet(Names) = NamesOf(generic) \cup NamesOf(fixed)
<1>. DEFINE G == [i \in DOMAIN generic |-> generic[i].event.name]
            F == [i \in DOMAIN fixed |-> fixed[i].event.name]
<1>1. /\ Len(generic) \in Nat /\ DOMAIN generic = 1 .. Len(generic)
      /\ Len(fixed) \in Nat /\ DOMAIN fixed = 1 .. Len(fixed)
  BY DEF ListsOK
<1>2. \A i \in 1 .. Len(generic) : generic[i].event.name \in Known
  <2>1. \A i \in 1 .. Len(generic) : generic[i] \in Req
    BY DEF ListsOK
  <2>. QED BY <2>1 DEF Req, Event
<1>3. \A i \in 1 .. Len(fixed) : fixed[i].event.name \in Known
  <2>1. \A i \in 1 .. Len(fixed) : fixed[i] \in Req
    BY DEF ListsOK
  <2>. QED BY <2>1 DEF Req, Event
<1>4. /\ G \in [1 .. Len(generic) -> Known] /\ F \in [1 .. Len(fixed) -> Known]
      /\ \A i \in 1 .. Len(generic) : G[i] = generic[i].event.name
      /\ \A i \in 1 .. Len(fixed) : F[i] = fixed[i].event.name
  BY <1>1, <1>2, <1>3
<1>5. Names = G \o F
  BY DEF Names
<1>. HIDE DEF G, F
<1>6. G \in Seq(Known) /\ F \in Seq(Known) /\ Len(G) = Len(generic) /\ Len(F) = Len(fixed)
  BY <1>1, <1>4
<1>7. Unique(G) /\ Unique(F)
  BY <1>4, <1>6 DEF Unique, EachOnce, UniqueNames
<1>8. ToSet(G) = NamesOf(generic) /\ ToSet(F) = NamesOf(fixed)
  <2>1. ToSet(G) = NamesOf(generic)
    BY <1>1, <1>4 DEF ToSet, NamesOf
  <2>2. ToSet(F) = NamesOf(fixed)
    BY <1>1, <1>4 DEF ToSet, NamesOf
  <2>. QED BY <2>1, <2>2
<1>9. ToSet(G) \cap ToSet(F) = {}
  BY <1>8 DEF EachOnce
<1>10. G \o F \in Seq(Known) /\ Unique(G \o F) /\ ToSet(G \o F) = ToSet(G) \cup ToSet(F)
  BY <1>6, <1>7, <1>9, UniqueConcat
<1>. QED BY <1>5, <1>8, <1>10

(* resolveEvents: what is sent asks for every event once, with the fixed       *)
(* requests in the order in which a sample holds their values, and an offcore  *)
(* request reads the msr value of its own event.                               *)
THEOREM RequestsCompleteHolds == Spec => []RequestsComplete
<1>1. ASSUME IInv, Programmed
      PROVE  /\ IsInjective(Names) /\ ToSet(Names) = ToSet(events)
             /\ \A i, j \in DOMAIN fixed : i < j => Register(fixed[i]) <= Register(fixed[j])
             /\ \A i \in DOMAIN generic : generic[i].select # 0 => offcore[generic[i].select] = generic[i].event
             /\ \A k \in DOMAIN offcore : \E i \in DOMAIN generic : generic[i].select = k
  <2>1. ListsOK /\ EachOnce /\ SelectsOwn(generic, offcore) /\ Ascending(fixed) /\ todo = <<>>
    BY <1>1 DEF IInv, Resolved, Drained, Programmed
  <2>2. IsInjective(Names)
    BY <2>1, NamesAre DEF IsInjective, Unique
  <2>3. ToSet(Names) = ToSet(events)
    <3>1. ToSet(todo) = {}
      BY <2>1 DEF ToSet
    <3>. QED BY <2>1, <3>1, NamesAre DEF EachOnce
  <2>4. DOMAIN generic = 1 .. Len(generic) /\ DOMAIN offcore = 1 .. Len(offcore) /\ DOMAIN fixed = 1 .. Len(fixed)
    BY <2>1 DEF ListsOK
  <2>5. /\ \A i \in DOMAIN generic : generic[i].select # 0 => offcore[generic[i].select] = generic[i].event
        /\ \A k \in DOMAIN offcore : \E i \in DOMAIN generic : generic[i].select = k
    BY <2>1, <2>4 DEF SelectsOwn
  <2>6. \A i, j \in DOMAIN fixed : i < j => Register(fixed[i]) <= Register(fixed[j])
    BY <2>1, <2>4 DEF Ascending
  <2>. QED BY <2>2, <2>3, <2>5, <2>6
<1>2. IInv => RequestsComplete
  BY <1>1 DEF RequestsComplete
<1>. QED BY <1>2, Invariant, PTL

=============================================================================
