--------------------------- MODULE TxnLoadingProofs ---------------------------
(* Proofs about TxnLoading, for any number of threads and samples, any binary  *)
(* and any profile, and whatever order the files are loaded in: counters of    *)
(* different threads never meet in a transaction under way; a transaction that *)
(* holds a resumption holds the suspension it continues, although joinFragments*)
(* and appendTxn bring transactions of several threads together; types; and no *)
(* counter is left out of the reports but those held back and those of the     *)
(* chains that a lost sample cut off.                                          *)
EXTENDS TxnLoading, FiniteSetsExt, SequencesExt, FiniteSetTheorems, FunctionTheorems,
        WellFoundedInduction, TLAPS

-----------------------------------------------------------------------------
(* Sets of numbers, and sorting.                                               *)

(* A set of numbers has a smallest element.                                    *)
LEMMA LeastOf ==
  ASSUME NEW T, T \subseteq Nat, T # {}
  PROVE  \E m \in T : \A y \in T : m <= y
<1>. DEFINE R == OpToRel(<, Nat)
<1>1. PICK m \in T : \A y \in T : ~ (<<y, m>> \in R)
  BY NatLessThanWellFounded, WFMin
<1>2. \A y \in T : y \in Nat /\ m \in Nat
  OBVIOUS
<1>3. ASSUME NEW y \in T, y < m PROVE FALSE
  <2>1. <<y, m>> \in R
    BY <1>2, <1>3 DEF OpToRel
  <2>. QED BY <2>1, <1>1, Zenon
<1>. QED BY <1>2, <1>3

(* A function that takes different elements of 1 .. n to different elements of *)
(* 1 .. n takes every value there.                                             *)
LEMMA Pigeons ==
  ASSUME NEW n \in Nat, NEW f \in [1 .. n -> 1 .. n],
         \A i, j \in 1 .. n : f[i] = f[j] => i = j
  PROVE  \A k \in 1 .. n : \E i \in 1 .. n : f[i] = k
<1>0. DOMAIN f = 1 .. n
  OBVIOUS
<1>1. f \in Injection(1 .. n, 1 .. n)
  BY <1>0, Zenon DEF Injection, IsInjective
<1>3. IsFiniteSet(1 .. n)
  BY FS_Interval
<1>2. f \in Surjection(1 .. n, 1 .. n)
  BY <1>1, <1>3, FS_Injection
<1>. QED BY <1>2 DEF Surjection

(* The places of the elements are different, and each place is taken.          *)
LEMMA PlacesDiffer ==
  ASSUME NEW n \in Nat, NEW key \in [1 .. n -> Int]
  PROVE  /\ \A i \in 1 .. n : Place(key, i) \in 1 .. n
         /\ \A i, j \in 1 .. n : Precedes(key, i, j) => Place(key, i) < Place(key, j)
         /\ \A i, j \in 1 .. n : Place(key, i) = Place(key, j) => i = j
<1>. DEFINE before(i) == {j \in 1 .. n : Precedes(key, j, i)}
<1>0. \A i \in 1 .. n : key[i] \in Int /\ i \in Int
  OBVIOUS
<1>1. IsFiniteSet(1 .. n) /\ Cardinality(1 .. n) = n
  BY FS_Interval
<1>2. \A i \in 1 .. n : /\ before(i) \in SUBSET (1 .. n) /\ i \notin before(i)
                        /\ Place(key, i) = 1 + Cardinality(before(i))
  BY <1>0 DEF Precedes, Place
<1>3. \A i \in 1 .. n : IsFiniteSet(before(i)) /\ Cardinality(before(i)) \in Nat /\ Cardinality(before(i)) < n
  <2>. TAKE i \in 1 .. n
  <2>. HIDE DEF before
  <2>1. IsFiniteSet(before(i)) /\ Cardinality(before(i)) <= n /\ Cardinality(before(i)) # n
    BY <1>1, <1>2, FS_Subset
  <2>2. Cardinality(before(i)) \in Nat
    BY <2>1, FS_CardinalityType
  <2>. QED BY <2>1, <2>2
<1>4. \A i \in 1 .. n : Place(key, i) \in 1 .. n
  <2>. TAKE i \in 1 .. n
  <2>1. \A c \in Nat : c < n => 1 + c \in 1 .. n
    OBVIOUS
  <2>2. Place(key, i) = 1 + Cardinality(before(i)) /\ Cardinality(before(i)) \in Nat /\ Cardinality(before(i)) < n
    BY <1>2, <1>3
  <2>. QED BY <2>1, <2>2, Zenon
<1>5. ASSUME NEW i \in 1 .. n, NEW j \in 1 .. n, Precedes(key, i, j) PROVE Place(key, i) < Place(key, j)
  <2>1. before(i) \in SUBSET before(j)
    BY <1>0, <1>5 DEF Precedes
  <2>2. i \in before(j) /\ i \notin before(i)
    BY <1>2, <1>5
  <2>. HIDE DEF before
  <2>3. Cardinality(before(i)) <= Cardinality(before(j)) /\ Cardinality(before(i)) # Cardinality(before(j))
    BY <1>3, <2>1, <2>2, FS_Subset
  <2>. QED BY <1>2, <1>3, <2>3
<1>6. ASSUME NEW i \in 1 .. n, NEW j \in 1 .. n, i # j PROVE Place(key, i) # Place(key, j)
  <2>1. Precedes(key, i, j) \/ Precedes(key, j, i)
    BY <1>0, <1>6 DEF Precedes
  <2>. QED BY <1>4, <1>5, <2>1
<1>. QED BY <1>4, <1>5, <1>6

(* The order of a sort is a permutation, and it is by key.                     *)
LEMMA OrderIsPermutation ==
  ASSUME NEW n \in Nat, NEW key \in [1 .. n -> Int]
  PROVE  /\ Order(key) \in [1 .. n -> 1 .. n]
         /\ \A i, j \in 1 .. n : Order(key)[i] = Order(key)[j] => i = j
         /\ \A k \in 1 .. n : \E i \in 1 .. n : Order(key)[i] = k
         /\ \A i, j \in 1 .. n : i < j => key[Order(key)[i]] <= key[Order(key)[j]]
<1>. DEFINE o == Order(key)
            f == [i \in 1 .. n |-> Place(key, i)]
<1>1. /\ \A i \in 1 .. n : Place(key, i) \in 1 .. n
      /\ \A i, j \in 1 .. n : Precedes(key, i, j) => Place(key, i) < Place(key, j)
      /\ \A i, j \in 1 .. n : Place(key, i) = Place(key, j) => i = j
  BY PlacesDiffer
<1>2. \A k \in 1 .. n : \E i \in 1 .. n : Place(key, i) = k
  <2>1. f \in [1 .. n -> 1 .. n] /\ \A i, j \in 1 .. n : f[i] = f[j] => i = j
    BY <1>1
  <2>2. \A k \in 1 .. n : \E i \in 1 .. n : f[i] = k
    <3>. HIDE DEF f
    <3>. QED BY <2>1, Pigeons
  <2>. QED BY <2>2
<1>3. o = [k \in 1 .. n |-> CHOOSE i \in 1 .. n : Place(key, i) = k]
  BY DEF Order
<1>4. ASSUME NEW k \in 1 .. n PROVE o[k] \in 1 .. n /\ Place(key, o[k]) = k
  <2>1. o[k] = CHOOSE i \in 1 .. n : Place(key, i) = k
    BY <1>3
  <2>2. \E i \in 1 .. n : Place(key, i) = k
    BY <1>2
  <2>. QED BY <2>1, <2>2, Zenon
<1>5. o \in [1 .. n -> 1 .. n]
  BY <1>3, <1>4
<1>. HIDE DEF o
<1>6. \A i, j \in 1 .. n : o[i] = o[j] => i = j
  BY <1>4
<1>7. \A k \in 1 .. n : Place(key, k) \in 1 .. n /\ o[Place(key, k)] = k
  BY <1>1, <1>4
<1>8. ASSUME NEW i \in 1 .. n, NEW j \in 1 .. n, i < j PROVE key[o[i]] <= key[o[j]]
  <2>1. ~ Precedes(key, o[j], o[i])
    <3>1. Place(key, o[i]) = i /\ Place(key, o[j]) = j /\ o[i] \in 1 .. n /\ o[j] \in 1 .. n
      BY <1>4
    <3>2. ~ (j < i)
      BY <1>8
    <3>3. Precedes(key, o[j], o[i]) => Place(key, o[j]) < Place(key, o[i])
      BY <1>1, <3>1
    <3>. QED BY <3>1, <3>2, <3>3, Zenon
  <2>2. key[o[i]] \in Int /\ key[o[j]] \in Int
    BY <1>4
  <2>. QED BY <2>1, <2>2 DEF Precedes
<1>. QED BY <1>5, <1>6, <1>7, <1>8 DEF o

(* A sort keeps the elements of a sequence.                                    *)
LEMMA SortKeeps ==
  ASSUME NEW S, NEW s \in Seq(S), NEW key \in [1 .. Len(s) -> Int]
  PROVE  /\ StableSort(s, key) \in Seq(S) /\ Len(StableSort(s, key)) = Len(s)
         /\ \A k \in 1 .. Len(s) : StableSort(s, key)[k] = s[Order(key)[k]]
         /\ ToSet(StableSort(s, key)) = ToSet(s)
<1>. DEFINE n == Len(s)
            o == Order(key)
            r == StableSort(s, key)
<1>0. n \in Nat /\ DOMAIN s = 1 .. n /\ \A i \in 1 .. n : s[i] \in S
  OBVIOUS
<1>1. /\ o \in [1 .. n -> 1 .. n]
      /\ \A k \in 1 .. n : \E i \in 1 .. n : o[i] = k
  BY <1>0, OrderIsPermutation
<1>2. r = [k \in 1 .. n |-> s[o[k]]]
  BY <1>0 DEF StableSort
<1>. HIDE DEF n, o, r
<1>3. r \in [1 .. n -> S] /\ \A k \in 1 .. n : r[k] = s[o[k]] /\ o[k] \in 1 .. n
  BY <1>0, <1>1, <1>2
<1>4. r \in Seq(S) /\ Len(r) = n /\ DOMAIN r = 1 .. n
  BY <1>0, <1>3
<1>5. ToSet(r) = ToSet(s)
  BY <1>0, <1>1, <1>3, <1>4 DEF ToSet
<1>. QED BY <1>3, <1>4, <1>5 DEF n, o, r

-----------------------------------------------------------------------------

Sample == Counters
Txn == [counters : Seq(Sample), hasEndProbe : BOOLEAN, txnId : Nat \cup {None}]

OfThread(s, t) == \A i \in DOMAIN s : s[i].threadId = t

(* A resumption names a transaction that was suspended.                        *)
ResumesLinked(s) ==
  \A i \in DOMAIN s : s[i].site \in DOMAIN AppProbe /\ Resumes(s[i]) => s[i].data \in Links

(* What was recorded: a file holds the samples of its own thread.              *)
FilesInv ==
  /\ clock \in 0 .. MaxSamples
  /\ files \in [Threads -> Seq(Sample)]
  /\ lost \subseteq Sample
  /\ \A t \in Threads : OfThread(files[t], t) /\ Len(files[t]) <= clock /\ ResumesLinked(files[t])

(* What is loaded. Types of the heap matter until the fragments are joined.    *)
LoadInv ==
  /\ thread \in Threads \cup {None}
  /\ pos \in Nat \ {0}
  /\ ephemeralCounters \in Seq(Sample)
  /\ phase \in {"recording", "loading"} => heap \in Seq(Txn)

(* A transaction is under way only while a file is loaded. Counters set aside  *)
(* in an earlier file are still there when a file begins, but not when a       *)
(* transaction does.                                                           *)
CurrentInv ==
  currentTxn # None =>
    /\ phase = "loading"
    /\ thread # None
    /\ currentTxn \in DOMAIN heap
    /\ OfThread(heap[currentTxn].counters, thread)
    /\ OfThread(ephemeralCounters, thread)

IInv == FilesInv /\ LoadInv /\ CurrentInv

-----------------------------------------------------------------------------
(* The elements of a file are samples.                                         *)
LEMMA ToSetOfSamples == \A s \in Seq(Sample) : ToSet(s) \subseteq Sample
BY DEF ToSet

(* A counter of the thread may be appended to counters of the thread.          *)
LEMMA AppendOfThread ==
  ASSUME NEW t, NEW s \in Seq(Sample), OfThread(s, t), NEW c \in Sample, c.threadId = t
  PROVE  Append(s, c) \in Seq(Sample) /\ OfThread(Append(s, c), t)
BY DEF OfThread

(* Counters of a thread may be joined with counters of the thread.             *)
LEMMA ConcatOfThread ==
  ASSUME NEW t, NEW s \in Seq(Sample), NEW r \in Seq(Sample), OfThread(s, t), OfThread(r, t)
  PROVE  s \o r \in Seq(Sample) /\ OfThread(s \o r, t)
BY DEF OfThread

(* Transaction.__init__ starts with the one counter.                           *)
LEMMA TransactionOfThread ==
  ASSUME NEW c \in Sample
  PROVE  Transaction(c) \in Txn /\ OfThread(Transaction(c).counters, c.threadId)
BY DEF Transaction, Txn, OfThread

(* addCounter keeps the type of a transaction.                                 *)
LEMMA AddCountersType ==
  ASSUME NEW x \in Txn, NEW cs \in Seq(Sample), NEW e \in BOOLEAN
  PROVE  /\ AddCounters(x, cs, e) \in Txn
         /\ AddCounters(x, cs, e).counters = x.counters \o cs
<1>1. x.counters \o cs \in Seq(Sample)
  BY DEF Txn
<1> QED
  BY <1>1 DEF AddCounters, Txn

(* The invariant holds before anything is recorded.                            *)
LEMMA InitInv == Init => IInv
BY BoundsAssumption DEF Init, IInv, FilesInv, LoadInv, CurrentInv, OfThread, ResumesLinked

(* A probe hit adds a sample to the file of its own thread.                    *)
LEMMA RecordInv ==
  ASSUME IInv, NEW t \in Threads, NEW s \in Sites, Record(t, s)
  PROVE  IInv'
<1>1. Suspended \subseteq Links
  <2>1. \A u \in Threads : ToSet(files[u]) \subseteq Sample
    BY ToSetOfSamples DEF IInv, FilesInv
  <2>2. Loaded \cup lost \subseteq Sample
    BY <2>1 DEF Loaded, IInv, FilesInv
  <2>3. \A d \in Sample : LinkOf(d) \in Links
    BY DEF LinkOf, Sample, Counters, Links
  <2> QED
    BY <2>2, <2>3 DEF Suspended
<1>2. PICK data \in Suspended \cup {None} :
        LET c == Counter(t, s, data, clock + 1) IN
        /\ (s \in DOMAIN AppProbe /\ Resumes(Counter(t, s, None, clock + 1))) => data \in Suspended
        /\ \/ files' = [files EXCEPT ![t] = Append(@, c)] /\ lost' = lost
           \/ lost' = lost \cup {c} /\ files' = files
  BY DEF Record
<1> DEFINE c == Counter(t, s, data, clock + 1)
<1>3. clock' = clock + 1 /\ clock' \in 1 .. MaxSamples /\ clock \in Nat
  BY BoundsAssumption DEF IInv, FilesInv, Record
<1>4. c \in Sample /\ c.threadId = t
  BY <1>1, <1>2, <1>3 DEF Counter, Sample, Counters
<1>5. c.site \in DOMAIN AppProbe /\ Resumes(c) => c.data \in Links
  BY <1>1, <1>2 DEF Counter, Resumes, UserAttrs
<1>6. FilesInv'
  <2>0. files \in [Threads -> Seq(Sample)] /\ lost \subseteq Sample /\ files[t] \in Seq(Sample)
        /\ OfThread(files[t], t) /\ Len(files[t]) <= clock /\ ResumesLinked(files[t])
    BY DEF IInv, FilesInv
  <2>1. Append(files[t], c) \in Seq(Sample) /\ OfThread(Append(files[t], c), t)
    BY <1>4, <2>0, AppendOfThread
  <2> HIDE DEF c
  <2>2. Len(Append(files[t], c)) = Len(files[t]) + 1 /\ Len(files[t]) \in Nat
    BY <2>0
  <2>3. ResumesLinked(Append(files[t], c))
    BY <1>5, <2>0 DEF ResumesLinked
  <2>4. CASE files' = [files EXCEPT ![t] = Append(@, c)] /\ lost' = lost
    <3>1. files' \in [Threads -> Seq(Sample)]
      BY <2>0, <2>1, <2>4
    <3>2. \A u \in Threads : files'[u] = IF u = t THEN Append(files[t], c) ELSE files[u]
      BY <2>0, <2>4
    <3>3. \A u \in Threads : OfThread(files'[u], u) /\ Len(files'[u]) <= clock' /\ ResumesLinked(files'[u])
      <4> TAKE u \in Threads
      <4>1. CASE u = t
        <5>1. files'[u] = Append(files[t], c)
          BY <3>2, <4>1
        <5>2. Len(files[t]) + 1 <= clock'
          BY <1>3, <2>0, <2>2
        <5> QED
          BY <2>1, <2>2, <2>3, <4>1, <5>1, <5>2
      <4>2. CASE u # t
        <5>1. OfThread(files[u], u) /\ Len(files[u]) <= clock /\ ResumesLinked(files[u]) /\ Len(files[u]) \in Nat
          BY <2>0 DEF IInv, FilesInv
        <5> QED
          BY <1>3, <3>2, <4>2, <5>1
      <4> QED
        BY <4>1, <4>2
    <3> QED
      BY <1>3, <2>0, <2>4, <3>1, <3>3 DEF FilesInv
  <2>5. CASE lost' = lost \cup {c} /\ files' = files
    <3>1. \A u \in Threads : OfThread(files[u], u) /\ Len(files[u]) <= clock' /\ ResumesLinked(files[u])
      <4> TAKE u \in Threads
      <4>1. OfThread(files[u], u) /\ Len(files[u]) <= clock /\ ResumesLinked(files[u]) /\ Len(files[u]) \in Nat
        BY <2>0 DEF IInv, FilesInv
      <4> QED
        BY <1>3, <4>1
    <3> QED
      BY <1>3, <1>4, <2>0, <2>5, <3>1 DEF FilesInv
  <2> QED
    BY <1>2, <2>4, <2>5 DEF c
<1>7. LoadInv' /\ CurrentInv'
  BY DEF IInv, LoadInv, CurrentInv, Record, fileVars, sortVars
<1> QED
  BY <1>6, <1>7 DEF IInv

(* buildTxn: the new transaction is the last one of the heap.                  *)
LEMMA BuildTxnInv ==
  ASSUME heap \in Seq(Txn), NEW c \in Sample, BuildTxn(c)
  PROVE  /\ heap' \in Seq(Txn)
         /\ Len(heap) + 1 \in DOMAIN heap'
         /\ OfThread(heap'[Len(heap) + 1].counters, c.threadId)
<1>1. heap' = Append(heap, Transaction(c))
  BY DEF BuildTxn
<1>2. Transaction(c) \in Txn /\ OfThread(Transaction(c).counters, c.threadId)
  BY TransactionOfThread
<1>3. /\ Append(heap, Transaction(c)) \in Seq(Txn)
      /\ Len(heap) + 1 \in DOMAIN Append(heap, Transaction(c))
      /\ Append(heap, Transaction(c))[Len(heap) + 1] = Transaction(c)
  BY <1>2
<1> QED
  BY <1>1, <1>2, <1>3

(* Adding counters of the thread to the transaction under way.                 *)
LEMMA AddToCurrentInv ==
  ASSUME heap \in Seq(Txn), currentTxn \in DOMAIN heap, NEW t, NEW cs \in Seq(Sample), NEW e \in BOOLEAN,
         OfThread(heap[currentTxn].counters, t), OfThread(cs, t),
         heap' = [heap EXCEPT ![currentTxn] = AddCounters(@, cs, e)]
  PROVE  /\ heap' \in Seq(Txn)
         /\ currentTxn \in DOMAIN heap'
         /\ OfThread(heap'[currentTxn].counters, t)
<1> DEFINE x == heap[currentTxn]
<1>0. heap \in [1 .. Len(heap) -> Txn] /\ DOMAIN heap = 1 .. Len(heap) /\ Len(heap) \in Nat
  OBVIOUS
<1>1. x \in Txn /\ x.counters \in Seq(Sample)
  BY <1>0, Zenon DEF Txn
<1>2. /\ AddCounters(x, cs, e) \in Txn
      /\ AddCounters(x, cs, e).counters = x.counters \o cs
  BY <1>1, AddCountersType
<1>3. OfThread(x.counters \o cs, t)
  BY <1>1, ConcatOfThread
<1> HIDE DEF x
<1>4. heap' = [heap EXCEPT ![currentTxn] = AddCounters(x, cs, e)]
  BY DEF x
<1>5. heap' \in [1 .. Len(heap) -> Txn]
  BY <1>0, <1>2, <1>4
<1>6. heap' \in Seq(Txn)
  BY <1>0, <1>5
<1>7. currentTxn \in DOMAIN heap' /\ heap'[currentTxn] = AddCounters(x, cs, e)
  BY <1>0, <1>4
<1> QED
  BY <1>2, <1>3, <1>6, <1>7

(* loadCounter, branch by branch.                                              *)
LEMMA LoadCounterInv ==
  ASSUME LoadInv, CurrentInv, phase = "loading", thread # None,
         NEW c \in Sample, c.threadId = thread, LoadCounter(c)
  PROVE  /\ heap' \in Seq(Txn)
         /\ ephemeralCounters' \in Seq(Sample)
         /\ currentTxn' # None =>
              /\ currentTxn' \in DOMAIN heap'
              /\ OfThread(heap'[currentTxn'].counters, thread)
              /\ OfThread(ephemeralCounters', thread)
<1> USE DEF LoadInv, CurrentInv
<1>0. /\ <<>> \in Seq(Sample) /\ OfThread(<<>>, thread)
      /\ <<c>> \in Seq(Sample) /\ OfThread(<<c>>, thread)
  BY DEF OfThread
<1>1. CASE NextTxn(c)
  <2>1. /\ BuildTxn(c) /\ currentTxn' = Len(heap) + 1
        /\ ephemeralCounters' = <<>>
    BY <1>1 DEF NextTxn, FlushEphemeral
  <2> QED
    BY <1>0, <2>1, BuildTxnInv
<1>2. CASE AddInner(c)
  <2>1. /\ currentTxn # None
        /\ heap' = [heap EXCEPT ![currentTxn] = AddCounters(@, <<c>>, FALSE)]
        /\ UNCHANGED <<currentTxn, ephemeralCounters>>
    BY <1>2 DEF AddInner, sortVars
  <2> QED
    BY <1>0, <2>1, AddToCurrentInv
<1>3. CASE CloseTxn(c)
  <2>1. /\ currentTxn # None
        /\ heap' = [heap EXCEPT ![currentTxn] = AddCounters(@, Append(ephemeralCounters, c), TRUE)]
        /\ ephemeralCounters' = <<>>
        /\ currentTxn' = currentTxn
    BY <1>3 DEF CloseTxn
  <2>2. Append(ephemeralCounters, c) \in Seq(Sample) /\ OfThread(Append(ephemeralCounters, c), thread)
    BY <2>1, AppendOfThread
  <2> QED
    BY <1>0, <2>1, <2>2, AddToCurrentInv
<1>4. CASE AddEphemeral(c)
  <2>1. ephemeralCounters' = Append(ephemeralCounters, c) /\ UNCHANGED <<heap, currentTxn>>
    BY <1>4 DEF AddEphemeral
  <2>2. Append(ephemeralCounters, c) \in Seq(Sample)
    OBVIOUS
  <2>3. currentTxn # None => OfThread(Append(ephemeralCounters, c), thread)
    BY AppendOfThread
  <2> QED
    BY <2>1, <2>2, <2>3
<1>5. CASE FirstTxn(c)
  <2>1. /\ BuildTxn(c) /\ currentTxn' = Len(heap) + 1
        /\ ephemeralCounters' = <<>>
    BY <1>5 DEF FirstTxn, FlushEphemeral
  <2> QED
    BY <1>0, <2>1, BuildTxnInv
<1>6. CASE Compromise(c)
  <2>1. /\ currentTxn = None /\ currentTxn' = currentTxn
        /\ heap' = Append(heap, AddCounters(Transaction(c), ephemeralCounters, FALSE))
        /\ ephemeralCounters' = <<>>
    BY <1>6 DEF Compromise
  <2>2. AddCounters(Transaction(c), ephemeralCounters, FALSE) \in Txn
    BY TransactionOfThread, AddCountersType
  <2>3. \A x \in Txn : Append(heap, x) \in Seq(Txn)
    OBVIOUS
  <2>4. heap' \in Seq(Txn)
    BY <2>1, <2>2, <2>3, Zenon
  <2> QED
    BY <1>0, <2>1, <2>4
<1> QED
  BY <1>1, <1>2, <1>3, <1>4, <1>5, <1>6 DEF LoadCounter

(* The sample at the position is one of the thread whose file is loaded.       *)
LEMMA LoadSampleInv == ASSUME IInv, LoadSample PROVE IInv'
<1> DEFINE c == files[thread][pos]
<1>1. thread \in Threads /\ files[thread] \in Seq(Sample) /\ pos \in DOMAIN files[thread]
  BY DEF IInv, FilesInv, LoadInv, LoadSample
<1>2. c \in Sample /\ c.threadId = thread
  BY <1>1 DEF IInv, FilesInv, OfThread
<1>3. /\ phase = "loading" /\ thread # None /\ pos' \in Nat \ {0}
      /\ UNCHANGED <<phase, thread, clock, files, lost>>
  BY DEF LoadSample, recordVars, IInv, LoadInv
<1>4. \/ LoadCounter(c)
      \/ UNCHANGED <<heap, currentTxn, ephemeralCounters>>
  BY DEF LoadSample, sortVars
<1> HIDE DEF c
<1>5. FilesInv'
  BY <1>3 DEF IInv, FilesInv
<1>6. LoadInv' /\ CurrentInv'
  <2>1. CASE LoadCounter(c)
    BY <1>2, <1>3, <2>1, LoadCounterInv DEF IInv, LoadInv, CurrentInv
  <2>2. CASE UNCHANGED <<heap, currentTxn, ephemeralCounters>>
    BY <1>3, <2>2 DEF IInv, LoadInv, CurrentInv
  <2> QED
    BY <1>4, <2>1, <2>2
<1> QED
  BY <1>5, <1>6 DEF IInv

(* Every step keeps the invariant.                                             *)
LEMMA NextInv == IInv /\ [Next]_vars => IInv'
<1> SUFFICES ASSUME IInv, [Next]_vars PROVE IInv'
  OBVIOUS
<1> USE DEF IInv, FilesInv, LoadInv, CurrentInv
<1>1. ASSUME NEW t \in Threads, NEW s \in Sites, Record(t, s) PROVE IInv'
  BY <1>1, RecordInv
<1>2. CASE BeginCollection
  BY <1>2 DEF BeginCollection, recordVars, fileVars, sortVars
<1>3. ASSUME NEW t \in Threads, BeginLoad(t) PROVE IInv'
  BY <1>3 DEF BeginLoad, recordVars, sortVars
<1>4. CASE LoadSample
  BY <1>4, LoadSampleInv
<1>5. CASE EndLoad
  BY <1>5 DEF EndLoad, recordVars
<1>6. CASE EndCollection
  BY <1>6 DEF EndCollection, recordVars, fileVars, sortVars
<1>7. CASE JoinFragments
  BY <1>7 DEF JoinFragments, recordVars, fileVars, sortVars
<1>8. CASE AppendJoined
  BY <1>8 DEF AppendJoined, recordVars, fileVars, sortVars
<1>9. CASE GetData
  BY <1>9 DEF GetData, recordVars, fileVars, sortVars
<1>10. CASE UNCHANGED vars
  BY <1>10 DEF vars, recordVars, fileVars, sortVars
<1> QED
  BY <1>1, <1>2, <1>3, <1>4, <1>5, <1>6, <1>7, <1>8, <1>9, <1>10 DEF Next

(* BoundedTxnLoader never mixes threads in a transaction that it builds: the   *)
(* one under way, and the counters that a close would still add to it, are of  *)
(* the thread whose file is loaded, although endLoad resets neither.           *)
THEOREM CurrentOfOneThreadHolds == Spec => []CurrentOfOneThread
<1>1. IInv => CurrentOfOneThread
  BY DEF IInv, CurrentInv, CurrentOfOneThread, CountersOf, ToSet, OfThread
<1> QED
  BY <1>1, InitInv, NextInv, PTL DEF Spec

-----------------------------------------------------------------------------
(* Resumptions stay with the suspensions that they continue. What a set of     *)
(* counters may be: it has no resumption; only ones that continue link; the    *)
(* suspension that link names; or each resumption with its suspension.         *)
Plain(C) == \A c \in C : ~ Resumes(c)
Only(C, link) == \A c \in C : Resumes(c) => c.data = link
Has(C, link) == \E d \in C : Suspends(d) /\ LinkOf(d) = link
Closed(C) == \A c \in C : Resumes(c) => Has(C, c.data)

Frag == [txn : Nat, next : Links \cup {None}]

FragTypes ==
  /\ heap \in Seq(Txn) /\ frags \in Seq(Frag) /\ rootFragments \in Seq(Nat)
  /\ resumeFrags \in [Links -> Seq(Nat)] /\ suspendFrag \in [Links -> Nat \cup {None}]
  /\ \A f \in 1 .. Len(frags) : frags[f].txn \in 1 .. Len(heap)
  /\ \A k \in 1 .. Len(rootFragments) : rootFragments[k] \in 1 .. Len(frags)
  /\ \A l \in Links : \A k \in 1 .. Len(resumeFrags[l]) : resumeFrags[l][k] \in 1 .. Len(frags)
  /\ \A l \in Links : suspendFrag[l] # None => suspendFrag[l] \in 1 .. Len(frags)
  /\ resumeFragment # None => resumeFragment \in 1 .. Len(frags)

TxnTypes ==
  /\ phase \in {"recording", "loading", "joining", "joined", "done"}
  /\ nextTxnId \in Nat
  /\ \A i \in DOMAIN txns : i \in 1 .. nextTxnId /\ txns[i] \in 1 .. Len(heap)
  /\ joined \in Seq(Nat) /\ work \in Seq(Nat \X (Links \cup {None}))
  /\ \A k \in 1 .. Len(joined) : joined[k] \in 1 .. Len(heap) /\ heap[joined[k]].txnId \in 1 .. nextTxnId

Before == phase \in {"recording", "loading"}

(* A fragment has the suspension that its successors continue; a fragment that *)
(* resumes continues only the link under which it is kept.                     *)
NextsHeld == \A f \in 1 .. Len(frags) : frags[f].next # None => Has(CountersOf(frags[f].txn), frags[f].next)
ResumesOnly ==
  \A l \in Links : \A k \in 1 .. Len(resumeFrags[l]) : Only(CountersOf(frags[resumeFrags[l][k]].txn), l)

(* While the files are loaded: no root resumes, every resume fragment does.    *)
SuspendsHeld == \A l \in Links : suspendFrag[l] # None => Has(CountersOf(frags[suspendFrag[l]].txn), l)
RootsPlain == \A k \in 1 .. Len(rootFragments) : Plain(CountersOf(frags[rootFragments[k]].txn))
ResumesResume ==
  \A l \in Links : \A k \in 1 .. Len(resumeFrags[l]) : ~ Plain(CountersOf(frags[resumeFrags[l][k]].txn))

FragLinks == NextsHeld /\ ResumesOnly /\ SuspendsHeld /\ RootsPlain /\ ResumesResume

(* The transaction under way resumes if and only if it has a fragment.         *)
CurrentLinks ==
  /\ Plain(ToSet(ephemeralCounters))
  /\ currentTxn # None =>
       IF resumeFragment = None THEN Plain(CountersOf(currentTxn))
                                ELSE frags[resumeFragment].txn = currentTxn

TxnsPlain == \A i \in DOMAIN txns : Plain(CountersOf(txns[i]))

(* While the fragments are joined: what is built is closed, has the suspension *)
(* that comes next, and is not the transaction of a resume fragment, which is  *)
(* still to be joined with others.                                             *)
ResumeTxns == UNION {{frags[resumeFrags[l][k]].txn : k \in 1 .. Len(resumeFrags[l])} : l \in Links}
WorkClosed ==
  \A k \in 1 .. Len(work) :
    /\ work[k][1] \in 1 .. Len(heap) /\ work[k][1] \notin ResumeTxns
    /\ Closed(CountersOf(work[k][1]))
    /\ work[k][2] # None => Has(CountersOf(work[k][1]), work[k][2])
JoinedClosed == \A k \in 1 .. Len(joined) : Closed(CountersOf(joined[k]))

LinkInv ==
  /\ FragTypes /\ TxnTypes
  /\ Before => FragLinks /\ CurrentLinks /\ TxnsPlain /\ work = <<>> /\ joined = <<>>
  /\ phase = "joining" => NextsHeld /\ ResumesOnly /\ WorkClosed /\ JoinedClosed
  /\ LinksClosed

(* Counters that do not resume change nothing of that.                         *)
LEMMA SetsGrow ==
  ASSUME NEW C, NEW X, Plain(X)
  PROVE  /\ Plain(C \cup X) <=> Plain(C)
         /\ \A l : (Only(C \cup X, l) <=> Only(C, l)) /\ (Has(C, l) => Has(C \cup X, l))
BY DEF Plain, Only, Has

(* The elements of two lists.                                                  *)
LEMMA ConcatSet ==
  ASSUME NEW S, NEW q \in Seq(S), NEW r \in Seq(S)
  PROVE  ToSet(q \o r) = ToSet(q) \cup ToSet(r)
<1>1. /\ Len(q \o r) = Len(q) + Len(r) /\ Len(q) \in Nat /\ Len(r) \in Nat
      /\ DOMAIN q = 1 .. Len(q) /\ DOMAIN r = 1 .. Len(r) /\ DOMAIN (q \o r) = 1 .. Len(q) + Len(r)
  OBVIOUS
<1>2. \A i \in 1 .. Len(q) + Len(r) : (q \o r)[i] = IF i <= Len(q) THEN q[i] ELSE r[i - Len(q)]
  OBVIOUS
<1>3. ASSUME NEW i \in 1 .. Len(q) + Len(r) PROVE (q \o r)[i] \in ToSet(q) \cup ToSet(r)
  <2>1. CASE i <= Len(q)
    <3>1. i \in DOMAIN q
      BY <1>1, <2>1
    <3> QED
      BY <1>2, <2>1, <3>1 DEF ToSet
  <2>2. CASE ~ (i <= Len(q))
    <3>1. i - Len(q) \in DOMAIN r
      BY <1>1, <2>2
    <3> QED
      BY <1>2, <2>2, <3>1 DEF ToSet
  <2> QED
    BY <2>1, <2>2
<1>4. ASSUME NEW i \in 1 .. Len(q) PROVE q[i] \in ToSet(q \o r)
  <2>1. i \in 1 .. Len(q) + Len(r) /\ (q \o r)[i] = q[i]
    BY <1>1, <1>2
  <2> QED
    BY <1>1, <2>1 DEF ToSet
<1>5. ASSUME NEW i \in 1 .. Len(r) PROVE r[i] \in ToSet(q \o r)
  <2>1. Len(q) + i \in 1 .. Len(q) + Len(r) /\ ~ (Len(q) + i <= Len(q)) /\ (Len(q) + i) - Len(q) = i
    BY <1>1
  <2>2. (q \o r)[Len(q) + i] = r[i]
    BY <1>2, <2>1
  <2> QED
    BY <1>1, <2>1, <2>2 DEF ToSet
<1> QED
  BY <1>1, <1>3, <1>4, <1>5 DEF ToSet

(* The elements of a list and one more.                                        *)
LEMMA AppendSet ==
  ASSUME NEW S, NEW q \in Seq(S), NEW c \in S
  PROVE  Append(q, c) \in Seq(S) /\ ToSet(Append(q, c)) = ToSet(q) \cup {c}
<1> DEFINE a == Append(q, c)
<1>1. /\ a \in Seq(S) /\ Len(q) \in Nat /\ DOMAIN q = 1 .. Len(q) /\ DOMAIN a = 1 .. Len(q) + 1
      /\ a[Len(q) + 1] = c /\ \A i \in 1 .. Len(q) : a[i] = q[i]
  OBVIOUS
<1> HIDE DEF a
<1>2. Len(q) + 1 \in DOMAIN a /\ \A i \in DOMAIN a : i \in DOMAIN q \/ i = Len(q) + 1
  BY <1>1
<1>3. \A i \in DOMAIN q : i \in DOMAIN a
  BY <1>1
<1>4. \A x : x \in ToSet(a) <=> x \in ToSet(q) \/ x = c
  BY <1>1, <1>2, <1>3 DEF ToSet
<1>5. ToSet(a) = ToSet(q) \cup {c}
  BY <1>4
<1> QED
  BY <1>1, <1>5 DEF a

(* The same of the counters that wait for a transaction.                       *)
LEMMA EphemeralSet ==
  ASSUME ephemeralCounters \in Seq(Sample), NEW c \in Sample
  PROVE  /\ Append(ephemeralCounters, c) \in Seq(Sample)
         /\ ToSet(Append(ephemeralCounters, c)) = ToSet(ephemeralCounters) \cup {c}
BY AppendSet

(* While files are loaded a transaction only gets counters that do not resume. *)
After(r) == ToSet(heap'[r].counters)
Grows ==
  /\ Len(heap') >= Len(heap)
  /\ \A r \in 1 .. Len(heap) : \E X : Plain(X) /\ After(r) = CountersOf(r) \cup X

(* So it keeps what it was.                                                    *)
LEMMA GrowsKeeps ==
  ASSUME Grows
  PROVE  \A r \in 1 .. Len(heap) :
           /\ Plain(After(r)) <=> Plain(CountersOf(r))
           /\ \A l : Only(After(r), l) <=> Only(CountersOf(r), l)
           /\ \A l : Has(CountersOf(r), l) => Has(After(r), l)
<1> TAKE r \in 1 .. Len(heap)
<1>1. PICK X : Plain(X) /\ After(r) = CountersOf(r) \cup X
  BY DEF Grows
<1> QED
  BY <1>1, SetsGrow

(* A new transaction leaves the others alone.                                  *)
LEMMA AppendGrows ==
  ASSUME heap \in Seq(Txn), NEW x \in Txn, heap' = Append(heap, x)
  PROVE  /\ heap' \in Seq(Txn) /\ Len(heap') = Len(heap) + 1 /\ Len(heap) \in Nat
         /\ ToSet(heap'[Len(heap) + 1].counters) = ToSet(x.counters)
         /\ Grows
<1>1. /\ heap' \in Seq(Txn) /\ Len(heap') = Len(heap) + 1 /\ Len(heap) \in Nat
      /\ heap'[Len(heap) + 1] = x /\ \A r \in 1 .. Len(heap) : heap'[r] = heap[r]
  OBVIOUS
<1>2. \A r \in 1 .. Len(heap) : After(r) = CountersOf(r) \cup {}
  BY <1>1 DEF CountersOf, After
<1>3. Plain({}) /\ Len(heap') >= Len(heap)
  BY <1>1 DEF Plain
<1>4. Grows
  BY <1>2, <1>3 DEF Grows
<1>5. ToSet(heap'[Len(heap) + 1].counters) = ToSet(x.counters)
  BY <1>1
<1> QED
  BY <1>1, <1>4, <1>5

(* Counters are added to the transaction under way.                            *)
LEMMA AddGrows ==
  ASSUME heap \in Seq(Txn), currentTxn \in DOMAIN heap, NEW cs \in Seq(Sample), NEW e \in BOOLEAN,
         Plain(ToSet(cs)), heap' = [heap EXCEPT ![currentTxn] = AddCounters(@, cs, e)]
  PROVE  /\ heap' \in Seq(Txn) /\ Len(heap') = Len(heap)
         /\ ToSet(heap'[currentTxn].counters) = CountersOf(currentTxn) \cup ToSet(cs)
         /\ Grows
<1> DEFINE x == heap[currentTxn]
           y == AddCounters(x, cs, e)
<1>0. heap \in [1 .. Len(heap) -> Txn] /\ DOMAIN heap = 1 .. Len(heap) /\ Len(heap) \in Nat
  OBVIOUS
<1>1. x \in Txn /\ x.counters \in Seq(Sample)
  BY <1>0, Zenon DEF Txn
<1>2. y \in Txn /\ y.counters = x.counters \o cs
  BY <1>1, AddCountersType
<1>3. ToSet(y.counters) = ToSet(x.counters) \cup ToSet(cs)
  BY <1>1, <1>2, ConcatSet
<1> HIDE DEF y
<1>4. heap' = [heap EXCEPT ![currentTxn] = y]
  BY DEF y
<1>5. /\ heap' \in [1 .. Len(heap) -> Txn]
      /\ \A r \in 1 .. Len(heap) : heap'[r] = IF r = currentTxn THEN y ELSE heap[r]
  BY <1>0, <1>2, <1>4
<1>6. heap' \in Seq(Txn) /\ Len(heap') = Len(heap)
  BY <1>0, <1>5
<1>7. ToSet(heap'[currentTxn].counters) = CountersOf(currentTxn) \cup ToSet(cs)
  BY <1>0, <1>3, <1>5 DEF CountersOf, After
<1>8. ASSUME NEW r \in 1 .. Len(heap) PROVE \E X : Plain(X) /\ After(r) = CountersOf(r) \cup X
  <2>1. CASE r = currentTxn
    <3>1. After(r) = CountersOf(r) \cup ToSet(cs)
      BY <1>3, <1>5, <2>1 DEF CountersOf, After
    <3> QED
      BY <3>1
  <2>2. CASE r # currentTxn
    <3>1. After(r) = CountersOf(r) \cup {}
      BY <1>5, <2>2 DEF CountersOf, After
    <3>2. Plain({})
      BY DEF Plain
    <3> QED
      BY <3>1, <3>2
  <2> QED
    BY <2>1, <2>2
<1>9. Grows
  BY <1>0, <1>6, <1>8 DEF Grows
<1> QED
  BY <1>6, <1>7, <1>9

(* Nothing is linked.                                                          *)
LEMMA SameFrags ==
  ASSUME FragTypes, FragLinks, Grows, heap' \in Seq(Txn), UNCHANGED fragVars,
         resumeFragment' # None => resumeFragment' \in 1 .. Len(frags)
  PROVE  FragTypes' /\ FragLinks'
<1>1. frags' = frags /\ rootFragments' = rootFragments /\ resumeFrags' = resumeFrags /\ suspendFrag' = suspendFrag
  BY DEF fragVars
<1>2. Len(heap) \in Nat /\ Len(heap') \in Nat /\ Len(heap') >= Len(heap)
  BY DEF FragTypes, Grows
<1>3. \A r \in 1 .. Len(heap) : r \in 1 .. Len(heap')
  BY <1>2
<1>4. FragTypes'
  BY <1>1, <1>3 DEF FragTypes
<1>5. \A f \in 1 .. Len(frags) :
        /\ Plain(After(frags[f].txn)) <=> Plain(CountersOf(frags[f].txn))
        /\ \A l : Only(CountersOf(frags[f].txn), l) => Only(After(frags[f].txn), l)
        /\ \A l : Has(CountersOf(frags[f].txn), l) => Has(After(frags[f].txn), l)
  BY GrowsKeeps DEF FragTypes
<1>6. \A f : CountersOf(frags[f].txn)' = After(frags[f].txn)
  BY <1>1 DEF CountersOf, After
<1>7. NextsHeld'
  BY <1>1, <1>5, <1>6 DEF FragLinks, NextsHeld, CountersOf, After
<1>8. ResumesOnly'
  BY <1>1, <1>5, <1>6 DEF FragLinks, FragTypes, ResumesOnly, CountersOf, After
<1>9. SuspendsHeld'
  BY <1>1, <1>5, <1>6 DEF FragLinks, FragTypes, SuspendsHeld, CountersOf, After
<1>10. RootsPlain'
  BY <1>1, <1>5, <1>6 DEF FragLinks, FragTypes, RootsPlain, CountersOf, After
<1>11. ResumesResume'
  BY <1>1, <1>5, <1>6 DEF FragLinks, FragTypes, ResumesResume, CountersOf, After
<1> QED
  BY <1>4, <1>7, <1>8, <1>9, <1>10, <1>11 DEF FragLinks

(* addResumeFragment: the new transaction continues its link, and a fragment   *)
(* that was suspended under that link has the suspension.                      *)
LEMMA AddsResume ==
  ASSUME FragTypes, FragLinks, NEW c \in Sample, Resumes(c), c.data \in Links,
         heap' = Append(heap, Transaction(c)), AddResumeFragment(c.data, Len(heap) + 1),
         resumeFragment' = Len(frags) + 1
  PROVE  FragTypes' /\ FragLinks' /\ frags'[resumeFragment'].txn = Len(heap) + 1
<1> DEFINE link == c.data
           n == Len(heap) + 1
           m == Len(frags) + 1
           linked == IF resumeFrags[link] = <<>> /\ suspendFrag[link] # None
                     THEN [frags EXCEPT ![suspendFrag[link]].next = link] ELSE frags
<1>1. /\ frags' = Append(linked, TxnFragment(n)) /\ rootFragments' = rootFragments /\ suspendFrag' = suspendFrag
      /\ resumeFrags' = [resumeFrags EXCEPT ![link] = Append(@, m)]
  BY DEF AddResumeFragment
<1>2. /\ heap \in Seq(Txn) /\ frags \in Seq(Frag) /\ Len(frags) \in Nat /\ Len(heap) \in Nat
      /\ resumeFrags \in [Links -> Seq(Nat)] /\ \A f \in 1 .. Len(frags) : frags[f] \in Frag
  BY DEF FragTypes
<1>3. /\ heap' \in Seq(Txn) /\ Len(heap') = Len(heap) + 1 /\ After(n) = {c} /\ Grows
  <2>1. Transaction(c) \in Txn /\ ToSet(Transaction(c).counters) = {c}
    BY TransactionOfThread DEF Transaction, ToSet
  <2> QED
    BY <1>2, <2>1, AppendGrows DEF After
<1>4. /\ linked \in Seq(Frag) /\ Len(linked) = Len(frags)
      /\ \A f \in 1 .. Len(frags) : /\ linked[f].txn = frags[f].txn
                                    /\ \/ linked[f].next = frags[f].next
                                       \/ linked[f].next = link /\ suspendFrag[link] = f
  <2>1. CASE ~ (resumeFrags[link] = <<>> /\ suspendFrag[link] # None)
    BY <1>2, <2>1
  <2>2. CASE resumeFrags[link] = <<>> /\ suspendFrag[link] # None
    <3> DEFINE s == suspendFrag[link]
               y == [frags[s] EXCEPT !.next = link]
    <3>1. s \in 1 .. Len(frags)
      BY <2>2 DEF FragTypes
    <3>2. y \in Frag /\ y.txn = frags[s].txn /\ y.next = link
      BY <1>2, <3>1 DEF Frag
    <3>3. linked = [frags EXCEPT ![s] = y]
      BY <2>2
    <3> HIDE DEF s, y, linked
    <3>4. linked \in [1 .. Len(frags) -> Frag] /\ \A f \in 1 .. Len(frags) : linked[f] = IF f = s THEN y ELSE frags[f]
      BY <1>2, <3>1, <3>2, <3>3
    <3>5. linked \in Seq(Frag) /\ Len(linked) = Len(frags)
      BY <1>2, <3>4
    <3> QED
      BY <3>2, <3>4, <3>5 DEF s
  <2> QED
    BY <2>1, <2>2
<1> HIDE DEF linked
<1>5. TxnFragment(n) \in Frag /\ TxnFragment(n).txn = n /\ TxnFragment(n).next = None
  BY <1>2 DEF TxnFragment, Frag
<1>6. /\ frags' \in Seq(Frag) /\ Len(frags') = m /\ frags'[m] = TxnFragment(n)
      /\ \A f \in 1 .. Len(frags) : frags'[f] = linked[f]
  BY <1>1, <1>2, <1>4, <1>5
<1>7. \A f \in 1 .. m : f \in 1 .. Len(frags) \/ f = m
  BY <1>2
<1>8. \A f \in 1 .. Len(frags) : f \in 1 .. m
  BY <1>2
<1>9. /\ resumeFrags' \in [Links -> Seq(Nat)]
      /\ \A l \in Links : l # link => resumeFrags'[l] = resumeFrags[l]
      /\ resumeFrags'[link] = Append(resumeFrags[link], m)
  BY <1>1, <1>2
<1>10. \A l \in Links : \A k \in 1 .. Len(resumeFrags'[l]) :
         \/ resumeFrags'[l][k] = m /\ l = link
         \/ k \in 1 .. Len(resumeFrags[l]) /\ resumeFrags'[l][k] = resumeFrags[l][k]
  <2> TAKE l \in Links
  <2> TAKE k \in 1 .. Len(resumeFrags'[l])
  <2>1. CASE l # link
    BY <1>9, <2>1
  <2>2. CASE l = link
    <3>1. resumeFrags[link] \in Seq(Nat) /\ resumeFrags'[link] = Append(resumeFrags[link], m)
      BY <1>2, <1>9
    <3> QED
      BY <2>2, <3>1
  <2> QED
    BY <2>1, <2>2
<1>11. FragTypes'
  <2>1. \A f \in 1 .. Len(frags') : frags'[f].txn \in 1 .. Len(heap')
    <3>1. \A r \in 1 .. Len(heap) : r \in 1 .. Len(heap')
      BY <1>2, <1>3
    <3>2. n \in 1 .. Len(heap')
      BY <1>2, <1>3
    <3>3. \A f \in 1 .. Len(frags) : linked[f].txn \in 1 .. Len(heap)
      BY <1>4 DEF FragTypes
    <3> HIDE DEF n, m
    <3> QED
      BY <1>5, <1>6, <1>7, <3>1, <3>2, <3>3
  <2>2. \A k \in 1 .. Len(rootFragments') : rootFragments'[k] \in 1 .. Len(frags')
    BY <1>1, <1>6, <1>8 DEF FragTypes
  <2>3. m \in 1 .. m
    BY <1>2
  <2>4. \A l \in Links : \A k \in 1 .. Len(resumeFrags'[l]) : resumeFrags'[l][k] \in 1 .. Len(frags')
    BY <1>6, <1>8, <1>10, <2>3 DEF FragTypes
  <2>5. \A l \in Links : suspendFrag'[l] # None => suspendFrag'[l] \in 1 .. Len(frags')
    BY <1>1, <1>6, <1>8 DEF FragTypes
  <2>6. rootFragments' \in Seq(Nat) /\ suspendFrag' \in [Links -> Nat \cup {None}]
    BY <1>1 DEF FragTypes
  <2> QED
    BY <1>3, <1>6, <1>9, <2>1, <2>2, <2>3, <2>4, <2>5, <2>6 DEF FragTypes
<1>12. \A f \in 1 .. Len(frags) :
        /\ frags'[f].txn = frags[f].txn
        /\ Plain(After(frags'[f].txn)) <=> Plain(CountersOf(frags[f].txn))
        /\ \A l : Only(CountersOf(frags[f].txn), l) => Only(After(frags'[f].txn), l)
        /\ \A l : Has(CountersOf(frags[f].txn), l) => Has(After(frags'[f].txn), l)
  <2> TAKE f \in 1 .. Len(frags)
  <2>1. frags'[f].txn = frags[f].txn /\ frags[f].txn \in 1 .. Len(heap)
    BY <1>4, <1>6 DEF FragTypes
  <2> QED
    BY <1>3, <2>1, GrowsKeeps
<1>13. frags'[m].txn = n /\ frags'[m].next = None
  BY <1>5, <1>6
<1>14. Only(After(n), link) /\ ~ Plain(After(n))
  BY <1>3 DEF Only, Plain
<1> HIDE DEF n, m, link
<1>15. NextsHeld'
  <2> SUFFICES ASSUME NEW f \in 1 .. m, frags'[f].next # None PROVE Has(After(frags'[f].txn), frags'[f].next)
    BY <1>6 DEF NextsHeld, CountersOf, After
  <2>1. f \in 1 .. Len(frags)
    BY <1>7, <1>13
  <2>2. CASE frags'[f].next = frags[f].next
    BY <1>12, <2>1, <2>2 DEF FragLinks, NextsHeld
  <2>3. CASE frags'[f].next = link /\ suspendFrag[link] = f
    <3>1. f # None
      BY <1>2, <2>1, NoneAssumption
    <3> QED
      BY <1>12, <2>1, <2>3, <3>1 DEF FragLinks, SuspendsHeld, link
  <2> QED
    BY <1>4, <1>6, <2>1, <2>2, <2>3
<1>16. ResumesOnly'
  <2> SUFFICES ASSUME NEW l \in Links, NEW k \in 1 .. Len(resumeFrags'[l])
      PROVE  Only(After(frags'[resumeFrags'[l][k]].txn), l)
    BY DEF ResumesOnly, CountersOf, After
  <2>1. CASE resumeFrags'[l][k] = m /\ l = link
    BY <1>13, <1>14, <2>1
  <2>2. CASE k \in 1 .. Len(resumeFrags[l]) /\ resumeFrags'[l][k] = resumeFrags[l][k]
    <3>1. resumeFrags[l][k] \in 1 .. Len(frags) /\ Only(CountersOf(frags[resumeFrags[l][k]].txn), l)
      BY <2>2 DEF FragTypes, FragLinks, ResumesOnly
    <3> QED
      BY <1>12, <2>2, <3>1
  <2> QED
    BY <1>10, <2>1, <2>2
<1>17. ResumesResume'
  <2> SUFFICES ASSUME NEW l \in Links, NEW k \in 1 .. Len(resumeFrags'[l])
      PROVE  ~ Plain(After(frags'[resumeFrags'[l][k]].txn))
    BY DEF ResumesResume, CountersOf, After
  <2>1. CASE resumeFrags'[l][k] = m /\ l = link
    BY <1>13, <1>14, <2>1
  <2>2. CASE k \in 1 .. Len(resumeFrags[l]) /\ resumeFrags'[l][k] = resumeFrags[l][k]
    <3>1. resumeFrags[l][k] \in 1 .. Len(frags) /\ ~ Plain(CountersOf(frags[resumeFrags[l][k]].txn))
      BY <2>2 DEF FragTypes, FragLinks, ResumesResume
    <3> QED
      BY <1>12, <2>2, <3>1
  <2> QED
    BY <1>10, <2>1, <2>2
<1>18. SuspendsHeld'
  BY <1>1, <1>12 DEF FragTypes, FragLinks, SuspendsHeld, CountersOf, After
<1>19. RootsPlain'
  BY <1>1, <1>12 DEF FragTypes, FragLinks, RootsPlain, CountersOf, After
<1> QED
  BY <1>11, <1>13, <1>15, <1>16, <1>17, <1>18, <1>19 DEF FragLinks, m, n

(* addSuspendFragment: the transaction under way has the suspension; if it was *)
(* not resumed it is a root.                                                   *)
LEMMA AddsSuspend ==
  ASSUME FragTypes, FragLinks, Grows, heap' \in Seq(Txn), currentTxn \in 1 .. Len(heap),
         NEW c \in Sample, Suspends(c), c \in After(currentTxn), resumeFragment' = resumeFragment,
         resumeFragment = None => Plain(After(currentTxn)),
         resumeFragment # None => frags[resumeFragment].txn = currentTxn,
         AddSuspendFragment(LinkOf(c), currentTxn, resumeFragment)
  PROVE  FragTypes' /\ FragLinks' /\ (resumeFragment # None => frags'[resumeFragment].txn = currentTxn)
<1> DEFINE link == LinkOf(c)
           all == IF resumeFragment = None THEN Append(frags, TxnFragment(currentTxn)) ELSE frags
           f0 == IF resumeFragment = None THEN Len(all) ELSE resumeFragment
<1>1. /\ frags' = IF resumeFrags[link] # <<>> THEN [all EXCEPT ![f0].next = link] ELSE all
      /\ rootFragments' = IF resumeFragment = None THEN Append(rootFragments, f0) ELSE rootFragments
      /\ suspendFrag' = [suspendFrag EXCEPT ![link] = f0] /\ resumeFrags' = resumeFrags
  BY DEF AddSuspendFragment
<1>2. /\ heap \in Seq(Txn) /\ frags \in Seq(Frag) /\ Len(frags) \in Nat /\ Len(heap) \in Nat
      /\ rootFragments \in Seq(Nat) /\ suspendFrag \in [Links -> Nat \cup {None}]
      /\ \A f \in 1 .. Len(frags) : frags[f] \in Frag
  BY DEF FragTypes
<1>3. link \in Links
  BY DEF LinkOf, Links, Sample, Counters
<1>4. TxnFragment(currentTxn) \in Frag /\ TxnFragment(currentTxn).txn = currentTxn /\ TxnFragment(currentTxn).next = None
  BY <1>2 DEF TxnFragment, Frag
<1>5. /\ all \in Seq(Frag) /\ Len(all) \in Nat /\ f0 \in 1 .. Len(all) /\ all[f0].txn = currentTxn
      /\ Len(all) >= Len(frags) /\ \A f \in 1 .. Len(frags) : all[f] = frags[f]
      /\ \A f \in 1 .. Len(all) : f \in 1 .. Len(frags) \/ f = f0
      /\ f0 \notin 1 .. Len(frags) => all[f0].next = None
  <2>1. CASE resumeFragment = None
    BY <1>2, <1>4, <2>1
  <2>2. CASE resumeFragment # None
    BY <1>2, <2>2 DEF FragTypes
  <2> QED
    BY <2>1, <2>2
<1>6. resumeFragment # None => f0 = resumeFragment
  OBVIOUS
<1>7. resumeFragment = None => Plain(After(all[f0].txn))
  BY <1>5
<1> HIDE DEF all, f0, link
<1>8. /\ frags' \in Seq(Frag) /\ Len(frags') = Len(all)
      /\ \A f \in 1 .. Len(all) : /\ frags'[f].txn = all[f].txn
                                  /\ \/ frags'[f].next = all[f].next
                                     \/ frags'[f].next = link /\ f = f0
  <2>0. \A f \in 1 .. Len(all) : all[f] \in Frag
    BY <1>5
  <2>1. CASE ~ (resumeFrags[link] # <<>>)
    BY <1>1, <1>5, <2>1
  <2>2. CASE resumeFrags[link] # <<>>
    <3> DEFINE y == [all[f0] EXCEPT !.next = link]
    <3>1. y \in Frag /\ y.txn = all[f0].txn /\ y.next = link
      BY <1>3, <1>5, <2>0 DEF Frag
    <3>2. frags' = [all EXCEPT ![f0] = y]
      BY <1>1, <2>2
    <3> HIDE DEF y
    <3>3. frags' \in [1 .. Len(all) -> Frag] /\ \A f \in 1 .. Len(all) : frags'[f] = IF f = f0 THEN y ELSE all[f]
      BY <1>5, <3>1, <3>2
    <3>4. frags' \in Seq(Frag) /\ Len(frags') = Len(all)
      BY <1>5, <3>3
    <3> QED
      BY <3>1, <3>3, <3>4
  <2> QED
    BY <2>1, <2>2
<1>9. \A f \in 1 .. Len(frags) : f \in 1 .. Len(frags')
  BY <1>2, <1>5, <1>8
<1>10. Has(After(currentTxn), link)
  BY DEF Has, link
<1>11. \A f \in 1 .. Len(frags) :
        /\ frags'[f].txn = frags[f].txn
        /\ Plain(After(frags'[f].txn)) <=> Plain(CountersOf(frags[f].txn))
        /\ \A l : Only(CountersOf(frags[f].txn), l) => Only(After(frags'[f].txn), l)
        /\ \A l : Has(CountersOf(frags[f].txn), l) => Has(After(frags'[f].txn), l)
  <2> TAKE f \in 1 .. Len(frags)
  <2>1. frags'[f].txn = frags[f].txn /\ frags[f].txn \in 1 .. Len(heap)
    BY <1>5, <1>8, <1>9 DEF FragTypes
  <2> QED
    BY <2>1, GrowsKeeps
<1>12. frags'[f0].txn = currentTxn /\ f0 \in 1 .. Len(frags')
  BY <1>5, <1>8
<1>13. /\ \A l \in Links : l # link => suspendFrag'[l] = suspendFrag[l]
       /\ suspendFrag'[link] = f0 /\ suspendFrag' \in [Links -> Nat \cup {None}]
  BY <1>1, <1>2, <1>3, <1>5
<1>14. /\ rootFragments' \in Seq(Nat)
       /\ \A k \in 1 .. Len(rootFragments') :
            \/ rootFragments'[k] = f0 /\ resumeFragment = None
            \/ k \in 1 .. Len(rootFragments) /\ rootFragments'[k] = rootFragments[k]
  <2>1. f0 \in Nat
    BY <1>5
  <2>2. CASE resumeFragment = None
    BY <1>1, <1>2, <2>1, <2>2
  <2>3. CASE resumeFragment # None
    BY <1>1, <1>2, <2>3
  <2> QED
    BY <2>2, <2>3
<1>15. FragTypes'
  <2>1. \A r \in 1 .. Len(heap) : r \in 1 .. Len(heap')
    <3>1. Len(heap') \in Nat /\ Len(heap') >= Len(heap)
      BY DEF Grows
    <3> QED
      BY <1>2, <3>1
  <2>2. \A f \in 1 .. Len(frags') : frags'[f].txn \in 1 .. Len(heap')
    <3> TAKE f \in 1 .. Len(frags')
    <3>1. CASE f \in 1 .. Len(frags)
      BY <1>11, <2>1, <3>1 DEF FragTypes
    <3>2. CASE f = f0
      BY <1>12, <2>1, <3>2
    <3> QED
      BY <1>5, <1>8, <3>1, <3>2
  <2>3. \A k \in 1 .. Len(rootFragments') : rootFragments'[k] \in 1 .. Len(frags')
    BY <1>9, <1>12, <1>14 DEF FragTypes
  <2>4. /\ resumeFrags' \in [Links -> Seq(Nat)]
        /\ \A l \in Links : \A k \in 1 .. Len(resumeFrags'[l]) : resumeFrags'[l][k] \in 1 .. Len(frags')
    BY <1>1, <1>9 DEF FragTypes
  <2>5. \A l \in Links : suspendFrag'[l] # None => suspendFrag'[l] \in 1 .. Len(frags')
    BY <1>9, <1>12, <1>13 DEF FragTypes
  <2>6. resumeFragment' # None => resumeFragment' \in 1 .. Len(frags')
    BY <1>9 DEF FragTypes
  <2> QED
    BY <1>8, <1>13, <1>14, <2>2, <2>3, <2>4, <2>5, <2>6 DEF FragTypes
<1>16. NextsHeld'
  <2> SUFFICES ASSUME NEW f \in 1 .. Len(frags'), frags'[f].next # None
      PROVE  Has(After(frags'[f].txn), frags'[f].next)
    BY DEF NextsHeld, CountersOf, After
  <2>1. CASE frags'[f].next = link /\ f = f0
    BY <1>10, <1>12, <2>1
  <2>2. CASE frags'[f].next = all[f].next
    <3>1. f \in 1 .. Len(frags)
      BY <1>5, <1>8, <2>2
    <3> QED
      BY <1>5, <1>11, <2>2, <3>1 DEF FragLinks, NextsHeld
  <2> QED
    BY <1>8, <2>1, <2>2
<1>17. ResumesOnly'
  BY <1>1, <1>11 DEF FragTypes, FragLinks, ResumesOnly, CountersOf, After
<1>18. ResumesResume'
  BY <1>1, <1>11 DEF FragTypes, FragLinks, ResumesResume, CountersOf, After
<1>19. SuspendsHeld'
  <2> SUFFICES ASSUME NEW l \in Links, suspendFrag'[l] # None PROVE Has(After(frags'[suspendFrag'[l]].txn), l)
    BY DEF SuspendsHeld, CountersOf, After
  <2>1. CASE l = link
    BY <1>10, <1>12, <1>13, <2>1
  <2>2. CASE l # link
    <3>1. suspendFrag'[l] = suspendFrag[l] /\ suspendFrag[l] \in 1 .. Len(frags)
      BY <1>13, <2>2 DEF FragTypes
    <3> QED
      BY <1>11, <3>1 DEF FragLinks, SuspendsHeld
  <2> QED
    BY <2>1, <2>2
<1>20. RootsPlain'
  <2> SUFFICES ASSUME NEW k \in 1 .. Len(rootFragments') PROVE Plain(After(frags'[rootFragments'[k]].txn))
    BY DEF RootsPlain, CountersOf, After
  <2>1. CASE rootFragments'[k] = f0 /\ resumeFragment = None
    BY <1>12, <2>1
  <2>2. CASE k \in 1 .. Len(rootFragments) /\ rootFragments'[k] = rootFragments[k]
    <3>1. rootFragments[k] \in 1 .. Len(frags) /\ Plain(CountersOf(frags[rootFragments[k]].txn))
      BY <2>2 DEF FragTypes, FragLinks, RootsPlain
    <3> QED
      BY <1>11, <2>2, <3>1
  <2> QED
    BY <1>14, <2>1, <2>2
<1> QED
  BY <1>6, <1>12, <1>15, <1>16, <1>17, <1>18, <1>19, <1>20 DEF FragLinks

(* buildTxn: a transaction that resumes has a fragment, another one has none.  *)
LEMMA BuildsLinks ==
  ASSUME FragTypes, FragLinks, NEW c \in Sample, Resumes(c) => c.data \in Links, BuildTxn(c)
  PROVE  /\ FragTypes' /\ FragLinks' /\ Grows /\ Len(heap') = Len(heap) + 1
         /\ IF resumeFragment' = None THEN Plain(After(Len(heap) + 1))
                                      ELSE frags'[resumeFragment'].txn = Len(heap) + 1
<1>1. heap' = Append(heap, Transaction(c)) /\ heap \in Seq(Txn)
  BY DEF BuildTxn, FragTypes
<1>2. Transaction(c) \in Txn /\ ToSet(Transaction(c).counters) = {c}
  BY TransactionOfThread DEF Transaction, ToSet
<1>3. /\ heap' \in Seq(Txn) /\ Len(heap') = Len(heap) + 1 /\ After(Len(heap) + 1) = {c} /\ Grows
  BY <1>1, <1>2, AppendGrows DEF After
<1>4. CASE Resumes(c)
  <2>1. AddResumeFragment(c.data, Len(heap) + 1) /\ resumeFragment' = Len(frags) + 1
    BY <1>4 DEF BuildTxn
  <2>2. FragTypes' /\ FragLinks' /\ frags'[resumeFragment'].txn = Len(heap) + 1
    BY <1>1, <1>4, <2>1, AddsResume
  <2>3. resumeFragment' # None
    BY <2>1, NoneAssumption DEF FragTypes
  <2> QED
    BY <1>3, <2>2, <2>3
<1>5. CASE ~ Resumes(c)
  <2>1. resumeFragment' = None /\ UNCHANGED fragVars
    BY <1>5 DEF BuildTxn
  <2>2. FragTypes' /\ FragLinks'
    BY <1>3, <2>1, SameFrags
  <2>3. Plain(After(Len(heap) + 1))
    BY <1>3, <1>5 DEF Plain
  <2> QED
    BY <1>3, <2>1, <2>2, <2>3
<1> QED
  BY <1>4, <1>5

(* The dictionary of transactions: where it points, and what it may hold while *)
(* files are loaded.                                                           *)
TxnsIn == nextTxnId \in Nat /\ \A i \in DOMAIN txns : i \in 1 .. nextTxnId /\ txns[i] \in 1 .. Len(heap)

(* An untouched dictionary.                                                    *)
LEMMA SameTxns ==
  ASSUME Grows, heap \in Seq(Txn), heap' \in Seq(Txn), TxnsIn, TxnsPlain, UNCHANGED <<txns, nextTxnId>>
  PROVE  TxnsIn' /\ TxnsPlain'
<1>1. \A r \in 1 .. Len(heap) : r \in 1 .. Len(heap') /\ (Plain(CountersOf(r)) => Plain(After(r)))
  BY GrowsKeeps DEF Grows
<1> QED
  BY <1>1 DEF TxnsIn, TxnsPlain, CountersOf, After

(* appendTxn keeps fragments back: what it adds has no resumption.             *)
LEMMA AppendsPlain ==
  ASSUME Grows, heap \in Seq(Txn), heap' \in Seq(Txn), TxnsIn, TxnsPlain,
         NEW r \in 1 .. Len(heap), resumeFragment = None => Plain(CountersOf(r)), AppendTxn(r)
  PROVE  TxnsIn' /\ TxnsPlain'
<1>1. CASE KeepBack
  <2>1. UNCHANGED <<txns, nextTxnId>>
    BY <1>1 DEF AppendTxn
  <2> QED
    BY <2>1, SameTxns
<1>2. CASE ~ KeepBack
  <2>1. nextTxnId' = nextTxnId + 1 /\ txns' = Put(txns, nextTxnId + 1, r) /\ Plain(CountersOf(r))
    BY <1>2 DEF AppendTxn, KeepBack
  <2>2. DOMAIN txns' = DOMAIN txns \cup {nextTxnId + 1}
    BY <2>1 DEF Put
  <2>3. \A i \in DOMAIN txns' : txns'[i] = IF i = nextTxnId + 1 THEN r ELSE txns[i]
    BY <2>1 DEF Put
  <2>4. \A q \in 1 .. Len(heap) : q \in 1 .. Len(heap') /\ (Plain(CountersOf(q)) => Plain(After(q)))
    BY GrowsKeeps DEF Grows
  <2>5. \A i \in DOMAIN txns' : txns'[i] \in 1 .. Len(heap) /\ Plain(CountersOf(txns'[i]))
    BY <2>1, <2>2, <2>3 DEF TxnsIn, TxnsPlain
  <2>6. nextTxnId' \in Nat /\ \A i \in DOMAIN txns' : i \in 1 .. nextTxnId'
    BY <2>1, <2>2 DEF TxnsIn
  <2>7. TxnsIn'
    BY <2>4, <2>5, <2>6 DEF TxnsIn
  <2>8. TxnsPlain'
    BY <2>4, <2>5 DEF TxnsPlain, CountersOf, After
  <2> QED
    BY <2>7, <2>8
<1> QED
  BY <1>1, <1>2

(* loadCounter, branch by branch.                                              *)
LEMMA LoadCounterLinks ==
  ASSUME FragTypes, FragLinks, CurrentLinks, TxnsIn, TxnsPlain, ephemeralCounters \in Seq(Sample),
         currentTxn # None => currentTxn \in DOMAIN heap,
         NEW c \in Sample, Resumes(c) => c.data \in Links, LoadCounter(c)
  PROVE  FragTypes' /\ FragLinks' /\ CurrentLinks' /\ TxnsIn' /\ TxnsPlain'
<1>0. /\ heap \in Seq(Txn)
      /\ currentTxn # None => currentTxn \in 1 .. Len(heap)
      /\ Plain(ToSet(ephemeralCounters)) /\ Plain(ToSet(<<>>)) /\ ToSet(<<>>) = {}
      /\ currentTxn # None /\ resumeFragment = None => Plain(CountersOf(currentTxn))
      /\ currentTxn # None /\ resumeFragment # None => frags[resumeFragment].txn = currentTxn
  BY DEF FragTypes, CurrentLinks, Plain, ToSet
<1>1. CASE NextTxn(c)
  <2>1. /\ currentTxn # None /\ AppendTxn(currentTxn) /\ BuildTxn(c) /\ currentTxn' = Len(heap) + 1
        /\ ephemeralCounters' = <<>>
    BY <1>1 DEF NextTxn, FlushEphemeral
  <2>2. /\ FragTypes' /\ FragLinks' /\ Grows /\ Len(heap') = Len(heap) + 1
        /\ IF resumeFragment' = None THEN Plain(After(Len(heap) + 1))
                                     ELSE frags'[resumeFragment'].txn = Len(heap) + 1
    BY <2>1, BuildsLinks
  <2>3. TxnsIn' /\ TxnsPlain'
    BY <1>0, <2>1, <2>2, AppendsPlain DEF FragTypes
  <2>4. CurrentLinks'
    BY <1>0, <2>1, <2>2 DEF CurrentLinks, CountersOf, After
  <2> QED
    BY <2>2, <2>3, <2>4
<1>2. CASE AddInner(c)
  <2>1. /\ currentTxn # None /\ ~ Resumes(c)
        /\ heap' = [heap EXCEPT ![currentTxn] = AddCounters(@, <<c>>, FALSE)]
        /\ UNCHANGED <<currentTxn, ephemeralCounters, txns, nextTxnId, resumeFragment>> /\ UNCHANGED fragVars
    BY <1>2 DEF AddInner, sortVars, Opens
  <2>2. <<c>> \in Seq(Sample) /\ Plain(ToSet(<<c>>)) /\ currentTxn \in DOMAIN heap
    BY <2>1 DEF Plain, ToSet
  <2>3. heap' \in Seq(Txn) /\ Len(heap') = Len(heap) /\ Grows
    BY <1>0, <2>1, <2>2, AddGrows
  <2>4. FragTypes' /\ FragLinks'
    BY <2>1, <2>3, SameFrags DEF FragTypes
  <2>5. TxnsIn' /\ TxnsPlain'
    BY <1>0, <2>1, <2>3, SameTxns
  <2>6. resumeFragment = None => Plain(After(currentTxn))
    BY <1>0, <2>1, <2>3, GrowsKeeps
  <2>7. CurrentLinks'
    BY <1>0, <2>1, <2>6 DEF CurrentLinks, CountersOf, After, fragVars
  <2> QED
    BY <2>4, <2>5, <2>7
<1>3. CASE CloseTxn(c)
  <2> DEFINE cs == Append(ephemeralCounters, c)
  <2>1. /\ currentTxn # None /\ ~ Resumes(c)
        /\ heap' = [heap EXCEPT ![currentTxn] = AddCounters(@, cs, TRUE)]
        /\ ephemeralCounters' = <<>>
        /\ UNCHANGED <<currentTxn, txns, nextTxnId, resumeFragment>>
        /\ IF Suspends(c) THEN AddSuspendFragment(LinkOf(c), currentTxn, resumeFragment)
                          ELSE UNCHANGED fragVars
    BY <1>3 DEF CloseTxn, Opens
  <2>2. cs \in Seq(Sample) /\ ToSet(cs) = ToSet(ephemeralCounters) \cup {c}
    <3>1. ephemeralCounters \in Seq(Sample) /\ c \in Sample
      OBVIOUS
    <3> QED
      BY <3>1, EphemeralSet, Zenon
  <2>3. Plain(ToSet(cs)) /\ currentTxn \in DOMAIN heap
    BY <1>0, <2>1, <2>2 DEF Plain
  <2> HIDE DEF cs
  <2>4. /\ heap' \in Seq(Txn) /\ Len(heap') = Len(heap) /\ Grows
        /\ After(currentTxn) = CountersOf(currentTxn) \cup ToSet(cs)
    BY <1>0, <2>1, <2>2, <2>3, AddGrows DEF After
  <2>5. TxnsIn' /\ TxnsPlain'
    BY <1>0, <2>1, <2>4, SameTxns
  <2>6. resumeFragment = None => Plain(After(currentTxn))
    BY <1>0, <2>1, <2>4, GrowsKeeps
  <2>7. c \in After(currentTxn)
    BY <2>2, <2>4
  <2>8. FragTypes' /\ FragLinks' /\ (resumeFragment # None => frags'[resumeFragment].txn = currentTxn)
    <3>1. CASE Suspends(c)
      BY <1>0, <2>1, <2>4, <2>6, <2>7, <3>1, AddsSuspend
    <3>2. CASE ~ Suspends(c)
      <4>1. FragTypes' /\ FragLinks'
        BY <2>1, <2>4, <3>2, SameFrags DEF FragTypes
      <4> QED
        BY <1>0, <2>1, <3>2, <4>1 DEF fragVars
    <3> QED
      BY <3>1, <3>2
  <2>9. CurrentLinks'
    BY <1>0, <2>1, <2>6, <2>8 DEF CurrentLinks, CountersOf, After
  <2> QED
    BY <2>5, <2>8, <2>9
<1>4. CASE AddEphemeral(c)
  <2>1. /\ ~ Resumes(c) /\ ephemeralCounters' = Append(ephemeralCounters, c)
        /\ UNCHANGED <<heap, currentTxn, txns, nextTxnId, resumeFragment>> /\ UNCHANGED fragVars
    BY <1>4 DEF AddEphemeral, Opens
  <2>2. ToSet(ephemeralCounters') = ToSet(ephemeralCounters) \cup {c}
    <3>1. ephemeralCounters \in Seq(Sample) /\ c \in Sample
      OBVIOUS
    <3>2. ToSet(Append(ephemeralCounters, c)) = ToSet(ephemeralCounters) \cup {c}
      BY <3>1, EphemeralSet, Zenon
    <3> QED
      BY <2>1, <3>2, Zenon
  <2>3. Plain(ToSet(ephemeralCounters'))
    BY <1>0, <2>1, <2>2 DEF Plain
  <2>4. Grows
    <3>1. \A r \in 1 .. Len(heap) : After(r) = CountersOf(r) \cup {}
      BY <2>1 DEF After, CountersOf
    <3>2. Plain({}) /\ Len(heap') >= Len(heap)
      BY <1>0, <2>1 DEF Plain
    <3> QED
      BY <3>1, <3>2 DEF Grows
  <2>5. FragTypes' /\ FragLinks'
    BY <1>0, <2>1, <2>4, SameFrags DEF FragTypes
  <2>6. TxnsIn' /\ TxnsPlain'
    BY <1>0, <2>1, <2>4, SameTxns
  <2>7. CurrentLinks'
    BY <1>0, <2>1, <2>3 DEF CurrentLinks, CountersOf, fragVars
  <2> QED
    BY <2>5, <2>6, <2>7
<1>5. CASE FirstTxn(c)
  <2>1. /\ BuildTxn(c) /\ currentTxn' = Len(heap) + 1
        /\ ephemeralCounters' = <<>> /\ UNCHANGED <<txns, nextTxnId>>
    BY <1>5 DEF FirstTxn, FlushEphemeral
  <2>2. /\ FragTypes' /\ FragLinks' /\ Grows /\ Len(heap') = Len(heap) + 1
        /\ IF resumeFragment' = None THEN Plain(After(Len(heap) + 1))
                                     ELSE frags'[resumeFragment'].txn = Len(heap) + 1
    BY <2>1, BuildsLinks
  <2>3. TxnsIn' /\ TxnsPlain'
    BY <1>0, <2>1, <2>2, SameTxns DEF FragTypes
  <2>4. CurrentLinks'
    BY <1>0, <2>1, <2>2 DEF CurrentLinks, CountersOf, After
  <2> QED
    BY <2>2, <2>3, <2>4
<1>6. CASE Compromise(c)
  <2> DEFINE x == AddCounters(Transaction(c), ephemeralCounters, FALSE)
  <2>1. /\ currentTxn = None /\ currentTxn' = currentTxn /\ resumeFragment' = None
        /\ heap' = Append(heap, x) /\ ephemeralCounters' = <<>>
        /\ UNCHANGED <<txns, nextTxnId>> /\ UNCHANGED fragVars
    BY <1>6 DEF Compromise
  <2>2. x \in Txn
    BY TransactionOfThread, AddCountersType
  <2> HIDE DEF x
  <2>3. heap' \in Seq(Txn) /\ Grows
    BY <1>0, <2>1, <2>2, AppendGrows
  <2>4. FragTypes' /\ FragLinks'
    BY <2>1, <2>3, SameFrags
  <2>5. TxnsIn' /\ TxnsPlain'
    BY <1>0, <2>1, <2>3, SameTxns
  <2>6. CurrentLinks'
    BY <1>0, <2>1 DEF CurrentLinks
  <2> QED
    BY <2>4, <2>5, <2>6
<1> QED
  BY <1>1, <1>2, <1>3, <1>4, <1>5, <1>6 DEF LoadCounter

(* Transactions without resumptions are closed.                                *)
LEMMA PlainClosed == TxnsPlain => LinksClosed
BY DEF TxnsPlain, LinksClosed, Plain

(* Nothing is loaded at first.                                                 *)
LEMMA InitLinks == Init => LinkInv
<1> SUFFICES ASSUME Init PROVE LinkInv
  OBVIOUS
<1> USE DEF Init
<1>1. FragTypes
  BY DEF FragTypes
<1>2. TxnTypes
  BY DEF TxnTypes
<1>3. FragLinks
  BY DEF FragLinks, NextsHeld, ResumesOnly, SuspendsHeld, RootsPlain, ResumesResume
<1>4. CurrentLinks /\ TxnsPlain
  BY DEF CurrentLinks, TxnsPlain, Plain, ToSet
<1> QED
  BY <1>1, <1>2, <1>3, <1>4, PlainClosed DEF LinkInv, Before

(* Steps that touch no transaction and no fragment.                            *)
LEMMA SameLinks ==
  ASSUME LinkInv, UNCHANGED <<heap, currentTxn, txns, nextTxnId, resumeFragment, work, joined>>,
         ephemeralCounters' = ephemeralCounters, UNCHANGED fragVars,
         \/ phase' = phase
         \/ Before /\ phase' \in {"recording", "loading"}
         \/ phase' = "done"
  PROVE  LinkInv'
<1>1. frags' = frags /\ rootFragments' = rootFragments /\ resumeFrags' = resumeFrags /\ suspendFrag' = suspendFrag
  BY DEF fragVars
<1>2. FragTypes'
  BY <1>1 DEF LinkInv, FragTypes
<1>3. TxnTypes'
  BY DEF LinkInv, TxnTypes, Before
<1>4. LinksClosed'
  BY DEF LinkInv, LinksClosed, CountersOf
<1>5. ASSUME Before, Before' PROVE (FragLinks /\ CurrentLinks /\ TxnsPlain)'
  <2>1. FragLinks /\ CurrentLinks /\ TxnsPlain
    BY <1>5 DEF LinkInv
  <2>2. FragLinks'
    BY <1>1, <2>1 DEF FragLinks, NextsHeld, ResumesOnly, SuspendsHeld, RootsPlain, ResumesResume, CountersOf
  <2>3. CurrentLinks' /\ TxnsPlain'
    BY <1>1, <2>1 DEF CurrentLinks, TxnsPlain, CountersOf
  <2> QED
    BY <2>2, <2>3
<1>6. ASSUME phase = "joining", phase' = "joining" PROVE (NextsHeld /\ ResumesOnly /\ WorkClosed /\ JoinedClosed)'
  <2>1. NextsHeld /\ ResumesOnly /\ WorkClosed /\ JoinedClosed
    BY <1>6 DEF LinkInv
  <2>2. NextsHeld' /\ ResumesOnly' /\ JoinedClosed'
    BY <1>1, <2>1 DEF NextsHeld, ResumesOnly, JoinedClosed, CountersOf
  <2>3. ResumeTxns' = ResumeTxns
    BY <1>1 DEF ResumeTxns
  <2>4. WorkClosed'
    BY <2>1, <2>3 DEF WorkClosed, CountersOf
  <2> QED
    BY <2>2, <2>4
<1>7. Before' => Before
  BY DEF Before
<1>8. phase' = "joining" => phase = "joining"
  BY DEF Before
<1>9. Before' => FragLinks' /\ CurrentLinks' /\ TxnsPlain' /\ work' = <<>> /\ joined' = <<>>
  BY <1>5, <1>7 DEF LinkInv
<1>10. phase' = "joining" => NextsHeld' /\ ResumesOnly' /\ WorkClosed' /\ JoinedClosed'
  BY <1>6, <1>8
<1> QED
  BY <1>2, <1>3, <1>4, <1>9, <1>10 DEF LinkInv

(* Steps of the loading of the files.                                          *)
LEMMA LoadingLinks ==
  ASSUME LinkInv, phase = "loading", phase' = phase, UNCHANGED <<work, joined>>,
         FragTypes', FragLinks', CurrentLinks', TxnsIn', TxnsPlain'
  PROVE  LinkInv'
<1>1. work' = <<>> /\ joined' = <<>>
  BY DEF LinkInv, Before
<1>2. TxnTypes'
  BY <1>1 DEF TxnTypes, TxnsIn
<1>3. LinksClosed'
  BY PlainClosed DEF TxnsPlain, LinksClosed, Plain
<1> QED
  BY <1>1, <1>2, <1>3 DEF LinkInv, Before

(* A sample is loaded.                                                         *)
LEMMA LoadSampleLinks == ASSUME IInv, LinkInv, LoadSample PROVE LinkInv'
<1> DEFINE c == files[thread][pos]
<1>1. thread \in Threads /\ files[thread] \in Seq(Sample) /\ pos \in DOMAIN files[thread]
  BY DEF IInv, FilesInv, LoadInv, LoadSample
<1>2. c \in Sample /\ (c.site \in DOMAIN AppProbe /\ Resumes(c) => c.data \in Links)
  BY <1>1 DEF IInv, FilesInv, ResumesLinked
<1>3. phase = "loading" /\ phase' = phase /\ UNCHANGED <<work, joined>>
  BY DEF LoadSample, joinVars
<1>4. \/ LoadCounter(c) /\ c.site \in DOMAIN AppProbe
      \/ /\ UNCHANGED <<heap, currentTxn, txns, ephemeralCounters, nextTxnId, resumeFragment>>
         /\ UNCHANGED fragVars
  BY DEF LoadSample, sortVars
<1> HIDE DEF c
<1>5. CASE LoadCounter(c) /\ c.site \in DOMAIN AppProbe
  <2>1. FragTypes /\ FragLinks /\ CurrentLinks /\ TxnsIn /\ TxnsPlain
    BY <1>3 DEF LinkInv, Before, TxnTypes, TxnsIn
  <2>2. ephemeralCounters \in Seq(Sample) /\ (currentTxn # None => currentTxn \in DOMAIN heap)
    BY DEF IInv, LoadInv, CurrentInv
  <2>3. FragTypes' /\ FragLinks' /\ CurrentLinks' /\ TxnsIn' /\ TxnsPlain'
    BY <1>2, <1>5, <2>1, <2>2, LoadCounterLinks
  <2> QED
    BY <1>3, <2>3, LoadingLinks
<1>6. CASE /\ UNCHANGED <<heap, currentTxn, txns, ephemeralCounters, nextTxnId, resumeFragment>>
           /\ UNCHANGED fragVars
  BY <1>3, <1>6, SameLinks
<1> QED
  BY <1>4, <1>5, <1>6

(* endLoad: the transaction under way joins the others unless it is a fragment *)
LEMMA EndLoadLinks == ASSUME IInv, LinkInv, EndLoad PROVE LinkInv'
<1>1. /\ phase = "loading" /\ phase' = phase /\ UNCHANGED <<work, joined>> /\ currentTxn' = None
      /\ UNCHANGED <<heap, ephemeralCounters, resumeFragment>> /\ UNCHANGED fragVars
      /\ \/ currentTxn # None /\ AppendTxn(currentTxn)
         \/ UNCHANGED <<txns, nextTxnId>>
  BY DEF EndLoad, joinVars
<1>2. FragTypes /\ FragLinks /\ CurrentLinks /\ TxnsIn /\ TxnsPlain /\ heap \in Seq(Txn)
  BY <1>1 DEF LinkInv, Before, TxnTypes, TxnsIn, FragTypes
<1>3. Grows
  <2>1. \A r \in 1 .. Len(heap) : After(r) = CountersOf(r) \cup {}
    BY <1>1 DEF After, CountersOf
  <2>2. Plain({}) /\ Len(heap') >= Len(heap)
    BY <1>1, <1>2 DEF Plain
  <2> QED
    BY <2>1, <2>2 DEF Grows
<1>4. FragTypes' /\ FragLinks'
  BY <1>1, <1>2, <1>3, SameFrags DEF FragTypes
<1>5. CurrentLinks'
  BY <1>1, <1>2 DEF CurrentLinks
<1>6. TxnsIn' /\ TxnsPlain'
  <2>1. CASE currentTxn # None /\ AppendTxn(currentTxn)
    <3>1. currentTxn \in 1 .. Len(heap)
      BY <1>2, <2>1 DEF IInv, CurrentInv
    <3>2. resumeFragment = None => Plain(CountersOf(currentTxn))
      BY <1>2, <2>1 DEF CurrentLinks
    <3> QED
      BY <1>1, <1>2, <1>3, <2>1, <3>1, <3>2, AppendsPlain
  <2>2. CASE UNCHANGED <<txns, nextTxnId>>
    BY <1>1, <1>2, <1>3, <2>2, SameTxns
  <2> QED
    BY <1>1, <2>1, <2>2
<1> QED
  BY <1>1, <1>4, <1>5, <1>6, LoadingLinks

(* endCollection: the roots have their suspensions and are no resumptions.     *)
LEMMA EndCollectionLinks == ASSUME LinkInv, EndCollection PROVE LinkInv'
<1>1. /\ phase = "loading" /\ phase' = "joining" /\ joined' = joined
      /\ UNCHANGED <<heap, txns, nextTxnId, resumeFragment>> /\ UNCHANGED fragVars
      /\ work' = [i \in DOMAIN rootFragments |-> <<frags[rootFragments[i]].txn, frags[rootFragments[i]].next>>]
  BY DEF EndCollection
<1>2. FragTypes /\ FragLinks /\ TxnTypes /\ joined = <<>> /\ LinksClosed
  BY <1>1 DEF LinkInv, Before
<1>3. frags' = frags /\ rootFragments' = rootFragments /\ resumeFrags' = resumeFrags /\ suspendFrag' = suspendFrag
  BY <1>1 DEF fragVars
<1>4. rootFragments \in Seq(Nat) /\ frags \in Seq(Frag) /\ DOMAIN rootFragments = 1 .. Len(rootFragments)
      /\ Len(rootFragments) \in Nat
  BY <1>2 DEF FragTypes
<1>5. \A k \in 1 .. Len(rootFragments) :
        /\ rootFragments[k] \in 1 .. Len(frags)
        /\ frags[rootFragments[k]].txn \in Nat /\ frags[rootFragments[k]].next \in Links \cup {None}
  <2>0. \A f \in 1 .. Len(frags) : frags[f] \in Frag
    BY <1>4
  <2>1. \A f \in 1 .. Len(frags) : frags[f].txn \in Nat /\ frags[f].next \in Links \cup {None}
    BY <2>0 DEF Frag
  <2> QED
    BY <1>2, <2>1 DEF FragTypes
<1>6. /\ work' \in Seq(Nat \X (Links \cup {None})) /\ Len(work') = Len(rootFragments)
      /\ \A k \in 1 .. Len(rootFragments) : /\ work'[k][1] = frags[rootFragments[k]].txn
                                            /\ work'[k][2] = frags[rootFragments[k]].next
  <2>1. work' \in [1 .. Len(rootFragments) -> Nat \X (Links \cup {None})]
    BY <1>1, <1>4, <1>5
  <2> QED
    BY <1>1, <1>4, <2>1
<1>7. FragTypes' /\ LinksClosed'
  BY <1>1, <1>2, <1>3 DEF FragTypes, LinksClosed, CountersOf
<1>8. TxnTypes'
  BY <1>1, <1>2, <1>6 DEF TxnTypes
<1>9. NextsHeld' /\ ResumesOnly' /\ JoinedClosed'
  BY <1>1, <1>2, <1>3 DEF FragLinks, NextsHeld, ResumesOnly, JoinedClosed, CountersOf
<1>10. ASSUME NEW k \in 1 .. Len(rootFragments), NEW r, r = frags[rootFragments[k]].txn
       PROVE  /\ r \in 1 .. Len(heap) /\ r \notin ResumeTxns /\ Closed(CountersOf(r))
              /\ frags[rootFragments[k]].next # None => Has(CountersOf(r), frags[rootFragments[k]].next)
  <2>1. r \in 1 .. Len(heap)
    BY <1>2, <1>5, <1>10 DEF FragTypes
  <2>2. Plain(CountersOf(r))
    BY <1>2, <1>10 DEF FragLinks, RootsPlain
  <2>3. r \notin ResumeTxns
    BY <1>2, <2>2 DEF FragLinks, ResumesResume, ResumeTxns
  <2>4. frags[rootFragments[k]].next # None => Has(CountersOf(r), frags[rootFragments[k]].next)
    BY <1>2, <1>5, <1>10 DEF FragLinks, NextsHeld
  <2> QED
    BY <2>1, <2>2, <2>3, <2>4 DEF Closed, Plain
<1>11. ResumeTxns' = ResumeTxns
  BY <1>3 DEF ResumeTxns
<1>12. WorkClosed'
  BY <1>1, <1>6, <1>10, <1>11 DEF WorkClosed, CountersOf
<1> QED
  BY <1>1, <1>7, <1>8, <1>9, <1>12 DEF LinkInv, Before

(* Transaction.join has the counters of both and keeps the id.                 *)
LEMMA JoinSet ==
  ASSUME NEW x \in Txn, NEW y \in Txn
  PROVE  /\ Join(x, y) \in Txn /\ Join(x, y).txnId = x.txnId
         /\ ToSet(Join(x, y).counters) = ToSet(x.counters) \cup ToSet(y.counters)
<1> DEFINE all == x.counters \o y.counters
           key == [i \in DOMAIN all |-> all[i].tsc]
           sorted == StableSort(all, key)
<1>1. x.counters \in Seq(Sample) /\ y.counters \in Seq(Sample)
  BY DEF Txn
<1>2. all \in Seq(Sample) /\ ToSet(all) = ToSet(x.counters) \cup ToSet(y.counters)
  BY <1>1, ConcatSet
<1> HIDE DEF all
<1>3. DOMAIN all = 1 .. Len(all) /\ \A i \in 1 .. Len(all) : all[i] \in Sample
  BY <1>2
<1>4. \A c \in Sample : c.tsc \in Int
  BY DEF Sample, Counters
<1>5. key \in [1 .. Len(all) -> Int]
  BY <1>3, <1>4
<1>6. sorted \in Seq(Sample) /\ ToSet(sorted) = ToSet(all)
  <2> HIDE DEF key
  <2> QED
    BY <1>2, <1>5, SortKeeps
<1>7. Join(x, y) = [x EXCEPT !.counters = sorted]
  BY DEF Join, all
<1> HIDE DEF sorted
<1> QED
  BY <1>2, <1>6, <1>7 DEF Txn

(* Joining closed counters with the resumptions of a suspension they have.     *)
LEMMA JoinCloses ==
  ASSUME NEW C, NEW D, Closed(C), NEW l, Has(C, l), Only(D, l)
  PROVE  Closed(C \cup D)
BY DEF Closed, Has, Only

(* A larger set has the suspensions of a smaller one.                          *)
LEMMA HasMore ==
  ASSUME NEW C, NEW D, NEW l
  PROVE  (Has(C, l) => Has(C \cup D, l)) /\ (Has(D, l) => Has(C \cup D, l))
BY DEF Has

(* A function on 1 .. n is a list of n elements.                               *)
LEMMA ListOf ==
  ASSUME NEW S, NEW n \in Nat, NEW f \in [1 .. n -> S]
  PROVE  f \in Seq(S) /\ Len(f) = n
OBVIOUS

(* The elements of two lists one after the other.                              *)
LEMMA ConcatAt ==
  ASSUME NEW S, NEW q \in Seq(S), NEW r \in Seq(S)
  PROVE  /\ q \o r \in Seq(S) /\ Len(q \o r) = Len(q) + Len(r)
         /\ \A i \in 1 .. Len(q) : (q \o r)[i] = q[i]
         /\ \A i \in 1 .. Len(r) : (q \o r)[Len(q) + i] = r[i]
OBVIOUS

(* joinFragments at the end of a chain: what it changes.                       *)
EndStep(txn) ==
  /\ phase = "joining" /\ work # <<>> /\ txn = work[1][1]
  /\ nextTxnId' = nextTxnId + 1 /\ heap' = [heap EXCEPT ![txn].txnId = nextTxnId + 1]
  /\ joined' = Append(joined, txn) /\ work' = Tail(work)
  /\ UNCHANGED <<phase, txns, resumeFragment>> /\ UNCHANGED fragVars

(* The end of a chain changes the id of one transaction, and no counters.      *)
LEMMA EndIs ==
  ASSUME LinkInv, NEW txn, EndStep(txn)
  PROVE  /\ txn \in 1 .. Len(heap) /\ Closed(CountersOf(txn))
         /\ heap' \in Seq(Txn) /\ Len(heap') = Len(heap)
         /\ \A r \in 1 .. Len(heap) : /\ heap'[r].counters = heap[r].counters
                                      /\ heap'[r].txnId = IF r = txn THEN nextTxnId + 1 ELSE heap[r].txnId
         /\ joined' \in Seq(Nat) /\ Len(joined') = Len(joined) + 1 /\ joined'[Len(joined) + 1] = txn
         /\ \A k \in 1 .. Len(joined) : joined'[k] = joined[k]
         /\ \A k \in 1 .. Len(joined) + 1 : k \in 1 .. Len(joined) \/ k = Len(joined) + 1
         /\ work' \in Seq(Nat \X (Links \cup {None})) /\ Len(work') = Len(work) - 1
         /\ \A k \in 1 .. Len(work) - 1 : k + 1 \in 1 .. Len(work) /\ work'[k] = work[k + 1]
<1>0. FragTypes /\ TxnTypes /\ WorkClosed
  BY DEF LinkInv, EndStep
<1>2. /\ heap \in Seq(Txn) /\ Len(heap) \in Nat /\ nextTxnId \in Nat /\ joined \in Seq(Nat) /\ Len(joined) \in Nat
      /\ work \in Seq(Nat \X (Links \cup {None})) /\ Len(work) \in Nat \ {0} /\ txn = work[1][1] /\ work # <<>>
  BY <1>0 DEF FragTypes, TxnTypes, EndStep
<1>3. txn \in 1 .. Len(heap) /\ txn \in Nat /\ Closed(CountersOf(txn))
  <2>1. 1 \in 1 .. Len(work)
    BY <1>2
  <2>2. work[1][1] \in 1 .. Len(heap) /\ Closed(CountersOf(work[1][1]))
    BY <1>0, <2>1, Zenon DEF WorkClosed
  <2>3. txn \in 1 .. Len(heap) /\ Closed(CountersOf(txn))
    BY <1>2, <2>2, Zenon
  <2>4. txn \in Nat
    BY <1>2, <2>3
  <2> QED
    BY <2>3, <2>4
<1>4. /\ heap' \in Seq(Txn) /\ Len(heap') = Len(heap)
      /\ \A r \in 1 .. Len(heap) : /\ heap'[r].counters = heap[r].counters
                                   /\ heap'[r].txnId = IF r = txn THEN nextTxnId + 1 ELSE heap[r].txnId
  <2> DEFINE y == [heap[txn] EXCEPT !.txnId = nextTxnId + 1]
  <2>0. heap \in [1 .. Len(heap) -> Txn] /\ \A r \in 1 .. Len(heap) : heap[r] \in Txn
    BY <1>2
  <2>5. \A x \in Txn : \A n \in Nat : LET z == [x EXCEPT !.txnId = n]
                                     IN  z \in Txn /\ z.counters = x.counters /\ z.txnId = n
    BY DEF Txn
  <2>1. y \in Txn /\ y.counters = heap[txn].counters /\ y.txnId = nextTxnId + 1
    <3>1. heap[txn] \in Txn /\ nextTxnId + 1 \in Nat
      BY <1>2, <1>3, <2>0
    <3> QED
      BY <2>5, <3>1
  <2>2. heap' = [heap EXCEPT ![txn] = y]
    BY DEF EndStep
  <2> HIDE DEF y
  <2>3. heap' \in [1 .. Len(heap) -> Txn] /\ \A r \in 1 .. Len(heap) : heap'[r] = IF r = txn THEN y ELSE heap[r]
    BY <1>3, <2>0, <2>1, <2>2
  <2>4. heap' \in Seq(Txn) /\ Len(heap') = Len(heap)
    BY <1>2, <2>3, ListOf
  <2> QED
    BY <2>1, <2>3, <2>4
<1>6. /\ joined' \in Seq(Nat) /\ Len(joined') = Len(joined) + 1 /\ joined'[Len(joined) + 1] = txn
      /\ \A k \in 1 .. Len(joined) : joined'[k] = joined[k]
      /\ \A k \in 1 .. Len(joined) + 1 : k \in 1 .. Len(joined) \/ k = Len(joined) + 1
  <2>1. joined \in Seq(Nat) /\ Len(joined) \in Nat /\ txn \in Nat /\ joined' = Append(joined, txn)
    BY <1>2, <1>3 DEF EndStep
  <2>2. joined' \in Seq(Nat) /\ Len(joined') = Len(joined) + 1 /\ joined'[Len(joined) + 1] = txn
    BY <2>1
  <2>3. \A k \in 1 .. Len(joined) : joined'[k] = joined[k]
    BY <2>1
  <2>4. \A k \in 1 .. Len(joined) + 1 : k \in 1 .. Len(joined) \/ k = Len(joined) + 1
    BY <2>1
  <2> QED
    BY <2>2, <2>3, <2>4
<1>7. /\ work' \in Seq(Nat \X (Links \cup {None})) /\ Len(work') = Len(work) - 1
      /\ \A k \in 1 .. Len(work) - 1 : k + 1 \in 1 .. Len(work) /\ work'[k] = work[k + 1]
  <2> DEFINE W == Nat \X (Links \cup {None})
  <2>1. work \in Seq(W) /\ Len(work) \in Nat \ {0} /\ work # <<>> /\ work' = Tail(work)
    BY <1>2 DEF EndStep
  <2> HIDE DEF W
  <2>2. Tail(work) \in Seq(W) /\ Len(Tail(work)) = Len(work) - 1
    BY <2>1
  <2>3. \A k \in 1 .. Len(work) - 1 : k + 1 \in 1 .. Len(work) /\ Tail(work)[k] = work[k + 1]
    BY <2>1
  <2> QED
    BY <2>1, <2>2, <2>3, Zenon DEF W
<1> QED
  BY <1>3, <1>4, <1>6, <1>7

(* What is joined is closed.                                                   *)
LEMMA ChainEnds ==
  ASSUME LinkInv, NEW txn, EndStep(txn)
  PROVE  LinkInv' /\ Len(heap') >= Len(heap)
<1>0. FragTypes /\ TxnTypes /\ NextsHeld /\ ResumesOnly /\ WorkClosed /\ JoinedClosed /\ LinksClosed
  BY DEF LinkInv, EndStep
<1>1. /\ frags' = frags /\ rootFragments' = rootFragments /\ resumeFrags' = resumeFrags /\ suspendFrag' = suspendFrag
      /\ nextTxnId' = nextTxnId + 1 /\ phase = "joining" /\ UNCHANGED <<phase, txns, resumeFragment>>
  BY DEF fragVars, EndStep
<1>2. Len(heap) \in Nat /\ nextTxnId \in Nat /\ Len(joined) \in Nat
  BY <1>0 DEF FragTypes, TxnTypes
<1>3. txn \in 1 .. Len(heap) /\ Closed(CountersOf(txn))
  BY EndIs
<1>4. /\ heap' \in Seq(Txn) /\ Len(heap') = Len(heap)
      /\ \A r \in 1 .. Len(heap) : /\ heap'[r].counters = heap[r].counters
                                   /\ heap'[r].txnId = IF r = txn THEN nextTxnId + 1 ELSE heap[r].txnId
  BY EndIs
<1>5. \A r \in 1 .. Len(heap) : After(r) = CountersOf(r)
  BY <1>4 DEF After, CountersOf
<1>6. /\ joined' \in Seq(Nat) /\ Len(joined') = Len(joined) + 1 /\ joined'[Len(joined) + 1] = txn
      /\ \A k \in 1 .. Len(joined) : joined'[k] = joined[k]
      /\ \A k \in 1 .. Len(joined) + 1 : k \in 1 .. Len(joined) \/ k = Len(joined) + 1
  BY EndIs
<1>7. /\ work' \in Seq(Nat \X (Links \cup {None})) /\ Len(work') = Len(work) - 1
      /\ \A k \in 1 .. Len(work) - 1 : k + 1 \in 1 .. Len(work) /\ work'[k] = work[k + 1]
  BY EndIs
<1>8. FragTypes'
  BY <1>0, <1>1, <1>4 DEF FragTypes
<1>9. TxnTypes'
  <2>1. \A i \in DOMAIN txns : i \in 1 .. nextTxnId + 1 /\ txns[i] \in 1 .. Len(heap)
    BY <1>0, <1>2 DEF TxnTypes
  <2>2. \A n \in 1 .. nextTxnId : n \in 1 .. nextTxnId + 1
    BY <1>2
  <2>3. nextTxnId + 1 \in 1 .. nextTxnId + 1 /\ nextTxnId + 1 \in Nat
    BY <1>2
  <2>4. \A k \in 1 .. Len(joined) + 1 : joined'[k] \in 1 .. Len(heap) /\ heap'[joined'[k]].txnId \in 1 .. nextTxnId + 1
    <3>1. ASSUME NEW k \in 1 .. Len(joined)
          PROVE  joined[k] \in 1 .. Len(heap) /\ heap'[joined[k]].txnId \in 1 .. nextTxnId + 1
      <4>1. joined[k] \in 1 .. Len(heap) /\ heap[joined[k]].txnId \in 1 .. nextTxnId
        BY <1>0 DEF TxnTypes
      <4> QED
        BY <1>4, <2>2, <2>3, <4>1
    <3>2. heap'[txn].txnId \in 1 .. nextTxnId + 1
      BY <1>3, <1>4, <2>3
    <3> QED
      BY <1>3, <1>6, <3>1, <3>2
  <2> QED
    BY <1>0, <1>1, <1>4, <1>6, <1>7, <2>1, <2>3, <2>4 DEF TxnTypes
<1>10. LinksClosed'
  BY <1>0, <1>1, <1>5 DEF LinksClosed, TxnTypes, After, CountersOf
<1>11. NextsHeld'
  BY <1>0, <1>1, <1>5 DEF NextsHeld, FragTypes, After, CountersOf
<1>12. ResumesOnly'
  BY <1>0, <1>1, <1>5 DEF ResumesOnly, FragTypes, After, CountersOf
<1>13. JoinedClosed'
  <2>1. \A k \in 1 .. Len(joined) : joined[k] \in 1 .. Len(heap)
    BY <1>0 DEF TxnTypes
  <2>2. \A k \in 1 .. Len(joined) + 1 : Closed(After(joined'[k]))
    BY <1>0, <1>3, <1>5, <1>6, <2>1 DEF JoinedClosed
  <2> QED
    BY <1>6, <2>2 DEF JoinedClosed, After, CountersOf
<1>14. ResumeTxns' = ResumeTxns
  BY <1>1 DEF ResumeTxns
<1>15. WorkClosed'
  <2> SUFFICES ASSUME NEW k \in 1 .. Len(work) - 1
      PROVE  /\ work'[k][1] \in 1 .. Len(heap) /\ work'[k][1] \notin ResumeTxns
             /\ Closed(After(work'[k][1]))
             /\ work'[k][2] # None => Has(After(work'[k][1]), work'[k][2])
    BY <1>4, <1>7, <1>14 DEF WorkClosed, After, CountersOf
  <2> QED
    BY <1>0, <1>5, <1>7 DEF WorkClosed
<1> QED
  BY <1>1, <1>2, <1>4, <1>8, <1>9, <1>10, <1>11, <1>12, <1>13, <1>15 DEF LinkInv, Before

(* joinFragments for a suspension that was resumed: the first fragment of fs   *)
(* is joined into the transaction itself, the others into copies of it.        *)
Merged(txn, fs) == [i \in DOMAIN fs |-> Join(heap[txn], heap[frags[fs[i]].txn])]
Refs(txn, fs) == [i \in DOMAIN fs |-> IF i = 1 THEN txn ELSE Len(heap) + i - 1]
ChainStep(txn, next, fs) ==
  /\ phase = "joining" /\ work # <<>> /\ txn = work[1][1] /\ next = work[1][2]
  /\ fs = resumeFrags[next] /\ fs # <<>>
  /\ heap' = [heap EXCEPT ![txn] = Merged(txn, fs)[1]] \o [i \in 1 .. Len(fs) - 1 |-> Merged(txn, fs)[i + 1]]
  /\ work' = [i \in DOMAIN fs |-> <<Refs(txn, fs)[i], frags[fs[i]].next>>] \o Tail(work)
  /\ UNCHANGED <<nextTxnId, joined, phase, txns, resumeFragment>> /\ UNCHANGED fragVars

(* What that changes.                                                          *)
ChainEffect(txn, next, fs) ==
  /\ Len(heap) \in Nat /\ fs \in Seq(Nat) /\ Len(fs) \in Nat \ {0} /\ Len(work) \in Nat \ {0}
  /\ txn \in 1 .. Len(heap) /\ Closed(CountersOf(txn)) /\ txn \notin ResumeTxns /\ Has(CountersOf(txn), next)
  /\ \A i \in 1 .. Len(fs) :
       /\ fs[i] \in 1 .. Len(frags) /\ frags[fs[i]].txn \in 1 .. Len(heap)
       /\ Only(CountersOf(frags[fs[i]].txn), next)
       /\ frags[fs[i]].next # None => Has(CountersOf(frags[fs[i]].txn), frags[fs[i]].next)
  /\ \A i \in 1 .. Len(fs) :
       /\ Merged(txn, fs)[i].txnId = heap[txn].txnId
       /\ ToSet(Merged(txn, fs)[i].counters) = CountersOf(txn) \cup CountersOf(frags[fs[i]].txn)
       /\ Refs(txn, fs)[i] \in 1 .. Len(heap') /\ heap'[Refs(txn, fs)[i]] = Merged(txn, fs)[i]
       /\ Refs(txn, fs)[i] \notin ResumeTxns
  /\ Refs(txn, fs)[1] = txn
  /\ heap' \in Seq(Txn) /\ Len(heap') = Len(heap) + Len(fs) - 1
  /\ \A r \in 1 .. Len(heap) : heap'[r] = IF r = txn THEN Merged(txn, fs)[1] ELSE heap[r]
  /\ work' \in Seq(Nat \X (Links \cup {None})) /\ Len(work') = Len(fs) + (Len(work) - 1)
  /\ \A k \in 1 .. Len(fs) : work'[k][1] = Refs(txn, fs)[k] /\ work'[k][2] = frags[fs[k]].next
  /\ \A k \in 1 .. Len(work) - 1 : k + 1 \in 1 .. Len(work) /\ work'[Len(fs) + k] = work[k + 1]

(* The step of joinFragments that goes on with the resumptions has this effect. *)
LEMMA ChainIs ==
  ASSUME LinkInv, NEW txn, NEW next \in Links, NEW fs, ChainStep(txn, next, fs)
  PROVE  ChainEffect(txn, next, fs)
<1> DEFINE n == Len(fs)
           W == Nat \X (Links \cup {None})
           M == Merged(txn, fs)
           ref == Refs(txn, fs)
<1>0. FragTypes /\ TxnTypes /\ NextsHeld /\ ResumesOnly /\ WorkClosed
  BY DEF LinkInv, ChainStep
<1>c. work # <<>> /\ txn = work[1][1] /\ next = work[1][2] /\ fs = resumeFrags[next] /\ fs # <<>>
  BY DEF ChainStep
<1>2. /\ heap \in Seq(Txn) /\ Len(heap) \in Nat /\ frags \in Seq(Frag)
      /\ work \in Seq(W) /\ Len(work) \in Nat \ {0}
      /\ fs \in Seq(Nat) /\ n \in Nat \ {0} /\ DOMAIN fs = 1 .. n
  <2>1. heap \in Seq(Txn) /\ frags \in Seq(Frag) /\ resumeFrags[next] \in Seq(Nat)
    BY <1>0 DEF FragTypes
  <2>2. work \in Seq(W)
    BY <1>0 DEF TxnTypes
  <2> HIDE DEF W
  <2> QED
    BY <1>c, <2>1, <2>2
<1>m. \A i \in 1 .. n : /\ M[i] = Join(heap[txn], heap[frags[fs[i]].txn])
                        /\ ref[i] = IF i = 1 THEN txn ELSE Len(heap) + i - 1
  BY <1>2 DEF Merged, Refs
<1>n. next # None
  BY NoneAssumption
<1> HIDE DEF M, ref
<1>3. /\ txn \in 1 .. Len(heap) /\ txn \in Nat /\ Closed(CountersOf(txn)) /\ txn \notin ResumeTxns
      /\ Has(CountersOf(txn), next)
  <2>1. 1 \in 1 .. Len(work)
    BY <1>2
  <2> QED
    BY <1>0, <1>2, <1>c, <1>n, <2>1 DEF WorkClosed
<1>4. \A i \in 1 .. n : /\ fs[i] \in 1 .. Len(frags) /\ frags[fs[i]].txn \in 1 .. Len(heap)
                        /\ frags[fs[i]].next \in Links \cup {None}
                        /\ Only(CountersOf(frags[fs[i]].txn), next)
                        /\ frags[fs[i]].next # None => Has(CountersOf(frags[fs[i]].txn), frags[fs[i]].next)
  <2>1. \A f \in 1 .. Len(frags) : frags[f] \in Frag
    BY <1>2
  <2>2. \A f \in 1 .. Len(frags) : frags[f].next \in Links \cup {None}
    BY <2>1 DEF Frag
  <2>3. \A i \in 1 .. n : fs[i] \in 1 .. Len(frags)
    BY <1>0, <1>c DEF FragTypes
  <2> QED
    BY <1>0, <1>c, <2>2, <2>3 DEF FragTypes, NextsHeld, ResumesOnly
<1>5. \A i \in 1 .. n :
        /\ M[i] \in Txn /\ M[i].txnId = heap[txn].txnId
        /\ ToSet(M[i].counters) = CountersOf(txn) \cup CountersOf(frags[fs[i]].txn)
  <2> TAKE i \in 1 .. n
  <2>1. heap[txn] \in Txn /\ heap[frags[fs[i]].txn] \in Txn
    BY <1>2, <1>3, <1>4
  <2> QED
    <3>1. M[i] = Join(heap[txn], heap[frags[fs[i]].txn])
      BY <1>m
    <3>2. /\ Join(heap[txn], heap[frags[fs[i]].txn]) \in Txn
          /\ Join(heap[txn], heap[frags[fs[i]].txn]).txnId = heap[txn].txnId
          /\ ToSet(Join(heap[txn], heap[frags[fs[i]].txn]).counters)
               = ToSet(heap[txn].counters) \cup ToSet(heap[frags[fs[i]].txn].counters)
      BY <2>1, JoinSet
    <3> QED
      BY <3>1, <3>2, Zenon DEF CountersOf
<1> HIDE DEF n
<1>7. /\ heap' \in Seq(Txn) /\ Len(heap') = Len(heap) + n - 1
      /\ \A r \in 1 .. Len(heap) : heap'[r] = IF r = txn THEN M[1] ELSE heap[r]
      /\ \A i \in 2 .. n : heap'[Len(heap) + i - 1] = M[i]
  <2> DEFINE h1 == [heap EXCEPT ![txn] = M[1]]
             h2 == [i \in 1 .. n - 1 |-> M[i + 1]]
  <2>0. heap \in [1 .. Len(heap) -> Txn] /\ 1 \in 1 .. n /\ M[1] \in Txn
    <3>1. heap \in [1 .. Len(heap) -> Txn] /\ 1 \in 1 .. n
      BY <1>2
    <3> QED
      BY <1>5, <3>1
  <2>1. h1 \in [1 .. Len(heap) -> Txn] /\ \A r \in 1 .. Len(heap) : h1[r] = IF r = txn THEN M[1] ELSE heap[r]
    BY <1>3, <2>0
  <2>2. \A i \in 1 .. n - 1 : i + 1 \in 1 .. n
    BY <1>2
  <2>3. h2 \in [1 .. n - 1 -> Txn] /\ \A i \in 1 .. n - 1 : h2[i] = M[i + 1]
    BY <1>5, <2>2
  <2>4. heap' = h1 \o h2
    BY DEF n, M, ChainStep
  <2> HIDE DEF h1, h2
  <2>5. h1 \in Seq(Txn) /\ Len(h1) = Len(heap) /\ h2 \in Seq(Txn) /\ Len(h2) = n - 1
    <3>1. n - 1 \in Nat
      BY <1>2
    <3> QED
      BY <1>2, <2>1, <2>3, <3>1, ListOf
  <2>6. /\ heap' \in Seq(Txn) /\ Len(heap') = Len(heap) + n - 1
        /\ \A r \in 1 .. Len(heap) : heap'[r] = h1[r]
        /\ \A i \in 1 .. n - 1 : heap'[Len(heap) + i] = h2[i]
    <3>1. /\ h1 \o h2 \in Seq(Txn) /\ Len(h1 \o h2) = Len(heap) + (n - 1)
          /\ \A r \in 1 .. Len(heap) : (h1 \o h2)[r] = h1[r]
          /\ \A i \in 1 .. n - 1 : (h1 \o h2)[Len(heap) + i] = h2[i]
      BY <2>5, ConcatAt
    <3> QED
      BY <1>2, <2>4, <3>1
  <2>7. \A i \in 2 .. n : i - 1 \in 1 .. n - 1 /\ Len(heap) + (i - 1) = Len(heap) + i - 1 /\ (i - 1) + 1 = i
    BY <1>2
  <2>8. \A i \in 2 .. n : heap'[Len(heap) + i - 1] = M[i]
    <3> TAKE i \in 2 .. n
    <3>1. heap'[Len(heap) + (i - 1)] = h2[i - 1] /\ h2[i - 1] = M[(i - 1) + 1]
      BY <2>3, <2>6, <2>7
    <3> QED
      BY <2>7, <3>1
  <2> QED
    BY <2>1, <2>6, <2>8
<1>8. \A i \in 1 .. n : /\ ref[i] \in 1 .. Len(heap') /\ heap'[ref[i]] = M[i] /\ ref[i] \in Nat
                        /\ ref[i] \notin ResumeTxns
  <2>1. ResumeTxns \subseteq 1 .. Len(heap)
    BY <1>0 DEF ResumeTxns, FragTypes
  <2> TAKE i \in 1 .. n
  <2>2. CASE i = 1
    <3>1. ref[i] = txn /\ heap'[txn] = M[1] /\ txn \in 1 .. Len(heap')
      BY <1>2, <1>3, <1>7, <1>m, <2>2
    <3> QED
      BY <1>3, <2>2, <3>1
  <2>3. CASE i # 1
    <3>1. ref[i] = Len(heap) + i - 1 /\ i \in 2 .. n
      BY <1>2, <1>m, <2>3
    <3>2. Len(heap) + i - 1 \in 1 .. Len(heap') /\ Len(heap) + i - 1 \notin 1 .. Len(heap) /\ Len(heap) + i - 1 \in Nat
      BY <1>2, <1>7, <3>1
    <3> QED
      BY <1>7, <2>1, <3>1, <3>2
  <2> QED
    BY <2>2, <2>3
<1>11. /\ work' \in Seq(W) /\ Len(work') = n + (Len(work) - 1)
       /\ \A k \in 1 .. n : work'[k][1] = ref[k] /\ work'[k][2] = frags[fs[k]].next
       /\ \A k \in 1 .. Len(work) - 1 : k + 1 \in 1 .. Len(work) /\ work'[n + k] = work[k + 1]
  <2> DEFINE w1 == [i \in 1 .. n |-> <<ref[i], frags[fs[i]].next>>]
             w2 == Tail(work)
  <2>1. \A i \in 1 .. n : <<ref[i], frags[fs[i]].next>> \in W
    BY <1>4, <1>8
  <2>2. w1 \in Seq(W) /\ Len(w1) = n /\ \A k \in 1 .. n : w1[k] = <<ref[k], frags[fs[k]].next>>
    <3> HIDE DEF W
    <3> QED
      BY <1>2, <2>1
  <2>3. w2 \in Seq(W) /\ Len(w2) = Len(work) - 1 /\ \A k \in 1 .. Len(work) - 1 : k + 1 \in 1 .. Len(work) /\ w2[k] = work[k + 1]
    <3> HIDE DEF W
    <3> QED
      BY <1>2
  <2>4. work' = w1 \o w2
    BY <1>2 DEF ChainStep, ref
  <2> HIDE DEF w1, w2, W
  <2>5. /\ work' \in Seq(W) /\ Len(work') = n + (Len(work) - 1)
        /\ \A k \in 1 .. n : work'[k] = w1[k]
        /\ \A k \in 1 .. Len(work) - 1 : work'[n + k] = w2[k]
    <3>0. w1 \in Seq(W) /\ w2 \in Seq(W)
      BY <2>2, <2>3
    <3>1. /\ w1 \o w2 \in Seq(W) /\ Len(w1 \o w2) = Len(w1) + Len(w2)
          /\ \A k \in 1 .. Len(w1) : (w1 \o w2)[k] = w1[k]
          /\ \A k \in 1 .. Len(w2) : (w1 \o w2)[Len(w1) + k] = w2[k]
      BY <3>0, ConcatAt
    <3> QED
      BY <2>2, <2>3, <2>4, <3>1
  <2>6. \A k \in 1 .. n : work'[k] = <<ref[k], frags[fs[k]].next>>
    BY <2>2, <2>5
  <2>7. \A k \in 1 .. n : work'[k][1] = ref[k] /\ work'[k][2] = frags[fs[k]].next
    BY <2>6
  <2> QED
    BY <2>3, <2>5, <2>7 DEF W
<1>12. ref[1] = txn /\ n \in Nat \ {0}
  BY <1>2, <1>m
<1>13. \A i \in 1 .. n : M[i].txnId = heap[txn].txnId /\ ToSet(M[i].counters) = CountersOf(txn) \cup CountersOf(frags[fs[i]].txn)
  BY <1>5
<1> QED
  BY <1>2, <1>3, <1>4, <1>7, <1>8, <1>11, <1>12, <1>13, Zenon DEF ChainEffect, n, W, M, ref

(* What is joined stays closed.                                                *)
LEMMA ChainContinues ==
  ASSUME LinkInv, NEW txn, NEW next \in Links, NEW fs, ChainStep(txn, next, fs)
  PROVE  LinkInv' /\ Len(heap') >= Len(heap)
<1> DEFINE n == Len(fs)
           W == Nat \X (Links \cup {None})
           M == Merged(txn, fs)
           ref == Refs(txn, fs)
<1>0. FragTypes /\ TxnTypes /\ NextsHeld /\ ResumesOnly /\ WorkClosed /\ JoinedClosed /\ LinksClosed /\ phase = "joining"
  BY DEF LinkInv, ChainStep
<1>d. nextTxnId' = nextTxnId /\ joined' = joined /\ txns' = txns /\ phase' = phase /\ resumeFragment' = resumeFragment
  BY DEF ChainStep
<1>1. frags' = frags /\ rootFragments' = rootFragments /\ resumeFrags' = resumeFrags /\ suspendFrag' = suspendFrag
  BY DEF ChainStep, fragVars
<1> HIDE DEF M, ref
<1>i. ChainEffect(txn, next, fs)
  BY ChainIs
<1>2. Len(heap) \in Nat /\ Len(work) \in Nat \ {0} /\ n \in Nat \ {0}
  BY <1>i DEF ChainEffect
<1>3. txn \in 1 .. Len(heap) /\ Closed(CountersOf(txn)) /\ txn \notin ResumeTxns /\ Has(CountersOf(txn), next)
  BY <1>i DEF ChainEffect
<1>4. \A i \in 1 .. n : /\ frags[fs[i]].txn \in 1 .. Len(heap) /\ Only(CountersOf(frags[fs[i]].txn), next)
                        /\ frags[fs[i]].next # None => Has(CountersOf(frags[fs[i]].txn), frags[fs[i]].next)
  BY <1>i DEF ChainEffect
<1>5. \A i \in 1 .. n : /\ M[i].txnId = heap[txn].txnId
                        /\ ToSet(M[i].counters) = CountersOf(txn) \cup CountersOf(frags[fs[i]].txn)
  BY <1>i DEF ChainEffect, M
<1>6. \A i \in 1 .. n :
        /\ Closed(ToSet(M[i].counters))
        /\ frags[fs[i]].next # None => Has(ToSet(M[i].counters), frags[fs[i]].next)
  <2> TAKE i \in 1 .. n
  <2>1. Closed(CountersOf(txn) \cup CountersOf(frags[fs[i]].txn))
    BY <1>3, <1>4, JoinCloses
  <2>2. frags[fs[i]].next # None => Has(CountersOf(txn) \cup CountersOf(frags[fs[i]].txn), frags[fs[i]].next)
    BY <1>4, HasMore
  <2> QED
    BY <1>5, <2>1, <2>2
<1> HIDE DEF n
<1>7. /\ heap' \in Seq(Txn) /\ Len(heap') = Len(heap) + n - 1
      /\ \A r \in 1 .. Len(heap) : heap'[r] = IF r = txn THEN M[1] ELSE heap[r]
  BY <1>i DEF ChainEffect, M, n
<1>8. \A i \in 1 .. n : ref[i] \in 1 .. Len(heap') /\ heap'[ref[i]] = M[i] /\ ref[i] \notin ResumeTxns
  BY <1>i DEF ChainEffect, M, n, ref
<1>9. ASSUME NEW r \in 1 .. Len(heap)
      PROVE  /\ r \in 1 .. Len(heap') /\ heap'[r].txnId = heap[r].txnId
             /\ Closed(CountersOf(r)) => Closed(After(r))
             /\ \A l : Has(CountersOf(r), l) => Has(After(r), l)
             /\ r # txn => After(r) = CountersOf(r)
  <2>1. r \in 1 .. Len(heap')
    BY <1>2, <1>7
  <2>2. CASE r = txn
    <3>0. 1 \in 1 .. n
      BY <1>2
    <3>1. heap'[r] = M[1] /\ After(r) = CountersOf(txn) \cup CountersOf(frags[fs[1]].txn)
      BY <1>5, <1>7, <2>2, <3>0 DEF After
    <3>2. Closed(After(r))
      BY <1>6, <3>0, <3>1 DEF After
    <3> QED
      BY <1>5, <2>1, <2>2, <3>0, <3>1, <3>2, HasMore
  <2>3. CASE r # txn
    <3>1. heap'[r] = heap[r] /\ After(r) = CountersOf(r)
      BY <1>7, <2>3 DEF After, CountersOf
    <3> QED
      BY <2>1, <2>3, <3>1
  <2> QED
    BY <2>2, <2>3
<1>10. FragTypes'
  BY <1>0, <1>1, <1>7, <1>9, <1>d DEF FragTypes
<1>11. /\ work' \in Seq(W) /\ Len(work') = n + (Len(work) - 1)
       /\ \A k \in 1 .. n : work'[k][1] = ref[k] /\ work'[k][2] = frags[fs[k]].next
       /\ \A k \in 1 .. Len(work) - 1 : k + 1 \in 1 .. Len(work) /\ work'[n + k] = work[k + 1]
  BY <1>i, Zenon DEF ChainEffect, n, ref
<1>12. TxnTypes'
  <2>2. \A i \in DOMAIN txns : i \in 1 .. nextTxnId /\ txns[i] \in 1 .. Len(heap')
    BY <1>0, <1>9 DEF TxnTypes
  <2>3. \A k \in 1 .. Len(joined) : joined[k] \in 1 .. Len(heap') /\ heap'[joined[k]].txnId \in 1 .. nextTxnId
    BY <1>0, <1>9 DEF TxnTypes
  <2>4. phase \in {"recording", "loading", "joining", "joined", "done"} /\ nextTxnId \in Nat /\ joined \in Seq(Nat)
    BY <1>0 DEF TxnTypes
  <2> QED
    BY <1>11, <1>d, <2>2, <2>3, <2>4 DEF TxnTypes
<1>13. LinksClosed'
  <2>1. \A i \in DOMAIN txns : txns[i] \in 1 .. Len(heap) /\ Closed(CountersOf(txns[i]))
    BY <1>0 DEF TxnTypes, LinksClosed, Closed, Has
  <2>2. \A i \in DOMAIN txns : Closed(After(txns[i]))
    BY <1>9, <2>1
  <2> QED
    BY <1>d, <2>2 DEF LinksClosed, Closed, Has, After, CountersOf
<1>14. NextsHeld'
  BY <1>0, <1>1, <1>9 DEF NextsHeld, FragTypes, After, CountersOf
<1>15. ResumesOnly'
  <2>1. \A l \in Links : \A k \in 1 .. Len(resumeFrags[l]) :
          /\ frags[resumeFrags[l][k]].txn \in 1 .. Len(heap) /\ frags[resumeFrags[l][k]].txn # txn
    BY <1>0, <1>3 DEF FragTypes, ResumeTxns
  <2> QED
    BY <1>0, <1>1, <1>9, <2>1 DEF ResumesOnly, After, CountersOf
<1>16. JoinedClosed'
  BY <1>0, <1>9, <1>d DEF JoinedClosed, TxnTypes, After, CountersOf
<1>17. ResumeTxns' = ResumeTxns
  BY <1>1 DEF ResumeTxns
<1>18. WorkClosed'
  <2> SUFFICES ASSUME NEW k \in 1 .. Len(work')
      PROVE  /\ work'[k][1] \in 1 .. Len(heap') /\ work'[k][1] \notin ResumeTxns
             /\ Closed(After(work'[k][1]))
             /\ work'[k][2] # None => Has(After(work'[k][1]), work'[k][2])
    BY <1>17 DEF WorkClosed, After, CountersOf
  <2>1. CASE k \in 1 .. n
    <3>1. work'[k][1] = ref[k] /\ work'[k][2] = frags[fs[k]].next
      BY <1>11, <2>1, Zenon
    <3>2. ref[k] \in 1 .. Len(heap') /\ ref[k] \notin ResumeTxns /\ Closed(After(ref[k]))
          /\ (frags[fs[k]].next # None => Has(After(ref[k]), frags[fs[k]].next))
      BY <1>6, <1>8, <2>1 DEF After
    <3> QED
      BY <3>1, <3>2, Zenon
  <2>2. CASE k \notin 1 .. n
    <3>1. k - n \in 1 .. Len(work) - 1 /\ n + (k - n) = k
      BY <1>2, <1>11, <2>2
    <3> DEFINE q == (k - n) + 1
    <3>2. q \in 1 .. Len(work) /\ work'[k] = work[q]
      BY <1>11, <3>1
    <3> HIDE DEF q
    <3>3. /\ work[q][1] \in 1 .. Len(heap) /\ work[q][1] \notin ResumeTxns
          /\ Closed(CountersOf(work[q][1]))
          /\ work[q][2] # None => Has(CountersOf(work[q][1]), work[q][2])
      BY <1>0, <3>2 DEF WorkClosed
    <3> QED
      BY <1>9, <3>2, <3>3
  <2> QED
    BY <2>1, <2>2
<1>19. Len(heap') >= Len(heap)
  BY <1>2, <1>7
<1> QED
  BY <1>0, <1>10, <1>12, <1>13, <1>14, <1>15, <1>16, <1>18, <1>19, <1>d DEF LinkInv, Before

(* joinFragments does one or the other.                                        *)
LEMMA JoinCases ==
  ASSUME LinkInv, JoinFragments
  PROVE  \E txn, next, fs :
           \/ EndStep(txn) /\ next = work[1][2] /\ (next \in Links => resumeFrags[next] = <<>>)
           \/ next \in Links /\ ChainStep(txn, next, fs)
<1> DEFINE txn == work[1][1]
           next == work[1][2]
           fs == IF next = None THEN <<>> ELSE resumeFrags[next]
<1>1. phase = "joining" /\ work # <<>> /\ UNCHANGED <<phase, txns, resumeFragment>> /\ UNCHANGED fragVars
  BY DEF JoinFragments
<1>2. CASE fs = <<>>
  <2>1. /\ nextTxnId' = nextTxnId + 1 /\ heap' = [heap EXCEPT ![txn].txnId = nextTxnId + 1]
        /\ joined' = Append(joined, txn) /\ work' = Tail(work)
    BY <1>2 DEF JoinFragments
  <2> HIDE DEF txn, next, fs
  <2>2. txn = work[1][1] /\ next = work[1][2]
    BY DEF txn, next
  <2>3. next \in Links => resumeFrags[next] = <<>>
    BY <1>2, NoneAssumption DEF fs
  <2>4. EndStep(txn)
    BY <1>1, <2>1, <2>2 DEF EndStep
  <2> QED
    BY <2>2, <2>3, <2>4
<1>3. CASE fs # <<>>
  <2>1. /\ heap' = [heap EXCEPT ![txn] = Join(heap[txn], heap[frags[fs[1]].txn])]
                     \o [i \in 1 .. Len(fs) - 1 |-> Join(heap[txn], heap[frags[fs[i + 1]].txn])]
        /\ work' = [i \in DOMAIN fs |-> <<IF i = 1 THEN txn ELSE Len(heap) + i - 1, frags[fs[i]].next>>] \o Tail(work)
        /\ UNCHANGED <<nextTxnId, joined>>
    BY <1>3, Zenon DEF JoinFragments
  <2>2. next # None /\ fs = resumeFrags[next]
    BY <1>3
  <2> HIDE DEF fs
  <2>3. next \in Links
    <3>1. work \in Seq(Nat \X (Links \cup {None})) /\ 1 \in DOMAIN work
      BY <1>1 DEF LinkInv, TxnTypes
    <3>2. work[1] \in Nat \X (Links \cup {None})
      BY <3>1
    <3> QED
      BY <2>2, <3>2
  <2>4. fs \in Seq(Nat)
    BY <2>2, <2>3 DEF LinkInv, FragTypes
  <2>5. txn = work[1][1] /\ next = work[1][2]
    OBVIOUS
  <2> HIDE DEF txn, next
  <2>6. DOMAIN fs = 1 .. Len(fs) /\ Len(fs) \in Nat \ {0}
    BY <1>3, <2>4
  <2>7. \A i \in DOMAIN fs : /\ Merged(txn, fs)[i] = Join(heap[txn], heap[frags[fs[i]].txn])
                             /\ Refs(txn, fs)[i] = IF i = 1 THEN txn ELSE Len(heap) + i - 1
    BY DEF Merged, Refs
  <2>8. 1 \in DOMAIN fs /\ \A i \in 1 .. Len(fs) - 1 : i + 1 \in DOMAIN fs
    BY <2>6
  <2>9. [i \in 1 .. Len(fs) - 1 |-> Join(heap[txn], heap[frags[fs[i + 1]].txn])]
          = [i \in 1 .. Len(fs) - 1 |-> Merged(txn, fs)[i + 1]]
    BY <2>7, <2>8, Zenon
  <2>10. [i \in DOMAIN fs |-> <<IF i = 1 THEN txn ELSE Len(heap) + i - 1, frags[fs[i]].next>>]
           = [i \in DOMAIN fs |-> <<Refs(txn, fs)[i], frags[fs[i]].next>>]
    BY <2>7, Zenon
  <2>11. heap' = [heap EXCEPT ![txn] = Merged(txn, fs)[1]] \o [i \in 1 .. Len(fs) - 1 |-> Merged(txn, fs)[i + 1]]
    BY <2>1, <2>7, <2>8, <2>9, Zenon
  <2>12. work' = [i \in DOMAIN fs |-> <<Refs(txn, fs)[i], frags[fs[i]].next>>] \o Tail(work)
    BY <2>1, <2>10, Zenon
  <2>13. ChainStep(txn, next, fs)
    BY <1>1, <1>3, <2>1, <2>2, <2>5, <2>11, <2>12, Zenon DEF ChainStep
  <2> QED
    BY <2>3, <2>13
<1> QED
  BY <1>2, <1>3

(* joinFragments keeps the links closed, in both cases.                        *)
LEMMA JoinFragmentsLinks == ASSUME LinkInv, JoinFragments PROVE LinkInv' /\ Len(heap') >= Len(heap)
BY JoinCases, ChainEnds, ChainContinues

-----------------------------------------------------------------------------
(* appendTxn for the joined transactions, one after the other: a state of that *)
(* loop, what it does next, and its states.                                    *)
AppendOne(st, ref) ==
  LET id == st.heap[ref].txnId
  IN  IF id \in DOMAIN st.txns
      THEN [st EXCEPT !.heap[st.txns[id]] = Join(@, st.heap[ref])]
      ELSE [st EXCEPT !.txns = Put(@, id, ref)]

Appends(f, N) ==
  f = [n \in 0 .. N |-> IF n = 0 THEN [heap |-> heap, txns |-> txns] ELSE AppendOne(f[n - 1], joined[n])]

(* The loop has states.                                                        *)
LEMMA AppendsExist ==
  ASSUME NEW N \in Nat
  PROVE  \E f : Appends(f, N)
<1> DEFINE B == {n \in Nat : ~ \E f : Appends(f, n)}
           first == [heap |-> heap, txns |-> txns]
<1> SUFFICES ASSUME B # {} PROVE FALSE
  OBVIOUS
<1>1. PICK n \in B : \A y \in B : n <= y
  <2>1. B \subseteq Nat
    OBVIOUS
  <2> HIDE DEF B
  <2> QED
    BY <2>1, LeastOf
<1>2. CASE n = 0
  <2> DEFINE f == [m \in 0 .. 0 |-> first]
  <2>1. \A m \in 0 .. 0 : m = 0
    OBVIOUS
  <2>2. f = [m \in 0 .. 0 |-> IF m = 0 THEN first ELSE AppendOne(f[m - 1], joined[m])]
    BY <2>1, Zenon
  <2>3. Appends(f, 0)
    BY <2>2, Zenon DEF Appends
  <2> QED
    BY <1>2, <2>3
<1>3. CASE n > 0
  <2>1. n - 1 \in Nat /\ n - 1 \notin B
    BY <1>1, <1>3
  <2>2. PICK f : Appends(f, n - 1)
    BY <2>1
  <2> DEFINE g == [m \in 0 .. n |-> IF m < n THEN f[m] ELSE AppendOne(f[n - 1], joined[n])]
  <2>f. \A m \in 0 .. n - 1 : f[m] = IF m = 0 THEN first ELSE AppendOne(f[m - 1], joined[m])
    BY <2>2 DEF Appends
  <2> HIDE DEF first
  <2>3. \A m \in 0 .. n : g[m] = IF m = 0 THEN first ELSE AppendOne(g[m - 1], joined[m])
    <3> TAKE m \in 0 .. n
    <3>1. CASE m = n
      <4>1. n - 1 \in 0 .. n /\ n - 1 < n /\ ~ (n < n) /\ n \in 0 .. n
        BY <2>1, <1>3
      <4>2. g[n - 1] = f[n - 1] /\ g[n] = AppendOne(f[n - 1], joined[n])
        BY <4>1
      <4> QED
        BY <1>3, <3>1, <4>2
    <3>2. CASE m # n /\ m # 0
      <4>1. m \in 0 .. n - 1 /\ m < n /\ m - 1 \in 0 .. n /\ m - 1 < n
        BY <3>2, <2>1
      <4>2. f[m] = AppendOne(f[m - 1], joined[m])
        BY <2>f, <3>2, <4>1
      <4> QED
        BY <3>2, <4>1, <4>2
    <3>3. CASE m = 0 /\ m # n
      <4>1. 0 \in 0 .. n - 1 /\ 0 < n
        BY <3>3, <2>1, <1>3
      <4>2. f[0] = first
        BY <2>f, <4>1
      <4> QED
        BY <3>3, <4>1, <4>2
    <3> QED
      BY <3>1, <3>2, <3>3
  <2>4. Appends(g, n)
    BY <2>3, Zenon DEF Appends, first
  <2> HIDE DEF g
  <2> QED
    BY <2>4
<1> QED
  BY <1>2, <1>3

(* What every state of the loop satisfies.                                     *)
LoopOK(st) ==
  /\ st = [heap |-> st.heap, txns |-> st.txns]
  /\ st.heap \in Seq(Txn) /\ Len(st.heap) = Len(heap)
  /\ \A r \in 1 .. Len(heap) : st.heap[r].txnId = heap[r].txnId
  /\ \A i \in DOMAIN st.txns : /\ i \in 1 .. nextTxnId /\ st.txns[i] \in 1 .. Len(heap)
                               /\ Closed(ToSet(st.heap[st.txns[i]].counters))
  /\ \A k \in 1 .. Len(joined) : Closed(ToSet(st.heap[joined[k]].counters))

(* Closed sets of counters may be joined.                                      *)
LEMMA ClosedUnion == ASSUME NEW C, NEW D, Closed(C), Closed(D) PROVE Closed(C \cup D)
BY DEF Closed, Has

(* One appended transaction keeps that.                                        *)
LEMMA AppendOneOK ==
  ASSUME TxnTypes, NEW st, LoopOK(st), NEW k \in 1 .. Len(joined)
  PROVE  LoopOK(AppendOne(st, joined[k]))
<1> DEFINE h == st.heap
           d == st.txns
           ref == joined[k]
           id == h[ref].txnId
           new == AppendOne(st, ref)
<1>1. /\ h \in Seq(Txn) /\ Len(h) = Len(heap) /\ Len(heap) \in Nat
      /\ \A r \in 1 .. Len(heap) : h[r].txnId = heap[r].txnId /\ h[r] \in Txn
      /\ \A i \in DOMAIN d : i \in 1 .. nextTxnId /\ d[i] \in 1 .. Len(heap) /\ Closed(ToSet(h[d[i]].counters))
      /\ \A q \in 1 .. Len(joined) : Closed(ToSet(h[joined[q]].counters))
  <2>1. h \in Seq(Txn) /\ Len(h) = Len(heap)
    BY DEF LoopOK
  <2>2. Len(heap) \in Nat /\ \A r \in 1 .. Len(heap) : h[r] \in Txn
    BY <2>1
  <2> QED
    BY <2>1, <2>2 DEF LoopOK
<1>2. ref \in 1 .. Len(heap) /\ id \in 1 .. nextTxnId
  BY <1>1 DEF TxnTypes
<1>3. st = [heap |-> h, txns |-> d]
  BY DEF LoopOK
<1>4. CASE id \in DOMAIN d
  <2> DEFINE t == d[id]
             y == Join(h[t], h[ref])
             g == [h EXCEPT ![t] = y]
  <2>1. t \in 1 .. Len(heap)
    BY <1>1, <1>4
  <2>2. y \in Txn /\ y.txnId = h[t].txnId /\ ToSet(y.counters) = ToSet(h[t].counters) \cup ToSet(h[ref].counters)
    BY <1>1, <1>2, <2>1, JoinSet
  <2>3. Closed(ToSet(y.counters))
    <3>1. Closed(ToSet(h[t].counters)) /\ Closed(ToSet(h[ref].counters))
      BY <1>1, <1>4
    <3>2. Closed(ToSet(h[t].counters) \cup ToSet(h[ref].counters))
      BY <3>1, ClosedUnion
    <3> QED
      BY <2>2, <3>2
  <2>4. new = [st EXCEPT !.heap = g]
    BY <1>4 DEF AppendOne
  <2> HIDE DEF h, d, g, new
  <2>5. new = [heap |-> g, txns |-> d] /\ new.heap = g /\ new.txns = d
    BY <1>3, <2>4
  <2> HIDE DEF t, y
  <2>6. g \in [1 .. Len(heap) -> Txn] /\ \A r \in 1 .. Len(heap) : g[r] = IF r = t THEN y ELSE h[r]
    <3>1. h \in [1 .. Len(heap) -> Txn]
      BY <1>1
    <3> QED
      BY <2>1, <2>2, <3>1 DEF g
  <2>7. g \in Seq(Txn) /\ Len(g) = Len(heap)
    BY <1>1, <2>6, ListOf
  <2>8. \A r \in 1 .. Len(heap) : /\ g[r].txnId = heap[r].txnId
                                  /\ Closed(ToSet(h[r].counters)) => Closed(ToSet(g[r].counters))
    BY <1>1, <2>1, <2>2, <2>3, <2>6
  <2>9. \A i \in DOMAIN d : i \in 1 .. nextTxnId /\ d[i] \in 1 .. Len(heap) /\ Closed(ToSet(g[d[i]].counters))
    BY <1>1, <2>8
  <2>10. \A q \in 1 .. Len(joined) : Closed(ToSet(g[joined[q]].counters))
    BY <1>1, <2>8 DEF TxnTypes
  <2> QED
    BY <2>5, <2>7, <2>8, <2>9, <2>10 DEF LoopOK, new
<1>5. CASE id \notin DOMAIN d
  <2> DEFINE e == Put(d, id, ref)
  <2>1. new = [st EXCEPT !.txns = e]
    BY <1>5 DEF AppendOne
  <2> HIDE DEF h, d, new
  <2>2. DOMAIN e = DOMAIN d \cup {id} /\ \A i \in DOMAIN e : e[i] = IF i = id THEN ref ELSE d[i]
    BY DEF Put
  <2> HIDE DEF e
  <2>3. new = [heap |-> h, txns |-> e] /\ new.heap = h /\ new.txns = e
    BY <1>3, <2>1
  <2>4. \A i \in DOMAIN e : i \in 1 .. nextTxnId /\ e[i] \in 1 .. Len(heap) /\ Closed(ToSet(h[e[i]].counters))
    BY <1>1, <1>2, <2>2
  <2> QED
    BY <1>1, <2>3, <2>4 DEF LoopOK, new
<1> QED
  BY <1>4, <1>5

(* The states of the loop, one by one.                                         *)
LEMMA AppendsAt ==
  ASSUME NEW N \in Nat, NEW f, Appends(f, N)
  PROVE  f[0] = [heap |-> heap, txns |-> txns] /\ \A n \in 1 .. N : f[n] = AppendOne(f[n - 1], joined[n])
<1> DEFINE F(n) == IF n = 0 THEN [heap |-> heap, txns |-> txns] ELSE AppendOne(f[n - 1], joined[n])
<1>1. \A n \in 0 .. N : f[n] = F(n)
  <2>1. f = [n \in 0 .. N |-> F(n)]
    BY DEF Appends
  <2> HIDE DEF F
  <2> QED
    BY <2>1
<1>2. \A n \in 1 .. N : n \in 0 .. N /\ n # 0
  OBVIOUS
<1>3. 0 \in 0 .. N
  OBVIOUS
<1> QED
  BY <1>1, <1>2, <1>3, Zenon

(* So every state of the loop is such a state.                                 *)
LEMMA LoopStates ==
  ASSUME TxnTypes, NEW f, Appends(f, Len(joined)), LoopOK([heap |-> heap, txns |-> txns])
  PROVE  \A n \in 0 .. Len(joined) : LoopOK(f[n])
<1> DEFINE N == Len(joined)
           B == {n \in 0 .. N : ~ LoopOK(f[n])}
<1>0. N \in Nat
  BY DEF TxnTypes
<1>1. f[0] = [heap |-> heap, txns |-> txns] /\ \A n \in 1 .. N : f[n] = AppendOne(f[n - 1], joined[n])
  BY <1>0, AppendsAt
<1>2. ASSUME B # {} PROVE FALSE
  <2>1. B \subseteq Nat
    BY <1>0
  <2>2. PICK n \in B : \A y \in B : n <= y
    <3> HIDE DEF B
    <3> QED
      BY <1>2, <2>1, LeastOf
  <2>3. n # 0
    BY <1>1
  <2>4. n \in 1 .. N /\ n - 1 \in 0 .. N /\ n - 1 < n
    BY <1>0, <2>3
  <2>5. LoopOK(f[n - 1])
    <3>1. n - 1 \notin B
      BY <2>1, <2>2, <2>4
    <3> QED
      BY <2>4, <3>1
  <2>6. LoopOK(AppendOne(f[n - 1], joined[n]))
    BY <2>4, <2>5, AppendOneOK
  <2> QED
    BY <1>1, <2>4, <2>6
<1> QED
  BY <1>2

(* The loop that appendTxn runs for the transactions that were joined.         *)
LEMMA AppendJoinedIs ==
  ASSUME LinkInv, AppendJoined
  PROVE  /\ Len(joined) \in Nat
         /\ \E f : /\ Appends(f, Len(joined)) /\ \A n \in 0 .. Len(joined) : LoopOK(f[n])
                  /\ heap' = f[Len(joined)].heap /\ txns' = f[Len(joined)].txns
<1> DEFINE f == CHOOSE s : Appends(s, Len(joined))
           all == f[Len(joined)]
<1>0. /\ phase = "joining" /\ FragTypes /\ TxnTypes /\ JoinedClosed /\ LinksClosed
      /\ Len(joined) \in Nat
  <2>1. phase = "joining"
    BY Zenon DEF AppendJoined
  <2> QED
    BY <2>1 DEF LinkInv, TxnTypes
<1>1. Appends(f, Len(joined))
  BY <1>0, AppendsExist
<1>2. heap' = all.heap /\ txns' = all.txns
  BY Zenon DEF AppendJoined, Appends, AppendOne
<1> HIDE DEF f
<1>4. LoopOK([heap |-> heap, txns |-> txns])
  <2> DEFINE st == [heap |-> heap, txns |-> txns]
  <2>1. st.heap = heap /\ st.txns = txns /\ st = [heap |-> st.heap, txns |-> st.txns]
    OBVIOUS
  <2>2. heap \in Seq(Txn)
    BY <1>0 DEF FragTypes
  <2>3. \A i \in DOMAIN txns : i \in 1 .. nextTxnId /\ txns[i] \in 1 .. Len(heap) /\ Closed(ToSet(heap[txns[i]].counters))
    BY <1>0 DEF TxnTypes, LinksClosed, Closed, Has, CountersOf
  <2>4. \A k \in 1 .. Len(joined) : Closed(ToSet(heap[joined[k]].counters))
    BY <1>0 DEF JoinedClosed, CountersOf
  <2> HIDE DEF st
  <2>5. LoopOK(st)
    BY <2>1, <2>2, <2>3, <2>4 DEF LoopOK
  <2> QED
    BY <2>5 DEF st
<1>5. \A n \in 0 .. Len(joined) : LoopOK(f[n])
  BY <1>0, <1>1, <1>4, LoopStates
<1> QED
  BY <1>0, <1>1, <1>2, <1>5

(* The transactions that were joined are appended to the others.               *)
LEMMA AppendJoinedLinks == ASSUME LinkInv, AppendJoined PROVE LinkInv' /\ Len(heap') >= Len(heap)
<1>0. FragTypes /\ TxnTypes
  BY DEF LinkInv
<1>1. PICK f : (\A n \in 0 .. Len(joined) : LoopOK(f[n])) /\ heap' = f[Len(joined)].heap /\ txns' = f[Len(joined)].txns
  BY AppendJoinedIs
<1> DEFINE all == f[Len(joined)]
<1>2. heap' = all.heap /\ txns' = all.txns
  BY <1>1
<1>3. /\ phase' = "joined" /\ UNCHANGED <<nextTxnId, resumeFragment, work, joined>> /\ UNCHANGED fragVars
  BY DEF AppendJoined
<1>5. LoopOK(all)
  <2>1. Len(joined) \in 0 .. Len(joined)
    BY AppendJoinedIs
  <2> QED
    BY <1>1, <2>1
<1> HIDE DEF all
<1>6. frags' = frags /\ rootFragments' = rootFragments /\ resumeFrags' = resumeFrags /\ suspendFrag' = suspendFrag
  BY <1>3 DEF fragVars
<1>7. heap' \in Seq(Txn) /\ Len(heap') = Len(heap) /\ \A r \in 1 .. Len(heap) : heap'[r].txnId = heap[r].txnId
  BY <1>2, <1>5 DEF LoopOK
<1>8. FragTypes'
  BY <1>0, <1>3, <1>6, <1>7 DEF FragTypes
<1>9. \A i \in DOMAIN txns' : i \in 1 .. nextTxnId /\ txns'[i] \in 1 .. Len(heap) /\ Closed(ToSet(heap'[txns'[i]].counters))
  BY <1>2, <1>5 DEF LoopOK
<1>10. TxnTypes'
  <2>1. \A k \in 1 .. Len(joined) : joined[k] \in 1 .. Len(heap) /\ heap'[joined[k]].txnId \in 1 .. nextTxnId
    BY <1>0, <1>7 DEF TxnTypes
  <2>2. nextTxnId \in Nat /\ joined \in Seq(Nat) /\ work \in Seq(Nat \X (Links \cup {None}))
    BY <1>0 DEF TxnTypes
  <2> QED
    BY <1>3, <1>7, <1>9, <2>1, <2>2 DEF TxnTypes
<1>11. LinksClosed'
  BY <1>9 DEF LinksClosed, Closed, Has, CountersOf
<1>12. Len(heap') >= Len(heap)
  BY <1>0, <1>7 DEF FragTypes
<1> QED
  BY <1>3, <1>8, <1>10, <1>11, <1>12 DEF LinkInv, Before

(* Every step keeps the links closed.                                          *)
LEMMA NextLinks == IInv /\ LinkInv /\ [Next]_vars => LinkInv'
<1> SUFFICES ASSUME IInv, LinkInv, [Next]_vars PROVE LinkInv'
  OBVIOUS
<1>1. ASSUME NEW t \in Threads, NEW s \in Sites, Record(t, s) PROVE LinkInv'
  BY <1>1, SameLinks DEF Record, sortVars, joinVars
<1>2. CASE BeginCollection
  BY <1>2, SameLinks DEF BeginCollection, Before, sortVars, joinVars
<1>3. ASSUME NEW t \in Threads, BeginLoad(t) PROVE LinkInv'
  BY <1>3, SameLinks DEF BeginLoad, sortVars, joinVars
<1>4. CASE LoadSample
  BY <1>4, LoadSampleLinks
<1>5. CASE EndLoad
  BY <1>5, EndLoadLinks
<1>6. CASE EndCollection
  BY <1>6, EndCollectionLinks
<1>7. CASE JoinFragments
  BY <1>7, JoinFragmentsLinks
<1>8. CASE AppendJoined
  BY <1>8, AppendJoinedLinks
<1>9. CASE GetData
  BY <1>9, SameLinks DEF GetData, sortVars
<1>10. CASE UNCHANGED vars
  BY <1>10, SameLinks DEF vars, sortVars, joinVars
<1> QED
  BY <1>1, <1>2, <1>3, <1>4, <1>5, <1>6, <1>7, <1>8, <1>9, <1>10 DEF Next

(* Threads are never mixed up by the joins: whatever was lost and in whatever  *)
(* order the files were loaded, a transaction with a resumption has the        *)
(* suspension it continues (fragments.py Key, joinFragments).                  *)
THEOREM LinksClosedHolds == Spec => []LinksClosed
<1>1. LinkInv => LinksClosed
  BY DEF LinkInv
<1> QED
  BY <1>1, InitInv, NextInv, InitLinks, NextLinks, PTL DEF Spec

-----------------------------------------------------------------------------
(* Types. What the links do not need to know: where loading stands, and what   *)
(* the loader sets aside. A sample has a time stamp of its own, so the samples *)
(* counted as orphaned are at most those seen, which are at most MaxSamples.   *)
Seen ==
  {x \in 1 .. clock :
     \E t \in Threads : \E i \in 1 .. Len(files[t]) :
       files[t][i].tsc = x /\ (t \notin pending \/ (t = thread /\ i < pos))}

TscsDiffer ==
  /\ \A t \in Threads : \A i \in 1 .. Len(files[t]) : files[t][i].tsc \in 1 .. clock
  /\ \A t, u \in Threads : \A i \in 1 .. Len(files[t]), j \in 1 .. Len(files[u]) :
       files[t][i].tsc = files[u][j].tsc => t = u /\ i = j

Progress ==
  /\ open \subseteq Threads /\ pending \subseteq Threads
  /\ thread # None => thread \in pending
  /\ pos \in 1 .. MaxSamples + 1
  /\ orphaned \in Nat /\ orphaned <= Cardinality(Seen)
  /\ phase = "recording" => pending = Threads /\ thread = None /\ orphaned = 0

SetAside ==
  /\ compromisedTxns \in Seq(Nat) /\ \A k \in 1 .. Len(compromisedTxns) : compromisedTxns[k] \in 1 .. Len(heap)
  /\ nonTxnCounters \in Seq(Sample)
  /\ suspendingTxn \in BOOLEAN

TypeInv == TscsDiffer /\ Progress /\ SetAside

(* The samples that were seen can be counted.                                  *)
LEMMA SeenFinite ==
  ASSUME clock \in Nat
  PROVE  IsFiniteSet(Seen) /\ Cardinality(Seen) \in Nat /\ Cardinality(Seen) <= clock
<1>1. IsFiniteSet(1 .. clock) /\ Cardinality(1 .. clock) = clock
  BY FS_Interval
<1>2. Seen \in SUBSET (1 .. clock)
  BY DEF Seen
<1>3. IsFiniteSet(Seen) /\ Cardinality(Seen) <= Cardinality(1 .. clock)
  BY <1>1, <1>2, FS_Subset
<1> QED
  BY <1>1, <1>3, FS_CardinalityType

(* Steps that forget no sample and count none.                                 *)
LEMMA NothingForgotten ==
  ASSUME clock \in Nat, clock' \in Nat, orphaned \in Nat, orphaned <= Cardinality(Seen), orphaned' = orphaned,
         Seen \subseteq Seen'
  PROVE  orphaned' \in Nat /\ orphaned' <= Cardinality(Seen)'
<1>1. IsFiniteSet(Seen') /\ Cardinality(Seen') \in Nat
  <2>1. IsFiniteSet(1 .. clock')
    BY FS_Interval
  <2>2. Seen' \in SUBSET (1 .. clock')
    BY DEF Seen
  <2> QED
    BY <2>1, <2>2, FS_Subset, FS_CardinalityType
<1>2. Seen \in SUBSET Seen'
  OBVIOUS
<1>3. Cardinality(Seen) <= Cardinality(Seen') /\ Cardinality(Seen) \in Nat
  BY <1>1, <1>2, FS_Subset, SeenFinite
<1> QED
  BY <1>1, <1>3

(* It holds before anything is recorded.                                       *)
LEMMA InitTypes == Init => TypeInv
<1> SUFFICES ASSUME Init PROVE TypeInv
  OBVIOUS
<1>1. TscsDiffer
  BY DEF Init, TscsDiffer
<1>2. clock \in Nat /\ orphaned = 0
  BY DEF Init
<1>3. orphaned <= Cardinality(Seen)
  BY <1>2, SeenFinite
<1>4. Progress
  BY <1>2, <1>3, BoundsAssumption DEF Init, Progress
<1>5. SetAside
  <2>1. compromisedTxns = <<>> /\ nonTxnCounters = <<>> /\ suspendingTxn = FALSE
    BY DEF Init
  <2>2. <<>> \in Seq(Nat) /\ <<>> \in Seq(Sample) /\ Len(<<>>) = 0
    OBVIOUS
  <2>3. \A k \in 1 .. 0 : FALSE
    OBVIOUS
  <2> QED
    BY <2>1, <2>2, <2>3 DEF SetAside
<1> QED
  BY <1>1, <1>4, <1>5 DEF TypeInv

(* A probe hit has a later time stamp than every sample before it.             *)
LEMMA RecordTypes ==
  ASSUME IInv, TypeInv, NEW t \in Threads, NEW s \in Sites, Record(t, s)
  PROVE  TypeInv'
<1>1. PICK data : \/ files' = [files EXCEPT ![t] = Append(@, Counter(t, s, data, clock + 1))]
                  \/ files' = files
  BY DEF Record
<1>2. clock \in Nat /\ clock' = clock + 1 /\ files \in [Threads -> Seq(Sample)] /\ TscsDiffer
  BY DEF Record, IInv, FilesInv, TypeInv
<1>3. TscsDiffer'
  <2>1. CASE files' = files
    <3>1. \A x \in 1 .. clock : x \in 1 .. clock'
      BY <1>2
    <3> QED
      BY <1>2, <2>1, <3>1 DEF TscsDiffer
  <2>2. CASE files' = [files EXCEPT ![t] = Append(@, Counter(t, s, data, clock + 1))]
    <3> DEFINE c == Counter(t, s, data, clock + 1)
               n == Len(files[t]) + 1
    <3>1. c.tsc = clock'
      BY <1>2 DEF Counter
    <3> HIDE DEF c
    <3>2. files[t] \in Seq(Sample) /\ \A u \in Threads : files'[u] = IF u = t THEN Append(files[t], c) ELSE files[u]
      BY <1>2, <2>2 DEF c
    <3>3. ASSUME NEW u \in Threads, NEW i \in 1 .. Len(files'[u])
          PROVE  \/ i \in 1 .. Len(files[u]) /\ files'[u][i].tsc = files[u][i].tsc
                 \/ u = t /\ i = n /\ files'[u][i].tsc = clock'
      <4>1. CASE u = t
        <5>1. files'[u] = Append(files[t], c)
          BY <3>2, <4>1
        <5>2. Len(Append(files[t], c)) = n /\ Len(files[t]) \in Nat /\ Append(files[t], c)[n] = c
              /\ \A j \in 1 .. Len(files[t]) : Append(files[t], c)[j] = files[t][j]
          BY <3>2
        <5>3. i \in 1 .. Len(files[t]) \/ i = n
          BY <5>1, <5>2
        <5> QED
          BY <3>1, <4>1, <5>1, <5>2, <5>3
      <4>2. CASE u # t
        BY <3>2, <4>2
      <4> QED
        BY <4>1, <4>2
    <3>4. \A x \in 1 .. clock : x \in 1 .. clock' /\ x # clock'
      BY <1>2
    <3>5. clock' \in 1 .. clock'
      BY <1>2
    <3> HIDE DEF n
    <3>6. \A u \in Threads : \A i \in 1 .. Len(files[u]) : files[u][i].tsc \in 1 .. clock
      BY <1>2 DEF TscsDiffer
    <3>7. \A u \in Threads : \A i \in 1 .. Len(files'[u]) : files'[u][i].tsc \in 1 .. clock'
      <4> TAKE u \in Threads
      <4> TAKE i \in 1 .. Len(files'[u])
      <4> QED
        BY <3>3, <3>4, <3>5, <3>6
    <3>8. ASSUME NEW u \in Threads, NEW v \in Threads, NEW i \in 1 .. Len(files'[u]), NEW j \in 1 .. Len(files'[v]),
                 files'[u][i].tsc = files'[v][j].tsc
          PROVE  u = v /\ i = j
      <4>1. CASE i \in 1 .. Len(files[u]) /\ files'[u][i].tsc = files[u][i].tsc
        <5>1. files'[v][j].tsc # clock'
          BY <3>4, <3>6, <3>8, <4>1
        <5>2. j \in 1 .. Len(files[v]) /\ files'[v][j].tsc = files[v][j].tsc
          BY <3>3, <5>1
        <5>3. files[u][i].tsc = files[v][j].tsc
          BY <3>8, <4>1, <5>2
        <5>4. i \in 1 .. Len(files[u]) /\ j \in 1 .. Len(files[v])
          BY <4>1, <5>2
        <5>5. \A i1 \in 1 .. Len(files[u]), j1 \in 1 .. Len(files[v]) :
                files[u][i1].tsc = files[v][j1].tsc => u = v /\ i1 = j1
          BY <1>2 DEF TscsDiffer
        <5> QED
          BY <5>3, <5>4, <5>5, Zenon
      <4>2. CASE u = t /\ i = n /\ files'[u][i].tsc = clock'
        <5>1. v = t /\ j = n
          BY <3>3, <3>4, <3>6, <3>8, <4>2
        <5> QED
          BY <4>2, <5>1
      <4> QED
        BY <3>3, <4>1, <4>2
    <3> QED
      BY <3>7, <3>8 DEF TscsDiffer
  <2> QED
    BY <1>1, <2>1, <2>2
<1>4. Progress'
  <2>1. /\ phase = "recording" /\ phase' = phase /\ orphaned = 0 /\ UNCHANGED <<pending, thread, pos, orphaned>>
        /\ Progress /\ pending = Threads /\ thread = None
    BY DEF TypeInv, Progress, Record, fileVars
  <2>2. open' \subseteq Threads
    <3>1. open' \subseteq open \cup {t}
      BY DEF Record
    <3> QED
      BY <2>1, <3>1 DEF Progress
  <2>3. IsFiniteSet(Seen') /\ Cardinality(Seen') \in Nat
    <3>1. IsFiniteSet(1 .. clock')
      BY <1>2, FS_Interval
    <3>2. Seen' \in SUBSET (1 .. clock')
      BY DEF Seen
    <3> QED
      BY <3>1, <3>2, FS_Subset, FS_CardinalityType
  <2> QED
    BY <2>1, <2>2, <2>3 DEF Progress
<1>5. SetAside'
  BY DEF TypeInv, SetAside, Record, sortVars
<1> QED
  BY <1>3, <1>4, <1>5 DEF TypeInv

(* What loadCounter sets aside.                                                *)
LEMMA LoadCounterTypes ==
  ASSUME SetAside, heap \in Seq(Txn), heap' \in Seq(Txn), ephemeralCounters \in Seq(Sample),
         NEW c, LoadCounter(c)
  PROVE  SetAside'
<1>0. /\ Len(heap) \in Nat /\ DOMAIN heap = 1 .. Len(heap) /\ Len(heap') \in Nat /\ DOMAIN heap' = 1 .. Len(heap')
      /\ compromisedTxns \in Seq(Nat) /\ nonTxnCounters \in Seq(Sample)
  BY DEF SetAside
<1>1. Len(heap') >= Len(heap) /\ suspendingTxn' \in BOOLEAN
  <2>1. CASE NextTxn(c) \/ FirstTxn(c)
    <3>1. heap' = Append(heap, Transaction(c)) /\ suspendingTxn' = FALSE
      BY <2>1 DEF NextTxn, FirstTxn, BuildTxn
    <3>2. Len(Append(heap, Transaction(c))) = Len(heap) + 1
      BY <1>0
    <3>3. Len(heap') = Len(heap) + 1
      BY <3>1, <3>2, Zenon
    <3>4. Len(heap) + 1 >= Len(heap)
      BY <1>0
    <3> QED
      BY <3>1, <3>3, <3>4, Zenon
  <2>2. CASE AddInner(c) \/ CloseTxn(c)
    <3>1. DOMAIN heap' = DOMAIN heap
      BY <2>2 DEF AddInner, CloseTxn
    <3>2. Len(heap') = Len(heap)
      <4>1. 1 .. Len(heap') = 1 .. Len(heap)
        BY <1>0, <3>1, Zenon
      <4>2. \A a, b \in Nat : 1 .. a = 1 .. b => a <= b
        <5> SUFFICES ASSUME NEW a \in Nat, NEW b \in Nat, 1 .. a = 1 .. b, a > b PROVE FALSE
          OBVIOUS
        <5>1. a \in 1 .. a /\ a \notin 1 .. b
          OBVIOUS
        <5> QED
          BY <5>1
      <4>3. Len(heap') <= Len(heap) /\ Len(heap) <= Len(heap')
        BY <1>0, <4>1, <4>2, Zenon
      <4>4. \A a, b \in Nat : a <= b /\ b <= a => a = b
        OBVIOUS
      <4> QED
        BY <1>0, <4>3, <4>4, Zenon
    <3>3. suspendingTxn' \in BOOLEAN
      BY <2>2 DEF AddInner, CloseTxn, SetAside
    <3> QED
      BY <1>0, <3>2, <3>3
  <2>3. CASE AddEphemeral(c)
    BY <1>0, <2>3 DEF AddEphemeral, SetAside
  <2>4. CASE Compromise(c)
    <3> DEFINE x == AddCounters(Transaction(c), ephemeralCounters, FALSE)
    <3>1. heap' = Append(heap, x) /\ suspendingTxn' = FALSE
      BY <2>4 DEF Compromise
    <3> HIDE DEF x
    <3>2. Len(Append(heap, x)) = Len(heap) + 1
      BY <1>0
    <3>3. Len(heap') = Len(heap) + 1
      BY <3>1, <3>2, Zenon
    <3>4. Len(heap) + 1 >= Len(heap)
      BY <1>0
    <3> QED
      BY <3>1, <3>3, <3>4, Zenon
  <2> QED
    BY <2>1, <2>2, <2>3, <2>4 DEF LoadCounter
<1>2. nonTxnCounters' \in Seq(Sample)
  <2>1. nonTxnCounters' = nonTxnCounters \o ephemeralCounters \/ nonTxnCounters' = nonTxnCounters
    BY DEF LoadCounter, NextTxn, FirstTxn, FlushEphemeral, AddInner, CloseTxn, AddEphemeral, Compromise, sortVars
  <2>2. nonTxnCounters \o ephemeralCounters \in Seq(Sample)
    BY <1>0
  <2> QED
    BY <1>0, <2>1, <2>2
<1>3. compromisedTxns' \in Seq(Nat) /\ \A k \in 1 .. Len(compromisedTxns') : compromisedTxns'[k] \in 1 .. Len(heap')
  <2>1. CASE Compromise(c)
    <3> DEFINE n == Len(heap) + 1
    <3>1. compromisedTxns' = Append(compromisedTxns, n) /\ Len(heap') = n
      <4> DEFINE x == AddCounters(Transaction(c), ephemeralCounters, FALSE)
      <4>1. heap' = Append(heap, x) /\ compromisedTxns' = Append(compromisedTxns, n)
        BY <2>1 DEF Compromise
      <4> HIDE DEF x
      <4>2. Len(Append(heap, x)) = n
        BY <1>0
      <4> QED
        BY <4>1, <4>2
    <3>2. n \in Nat /\ n \in 1 .. n /\ \A r \in 1 .. Len(heap) : r \in 1 .. n
      BY <1>0
    <3>3. \A k \in 1 .. Len(compromisedTxns) : compromisedTxns[k] \in 1 .. n
      BY <3>2 DEF SetAside
    <3> HIDE DEF n
    <3>4. /\ Append(compromisedTxns, n) \in Seq(Nat)
          /\ \A k \in 1 .. Len(Append(compromisedTxns, n)) : Append(compromisedTxns, n)[k] \in 1 .. n
      BY <1>0, <3>2, <3>3
    <3> QED
      BY <3>1, <3>4
  <2>2. CASE ~ Compromise(c)
    <3>1. compromisedTxns' = compromisedTxns
      BY <2>2 DEF LoadCounter, NextTxn, FirstTxn, FlushEphemeral, AddInner, CloseTxn, AddEphemeral, sortVars
    <3>2. \A r \in 1 .. Len(heap) : r \in 1 .. Len(heap')
      BY <1>0, <1>1
    <3> QED
      BY <3>1, <3>2 DEF SetAside
  <2> QED
    BY <2>1, <2>2
<1> QED
  BY <1>1, <1>2, <1>3 DEF SetAside

(* A sample is seen once.                                                      *)
LEMMA LoadSampleTypes == ASSUME IInv, LinkInv, TypeInv, LoadSample PROVE TypeInv'
<1> DEFINE c == files[thread][pos]
           x == c.tsc
<1>0. /\ phase = "loading" /\ thread \in Threads /\ pos \in Nat /\ pos <= Len(files[thread]) /\ pos' = pos + 1
      /\ UNCHANGED <<phase, clock, files, open, pending, thread>>
      /\ orphaned' \in {orphaned, orphaned + 1}
  BY DEF LoadSample, recordVars, IInv, LoadInv
<1>1. /\ clock \in Nat /\ clock <= MaxSamples /\ files \in [Threads -> Seq(Sample)] /\ Len(files[thread]) <= clock
      /\ Len(files[thread]) \in Nat /\ pos \in 1 .. Len(files[thread]) /\ TscsDiffer /\ Progress /\ SetAside
      /\ thread \in pending
  <2>1. clock \in Nat /\ clock <= MaxSamples /\ files \in [Threads -> Seq(Sample)] /\ Len(files[thread]) <= clock
    BY <1>0, BoundsAssumption DEF IInv, FilesInv
  <2>2. TscsDiffer /\ Progress /\ SetAside /\ pos \in Nat \ {0} /\ thread \in pending
    BY <1>0, NoneAssumption DEF TypeInv, Progress, IInv, LoadInv
  <2>3. files[thread] \in Seq(Sample)
    BY <1>0, <2>1
  <2> QED
    BY <1>0, <2>1, <2>2, <2>3
<1>2. TscsDiffer'
  BY <1>0, <1>1 DEF TscsDiffer
<1>3. x \notin Seen
  <2> SUFFICES ASSUME NEW t \in Threads, NEW i \in 1 .. Len(files[t]), files[t][i].tsc = x,
                      t \notin pending \/ (t = thread /\ i < pos)
      PROVE  FALSE
    BY DEF Seen
  <2>1. t = thread /\ i = pos
    BY <1>0, <1>1, Zenon DEF TscsDiffer
  <2> QED
    BY <1>1, <2>1
<1>4. Seen \cup {x} \subseteq Seen'
  <2>1. \A i \in Nat : i < pos => i < pos'
    BY <1>0
  <2>2. Seen \subseteq Seen'
    BY <1>0, <2>1 DEF Seen
  <2>3. x \in 1 .. clock' /\ pos < pos'
    BY <1>0, <1>1 DEF TscsDiffer
  <2>4. x \in Seen'
    BY <1>0, <1>1, <2>3 DEF Seen
  <2> QED
    BY <2>2, <2>4
<1> HIDE DEF x, c
<1>5. orphaned' \in Nat /\ orphaned' <= Cardinality(Seen')
  <2>1. IsFiniteSet(Seen') /\ Cardinality(Seen') \in Nat
    <3>1. IsFiniteSet(1 .. clock')
      BY <1>0, <1>1, FS_Interval
    <3>2. Seen' \in SUBSET (1 .. clock')
      BY DEF Seen
    <3> QED
      BY <3>1, <3>2, FS_Subset, FS_CardinalityType
  <2>2. Seen \cup {x} \in SUBSET Seen'
    BY <1>4
  <2>3. Cardinality(Seen \cup {x}) <= Cardinality(Seen')
    BY <2>1, <2>2, FS_Subset
  <2>4. Cardinality(Seen \cup {x}) = Cardinality(Seen) + 1 /\ Cardinality(Seen) \in Nat
    BY <1>1, <1>3, SeenFinite, FS_AddElement
  <2>5. orphaned \in Nat /\ orphaned <= Cardinality(Seen)
    BY <1>1 DEF Progress
  <2> QED
    BY <1>0, <2>1, <2>3, <2>4, <2>5
<1>6. pos' \in 1 .. MaxSamples + 1
  BY <1>0, <1>1, BoundsAssumption
<1>7. Progress'
  BY <1>0, <1>1, <1>5, <1>6 DEF Progress
<1>8. SetAside'
  <2>1. CASE LoadCounter(c)
    <3>1. IInv'
      BY LoadSampleInv
    <3>2. heap \in Seq(Txn) /\ heap' \in Seq(Txn) /\ ephemeralCounters \in Seq(Sample)
      BY <1>0, <3>1 DEF IInv, LoadInv
    <3> QED
      BY <1>1, <2>1, <3>2, LoadCounterTypes
  <2>2. CASE UNCHANGED <<heap, compromisedTxns, nonTxnCounters, suspendingTxn>>
    BY <1>1, <2>2 DEF SetAside
  <2>3. LoadCounter(c) \/ UNCHANGED <<heap, compromisedTxns, nonTxnCounters, suspendingTxn>>
    BY DEF LoadSample, sortVars, c
  <2> QED
    BY <2>1, <2>2, <2>3
<1> QED
  BY <1>2, <1>7, <1>8 DEF TypeInv

(* Steps of the load that read no sample.                                      *)
LEMMA SameTypes ==
  ASSUME IInv, TypeInv, UNCHANGED <<clock, files, open, pending, thread, pos, orphaned>>,
         UNCHANGED <<compromisedTxns, nonTxnCounters, suspendingTxn>>,
         Len(heap) \in Nat, Len(heap') \in Nat, Len(heap') >= Len(heap), phase' # "recording" \/ phase' = phase
  PROVE  TypeInv'
<1>1. TscsDiffer'
  BY DEF TypeInv, TscsDiffer
<1>2. Seen' = Seen
  BY DEF Seen
<1>3. Progress'
  BY <1>2 DEF TypeInv, Progress
<1>4. \A r \in 1 .. Len(heap) : r \in 1 .. Len(heap')
  OBVIOUS
<1>5. SetAside'
  BY <1>4 DEF TypeInv, SetAside
<1> QED
  BY <1>1, <1>3, <1>5 DEF TypeInv

(* beginLoad: the file is still to be seen.                                    *)
LEMMA BeginLoadTypes == ASSUME IInv, TypeInv, NEW t \in Threads, BeginLoad(t) PROVE TypeInv'
<1>1. /\ phase = "loading" /\ phase' = phase /\ thread = None /\ t \in pending /\ thread' = t /\ pos' = 1
      /\ UNCHANGED <<clock, files, open, pending, orphaned, heap, compromisedTxns, nonTxnCounters, suspendingTxn>>
  BY DEF BeginLoad, recordVars, sortVars
<1>2. TscsDiffer'
  BY <1>1 DEF TypeInv, TscsDiffer
<1>3. Seen \subseteq Seen'
  <2>1. \A u \in Threads : u # thread
    BY <1>1, NoneAssumption
  <2> QED
    BY <1>1, <2>1 DEF Seen
<1>4. clock \in Nat /\ clock' \in Nat
  BY <1>1 DEF IInv, FilesInv
<1>5. orphaned' \in Nat /\ orphaned' <= Cardinality(Seen)'
  BY <1>1, <1>3, <1>4, NothingForgotten DEF TypeInv, Progress
<1>6. Progress'
  <2>1. pos' \in 1 .. MaxSamples + 1
    BY <1>1, BoundsAssumption
  <2> QED
    BY <1>1, <1>5, <2>1 DEF TypeInv, Progress
<1>7. SetAside'
  BY <1>1 DEF TypeInv, SetAside
<1> QED
  BY <1>2, <1>6, <1>7 DEF TypeInv

(* endLoad: the whole file was seen.                                           *)
LEMMA EndLoadTypes == ASSUME IInv, TypeInv, EndLoad PROVE TypeInv'
<1>1. /\ phase = "loading" /\ phase' = phase /\ thread # None /\ thread' = None /\ pos > Len(files[thread])
      /\ pending' = pending \ {thread}
      /\ UNCHANGED <<clock, files, open, pos, orphaned, heap, nonTxnCounters, suspendingTxn>>
      /\ \/ compromisedTxns' = compromisedTxns
         \/ currentTxn # None /\ compromisedTxns' = Append(compromisedTxns, currentTxn)
  BY DEF EndLoad, recordVars
<1>2. TscsDiffer'
  BY <1>1 DEF TypeInv, TscsDiffer
<1>3. Seen \subseteq Seen'
  BY <1>1 DEF Seen
<1>4. clock \in Nat /\ clock' \in Nat
  BY <1>1 DEF IInv, FilesInv
<1>5. orphaned' \in Nat /\ orphaned' <= Cardinality(Seen)'
  BY <1>1, <1>3, <1>4, NothingForgotten DEF TypeInv, Progress
<1>6. Progress'
  BY <1>1, <1>5 DEF TypeInv, Progress
<1>7. SetAside'
  <2>1. CASE compromisedTxns' = compromisedTxns
    BY <1>1, <2>1 DEF TypeInv, SetAside
  <2>2. CASE currentTxn # None /\ compromisedTxns' = Append(compromisedTxns, currentTxn)
    <3>1. currentTxn \in 1 .. Len(heap) /\ currentTxn \in Nat /\ compromisedTxns \in Seq(Nat)
      <4>1. currentTxn \in DOMAIN heap /\ heap \in Seq(Txn)
        BY <1>1, <2>2 DEF IInv, CurrentInv, LoadInv
      <4> QED
        BY <4>1 DEF TypeInv, SetAside
    <3>2. \A k \in 1 .. Len(compromisedTxns) : compromisedTxns[k] \in 1 .. Len(heap)
      BY DEF TypeInv, SetAside
    <3>3. /\ Append(compromisedTxns, currentTxn) \in Seq(Nat)
          /\ \A k \in 1 .. Len(Append(compromisedTxns, currentTxn)) : Append(compromisedTxns, currentTxn)[k] \in 1 .. Len(heap)
      BY <3>1, <3>2
    <3> QED
      BY <1>1, <2>2, <3>3 DEF TypeInv, SetAside
  <2> QED
    BY <1>1, <2>1, <2>2
<1> QED
  BY <1>2, <1>6, <1>7 DEF TypeInv

(* Every step keeps the types.                                                 *)
LEMMA NextTypes == IInv /\ LinkInv /\ TypeInv /\ [Next]_vars => TypeInv'
<1> SUFFICES ASSUME IInv, LinkInv, TypeInv, [Next]_vars PROVE TypeInv'
  OBVIOUS
<1>0. Len(heap) \in Nat /\ Len(heap) >= Len(heap)
  BY DEF LinkInv, FragTypes
<1>1. ASSUME NEW t \in Threads, NEW s \in Sites, Record(t, s) PROVE TypeInv'
  BY <1>1, RecordTypes
<1>2. CASE BeginCollection
  BY <1>0, <1>2, SameTypes DEF BeginCollection, recordVars, fileVars, sortVars
<1>3. ASSUME NEW t \in Threads, BeginLoad(t) PROVE TypeInv'
  BY <1>3, BeginLoadTypes
<1>4. CASE LoadSample
  BY <1>4, LoadSampleTypes
<1>5. CASE EndLoad
  BY <1>5, EndLoadTypes
<1>6. CASE EndCollection
  BY <1>0, <1>6, SameTypes DEF EndCollection, recordVars, fileVars, sortVars
<1>7. CASE JoinFragments
  <2>1. /\ UNCHANGED <<clock, files, open, pending, thread, pos, orphaned>> /\ phase' = phase
        /\ UNCHANGED <<compromisedTxns, nonTxnCounters, suspendingTxn>>
    BY <1>7 DEF JoinFragments, recordVars, fileVars, sortVars
  <2>2. Len(heap') \in Nat /\ Len(heap') >= Len(heap)
    BY <1>7, JoinFragmentsLinks DEF LinkInv, FragTypes
  <2> QED
    BY <1>0, <2>1, <2>2, SameTypes
<1>8. CASE AppendJoined
  <2>1. /\ UNCHANGED <<clock, files, open, pending, thread, pos, orphaned>> /\ phase' = "joined"
        /\ UNCHANGED <<compromisedTxns, nonTxnCounters, suspendingTxn>>
    BY <1>8 DEF AppendJoined, recordVars, fileVars, sortVars
  <2>2. Len(heap') \in Nat /\ Len(heap') >= Len(heap)
    BY <1>8, AppendJoinedLinks DEF LinkInv, FragTypes
  <2> QED
    BY <1>0, <2>1, <2>2, SameTypes
<1>9. CASE GetData
  BY <1>0, <1>9, SameTypes DEF GetData, recordVars, fileVars, sortVars
<1>10. CASE UNCHANGED vars
  BY <1>0, <1>10, SameTypes DEF vars, recordVars, fileVars, sortVars
<1> QED
  BY <1>1, <1>2, <1>3, <1>4, <1>5, <1>6, <1>7, <1>8, <1>9, <1>10 DEF Next

(* Every variable of the loaders has its type and every reference points into  *)
(* its heap, through the recording, the loading of the files in any order, and *)
(* the joins; no more samples are counted as orphaned than were recorded.      *)
THEOREM LoadingTypes == Spec => []TypeOK
<1>1. IInv /\ LinkInv /\ TypeInv => TypeOK
  <2> SUFFICES ASSUME IInv, LinkInv, TypeInv PROVE TypeOK
    OBVIOUS
  <2>1. phase \in {"recording", "loading", "joining", "joined", "done"} /\ clock \in 0 .. MaxSamples /\ lost \subseteq Counters
    BY DEF LinkInv, TxnTypes, IInv, FilesInv, Sample
  <2>2. \A t \in Threads : ToSet(files[t]) \subseteq Counters
    BY ToSetOfSamples DEF IInv, FilesInv, Sample
  <2>3. /\ open \subseteq Threads /\ pending \subseteq Threads /\ thread \in Threads \cup {None}
        /\ pos \in 1 .. MaxSamples + 1
    BY DEF TypeInv, Progress, IInv, LoadInv
  <2>4. orphaned \in 0 .. MaxSamples
    <3>1. clock \in Nat /\ clock <= MaxSamples /\ orphaned \in Nat /\ orphaned <= Cardinality(Seen)
      BY BoundsAssumption DEF IInv, FilesInv, TypeInv, Progress
    <3>2. Cardinality(Seen) \in Nat /\ Cardinality(Seen) <= clock
      BY <3>1, SeenFinite
    <3> QED
      BY <3>1, <3>2, BoundsAssumption
  <2>5. heap \in Seq(Txn) /\ frags \in Seq(Frag) /\ DOMAIN heap = 1 .. Len(heap) /\ DOMAIN frags = 1 .. Len(frags)
    BY DEF LinkInv, FragTypes
  <2>6. \A i \in DOMAIN heap : ToSet(heap[i].counters) \subseteq Counters
    <3>1. \A i \in DOMAIN heap : heap[i] \in Txn
      BY <2>5
    <3>2. \A i \in DOMAIN heap : heap[i].counters \in Seq(Sample)
      BY <3>1 DEF Txn
    <3> QED
      BY <3>2, ToSetOfSamples DEF Sample
  <2>7. currentTxn \in DOMAIN heap \cup {None} /\ suspendingTxn \in BOOLEAN
    BY DEF IInv, CurrentInv, TypeInv, SetAside
  <2>8. ToSet(compromisedTxns) \subseteq DOMAIN heap
    <3>1. compromisedTxns \in Seq(Nat) /\ \A k \in 1 .. Len(compromisedTxns) : compromisedTxns[k] \in DOMAIN heap
      BY <2>5 DEF TypeInv, SetAside
    <3> QED
      BY <3>1 DEF ToSet
  <2>9. ToSet(nonTxnCounters) \cup ToSet(ephemeralCounters) \subseteq Counters
    BY ToSetOfSamples DEF TypeInv, SetAside, IInv, LoadInv, Sample
  <2>10. DOMAIN txns \subseteq 1 .. nextTxnId /\ \A i \in DOMAIN txns : txns[i] \in DOMAIN heap
    BY <2>5 DEF LinkInv, TxnTypes
  <2>11. resumeFragment \in DOMAIN frags \cup {None}
    BY <2>5 DEF LinkInv, FragTypes
  <2>12. \A i \in DOMAIN frags : frags[i].txn \in DOMAIN heap /\ frags[i].next \in Links \cup {None}
    <3>1. \A i \in DOMAIN frags : frags[i] \in Frag
      BY <2>5
    <3>2. \A i \in DOMAIN frags : frags[i].next \in Links \cup {None}
      BY <3>1 DEF Frag
    <3> QED
      BY <2>5, <3>2 DEF LinkInv, FragTypes
  <2>13. ToSet(rootFragments) \subseteq DOMAIN frags
    <3>1. rootFragments \in Seq(Nat) /\ \A k \in 1 .. Len(rootFragments) : rootFragments[k] \in DOMAIN frags
      BY <2>5 DEF LinkInv, FragTypes
    <3> QED
      BY <3>1 DEF ToSet
  <2> QED
    BY <2>1, <2>2, <2>3, <2>4, <2>6, <2>7, <2>8, <2>9, <2>10, <2>11, <2>12, <2>13 DEF TypeOK
<1> QED
  BY <1>1, InitInv, NextInv, InitLinks, NextLinks, InitTypes, NextTypes, PTL DEF Spec

-----------------------------------------------------------------------------
(* Stretches. A set of samples grows by the next sample of a thread's file.    *)
Newest(L, c) == c \in Sample /\ c \notin L /\ \A d \in L : d.threadId = c.threadId => d.tsc < c.tsc
LastStart(L, s) == s \in Starts(L) /\ \A u \in Starts(L) : ~ Earlier(s, u)

(* In every stretch the openings come before the closing counters.             *)
OpensFirst(L) == \A s \in Starts(L) : \A d, e \in Region(L, s) : Opens(d) /\ Ending(e) => d.tsc < e.tsc

(* Nothing that was read comes after it.                                       *)
LEMMA NewestLast ==
  ASSUME NEW L, L \subseteq Sample, NEW c, Newest(L, c)
  PROVE  /\ c.tsc \in Nat /\ \A d \in L : d.tsc \in Nat
         /\ \A d \in L : ~ Earlier(c, d)
         /\ ~ Earlier(c, c)
         /\ \A d \in L : Earlier(d, c) <=> d.threadId = c.threadId
<1>1. \A d \in Sample : d.tsc \in Nat
  BY BoundsAssumption DEF Sample, Counters
<1> QED
  BY <1>1 DEF Newest, Earlier

(* Whether a counter starts a stretch depends on those before it.              *)
LEMMA StartsOfMore ==
  ASSUME NEW L, L \subseteq Sample, NEW c, Newest(L, c)
  PROVE  /\ \A d \in L : d \in Starts(L \cup {c}) <=> d \in Starts(L)
         /\ c \in Starts(L \cup {c}) <=>
              Opens(c) /\ (~ Resumes(c) => \A d \in L : Earlier(d, c) /\ Opens(d) =>
                                             \E e \in L : Earlier(d, e) /\ Earlier(e, c) /\ Ending(e))
<1>1. /\ \A d \in L : ~ Earlier(c, d)
      /\ ~ Earlier(c, c) /\ c \notin L
  BY NewestLast DEF Newest
<1>2. ASSUME NEW d \in L
      PROVE  d \in Starts(L \cup {c}) <=> d \in Starts(L)
  BY <1>1 DEF Starts
<1>3. c \in Starts(L \cup {c}) <=>
              Opens(c) /\ (~ Resumes(c) => \A d \in L : Earlier(d, c) /\ Opens(d) =>
                                             \E e \in L : Earlier(d, e) /\ Earlier(e, c) /\ Ending(e))
  BY <1>1 DEF Starts
<1> QED
  BY <1>2, <1>3

(* A stretch that the new sample is not part of.                               *)
LEMMA RegionSame ==
  ASSUME NEW L, L \subseteq Sample, NEW c, Newest(L, c), NEW s \in Starts(L),
         s.threadId # c.threadId \/ c \in Starts(L \cup {c}) \/ ~ LastStart(L, s)
  PROVE  /\ Region(L \cup {c}, s) = Region(L, s) /\ Stretch(L \cup {c}, s) = Stretch(L, s)
         /\ (IsClosed(L \cup {c}, s) <=> IsClosed(L, s))
<1> DEFINE M == L \cup {c}
<1>1. /\ \A d \in L : ~ Earlier(c, d)
      /\ ~ Earlier(c, c) /\ c \notin L /\ s \in L
      /\ \A d \in L : Earlier(d, c) <=> d.threadId = c.threadId
  BY NewestLast DEF Newest, Starts
<1>2. \A d \in L : d \in Starts(M) <=> d \in Starts(L)
  BY StartsOfMore
<1>3. \A d \in Starts(M) : d \in Starts(L) \/ d = c
  BY <1>2 DEF Starts
<1>4. ASSUME NEW d \in L PROVE d \in Region(M, s) <=> d \in Region(L, s)
  <2>1. d = s \/ Earlier(s, d) => (Earlier(s, c) => Earlier(d, c))
    BY <1>1 DEF Earlier
  <2>2. \A u \in Starts(L) : u \in Starts(M)
    BY <1>2 DEF Starts
  <2> QED
    BY <1>3, <2>1, <2>2 DEF Region
<1>5. c \notin Region(M, s)
  <2>1. CASE s.threadId # c.threadId
    BY <1>1, <2>1 DEF Region, Earlier
  <2>2. CASE c \in Starts(M)
    BY <1>1, <2>2 DEF Region
  <2>3. CASE ~ LastStart(L, s)
    <3>1. PICK u \in Starts(L) : Earlier(s, u)
      BY <2>3 DEF LastStart
    <3>2. u \in L /\ u \in Starts(M) /\ ~ Earlier(c, u)
      BY <1>1, <1>2, <3>1 DEF Starts
    <3> QED
      BY <3>1, <3>2 DEF Region
  <2> QED
    BY <2>1, <2>2, <2>3
<1>6. Region(M, s) \subseteq M /\ Region(L, s) \subseteq L
  BY DEF Region
<1>7. Region(M, s) = Region(L, s)
  BY <1>4, <1>5, <1>6
<1>8. (IsClosed(M, s) <=> IsClosed(L, s))
  BY <1>7, Zenon DEF IsClosed
<1>9. Stretch(M, s) = Stretch(L, s)
  BY <1>7, <1>8, Zenon DEF Stretch
<1> QED
  BY <1>7, <1>8, <1>9

(* The last stretch of the thread, if the new sample does not start another.   *)
LEMMA RegionGrows ==
  ASSUME NEW L, L \subseteq Sample, NEW c, Newest(L, c), NEW s, LastStart(L, s),
         s.threadId = c.threadId, c \notin Starts(L \cup {c})
  PROVE  /\ LastStart(L \cup {c}, s)
         /\ Region(L \cup {c}, s) = Region(L, s) \cup {c}
         /\ (IsClosed(L \cup {c}, s) <=> (IsClosed(L, s) \/ Ending(c)))
         /\ Ending(c) => Stretch(L \cup {c}, s) = Region(L, s) \cup {c}
         /\ ~ Ending(c) /\ IsClosed(L, s) => Stretch(L \cup {c}, s) = Stretch(L, s)
         /\ ~ Ending(c) /\ ~ IsClosed(L, s) => Stretch(L \cup {c}, s) = Stretch(L, s) \cup {c}
<1> DEFINE M == L \cup {c}
<1>1. /\ \A d \in L : ~ Earlier(c, d)
      /\ ~ Earlier(c, c) /\ c \notin L /\ s \in L /\ s \in Starts(L)
      /\ \A d \in L : Earlier(d, c) <=> d.threadId = c.threadId
      /\ \A u \in Starts(L) : ~ Earlier(s, u)
  BY NewestLast DEF Newest, Starts, LastStart
<1>2. \A d \in L : d \in Starts(M) <=> d \in Starts(L)
  BY StartsOfMore
<1>3. Starts(M) = Starts(L)
  BY <1>2 DEF Starts
<1>4. Region(M, s) = Region(L, s) \cup {c}
  <2>1. \A d \in L : d \in Region(M, s) <=> d \in Region(L, s)
    BY <1>3 DEF Region
  <2>2. c \in Region(M, s)
    BY <1>1, <1>3 DEF Region
  <2>3. Region(M, s) \subseteq M /\ Region(L, s) \subseteq L
    BY DEF Region
  <2> QED
    BY <2>1, <2>2, <2>3
<1>5. IsClosed(M, s) <=> (IsClosed(L, s) \/ Ending(c))
  BY <1>4 DEF IsClosed
<1>6. \A d \in L : d.threadId = c.threadId => d.tsc <= c.tsc
  BY NewestLast DEF Newest
<1>7. \A d \in Region(L, s) : d \in L /\ d.threadId = c.threadId
  BY DEF Region, Earlier
<1>8. c.tsc \in Nat /\ \A d \in Region(L, s) : d.tsc \in Nat /\ d.tsc <= c.tsc /\ d.tsc < c.tsc
  BY <1>7, NewestLast DEF Newest
<1> HIDE DEF M
<1>9. CASE Ending(c)
  <2>1. IsClosed(M, s)
    BY <1>5, <1>9
  <2>2. \A d \in Region(M, s) : d.tsc <= c.tsc
    BY <1>4, <1>8
  <2>3. Stretch(M, s) = Region(M, s)
    BY <1>4, <1>9, <2>2 DEF Stretch
  <2> QED
    BY <1>1, <1>3, <1>4, <1>5, <1>9, <2>3 DEF LastStart, M
<1>10. CASE ~ Ending(c) /\ IsClosed(L, s)
  <2>1. PICK e \in Region(L, s) : Ending(e)
    BY <1>10 DEF IsClosed
  <2>2. IsClosed(M, s)
    BY <1>5, <1>10
  <2>3. \A d \in Region(M, s) : Ending(d) => d \in Region(L, s)
    BY <1>4, <1>10
  <2>4. c \notin Stretch(M, s)
    <3> SUFFICES ASSUME NEW x \in Region(M, s), Ending(x), c.tsc <= x.tsc PROVE FALSE
      BY <2>2 DEF Stretch
    <3>1. x \in Region(L, s)
      BY <2>3
    <3> QED
      BY <1>8, <3>1
  <2>5. \A d \in Region(L, s) : d \in Stretch(M, s) <=> d \in Stretch(L, s)
    BY <1>4, <1>10, <2>2 DEF Stretch
  <2>6. Stretch(M, s) \subseteq Region(M, s) /\ Stretch(L, s) \subseteq Region(L, s)
    BY DEF Stretch
  <2>7. Stretch(M, s) = Stretch(L, s)
    BY <1>4, <2>4, <2>5, <2>6
  <2> QED
    BY <1>1, <1>3, <1>4, <1>5, <1>10, <2>7 DEF LastStart, M
<1>11. CASE ~ Ending(c) /\ ~ IsClosed(L, s)
  <2>1. ~ IsClosed(M, s)
    BY <1>5, <1>11
  <2>2. Stretch(M, s) = Region(M, s) /\ Stretch(L, s) = Region(L, s)
    BY <1>11, <2>1 DEF Stretch
  <2> QED
    BY <1>1, <1>3, <1>4, <1>5, <1>11, <2>2 DEF LastStart, M
<1> QED
  BY <1>9, <1>10, <1>11

(* A new stretch.                                                              *)
LEMMA RegionStarts ==
  ASSUME NEW L, L \subseteq Sample, NEW c, Newest(L, c), c \in Starts(L \cup {c})
  PROVE  /\ LastStart(L \cup {c}, c)
         /\ Region(L \cup {c}, c) = {c} /\ Stretch(L \cup {c}, c) = {c} /\ ~ IsClosed(L \cup {c}, c)
<1> DEFINE M == L \cup {c}
<1>1. /\ \A d \in L : ~ Earlier(c, d)
      /\ ~ Earlier(c, c) /\ Opens(c)
  BY NewestLast DEF Starts
<1>2. Region(M, c) = {c}
  BY <1>1 DEF Region, Starts
<1>3. ~ IsClosed(M, c)
  BY <1>1, <1>2 DEF IsClosed, Ending
<1>4. Stretch(M, c) = {c}
  BY <1>2, <1>3 DEF Stretch
<1>5. LastStart(M, c)
  BY <1>1 DEF LastStart, Starts
<1> QED
  BY <1>2, <1>3, <1>4, <1>5

(* A begin starts a stretch after a closed one, and none before it is closed.  *)
LEMMA BeginStarts ==
  ASSUME NEW L, L \subseteq Sample, NEW c, Newest(L, c), Opens(c), ~ Resumes(c), NEW s, LastStart(L, s),
         s.threadId = c.threadId, OpensFirst(L),
         \A d \in L : d.threadId = c.threadId /\ Opens(d) => d \in Region(L, s) \/ Earlier(d, s)
  PROVE  c \in Starts(L \cup {c}) <=> IsClosed(L, s)
<1>1. /\ c.tsc \in Nat /\ \A d \in L : d.tsc \in Nat
      /\ \A d \in L : Earlier(d, c) <=> d.threadId = c.threadId
      /\ s \in Starts(L) /\ s \in L /\ Opens(s) /\ \A u \in Starts(L) : ~ Earlier(s, u)
  BY NewestLast DEF LastStart, Starts
<1>2. c \in Starts(L \cup {c}) <=> \A d \in L : Earlier(d, c) /\ Opens(d) =>
                                     \E e \in L : Earlier(d, e) /\ Earlier(e, c) /\ Ending(e)
  BY StartsOfMore
<1>3. ASSUME IsClosed(L, s), NEW d \in L, Earlier(d, c), Opens(d)
      PROVE  \E e \in L : Earlier(d, e) /\ Earlier(e, c) /\ Ending(e)
  <2>1. PICK e \in Region(L, s) : Ending(e)
    BY <1>3 DEF IsClosed
  <2>2. e \in L /\ e.threadId = c.threadId /\ Earlier(e, c) /\ s.tsc <= e.tsc /\ d.threadId = c.threadId
    BY <1>1, <1>3, <2>1 DEF Region, Earlier
  <2>3. d \in Region(L, s) \/ Earlier(d, s)
    BY <1>3, <2>2
  <2>4. d.tsc < e.tsc
    <3>1. CASE d \in Region(L, s)
      BY <1>1, <1>3, <2>1, <3>1 DEF OpensFirst
    <3>2. CASE Earlier(d, s)
      BY <1>1, <2>2, <3>2 DEF Earlier
    <3> QED
      BY <2>3, <3>1, <3>2
  <2> QED
    BY <2>1, <2>2, <2>4 DEF Earlier
<1>4. ASSUME c \in Starts(L \cup {c}) PROVE IsClosed(L, s)
  <2>1. Earlier(s, c)
    BY <1>1
  <2>2. PICK e \in L : Earlier(s, e) /\ Earlier(e, c) /\ Ending(e)
    BY <1>1, <1>2, <1>4, <2>1
  <2>3. e \in Region(L, s)
    BY <1>1, <2>2 DEF Region
  <2> QED
    BY <2>2, <2>3 DEF IsClosed
<1> QED
  BY <1>2, <1>3, <1>4

-----------------------------------------------------------------------------
(* What was recorded. The files are in order of time. A resumption names an    *)
(* earlier suspension, lost or not. As long as nothing is lost, openings and   *)
(* closing counters of a thread alternate.                                     *)
FilesSorted ==
  \A t \in Threads : \A i, j \in 1 .. Len(files[t]) : i < j => files[t][i].tsc < files[t][j].tsc

Recorded == Loaded \cup lost

Alternates(L, inside) ==
  /\ \A t \in Threads : t \in inside <=> \E s \in L : /\ s.threadId = t /\ Opens(s)
                                                      /\ ~ \E e \in L : Earlier(s, e) /\ Ending(e)
  /\ \A c, d \in L : Opens(c) /\ Opens(d) /\ Earlier(d, c) =>
       \E e \in L : Earlier(d, e) /\ Earlier(e, c) /\ Ending(e)
  /\ \A e \in L : Ending(e) => \E s \in L : /\ Earlier(s, e) /\ Opens(s)
                                            /\ ~ \E x \in L : Earlier(s, x) /\ Earlier(x, e) /\ Ending(x)

RecInv ==
  /\ FilesSorted
  /\ \A c \in Recorded : c.tsc <= clock /\ ~ (Opens(c) /\ Closes(c))
  /\ \A c \in Recorded : Resumes(c) => \E d \in Recorded : Suspends(d) /\ LinkOf(d) = c.data /\ d.tsc < c.tsc
  /\ lost = {} => Alternates(Loaded, open)

(* The samples of the files, and their time stamps.                            *)
LEMMA LoadedAre ==
  ASSUME IInv
  PROVE  /\ Loaded \subseteq Sample /\ Recorded \subseteq Sample
         /\ \A c \in Loaded : /\ c.threadId \in Threads /\ c.tsc \in Nat /\ c.site \in DOMAIN AppProbe
                              /\ \E i \in 1 .. Len(files[c.threadId]) : files[c.threadId][i] = c
         /\ \A t \in Threads : \A i \in 1 .. Len(files[t]) :
              files[t][i] \in Sample /\ files[t][i].threadId = t /\ (files[t][i].site \in DOMAIN AppProbe => files[t][i] \in Loaded)
<1>1. \A t \in Threads : files[t] \in Seq(Sample) /\ OfThread(files[t], t)
  BY DEF IInv, FilesInv
<1>2. \A t \in Threads : DOMAIN files[t] = 1 .. Len(files[t]) /\ \A i \in 1 .. Len(files[t]) : files[t][i] \in Sample /\ files[t][i].threadId = t
  BY <1>1 DEF OfThread
<1>3. \A c : c \in Loaded <=> (\E t \in Threads : \E i \in 1 .. Len(files[t]) : files[t][i] = c) /\ c.site \in DOMAIN AppProbe
  BY <1>2 DEF Loaded, ToSet
<1>4. \A c \in Sample : c.threadId \in Threads /\ c.tsc \in Nat
  BY BoundsAssumption DEF Sample, Counters
<1>5. lost \subseteq Sample
  BY DEF IInv, FilesInv
<1>6. \A c \in Loaded : c \in Sample /\ \E i \in 1 .. Len(files[c.threadId]) : files[c.threadId][i] = c
  BY <1>2, <1>3
<1> QED
  BY <1>2, <1>3, <1>4, <1>5, <1>6 DEF Recorded

(* No two samples have the same time stamp.                                    *)
LEMMA LoadedDiffer ==
  ASSUME IInv, TypeInv
  PROVE  \A c, d \in Loaded : c.tsc = d.tsc => c = d
<1> SUFFICES ASSUME NEW c \in Loaded, NEW d \in Loaded, c.tsc = d.tsc PROVE c = d
  OBVIOUS
<1>1. c.threadId \in Threads /\ d.threadId \in Threads
  BY LoadedAre
<1>2. PICK i \in 1 .. Len(files[c.threadId]) : files[c.threadId][i] = c
  BY LoadedAre
<1>3. PICK j \in 1 .. Len(files[d.threadId]) : files[d.threadId][j] = d
  BY LoadedAre
<1>4. c.threadId = d.threadId /\ i = j
  BY <1>1, <1>2, <1>3 DEF TypeInv, TscsDiffer
<1> QED
  BY <1>2, <1>3, <1>4

(* A sample is added, later than all others.                                   *)
LEMMA AlternatesOn ==
  ASSUME NEW L, L \subseteq Sample, NEW c \in Sample, NEW inside \in SUBSET Threads, NEW then,
         \A d \in L : d.tsc < c.tsc, Alternates(L, inside), ~ (Opens(c) /\ Closes(c)),
         Opens(c) => c.threadId \notin inside, Closes(c) => c.threadId \in inside,
         then = IF Opens(c) THEN inside \cup {c.threadId}
                ELSE IF Closes(c) THEN inside \ {c.threadId} ELSE inside
  PROVE  Alternates(L \cup {c}, then)
<1> DEFINE M == L \cup {c}
<1>0. c.threadId \in Threads /\ c.tsc \in Nat /\ \A d \in L : d.tsc \in Nat
  BY BoundsAssumption DEF Sample, Counters
<1>1. /\ \A d \in L : ~ Earlier(c, d)
      /\ ~ Earlier(c, c) /\ c \notin L
      /\ \A d \in L : Earlier(d, c) <=> d.threadId = c.threadId
  BY <1>0 DEF Earlier
<1>2. Ending(c) <=> Closes(c)
  BY DEF Ending
<1>3. ASSUME NEW t \in Threads
      PROVE  t \in then <=> \E s \in M : /\ s.threadId = t /\ Opens(s)
                                         /\ ~ \E e \in M : Earlier(s, e) /\ Ending(e)
  <2>1. t \in inside <=> \E s \in L : /\ s.threadId = t /\ Opens(s)
                                      /\ ~ \E e \in L : Earlier(s, e) /\ Ending(e)
    BY DEF Alternates
  <2>2. CASE t # c.threadId
    <3>1. t \in then <=> t \in inside
      BY <2>2
    <3>2. \A s \in L : s.threadId = t => ~ Earlier(s, c)
      BY <1>1, <2>2
    <3> QED
      BY <1>1, <2>1, <2>2, <3>1, <3>2
  <2>3. CASE t = c.threadId /\ Opens(c)
    BY <1>1, <2>3
  <2>4. CASE t = c.threadId /\ ~ Opens(c) /\ Closes(c)
    <3>1. t \notin then
      BY <2>4
    <3>2. \A s \in M : s.threadId = t /\ Opens(s) => Earlier(s, c)
      BY <1>1, <2>4
    <3> QED
      BY <1>2, <2>4, <3>1, <3>2
  <2>5. CASE t = c.threadId /\ ~ Opens(c) /\ ~ Closes(c)
    BY <1>1, <1>2, <2>1, <2>5
  <2> QED
    BY <2>2, <2>3, <2>4, <2>5
<1>4. ASSUME NEW a \in M, NEW d \in M, Opens(a), Opens(d), Earlier(d, a)
      PROVE  \E e \in M : Earlier(d, e) /\ Earlier(e, a) /\ Ending(e)
  <2>1. d \in L
    BY <1>1, <1>4
  <2>2. CASE a \in L
    BY <1>4, <2>1, <2>2 DEF Alternates
  <2>3. CASE a = c
    <3>1. c.threadId \notin inside /\ d.threadId = c.threadId
      BY <1>1, <1>4, <2>1, <2>3
    <3>2. PICK e \in L : Earlier(d, e) /\ Ending(e)
      BY <1>0, <1>4, <2>1, <3>1 DEF Alternates
    <3>3. Earlier(e, c)
      BY <1>1, <3>1, <3>2 DEF Earlier
    <3> QED
      BY <2>3, <3>2, <3>3
  <2> QED
    BY <2>2, <2>3
<1>5. ASSUME NEW e \in M, Ending(e)
      PROVE  \E s \in M : /\ Earlier(s, e) /\ Opens(s)
                          /\ ~ \E x \in M : Earlier(s, x) /\ Earlier(x, e) /\ Ending(x)
  <2>1. CASE e \in L
    <3>1. PICK s \in L : /\ Earlier(s, e) /\ Opens(s)
                         /\ ~ \E x \in L : Earlier(s, x) /\ Earlier(x, e) /\ Ending(x)
      BY <1>5, <2>1 DEF Alternates
    <3> QED
      BY <1>1, <2>1, <3>1
  <2>2. CASE e = c
    <3>1. c.threadId \in inside
      BY <1>2, <1>5, <2>2
    <3>2. PICK s \in L : /\ s.threadId = c.threadId /\ Opens(s)
                         /\ ~ \E x \in L : Earlier(s, x) /\ Ending(x)
      BY <1>0, <3>1 DEF Alternates
    <3> QED
      BY <1>1, <2>2, <3>2
  <2> QED
    BY <2>1, <2>2
<1> HIDE DEF M
<1>6. Alternates(M, then)
  BY <1>3, <1>4, <1>5 DEF Alternates
<1> QED
  BY <1>6 DEF M

(* Nothing is recorded yet.                                                    *)
LEMMA InitRec == Init => RecInv
<1> SUFFICES ASSUME Init PROVE RecInv
  OBVIOUS
<1>1. \A t \in Threads : files[t] = <<>>
  BY DEF Init
<1>2. Loaded = {} /\ lost = {}
  BY <1>1 DEF Init, Loaded, ToSet
<1>3. FilesSorted
  BY <1>1 DEF FilesSorted
<1>4. Alternates(Loaded, open)
  BY <1>2 DEF Alternates, Init
<1> QED
  BY <1>2, <1>3, <1>4 DEF RecInv, Recorded

(* A sample is recorded or lost.                                               *)
LEMMA RecordRec ==
  ASSUME IInv, TypeInv, RecInv, NEW t \in Threads, NEW s \in Sites, Record(t, s)
  PROVE  RecInv'
<1>1. PICK data : /\ s \in DOMAIN AppProbe /\ Resumes(Counter(t, s, None, clock + 1)) => data \in Suspended
                  /\ data \in Suspended \/ data = None
                  /\ \/ /\ files' = [files EXCEPT ![t] = Append(@, Counter(t, s, data, clock + 1))]
                        /\ lost' = lost
                     \/ /\ s \in DOMAIN AppProbe /\ lost' = lost \cup {Counter(t, s, data, clock + 1)} /\ files' = files
  BY DEF Record
<1> DEFINE c == Counter(t, s, data, clock + 1)
           o == Counter(t, s, None, clock + 1)
<1>2. clock \in Nat /\ clock' = clock + 1 /\ clock + 1 \in 1 .. MaxSamples /\ files \in [Threads -> Seq(Sample)] /\ open \subseteq Threads
  BY BoundsAssumption DEF IInv, FilesInv, Record, TypeInv, Progress
<1>3. /\ c.threadId = t /\ c.site = s /\ c.tsc = clock + 1 /\ c.data = data
      /\ (Opens(c) <=> Opens(o)) /\ (Closes(c) <=> Closes(o)) /\ (Resumes(c) <=> Resumes(o))
  BY DEF Counter, Opens, Closes, Begins, Resumes, Suspends, Ends, UserAttrs
<1>4. s \in DOMAIN AppProbe => /\ ~ (Opens(c) /\ Closes(c))
                               /\ Opens(c) => t \notin open
                               /\ Closes(c) => t \in open
                               /\ open' = IF Opens(c) THEN open \cup {t} ELSE IF Closes(c) THEN open \ {t} ELSE open
  <2>1. s \in DOMAIN AppProbe => /\ Opens(o) => t \notin open
                                 /\ Closes(o) => t \in open
                                 /\ open' = IF Opens(o) THEN open \cup {t} ELSE IF Closes(o) THEN open \ {t} ELSE open
    BY DEF Record
  <2> QED
    BY <1>3, <2>1
<1>5. s \notin DOMAIN AppProbe => open' = open
  BY DEF Record
<1>6. /\ Loaded \subseteq Sample /\ Recorded \subseteq Sample
      /\ \A d \in Recorded : d.tsc <= clock /\ d.tsc \in Nat /\ ~ (Opens(d) /\ Closes(d))
  BY <1>2, LoadedAre, BoundsAssumption DEF RecInv, Sample, Counters
<1>7. \A d \in Recorded : d.tsc < c.tsc
  BY <1>2, <1>3, <1>6
<1>8. data \in Links \cup {None}
  <2>1. \A d \in Sample : LinkOf(d) \in Links
    BY DEF LinkOf, Sample, Counters, Links
  <2>2. Suspended \subseteq Links
    BY <1>6, <2>1 DEF Suspended, Recorded
  <2> QED
    BY <1>1, <2>2
<1>9. c \in Sample
  BY <1>2, <1>8 DEF Counter, Sample, Counters
<1>10. s \in DOMAIN AppProbe /\ Resumes(c) => \E d \in Recorded : Suspends(d) /\ LinkOf(d) = c.data /\ d.tsc < c.tsc
  <2> SUFFICES ASSUME s \in DOMAIN AppProbe, Resumes(c)
               PROVE  \E d \in Recorded : Suspends(d) /\ LinkOf(d) = c.data /\ d.tsc < c.tsc
    OBVIOUS
  <2>1. data \in Suspended
    BY <1>1, <1>3
  <2>2. PICK d \in Recorded : Suspends(d) /\ LinkOf(d) = data
    BY <2>1 DEF Suspended, Recorded
  <2> QED
    BY <1>3, <1>7, <2>2
<1> HIDE DEF c, o
<1>11. CASE files' = [files EXCEPT ![t] = Append(@, c)] /\ lost' = lost
  <2>1. \A u \in Threads : files'[u] = IF u = t THEN Append(files[t], c) ELSE files[u]
    BY <1>2, <1>11
  <2>2. /\ files[t] \in Seq(Sample) /\ Len(files[t]) \in Nat /\ Len(Append(files[t], c)) = Len(files[t]) + 1
        /\ Append(files[t], c)[Len(files[t]) + 1] = c /\ \A i \in 1 .. Len(files[t]) : Append(files[t], c)[i] = files[t][i]
    BY <1>2
  <2>3. Loaded' = IF s \in DOMAIN AppProbe THEN Loaded \cup {c} ELSE Loaded
    <3>1. ToSet(Append(files[t], c)) = ToSet(files[t]) \cup {c}
      BY <1>9, <2>2, AppendSet
    <3>2. \A u \in Threads : ToSet(files'[u]) = IF u = t THEN ToSet(files[t]) \cup {c} ELSE ToSet(files[u])
      BY <2>1, <3>1
    <3>3. \A d : d \in Loaded' <=> (\E u \in Threads : d \in ToSet(files'[u])) /\ d.site \in DOMAIN AppProbe
      BY DEF Loaded
    <3>4. \A d : d \in Loaded <=> (\E u \in Threads : d \in ToSet(files[u])) /\ d.site \in DOMAIN AppProbe
      BY DEF Loaded
    <3>5. \A d : (\E u \in Threads : d \in ToSet(files'[u])) <=> (\E u \in Threads : d \in ToSet(files[u])) \/ d = c
      BY <3>2
    <3>6. \A d : d \in Loaded' <=> d \in Loaded \/ (d = c /\ s \in DOMAIN AppProbe)
      BY <1>3, <3>3, <3>4, <3>5
    <3> QED
      BY <3>6
  <2>4. FilesSorted'
    <3> SUFFICES ASSUME NEW u \in Threads, NEW i \in 1 .. Len(files'[u]), NEW j \in 1 .. Len(files'[u]), i < j
                 PROVE  files'[u][i].tsc < files'[u][j].tsc
      BY DEF FilesSorted
    <3>1. CASE u # t
      BY <2>1, <3>1 DEF RecInv, FilesSorted
    <3>2. CASE u = t
      <4>0. files'[u] = Append(files[t], c)
        BY <2>1, <3>2
      <4>1. files'[u] = Append(files[t], c) /\ i \in 1 .. Len(files[t]) /\ j \in 1 .. Len(files[t]) + 1
        <5>1. Len(files'[u]) = Len(files[t]) + 1 /\ Len(files[t]) \in Nat
          BY <2>2, <4>0
        <5> QED
          BY <4>0, <5>1
      <4>2. CASE j \in 1 .. Len(files[t])
        BY <2>2, <4>1, <4>2 DEF RecInv, FilesSorted
      <4>3. CASE j = Len(files[t]) + 1
        <5>1. files[t][i].tsc \in 1 .. clock
          BY <4>1 DEF TypeInv, TscsDiffer
        <5> QED
          BY <1>2, <1>3, <2>2, <4>1, <4>3, <5>1
      <4> QED
        BY <2>2, <4>1, <4>2, <4>3
    <3> QED
      BY <3>1, <3>2
  <2>5. Recorded' = IF s \in DOMAIN AppProbe THEN Recorded \cup {c} ELSE Recorded
    BY <1>11, <2>3 DEF Recorded
  <2>6. \A d \in Recorded' : d.tsc <= clock' /\ ~ (Opens(d) /\ Closes(d))
    BY <1>2, <1>3, <1>4, <1>6, <2>5
  <2>7. \A d \in Recorded' : Resumes(d) => \E e \in Recorded' : Suspends(e) /\ LinkOf(e) = d.data /\ e.tsc < d.tsc
    BY <1>10, <2>5 DEF RecInv
  <2>8. lost' = {} => Alternates(Loaded', open')
    <3>1. CASE s \in DOMAIN AppProbe /\ lost = {}
      <4>1. Alternates(Loaded \cup {c}, open')
        <5>1. open \in SUBSET Threads /\ \A d \in Loaded : d.tsc < c.tsc
          BY <1>2, <1>7 DEF Recorded
        <5>2. Alternates(Loaded, open)
          BY <3>1 DEF RecInv
        <5> QED
          BY <1>3, <1>4, <1>6, <1>9, <3>1, <5>1, <5>2, AlternatesOn
      <4> QED
        BY <2>3, <3>1, <4>1
    <3>2. CASE s \notin DOMAIN AppProbe
      BY <1>5, <1>11, <2>3, <3>2 DEF RecInv
    <3> QED
      BY <1>11, <3>1, <3>2
  <2> QED
    BY <2>4, <2>6, <2>7, <2>8 DEF RecInv
<1>12. CASE s \in DOMAIN AppProbe /\ lost' = lost \cup {c} /\ files' = files
  <2>1. Loaded' = Loaded /\ Recorded' = Recorded \cup {c}
    BY <1>12 DEF Loaded, Recorded
  <2>2. FilesSorted'
    BY <1>12 DEF RecInv, FilesSorted
  <2>3. \A d \in Recorded' : d.tsc <= clock' /\ ~ (Opens(d) /\ Closes(d))
    BY <1>2, <1>3, <1>4, <1>6, <1>12, <2>1
  <2>4. \A d \in Recorded' : Resumes(d) => \E e \in Recorded' : Suspends(e) /\ LinkOf(e) = d.data /\ e.tsc < d.tsc
    BY <1>10, <1>12, <2>1 DEF RecInv
  <2>5. lost' # {}
    BY <1>12
  <2> QED
    BY <2>2, <2>3, <2>4, <2>5 DEF RecInv
<1> QED
  BY <1>1, <1>11, <1>12 DEF c

(* Nothing is recorded once the profile has ended.                             *)
LEMMA NextRec == IInv /\ TypeInv /\ RecInv /\ [Next]_vars => RecInv'
<1> SUFFICES ASSUME IInv, TypeInv, RecInv, [Next]_vars PROVE RecInv'
  OBVIOUS
<1>1. ASSUME NEW t \in Threads, NEW s \in Sites, Record(t, s) PROVE RecInv'
  BY <1>1, RecordRec
<1>2. ASSUME UNCHANGED recordVars PROVE RecInv'
  <2>1. clock' = clock /\ files' = files /\ open' = open /\ lost' = lost
    BY <1>2 DEF recordVars
  <2>2. Loaded' = Loaded /\ Recorded' = Recorded
    BY <2>1 DEF Loaded, Recorded
  <2>3. FilesSorted'
    BY <2>1 DEF RecInv, FilesSorted
  <2> QED
    BY <2>1, <2>2, <2>3 DEF RecInv
<1>3. (\E t \in Threads, s \in Sites : Record(t, s)) \/ UNCHANGED recordVars
  BY DEF Next, vars, BeginCollection, BeginLoad, LoadSample, EndLoad, EndCollection, JoinFragments, AppendJoined, GetData
<1> QED
  BY <1>1, <1>2, <1>3

-----------------------------------------------------------------------------
(* The samples that the loader has read and knows.                             *)
ReadAt(c, i) ==
  /\ i \in 1 .. Len(files[c.threadId]) /\ files[c.threadId][i] = c
  /\ c.threadId \notin pending \/ (c.threadId = thread /\ i < pos)
Read == {c \in Loaded : \E i \in Nat : ReadAt(c, i)}

(* Nothing is read before the files are.                                       *)
LEMMA ReadNothing ==
  ASSUME IInv, pending = Threads, thread = None
  PROVE  Read = {}
BY LoadedAre, NoneAssumption DEF Read, ReadAt

(* In the end everything is.                                                   *)
LEMMA ReadAll ==
  ASSUME IInv, pending = {}
  PROVE  Read = Loaded
<1>1. ASSUME NEW c \in Loaded PROVE c \in Read
  <2>1. PICK i \in 1 .. Len(files[c.threadId]) : files[c.threadId][i] = c
    BY LoadedAre
  <2>2. ReadAt(c, i) /\ i \in Nat
    BY <2>1 DEF ReadAt
  <2> QED
    BY <2>2 DEF Read
<1> QED
  BY <1>1 DEF Read

(* beginLoad and endLoad read nothing.                                         *)
LEMMA ReadBegin ==
  ASSUME IInv, TypeInv, NEW t \in Threads, BeginLoad(t)
  PROVE  Read' = Read /\ \A c \in Read : c.threadId # t
<1>1. files' = files /\ pending' = pending /\ thread = None /\ thread' = t /\ pos' = 1 /\ t \in pending
  BY DEF BeginLoad, recordVars
<1>2. Loaded' = Loaded
  BY <1>1 DEF Loaded
<1>3. \A c \in Loaded : c.threadId # None
  BY LoadedAre, NoneAssumption
<1>4. \A c \in Loaded : \A i \in Nat : ReadAt(c, i)' <=> ReadAt(c, i)
  BY <1>1, <1>3 DEF ReadAt
<1>5. \A c \in Read : c.threadId # t
  BY <1>1, <1>3 DEF Read, ReadAt
<1> QED
  BY <1>2, <1>4, <1>5 DEF Read

(* The end of a file adds nothing to what was read.                            *)
LEMMA ReadEnd ==
  ASSUME IInv, TypeInv, EndLoad
  PROVE  Read' = Read
<1>1. /\ files' = files /\ pending' = pending \ {thread} /\ thread' = None /\ pos' = pos
      /\ pos > Len(files[thread]) /\ thread # None /\ pos \in Nat
  BY DEF EndLoad, recordVars, IInv, LoadInv
<1>2. Loaded' = Loaded
  BY <1>1 DEF Loaded
<1>3. \A c \in Loaded : c.threadId # None
  BY LoadedAre, NoneAssumption
<1>4. thread \in Threads /\ thread \in pending /\ Len(files[thread]) \in Nat
  BY <1>1 DEF IInv, LoadInv, FilesInv, TypeInv, Progress
<1>5. \A c \in Loaded : \A i \in Nat : ReadAt(c, i)' <=> ReadAt(c, i)
  BY <1>1, <1>3, <1>4 DEF ReadAt
<1> QED
  BY <1>2, <1>5 DEF Read

(* loadSample reads the next sample of the file.                               *)
LEMMA ReadOne ==
  ASSUME IInv, TypeInv, RecInv, LoadSample, NEW c, c = files[thread][pos]
  PROVE  /\ Read \subseteq Sample
         /\ c.site \notin DOMAIN AppProbe => Read' = Read
         /\ c.site \in DOMAIN AppProbe =>
              Read' = Read \cup {c} /\ Newest(Read, c) /\ c.threadId = thread /\ c \in Loaded
<1>1. /\ files' = files /\ pending' = pending /\ thread' = thread /\ pos' = pos + 1
      /\ pos <= Len(files[thread]) /\ thread # None
  BY DEF LoadSample, recordVars
<1>2. /\ pos \in Nat \ {0} /\ thread \in Threads /\ thread \in pending /\ files \in [Threads -> Seq(Sample)]
      /\ Len(files[thread]) \in Nat
  BY <1>1 DEF IInv, LoadInv, FilesInv, TypeInv, Progress
<1>3. pos \in 1 .. Len(files[thread])
  BY <1>1, <1>2
<1>4. /\ c \in Sample /\ c.threadId = thread /\ (c.site \in DOMAIN AppProbe => c \in Loaded)
      /\ Loaded \subseteq Sample /\ \A d \in Loaded : d.threadId \in Threads /\ d.site \in DOMAIN AppProbe
  BY <1>2, <1>3, LoadedAre
<1>5. Loaded' = Loaded
  BY <1>1 DEF Loaded
<1>6. \A d \in Loaded : \A i \in Nat : ReadAt(d, i)' <=> ReadAt(d, i) \/ (i = pos /\ d = c)
  <2> SUFFICES ASSUME NEW d \in Loaded, NEW i \in Nat PROVE ReadAt(d, i)' <=> ReadAt(d, i) \/ (i = pos /\ d = c)
    OBVIOUS
  <2>1. CASE d.threadId # thread
    BY <1>1, <1>4, <2>1 DEF ReadAt
  <2>2. CASE d.threadId = thread
    <3>1. ReadAt(d, i)' <=> i \in 1 .. Len(files[thread]) /\ files[thread][i] = d /\ i < pos + 1
      BY <1>1, <1>2, <2>2 DEF ReadAt
    <3>2. ReadAt(d, i) <=> i \in 1 .. Len(files[thread]) /\ files[thread][i] = d /\ i < pos
      BY <1>2, <2>2 DEF ReadAt
    <3>3. i < pos + 1 <=> i < pos \/ i = pos
      BY <1>2
    <3> QED
      BY <1>3, <3>1, <3>2, <3>3
  <2> QED
    BY <2>1, <2>2
<1>7. Read' = Read \cup (IF c \in Loaded THEN {c} ELSE {})
  <2>1. \A d \in Loaded : (\E i \in Nat : ReadAt(d, i)') <=> (\E i \in Nat : ReadAt(d, i)) \/ d = c
    BY <1>2, <1>6
  <2> QED
    BY <1>5, <2>1 DEF Read
<1>8. \A d \in Read : d.threadId = thread => d.tsc < c.tsc
  <2> SUFFICES ASSUME NEW d \in Read, d.threadId = thread PROVE d.tsc < c.tsc
    OBVIOUS
  <2>1. PICK i \in Nat : ReadAt(d, i)
    BY DEF Read
  <2>2. i \in 1 .. Len(files[thread]) /\ files[thread][i] = d /\ i < pos
    BY <1>2, <2>1 DEF ReadAt
  <2> QED
    BY <1>2, <1>3, <2>2 DEF RecInv, FilesSorted
<1>9. c.tsc \in Nat
  BY <1>4, BoundsAssumption DEF Sample, Counters
<1>10. c \notin Read
  BY <1>4, <1>8, <1>9
<1> QED
  BY <1>4, <1>7, <1>8, <1>10 DEF Newest, Read

-----------------------------------------------------------------------------
(* Fragments. Each is known by the first counter of its transaction. A stretch *)
(* that resumes has one fragment, under its link; the others are roots. Each   *)
(* suspension of a stretch is found under its link, and the fragment that is   *)
(* found follows one of the links that were resumed; a root has only one.      *)
First(r) == heap[r].counters[1]
StartOf(f) == First(frags[f].txn)
EndsUnder(C, l) == \E d \in C : Ending(d) /\ Suspends(d) /\ LinkOf(d) = l
IsResume(f, l) == \E k \in 1 .. Len(resumeFrags[l]) : resumeFrags[l][k] = f
IsRoot(f) == \E k \in 1 .. Len(rootFragments) : rootFragments[k] = f

FragsKept ==
  \A f \in 1 .. Len(frags) :
    /\ Opens(StartOf(f))
    /\ IF Resumes(StartOf(f)) THEN StartOf(f).data \in Links /\ IsResume(f, StartOf(f).data) ELSE IsRoot(f)
    /\ Resumes(StartOf(f)) => \A g \in 1 .. Len(frags) : frags[g].txn = frags[f].txn => g = f
ResumesKept ==
  \A l \in Links : \A f \in 1 .. Len(frags) : IsResume(f, l) => Resumes(StartOf(f)) /\ StartOf(f).data = l
RootsKept == \A f \in 1 .. Len(frags) : IsRoot(f) => ~ Resumes(StartOf(f))
ResumesHaveFrags ==
  \A r \in 1 .. Len(heap) : Resumes(First(r)) => \E f \in 1 .. Len(frags) : frags[f].txn = r
SuspendsHaveFrags ==
  \A r \in 1 .. Len(heap) : Opens(First(r)) => \A l \in Links :
    EndsUnder(CountersOf(r), l) => suspendFrag[l] # None /\ frags[suspendFrag[l]].txn = r
SuspendsLinked ==
  \A l \in Links : suspendFrag[l] # None =>
    /\ resumeFrags[l] # <<>> => frags[suspendFrag[l]].next # None
    /\ EndsUnder(CountersOf(frags[suspendFrag[l]].txn), l)
    /\ ~ Resumes(StartOf(suspendFrag[l])) => \A m \in Links : suspendFrag[m] = suspendFrag[l] => m = l
NextsLinked == \A f \in 1 .. Len(frags) : frags[f].next # None => suspendFrag[frags[f].next] = f
FragCover ==
  /\ FragsKept /\ ResumesKept /\ RootsKept /\ ResumesHaveFrags
  /\ SuspendsHaveFrags /\ SuspendsLinked /\ NextsLinked

(* While files are loaded a transaction keeps its counters.                    *)
FirstAfter(r) == heap'[r].counters[1]
Keeps ==
  /\ heap \in Seq(Txn) /\ heap' \in Seq(Txn) /\ Len(heap') >= Len(heap)
  /\ \A r \in 1 .. Len(heap) : FirstAfter(r) = First(r) /\ CountersOf(r) \subseteq After(r)

(* addResumeFragment, fragment by fragment.                                    *)
LEMMA ResumeFragIs ==
  ASSUME FragTypes, NEW l \in Links, NEW n \in Nat, AddResumeFragment(l, n)
  PROVE  /\ Len(frags) \in Nat /\ frags' \in Seq(Frag) /\ Len(frags') = Len(frags) + 1
         /\ frags'[Len(frags) + 1].txn = n /\ frags'[Len(frags) + 1].next = None
         /\ \A f \in 1 .. Len(frags) :
              /\ frags'[f].txn = frags[f].txn
              /\ frags'[f].next = IF resumeFrags[l] = <<>> /\ suspendFrag[l] = f THEN l ELSE frags[f].next
         /\ \A m \in Links : resumeFrags'[m] = <<>> => resumeFrags[m] = <<>> /\ m # l
         /\ \A m \in Links : m # l => resumeFrags'[m] = resumeFrags[m]
         /\ \A m \in Links, f \in 1 .. Len(frags) + 1 :
              IsResume(f, m)' <=> (f \in 1 .. Len(frags) /\ IsResume(f, m)) \/ (f = Len(frags) + 1 /\ m = l)
         /\ rootFragments' = rootFragments /\ suspendFrag' = suspendFrag
<1> DEFINE m0 == Len(frags) + 1
           linked == IF resumeFrags[l] = <<>> /\ suspendFrag[l] # None
                     THEN [frags EXCEPT ![suspendFrag[l]].next = l] ELSE frags
<1>1. /\ frags' = Append(linked, TxnFragment(n)) /\ rootFragments' = rootFragments /\ suspendFrag' = suspendFrag
      /\ resumeFrags' = [resumeFrags EXCEPT ![l] = Append(@, m0)]
  BY DEF AddResumeFragment
<1>2. /\ frags \in Seq(Frag) /\ Len(frags) \in Nat
      /\ resumeFrags \in [Links -> Seq(Nat)] /\ \A f \in 1 .. Len(frags) : frags[f] \in Frag
  BY DEF FragTypes
<1>4. /\ linked \in Seq(Frag) /\ Len(linked) = Len(frags)
      /\ \A f \in 1 .. Len(frags) :
           /\ linked[f].txn = frags[f].txn
           /\ linked[f].next = IF resumeFrags[l] = <<>> /\ suspendFrag[l] = f THEN l ELSE frags[f].next
  <2>0. \A f \in 1 .. Len(frags) : f # None
    BY NoneAssumption, <1>2
  <2>1. CASE ~ (resumeFrags[l] = <<>> /\ suspendFrag[l] # None)
    BY <1>2, <2>0, <2>1
  <2>2. CASE resumeFrags[l] = <<>> /\ suspendFrag[l] # None
    <3> DEFINE s == suspendFrag[l]
               y == [frags[s] EXCEPT !.next = l]
    <3>1. s \in 1 .. Len(frags)
      BY <2>2 DEF FragTypes
    <3>2. y \in Frag /\ y.txn = frags[s].txn /\ y.next = l
      BY <1>2, <3>1 DEF Frag
    <3>3. linked = [frags EXCEPT ![s] = y]
      BY <2>2
    <3> HIDE DEF s, y, linked
    <3>4. linked \in [1 .. Len(frags) -> Frag] /\ \A f \in 1 .. Len(frags) : linked[f] = IF f = s THEN y ELSE frags[f]
      BY <1>2, <3>1, <3>2, <3>3
    <3>5. linked \in Seq(Frag) /\ Len(linked) = Len(frags)
      BY <1>2, <3>4, ListOf
    <3> QED
      BY <2>2, <3>2, <3>4, <3>5 DEF s
  <2> QED
    BY <2>1, <2>2
<1> HIDE DEF linked
<1>5. TxnFragment(n) \in Frag /\ TxnFragment(n).txn = n /\ TxnFragment(n).next = None
  BY <1>2 DEF TxnFragment, Frag
<1>6. /\ frags' \in Seq(Frag) /\ Len(frags') = m0 /\ frags'[m0] = TxnFragment(n)
      /\ \A f \in 1 .. Len(frags) : frags'[f] = linked[f]
  BY <1>1, <1>2, <1>4, <1>5
<1>7. /\ resumeFrags' \in [Links -> Seq(Nat)]
      /\ \A m \in Links : m # l => resumeFrags'[m] = resumeFrags[m]
      /\ resumeFrags'[l] = Append(resumeFrags[l], m0)
  BY <1>1, <1>2
<1>8. /\ Len(resumeFrags[l]) \in Nat /\ Len(resumeFrags'[l]) = Len(resumeFrags[l]) + 1
      /\ resumeFrags'[l][Len(resumeFrags[l]) + 1] = m0
      /\ \A k \in 1 .. Len(resumeFrags[l]) : resumeFrags'[l][k] = resumeFrags[l][k]
      /\ resumeFrags'[l] # <<>>
  <2> DEFINE q == resumeFrags[l]
             q2 == resumeFrags'[l]
  <2>1. q \in Seq(Nat) /\ m0 \in Nat /\ q2 = Append(q, m0)
    BY <1>2, <1>7
  <2> HIDE DEF q, q2, m0
  <2>2. /\ Len(q) \in Nat /\ Len(q2) = Len(q) + 1 /\ q2[Len(q) + 1] = m0
        /\ \A k \in 1 .. Len(q) : q2[k] = q[k]
    BY <2>1
  <2>3. q2 # <<>>
    BY <2>1
  <2> QED
    BY <2>2, <2>3 DEF q, q2
<1>9. \A k \in 1 .. Len(resumeFrags'[l]) : k \in 1 .. Len(resumeFrags[l]) \/ k = Len(resumeFrags[l]) + 1
  BY <1>8
<1>10. \A f \in 1 .. Len(frags) + 1 : IsResume(f, l)' <=> (f \in 1 .. Len(frags) /\ IsResume(f, l)) \/ f = m0
  <2> TAKE f \in 1 .. Len(frags) + 1
  <2>1. f \in 1 .. Len(frags) \/ f = m0
    BY <1>2
  <2>2. Len(resumeFrags[l]) + 1 \in 1 .. Len(resumeFrags'[l]) /\ \A k \in 1 .. Len(resumeFrags[l]) : k \in 1 .. Len(resumeFrags'[l])
    BY <1>8
  <2>3. f = m0 => IsResume(f, l)'
    BY <1>8, <2>2 DEF IsResume
  <2>4. IsResume(f, l) => IsResume(f, l)'
    BY <1>8, <2>2 DEF IsResume
  <2>5. IsResume(f, l)' => IsResume(f, l) \/ f = m0
    BY <1>8, <1>9 DEF IsResume
  <2> QED
    BY <2>1, <2>3, <2>4, <2>5
<1>11. \A m \in Links, f \in 1 .. Len(frags) + 1 : m # l => (IsResume(f, m)' <=> f \in 1 .. Len(frags) /\ IsResume(f, m))
  <2>1. \A m \in Links : \A f : IsResume(f, m) => f \in 1 .. Len(frags)
    BY DEF FragTypes, IsResume
  <2> QED
    BY <1>7, <2>1 DEF IsResume
<1>12. \A m \in Links : resumeFrags'[m] = <<>> => resumeFrags[m] = <<>> /\ m # l
  BY <1>7, <1>8
<1> QED
  BY <1>1, <1>2, <1>4, <1>5, <1>6, <1>7, <1>10, <1>11, <1>12

(* addSuspendFragment, fragment by fragment: f0 is the one that is suspended.  *)
LEMMA SuspendFragIs ==
  ASSUME FragTypes, NEW l \in Links, NEW n \in Nat, AddSuspendFragment(l, n, resumeFragment),
         NEW f0, f0 = IF resumeFragment = None THEN Len(frags) + 1 ELSE resumeFragment
  PROVE  /\ Len(frags) \in Nat /\ frags' \in Seq(Frag) /\ f0 \in 1 .. Len(frags') /\ Len(frags') >= Len(frags)
         /\ resumeFragment = None => frags'[f0].txn = n /\ f0 \notin 1 .. Len(frags) /\ Len(frags') = Len(frags) + 1
         /\ resumeFragment # None => f0 \in 1 .. Len(frags) /\ Len(frags') = Len(frags)
         /\ f0 \notin 1 .. Len(frags) => frags'[f0].next = IF resumeFrags[l] # <<>> THEN l ELSE None
         /\ \A f \in 1 .. Len(frags') : f \in 1 .. Len(frags) \/ f = f0
         /\ \A f \in 1 .. Len(frags) :
              /\ frags'[f].txn = frags[f].txn
              /\ frags'[f].next = IF resumeFrags[l] # <<>> /\ f = f0 THEN l ELSE frags[f].next
         /\ \A f \in 1 .. Len(frags') :
              IsRoot(f)' <=> (f \in 1 .. Len(frags) /\ IsRoot(f)) \/ (resumeFragment = None /\ f = f0)
         /\ \A m \in Links : suspendFrag'[m] = IF m = l THEN f0 ELSE suspendFrag[m]
         /\ resumeFrags' = resumeFrags
<1> DEFINE all == IF resumeFragment = None THEN Append(frags, TxnFragment(n)) ELSE frags
<1>2. /\ frags \in Seq(Frag) /\ Len(frags) \in Nat
      /\ rootFragments \in Seq(Nat) /\ suspendFrag \in [Links -> Nat \cup {None}]
      /\ \A f \in 1 .. Len(frags) : frags[f] \in Frag
  BY DEF FragTypes
<1>0. resumeFragment = None => Len(Append(frags, TxnFragment(n))) = f0
  BY <1>2
<1>1. /\ frags' = IF resumeFrags[l] # <<>> THEN [all EXCEPT ![f0].next = l] ELSE all
      /\ rootFragments' = IF resumeFragment = None THEN Append(rootFragments, f0) ELSE rootFragments
      /\ suspendFrag' = [suspendFrag EXCEPT ![l] = f0] /\ resumeFrags' = resumeFrags
  BY <1>0 DEF AddSuspendFragment
<1>4. TxnFragment(n) \in Frag /\ TxnFragment(n).txn = n /\ TxnFragment(n).next = None
  BY <1>2 DEF TxnFragment, Frag
<1>5. /\ all \in Seq(Frag) /\ Len(all) \in Nat /\ f0 \in 1 .. Len(all)
      /\ Len(all) >= Len(frags) /\ \A f \in 1 .. Len(frags) : all[f] = frags[f]
      /\ \A f \in 1 .. Len(all) : f \in 1 .. Len(frags) \/ f = f0
      /\ resumeFragment = None => all[f0].txn = n /\ all[f0].next = None /\ Len(all) = Len(frags) + 1 /\ f0 \notin 1 .. Len(frags)
      /\ resumeFragment # None => Len(all) = Len(frags) /\ f0 \in 1 .. Len(frags)
  <2>1. CASE resumeFragment = None
    BY <1>2, <1>4, <2>1
  <2>2. CASE resumeFragment # None
    BY <1>2, <2>2 DEF FragTypes
  <2> QED
    BY <2>1, <2>2
<1> HIDE DEF all
<1>8. /\ frags' \in Seq(Frag) /\ Len(frags') = Len(all)
      /\ \A f \in 1 .. Len(all) : /\ frags'[f].txn = all[f].txn
                                  /\ frags'[f].next = IF resumeFrags[l] # <<>> /\ f = f0 THEN l ELSE all[f].next
  <2>0. \A f \in 1 .. Len(all) : all[f] \in Frag
    BY <1>5
  <2>1. CASE ~ (resumeFrags[l] # <<>>)
    BY <1>1, <1>5, <2>1
  <2>2. CASE resumeFrags[l] # <<>>
    <3> DEFINE y == [all[f0] EXCEPT !.next = l]
    <3>1. y \in Frag /\ y.txn = all[f0].txn /\ y.next = l
      BY <1>5, <2>0 DEF Frag
    <3>2. frags' = [all EXCEPT ![f0] = y]
      BY <1>1, <2>2
    <3> HIDE DEF y
    <3>3. frags' \in [1 .. Len(all) -> Frag] /\ \A f \in 1 .. Len(all) : frags'[f] = IF f = f0 THEN y ELSE all[f]
      BY <1>5, <3>1, <3>2
    <3>4. frags' \in Seq(Frag) /\ Len(frags') = Len(all)
      BY <1>5, <3>3
    <3> QED
      BY <2>2, <3>1, <3>3, <3>4
  <2> QED
    BY <2>1, <2>2
<1>9. \A f \in 1 .. Len(frags) : f \in 1 .. Len(all)
  BY <1>2, <1>5
<1>10. \A m \in Links : suspendFrag'[m] = IF m = l THEN f0 ELSE suspendFrag[m]
  BY <1>1, <1>2
<1>11. \A f \in 1 .. Len(frags') :
         IsRoot(f)' <=> (f \in 1 .. Len(frags) /\ IsRoot(f)) \/ (resumeFragment = None /\ f = f0)
  <2> TAKE f \in 1 .. Len(frags')
  <2>0. IsRoot(f) => f \in 1 .. Len(frags)
    BY DEF IsRoot, FragTypes
  <2>1. CASE resumeFragment # None
    BY <1>1, <2>0, <2>1 DEF IsRoot
  <2>2. CASE resumeFragment = None
    <3>1. /\ Len(rootFragments) \in Nat /\ Len(rootFragments') = Len(rootFragments) + 1
          /\ rootFragments'[Len(rootFragments) + 1] = f0
          /\ \A k \in 1 .. Len(rootFragments) : rootFragments'[k] = rootFragments[k]
      <4>1. f0 \in Nat
        BY <1>5
      <4> QED
        BY <1>1, <1>2, <2>2, <4>1
    <3>2. /\ \A k \in 1 .. Len(rootFragments') : k \in 1 .. Len(rootFragments) \/ k = Len(rootFragments) + 1
          /\ \A k \in 1 .. Len(rootFragments) : k \in 1 .. Len(rootFragments')
          /\ Len(rootFragments) + 1 \in 1 .. Len(rootFragments')
      BY <3>1
    <3>3. IsRoot(f)' <=> IsRoot(f) \/ f = f0
      BY <3>1, <3>2 DEF IsRoot
    <3> QED
      BY <2>0, <2>2, <3>3
  <2> QED
    BY <2>1, <2>2
<1>12. frags' \in Seq(Frag) /\ f0 \in 1 .. Len(frags') /\ Len(frags') >= Len(frags)
  BY <1>5, <1>8
<1>13. /\ resumeFragment = None => frags'[f0].txn = n /\ f0 \notin 1 .. Len(frags) /\ Len(frags') = Len(frags) + 1
       /\ resumeFragment # None => f0 \in 1 .. Len(frags) /\ Len(frags') = Len(frags)
       /\ \A f \in 1 .. Len(frags') : f \in 1 .. Len(frags) \/ f = f0
  BY <1>5, <1>8
<1>14. f0 \notin 1 .. Len(frags) => frags'[f0].next = IF resumeFrags[l] # <<>> THEN l ELSE None
  BY <1>5, <1>8
<1>15. \A f \in 1 .. Len(frags) :
              /\ frags'[f].txn = frags[f].txn
              /\ frags'[f].next = IF resumeFrags[l] # <<>> /\ f = f0 THEN l ELSE frags[f].next
  BY <1>5, <1>8, <1>9
<1> QED
  BY <1>1, <1>2, <1>10, <1>11, <1>12, <1>13, <1>14, <1>15

-----------------------------------------------------------------------------
(* No fragment is added, and no suspension.                                    *)
LEMMA SameCover ==
  ASSUME FragTypes, FragCover, Keeps, UNCHANGED fragVars,
         \A r \in 1 .. Len(heap) : \A d \in After(r) : Ending(d) /\ Suspends(d) => d \in CountersOf(r),
         \A r \in 1 .. Len(heap') : r \notin 1 .. Len(heap) =>
           /\ ~ Resumes(FirstAfter(r))
           /\ Opens(FirstAfter(r)) => \A d \in After(r) : ~ (Ending(d) /\ Suspends(d))
  PROVE  FragCover'
<1>1. frags' = frags /\ rootFragments' = rootFragments /\ resumeFrags' = resumeFrags /\ suspendFrag' = suspendFrag
  BY DEF fragVars
<1>2. \A f \in 1 .. Len(frags) : frags[f].txn \in 1 .. Len(heap) /\ StartOf(f)' = StartOf(f)
  BY <1>1 DEF FragTypes, Keeps, StartOf, First, FirstAfter
<1>3. \A f, l : (IsResume(f, l)' <=> IsResume(f, l)) /\ (IsRoot(f)' <=> IsRoot(f))
  BY <1>1 DEF IsResume, IsRoot
<1>4. \A r : First(r)' = FirstAfter(r) /\ CountersOf(r)' = After(r)
  BY DEF First, FirstAfter, CountersOf, After
<1>5. FragsKept'
  BY <1>1, <1>2, <1>3 DEF FragCover, FragsKept
<1>6. ResumesKept'
  BY <1>1, <1>2, <1>3 DEF FragCover, ResumesKept
<1>7. RootsKept'
  BY <1>1, <1>2, <1>3 DEF FragCover, RootsKept
<1>8. ResumesHaveFrags'
  BY <1>1, <1>4 DEF FragCover, ResumesHaveFrags, Keeps
<1>9. SuspendsHaveFrags'
  <2> SUFFICES ASSUME NEW r \in 1 .. Len(heap'), Opens(FirstAfter(r)), NEW l \in Links, EndsUnder(After(r), l)
               PROVE  suspendFrag[l] # None /\ frags[suspendFrag[l]].txn = r
    BY <1>1, <1>4 DEF SuspendsHaveFrags
  <2>1. r \in 1 .. Len(heap)
    BY DEF EndsUnder
  <2>2. Opens(First(r)) /\ EndsUnder(CountersOf(r), l)
    BY <2>1 DEF EndsUnder, Keeps
  <2> QED
    BY <2>1, <2>2 DEF FragCover, SuspendsHaveFrags
<1>10. SuspendsLinked'
  <2> SUFFICES ASSUME NEW l \in Links, suspendFrag[l] # None
               PROVE  /\ resumeFrags[l] # <<>> => frags[suspendFrag[l]].next # None
                      /\ EndsUnder(After(frags[suspendFrag[l]].txn), l)
                      /\ ~ Resumes(StartOf(suspendFrag[l])') => \A m \in Links : suspendFrag[m] = suspendFrag[l] => m = l
    BY <1>1, <1>4 DEF SuspendsLinked
  <2>1. suspendFrag[l] \in 1 .. Len(frags)
    BY DEF FragTypes
  <2>2. EndsUnder(CountersOf(frags[suspendFrag[l]].txn), l)
    BY DEF FragCover, SuspendsLinked
  <2>3. EndsUnder(After(frags[suspendFrag[l]].txn), l)
    BY <1>2, <2>1, <2>2 DEF EndsUnder, Keeps
  <2>4. StartOf(suspendFrag[l])' = StartOf(suspendFrag[l])
    <3>1. PICK f : f = suspendFrag[l]
      OBVIOUS
    <3>2. StartOf(f)' = StartOf(f)
      BY <1>2, <2>1, <3>1
    <3>3. StartOf(suspendFrag[l])' = StartOf(f)'
      BY <1>1, <3>1 DEF StartOf
    <3> QED
      BY <3>1, <3>2, <3>3
  <2> QED
    BY <2>3, <2>4 DEF FragCover, SuspendsLinked
<1>11. NextsLinked'
  BY <1>1 DEF FragCover, NextsLinked
<1> QED
  BY <1>5, <1>6, <1>7, <1>8, <1>9, <1>10, <1>11 DEF FragCover

(* addResumeFragment for a new stretch.                                        *)
LEMMA ResumeCover ==
  ASSUME FragTypes, FragCover, Keeps, NEW c, Resumes(c), c.data \in Links,
         Len(heap') = Len(heap) + 1, FirstAfter(Len(heap) + 1) = c, After(Len(heap) + 1) = {c},
         \A r \in 1 .. Len(heap) : After(r) = CountersOf(r),
         AddResumeFragment(c.data, Len(heap) + 1)
  PROVE  FragCover'
<1> DEFINE l0 == c.data
<1>n. PICK n : n = Len(heap) + 1
  OBVIOUS
<1>m. PICK m0 : m0 = Len(frags) + 1
  OBVIOUS
<1>1. Len(heap) \in Nat /\ n \in Nat /\ n \notin 1 .. Len(heap) /\ \A r \in 1 .. n : r \in 1 .. Len(heap) \/ r = n
  BY <1>n DEF Keeps
<1>2. /\ Len(frags) \in Nat /\ Len(frags') = m0 /\ frags'[m0].txn = n /\ frags'[m0].next = None
      /\ \A f \in 1 .. Len(frags) :
           /\ frags'[f].txn = frags[f].txn
           /\ frags'[f].next = IF resumeFrags[l0] = <<>> /\ suspendFrag[l0] = f THEN l0 ELSE frags[f].next
      /\ \A m \in Links : resumeFrags'[m] = <<>> => resumeFrags[m] = <<>> /\ m # l0
      /\ \A m \in Links : m # l0 => resumeFrags'[m] = resumeFrags[m]
      /\ rootFragments' = rootFragments /\ suspendFrag' = suspendFrag
  BY <1>1, <1>n, <1>m, ResumeFragIs
<1>3. \A m \in Links, f \in 1 .. Len(frags) + 1 :
        IsResume(f, m)' <=> (f \in 1 .. Len(frags) /\ IsResume(f, m)) \/ (f = m0 /\ m = l0)
  BY <1>1, <1>n, <1>m, ResumeFragIs
<1>4. /\ m0 \notin 1 .. Len(frags) /\ m0 \in 1 .. m0
      /\ \A f \in 1 .. m0 : f \in 1 .. Len(frags) \/ f = m0
      /\ \A f \in 1 .. Len(frags) : f \in 1 .. m0
  BY <1>2, <1>m
<1> HIDE DEF l0
<1>5. \A r : First(r)' = FirstAfter(r) /\ CountersOf(r)' = After(r)
  BY DEF First, FirstAfter, CountersOf, After
<1>6. /\ \A f \in 1 .. Len(frags) : frags[f].txn \in 1 .. Len(heap) /\ frags[f].txn # n /\ StartOf(f)' = StartOf(f)
      /\ StartOf(m0)' = c
  <2>1. \A f \in 1 .. Len(frags) : frags[f].txn \in 1 .. Len(heap)
    BY DEF FragTypes
  <2>2. \A f \in 1 .. Len(frags) : StartOf(f)' = StartOf(f)
    BY <1>2, <1>5, <2>1 DEF StartOf, Keeps
  <2>3. StartOf(m0)' = c
    BY <1>2, <1>5, <1>n DEF StartOf
  <2> QED
    BY <1>1, <2>1, <2>2, <2>3
<1>7. \A f \in 1 .. m0 : IsRoot(f)' <=> IsRoot(f)
  BY <1>2 DEF IsRoot
<1>8. ~ IsRoot(m0)
  BY <1>4 DEF IsRoot, FragTypes
<1>9. Opens(c) /\ l0 \in Links /\ c.data = l0
  BY DEF Opens, l0
<1>10. FragsKept'
  <2> SUFFICES ASSUME NEW f \in 1 .. m0
               PROVE  /\ Opens(StartOf(f)')
                      /\ (IF Resumes(StartOf(f)) THEN StartOf(f).data \in Links /\ IsResume(f, StartOf(f).data) ELSE IsRoot(f))'
                      /\ Resumes(StartOf(f)') => \A g \in 1 .. m0 : frags'[g].txn = frags'[f].txn => g = f
    BY <1>2 DEF FragsKept
  <2>1. CASE f \in 1 .. Len(frags)
    <3>1. StartOf(f)' = StartOf(f) /\ frags'[f].txn = frags[f].txn /\ frags[f].txn # n
      BY <1>2, <1>6, <2>1
    <3>2. /\ Opens(StartOf(f))
          /\ IF Resumes(StartOf(f)) THEN StartOf(f).data \in Links /\ IsResume(f, StartOf(f).data) ELSE IsRoot(f)
          /\ Resumes(StartOf(f)) => \A g \in 1 .. Len(frags) : frags[g].txn = frags[f].txn => g = f
      BY <2>1 DEF FragCover, FragsKept
    <3>3. Resumes(StartOf(f)) => \A g \in 1 .. m0 : frags'[g].txn = frags'[f].txn => g = f
      BY <1>2, <1>4, <3>1, <3>2
    <3>4. Resumes(StartOf(f)) => IsResume(f, StartOf(f).data)'
      <4> SUFFICES ASSUME Resumes(StartOf(f)) PROVE IsResume(f, StartOf(f).data)'
        OBVIOUS
      <4>0. PICK k : k = StartOf(f).data
        OBVIOUS
      <4>1. k \in Links /\ IsResume(f, k)
        BY <3>2, <4>0
      <4>2. f \in 1 .. Len(frags) + 1
        BY <1>4, <1>m
      <4>3. IsResume(f, k)'
        BY <1>3, <2>1, <4>1, <4>2
      <4>4. StartOf(f)'.data = k
        BY <3>1, <4>0
      <4> QED
        BY <4>3, <4>4
    <3> QED
      BY <1>7, <3>1, <3>2, <3>3, <3>4
  <2>2. CASE f = m0
    <3>1. StartOf(f)' = c /\ frags'[f].txn = n
      BY <1>2, <1>6, <2>2
    <3>2. IsResume(m0, l0)'
      BY <1>3, <1>4, <1>9, <1>m
    <3>3. \A g \in 1 .. m0 : frags'[g].txn = n => g = m0
      BY <1>2, <1>4, <1>6
    <3>4. IsResume(f, StartOf(f).data)'
      <4>1. IsResume(f, l0)' <=> IsResume(f, StartOf(f).data)'
        BY <1>9, <3>1 DEF IsResume, l0
      <4> QED
        BY <2>2, <3>2, <4>1
    <3> QED
      BY <1>9, <2>2, <3>1, <3>3, <3>4
  <2> QED
    BY <1>4, <2>1, <2>2
<1>11. ResumesKept'
  <2> SUFFICES ASSUME NEW l \in Links, NEW f \in 1 .. m0, IsResume(f, l)'
               PROVE  Resumes(StartOf(f)') /\ (StartOf(f)').data = l
    BY <1>2 DEF ResumesKept
  <2>1. f \in 1 .. Len(frags) + 1
    BY <1>m
  <2>2. (f \in 1 .. Len(frags) /\ IsResume(f, l)) \/ (f = m0 /\ l = l0)
    BY <1>3, <2>1
  <2> QED
    BY <1>6, <1>9, <2>2 DEF FragCover, ResumesKept
<1>12. RootsKept'
  <2> SUFFICES ASSUME NEW f \in 1 .. m0, IsRoot(f)' PROVE ~ Resumes(StartOf(f)')
    BY <1>2 DEF RootsKept
  <2>1. IsRoot(f) /\ f \in 1 .. Len(frags)
    BY <1>4, <1>7, <1>8
  <2> QED
    BY <1>6, <2>1 DEF FragCover, RootsKept
<1>13. ResumesHaveFrags'
  <2> SUFFICES ASSUME NEW r \in 1 .. n, Resumes(FirstAfter(r)) PROVE \E f \in 1 .. m0 : frags'[f].txn = r
    BY <1>2, <1>5, <1>n DEF ResumesHaveFrags
  <2>1. CASE r = n
    BY <1>2, <1>4, <2>1
  <2>2. CASE r \in 1 .. Len(heap)
    <3>1. Resumes(First(r))
      BY <2>2 DEF Keeps
    <3>2. PICK f \in 1 .. Len(frags) : frags[f].txn = r
      BY <2>2, <3>1 DEF FragCover, ResumesHaveFrags
    <3> QED
      BY <1>2, <1>4, <3>2
  <2> QED
    BY <1>1, <2>1, <2>2
<1>14. SuspendsHaveFrags'
  <2> SUFFICES ASSUME NEW r \in 1 .. n, Opens(FirstAfter(r)), NEW l \in Links, EndsUnder(After(r), l)
               PROVE  suspendFrag[l] # None /\ frags'[suspendFrag[l]].txn = r
    BY <1>2, <1>5, <1>n DEF SuspendsHaveFrags
  <2>1. r # n
    BY <1>9, <1>n DEF EndsUnder, Ending
  <2>2. r \in 1 .. Len(heap) /\ Opens(First(r)) /\ EndsUnder(CountersOf(r), l)
    BY <1>1, <2>1 DEF Keeps
  <2>3. suspendFrag[l] # None /\ frags[suspendFrag[l]].txn = r
    BY <2>2 DEF FragCover, SuspendsHaveFrags
  <2>4. suspendFrag[l] \in 1 .. Len(frags)
    BY <2>3 DEF FragTypes
  <2> QED
    BY <1>2, <2>3, <2>4
<1>15. SuspendsLinked'
  <2> SUFFICES ASSUME NEW l \in Links, suspendFrag[l] # None
               PROVE  /\ resumeFrags'[l] # <<>> => frags'[suspendFrag[l]].next # None
                      /\ EndsUnder(After(frags'[suspendFrag[l]].txn), l)
                      /\ ~ Resumes(StartOf(suspendFrag[l])') => \A m \in Links : suspendFrag[m] = suspendFrag[l] => m = l
    BY <1>2, <1>5 DEF SuspendsLinked
  <2>0. PICK f : f = suspendFrag[l]
    OBVIOUS
  <2>1. f \in 1 .. Len(frags) /\ frags'[f].txn = frags[f].txn /\ StartOf(f)' = StartOf(f)
        /\ frags'[f].next = IF resumeFrags[l0] = <<>> /\ suspendFrag[l0] = f THEN l0 ELSE frags[f].next
    <3>1. f \in 1 .. Len(frags)
      BY <2>0 DEF FragTypes
    <3> QED
      BY <1>2, <1>6, <3>1
  <2>2. /\ resumeFrags[l] # <<>> => frags[f].next # None
        /\ EndsUnder(CountersOf(frags[f].txn), l)
        /\ ~ Resumes(StartOf(f)) => \A m \in Links : suspendFrag[m] = f => m = l
    BY <2>0 DEF FragCover, SuspendsLinked
  <2>3. EndsUnder(After(frags'[f].txn), l)
    BY <1>6, <2>1, <2>2
  <2>4. l0 # None
    BY <1>9, NoneAssumption
  <2>5. resumeFrags'[l] # <<>> => frags'[f].next # None
    BY <1>2, <2>0, <2>1, <2>2, <2>4
  <2>6. ~ Resumes(StartOf(f)') => \A m \in Links : suspendFrag[m] = f => m = l
    BY <2>1, <2>2
  <2>7. StartOf(suspendFrag[l])' = StartOf(f)'
    BY <1>2, <2>0 DEF StartOf
  <2> QED
    BY <2>0, <2>3, <2>5, <2>6, <2>7
<1>16. NextsLinked'
  <2> SUFFICES ASSUME NEW f \in 1 .. m0, frags'[f].next # None PROVE suspendFrag[frags'[f].next] = f
    BY <1>2 DEF NextsLinked
  <2>1. f \in 1 .. Len(frags)
    BY <1>2, <1>4
  <2> QED
    BY <1>2, <2>1 DEF FragCover, NextsLinked
<1> QED
  BY <1>10, <1>11, <1>12, <1>13, <1>14, <1>15, <1>16 DEF FragCover

(* addSuspendFragment: the stretch that is read ends, under a new link.        *)
LEMMA SuspendCover ==
  ASSUME FragTypes, FragCover, Keeps, NEW c \in Sample, Ending(c), Suspends(c), c \in After(currentTxn),
         Len(heap') = Len(heap), currentTxn \in 1 .. Len(heap), Opens(First(currentTxn)),
         \A r \in 1 .. Len(heap) : r # currentTxn => After(r) = CountersOf(r),
         \A d \in After(currentTxn) : Ending(d) => d = c \/ d \in CountersOf(currentTxn),
         resumeFragment # None <=> Resumes(First(currentTxn)),
         resumeFragment # None => frags[resumeFragment].txn = currentTxn,
         \A r \in 1 .. Len(heap) : \A d \in CountersOf(r) : LinkOf(d) # LinkOf(c),
         AddSuspendFragment(LinkOf(c), currentTxn, resumeFragment)
  PROVE  FragCover'
<1> DEFINE l0 == LinkOf(c)
<1>0. PICK f0 : f0 = IF resumeFragment = None THEN Len(frags) + 1 ELSE resumeFragment
  OBVIOUS
<1>1. l0 \in Links /\ currentTxn \in Nat
  BY DEF LinkOf, Links, Sample, Counters, Keeps
<1>2. /\ Len(frags) \in Nat /\ frags' \in Seq(Frag) /\ f0 \in 1 .. Len(frags') /\ Len(frags') >= Len(frags)
      /\ resumeFragment = None => frags'[f0].txn = currentTxn /\ f0 \notin 1 .. Len(frags)
      /\ resumeFragment # None => f0 \in 1 .. Len(frags)
      /\ f0 \notin 1 .. Len(frags) => frags'[f0].next = IF resumeFrags[l0] # <<>> THEN l0 ELSE None
      /\ \A f \in 1 .. Len(frags') : f \in 1 .. Len(frags) \/ f = f0
      /\ \A f \in 1 .. Len(frags) :
           /\ frags'[f].txn = frags[f].txn
           /\ frags'[f].next = IF resumeFrags[l0] # <<>> /\ f = f0 THEN l0 ELSE frags[f].next
      /\ \A m \in Links : suspendFrag'[m] = IF m = l0 THEN f0 ELSE suspendFrag[m]
      /\ resumeFrags' = resumeFrags
  BY <1>0, <1>1, SuspendFragIs
<1>3. \A f \in 1 .. Len(frags') :
              IsRoot(f)' <=> (f \in 1 .. Len(frags) /\ IsRoot(f)) \/ (resumeFragment = None /\ f = f0)
  BY <1>0, <1>1, SuspendFragIs
<1>4. /\ frags'[f0].txn = currentTxn /\ f0 # None
      /\ resumeFragment # None => f0 = resumeFragment
  <2>1. f0 \in Nat
    BY <1>2
  <2> QED
    BY <1>0, <1>2, <2>1, NoneAssumption
<1> HIDE DEF l0
<1>5. \A r : First(r)' = FirstAfter(r) /\ CountersOf(r)' = After(r)
  BY DEF First, FirstAfter, CountersOf, After
<1>6. /\ \A f \in 1 .. Len(frags) : frags[f].txn \in 1 .. Len(heap) /\ StartOf(f)' = StartOf(f)
      /\ StartOf(f0)' = First(currentTxn)
      /\ \A f \in 1 .. Len(frags) : f \in 1 .. Len(frags')
  <2>1. \A f \in 1 .. Len(frags) : frags[f].txn \in 1 .. Len(heap)
    BY DEF FragTypes
  <2>2. \A f \in 1 .. Len(frags) : StartOf(f)' = StartOf(f)
    BY <1>2, <1>5, <2>1 DEF StartOf, Keeps
  <2>3. StartOf(f0)' = First(currentTxn)
    BY <1>4, <1>5 DEF StartOf, Keeps
  <2>4. \A f \in 1 .. Len(frags) : f \in 1 .. Len(frags')
    BY <1>2
  <2> QED
    BY <2>1, <2>2, <2>3, <2>4
<1>7. suspendFrag[l0] = None
  <2> SUFFICES ASSUME suspendFrag[l0] # None PROVE FALSE
    OBVIOUS
  <2>1. EndsUnder(CountersOf(frags[suspendFrag[l0]].txn), l0) /\ suspendFrag[l0] \in 1 .. Len(frags)
    BY <1>1 DEF FragCover, SuspendsLinked, FragTypes
  <2>2. frags[suspendFrag[l0]].txn \in 1 .. Len(heap)
    BY <1>6, <2>1
  <2> QED
    BY <2>1, <2>2 DEF EndsUnder, l0
<1>8. \A l \in Links : \A f : IsResume(f, l)' <=> IsResume(f, l)
  BY <1>2 DEF IsResume
<1>9. FragsKept'
  <2> SUFFICES ASSUME NEW f \in 1 .. Len(frags')
               PROVE  /\ Opens(StartOf(f)')
                      /\ (IF Resumes(StartOf(f)) THEN StartOf(f).data \in Links /\ IsResume(f, StartOf(f).data) ELSE IsRoot(f))'
                      /\ Resumes(StartOf(f)') => \A g \in 1 .. Len(frags') : frags'[g].txn = frags'[f].txn => g = f
    BY <1>2 DEF FragsKept
  <2>1. CASE f \in 1 .. Len(frags)
    <3>1. StartOf(f)' = StartOf(f) /\ frags'[f].txn = frags[f].txn
      BY <1>2, <1>6, <2>1
    <3>2. /\ Opens(StartOf(f))
          /\ IF Resumes(StartOf(f)) THEN StartOf(f).data \in Links /\ IsResume(f, StartOf(f).data) ELSE IsRoot(f)
          /\ Resumes(StartOf(f)) => \A g \in 1 .. Len(frags) : frags[g].txn = frags[f].txn => g = f
      BY <2>1 DEF FragCover, FragsKept
    <3>3. ASSUME Resumes(StartOf(f)), NEW g \in 1 .. Len(frags'), frags'[g].txn = frags'[f].txn PROVE g = f
      <4>1. CASE g \in 1 .. Len(frags)
        BY <1>2, <3>1, <3>2, <3>3, <4>1
      <4>2. CASE g = f0 /\ g \notin 1 .. Len(frags)
        <5>1. resumeFragment = None
          BY <1>2, <4>2
        <5>2. ~ Resumes(First(currentTxn)) /\ frags[f].txn = currentTxn
          BY <1>4, <3>1, <3>3, <4>2, <5>1
        <5> QED
          BY <3>3, <5>2 DEF StartOf
      <4> QED
        BY <1>2, <4>1, <4>2
    <3>4. Resumes(StartOf(f)) => IsResume(f, StartOf(f).data)'
      <4>0. PICK k : k = StartOf(f).data
        OBVIOUS
      <4>1. Resumes(StartOf(f)) => k \in Links /\ IsResume(f, k)
        BY <3>2, <4>0
      <4>2. StartOf(f)'.data = k
        BY <3>1, <4>0
      <4>3. Resumes(StartOf(f)) => IsResume(f, k)'
        BY <1>8, <4>1
      <4> QED
        BY <4>2, <4>3
    <3> QED
      BY <1>3, <2>1, <3>1, <3>2, <3>3, <3>4
  <2>2. CASE f = f0 /\ f0 \notin 1 .. Len(frags)
    <3>1. resumeFragment = None /\ ~ Resumes(First(currentTxn)) /\ StartOf(f)' = First(currentTxn)
      BY <1>2, <1>6, <2>2
    <3>2. IsRoot(f)'
      BY <1>2, <1>3, <2>2, <3>1
    <3> QED
      BY <3>1, <3>2
  <2> QED
    BY <1>2, <2>1, <2>2
<1>10. ResumesKept'
  <2> SUFFICES ASSUME NEW l \in Links, NEW f \in 1 .. Len(frags'), IsResume(f, l)'
               PROVE  Resumes(StartOf(f)') /\ (StartOf(f)').data = l
    BY DEF ResumesKept
  <2>1. IsResume(f, l)
    BY <1>8
  <2>2. f \in 1 .. Len(frags)
    BY <2>1 DEF IsResume, FragTypes
  <2> QED
    BY <1>6, <2>1, <2>2 DEF FragCover, ResumesKept
<1>11. RootsKept'
  <2> SUFFICES ASSUME NEW f \in 1 .. Len(frags'), IsRoot(f)' PROVE ~ Resumes(StartOf(f)')
    BY DEF RootsKept
  <2>1. CASE f \in 1 .. Len(frags) /\ IsRoot(f)
    BY <1>6, <2>1 DEF FragCover, RootsKept
  <2>2. CASE resumeFragment = None /\ f = f0
    BY <1>6, <2>2
  <2> QED
    BY <1>3, <2>1, <2>2
<1>12. ResumesHaveFrags'
  <2> SUFFICES ASSUME NEW r \in 1 .. Len(heap), Resumes(First(r)) PROVE \E f \in 1 .. Len(frags') : frags'[f].txn = r
    BY <1>5 DEF ResumesHaveFrags, Keeps
  <2>1. PICK f \in 1 .. Len(frags) : frags[f].txn = r
    BY DEF FragCover, ResumesHaveFrags
  <2> QED
    BY <1>2, <1>6, <2>1
<1>13. SuspendsHaveFrags'
  <2> SUFFICES ASSUME NEW r \in 1 .. Len(heap), Opens(First(r)), NEW l \in Links, EndsUnder(After(r), l)
               PROVE  suspendFrag'[l] # None /\ frags'[suspendFrag'[l]].txn = r
    BY <1>5 DEF SuspendsHaveFrags, Keeps
  <2>1. CASE EndsUnder(CountersOf(r), l)
    <3>1. suspendFrag[l] # None /\ frags[suspendFrag[l]].txn = r
      BY <2>1 DEF FragCover, SuspendsHaveFrags
    <3>2. suspendFrag[l] \in 1 .. Len(frags) /\ l # l0
      BY <1>7, <3>1 DEF FragTypes
    <3> QED
      BY <1>2, <3>1, <3>2
  <2>2. CASE ~ EndsUnder(CountersOf(r), l)
    <3>1. r = currentTxn /\ l = l0
      BY <2>2 DEF EndsUnder, l0
    <3> QED
      BY <1>1, <1>2, <1>4, <3>1
  <2> QED
    BY <2>1, <2>2
<1>14. SuspendsLinked'
  <2> SUFFICES ASSUME NEW l \in Links, suspendFrag'[l] # None
               PROVE  /\ resumeFrags[l] # <<>> => frags'[suspendFrag'[l]].next # None
                      /\ EndsUnder(After(frags'[suspendFrag'[l]].txn), l)
                      /\ ~ Resumes(StartOf(suspendFrag[l])') => \A m \in Links : suspendFrag'[m] = suspendFrag'[l] => m = l
    BY <1>2, <1>5 DEF SuspendsLinked
  <2>0. l0 # None
    BY <1>1, NoneAssumption
  <2>1. CASE l = l0
    <3>1. suspendFrag'[l] = f0
      BY <1>2, <2>1
    <3>2. EndsUnder(After(frags'[f0].txn), l)
      BY <1>4, <2>1 DEF EndsUnder, l0
    <3>3. resumeFrags[l] # <<>> => frags'[f0].next # None
      BY <1>2, <2>0, <2>1
    <3>4. ASSUME ~ Resumes(StartOf(f0)'), NEW m \in Links, suspendFrag'[m] = f0 PROVE m = l
      <4>1. f0 \notin 1 .. Len(frags)
        BY <1>2, <1>6, <3>4
      <4>2. m # l0 => suspendFrag[m] = f0
        BY <1>2, <3>4
      <4> QED
        BY <1>4, <2>1, <4>1, <4>2 DEF FragTypes
    <3>5. (StartOf(suspendFrag[l])') = StartOf(f0)'
      BY <3>1 DEF StartOf
    <3> QED
      BY <3>1, <3>2, <3>3, <3>4, <3>5
  <2>2. CASE l # l0
    <3>0. PICK f : f = suspendFrag[l]
      OBVIOUS
    <3>1. suspendFrag'[l] = f
      BY <1>2, <2>2, <3>0
    <3>2. f \in 1 .. Len(frags)
      BY <3>0, <3>1 DEF FragTypes
    <3>3. /\ resumeFrags[l] # <<>> => frags[f].next # None
          /\ EndsUnder(CountersOf(frags[f].txn), l)
          /\ ~ Resumes(StartOf(f)) => \A m \in Links : suspendFrag[m] = f => m = l
      BY <3>0, <3>1 DEF FragCover, SuspendsLinked
    <3>4. frags'[f].txn = frags[f].txn /\ frags[f].txn \in 1 .. Len(heap) /\ StartOf(f)' = StartOf(f)
      BY <1>2, <1>6, <3>2
    <3>5. EndsUnder(After(frags'[f].txn), l)
      <4>1. CountersOf(frags[f].txn) \subseteq After(frags[f].txn)
        BY <3>4 DEF Keeps
      <4> QED
        BY <3>3, <3>4, <4>1 DEF EndsUnder
    <3>6. resumeFrags[l] # <<>> => frags'[f].next # None
      BY <1>2, <2>0, <3>2, <3>3
    <3>7. ASSUME ~ Resumes(StartOf(f)'), NEW m \in Links, suspendFrag'[m] = f PROVE m = l
      <4>1. CASE m = l0
        <5>1. f = f0 /\ resumeFragment # None
          BY <1>2, <3>2, <3>7, <4>1
        <5> QED
          BY <1>6, <3>7, <5>1
      <4>2. CASE m # l0
        BY <1>2, <3>3, <3>4, <3>7, <4>2
      <4> QED
        BY <4>1, <4>2
    <3>8. StartOf(suspendFrag[l])' = StartOf(f)'
      BY <3>1 DEF StartOf
    <3>9. ASSUME ~ Resumes(StartOf(suspendFrag[l])'), NEW m \in Links, suspendFrag'[m] = f PROVE m = l
      BY <3>7, <3>8, <3>9
    <3> QED
      BY <3>1, <3>5, <3>6, <3>9
  <2> QED
    BY <2>1, <2>2
<1>15. NextsLinked'
  <2> SUFFICES ASSUME NEW f \in 1 .. Len(frags'), frags'[f].next # None PROVE suspendFrag'[frags'[f].next] = f
    BY DEF NextsLinked
  <2>1. CASE frags'[f].next = l0 /\ f = f0
    BY <1>1, <1>2, <2>1
  <2>2. CASE ~ (frags'[f].next = l0 /\ f = f0)
    <3>1. f \in 1 .. Len(frags) /\ frags'[f].next = frags[f].next
      BY <1>2, <2>2
    <3>2. suspendFrag[frags[f].next] = f /\ frags[f].next \in Links /\ f # None
      <4>1. frags[f] \in Frag
        BY <3>1 DEF FragTypes
      <4> QED
        BY <1>2, <3>1, <4>1, NoneAssumption DEF FragCover, NextsLinked, Frag
    <3> QED
      BY <1>2, <1>7, <3>1, <3>2
  <2> QED
    BY <2>1, <2>2
<1> QED
  BY <1>9, <1>10, <1>11, <1>12, <1>13, <1>14, <1>15 DEF FragCover

-----------------------------------------------------------------------------
(* Samples with time stamps of their own.                                      *)
Apart(L) == L \subseteq Sample /\ \A c, d \in L : c.tsc = d.tsc => c = d

(* The stretch that is read is the last one of its thread.                     *)
LEMMA StretchOrder ==
  ASSUME NEW L, Apart(L), NEW s, LastStart(L, s)
  PROVE  /\ \A u \in Starts(L) : u # s /\ u.threadId = s.threadId => ~ LastStart(L, u)
         /\ \A d \in L : d.threadId = s.threadId => d \in Region(L, s) \/ Earlier(d, s)
<1>1. \A d \in L : d.tsc \in Nat
  BY BoundsAssumption DEF Apart, Sample, Counters
<1>2. s \in L /\ s \in Starts(L) /\ \A u \in Starts(L) : ~ Earlier(s, u)
  BY DEF LastStart, Starts
<1>3. \A d \in L : d.threadId = s.threadId => d = s \/ Earlier(d, s) \/ Earlier(s, d)
  BY <1>1, <1>2 DEF Apart, Earlier
<1>4. \A u \in Starts(L) : u \in L
  BY DEF Starts
<1>5. ASSUME NEW u \in Starts(L), u # s, u.threadId = s.threadId PROVE ~ LastStart(L, u)
  BY <1>2, <1>3, <1>4, <1>5 DEF LastStart
<1>6. ASSUME NEW d \in L, d.threadId = s.threadId PROVE d \in Region(L, s) \/ Earlier(d, s)
  BY <1>2, <1>3, <1>6 DEF Region
<1> QED
  BY <1>5, <1>6

(* When the next sample starts a stretch.                                      *)
LEMMA StartsWhen ==
  ASSUME NEW L, Apart(L), NEW c, Newest(L, c), OpensFirst(L)
  PROVE  /\ c \in Starts(L \cup {c}) => Opens(c)
         /\ Resumes(c) => c \in Starts(L \cup {c})
         /\ Opens(c) /\ (\A d \in L : d.threadId = c.threadId => ~ Opens(d)) => c \in Starts(L \cup {c})
         /\ \A s : LastStart(L, s) /\ s.threadId = c.threadId /\ Opens(c) /\ ~ Resumes(c)
                     => (c \in Starts(L \cup {c}) <=> IsClosed(L, s))
<1>0. L \subseteq Sample
  BY DEF Apart
<1>1. c \in Starts(L \cup {c}) <=>
              Opens(c) /\ (~ Resumes(c) => \A d \in L : Earlier(d, c) /\ Opens(d) =>
                                             \E e \in L : Earlier(d, e) /\ Earlier(e, c) /\ Ending(e))
  BY <1>0, StartsOfMore
<1>2. \A d \in L : Earlier(d, c) <=> d.threadId = c.threadId
  BY <1>0, NewestLast
<1>3. Resumes(c) => Opens(c)
  BY DEF Opens
<1>4. ASSUME NEW s, LastStart(L, s), s.threadId = c.threadId, Opens(c), ~ Resumes(c)
      PROVE  c \in Starts(L \cup {c}) <=> IsClosed(L, s)
  <2>1. \A d \in L : d.threadId = c.threadId /\ Opens(d) => d \in Region(L, s) \/ Earlier(d, s)
    BY <1>4, StretchOrder
  <2> QED
    BY <1>0, <1>4, <2>1, BeginStarts
<1> QED
  BY <1>1, <1>2, <1>3, <1>4

(* The stretches of the other objects stay as they are.                        *)
LEMMA OthersSame ==
  ASSUME NEW L, Apart(L), NEW c, Newest(L, c), NEW u \in Starts(L),
         \/ c \in Starts(L \cup {c})
         \/ \A d \in L : d.threadId = c.threadId => ~ Opens(d)
         \/ \E s : LastStart(L, s) /\ s.threadId = c.threadId /\ s # u
  PROVE  /\ Region(L \cup {c}, u) = Region(L, u) /\ Stretch(L \cup {c}, u) = Stretch(L, u)
         /\ (IsClosed(L \cup {c}, u) <=> IsClosed(L, u))
<1>0. L \subseteq Sample /\ u \in L /\ Opens(u)
  BY DEF Apart, Starts
<1>1. u.threadId # c.threadId \/ c \in Starts(L \cup {c}) \/ ~ LastStart(L, u)
  BY <1>0, StretchOrder
<1> QED
  BY <1>0, <1>1, RegionSame

(* The openings of a stretch stay before its closing counters.                 *)
LEMMA OpensFirstStays ==
  ASSUME NEW L, Apart(L), NEW c, Newest(L, c), OpensFirst(L),
         \/ \A d \in L : d.threadId = c.threadId => ~ Opens(d)
         \/ \E s : LastStart(L, s) /\ s.threadId = c.threadId
  PROVE  OpensFirst(L \cup {c})
<1> DEFINE M == L \cup {c}
<1>0. L \subseteq Sample
  BY DEF Apart
<1> SUFFICES ASSUME NEW u \in Starts(M), NEW d \in Region(M, u), NEW e \in Region(M, u), Opens(d), Ending(e)
             PROVE  d.tsc < e.tsc
  BY DEF OpensFirst
<1>1. u \in L => u \in Starts(L)
  BY <1>0, StartsOfMore
<1>2. u \in L \/ u = c
  BY DEF Starts
<1>3. CASE u = c
  <2>1. Region(M, u) = {c}
    BY <1>0, <1>3, RegionStarts
  <2> QED
    BY <2>1 DEF Ending
<1>4. CASE u \in L /\ Region(M, u) = Region(L, u)
  BY <1>1, <1>4 DEF OpensFirst
<1>5. CASE u \in L /\ Region(M, u) # Region(L, u)
  <2>1. c \notin Starts(M)
    BY <1>1, <1>5, OthersSame
  <2>2. PICK s : LastStart(L, s) /\ s.threadId = c.threadId /\ s = u
    BY <1>1, <1>5, OthersSame
  <2>3. Region(M, u) = Region(L, u) \cup {c}
    <3>1. LastStart(L, u) /\ u.threadId = c.threadId
      BY <2>2
    <3>2. c \notin Starts(L \cup {c})
      BY <2>1
    <3>3. Region(L \cup {c}, u) = Region(L, u) \cup {c}
      <4> HIDE DEF M
      <4> QED
        BY <1>0, <3>1, <3>2, RegionGrows
    <3> QED
      BY <3>3
  <2>4. CASE d \in Region(L, u) /\ e \in Region(L, u)
    BY <1>1, <1>5, <2>4 DEF OpensFirst
  <2>5. CASE d \in Region(L, u) /\ e = c
    <3>1. d \in L /\ d.threadId = u.threadId
      BY <2>5 DEF Region, Earlier
    <3> QED
      BY <2>2, <2>5, <3>1 DEF Newest
  <2>6. CASE d = c /\ e \in Region(L, u)
    <3>1. IsClosed(L, u)
      BY <2>6 DEF IsClosed
    <3>2. ~ Resumes(c)
      BY <2>1, StartsWhen
    <3>3. c \in Starts(M)
      BY <2>2, <2>6, <3>1, <3>2, StartsWhen
    <3> QED
      BY <2>1, <3>3
  <2>7. CASE d = c /\ e = c
    BY <2>7 DEF Ending
  <2> QED
    BY <2>3, <2>4, <2>5, <2>6, <2>7
<1> QED
  BY <1>2, <1>3, <1>4, <1>5

(* What is set aside after the end of a stretch does not close it.             *)
LEMMA AsideInner ==
  ASSUME NEW L, NEW s, NEW d \in Region(L, s), d \notin Stretch(L, s), d.tsc \in Nat
  PROVE  ~ Ending(d)
BY DEF Stretch

(* No start is lost and none but the new sample is added.                      *)
LEMMA StartsAre ==
  ASSUME NEW L, L \subseteq Sample, NEW c, Newest(L, c)
  PROVE  /\ c \in Starts(L \cup {c}) => Starts(L \cup {c}) = Starts(L) \cup {c}
         /\ c \notin Starts(L \cup {c}) => Starts(L \cup {c}) = Starts(L)
<1>1. \A d \in L : d \in Starts(L \cup {c}) <=> d \in Starts(L)
  BY StartsOfMore
<1>2. Starts(L \cup {c}) \subseteq L \cup {c} /\ Starts(L) \subseteq L
  BY DEF Starts
<1> QED
  BY <1>1, <1>2

-----------------------------------------------------------------------------
(* What the loader has made of the samples it read. An object holds a stretch, *)
(* or is compromised; it is under way, reported, or in a fragment.             *)
InCompromised(r) == \E k \in 1 .. Len(compromisedTxns) : compromisedTxns[k] = r
InTxns(r) == \E i \in DOMAIN txns : txns[i] = r
InFrags(r) == \E f \in 1 .. Len(frags) : frags[f].txn = r

NoneUnderWay == thread # None /\ currentTxn = None => \A c \in Read : c.threadId = thread => ~ Opens(c)
CurrentIs(s) ==
  /\ LastStart(Read, s) /\ s.threadId = thread
  /\ heap[currentTxn].hasEndProbe <=> IsClosed(Read, s)
  /\ ToSet(ephemeralCounters) = Region(Read, s) \ Stretch(Read, s)
  /\ resumeFragment # None <=> Resumes(s)
CurrentStretch ==
  currentTxn # None => CurrentIs(First(currentTxn)) /\ (suspendingTxn => InFrags(currentTxn))

ObjectsHold ==
  \A r \in 1 .. Len(heap) :
    /\ heap[r].counters # <<>> /\ CountersOf(r) \subseteq Read
    /\ Opens(First(r)) => First(r) \in Starts(Read) /\ CountersOf(r) = Stretch(Read, First(r))
    /\ ~ Opens(First(r)) => InCompromised(r) /\ r # currentTxn
ObjectsPlaced ==
  \A r \in 1 .. Len(heap) : r = currentTxn \/ InCompromised(r) \/ InTxns(r) \/ InFrags(r)
ObjectsDiffer == \A r, q \in 1 .. Len(heap) : First(r) = First(q) => r = q
StartsHaveObjects == \A s \in Starts(Read) : \E r \in 1 .. Len(heap) : First(r) = s
AllCovered ==
  \A c \in Read : \/ c \in ToSet(nonTxnCounters)
                  \/ c \in ToSet(ephemeralCounters)
                  \/ \E r \in 1 .. Len(heap) : c \in CountersOf(r)
Objects == ObjectsHold /\ ObjectsPlaced /\ ObjectsDiffer /\ StartsHaveObjects /\ AllCovered

AsideRead == ToSet(ephemeralCounters) \subseteq Read
LoadingCover == OpensFirst(Read) /\ AsideRead /\ NoneUnderWay /\ CurrentStretch /\ Objects /\ FragCover

(* A new object at the end of the heap.                                        *)
LEMMA HeapAppends ==
  ASSUME heap \in Seq(Txn), NEW x \in Txn, NEW c, x.counters # <<>>, x.counters[1] = c, heap' = Append(heap, x)
  PROVE  /\ heap' \in Seq(Txn) /\ Len(heap) \in Nat /\ Len(heap') = Len(heap) + 1
         /\ heap'[Len(heap) + 1] = x /\ FirstAfter(Len(heap) + 1) = c /\ After(Len(heap) + 1) = ToSet(x.counters)
         /\ \A r \in 1 .. Len(heap) : heap'[r] = heap[r] /\ FirstAfter(r) = First(r) /\ After(r) = CountersOf(r)
         /\ Keeps
<1>1. /\ heap' \in Seq(Txn) /\ Len(heap) \in Nat /\ Len(heap') = Len(heap) + 1
      /\ heap'[Len(heap) + 1] = x /\ \A r \in 1 .. Len(heap) : heap'[r] = heap[r]
  OBVIOUS
<1>2. \A r \in 1 .. Len(heap) : FirstAfter(r) = First(r) /\ After(r) = CountersOf(r)
  BY <1>1 DEF FirstAfter, First, After, CountersOf
<1>3. Keeps
  BY <1>1, <1>2 DEF Keeps
<1> QED
  BY <1>1, <1>2, <1>3 DEF FirstAfter, After

(* Counters for the transaction under way.                                     *)
LEMMA HeapAdds ==
  ASSUME heap \in Seq(Txn), NEW q \in 1 .. Len(heap), heap[q].counters # <<>>,
         NEW cs \in Seq(Sample), NEW e \in BOOLEAN, heap' = [heap EXCEPT ![q] = AddCounters(@, cs, e)]
  PROVE  /\ heap' \in Seq(Txn) /\ Len(heap') = Len(heap)
         /\ heap'[q].counters # <<>> /\ After(q) = CountersOf(q) \cup ToSet(cs)
         /\ (heap'[q].hasEndProbe <=> heap[q].hasEndProbe \/ e)
         /\ \A r \in 1 .. Len(heap) : FirstAfter(r) = First(r) /\ (r # q => heap'[r] = heap[r] /\ After(r) = CountersOf(r))
         /\ Keeps
<1> DEFINE x == heap[q]
           y == AddCounters(x, cs, e)
<1>0. heap \in [1 .. Len(heap) -> Txn] /\ DOMAIN heap = 1 .. Len(heap) /\ Len(heap) \in Nat
  OBVIOUS
<1>1. x \in Txn /\ x.counters \in Seq(Sample) /\ x.hasEndProbe \in BOOLEAN
  BY <1>0, Zenon DEF Txn
<1>2. y \in Txn /\ y.counters = x.counters \o cs
  BY <1>1, AddCountersType
<1>3. ToSet(y.counters) = ToSet(x.counters) \cup ToSet(cs)
  BY <1>1, <1>2, ConcatSet
<1>4. y.hasEndProbe <=> x.hasEndProbe \/ e
  <2>1. y.hasEndProbe = (x.hasEndProbe \/ e)
    BY <1>1, Zenon DEF AddCounters, Txn
  <2> QED
    BY <2>1
<1>5. y.counters # <<>> /\ y.counters[1] = x.counters[1]
  <2> DEFINE a == x.counters
  <2>1. a \in Seq(Sample) /\ a # <<>>
    BY <1>1
  <2> HIDE DEF a
  <2>2. Len(a) \in Nat /\ Len(a) > 0 /\ Len(a \o cs) = Len(a) + Len(cs) /\ Len(cs) \in Nat /\ (a \o cs)[1] = a[1]
    BY <2>1
  <2>3. a \o cs # <<>>
    BY <2>1, <2>2
  <2> QED
    BY <1>2, <2>2, <2>3 DEF a
<1> HIDE DEF y
<1>6. heap' = [heap EXCEPT ![q] = y]
  BY DEF y
<1>7. /\ heap' \in [1 .. Len(heap) -> Txn]
      /\ \A r \in 1 .. Len(heap) : heap'[r] = IF r = q THEN y ELSE heap[r]
  BY <1>0, <1>2, <1>6
<1>8. heap' \in Seq(Txn) /\ Len(heap') = Len(heap)
  BY <1>0, <1>7, ListOf
<1>9. \A r \in 1 .. Len(heap) : FirstAfter(r) = First(r) /\ (r # q => heap'[r] = heap[r] /\ After(r) = CountersOf(r))
  BY <1>5, <1>7 DEF FirstAfter, First, After, CountersOf
<1>10. After(q) = CountersOf(q) \cup ToSet(cs) /\ heap'[q] = y
  BY <1>3, <1>7 DEF After, CountersOf
<1>11. Keeps
  BY <1>0, <1>8, <1>9, <1>10 DEF Keeps
<1> QED
  BY <1>4, <1>5, <1>8, <1>9, <1>10, <1>11

(* The stretch that begins.                                                    *)
LEMMA StartsObject ==
  ASSUME FragTypes, LoadingCover, nonTxnCounters \in Seq(Sample), ephemeralCounters \in Seq(Sample),
         Apart(Read), NEW c, Newest(Read, c), Read' = Read \cup {c}, c \in Starts(Read \cup {c}),
         c.threadId = thread, thread' = thread, thread # None, Resumes(c) => c.data \in Links,
         currentTxn # None => First(currentTxn).threadId = thread,
         BuildTxn(c), FlushEphemeral, currentTxn' = Len(heap) + 1,
         \A r : InTxns(r) => InTxns(r)',
         \A r : r = currentTxn /\ r # None => InTxns(r)' \/ InFrags(r)
  PROVE  LoadingCover'
<1>l. PICK L : L = Read
  OBVIOUS
<1>m. PICK M : M = Read \cup {c}
  OBVIOUS
<1>n. PICK n : n = Len(heap) + 1
  OBVIOUS
<1>0. /\ heap \in Seq(Txn) /\ c \in Sample /\ L \subseteq Sample /\ Opens(c) /\ M = L \cup {c} /\ Read' = M
      /\ Apart(L) /\ Newest(L, c) /\ c \in Starts(M) /\ OpensFirst(L)
  BY <1>l, <1>m DEF FragTypes, Newest, Apart, Starts, LoadingCover
<1>1. Transaction(c) \in Txn /\ Transaction(c).counters = <<c>> /\ ToSet(<<c>>) = {c} /\ Transaction(c).hasEndProbe = FALSE
  BY <1>0, TransactionOfThread DEF Transaction, ToSet
<1>2. heap' = Append(heap, Transaction(c)) /\ suspendingTxn' = FALSE
  BY DEF BuildTxn
<1>3. /\ heap' \in Seq(Txn) /\ Len(heap) \in Nat /\ Len(heap') = n /\ heap'[n] = Transaction(c)
      /\ FirstAfter(n) = c /\ After(n) = {c} /\ Keeps /\ heap'[n].counters # <<>>
      /\ \A r \in 1 .. Len(heap) : heap'[r] = heap[r] /\ FirstAfter(r) = First(r) /\ After(r) = CountersOf(r)
  <2>1. Transaction(c).counters # <<>> /\ Transaction(c).counters[1] = c
    BY <1>1
  <2> QED
    BY <1>0, <1>1, <1>2, <1>n, <2>1, HeapAppends
<1>4. /\ n \notin 1 .. Len(heap) /\ n \in 1 .. n
      /\ \A r \in 1 .. n : r \in 1 .. Len(heap) \/ r = n
      /\ \A r \in 1 .. Len(heap) : r \in 1 .. n
  BY <1>3, <1>n
<1>5. \A r : First(r)' = FirstAfter(r) /\ CountersOf(r)' = After(r)
  BY DEF First, FirstAfter, CountersOf, After
<1>6. LastStart(M, c) /\ Region(M, c) = {c} /\ Stretch(M, c) = {c} /\ ~ IsClosed(M, c)
  BY <1>0, RegionStarts
<1>7. \A u \in Starts(L) : Stretch(M, u) = Stretch(L, u)
  BY <1>0, OthersSame
<1>8. Starts(M) = Starts(L) \cup {c}
  BY <1>0, StartsAre
<1>9. OpensFirst(M)
  <2>1. \/ \A d \in L : d.threadId = c.threadId => ~ Opens(d)
        \/ \E s : LastStart(L, s) /\ s.threadId = c.threadId
    BY <1>l DEF LoadingCover, NoneUnderWay, CurrentStretch, CurrentIs
  <2> QED
    BY <1>0, <2>1, OpensFirstStays
<1>10. NoneUnderWay'
  <2>1. currentTxn' # None
    BY <1>3, <1>n, NoneAssumption
  <2> QED
    BY <2>1 DEF NoneUnderWay
<1>11. /\ ephemeralCounters' = <<>> /\ nonTxnCounters' = nonTxnCounters \o ephemeralCounters
       /\ compromisedTxns' = compromisedTxns
  BY DEF FlushEphemeral
<1>12. ToSet(nonTxnCounters') = ToSet(nonTxnCounters) \cup ToSet(ephemeralCounters)
  BY <1>11, ConcatSet
<1>13. /\ resumeFragment' # None <=> Resumes(c)
       /\ FragCover'
       /\ \A r : InFrags(r) => InFrags(r)'
  <2>0. FragCover
    BY DEF LoadingCover
  <2>1. CASE Resumes(c)
    <3>1. AddResumeFragment(c.data, n) /\ resumeFragment' = Len(frags) + 1
      BY <1>n, <2>1 DEF BuildTxn
    <3>2. FragCover'
      BY <1>3, <1>n, <2>0, <2>1, <3>1, ResumeCover
    <3>3. resumeFragment' # None
      BY <3>1, NoneAssumption DEF FragTypes
    <3>4. /\ Len(frags) \in Nat /\ Len(frags') = Len(frags) + 1
          /\ \A f \in 1 .. Len(frags) : frags'[f].txn = frags[f].txn
      <4>1. n \in Nat
        BY <1>3, <1>n
      <4> QED
        BY <2>1, <3>1, <4>1, ResumeFragIs
    <3>5. \A f \in 1 .. Len(frags) : f \in 1 .. Len(frags')
      BY <3>4
    <3>6. \A r : InFrags(r) => InFrags(r)'
      BY <3>4, <3>5 DEF InFrags
    <3> QED
      BY <2>1, <3>2, <3>3, <3>6
  <2>2. CASE ~ Resumes(c)
    <3>1. resumeFragment' = None /\ UNCHANGED fragVars
      BY <2>2 DEF BuildTxn
    <3>2. FragCover'
      <4>1. \A r \in 1 .. Len(heap') : r \notin 1 .. Len(heap) => r = n
        BY <1>3, <1>4
      <4>2. \A d \in After(n) : ~ Ending(d)
        BY <1>0, <1>3 DEF Ending
      <4> QED
        BY <1>3, <2>0, <2>2, <3>1, <4>1, <4>2, SameCover
    <3>3. \A r : InFrags(r) => InFrags(r)'
      BY <3>1 DEF InFrags, fragVars
    <3> QED
      BY <2>2, <3>1, <3>2, <3>3
  <2> QED
    BY <2>1, <2>2
<1>14. CurrentStretch'
  <2>1. First(currentTxn)' = c
    BY <1>3, <1>n DEF First, FirstAfter
  <2>2. ToSet(ephemeralCounters') = Region(M, c) \ Stretch(M, c)
    BY <1>6, <1>11 DEF ToSet
  <2>3. heap'[currentTxn'].hasEndProbe <=> IsClosed(M, c)
    BY <1>1, <1>3, <1>6, <1>n
  <2>4. CurrentIs(c)'
    BY <1>0, <1>6, <1>13, <2>2, <2>3 DEF CurrentIs
  <2>5. CurrentIs(First(currentTxn))' <=> CurrentIs(c)'
    BY <2>1 DEF CurrentIs
  <2> QED
    BY <1>2, <2>4, <2>5 DEF CurrentStretch
<1>15. \A r : InCompromised(r)' <=> InCompromised(r)
  BY <1>11 DEF InCompromised
<1>16. ObjectsHold'
  <2> SUFFICES ASSUME NEW r \in 1 .. n
               PROVE  /\ heap'[r].counters # <<>> /\ After(r) \subseteq M
                      /\ Opens(FirstAfter(r)) => FirstAfter(r) \in Starts(M) /\ After(r) = Stretch(M, FirstAfter(r))
                      /\ ~ Opens(FirstAfter(r)) => InCompromised(r)' /\ r # currentTxn'
    BY <1>0, <1>3, <1>5 DEF ObjectsHold
  <2>1. CASE r = n
    BY <1>0, <1>3, <1>6, <2>1
  <2>2. CASE r \in 1 .. Len(heap)
    <3>1. /\ heap[r].counters # <<>> /\ CountersOf(r) \subseteq L
          /\ Opens(First(r)) => First(r) \in Starts(L) /\ CountersOf(r) = Stretch(L, First(r))
          /\ ~ Opens(First(r)) => InCompromised(r)
      BY <1>l, <2>2 DEF LoadingCover, Objects, ObjectsHold
    <3>2. r # currentTxn' /\ heap'[r] = heap[r] /\ FirstAfter(r) = First(r) /\ After(r) = CountersOf(r)
      BY <1>3, <1>4, <1>n, <2>2
    <3> QED
      BY <1>0, <1>7, <1>8, <1>15, <3>1, <3>2
  <2> QED
    BY <1>4, <2>1, <2>2
<1>17. ObjectsPlaced'
  <2> SUFFICES ASSUME NEW r \in 1 .. n PROVE r = currentTxn' \/ InCompromised(r)' \/ InTxns(r)' \/ InFrags(r)'
    BY <1>3 DEF ObjectsPlaced
  <2>1. CASE r = n
    BY <1>n, <2>1
  <2>2. CASE r \in 1 .. Len(heap)
    <3>1. currentTxn = r => currentTxn # None
      BY <1>3, <2>2, NoneAssumption
    <3>2. currentTxn = r => InTxns(r)' \/ InFrags(r)
      BY <3>1
    <3> QED
      BY <1>13, <1>15, <2>2, <3>2 DEF LoadingCover, Objects, ObjectsPlaced
  <2> QED
    BY <1>4, <2>1, <2>2
<1>18. ObjectsDiffer'
  <2>1. \A r \in 1 .. Len(heap) : First(r) \in L
    <3> TAKE r \in 1 .. Len(heap)
    <3>1. CountersOf(r) \subseteq L /\ heap[r].counters # <<>> /\ heap[r].counters \in Seq(Sample)
      <4>1. heap[r] \in Txn
        BY <1>0
      <4> QED
        BY <1>l, <4>1 DEF LoadingCover, Objects, ObjectsHold, Txn
    <3>2. heap[r].counters[1] \in ToSet(heap[r].counters)
      BY <3>1 DEF ToSet
    <3> QED
      BY <3>1, <3>2 DEF First, CountersOf
  <2>2. \A r \in 1 .. Len(heap) : FirstAfter(r) # c
    BY <1>0, <1>3, <2>1 DEF Newest
  <2> SUFFICES ASSUME NEW r \in 1 .. n, NEW q \in 1 .. n, FirstAfter(r) = FirstAfter(q) PROVE r = q
    BY <1>3, <1>5 DEF ObjectsDiffer
  <2>3. \A x, y \in 1 .. Len(heap) : First(x) = First(y) => x = y
    BY DEF LoadingCover, Objects, ObjectsDiffer
  <2> QED
    BY <1>3, <1>4, <2>2, <2>3
<1>19. StartsHaveObjects'
  <2> SUFFICES ASSUME NEW s \in Starts(L) \cup {c} PROVE \E r \in 1 .. n : FirstAfter(r) = s
    BY <1>0, <1>3, <1>5, <1>8 DEF StartsHaveObjects
  <2>1. CASE s = c
    BY <1>3, <1>4, <2>1
  <2>2. CASE s \in Starts(L)
    <3>1. PICK r \in 1 .. Len(heap) : First(r) = s
      BY <1>l, <2>2 DEF LoadingCover, Objects, StartsHaveObjects
    <3> QED
      BY <1>3, <1>4, <3>1
  <2> QED
    BY <2>1, <2>2
<1>20. AllCovered'
  <2> SUFFICES ASSUME NEW d \in L \cup {c}
               PROVE  d \in ToSet(nonTxnCounters') \/ \E r \in 1 .. n : d \in After(r)
    BY <1>0, <1>3, <1>5 DEF AllCovered
  <2>1. CASE d = c
    BY <1>3, <1>4, <2>1
  <2>2. CASE d \in L
    <3>1. \/ d \in ToSet(nonTxnCounters)
          \/ d \in ToSet(ephemeralCounters)
          \/ \E r \in 1 .. Len(heap) : d \in CountersOf(r)
      BY <1>l, <2>2 DEF LoadingCover, Objects, AllCovered
    <3> QED
      BY <1>3, <1>4, <1>12, <3>1
  <2> QED
    BY <2>1, <2>2
<1>21. AsideRead'
  BY <1>11 DEF AsideRead, ToSet
<1> QED
  BY <1>0, <1>9, <1>21, <1>10, <1>13, <1>14, <1>16, <1>17, <1>18, <1>19, <1>20 DEF LoadingCover, Objects

-----------------------------------------------------------------------------
(* The stretch under way gets the sample: an inner one, or one that closes it  *)
(* and brings in what was set aside.                                           *)
LEMMA GrowsObject ==
  ASSUME FragTypes, LoadingCover, ephemeralCounters \in Seq(Sample),
         Apart(Read), NEW c, Newest(Read, c), Read' = Read \cup {c}, c \notin Starts(Read \cup {c}),
         c.threadId = thread, thread' = thread, currentTxn # None, currentTxn \in 1 .. Len(heap), currentTxn' = currentTxn,
         NEW cs \in Seq(Sample), NEW e \in BOOLEAN, e <=> Ending(c),
         heap' = [heap EXCEPT ![currentTxn] = AddCounters(@, cs, e)],
         ~ e => ToSet(cs) = {c} /\ ephemeralCounters' = ephemeralCounters /\ ~ heap[currentTxn].hasEndProbe,
         e => ToSet(cs) = ToSet(ephemeralCounters) \cup {c} /\ ephemeralCounters' = <<>>,
         resumeFragment # None => frags[resumeFragment].txn = currentTxn,
         UNCHANGED <<txns, compromisedTxns, nonTxnCounters, resumeFragment>>,
         \/ /\ ~ (Ending(c) /\ Suspends(c))
            /\ UNCHANGED suspendingTxn /\ UNCHANGED fragVars
         \/ /\ Ending(c) /\ Suspends(c)
            /\ AddSuspendFragment(LinkOf(c), currentTxn, resumeFragment)
  PROVE  LoadingCover'
<1>l. PICK L : L = Read
  OBVIOUS
<1>m. PICK M : M = Read \cup {c}
  OBVIOUS
<1>q. PICK q : q = currentTxn
  OBVIOUS
<1>s. PICK s : s = First(q)
  OBVIOUS
<1>0. /\ heap \in Seq(Txn) /\ c \in Sample /\ L \subseteq Sample /\ M = L \cup {c} /\ Read' = M /\ q \in 1 .. Len(heap)
      /\ Apart(L) /\ Newest(L, c) /\ c \notin Starts(M) /\ c \notin L /\ OpensFirst(L) /\ q # None /\ currentTxn' = q
  BY <1>l, <1>m, <1>q DEF FragTypes, Newest, Apart, LoadingCover
<1>h. /\ heap[q].counters # <<>> /\ CountersOf(q) \subseteq L
      /\ Opens(First(q)) => First(q) \in Starts(L) /\ CountersOf(q) = Stretch(L, First(q))
      /\ ~ Opens(First(q)) => q # currentTxn
  BY <1>0, <1>l DEF LoadingCover, Objects, ObjectsHold
<1>1. /\ heap' \in Seq(Txn) /\ Len(heap') = Len(heap)
      /\ heap'[q].counters # <<>> /\ After(q) = CountersOf(q) \cup ToSet(cs)
      /\ (heap'[q].hasEndProbe <=> heap[q].hasEndProbe \/ e)
      /\ \A r \in 1 .. Len(heap) : FirstAfter(r) = First(r) /\ (r # q => heap'[r] = heap[r] /\ After(r) = CountersOf(r))
      /\ Keeps
  BY <1>0, <1>h, <1>q, HeapAdds
<1>2. Opens(s) /\ s \in Starts(L) /\ CountersOf(q) = Stretch(L, s)
  BY <1>h, <1>q, <1>s
<1>3. /\ LastStart(L, s) /\ s.threadId = thread /\ s.threadId = c.threadId
      /\ heap[q].hasEndProbe <=> IsClosed(L, s)
      /\ ToSet(ephemeralCounters) = Region(L, s) \ Stretch(L, s)
      /\ resumeFragment # None <=> Resumes(s)
      /\ suspendingTxn => InFrags(q)
  BY <1>0, <1>l, <1>q, <1>s DEF LoadingCover, CurrentStretch, CurrentIs
<1>4. /\ LastStart(M, s) /\ Region(M, s) = Region(L, s) \cup {c}
      /\ (IsClosed(M, s) <=> (IsClosed(L, s) \/ Ending(c)))
      /\ Ending(c) => Stretch(M, s) = Region(L, s) \cup {c}
      /\ ~ Ending(c) /\ ~ IsClosed(L, s) => Stretch(M, s) = Stretch(L, s) \cup {c}
  <2>1. c \notin Starts(L \cup {c})
    BY <1>0
  <2>2. /\ LastStart(L \cup {c}, s) /\ Region(L \cup {c}, s) = Region(L, s) \cup {c}
        /\ (IsClosed(L \cup {c}, s) <=> (IsClosed(L, s) \/ Ending(c)))
        /\ Ending(c) => Stretch(L \cup {c}, s) = Region(L, s) \cup {c}
        /\ ~ Ending(c) /\ ~ IsClosed(L, s) => Stretch(L \cup {c}, s) = Stretch(L, s) \cup {c}
    <3>1. L \subseteq Sample /\ Newest(L, c) /\ LastStart(L, s) /\ s.threadId = c.threadId
      BY <1>0, <1>3
    <3> QED
      BY <2>1, <3>1, RegionGrows
  <2> QED
    BY <1>0, <2>2
<1>5. Stretch(L, s) \subseteq Region(L, s) /\ Region(L, s) \subseteq L
  BY DEF Stretch, Region
<1>6. After(q) = Stretch(M, s)
  <2>1. CASE e
    <3>1. ToSet(cs) = (Region(L, s) \ Stretch(L, s)) \cup {c} /\ Stretch(M, s) = Region(L, s) \cup {c}
      BY <1>3, <1>4, <2>1
    <3> QED
      BY <1>1, <1>2, <1>5, <3>1
  <2>2. CASE ~ e
    <3>1. ToSet(cs) = {c} /\ Stretch(M, s) = Stretch(L, s) \cup {c}
      BY <1>3, <1>4, <1>q, <2>2
    <3> QED
      BY <1>1, <1>2, <3>1
  <2> QED
    BY <2>1, <2>2
<1>7. \A u \in Starts(L) : u # s => Stretch(M, u) = Stretch(L, u)
  BY <1>0, <1>3, OthersSame
<1>8. Starts(M) = Starts(L)
  <2>1. c \notin Starts(L \cup {c})
    BY <1>0
  <2>2. Starts(L \cup {c}) = Starts(L)
    <3>1. L \subseteq Sample /\ Newest(L, c)
      BY <1>0
    <3> QED
      BY <2>1, <3>1, StartsAre
  <2> QED
    BY <1>0, <2>2
<1>9. OpensFirst(M)
  BY <1>0, <1>3, OpensFirstStays
<1>10. \A r : First(r)' = FirstAfter(r) /\ CountersOf(r)' = After(r)
  BY DEF First, FirstAfter, CountersOf, After
<1>11. \A r : (InCompromised(r)' <=> InCompromised(r)) /\ (InTxns(r)' <=> InTxns(r))
  BY DEF InCompromised, InTxns
<1>12. \A d \in After(q) : Ending(d) => d = c \/ d \in CountersOf(q)
  <2> SUFFICES ASSUME NEW d \in After(q), Ending(d), d # c, d \notin CountersOf(q) PROVE FALSE
    OBVIOUS
  <2>1. d \in ToSet(ephemeralCounters)
    BY <1>1
  <2>2. d \in Region(L, s) /\ d \notin Stretch(L, s) /\ d \in Sample
    BY <1>0, <1>3, <1>5, <2>1
  <2>3. d.tsc \in Nat
    BY <2>2, BoundsAssumption DEF Sample, Counters
  <2> QED
    BY <2>2, <2>3, AsideInner
<1>13. FragCover' /\ (\A r : InFrags(r) => InFrags(r)') /\ (suspendingTxn' => InFrags(q)')
  <2>0. FragCover
    BY DEF LoadingCover
  <2>1. CASE ~ (Ending(c) /\ Suspends(c)) /\ UNCHANGED suspendingTxn /\ UNCHANGED fragVars
    <3>1. \A r : InFrags(r)' <=> InFrags(r)
      BY <2>1 DEF InFrags, fragVars
    <3>2. \A r \in 1 .. Len(heap) : \A d \in After(r) : Ending(d) /\ Suspends(d) => d \in CountersOf(r)
      BY <1>1, <1>12, <2>1
    <3>3. FragCover'
      BY <1>1, <2>0, <2>1, <3>2, SameCover
    <3> QED
      BY <1>3, <2>1, <3>1, <3>3
  <2>2. CASE Ending(c) /\ Suspends(c) /\ AddSuspendFragment(LinkOf(c), currentTxn, resumeFragment)
    <3>1. \A r \in 1 .. Len(heap) : \A d \in CountersOf(r) : LinkOf(d) # LinkOf(c)
      <4> SUFFICES ASSUME NEW r \in 1 .. Len(heap), NEW d \in CountersOf(r), LinkOf(d) = LinkOf(c) PROVE FALSE
        OBVIOUS
      <4>1. d \in L
        BY <1>l DEF LoadingCover, Objects, ObjectsHold
      <4>2. d.tsc = c.tsc /\ d.threadId = c.threadId
        BY DEF LinkOf
      <4>3. c.tsc \in Nat
        BY <1>0, BoundsAssumption DEF Sample, Counters
      <4> QED
        BY <1>0, <4>1, <4>2, <4>3 DEF Newest
    <3>2. c \in After(currentTxn)
      BY <1>1, <1>q, <2>2
    <3>3. \A r \in 1 .. Len(heap) : r # currentTxn => After(r) = CountersOf(r)
      BY <1>1, <1>q
    <3>4. \A d \in After(currentTxn) : Ending(d) => d = c \/ d \in CountersOf(currentTxn)
      BY <1>12, <1>q
    <3>5. (resumeFragment # None <=> Resumes(First(currentTxn))) /\ Opens(First(currentTxn))
      BY <1>2, <1>3, <1>q, <1>s
    <3>6. FragCover'
      BY <1>0, <1>1, <2>0, <2>2, <3>1, <3>2, <3>3, <3>4, <3>5, SuspendCover
    <3>7. PICK f0 : f0 = IF resumeFragment = None THEN Len(frags) + 1 ELSE resumeFragment
      OBVIOUS
    <3>8. LinkOf(c) \in Links /\ currentTxn \in Nat
      BY <1>0 DEF LinkOf, Links, Sample, Counters
    <3>9. /\ Len(frags) \in Nat /\ f0 \in 1 .. Len(frags') /\ Len(frags') >= Len(frags) /\ frags' \in Seq(Frag)
          /\ resumeFragment = None => frags'[f0].txn = currentTxn
          /\ resumeFragment # None => f0 \in 1 .. Len(frags)
          /\ \A f \in 1 .. Len(frags) : frags'[f].txn = frags[f].txn
      BY <2>2, <3>7, <3>8, SuspendFragIs
    <3>10. \A f \in 1 .. Len(frags) : f \in 1 .. Len(frags')
      BY <3>9
    <3>11. \A r : InFrags(r) => InFrags(r)'
      BY <3>9, <3>10 DEF InFrags
    <3>12. frags'[f0].txn = q
      BY <1>q, <3>7, <3>9
    <3>13. InFrags(q)'
      BY <3>9, <3>12 DEF InFrags
    <3> QED
      BY <3>6, <3>11, <3>13
  <2> QED
    BY <2>1, <2>2
<1>14. NoneUnderWay'
  BY DEF NoneUnderWay
<1>15. CurrentStretch'
  <2>1. First(currentTxn)' = s
    BY <1>0, <1>1, <1>s DEF First, FirstAfter
  <2>2. ToSet(ephemeralCounters') = Region(M, s) \ Stretch(M, s)
    <3>1. CASE e
      BY <1>4, <3>1 DEF ToSet
    <3>2. CASE ~ e
      BY <1>0, <1>3, <1>4, <1>5, <1>q, <3>2
    <3> QED
      BY <3>1, <3>2
  <2>3. heap'[q].hasEndProbe <=> IsClosed(M, s)
    BY <1>1, <1>3, <1>4
  <2>4. CurrentIs(s)'
    BY <1>0, <1>3, <1>4, <2>2, <2>3 DEF CurrentIs
  <2>5. CurrentIs(First(currentTxn))' <=> CurrentIs(s)'
    BY <2>1 DEF CurrentIs
  <2>6. InFrags(currentTxn)' <=> InFrags(q)'
    BY <1>0 DEF InFrags
  <2> QED
    BY <1>13, <2>4, <2>5, <2>6 DEF CurrentStretch
<1>16. ObjectsHold'
  <2> SUFFICES ASSUME NEW r \in 1 .. Len(heap)
               PROVE  /\ heap'[r].counters # <<>> /\ After(r) \subseteq M
                      /\ Opens(FirstAfter(r)) => FirstAfter(r) \in Starts(M) /\ After(r) = Stretch(M, FirstAfter(r))
                      /\ ~ Opens(FirstAfter(r)) => InCompromised(r)' /\ r # currentTxn'
    BY <1>0, <1>1, <1>10 DEF ObjectsHold
  <2>0. /\ heap[r].counters # <<>> /\ CountersOf(r) \subseteq L
        /\ Opens(First(r)) => First(r) \in Starts(L) /\ CountersOf(r) = Stretch(L, First(r))
        /\ ~ Opens(First(r)) => InCompromised(r) /\ r # currentTxn
    BY <1>l DEF LoadingCover, Objects, ObjectsHold
  <2>1. CASE r = q
    <3>1. FirstAfter(r) = s
      BY <1>1, <1>s, <2>1
    <3>2. After(r) \subseteq M
      BY <1>0, <1>1, <1>3, <1>5, <2>0, <2>1
    <3> QED
      BY <1>1, <1>2, <1>6, <1>8, <2>1, <3>1, <3>2
  <2>2. CASE r # q
    <3>1. heap'[r] = heap[r] /\ FirstAfter(r) = First(r) /\ After(r) = CountersOf(r)
      BY <1>1, <2>2
    <3>2. First(r) # s
      BY <1>0, <1>s, <2>2 DEF LoadingCover, Objects, ObjectsDiffer
    <3> QED
      BY <1>0, <1>7, <1>8, <1>11, <2>0, <3>1, <3>2
  <2> QED
    BY <2>1, <2>2
<1>17. ObjectsPlaced'
  <2> SUFFICES ASSUME NEW r \in 1 .. Len(heap) PROVE r = currentTxn' \/ InCompromised(r)' \/ InTxns(r)' \/ InFrags(r)'
    BY <1>1 DEF ObjectsPlaced
  <2>1. r = currentTxn \/ InCompromised(r) \/ InTxns(r) \/ InFrags(r)
    BY DEF LoadingCover, Objects, ObjectsPlaced
  <2> QED
    BY <1>11, <1>13, <2>1
<1>18. ObjectsDiffer'
  <2> SUFFICES ASSUME NEW r \in 1 .. Len(heap), NEW p \in 1 .. Len(heap), FirstAfter(r) = FirstAfter(p) PROVE r = p
    BY <1>1, <1>10 DEF ObjectsDiffer
  <2> QED
    BY <1>1 DEF LoadingCover, Objects, ObjectsDiffer
<1>19. StartsHaveObjects'
  <2> SUFFICES ASSUME NEW u \in Starts(L) PROVE \E r \in 1 .. Len(heap) : FirstAfter(r) = u
    BY <1>0, <1>1, <1>8, <1>10 DEF StartsHaveObjects
  <2>1. PICK r \in 1 .. Len(heap) : First(r) = u
    BY <1>l DEF LoadingCover, Objects, StartsHaveObjects
  <2> QED
    BY <1>1, <2>1
<1>20. AllCovered'
  <2> SUFFICES ASSUME NEW d \in L \cup {c}
               PROVE  \/ d \in ToSet(nonTxnCounters)
                      \/ d \in ToSet(ephemeralCounters')
                      \/ \E r \in 1 .. Len(heap) : d \in After(r)
    BY <1>0, <1>1, <1>10 DEF AllCovered
  <2>1. CASE d = c
    BY <1>0, <1>1, <2>1
  <2>2. CASE d \in L
    <3>1. \/ d \in ToSet(nonTxnCounters)
          \/ d \in ToSet(ephemeralCounters)
          \/ \E r \in 1 .. Len(heap) : d \in CountersOf(r)
      BY <1>l, <2>2 DEF LoadingCover, Objects, AllCovered
    <3>2. \A r \in 1 .. Len(heap) : CountersOf(r) \subseteq After(r)
      BY <1>1 DEF Keeps
    <3>3. d \in ToSet(ephemeralCounters) => d \in ToSet(ephemeralCounters') \/ d \in After(q)
      BY <1>1
    <3> QED
      BY <1>0, <3>1, <3>2, <3>3
  <2> QED
    BY <2>1, <2>2
<1>21. AsideRead'
  BY <1>0, <1>l DEF LoadingCover, AsideRead, ToSet
<1> QED
  BY <1>0, <1>9, <1>21, <1>13, <1>14, <1>15, <1>16, <1>17, <1>18, <1>19, <1>20 DEF LoadingCover, Objects

-----------------------------------------------------------------------------
(* A sample that is set aside.                                                 *)
LEMMA SetsAside ==
  ASSUME FragTypes, LoadingCover, ephemeralCounters \in Seq(Sample),
         Apart(Read), NEW c, Newest(Read, c), Read' = Read \cup {c},
         c.threadId = thread, thread' = thread, thread # None, AddEphemeral(c), currentTxn # None => currentTxn \in 1 .. Len(heap)
  PROVE  LoadingCover'
<1>l. PICK L : L = Read
  OBVIOUS
<1>m. PICK M : M = Read \cup {c}
  OBVIOUS
<1>0. /\ c \in Sample /\ L \subseteq Sample /\ M = L \cup {c} /\ Read' = M
      /\ Apart(L) /\ Newest(L, c) /\ c \notin L /\ OpensFirst(L) /\ heap \in Seq(Txn)
  BY <1>l, <1>m DEF FragTypes, Newest, Apart, LoadingCover
<1>1. /\ ~ Opens(c) /\ ~ Closes(c) /\ ~ Ending(c) /\ ephemeralCounters' = Append(ephemeralCounters, c)
      /\ currentTxn # None => heap[currentTxn].hasEndProbe
  BY DEF AddEphemeral, Ending
<1>2. /\ heap' = heap /\ currentTxn' = currentTxn /\ txns' = txns /\ compromisedTxns' = compromisedTxns
      /\ nonTxnCounters' = nonTxnCounters /\ resumeFragment' = resumeFragment /\ suspendingTxn' = suspendingTxn
      /\ UNCHANGED fragVars /\ frags' = frags
  BY DEF AddEphemeral, fragVars
<1>3. ToSet(ephemeralCounters') = ToSet(ephemeralCounters) \cup {c}
  BY <1>0, <1>1, EphemeralSet
<1>4. c \notin Starts(L \cup {c})
  BY <1>1 DEF Starts
<1>5. Starts(M) = Starts(L)
  <2>1. L \subseteq Sample /\ Newest(L, c)
    BY <1>0
  <2>2. Starts(L \cup {c}) = Starts(L)
    BY <1>4, <2>1, StartsAre
  <2> QED
    BY <1>0, <2>2
<1>6. ASSUME currentTxn # None
      PROVE  LET s == First(currentTxn) IN
             /\ LastStart(L, s) /\ s.threadId = thread /\ IsClosed(L, s)
             /\ LastStart(M, s) /\ Region(M, s) = Region(L, s) \cup {c}
             /\ IsClosed(M, s) /\ Stretch(M, s) = Stretch(L, s)
  <2>1. PICK s : s = First(currentTxn)
    OBVIOUS
  <2>2. LastStart(L, s) /\ s.threadId = thread /\ IsClosed(L, s) /\ s.threadId = c.threadId
    BY <1>1, <1>6, <1>l, <2>1 DEF LoadingCover, CurrentStretch, CurrentIs
  <2>3. L \subseteq Sample /\ Newest(L, c)
    BY <1>0
  <2>4. /\ LastStart(L \cup {c}, s) /\ Region(L \cup {c}, s) = Region(L, s) \cup {c}
        /\ (IsClosed(L \cup {c}, s) <=> (IsClosed(L, s) \/ Ending(c)))
        /\ ~ Ending(c) /\ IsClosed(L, s) => Stretch(L \cup {c}, s) = Stretch(L, s)
    BY <1>4, <2>2, <2>3, RegionGrows
  <2> QED
    BY <1>0, <1>1, <2>1, <2>2, <2>4
<1>7. \A u \in Starts(L) : Stretch(M, u) = Stretch(L, u)
  <2> TAKE u \in Starts(L)
  <2>1. CASE currentTxn # None /\ u = First(currentTxn)
    BY <1>6, <2>1
  <2>2. CASE currentTxn # None /\ u # First(currentTxn)
    <3>1. \E s : LastStart(L, s) /\ s.threadId = c.threadId /\ s # u
      BY <1>6, <2>2
    <3> QED
      BY <1>0, <3>1, OthersSame
  <2>3. CASE currentTxn = None
    <3>1. \A d \in L : d.threadId = c.threadId => ~ Opens(d)
      BY <1>l, <2>3 DEF LoadingCover, NoneUnderWay
    <3> QED
      BY <1>0, <3>1, OthersSame
  <2> QED
    BY <2>1, <2>2, <2>3
<1>8. OpensFirst(M)
  <2>1. \/ \A d \in L : d.threadId = c.threadId => ~ Opens(d)
        \/ \E s : LastStart(L, s) /\ s.threadId = c.threadId
    BY <1>l DEF LoadingCover, NoneUnderWay, CurrentStretch, CurrentIs
  <2> QED
    BY <1>0, <2>1, OpensFirstStays
<1>9. \A r : First(r)' = First(r) /\ CountersOf(r)' = CountersOf(r) /\ FirstAfter(r) = First(r) /\ After(r) = CountersOf(r)
  BY <1>2 DEF First, CountersOf, FirstAfter, After
<1>10. FragCover'
  <2>1. Keeps
    BY <1>0, <1>2, <1>9 DEF Keeps
  <2>2. FragCover
    BY DEF LoadingCover
  <2> QED
    BY <1>2, <1>9, <2>1, <2>2, SameCover
<1>11. NoneUnderWay'
  <2> SUFFICES ASSUME thread # None, currentTxn = None, NEW d \in M, d.threadId = thread PROVE ~ Opens(d)
    BY <1>0, <1>2 DEF NoneUnderWay
  <2> QED
    BY <1>0, <1>1, <1>l DEF LoadingCover, NoneUnderWay
<1>12. CurrentStretch'
  <2> SUFFICES ASSUME currentTxn # None PROVE CurrentStretch'
    BY <1>2 DEF CurrentStretch
  <2>1. PICK s : s = First(currentTxn)
    OBVIOUS
  <2>2. /\ LastStart(L, s) /\ s.threadId = thread /\ IsClosed(L, s)
        /\ LastStart(M, s) /\ Region(M, s) = Region(L, s) \cup {c}
        /\ IsClosed(M, s) /\ Stretch(M, s) = Stretch(L, s)
    BY <1>6, <2>1
  <2>3. /\ ToSet(ephemeralCounters) = Region(L, s) \ Stretch(L, s)
        /\ resumeFragment # None <=> Resumes(s)
        /\ suspendingTxn => InFrags(currentTxn)
    BY <1>l, <2>1 DEF LoadingCover, CurrentStretch, CurrentIs
  <2>4. c \notin Stretch(L, s)
    BY <1>0 DEF Stretch, Region
  <2>5. ToSet(ephemeralCounters') = Region(M, s) \ Stretch(M, s)
    BY <1>3, <2>2, <2>3, <2>4
  <2>6. CurrentIs(s)'
    BY <1>0, <1>1, <1>2, <2>2, <2>3, <2>5 DEF CurrentIs
  <2>7. First(currentTxn)' = s
    BY <1>2, <2>1 DEF First
  <2>8. CurrentIs(First(currentTxn))' <=> CurrentIs(s)'
    BY <2>7 DEF CurrentIs
  <2>9. InFrags(currentTxn)' <=> InFrags(currentTxn)
    BY <1>2 DEF InFrags
  <2> QED
    BY <1>2, <2>3, <2>6, <2>8, <2>9 DEF CurrentStretch
<1>13. \A r : (InCompromised(r)' <=> InCompromised(r)) /\ (InTxns(r)' <=> InTxns(r)) /\ (InFrags(r)' <=> InFrags(r))
  BY <1>2 DEF InCompromised, InTxns, InFrags
<1>14. ObjectsHold'
  <2> SUFFICES ASSUME NEW r \in 1 .. Len(heap)
               PROVE  /\ heap[r].counters # <<>> /\ CountersOf(r) \subseteq M
                      /\ Opens(First(r)) => First(r) \in Starts(M) /\ CountersOf(r) = Stretch(M, First(r))
                      /\ ~ Opens(First(r)) => InCompromised(r)' /\ r # currentTxn
    BY <1>0, <1>2, <1>9 DEF ObjectsHold
  <2>1. /\ heap[r].counters # <<>> /\ CountersOf(r) \subseteq L
        /\ Opens(First(r)) => First(r) \in Starts(L) /\ CountersOf(r) = Stretch(L, First(r))
        /\ ~ Opens(First(r)) => InCompromised(r) /\ r # currentTxn
    BY <1>l DEF LoadingCover, Objects, ObjectsHold
  <2> QED
    BY <1>0, <1>5, <1>7, <1>13, <2>1
<1>15. ObjectsPlaced'
  BY <1>2, <1>13 DEF LoadingCover, Objects, ObjectsPlaced
<1>16. ObjectsDiffer'
  BY <1>2, <1>9 DEF LoadingCover, Objects, ObjectsDiffer
<1>17. StartsHaveObjects'
  BY <1>0, <1>2, <1>5, <1>9, <1>l DEF LoadingCover, Objects, StartsHaveObjects
<1>18. AllCovered'
  BY <1>0, <1>2, <1>3, <1>9, <1>l DEF LoadingCover, Objects, AllCovered
<1>19. AsideRead'
  BY <1>0, <1>3, <1>l DEF LoadingCover, AsideRead
<1> QED
  BY <1>0, <1>8, <1>19, <1>10, <1>11, <1>12, <1>14, <1>15, <1>16, <1>17, <1>18 DEF LoadingCover, Objects

(* A close without an open.                                                    *)
LEMMA Compromises ==
  ASSUME FragTypes, LoadingCover, ephemeralCounters \in Seq(Sample), compromisedTxns \in Seq(Nat),
         Apart(Read), NEW c, Newest(Read, c), Read' = Read \cup {c},
         c.threadId = thread, thread' = thread, thread # None, Compromise(c)
  PROVE  LoadingCover'
<1>l. PICK L : L = Read
  OBVIOUS
<1>m. PICK M : M = Read \cup {c}
  OBVIOUS
<1>n. PICK n : n = Len(heap) + 1
  OBVIOUS
<1>0. /\ c \in Sample /\ L \subseteq Sample /\ M = L \cup {c} /\ Read' = M
      /\ Apart(L) /\ Newest(L, c) /\ c \notin L /\ OpensFirst(L) /\ heap \in Seq(Txn)
  BY <1>l, <1>m DEF FragTypes, Newest, Apart, LoadingCover
<1>1. /\ currentTxn = None /\ ~ Opens(c) /\ Closes(c) /\ ~ Resumes(c)
      /\ heap' = Append(heap, AddCounters(Transaction(c), ephemeralCounters, FALSE))
      /\ compromisedTxns' = Append(compromisedTxns, n) /\ ephemeralCounters' = <<>>
      /\ currentTxn' = currentTxn /\ txns' = txns /\ nonTxnCounters' = nonTxnCounters /\ UNCHANGED fragVars /\ frags' = frags
  BY <1>n DEF Compromise, Opens, fragVars
<1>2. PICK x : x = AddCounters(Transaction(c), ephemeralCounters, FALSE)
  OBVIOUS
<1>3. x \in Txn /\ x.counters = <<c>> \o ephemeralCounters
  <2>1. Transaction(c) \in Txn /\ Transaction(c).counters = <<c>>
    BY <1>0, TransactionOfThread DEF Transaction
  <2> QED
    BY <1>2, <2>1, AddCountersType
<1>4. x.counters # <<>> /\ x.counters[1] = c
  <2>1. <<c>> \in Seq(Sample) /\ Len(<<c>>) = 1 /\ <<c>>[1] = c
    BY <1>0
  <2>2. /\ Len(<<c>> \o ephemeralCounters) = 1 + Len(ephemeralCounters) /\ Len(ephemeralCounters) \in Nat
        /\ (<<c>> \o ephemeralCounters)[1] = c /\ <<c>> \o ephemeralCounters \in Seq(Sample)
    BY <2>1
  <2> QED
    BY <1>3, <2>2
<1>5. ToSet(x.counters) = ToSet(ephemeralCounters) \cup {c}
  <2>1. <<c>> \in Seq(Sample) /\ ToSet(<<c>>) = {c}
    BY <1>0 DEF ToSet
  <2>2. ToSet(<<c>> \o ephemeralCounters) = ToSet(<<c>>) \cup ToSet(ephemeralCounters)
    <3>1. PICK y : y = <<c>>
      OBVIOUS
    <3>2. y \in Seq(Sample)
      BY <2>1, <3>1
    <3>3. ToSet(y \o ephemeralCounters) = ToSet(y) \cup ToSet(ephemeralCounters)
      BY <3>2, ConcatSet
    <3> QED
      BY <3>1, <3>3
  <2> QED
    BY <1>3, <2>1, <2>2
<1>6. /\ heap' \in Seq(Txn) /\ Len(heap) \in Nat /\ Len(heap') = n /\ heap'[n] = x
      /\ FirstAfter(n) = c /\ After(n) = ToSet(ephemeralCounters) \cup {c} /\ Keeps
      /\ \A r \in 1 .. Len(heap) : heap'[r] = heap[r] /\ FirstAfter(r) = First(r) /\ After(r) = CountersOf(r)
  <2>1. heap' = Append(heap, x)
    BY <1>1, <1>2
  <2> QED
    BY <1>0, <1>3, <1>4, <1>5, <1>n, <2>1, HeapAppends
<1>7. /\ n \notin 1 .. Len(heap) /\ n \in 1 .. n /\ n \in Nat
      /\ \A r \in 1 .. n : r \in 1 .. Len(heap) \/ r = n
      /\ \A r \in 1 .. Len(heap) : r \in 1 .. n
  BY <1>6, <1>n
<1>8. \A r : First(r)' = FirstAfter(r) /\ CountersOf(r)' = After(r)
  BY DEF First, FirstAfter, CountersOf, After
<1>9. \A d \in L : d.threadId = c.threadId => ~ Opens(d)
  BY <1>1, <1>l DEF LoadingCover, NoneUnderWay
<1>10. c \notin Starts(L \cup {c})
  BY <1>1 DEF Starts
<1>11. Starts(M) = Starts(L)
  <2>1. L \subseteq Sample /\ Newest(L, c)
    BY <1>0
  <2>2. Starts(L \cup {c}) = Starts(L)
    BY <1>10, <2>1, StartsAre
  <2> QED
    BY <1>0, <2>2
<1>12. \A u \in Starts(L) : Stretch(M, u) = Stretch(L, u)
  BY <1>0, <1>9, OthersSame
<1>13. OpensFirst(M)
  BY <1>0, <1>9, OpensFirstStays
<1>14. FragCover'
  <2>1. FragCover
    BY DEF LoadingCover
  <2>2. \A r \in 1 .. Len(heap') : r \notin 1 .. Len(heap) => r = n
    BY <1>6, <1>7
  <2> QED
    BY <1>1, <1>6, <2>1, <2>2, SameCover
<1>15. NoneUnderWay'
  <2> SUFFICES ASSUME NEW d \in M, d.threadId = thread PROVE ~ Opens(d)
    BY <1>0 DEF NoneUnderWay
  <2> QED
    BY <1>0, <1>1, <1>9
<1>16. CurrentStretch'
  BY <1>1 DEF CurrentStretch
<1>17. InCompromised(n)' /\ \A r : InCompromised(r) => InCompromised(r)'
  <2> DEFINE a == compromisedTxns
             b == compromisedTxns'
  <2>1. a \in Seq(Nat) /\ b = Append(a, n)
    BY <1>1
  <2> HIDE DEF a, b
  <2>2. Len(a) \in Nat /\ Len(b) = Len(a) + 1 /\ b[Len(a) + 1] = n /\ \A k \in 1 .. Len(a) : b[k] = a[k]
    BY <1>7, <2>1
  <2>3. Len(a) + 1 \in 1 .. Len(b) /\ \A k \in 1 .. Len(a) : k \in 1 .. Len(b)
    BY <2>2
  <2>4. \A r : (InCompromised(r) <=> \E k \in 1 .. Len(a) : a[k] = r) /\ (InCompromised(r)' <=> \E k \in 1 .. Len(b) : b[k] = r)
    BY DEF InCompromised, a, b
  <2> QED
    BY <2>2, <2>3, <2>4
<1>18. \A r : (InTxns(r)' <=> InTxns(r)) /\ (InFrags(r)' <=> InFrags(r))
  BY <1>1 DEF InTxns, InFrags
<1>19. ObjectsHold'
  <2> SUFFICES ASSUME NEW r \in 1 .. n
               PROVE  /\ heap'[r].counters # <<>> /\ After(r) \subseteq M
                      /\ Opens(FirstAfter(r)) => FirstAfter(r) \in Starts(M) /\ After(r) = Stretch(M, FirstAfter(r))
                      /\ ~ Opens(FirstAfter(r)) => InCompromised(r)' /\ r # currentTxn'
    BY <1>0, <1>6, <1>8 DEF ObjectsHold
  <2>0. r # currentTxn'
    BY <1>1, <1>6, <1>7, NoneAssumption
  <2>1. CASE r = n
    BY <1>0, <1>1, <1>4, <1>6, <1>l, <1>17, <2>0, <2>1 DEF LoadingCover, AsideRead
  <2>2. CASE r \in 1 .. Len(heap)
    <3>1. /\ heap[r].counters # <<>> /\ CountersOf(r) \subseteq L
          /\ Opens(First(r)) => First(r) \in Starts(L) /\ CountersOf(r) = Stretch(L, First(r))
          /\ ~ Opens(First(r)) => InCompromised(r)
      BY <1>l, <2>2 DEF LoadingCover, Objects, ObjectsHold
    <3>2. heap'[r] = heap[r] /\ FirstAfter(r) = First(r) /\ After(r) = CountersOf(r)
      BY <1>6, <2>2
    <3> QED
      BY <1>0, <1>11, <1>12, <1>17, <2>0, <3>1, <3>2
  <2> QED
    BY <1>7, <2>1, <2>2
<1>20. ObjectsPlaced'
  <2> SUFFICES ASSUME NEW r \in 1 .. n PROVE r = currentTxn' \/ InCompromised(r)' \/ InTxns(r)' \/ InFrags(r)'
    BY <1>6 DEF ObjectsPlaced
  <2>1. CASE r = n
    BY <1>17, <2>1
  <2>2. CASE r \in 1 .. Len(heap)
    BY <1>1, <1>17, <1>18, <2>2 DEF LoadingCover, Objects, ObjectsPlaced
  <2> QED
    BY <1>7, <2>1, <2>2
<1>21. ObjectsDiffer'
  <2>1. \A r \in 1 .. Len(heap) : First(r) \in L
    <3> TAKE r \in 1 .. Len(heap)
    <3>1. CountersOf(r) \subseteq L /\ heap[r].counters # <<>> /\ heap[r].counters \in Seq(Sample)
      <4>1. heap[r] \in Txn
        BY <1>0
      <4> QED
        BY <1>l, <4>1 DEF LoadingCover, Objects, ObjectsHold, Txn
    <3>2. heap[r].counters[1] \in ToSet(heap[r].counters)
      BY <3>1 DEF ToSet
    <3> QED
      BY <3>1, <3>2 DEF First, CountersOf
  <2>2. \A r \in 1 .. Len(heap) : FirstAfter(r) # c
    BY <1>0, <1>6, <2>1
  <2> SUFFICES ASSUME NEW r \in 1 .. n, NEW q \in 1 .. n, FirstAfter(r) = FirstAfter(q) PROVE r = q
    BY <1>6, <1>8 DEF ObjectsDiffer
  <2>3. \A p, y \in 1 .. Len(heap) : First(p) = First(y) => p = y
    BY DEF LoadingCover, Objects, ObjectsDiffer
  <2> QED
    BY <1>6, <1>7, <2>2, <2>3
<1>22. StartsHaveObjects'
  <2> SUFFICES ASSUME NEW s \in Starts(L) PROVE \E r \in 1 .. n : FirstAfter(r) = s
    BY <1>0, <1>6, <1>8, <1>11 DEF StartsHaveObjects
  <2>1. PICK r \in 1 .. Len(heap) : First(r) = s
    BY <1>l DEF LoadingCover, Objects, StartsHaveObjects
  <2> QED
    BY <1>6, <1>7, <2>1
<1>23. AllCovered'
  <2> SUFFICES ASSUME NEW d \in L \cup {c}
               PROVE  d \in ToSet(nonTxnCounters') \/ \E r \in 1 .. n : d \in After(r)
    BY <1>0, <1>6, <1>8 DEF AllCovered
  <2>1. CASE d = c
    BY <1>6, <1>7, <2>1
  <2>2. CASE d \in L
    <3>1. \/ d \in ToSet(nonTxnCounters)
          \/ d \in ToSet(ephemeralCounters)
          \/ \E r \in 1 .. Len(heap) : d \in CountersOf(r)
      BY <1>l, <2>2 DEF LoadingCover, Objects, AllCovered
    <3>2. nonTxnCounters' = nonTxnCounters
      BY <1>1
    <3> QED
      BY <1>6, <1>7, <3>1, <3>2
  <2> QED
    BY <2>1, <2>2
<1>24. AsideRead'
  BY <1>1 DEF AsideRead, ToSet
<1> QED
  BY <1>0, <1>24, <1>13, <1>14, <1>15, <1>16, <1>19, <1>20, <1>21, <1>22, <1>23 DEF LoadingCover, Objects

-----------------------------------------------------------------------------
(* appendTxn: reported, or kept back in a fragment.                            *)
LEMMA AppendsOrKeeps ==
  ASSUME TxnsIn, NEW q, AppendTxn(q), KeepBack => InFrags(q)
  PROVE  /\ \A r : InTxns(r) => InTxns(r)'
         /\ InTxns(q)' \/ InFrags(q)
<1>1. CASE KeepBack
  <2>1. txns' = txns
    BY <1>1 DEF AppendTxn
  <2> QED
    BY <1>1, <2>1 DEF InTxns
<1>2. CASE ~ KeepBack
  <2>1. txns' = Put(txns, nextTxnId + 1, q)
    BY <1>2 DEF AppendTxn
  <2>2. DOMAIN txns' = DOMAIN txns \cup {nextTxnId + 1}
    BY <2>1 DEF Put
  <2>3. \A i \in DOMAIN txns' : txns'[i] = IF i = nextTxnId + 1 THEN q ELSE txns[i]
    BY <2>1 DEF Put
  <2>4. nextTxnId + 1 \notin DOMAIN txns
    BY DEF TxnsIn
  <2> QED
    BY <2>2, <2>3, <2>4 DEF InTxns
<1> QED
  BY <1>1, <1>2

(* The transaction under way that is kept back has a fragment.                 *)
LEMMA KeptBack ==
  ASSUME FragTypes, CurrentLinks, LoadingCover, currentTxn # None, KeepBack, NEW q, q = currentTxn
  PROVE  InFrags(q)
<1>1. CASE resumeFragment # None
  BY <1>1 DEF FragTypes, CurrentLinks, InFrags
<1>2. CASE suspendingTxn
  BY <1>2 DEF LoadingCover, CurrentStretch
<1> QED
  BY <1>1, <1>2 DEF KeepBack

(* loadCounter, branch by branch.                                              *)
LEMMA LoadCounterCover ==
  ASSUME FragTypes, CurrentLinks, TxnsIn, LoadingCover,
         ephemeralCounters \in Seq(Sample), nonTxnCounters \in Seq(Sample), compromisedTxns \in Seq(Nat),
         currentTxn # None => currentTxn \in 1 .. Len(heap),
         Apart(Read), NEW c, Newest(Read, c), Read' = Read \cup {c}, c.threadId = thread, thread' = thread, thread # None,
         Resumes(c) => c.data \in Links, LoadCounter(c)
  PROVE  LoadingCover'
<1>0. OpensFirst(Read) /\ c \in Sample
  BY DEF LoadingCover, Newest
<1>1. currentTxn # None => LET s == First(currentTxn) IN
        LastStart(Read, s) /\ s.threadId = c.threadId /\ s.threadId = thread /\ (heap[currentTxn].hasEndProbe <=> IsClosed(Read, s))
  BY DEF LoadingCover, CurrentStretch, CurrentIs
<1>2. currentTxn = None => \A d \in Read : d.threadId = c.threadId => ~ Opens(d)
  BY DEF LoadingCover, NoneUnderWay
<1>3. /\ c \in Starts(Read \cup {c}) => Opens(c)
      /\ Resumes(c) => c \in Starts(Read \cup {c})
      /\ Opens(c) /\ (\A d \in Read : d.threadId = c.threadId => ~ Opens(d)) => c \in Starts(Read \cup {c})
      /\ \A s : LastStart(Read, s) /\ s.threadId = c.threadId /\ Opens(c) /\ ~ Resumes(c)
                  => (c \in Starts(Read \cup {c}) <=> IsClosed(Read, s))
  BY <1>0, StartsWhen
<1>4. resumeFragment # None /\ currentTxn # None => frags[resumeFragment].txn = currentTxn
  BY DEF CurrentLinks
<1>5. CASE NextTxn(c)
  <2>1. /\ currentTxn # None /\ Opens(c) /\ (heap[currentTxn].hasEndProbe \/ Resumes(c))
        /\ FlushEphemeral /\ AppendTxn(currentTxn) /\ BuildTxn(c) /\ currentTxn' = Len(heap) + 1
    BY <1>5 DEF NextTxn
  <2>2. c \in Starts(Read \cup {c})
    BY <1>1, <1>3, <2>1
  <2>3. PICK q : q = currentTxn
    OBVIOUS
  <2>4. KeepBack => InFrags(q)
    BY <2>1, <2>3, KeptBack
  <2>5. /\ \A r : InTxns(r) => InTxns(r)'
        /\ InTxns(q)' \/ InFrags(q)
    BY <2>1, <2>3, <2>4, AppendsOrKeeps
  <2>6. \A r : r = currentTxn /\ r # None => InTxns(r)' \/ InFrags(r)
    BY <2>3, <2>5
  <2> QED
    BY <1>0, <1>1, <2>1, <2>2, <2>5, <2>6, StartsObject
<1>6. CASE FirstTxn(c)
  <2>1. currentTxn = None /\ Opens(c) /\ BuildTxn(c) /\ currentTxn' = Len(heap) + 1 /\ FlushEphemeral /\ txns' = txns
    BY <1>6 DEF FirstTxn
  <2>2. c \in Starts(Read \cup {c})
    BY <1>2, <1>3, <2>1
  <2>3. \A r : InTxns(r) => InTxns(r)'
    BY <2>1 DEF InTxns
  <2> QED
    BY <1>0, <2>1, <2>2, <2>3, StartsObject
<1>7. CASE AddInner(c)
  <2>1. /\ currentTxn # None /\ ~ heap[currentTxn].hasEndProbe
        /\ IF Opens(c) THEN ~ Resumes(c) ELSE ~ Closes(c)
        /\ heap' = [heap EXCEPT ![currentTxn] = AddCounters(@, <<c>>, FALSE)]
        /\ UNCHANGED <<currentTxn, txns, sortVars, nextTxnId, resumeFragment, suspendingTxn, fragVars>>
    BY <1>7 DEF AddInner
  <2>2. c \notin Starts(Read \cup {c}) /\ ~ Ending(c)
    BY <1>1, <1>3, <2>1 DEF Ending
  <2>3. PICK cs : cs = <<c>>
    OBVIOUS
  <2>4. cs \in Seq(Sample) /\ ToSet(cs) = {c}
    BY <1>0, <2>3 DEF ToSet
  <2>5. heap' = [heap EXCEPT ![currentTxn] = AddCounters(@, cs, FALSE)]
    BY <2>1, <2>3
  <2>6. /\ ephemeralCounters' = ephemeralCounters /\ currentTxn' = currentTxn /\ suspendingTxn' = suspendingTxn
        /\ UNCHANGED <<txns, compromisedTxns, nonTxnCounters, resumeFragment>> /\ UNCHANGED fragVars
    BY <2>1 DEF sortVars
  <2> QED
    BY <1>4, <2>1, <2>2, <2>4, <2>5, <2>6, GrowsObject
<1>8. CASE CloseTxn(c)
  <2>1. /\ currentTxn # None /\ ~ Opens(c) /\ Closes(c)
        /\ heap' = [heap EXCEPT ![currentTxn] = AddCounters(@, Append(ephemeralCounters, c), TRUE)]
        /\ ephemeralCounters' = <<>>
        /\ Suspends(c) => AddSuspendFragment(LinkOf(c), currentTxn, resumeFragment)
        /\ ~ Suspends(c) => UNCHANGED suspendingTxn /\ UNCHANGED fragVars
        /\ UNCHANGED <<currentTxn, txns, compromisedTxns, nonTxnCounters, nextTxnId, resumeFragment>>
    BY <1>8 DEF CloseTxn
  <2>2. c \notin Starts(Read \cup {c}) /\ Ending(c)
    BY <1>3, <2>1 DEF Ending
  <2>3. PICK cs : cs = Append(ephemeralCounters, c)
    OBVIOUS
  <2>4. cs \in Seq(Sample) /\ ToSet(cs) = ToSet(ephemeralCounters) \cup {c}
    BY <1>0, <2>3, EphemeralSet
  <2>5. heap' = [heap EXCEPT ![currentTxn] = AddCounters(@, cs, TRUE)]
    BY <2>1, <2>3
  <2>6. currentTxn' = currentTxn /\ UNCHANGED <<txns, compromisedTxns, nonTxnCounters, resumeFragment>>
    BY <2>1
  <2>7. \/ /\ ~ (Ending(c) /\ Suspends(c))
           /\ UNCHANGED suspendingTxn /\ UNCHANGED fragVars
        \/ /\ Ending(c) /\ Suspends(c)
           /\ AddSuspendFragment(LinkOf(c), currentTxn, resumeFragment)
    BY <2>1, <2>2
  <2> QED
    BY <1>4, <2>1, <2>2, <2>4, <2>5, <2>6, <2>7, GrowsObject
<1>9. CASE AddEphemeral(c)
  BY <1>9, SetsAside
<1>10. CASE Compromise(c)
  BY <1>10, Compromises
<1> QED
  BY <1>5, <1>6, <1>7, <1>8, <1>9, <1>10 DEF LoadCounter

(* Steps that read nothing and leave the objects as they are.                  *)
LEMMA SameLoading ==
  ASSUME LoadingCover, FragTypes, Read' = Read, UNCHANGED <<heap, currentTxn, txns, nonTxnCounters, ephemeralCounters>>,
         UNCHANGED <<compromisedTxns, resumeFragment, suspendingTxn>>, UNCHANGED fragVars,
         thread' = thread \/ (currentTxn = None /\ \A c \in Read : c.threadId # thread')
  PROVE  LoadingCover'
<1>1. /\ heap' = heap /\ currentTxn' = currentTxn /\ txns' = txns /\ nonTxnCounters' = nonTxnCounters
      /\ ephemeralCounters' = ephemeralCounters /\ compromisedTxns' = compromisedTxns /\ resumeFragment' = resumeFragment
      /\ suspendingTxn' = suspendingTxn /\ frags' = frags
  BY DEF fragVars
<1>2. \A r : First(r)' = First(r) /\ CountersOf(r)' = CountersOf(r) /\ FirstAfter(r) = First(r) /\ After(r) = CountersOf(r)
  BY <1>1 DEF First, CountersOf, FirstAfter, After
<1>3. \A r : (InCompromised(r)' <=> InCompromised(r)) /\ (InTxns(r)' <=> InTxns(r)) /\ (InFrags(r)' <=> InFrags(r))
  BY <1>1 DEF InCompromised, InTxns, InFrags
<1>4. FragCover'
  <2>1. Keeps
    BY <1>1, <1>2 DEF Keeps, FragTypes
  <2>2. FragCover
    BY DEF LoadingCover
  <2> QED
    BY <1>1, <1>2, <2>1, <2>2, SameCover
<1>5. NoneUnderWay'
  BY <1>1 DEF LoadingCover, NoneUnderWay
<1>6. CurrentStretch'
  <2> SUFFICES ASSUME currentTxn # None PROVE CurrentStretch'
    BY <1>1 DEF CurrentStretch
  <2>1. PICK s : s = First(currentTxn)
    OBVIOUS
  <2>2. CurrentIs(s) /\ (suspendingTxn => InFrags(currentTxn)) /\ thread' = thread
    BY <2>1 DEF LoadingCover, CurrentStretch
  <2>3. CurrentIs(s)'
    BY <1>1, <2>2 DEF CurrentIs
  <2>4. First(currentTxn)' = s
    BY <1>1, <2>1 DEF First
  <2>5. CurrentIs(First(currentTxn))' <=> CurrentIs(s)'
    BY <2>4 DEF CurrentIs
  <2>6. InFrags(currentTxn)' <=> InFrags(currentTxn)
    BY <1>1 DEF InFrags
  <2> QED
    BY <1>1, <2>2, <2>3, <2>5, <2>6 DEF CurrentStretch
<1>7. ObjectsHold'
  BY <1>1, <1>2, <1>3 DEF LoadingCover, Objects, ObjectsHold
<1>8. ObjectsPlaced'
  BY <1>1, <1>2, <1>3 DEF LoadingCover, Objects, ObjectsPlaced
<1>9. ObjectsDiffer'
  BY <1>1, <1>2 DEF LoadingCover, Objects, ObjectsDiffer
<1>10. StartsHaveObjects'
  BY <1>1, <1>2 DEF LoadingCover, Objects, StartsHaveObjects
<1>11. AllCovered'
  BY <1>1, <1>2 DEF LoadingCover, Objects, AllCovered
<1>12. AsideRead' /\ OpensFirst(Read')
  BY <1>1 DEF LoadingCover, AsideRead
<1> QED
  BY <1>4, <1>5, <1>6, <1>7, <1>8, <1>9, <1>10, <1>11, <1>12 DEF LoadingCover, Objects

-----------------------------------------------------------------------------
(* The loader, step by step.                                                   *)
LEMMA InitLoading == Init => LoadingCover
<1> SUFFICES ASSUME Init PROVE LoadingCover
  OBVIOUS
<1>1. Read = {}
  <2>1. IInv
    BY InitInv
  <2> QED
    BY <2>1, ReadNothing DEF Init
<1>2. OpensFirst(Read)
  BY <1>1 DEF OpensFirst, Starts
<1>3. heap = <<>> /\ Len(heap) = 0 /\ frags = <<>> /\ Len(frags) = 0
  BY DEF Init
<1>4. AsideRead /\ NoneUnderWay /\ CurrentStretch
  BY DEF Init, AsideRead, NoneUnderWay, CurrentStretch, ToSet
<1>5. Objects
  <2>1. Starts(Read) = {}
    BY <1>1 DEF Starts
  <2>2. \A r \in 1 .. Len(heap) : FALSE
    BY <1>3
  <2> QED
    BY <1>1, <2>1, <2>2 DEF Objects, ObjectsHold, ObjectsPlaced, ObjectsDiffer, StartsHaveObjects, AllCovered
<1>6. FragCover
  <2>1. \A f \in 1 .. Len(frags) : FALSE
    BY <1>3
  <2>2. \A r \in 1 .. Len(heap) : FALSE
    BY <1>3
  <2>3. \A l \in Links : suspendFrag[l] = None
    BY DEF Init
  <2> QED
    BY <2>1, <2>2, <2>3 DEF FragCover, FragsKept, ResumesKept, RootsKept, ResumesHaveFrags, SuspendsHaveFrags, SuspendsLinked, NextsLinked
<1> QED
  BY <1>2, <1>4, <1>5, <1>6 DEF LoadingCover

(* The samples read have time stamps of their own.                             *)
LEMMA ReadApart ==
  ASSUME IInv, TypeInv
  PROVE  Apart(Read) /\ Apart(Loaded)
<1>1. Read \subseteq Loaded /\ Loaded \subseteq Sample
  BY LoadedAre DEF Read
<1>2. \A c, d \in Loaded : c.tsc = d.tsc => c = d
  BY LoadedDiffer
<1> QED
  BY <1>1, <1>2 DEF Apart

(* loadCounter for the next sample of the file.                                *)
LEMMA LoadSampleCover ==
  ASSUME IInv, LinkInv, TypeInv, RecInv, LoadingCover, LoadSample
  PROVE  LoadingCover'
<1>c. PICK c : c = files[thread][pos]
  OBVIOUS
<1>1. phase = "loading" /\ thread # None /\ thread' = thread /\ pos <= Len(files[thread])
  BY DEF LoadSample
<1>2. FragTypes /\ CurrentLinks /\ TxnsIn
  BY <1>1 DEF LinkInv, Before, TxnTypes, TxnsIn
<1>3. /\ ephemeralCounters \in Seq(Sample) /\ nonTxnCounters \in Seq(Sample) /\ compromisedTxns \in Seq(Nat)
      /\ currentTxn # None => currentTxn \in 1 .. Len(heap)
  BY <1>2 DEF IInv, LoadInv, CurrentInv, TypeInv, SetAside, FragTypes
<1>4. /\ Read \subseteq Sample
      /\ c.site \notin DOMAIN AppProbe => Read' = Read
      /\ c.site \in DOMAIN AppProbe =>
           Read' = Read \cup {c} /\ Newest(Read, c) /\ c.threadId = thread /\ c \in Loaded
  BY <1>c, ReadOne
<1>5. Apart(Read)
  BY ReadApart
<1>6. CASE c.site \in DOMAIN AppProbe
  <2>1. LoadCounter(c)
    BY <1>6, <1>c DEF LoadSample
  <2>2. Resumes(c) => c.data \in Links
    <3>1. pos \in DOMAIN files[thread] /\ thread \in Threads
      BY <1>1 DEF IInv, LoadInv, FilesInv
    <3> QED
      BY <1>6, <1>c, <3>1 DEF IInv, FilesInv, ResumesLinked
  <2> QED
    BY <1>1, <1>2, <1>3, <1>4, <1>5, <1>6, <2>1, <2>2, LoadCounterCover
<1>7. CASE c.site \notin DOMAIN AppProbe
  <2>1. /\ UNCHANGED <<heap, currentTxn, txns, nonTxnCounters, ephemeralCounters>>
        /\ UNCHANGED <<compromisedTxns, resumeFragment, suspendingTxn>> /\ UNCHANGED fragVars
    BY <1>7, <1>c DEF LoadSample, sortVars
  <2> QED
    BY <1>1, <1>2, <1>4, <1>7, <2>1, SameLoading
<1> QED
  BY <1>6, <1>7

(* endLoad: the transaction under way is reported, kept in its fragment, or    *)
(* compromised.                                                                *)
LEMMA EndLoadCover ==
  ASSUME IInv, LinkInv, TypeInv, LoadingCover, EndLoad
  PROVE  LoadingCover'
<1>0. /\ phase = "loading" /\ thread' = None /\ currentTxn' = None
      /\ heap' = heap /\ ephemeralCounters' = ephemeralCounters /\ nonTxnCounters' = nonTxnCounters
      /\ UNCHANGED fragVars
  BY DEF EndLoad
<1>1. FragTypes /\ CurrentLinks /\ TxnsIn /\ compromisedTxns \in Seq(Nat) /\ Len(compromisedTxns) \in Nat
  BY <1>0 DEF LinkInv, Before, TxnTypes, TxnsIn, TypeInv, SetAside
<1>2. Read' = Read
  BY ReadEnd
<1>3. \A r : First(r)' = First(r) /\ CountersOf(r)' = CountersOf(r) /\ FirstAfter(r) = First(r) /\ After(r) = CountersOf(r)
  BY <1>0 DEF First, CountersOf, FirstAfter, After
<1>4. FragCover'
  <2>1. Keeps
    BY <1>0, <1>1, <1>3 DEF Keeps, FragTypes
  <2>2. FragCover
    BY DEF LoadingCover
  <2> QED
    BY <1>0, <1>1, <1>3, <2>1, <2>2, SameCover
<1>5. \A r : InFrags(r)' <=> InFrags(r)
  BY <1>0 DEF InFrags, fragVars
<1>q. PICK q : q = currentTxn
  OBVIOUS
<1>6. /\ \A r : InCompromised(r) => InCompromised(r)'
      /\ \A r : InTxns(r) => InTxns(r)'
      /\ q # None => InCompromised(q)' \/ InTxns(q)' \/ InFrags(q)
  <2>1. CASE currentTxn # None /\ heap[currentTxn].hasEndProbe
    <3>1. AppendTxn(q) /\ compromisedTxns' = compromisedTxns
      BY <1>q, <2>1 DEF EndLoad
    <3>2. KeepBack => InFrags(q)
      BY <1>1, <1>q, <2>1, KeptBack
    <3>3. /\ \A r : InTxns(r) => InTxns(r)'
          /\ InTxns(q)' \/ InFrags(q)
      BY <1>1, <3>1, <3>2, AppendsOrKeeps
    <3> QED
      BY <3>1, <3>3 DEF InCompromised
  <2>2. CASE ~ (currentTxn # None /\ heap[currentTxn].hasEndProbe)
    <3>1. /\ txns' = txns
          /\ q = None => compromisedTxns' = compromisedTxns
          /\ q # None => compromisedTxns' = Append(compromisedTxns, q)
      BY <1>q, <2>2 DEF EndLoad
    <3>2. \A r : InTxns(r) => InTxns(r)'
      BY <3>1 DEF InTxns
    <3>3. CASE q = None
      BY <3>1, <3>2, <3>3 DEF InCompromised
    <3>4. CASE q # None
      <4>1. q \in Nat
        BY <1>q, <1>1, <3>4 DEF IInv, CurrentInv, FragTypes
      <4>2. /\ Len(compromisedTxns') = Len(compromisedTxns) + 1 /\ compromisedTxns'[Len(compromisedTxns) + 1] = q
            /\ \A k \in 1 .. Len(compromisedTxns) : compromisedTxns'[k] = compromisedTxns[k]
        BY <1>1, <3>1, <3>4, <4>1
      <4>3. Len(compromisedTxns) + 1 \in 1 .. Len(compromisedTxns') /\ \A k \in 1 .. Len(compromisedTxns) : k \in 1 .. Len(compromisedTxns')
        BY <1>1, <4>2
      <4> QED
        BY <3>2, <4>2, <4>3 DEF InCompromised
    <3> QED
      BY <3>3, <3>4
  <2> QED
    BY <2>1, <2>2
<1>7. \A r \in 1 .. Len(heap) : r # None
  BY <1>1, NoneAssumption DEF FragTypes
<1>8. ObjectsHold'
  BY <1>0, <1>2, <1>3, <1>6, <1>7 DEF LoadingCover, Objects, ObjectsHold
<1>9. ObjectsPlaced'
  BY <1>0, <1>5, <1>6, <1>7, <1>q DEF LoadingCover, Objects, ObjectsPlaced
<1>10. ObjectsDiffer'
  BY <1>0, <1>3 DEF LoadingCover, Objects, ObjectsDiffer
<1>11. StartsHaveObjects'
  BY <1>0, <1>2, <1>3 DEF LoadingCover, Objects, StartsHaveObjects
<1>12. AllCovered'
  BY <1>0, <1>2, <1>3 DEF LoadingCover, Objects, AllCovered
<1>13. AsideRead' /\ OpensFirst(Read') /\ NoneUnderWay' /\ CurrentStretch'
  BY <1>0, <1>2 DEF LoadingCover, AsideRead, NoneUnderWay, CurrentStretch
<1> QED
  BY <1>4, <1>8, <1>9, <1>10, <1>11, <1>12, <1>13 DEF LoadingCover, Objects

(* Every step until the fragments are joined.                                  *)
LEMMA NextLoading ==
  ASSUME IInv, LinkInv, TypeInv, RecInv, Before => LoadingCover, [Next]_vars
  PROVE  Before' => LoadingCover'
<1> SUFFICES ASSUME Before' PROVE LoadingCover'
  OBVIOUS
<1>0. FragTypes
  BY DEF LinkInv
<1>r. ASSUME phase = "recording", phase' \in {"recording", "loading"}, pending' = pending, thread' = thread
      PROVE  Read' = Read
  <2>1. pending = Threads /\ thread = None
    BY <1>r DEF TypeInv, Progress
  <2>2. IInv'
    BY NextInv
  <2>3. Read = {}
    BY <2>1, ReadNothing
  <2>4. pending' = Threads /\ thread' = None
    BY <1>r, <2>1
  <2>5. Read' = {}
    <3>1. \A c \in Loaded' : c.threadId \in Threads
      <4>1. \A t \in Threads : files'[t] \in Seq(Sample) /\ OfThread(files'[t], t)
        BY <2>2 DEF IInv, FilesInv
      <4> QED
        BY <4>1 DEF Loaded, ToSet, OfThread
    <3> QED
      BY <2>4, <3>1, NoneAssumption DEF Read, ReadAt
  <2> QED
    BY <2>3, <2>5
<1>1. ASSUME NEW t \in Threads, NEW s \in Sites, Record(t, s) PROVE LoadingCover'
  <2>1. /\ phase = "recording" /\ phase' = phase /\ pending' = pending /\ thread' = thread
        /\ UNCHANGED <<heap, currentTxn, txns, nonTxnCounters, ephemeralCounters>>
        /\ UNCHANGED <<compromisedTxns, resumeFragment, suspendingTxn>> /\ UNCHANGED fragVars
    BY <1>1 DEF Record, sortVars, fileVars
  <2>2. LoadingCover /\ Read' = Read
    BY <1>r, <2>1 DEF Before
  <2> QED
    BY <1>0, <2>1, <2>2, SameLoading
<1>2. CASE BeginCollection
  <2>1. /\ phase = "recording" /\ phase' = "loading" /\ pending' = pending /\ thread' = thread
        /\ UNCHANGED <<heap, currentTxn, txns, nonTxnCounters, ephemeralCounters>>
        /\ UNCHANGED <<compromisedTxns, resumeFragment, suspendingTxn>> /\ UNCHANGED fragVars
    BY <1>2 DEF BeginCollection, sortVars, fileVars
  <2>2. LoadingCover /\ Read' = Read
    BY <1>r, <2>1 DEF Before
  <2> QED
    BY <1>0, <2>1, <2>2, SameLoading
<1>3. ASSUME NEW t \in Threads, BeginLoad(t) PROVE LoadingCover'
  <2>1. /\ phase = "loading" /\ thread = None /\ thread' = t
        /\ UNCHANGED <<heap, currentTxn, txns, nonTxnCounters, ephemeralCounters>>
        /\ UNCHANGED <<compromisedTxns, resumeFragment, suspendingTxn>> /\ UNCHANGED fragVars
    BY <1>3 DEF BeginLoad, sortVars
  <2>2. LoadingCover /\ Read' = Read /\ \A c \in Read : c.threadId # t
    BY <1>3, <2>1, ReadBegin DEF Before
  <2>3. currentTxn = None
    BY <2>1 DEF IInv, CurrentInv
  <2> QED
    BY <1>0, <2>1, <2>2, <2>3, SameLoading
<1>4. CASE LoadSample
  <2>1. LoadingCover
    BY <1>4 DEF LoadSample, Before
  <2> QED
    BY <1>4, <2>1, LoadSampleCover
<1>5. CASE EndLoad
  <2>1. LoadingCover
    BY <1>5 DEF EndLoad, Before
  <2> QED
    BY <1>5, <2>1, EndLoadCover
<1>6. CASE EndCollection
  BY <1>6 DEF EndCollection, Before
<1>7. CASE JoinFragments
  BY <1>7 DEF JoinFragments, Before
<1>8. CASE AppendJoined
  BY <1>8 DEF AppendJoined, Before
<1>9. CASE GetData
  BY <1>9 DEF GetData, Before
<1>10. CASE UNCHANGED vars
  <2>1. /\ phase' = phase /\ pending' = pending /\ thread' = thread /\ files' = files /\ pos' = pos
        /\ UNCHANGED <<heap, currentTxn, txns, nonTxnCounters, ephemeralCounters>>
        /\ UNCHANGED <<compromisedTxns, resumeFragment, suspendingTxn>> /\ UNCHANGED fragVars
    BY <1>10 DEF vars, sortVars, fileVars, recordVars
  <2>2. LoadingCover /\ Read' = Read
    BY <2>1 DEF Before, Read, ReadAt, Loaded
  <2> QED
    BY <1>0, <2>1, <2>2, SameLoading
<1> QED
  BY <1>1, <1>2, <1>3, <1>4, <1>5, <1>6, <1>7, <1>8, <1>9, <1>10 DEF Next

-----------------------------------------------------------------------------
(* Joining the fragments. A transaction is out once joinFragments has begun    *)
(* with it; what is out, compromised or reported is held. A link is followed   *)
(* when its resumptions are out, or will be.                                   *)
Out(x) ==
  \/ \E k \in 1 .. Len(joined) : joined[k] = x
  \/ \E k \in 1 .. Len(work) : work[k][1] = x
IsOut(c) == \E x \in 1 .. Len(heap) : Out(x) /\ c \in CountersOf(x)
Held(c) == IsOut(c) \/ \E r \in 1 .. Len(heap) : (InCompromised(r) \/ InTxns(r)) /\ c \in CountersOf(r)
Followed(l) ==
  \/ \E k \in 1 .. Len(work) : work[k][2] = l
  \/ \A f \in 1 .. Len(frags) : IsResume(f, l) => IsOut(StartOf(f))

(* The fragments of the resumptions, which stay as they were loaded.           *)
FragStarts ==
  \A l \in Links : \A f \in 1 .. Len(frags) : IsResume(f, l) =>
    /\ StartOf(f) \in Starts(Loaded) /\ Resumes(StartOf(f)) /\ StartOf(f).data = l
    /\ CountersOf(frags[f].txn) = Stretch(Loaded, StartOf(f))
    /\ \A m \in Links : LinksFrom(Loaded, StartOf(f)) = {m} /\ resumeFrags[m] # <<>> => frags[f].next = m
FragsDiffer ==
  \A l, m \in Links : \A f, g \in 1 .. Len(frags) :
    IsResume(f, l) /\ IsResume(g, m) /\ StartOf(f) = StartOf(g) => f = g
StartsHaveFrags ==
  \A s \in Starts(Loaded) : Resumes(s) =>
    s.data \in Links /\ \E f \in 1 .. Len(frags) : IsResume(f, s.data) /\ StartOf(f) = s

(* A stretch that begins a transaction is held and its links are followed; a   *)
(* stretch that resumes one is out as a whole, and then the link of its        *)
(* fragment is followed.                                                       *)
BeginsHeld == \A s \in Starts(Loaded) : ~ Resumes(s) => \A c \in Stretch(Loaded, s) : Held(c)
OutsWhole ==
  \A x \in 1 .. Len(heap) : Out(x) => \A c \in CountersOf(x) : Resumes(c) => Stretch(Loaded, c) \subseteq CountersOf(x)
BeginsFollowed == \A s \in Starts(Loaded) : ~ Resumes(s) => \A l \in LinksFrom(Loaded, s) : Followed(l)
ResumesFollowed ==
  \A l \in Links : \A f \in 1 .. Len(frags) :
    IsResume(f, l) /\ frags[f].next # None /\ IsOut(StartOf(f)) => Followed(frags[f].next)
JoinCover ==
  /\ FragStarts /\ FragsDiffer /\ StartsHaveFrags
  /\ BeginsHeld /\ OutsWhole /\ BeginsFollowed /\ ResumesFollowed

(* The counters of no stretch.                                                 *)
RestCover ==
  \A c \in Loaded :
    \/ c \in ToSet(nonTxnCounters)
    \/ c \in ToSet(ephemeralCounters)
    \/ \E r \in 1 .. Len(heap) : InCompromised(r) /\ c \in CountersOf(r)
    \/ \E s \in Starts(Loaded) : c \in Stretch(Loaded, s)

(* The links of a stretch.                                                     *)
LEMMA LinksAre ==
  ASSUME NEW L, NEW s, NEW l
  PROVE  l \in LinksFrom(L, s) <=> EndsUnder(Stretch(L, s), l)
BY DEF LinksFrom, EndsUnder

(* Every one of them is the identity of a suspended transaction.               *)
LEMMA LinksAreLinks ==
  ASSUME NEW L, L \subseteq Sample, NEW s
  PROVE  LinksFrom(L, s) \subseteq Links
<1>1. \A d \in Sample : LinkOf(d) \in Links
  BY DEF LinkOf, Sample, Counters, Links
<1>2. Stretch(L, s) \subseteq Sample
  BY DEF Stretch, Region
<1> QED
  BY <1>1, <1>2 DEF LinksFrom

(* A stretch has no resumption but its first counter.                          *)
LEMMA OneResumption ==
  ASSUME NEW L, L \subseteq Sample, NEW s, NEW c \in Stretch(L, s), Resumes(c)
  PROVE  c = s
<1>1. c \in L /\ (c = s \/ Earlier(s, c)) /\ \A u \in Starts(L) : Earlier(s, u) => Earlier(c, u)
  BY DEF Stretch, Region
<1>2. c \in Starts(L)
  BY <1>1 DEF Starts, Opens
<1>3. ~ Earlier(c, c)
  <2>1. c.tsc \in Nat
    BY <1>1, BoundsAssumption DEF Sample, Counters
  <2> QED
    BY <2>1 DEF Earlier
<1> QED
  BY <1>1, <1>2, <1>3

(* And it has its first counter.                                               *)
LEMMA StartInStretch ==
  ASSUME NEW L, L \subseteq Sample, NEW s \in Starts(L)
  PROVE  s \in Stretch(L, s)
<1>1. s \in Region(L, s)
  BY DEF Region, Starts
<1>2. \A e \in Region(L, s) : s.tsc <= e.tsc
  <2>1. \A e \in Region(L, s) : (e = s \/ Earlier(s, e)) /\ e \in L
    BY DEF Region
  <2>2. \A e \in L : e.tsc \in Nat
    BY BoundsAssumption DEF Sample, Counters
  <2> QED
    BY <1>1, <2>1, <2>2 DEF Earlier
<1> QED
  BY <1>1, <1>2 DEF Stretch, IsClosed

(* endCollection starts from the roots.                                        *)
LEMMA RootsOut ==
  ASSUME LinkInv, EndCollection
  PROVE  /\ Len(work') = Len(rootFragments) /\ joined' = <<>>
         /\ \A k \in 1 .. Len(rootFragments) : /\ work'[k][1] = frags[rootFragments[k]].txn
                                               /\ work'[k][2] = frags[rootFragments[k]].next
<1>1. /\ work' = [i \in DOMAIN rootFragments |-> <<frags[rootFragments[i]].txn, frags[rootFragments[i]].next>>]
      /\ rootFragments \in Seq(Nat) /\ joined' = <<>>
  BY DEF EndCollection, LinkInv, Before, FragTypes
<1> DEFINE n == Len(rootFragments)
           W(i) == <<frags[rootFragments[i]].txn, frags[rootFragments[i]].next>>
           S == {W(i) : i \in 1 .. n}
<1>2. n \in Nat /\ work' = [i \in 1 .. n |-> W(i)]
  BY <1>1
<1>3. \A i \in 1 .. n : W(i)[1] = frags[rootFragments[i]].txn /\ W(i)[2] = frags[rootFragments[i]].next
  OBVIOUS
<1> HIDE DEF n, W
<1>4. work' \in [1 .. n -> S] /\ \A i \in 1 .. n : work'[i] = W(i)
  BY <1>2
<1> HIDE DEF S
<1>5. Len(work') = n
  BY <1>2, <1>4, ListOf
<1> QED
  BY <1>1, <1>3, <1>4, <1>5 DEF n

(* What the files left behind is what the joining starts from.                 *)
LEMMA EndCollectionCover ==
  ASSUME IInv, LinkInv, TypeInv, LoadingCover, EndCollection
  PROVE  JoinCover' /\ RestCover'
<1>0. /\ phase = "loading" /\ thread = None /\ pending = {} /\ currentTxn = None
      /\ UNCHANGED <<heap, txns, compromisedTxns, nonTxnCounters, ephemeralCounters, files>> /\ UNCHANGED fragVars
  BY DEF EndCollection, recordVars, sortVars, IInv, CurrentInv
<1>1. frags' = frags /\ resumeFrags' = resumeFrags /\ suspendFrag' = suspendFrag /\ heap' = heap /\ txns' = txns
      /\ compromisedTxns' = compromisedTxns /\ nonTxnCounters' = nonTxnCounters /\ ephemeralCounters' = ephemeralCounters
  BY <1>0 DEF fragVars
<1>2. FragTypes /\ RootsPlain /\ Len(heap) \in Nat
  BY <1>0 DEF LinkInv, Before, FragLinks, FragTypes
<1>3. /\ Loaded' = Loaded /\ Loaded \subseteq Sample /\ \A r : r \in 1 .. Len(heap) => r # currentTxn
  BY <1>0, <1>2, LoadedAre, NoneAssumption DEF Loaded
<1>r. Read = Loaded
  BY <1>0, ReadAll
<1>4. /\ \A r : CountersOf(r)' = CountersOf(r) /\ (InCompromised(r)' <=> InCompromised(r)) /\ (InTxns(r)' <=> InTxns(r))
      /\ \A f : StartOf(f)' = StartOf(f)
      /\ \A f, l : IsResume(f, l)' <=> IsResume(f, l)
  BY <1>1 DEF CountersOf, InCompromised, InTxns, StartOf, First, IsResume
<1>5. /\ Len(work') = Len(rootFragments) /\ joined' = <<>>
      /\ \A k \in 1 .. Len(rootFragments) : /\ work'[k][1] = frags[rootFragments[k]].txn
                                            /\ work'[k][2] = frags[rootFragments[k]].next
  BY RootsOut
<1>6. \A x : Out(x)' <=> \E k \in 1 .. Len(rootFragments) : frags[rootFragments[k]].txn = x
  <2>1. \A k \in 1 .. Len(joined') : FALSE
    BY <1>5
  <2> QED
    BY <1>5, <2>1 DEF Out
<1>7. \A x : Out(x)' => Plain(CountersOf(x))
  BY <1>2, <1>6 DEF RootsPlain
<1>8. \A f \in 1 .. Len(frags) : frags[f].txn \in 1 .. Len(heap)
  BY <1>2 DEF FragTypes
<1>9. ObjectsHold /\ ObjectsPlaced /\ ObjectsDiffer /\ StartsHaveObjects /\ AllCovered /\ FragCover
  BY DEF LoadingCover, Objects
<1>10. ASSUME NEW l \in Links, NEW f \in 1 .. Len(frags), IsResume(f, l)
       PROVE  /\ StartOf(f) \in Starts(Loaded) /\ Resumes(StartOf(f)) /\ StartOf(f).data = l
              /\ CountersOf(frags[f].txn) = Stretch(Loaded, StartOf(f))
  <2>1. Resumes(StartOf(f)) /\ StartOf(f).data = l /\ Opens(StartOf(f))
    BY <1>9, <1>10 DEF FragCover, ResumesKept, Opens
  <2> QED
    BY <1>8, <1>9, <1>r, <2>1 DEF ObjectsHold, StartOf
<1>11. ASSUME NEW l \in Links, NEW f \in 1 .. Len(frags), IsResume(f, l),
              NEW m \in Links, LinksFrom(Loaded, StartOf(f)) = {m}, resumeFrags[m] # <<>>
       PROVE  frags[f].next = m
  <2>1. PICK r \in 1 .. Len(heap) : r = frags[f].txn
    BY <1>8
  <2>2. First(r) = StartOf(f) /\ Resumes(StartOf(f)) /\ CountersOf(r) = Stretch(Loaded, StartOf(f)) /\ Opens(First(r))
    BY <1>10, <1>11, <2>1 DEF StartOf, Opens
  <2>3. \A k : k \in LinksFrom(Loaded, StartOf(f)) <=> EndsUnder(CountersOf(r), k)
    BY <2>2, LinksAre
  <2>4. EndsUnder(CountersOf(r), m)
    BY <1>11, <2>3
  <2>5. suspendFrag[m] # None /\ frags[suspendFrag[m]].txn = r
    BY <1>9, <2>2, <2>4 DEF FragCover, SuspendsHaveFrags
  <2>6. suspendFrag[m] \in 1 .. Len(frags)
    BY <1>2, <2>5 DEF FragTypes
  <2>7. suspendFrag[m] = f
    BY <1>9, <2>1, <2>2, <2>5, <2>6 DEF FragCover, FragsKept
  <2>8. frags[f].next # None
    BY <1>9, <1>11, <2>5, <2>7 DEF FragCover, SuspendsLinked
  <2>9. suspendFrag[frags[f].next] = f /\ frags[f].next \in Links
    <3>1. frags[f] \in Frag
      BY <1>2 DEF FragTypes
    <3> QED
      BY <1>9, <2>8, <3>1 DEF FragCover, NextsLinked, Frag
  <2>10. EndsUnder(CountersOf(r), frags[f].next)
    <3>1. f # None
      BY <2>5, <2>7
    <3> QED
      BY <1>9, <2>1, <2>9, <3>1 DEF FragCover, SuspendsLinked
  <2> QED
    BY <1>11, <2>3, <2>10
<1>12. FragStarts'
  BY <1>1, <1>3, <1>4, <1>10, <1>11 DEF FragStarts, LinksFrom, Stretch, Starts
<1>13. FragsDiffer'
  <2> SUFFICES ASSUME NEW l \in Links, NEW m \in Links, NEW f \in 1 .. Len(frags), NEW g \in 1 .. Len(frags),
                      IsResume(f, l), IsResume(g, m), StartOf(f) = StartOf(g)
               PROVE  f = g
    BY <1>1, <1>4 DEF FragsDiffer
  <2>1. frags[f].txn = frags[g].txn
    BY <1>8, <1>9 DEF ObjectsDiffer, StartOf
  <2>2. Resumes(StartOf(f))
    BY <1>10
  <2> QED
    BY <1>9, <2>1, <2>2 DEF FragCover, FragsKept
<1>14. StartsHaveFrags'
  <2> SUFFICES ASSUME NEW s \in Starts(Loaded), Resumes(s)
               PROVE  s.data \in Links /\ \E f \in 1 .. Len(frags) : IsResume(f, s.data) /\ StartOf(f) = s
    BY <1>1, <1>3, <1>4 DEF StartsHaveFrags
  <2>1. PICK r \in 1 .. Len(heap) : First(r) = s
    BY <1>9, <1>r DEF StartsHaveObjects
  <2>2. PICK f \in 1 .. Len(frags) : frags[f].txn = r
    BY <1>9, <2>1 DEF FragCover, ResumesHaveFrags
  <2>3. StartOf(f) = s
    BY <2>1, <2>2 DEF StartOf
  <2> QED
    BY <1>9, <2>3 DEF FragCover, FragsKept
<1>15. ASSUME NEW s \in Starts(Loaded), ~ Resumes(s)
       PROVE  \E r \in 1 .. Len(heap) : /\ First(r) = s /\ Opens(First(r)) /\ CountersOf(r) = Stretch(Loaded, s)
                                        /\ InCompromised(r) \/ InTxns(r) \/ Out(r)'
  <2>1. PICK r \in 1 .. Len(heap) : First(r) = s
    BY <1>9, <1>r DEF StartsHaveObjects
  <2>2. Opens(First(r)) /\ CountersOf(r) = Stretch(Loaded, s)
    BY <1>9, <1>r, <2>1 DEF ObjectsHold, Starts
  <2>3. InCompromised(r) \/ InTxns(r) \/ InFrags(r)
    BY <1>3, <1>9 DEF ObjectsPlaced
  <2>4. InFrags(r) => Out(r)'
    <3> SUFFICES ASSUME NEW f \in 1 .. Len(frags), frags[f].txn = r PROVE Out(r)'
      BY DEF InFrags
    <3>1. IsRoot(f)
      BY <1>9, <1>15, <2>1 DEF FragCover, FragsKept, StartOf
    <3> QED
      BY <1>6, <3>1 DEF IsRoot
  <2> QED
    BY <2>1, <2>2, <2>3, <2>4
<1>16. BeginsHeld'
  <2> SUFFICES ASSUME NEW s \in Starts(Loaded), ~ Resumes(s), NEW c \in Stretch(Loaded, s) PROVE Held(c)'
    BY <1>3 DEF BeginsHeld
  <2>1. PICK r \in 1 .. Len(heap) : /\ CountersOf(r) = Stretch(Loaded, s)
                                    /\ InCompromised(r) \/ InTxns(r) \/ Out(r)'
    BY <1>15
  <2> QED
    BY <1>1, <1>4, <2>1 DEF Held, IsOut
<1>17. OutsWhole'
  BY <1>4, <1>7 DEF OutsWhole, Plain
<1>18. BeginsFollowed'
  <2> SUFFICES ASSUME NEW s \in Starts(Loaded), ~ Resumes(s), NEW l \in LinksFrom(Loaded, s) PROVE Followed(l)'
    BY <1>3 DEF BeginsFollowed
  <2>1. PICK r \in 1 .. Len(heap) : First(r) = s /\ Opens(First(r)) /\ CountersOf(r) = Stretch(Loaded, s)
    BY <1>15
  <2>2. l \in Links /\ EndsUnder(CountersOf(r), l)
    BY <1>3, <2>1, LinksAre, LinksAreLinks
  <2>3. suspendFrag[l] # None /\ frags[suspendFrag[l]].txn = r
    BY <1>9, <2>1, <2>2 DEF FragCover, SuspendsHaveFrags
  <2>4. PICK f \in 1 .. Len(frags) : f = suspendFrag[l]
    BY <1>2, <2>2, <2>3 DEF FragTypes
  <2>5. StartOf(f) = s
    BY <2>1, <2>3, <2>4 DEF StartOf
  <2>6. IsRoot(f)
    BY <1>9, <2>5 DEF FragCover, FragsKept
  <2>7. PICK k \in 1 .. Len(rootFragments) : rootFragments[k] = f
    BY <2>6 DEF IsRoot
  <2>8. k \in 1 .. Len(work') /\ work'[k][2] = frags[f].next
    BY <1>5, <2>7
  <2>9. CASE frags[f].next = None
    <3>1. resumeFrags[l] = <<>>
      BY <1>9, <2>2, <2>3, <2>4, <2>9 DEF FragCover, SuspendsLinked
    <3>2. \A g : ~ IsResume(g, l)
      BY <3>1 DEF IsResume
    <3> QED
      BY <1>4, <3>2 DEF Followed
  <2>10. CASE frags[f].next # None
    <3>1. suspendFrag[frags[f].next] = f /\ frags[f].next \in Links
      <4>1. frags[f] \in Frag
        BY <1>2 DEF FragTypes
      <4> QED
        BY <1>9, <2>10, <4>1 DEF FragCover, NextsLinked, Frag
    <3>2. frags[f].next = l
      BY <1>9, <2>2, <2>3, <2>4, <2>5, <3>1 DEF FragCover, SuspendsLinked
    <3> QED
      BY <2>8, <3>2 DEF Followed
  <2> QED
    BY <2>9, <2>10
<1>19. ResumesFollowed'
  <2> SUFFICES ASSUME NEW l \in Links, NEW f \in 1 .. Len(frags), IsResume(f, l), IsOut(StartOf(f))'
               PROVE  FALSE
    BY <1>1, <1>4 DEF ResumesFollowed
  <2>1. Resumes(StartOf(f)) /\ StartOf(f)' = StartOf(f)
    BY <1>4, <1>10
  <2>2. PICK x : Out(x)' /\ StartOf(f)' \in CountersOf(x)'
    BY DEF IsOut
  <2> QED
    BY <1>4, <1>7, <2>1, <2>2 DEF Plain
<1>20. RestCover'
  <2> SUFFICES ASSUME NEW c \in Loaded, c \notin ToSet(nonTxnCounters), c \notin ToSet(ephemeralCounters)
               PROVE  \/ \E r \in 1 .. Len(heap) : InCompromised(r) /\ c \in CountersOf(r)
                      \/ \E s \in Starts(Loaded) : c \in Stretch(Loaded, s)
    BY <1>1, <1>3, <1>4 DEF RestCover
  <2>1. PICK r \in 1 .. Len(heap) : c \in CountersOf(r)
    BY <1>9, <1>r DEF AllCovered
  <2> QED
    BY <1>9, <1>r, <2>1 DEF ObjectsHold
<1> QED
  BY <1>12, <1>13, <1>14, <1>16, <1>17, <1>18, <1>19, <1>20 DEF JoinCover

-----------------------------------------------------------------------------
(* A step of joinFragments: the transaction y that is out takes the counters   *)
(* of the fragments that resume next, in itself and in copies that are out     *)
(* too.                                                                        *)
Resumed(next, x) ==
  \E y \in 1 .. Len(heap), f \in 1 .. Len(frags) :
    /\ Out(y) /\ IsResume(f, next) /\ After(x) = CountersOf(y) \cup CountersOf(frags[f].txn)
    /\ frags[f].next # None => \E k \in 1 .. Len(work') : work'[k][2] = frags[f].next

(* Such a step keeps what is known of the joining.                             *)
LEMMA JoinsCover ==
  ASSUME FragTypes, JoinCover, Loaded \subseteq Sample, Loaded' = Loaded,
         UNCHANGED fragVars, UNCHANGED <<txns, compromisedTxns>>, NEW next,
         \A r \in 1 .. Len(heap) : r \in 1 .. Len(heap') /\ CountersOf(r) \subseteq After(r),
         \A l \in Links : \A f \in 1 .. Len(frags) : IsResume(f, l) => heap'[frags[f].txn].counters = heap[frags[f].txn].counters,
         \A x \in 1 .. Len(heap) : Out(x) => Out(x)',
         \A x \in 1 .. Len(heap') : Out(x)' =>
           \/ x \in 1 .. Len(heap) /\ Out(x) /\ After(x) = CountersOf(x)
           \/ next \in Links /\ Resumed(next, x),
         \A k \in 1 .. Len(work) : work[k][2] = next \/ \E j \in 1 .. Len(work') : work'[j][2] = work[k][2],
         next \in Links => \A f \in 1 .. Len(frags) : IsResume(f, next) =>
           \E x \in 1 .. Len(heap') : Out(x)' /\ CountersOf(frags[f].txn) \subseteq After(x)
  PROVE  JoinCover'
<1>1. /\ frags' = frags /\ resumeFrags' = resumeFrags /\ txns' = txns /\ compromisedTxns' = compromisedTxns
      /\ \A f \in 1 .. Len(frags) : frags[f].next # None => frags[f].next \in Links
  <2>1. \A f \in 1 .. Len(frags) : frags[f] \in Frag
    BY DEF FragTypes
  <2> QED
    BY <2>1 DEF fragVars, Frag
<1>2. /\ \A r : CountersOf(r)' = After(r) /\ (InCompromised(r)' <=> InCompromised(r)) /\ (InTxns(r)' <=> InTxns(r))
      /\ \A f, l : IsResume(f, l)' <=> IsResume(f, l)
  BY <1>1 DEF CountersOf, After, InCompromised, InTxns, IsResume
<1>3. \A l \in Links : \A f \in 1 .. Len(frags) : IsResume(f, l) =>
        /\ StartOf(f)' = StartOf(f) /\ After(frags[f].txn) = CountersOf(frags[f].txn)
  BY <1>1 DEF StartOf, First, After, CountersOf
<1>4. FragStarts /\ FragsDiffer /\ StartsHaveFrags /\ BeginsHeld /\ OutsWhole /\ BeginsFollowed /\ ResumesFollowed
  BY DEF JoinCover
<1>5. \A c : IsOut(c) => IsOut(c)'
  BY <1>2 DEF IsOut
<1>6. \A c : Held(c) => Held(c)'
  BY <1>2, <1>5 DEF Held
<1>7. \A l \in Links : \A f \in 1 .. Len(frags) : IsResume(f, l) =>
        /\ StartOf(f) \in Starts(Loaded) /\ Resumes(StartOf(f)) /\ StartOf(f).data = l
        /\ CountersOf(frags[f].txn) = Stretch(Loaded, StartOf(f)) /\ StartOf(f) \in CountersOf(frags[f].txn)
  BY <1>4, StartInStretch DEF FragStarts
<1>8. \A l \in Links : Followed(l) => Followed(l)'
  <2> SUFFICES ASSUME NEW l \in Links, Followed(l) PROVE Followed(l)'
    OBVIOUS
  <2>1. CASE \A f \in 1 .. Len(frags) : IsResume(f, l) => IsOut(StartOf(f))
    <3> SUFFICES ASSUME NEW f \in 1 .. Len(frags), IsResume(f, l) PROVE IsOut(StartOf(f))'
      BY <1>1, <1>2 DEF Followed
    <3>1. PICK c : c = StartOf(f)
      OBVIOUS
    <3>2. IsOut(c)' /\ StartOf(f)' = c
      BY <1>3, <1>5, <2>1, <3>1
    <3> QED
      BY <3>2 DEF IsOut
  <2>2. CASE \E k \in 1 .. Len(work) : work[k][2] = l /\ l # next
    BY <2>2 DEF Followed
  <2>3. CASE l = next
    <3> SUFFICES ASSUME NEW f \in 1 .. Len(frags), IsResume(f, l) PROVE IsOut(StartOf(f))'
      BY <1>1, <1>2 DEF Followed
    <3>1. PICK x \in 1 .. Len(heap') : Out(x)' /\ CountersOf(frags[f].txn) \subseteq After(x)
      BY <2>3
    <3>2. StartOf(f)' \in CountersOf(x)'
      BY <1>2, <1>3, <1>7, <3>1
    <3> QED
      BY <3>1, <3>2 DEF IsOut
  <2> QED
    BY <2>1, <2>2, <2>3 DEF Followed
<1>9. FragStarts'
  <2>1. \A l \in Links : \A f \in 1 .. Len(frags) : IsResume(f, l) =>
          \A m \in Links : LinksFrom(Loaded, StartOf(f)) = {m} /\ resumeFrags[m] # <<>> => frags[f].next = m
    BY <1>4 DEF FragStarts
  <2> QED
    BY <1>1, <1>2, <1>3, <1>7, <2>1 DEF FragStarts
<1>10. FragsDiffer'
  BY <1>1, <1>2, <1>3, <1>4 DEF FragsDiffer
<1>11. StartsHaveFrags'
  BY <1>1, <1>2, <1>3, <1>4 DEF StartsHaveFrags
<1>12. BeginsHeld'
  BY <1>4, <1>6 DEF BeginsHeld
<1>13. BeginsFollowed'
  <2>1. \A s : LinksFrom(Loaded, s) \subseteq Links
    BY LinksAreLinks
  <2> QED
    BY <1>4, <1>8, <2>1 DEF BeginsFollowed
<1>14. OutsWhole'
  <2> SUFFICES ASSUME NEW x \in 1 .. Len(heap'), Out(x)', NEW c \in After(x), Resumes(c)
               PROVE  Stretch(Loaded, c) \subseteq After(x)
    BY <1>2 DEF OutsWhole
  <2>1. CASE x \in 1 .. Len(heap) /\ Out(x) /\ After(x) = CountersOf(x)
    BY <1>4, <2>1 DEF OutsWhole
  <2>2. CASE next \in Links /\ Resumed(next, x)
    <3>1. PICK y \in 1 .. Len(heap), f \in 1 .. Len(frags) :
            Out(y) /\ IsResume(f, next) /\ After(x) = CountersOf(y) \cup CountersOf(frags[f].txn)
      BY <2>2 DEF Resumed
    <3>2. CASE c \in CountersOf(y)
      BY <1>4, <3>1, <3>2 DEF OutsWhole
    <3>3. CASE c \in CountersOf(frags[f].txn)
      <4>1. c \in Stretch(Loaded, StartOf(f))
        BY <1>7, <2>2, <3>1, <3>3
      <4>2. c = StartOf(f)
        BY <4>1, OneResumption
      <4> QED
        BY <1>7, <2>2, <3>1, <4>2
    <3> QED
      BY <3>1, <3>2, <3>3
  <2> QED
    BY <2>1, <2>2
<1>15. ResumesFollowed'
  <2> SUFFICES ASSUME NEW l \in Links, NEW f \in 1 .. Len(frags), IsResume(f, l), frags[f].next # None, IsOut(StartOf(f))'
               PROVE  Followed(frags[f].next)'
    BY <1>1, <1>2 DEF ResumesFollowed
  <2>n. PICK m \in Links : m = frags[f].next
    BY <1>1
  <2>c. PICK c : c = StartOf(f)
    OBVIOUS
  <2>0. Followed(m)' => Followed(frags[f].next)'
    BY <1>1, <2>n DEF Followed
  <2>1. IsOut(c) => Followed(m)'
    BY <1>4, <1>8, <2>c, <2>n DEF ResumesFollowed
  <2>2. StartOf(f)' = c
    BY <1>3, <2>c
  <2>3. PICK x \in 1 .. Len(heap') : Out(x)' /\ c \in After(x)
    BY <1>2, <2>2 DEF IsOut
  <2>4. CASE x \in 1 .. Len(heap) /\ Out(x) /\ After(x) = CountersOf(x)
    BY <2>0, <2>1, <2>3, <2>4 DEF IsOut
  <2>5. CASE next \in Links /\ Resumed(next, x)
    <3>1. PICK y \in 1 .. Len(heap), g \in 1 .. Len(frags) :
            /\ Out(y) /\ IsResume(g, next) /\ After(x) = CountersOf(y) \cup CountersOf(frags[g].txn)
            /\ frags[g].next # None => \E k \in 1 .. Len(work') : work'[k][2] = frags[g].next
      BY <2>5 DEF Resumed
    <3>2. CASE c \in CountersOf(y)
      BY <2>0, <2>1, <3>1, <3>2 DEF IsOut
    <3>3. CASE c \in CountersOf(frags[g].txn)
      <4>1. c \in Stretch(Loaded, StartOf(g)) /\ Resumes(c)
        BY <1>7, <2>5, <2>c, <3>1, <3>3
      <4>2. c = StartOf(g)
        BY <4>1, OneResumption
      <4>3. f = g
        BY <1>4, <2>5, <2>c, <3>1, <4>2 DEF FragsDiffer
      <4>4. \E k \in 1 .. Len(work') : work'[k][2] = m
        BY <2>n, <3>1, <4>3
      <4> QED
        BY <2>0, <4>4 DEF Followed
    <3> QED
      BY <2>3, <3>1, <3>2, <3>3
  <2> QED
    BY <2>3, <2>4, <2>5
<1> QED
  BY <1>9, <1>10, <1>11, <1>12, <1>13, <1>14, <1>15 DEF JoinCover

-----------------------------------------------------------------------------
(* The end of a chain.                                                         *)
LEMMA EndCover ==
  ASSUME LinkInv, JoinCover, Loaded \subseteq Sample, Loaded' = Loaded, compromisedTxns' = compromisedTxns,
         NEW txn, NEW next, EndStep(txn), next = work[1][2], next \in Links => resumeFrags[next] = <<>>
  PROVE  JoinCover' /\ \A r \in 1 .. Len(heap) : r \in 1 .. Len(heap') /\ After(r) = CountersOf(r)
<1>1. /\ FragTypes /\ Len(joined) \in Nat /\ Len(work) \in Nat \ {0} /\ txn = work[1][1]
      /\ UNCHANGED fragVars /\ UNCHANGED <<txns, compromisedTxns>>
  BY DEF LinkInv, TxnTypes, EndStep
<1>2. /\ Len(heap') = Len(heap) /\ \A r \in 1 .. Len(heap) : heap'[r].counters = heap[r].counters
      /\ Len(joined') = Len(joined) + 1 /\ joined'[Len(joined) + 1] = txn
      /\ \A k \in 1 .. Len(joined) : joined'[k] = joined[k]
      /\ \A k \in 1 .. Len(joined) + 1 : k \in 1 .. Len(joined) \/ k = Len(joined) + 1
      /\ Len(work') = Len(work) - 1
      /\ \A k \in 1 .. Len(work) - 1 : k + 1 \in 1 .. Len(work) /\ work'[k] = work[k + 1]
  BY EndIs
<1>3. \A r \in 1 .. Len(heap) : r \in 1 .. Len(heap') /\ After(r) = CountersOf(r)
  BY <1>2 DEF After, CountersOf
<1>4. \A k \in 1 .. Len(work) : k = 1 \/ \E j \in 1 .. Len(work') : work'[j] = work[k]
  <2> SUFFICES ASSUME NEW k \in 1 .. Len(work), k # 1 PROVE \E j \in 1 .. Len(work') : work'[j] = work[k]
    OBVIOUS
  <2>1. k - 1 \in 1 .. Len(work) - 1 /\ (k - 1) + 1 = k
    BY <1>1
  <2> QED
    BY <1>2, <2>1
<1>5. \A x : Out(x) => Out(x)'
  <2>1. Len(joined) + 1 \in 1 .. Len(joined') /\ \A k \in 1 .. Len(joined) : k \in 1 .. Len(joined')
    BY <1>1, <1>2
  <2> SUFFICES ASSUME NEW x, Out(x) PROVE Out(x)'
    OBVIOUS
  <2>2. CASE \E k \in 1 .. Len(joined) : joined[k] = x
    BY <1>2, <2>1, <2>2 DEF Out
  <2>3. CASE x = txn
    BY <1>2, <2>1, <2>3 DEF Out
  <2>4. CASE \E k \in 1 .. Len(work) : work[k][1] = x /\ k # 1
    BY <1>4, <2>4 DEF Out
  <2> QED
    BY <1>1, <2>2, <2>3, <2>4 DEF Out
<1>6. \A x : Out(x)' => Out(x)
  <2>1. 1 \in 1 .. Len(work)
    BY <1>1
  <2> QED
    BY <1>1, <1>2, <2>1 DEF Out
<1>7. \A l \in Links : \A f \in 1 .. Len(frags) : IsResume(f, l) => heap'[frags[f].txn].counters = heap[frags[f].txn].counters
  BY <1>1, <1>2 DEF FragTypes
<1>8. next \in Links => \A f \in 1 .. Len(frags) : ~ IsResume(f, next)
  BY DEF IsResume
<1>9. \A k \in 1 .. Len(work) : work[k][2] = next \/ \E j \in 1 .. Len(work') : work'[j][2] = work[k][2]
  BY <1>4
<1>10. \A x \in 1 .. Len(heap') : Out(x)' => x \in 1 .. Len(heap) /\ Out(x) /\ After(x) = CountersOf(x)
  BY <1>2, <1>3, <1>6
<1> QED
  BY <1>1, <1>3, <1>5, <1>7, <1>8, <1>9, <1>10, JoinsCover

(* A suspension that was resumed.                                              *)
LEMMA ChainCover ==
  ASSUME LinkInv, JoinCover, Loaded \subseteq Sample, Loaded' = Loaded, compromisedTxns' = compromisedTxns,
         NEW txn, NEW next \in Links, NEW fs, ChainStep(txn, next, fs)
  PROVE  JoinCover' /\ \A r \in 1 .. Len(heap) : r \in 1 .. Len(heap') /\ CountersOf(r) \subseteq After(r)
<1>1. /\ FragTypes /\ WorkClosed /\ joined' = joined /\ txn = work[1][1] /\ next = work[1][2] /\ fs = resumeFrags[next]
      /\ UNCHANGED fragVars /\ UNCHANGED <<txns, compromisedTxns>>
      /\ \A k \in 1 .. Len(joined) : joined[k] \in 1 .. Len(heap)
  BY DEF LinkInv, TxnTypes, ChainStep
<1>2. ChainEffect(txn, next, fs)
  BY ChainIs
<1>n. PICK n : n = Len(fs)
  OBVIOUS
<1>ref. PICK ref : ref = Refs(txn, fs)
  OBVIOUS
<1>3. /\ Len(heap) \in Nat /\ n \in Nat \ {0} /\ Len(work) \in Nat \ {0}
      /\ txn \in 1 .. Len(heap) /\ txn \notin ResumeTxns
      /\ Len(heap') = Len(heap) + n - 1
  BY <1>2, <1>n DEF ChainEffect
<1>4. \A i \in 1 .. n :
        /\ fs[i] \in 1 .. Len(frags) /\ ref[i] \in 1 .. Len(heap')
        /\ After(ref[i]) = CountersOf(txn) \cup CountersOf(frags[fs[i]].txn)
  BY <1>2, <1>n, <1>ref DEF ChainEffect, After
<1>5. /\ Len(work') = n + (Len(work) - 1)
      /\ \A k \in 1 .. n : work'[k][1] = ref[k] /\ work'[k][2] = frags[fs[k]].next
      /\ \A k \in 1 .. Len(work) - 1 : k + 1 \in 1 .. Len(work) /\ work'[n + k] = work[k + 1]
  BY <1>2, <1>n, <1>ref, Zenon DEF ChainEffect
<1>6. /\ ref[1] = txn /\ 1 \in 1 .. n
      /\ \A r \in 1 .. Len(heap) : r # txn => heap'[r] = heap[r]
  <2>1. 1 \in 1 .. n
    BY <1>3
  <2> QED
    BY <1>2, <1>ref, <2>1 DEF ChainEffect
<1>7. \A r \in 1 .. Len(heap) : /\ r \in 1 .. Len(heap') /\ CountersOf(r) \subseteq After(r)
                                /\ r # txn => After(r) = CountersOf(r)
  <2>1. \A r \in 1 .. Len(heap) : r \in 1 .. Len(heap')
    BY <1>3
  <2>2. \A r \in 1 .. Len(heap) : r # txn => After(r) = CountersOf(r)
    BY <1>6 DEF After, CountersOf
  <2>3. CountersOf(txn) \subseteq After(txn)
    BY <1>4, <1>6
  <2> QED
    BY <2>1, <2>2, <2>3
<1>8. \A k \in 1 .. Len(work) : k = 1 \/ \E j \in 1 .. Len(work') : work'[j] = work[k]
  <2> SUFFICES ASSUME NEW k \in 1 .. Len(work), k # 1 PROVE \E j \in 1 .. Len(work') : work'[j] = work[k]
    OBVIOUS
  <2>1. k - 1 \in 1 .. Len(work) - 1 /\ (k - 1) + 1 = k /\ n + (k - 1) \in 1 .. n + (Len(work) - 1)
    BY <1>3
  <2> QED
    BY <1>5, <2>1
<1>9. \A k \in 1 .. n : k \in 1 .. Len(work')
  BY <1>3, <1>5
<1>10. \A x : Out(x) => Out(x)'
  <2>1. work'[1][1] = txn
    BY <1>5, <1>6
  <2> QED
    BY <1>1, <1>6, <1>8, <1>9, <2>1 DEF Out
<1>11. \A k \in 1 .. Len(work') : k \in 1 .. n \/ \E j \in 1 .. Len(work) : work'[k] = work[j]
  <2> SUFFICES ASSUME NEW k \in 1 .. Len(work'), k \notin 1 .. n PROVE \E j \in 1 .. Len(work) : work'[k] = work[j]
    OBVIOUS
  <2>1. k - n \in 1 .. Len(work) - 1 /\ n + (k - n) = k
    BY <1>3, <1>5
  <2>2. (k - n) + 1 \in 1 .. Len(work) /\ work'[n + (k - n)] = work[(k - n) + 1]
    BY <1>5, <2>1
  <2> QED
    BY <2>1, <2>2
<1>12. Out(txn) /\ \A x : Out(x) => x \in 1 .. Len(heap)
  <2>1. 1 \in 1 .. Len(work)
    BY <1>3
  <2> QED
    BY <1>1, <2>1 DEF Out, WorkClosed
<1>13. \A i \in 1 .. n : IsResume(fs[i], next) /\ Resumed(next, ref[i])
  <2> TAKE i \in 1 .. n
  <2>1. IsResume(fs[i], next)
    BY <1>1, <1>n DEF IsResume
  <2>2. i \in 1 .. Len(work') /\ work'[i][2] = frags[fs[i]].next
    BY <1>5, <1>9
  <2> QED
    BY <1>3, <1>4, <1>12, <2>1, <2>2 DEF Resumed
<1>14. \A x \in 1 .. Len(heap') : Out(x)' =>
         \/ x \in 1 .. Len(heap) /\ Out(x) /\ After(x) = CountersOf(x)
         \/ next \in Links /\ Resumed(next, x)
  <2> SUFFICES ASSUME NEW x \in 1 .. Len(heap'), Out(x)'
               PROVE  \/ x \in 1 .. Len(heap) /\ Out(x) /\ After(x) = CountersOf(x)
                      \/ Resumed(next, x)
    OBVIOUS
  <2>1. CASE Out(x)
    <3>1. CASE x = txn
      BY <1>6, <1>13, <3>1
    <3>2. CASE x # txn
      BY <1>7, <1>12, <2>1, <3>2
    <3> QED
      BY <3>1, <3>2
  <2>2. CASE \E k \in 1 .. n : x = ref[k]
    BY <1>13, <2>2
  <2>3. Out(x) \/ \E k \in 1 .. n : x = ref[k]
    BY <1>1, <1>5, <1>11 DEF Out
  <2> QED
    BY <2>1, <2>2, <2>3
<1>15. \A l \in Links : \A f \in 1 .. Len(frags) : IsResume(f, l) => heap'[frags[f].txn].counters = heap[frags[f].txn].counters
  <2> SUFFICES ASSUME NEW l \in Links, NEW f \in 1 .. Len(frags), IsResume(f, l) PROVE heap'[frags[f].txn] = heap[frags[f].txn]
    OBVIOUS
  <2>1. frags[f].txn \in ResumeTxns /\ frags[f].txn \in 1 .. Len(heap)
    BY <1>1 DEF IsResume, ResumeTxns, FragTypes
  <2> QED
    BY <1>3, <1>6, <2>1
<1>16. \A f \in 1 .. Len(frags) : IsResume(f, next) =>
         \E x \in 1 .. Len(heap') : Out(x)' /\ CountersOf(frags[f].txn) \subseteq After(x)
  <2> SUFFICES ASSUME NEW f \in 1 .. Len(frags), IsResume(f, next)
               PROVE  \E x \in 1 .. Len(heap') : Out(x)' /\ CountersOf(frags[f].txn) \subseteq After(x)
    OBVIOUS
  <2>1. PICK i \in 1 .. n : fs[i] = f
    BY <1>1, <1>n DEF IsResume
  <2>2. Out(ref[i])'
    BY <1>5, <1>9 DEF Out
  <2> QED
    BY <1>4, <2>1, <2>2
<1>17. \A k \in 1 .. Len(work) : work[k][2] = next \/ \E j \in 1 .. Len(work') : work'[j][2] = work[k][2]
  BY <1>1, <1>8
<1> QED
  BY <1>1, <1>7, <1>10, <1>14, <1>15, <1>16, <1>17, JoinsCover

(* joinFragments.                                                              *)
LEMMA JoinFragmentsCover ==
  ASSUME IInv, LinkInv, JoinCover, RestCover, JoinFragments
  PROVE  JoinCover' /\ RestCover'
<1>1. UNCHANGED <<files, compromisedTxns, nonTxnCounters, ephemeralCounters>>
  BY DEF JoinFragments, recordVars, sortVars
<1>2. Loaded' = Loaded /\ Loaded \subseteq Sample
  BY <1>1, LoadedAre DEF Loaded
<1>3. JoinCover' /\ \A r \in 1 .. Len(heap) : r \in 1 .. Len(heap') /\ CountersOf(r) \subseteq After(r)
  BY <1>1, <1>2, JoinCases, EndCover, ChainCover
<1>4. \A r : CountersOf(r)' = After(r) /\ (InCompromised(r)' <=> InCompromised(r))
  BY <1>1 DEF CountersOf, After, InCompromised
<1>5. RestCover'
  <2> SUFFICES ASSUME NEW c \in Loaded, c \notin ToSet(nonTxnCounters), c \notin ToSet(ephemeralCounters)
               PROVE  \/ \E r \in 1 .. Len(heap') : InCompromised(r) /\ c \in After(r)
                      \/ \E s \in Starts(Loaded) : c \in Stretch(Loaded, s)
    BY <1>1, <1>2, <1>4 DEF RestCover
  <2> QED
    BY <1>3 DEF RestCover
<1> QED
  BY <1>3, <1>5

-----------------------------------------------------------------------------
(* Chains of stretches that nothing leads to. In a chain the time stamps grow, *)
(* so it is no longer than there are stretches.                                *)
Upto(s) == {u \in Starts(Loaded) : u.tsc <= s.tsc}
OrphanTo(p, s) ==
  /\ p \in Seq(Starts(Loaded)) /\ p # <<>> /\ Len(p) <= Cardinality(Upto(s))
  /\ \A i \in 1 .. Len(p) - 1 : Continues(p[i], p[i + 1])
  /\ Dangling(p[1]) /\ p[Len(p)] = s

(* A profile has finitely many samples, although it may have any threads.      *)
LEMMA StartsFinite ==
  ASSUME IInv, TypeInv
  PROVE  /\ IsFiniteSet(Starts(Loaded)) /\ Cardinality(Starts(Loaded)) \in Nat
         /\ \A s : IsFiniteSet(Upto(s)) /\ Cardinality(Upto(s)) \in Nat /\ Cardinality(Upto(s)) <= Cardinality(Starts(Loaded))
<1> DEFINE f == [c \in Loaded |-> c.tsc]
<1>1. clock \in Nat
  BY BoundsAssumption DEF IInv, FilesInv
<1>2. \A c \in Loaded : c.tsc \in 1 .. clock
  <2> TAKE c \in Loaded
  <2>1. c.threadId \in Threads /\ \E i \in 1 .. Len(files[c.threadId]) : files[c.threadId][i] = c
    BY LoadedAre
  <2> QED
    BY <2>1 DEF TypeInv, TscsDiffer
<1>3. f \in [Loaded -> 1 .. clock] /\ \A c, d \in Loaded : f[c] = f[d] => c = d
  BY <1>2, LoadedDiffer
<1> HIDE DEF f
<1>4. f \in Injection(Loaded, 1 .. clock)
  BY <1>3, Zenon DEF Injection, IsInjective
<1>5. IsFiniteSet(1 .. clock)
  BY <1>1, FS_Interval
<1>6. IsFiniteSet(Loaded)
  BY <1>4, <1>5, FS_Injection
<1>7. Starts(Loaded) \in SUBSET Loaded /\ \A s : Upto(s) \in SUBSET Starts(Loaded)
  BY DEF Starts, Upto
<1>8. IsFiniteSet(Starts(Loaded))
  BY <1>6, <1>7, FS_Subset
<1> QED
  BY <1>7, <1>8, FS_Subset, FS_CardinalityType

(* They are chains of the property.                                            *)
LEMMA OrphanIsChain ==
  ASSUME IInv, TypeInv, NEW s, NEW p, OrphanTo(p, s)
  PROVE  p \in Chains
<1> DEFINE S == Starts(Loaded)
           n == Cardinality(S)
<1>1. p \in Seq(S) /\ Len(p) \in 0 .. n /\ p # <<>> /\ \A i \in 1 .. Len(p) - 1 : Continues(p[i], p[i + 1])
  BY StartsFinite DEF OrphanTo
<1> HIDE DEF S, n
<1>2. p \in [1 .. Len(p) -> S]
  BY <1>1
<1>3. p \in BoundedSeq(S, n)
  BY <1>1, <1>2 DEF BoundedSeq, SeqOf
<1> QED
  BY <1>1, <1>3 DEF Chains, S, n

(* A resumption that continues nothing is such a chain.                        *)
LEMMA OrphanBegins ==
  ASSUME IInv, TypeInv, NEW s \in Starts(Loaded), Dangling(s)
  PROVE  \E p : OrphanTo(p, s)
<1>1. s.tsc \in Nat
  BY LoadedAre DEF Starts
<1>2. s \in Upto(s) /\ IsFiniteSet(Upto(s)) /\ Cardinality(Upto(s)) \in Nat
  BY <1>1, StartsFinite DEF Upto
<1>3. Cardinality(Upto(s)) >= 1
  BY <1>2, FS_EmptySet
<1>4. <<s>> \in Seq(Starts(Loaded)) /\ <<s>> # <<>> /\ Len(<<s>>) = 1 /\ <<s>>[1] = s
  OBVIOUS
<1>5. OrphanTo(<<s>>, s)
  BY <1>3, <1>4 DEF OrphanTo
<1> QED
  BY <1>5

(* And what continues its last stretch makes a longer one.                     *)
LEMMA OrphanGrows ==
  ASSUME IInv, TypeInv, NEW u \in Starts(Loaded), NEW s \in Starts(Loaded), u.tsc < s.tsc, Continues(u, s),
         NEW p, OrphanTo(p, u)
  PROVE  \E q : OrphanTo(q, s)
<1> DEFINE S == Starts(Loaded)
           q == Append(p, s)
<1>0. u.tsc \in Nat /\ s.tsc \in Nat /\ \A v \in S : v.tsc \in Nat
  BY LoadedAre DEF Starts
<1>1. /\ p \in Seq(S) /\ p # <<>> /\ Len(p) <= Cardinality(Upto(u)) /\ Dangling(p[1]) /\ p[Len(p)] = u
      /\ \A i \in 1 .. Len(p) - 1 : Continues(p[i], p[i + 1])
  BY DEF OrphanTo
<1>2. Cardinality(Upto(u)) + 1 <= Cardinality(Upto(s))
  <2>1. s \notin Upto(u) /\ Upto(u) \cup {s} \in SUBSET Upto(s)
    BY <1>0 DEF Upto
  <2>2. Cardinality(Upto(u) \cup {s}) = Cardinality(Upto(u)) + 1
    BY <2>1, StartsFinite, FS_AddElement
  <2>3. Cardinality(Upto(u) \cup {s}) <= Cardinality(Upto(s))
    BY <2>1, StartsFinite, FS_Subset
  <2> QED
    BY <2>2, <2>3
<1>3. s \in S
  OBVIOUS
<1> HIDE DEF S
<1>4. /\ q \in Seq(S) /\ Len(q) = Len(p) + 1 /\ Len(p) \in Nat \ {0} /\ q[Len(p) + 1] = s
      /\ \A i \in 1 .. Len(p) : q[i] = p[i]
  BY <1>1, <1>3
<1> HIDE DEF q
<1>5. q # <<>> /\ q[1] = p[1] /\ q[Len(q)] = s
  BY <1>4
<1>6. \A i \in 1 .. Len(q) - 1 : Continues(q[i], q[i + 1])
  <2> TAKE i \in 1 .. Len(q) - 1
  <2>1. CASE i = Len(p)
    <3>1. q[i] = u /\ q[i + 1] = s
      BY <1>1, <1>4, <2>1
    <3> QED
      BY <3>1
  <2>2. CASE i # Len(p)
    <3>1. i \in 1 .. Len(p) - 1 /\ i \in 1 .. Len(p) /\ i + 1 \in 1 .. Len(p)
      BY <1>4, <2>2
    <3>2. q[i] = p[i] /\ q[i + 1] = p[i + 1]
      BY <1>4, <3>1
    <3> QED
      BY <1>1, <3>1, <3>2
  <2> QED
    BY <2>1, <2>2
<1>7. Len(q) <= Cardinality(Upto(s))
  <2>1. Cardinality(Upto(u)) \in Nat /\ Cardinality(Upto(s)) \in Nat
    BY StartsFinite
  <2> QED
    BY <1>1, <1>2, <1>4, <2>1
<1>8. OrphanTo(q, s)
  BY <1>1, <1>4, <1>5, <1>6, <1>7 DEF OrphanTo, S
<1> QED
  BY <1>8

(* A stretch begins before those that continue it.                             *)
LEMMA ContinuesLater ==
  ASSUME IInv, RecInv, NEW u \in Starts(Loaded), NEW s \in Starts(Loaded), Continues(u, s)
  PROVE  u.tsc < s.tsc
<1>1. Resumes(s) /\ s \in Loaded /\ EndsUnder(Stretch(Loaded, u), s.data) /\ u \in Loaded
  BY LinksAre DEF Continues, Starts
<1>2. PICK d \in Stretch(Loaded, u) : LinkOf(d) = s.data
  BY <1>1 DEF EndsUnder
<1>3. PICK e \in Recorded : LinkOf(e) = s.data /\ e.tsc < s.tsc
  BY <1>1 DEF RecInv, Recorded
<1>4. d.tsc = e.tsc
  BY <1>2, <1>3 DEF LinkOf
<1>5. d \in Loaded /\ (d = u \/ u.tsc < d.tsc)
  BY <1>2 DEF Stretch, Region, Earlier
<1>6. u.tsc \in Nat /\ d.tsc \in Nat /\ s.tsc \in Nat
  BY <1>1, <1>5, LoadedAre
<1> QED
  BY <1>3, <1>4, <1>5, <1>6

(* When there is nothing left to join, a resumption that is not out ends such  *)
(* a chain: the one with the smallest time stamp that does not cannot be.      *)
LEMMA OrphansEnd ==
  ASSUME IInv, TypeInv, RecInv, FragTypes, JoinCover, work = <<>>
  PROVE  \A s \in Starts(Loaded) : Resumes(s) /\ ~ IsOut(s) => \E p : OrphanTo(p, s)
<1> DEFINE B == {s \in Starts(Loaded) : Resumes(s) /\ ~ IsOut(s) /\ ~ \E p : OrphanTo(p, s)}
           T == {s.tsc : s \in B}
<1> SUFFICES ASSUME B # {} PROVE FALSE
  OBVIOUS
<1>1. \A s \in Starts(Loaded) : s.tsc \in Nat
  BY LoadedAre DEF Starts
<1>2. PICK s \in B : \A u \in B : s.tsc <= u.tsc
  <2>1. T \subseteq Nat /\ T # {}
    BY <1>1
  <2>2. PICK m \in T : \A y \in T : m <= y
    <3> HIDE DEF T
    <3> QED
      BY <2>1, LeastOf
  <2> QED
    BY <2>2
<1>3. s \in Starts(Loaded) /\ Resumes(s) /\ ~ IsOut(s) /\ ~ \E p : OrphanTo(p, s)
  OBVIOUS
<1>4. ~ Dangling(s)
  BY <1>3, OrphanBegins
<1>5. PICK u \in Starts(Loaded) : Continues(u, s) /\ (Resumes(u) => LinksFrom(Loaded, u) = {s.data})
  BY <1>3, <1>4 DEF Dangling
<1>6. PICK f \in 1 .. Len(frags) : s.data \in Links /\ IsResume(f, s.data) /\ StartOf(f) = s
  BY <1>3 DEF JoinCover, StartsHaveFrags
<1>7. ~ Followed(s.data)
  <2>1. \A k \in 1 .. Len(work) : FALSE
    OBVIOUS
  <2> QED
    BY <1>3, <1>6, <2>1 DEF Followed
<1>8. s.data \in LinksFrom(Loaded, u)
  BY <1>5 DEF Continues
<1>9. Resumes(u)
  BY <1>7, <1>8 DEF JoinCover, BeginsFollowed
<1>10. PICK g \in 1 .. Len(frags) : u.data \in Links /\ IsResume(g, u.data) /\ StartOf(g) = u
  BY <1>9 DEF JoinCover, StartsHaveFrags
<1>11. frags[g].next = s.data
  <2>1. resumeFrags[s.data] # <<>>
    BY <1>6 DEF IsResume
  <2> QED
    BY <1>5, <1>6, <1>9, <1>10, <2>1 DEF JoinCover, FragStarts
<1>12. ~ IsOut(u)
  <2>1. s.data # None
    BY <1>6, NoneAssumption
  <2> QED
    BY <1>7, <1>10, <1>11, <2>1 DEF JoinCover, ResumesFollowed
<1>13. u.tsc < s.tsc
  BY <1>3, <1>5, ContinuesLater
<1>14. PICK p : OrphanTo(p, u)
  <2>1. u \notin B
    BY <1>1, <1>2, <1>3, <1>13
  <2> QED
    BY <1>9, <1>12, <2>1
<1> QED
  BY <1>3, <1>5, <1>13, <1>14, OrphanGrows

(* Without losses every resumption continues a stretch that was suspended once *)
LEMMA NothingDangles ==
  ASSUME IInv, TypeInv, RecInv, lost = {}, NEW c \in Loaded, Dangling(c)
  PROVE  FALSE
<1>0. /\ Alternates(Loaded, open) /\ Recorded = Loaded
      /\ \A d \in Loaded : d.tsc \in Nat /\ ~ (Opens(d) /\ Closes(d))
      /\ \A d, e \in Loaded : d.tsc = e.tsc => d = e
  BY LoadedAre, LoadedDiffer DEF RecInv, Recorded
<1>1. PICK d \in Loaded : Suspends(d) /\ LinkOf(d) = c.data
  BY <1>0 DEF RecInv, Dangling
<1>2. Ending(d) /\ ~ Opens(d)
  BY <1>0, <1>1 DEF Ending, Closes
<1>3. \A u \in Loaded : Opens(u) => u \in Starts(Loaded)
  BY <1>0 DEF Alternates, Starts
<1>4. PICK s \in Loaded : Earlier(s, d) /\ Opens(s) /\ ~ \E x \in Loaded : Earlier(s, x) /\ Earlier(x, d) /\ Ending(x)
  BY <1>0, <1>2 DEF Alternates
<1>5. \A u \in Starts(Loaded) : Earlier(s, u) => Earlier(d, u)
  <2> SUFFICES ASSUME NEW u \in Starts(Loaded), Earlier(s, u) PROVE Earlier(d, u)
    OBVIOUS
  <2>1. u \in Loaded /\ Opens(u)
    BY DEF Starts
  <2>2. PICK e \in Loaded : Earlier(s, e) /\ Earlier(e, u) /\ Ending(e)
    BY <1>0, <1>4, <2>1 DEF Alternates
  <2>3. ~ Earlier(e, d)
    BY <1>4, <2>2
  <2>4. u # d /\ u.tsc # d.tsc
    BY <1>0, <1>2, <2>1
  <2> QED
    BY <1>0, <1>4, <2>1, <2>2, <2>3, <2>4 DEF Earlier
<1>6. d \in Stretch(Loaded, s)
  <2>1. d \in Region(Loaded, s)
    BY <1>4, <1>5 DEF Region
  <2> QED
    BY <1>0, <1>2, <2>1 DEF Stretch
<1>7. s \in Starts(Loaded) /\ Continues(s, c)
  BY <1>1, <1>2, <1>3, <1>4, <1>6 DEF Continues, LinksFrom, Dangling
<1>8. LinksFrom(Loaded, s) # {c.data}
  BY <1>7 DEF Dangling
<1>9. PICK e \in Stretch(Loaded, s) : Ending(e) /\ e # d
  BY <1>1, <1>2, <1>6, <1>8 DEF LinksFrom
<1>10. e \in Loaded /\ (e = s \/ Earlier(s, e)) /\ \A u \in Starts(Loaded) : Earlier(s, u) => Earlier(e, u)
  BY <1>9 DEF Stretch, Region
<1>11. Earlier(s, e) /\ ~ Opens(e)
  BY <1>4, <1>9, <1>10 DEF Ending
<1>12. Earlier(d, e)
  <2>1. ~ Earlier(e, d) /\ e.tsc # d.tsc
    BY <1>0, <1>4, <1>9, <1>10, <1>11
  <2> QED
    BY <1>0, <1>4, <1>10, <1>11, <2>1 DEF Earlier
<1>13. PICK u \in Loaded : Earlier(u, e) /\ Opens(u) /\ ~ \E x \in Loaded : Earlier(u, x) /\ Earlier(x, e) /\ Ending(x)
  BY <1>0, <1>9, <1>10 DEF Alternates
<1>14. Earlier(s, u)
  <2>1. ~ Earlier(u, d) /\ u.tsc # d.tsc
    BY <1>0, <1>2, <1>12, <1>13
  <2> QED
    BY <1>0, <1>4, <1>12, <1>13, <2>1 DEF Earlier
<1>15. Earlier(e, u)
  BY <1>3, <1>10, <1>13, <1>14
<1> QED
  BY <1>0, <1>10, <1>13, <1>15 DEF Earlier

-----------------------------------------------------------------------------
(* Appending what was joined loses nothing: transactions only grow, and the    *)
(* counters of an appended one are in a transaction of the report.             *)
KeepsAll(st, new) ==
  /\ \A i \in DOMAIN st.txns : i \in DOMAIN new.txns /\ new.txns[i] = st.txns[i]
  /\ \A r \in 1 .. Len(heap) : \A c \in ToSet(st.heap[r].counters) : c \in ToSet(new.heap[r].counters)
Holds(st, c) == \E i \in DOMAIN st.txns : c \in ToSet(st.heap[st.txns[i]].counters)

(* One appended transaction.                                                   *)
LEMMA AppendOneAbsorbs ==
  ASSUME TxnTypes, NEW st, LoopOK(st), NEW k \in 1 .. Len(joined)
  PROVE  /\ KeepsAll(st, AppendOne(st, joined[k]))
         /\ \A c \in ToSet(st.heap[joined[k]].counters) : Holds(AppendOne(st, joined[k]), c)
<1> DEFINE h == st.heap
           d == st.txns
           ref == joined[k]
           id == h[ref].txnId
           new == AppendOne(st, ref)
<1>1. /\ h \in Seq(Txn) /\ Len(h) = Len(heap) /\ Len(heap) \in Nat
      /\ \A r \in 1 .. Len(heap) : h[r] \in Txn
      /\ \A i \in DOMAIN d : d[i] \in 1 .. Len(heap)
  <2>1. h \in Seq(Txn) /\ Len(h) = Len(heap)
    BY DEF LoopOK
  <2> QED
    BY <2>1 DEF LoopOK
<1>2. ref \in 1 .. Len(heap)
  BY DEF TxnTypes
<1>3. st = [heap |-> h, txns |-> d]
  BY DEF LoopOK
<1>4. CASE id \in DOMAIN d
  <2> DEFINE t == d[id]
             y == Join(h[t], h[ref])
             g == [h EXCEPT ![t] = y]
  <2>1. t \in 1 .. Len(heap)
    BY <1>1, <1>4
  <2>2. ToSet(y.counters) = ToSet(h[t].counters) \cup ToSet(h[ref].counters)
    BY <1>1, <1>2, <2>1, JoinSet
  <2>4. new = [st EXCEPT !.heap = g]
    BY <1>4 DEF AppendOne
  <2> HIDE DEF h, d, g, new
  <2>5. new.heap = g /\ new.txns = d
    BY <1>3, <2>4
  <2> HIDE DEF t, y
  <2>6. \A r \in 1 .. Len(heap) : g[r] = IF r = t THEN y ELSE h[r]
    <3>1. h \in [1 .. Len(heap) -> Txn]
      BY <1>1
    <3> QED
      BY <2>1, <3>1 DEF g
  <2>7. \A r \in 1 .. Len(heap) : \A c \in ToSet(h[r].counters) : c \in ToSet(g[r].counters)
    BY <2>2, <2>6
  <2>8. KeepsAll(st, new)
    BY <2>5, <2>7 DEF KeepsAll, h, d
  <2>9. \A c \in ToSet(h[ref].counters) : c \in ToSet(g[t].counters)
    BY <2>1, <2>2, <2>6
  <2>10. id \in DOMAIN new.txns /\ new.txns[id] = t
    BY <1>4, <2>5 DEF t
  <2>11. \A c \in ToSet(h[ref].counters) : Holds(new, c)
    BY <2>5, <2>9, <2>10, Zenon DEF Holds
  <2> QED
    BY <2>8, <2>11 DEF new, h
<1>5. CASE id \notin DOMAIN d
  <2> DEFINE e == Put(d, id, ref)
  <2>1. new = [st EXCEPT !.txns = e]
    BY <1>5 DEF AppendOne
  <2> HIDE DEF h, d, new
  <2>2. DOMAIN e = DOMAIN d \cup {id} /\ \A i \in DOMAIN e : e[i] = IF i = id THEN ref ELSE d[i]
    BY DEF Put
  <2> HIDE DEF e
  <2>3. new.heap = h /\ new.txns = e
    BY <1>3, <2>1
  <2>4. KeepsAll(st, new)
    BY <1>5, <2>2, <2>3 DEF KeepsAll, h, d
  <2>5. id \in DOMAIN new.txns /\ new.txns[id] = ref
    BY <2>2, <2>3
  <2>6. \A c \in ToSet(h[ref].counters) : Holds(new, c)
    BY <2>3, <2>5, Zenon DEF Holds
  <2> QED
    BY <2>4, <2>6 DEF new, h
<1> QED
  BY <1>4, <1>5

(* What the loop has absorbed after n transactions.                            *)
Absorbed(st, n) ==
  /\ KeepsAll([heap |-> heap, txns |-> txns], st)
  /\ \A k \in 1 .. n : \A c \in CountersOf(joined[k]) : Holds(st, c)

(* All of them, by the least round that would fail.                            *)
LEMMA LoopAbsorbs ==
  ASSUME TxnTypes, NEW f, Appends(f, Len(joined)), \A n \in 0 .. Len(joined) : LoopOK(f[n])
  PROVE  \A n \in 0 .. Len(joined) : Absorbed(f[n], n)
<1> DEFINE N == Len(joined)
           first == [heap |-> heap, txns |-> txns]
           B == {n \in 0 .. N : ~ Absorbed(f[n], n)}
<1>0. N \in Nat
  BY DEF TxnTypes
<1>1. f[0] = first /\ \A n \in 1 .. N : f[n] = AppendOne(f[n - 1], joined[n])
  BY <1>0, AppendsAt
<1>h. first.heap = heap /\ first.txns = txns
  OBVIOUS
<1>2. ASSUME B # {} PROVE FALSE
  <2>1. B \subseteq Nat
    BY <1>0
  <2>2. PICK n \in B : \A y \in B : n <= y
    <3> HIDE DEF B
    <3> QED
      BY <1>2, <2>1, LeastOf
  <2>3. n # 0
    <3>1. Absorbed(first, 0)
      BY DEF Absorbed, KeepsAll
    <3> QED
      BY <1>1, <3>1
  <2>4. n \in 1 .. N /\ n - 1 \in 0 .. N /\ n - 1 < n
    BY <1>0, <2>3
  <2>5. Absorbed(f[n - 1], n - 1) /\ LoopOK(f[n - 1])
    <3>1. n - 1 \notin B
      BY <2>1, <2>2, <2>4
    <3> QED
      BY <2>4, <3>1
  <2> DEFINE st == f[n - 1]
             new == AppendOne(st, joined[n])
  <2>6. KeepsAll(st, new) /\ \A c \in ToSet(st.heap[joined[n]].counters) : Holds(new, c)
    BY <2>4, <2>5, AppendOneAbsorbs
  <2>7. /\ \A i \in DOMAIN st.txns : st.txns[i] \in 1 .. Len(heap)
        /\ \A k \in 1 .. N : joined[k] \in 1 .. Len(heap)
    BY <2>5 DEF LoopOK, TxnTypes
  <2>8. KeepsAll(first, st) /\ \A k \in 1 .. n - 1 : \A c \in CountersOf(joined[k]) : Holds(st, c)
    BY <2>5 DEF Absorbed
  <2> HIDE DEF st, new, first, N, B
  <2>9. KeepsAll(first, new)
    BY <2>6, <2>8 DEF KeepsAll
  <2>10. \A c : Holds(st, c) => Holds(new, c)
    BY <2>6, <2>7 DEF KeepsAll, Holds
  <2>11. \A c \in CountersOf(joined[n]) : Holds(new, c)
    <3>1. \A c \in CountersOf(joined[n]) : c \in ToSet(st.heap[joined[n]].counters)
      BY <1>h, <2>4, <2>7, <2>8 DEF KeepsAll, CountersOf
    <3> QED
      BY <2>6, <3>1
  <2>12. \A k \in 1 .. n : k = n \/ k \in 1 .. n - 1
    BY <1>0, <2>4
  <2>13. Absorbed(new, n)
    BY <2>8, <2>9, <2>10, <2>11, <2>12 DEF Absorbed, first
  <2>14. f[n] = new
    BY <1>1, <2>4 DEF new, st
  <2> QED
    BY <2>2, <2>13, <2>14 DEF B
<1> QED
  BY <1>2

-----------------------------------------------------------------------------
(* What the reports leave out once the joined transactions are appended.       *)
DoneCover == \A c \in Loaded : c \in Reported \/ c \in ToSet(ephemeralCounters) \/ OrphanChain(c)

(* What is held when the joining ends is in the reports.                       *)
LEMMA HeldIsReported ==
  ASSUME LinkInv, TypeInv, AppendJoined, NEW c, Held(c)
  PROVE  c \in Reported'
<1>0. FragTypes /\ TxnTypes
  BY DEF LinkInv
<1>1. /\ work = <<>> /\ compromisedTxns' = compromisedTxns /\ nonTxnCounters' = nonTxnCounters
  BY DEF AppendJoined, sortVars
<1>2. PICK f : /\ Appends(f, Len(joined)) /\ \A n \in 0 .. Len(joined) : LoopOK(f[n])
               /\ heap' = f[Len(joined)].heap /\ txns' = f[Len(joined)].txns
  BY AppendJoinedIs
<1> DEFINE all == f[Len(joined)]
           N == Len(joined)
<1>3. N \in Nat /\ N \in 0 .. N
  BY AppendJoinedIs
<1>4. Absorbed(all, N)
  BY <1>0, <1>2, <1>3, LoopAbsorbs
<1>5. heap' = all.heap /\ txns' = all.txns
  BY <1>2
<1> HIDE DEF all
<1>6. /\ \A i \in DOMAIN txns : i \in DOMAIN txns' /\ txns'[i] = txns[i]
      /\ \A r \in 1 .. Len(heap) : \A d \in CountersOf(r) : d \in ToSet(heap'[r].counters)
  BY <1>4, <1>5 DEF Absorbed, KeepsAll, CountersOf
<1>7. \A k \in 1 .. N : \A d \in CountersOf(joined[k]) : Holds(all, d)
  BY <1>4 DEF Absorbed
<1>8. \A d : Holds(all, d) => d \in Reported'
  BY <1>5 DEF Holds, Reported, CountersOf
<1>9. CASE IsOut(c)
  <2>1. PICK x \in 1 .. Len(heap) : Out(x) /\ c \in CountersOf(x)
    BY <1>9 DEF IsOut
  <2>2. PICK k \in 1 .. N : joined[k] = x
    BY <1>1, <2>1 DEF Out
  <2> QED
    BY <1>7, <1>8, <2>1, <2>2
<1>10. CASE ~ IsOut(c)
  <2>1. PICK r \in 1 .. Len(heap) : (InCompromised(r) \/ InTxns(r)) /\ c \in CountersOf(r)
    BY <1>10 DEF Held
  <2>2. c \in ToSet(heap'[r].counters)
    BY <1>6, <2>1
  <2>3. CASE InCompromised(r)
    <3>1. r \in ToSet(compromisedTxns')
      <4>1. compromisedTxns \in Seq(Nat)
        BY DEF TypeInv, SetAside
      <4> QED
        BY <1>1, <2>3, <4>1 DEF InCompromised, ToSet
    <3> QED
      BY <2>2, <3>1 DEF Reported, CountersOf
  <2>4. CASE InTxns(r)
    <3>1. PICK i \in DOMAIN txns' : txns'[i] = r
      BY <1>6, <2>4 DEF InTxns
    <3> QED
      BY <2>2, <3>1 DEF Reported, CountersOf
  <2> QED
    BY <2>1, <2>3, <2>4
<1> QED
  BY <1>9, <1>10

(* appendTxn of what was joined: a stretch is held, or orphaned.               *)
LEMMA AppendJoinedCover ==
  ASSUME IInv, LinkInv, TypeInv, RecInv, JoinCover, RestCover, AppendJoined
  PROVE  DoneCover'
<1>0. FragTypes
  BY DEF LinkInv
<1>1. /\ work = <<>> /\ files' = files /\ nonTxnCounters' = nonTxnCounters /\ ephemeralCounters' = ephemeralCounters
  BY DEF AppendJoined, recordVars, sortVars
<1>2. Loaded' = Loaded
  BY <1>1 DEF Loaded
<1>3. \A c : OrphanChain(c)' <=> OrphanChain(c)
  <2>1. Chains' = Chains
    BY <1>2 DEF Chains, Continues
  <2>2. \A s : Dangling(s)' <=> Dangling(s)
    BY <1>2 DEF Dangling, Continues
  <2> QED
    BY <1>2, <2>1, <2>2 DEF OrphanChain
<1>4. ASSUME NEW s \in Starts(Loaded), NEW c \in Stretch(Loaded, s)
      PROVE  Held(c) \/ OrphanChain(c)
  <2>1. CASE ~ Resumes(s)
    BY <2>1 DEF JoinCover, BeginsHeld
  <2>2. CASE Resumes(s) /\ IsOut(s)
    <3>1. PICK x \in 1 .. Len(heap) : Out(x) /\ s \in CountersOf(x)
      BY <2>2 DEF IsOut
    <3>2. c \in CountersOf(x)
      BY <2>2, <3>1 DEF JoinCover, OutsWhole
    <3> QED
      BY <3>1, <3>2 DEF Held, IsOut
  <2>3. CASE Resumes(s) /\ ~ IsOut(s)
    <3>1. PICK p : OrphanTo(p, s)
      BY <1>0, <1>1, <2>3, OrphansEnd
    <3>2. p \in Chains
      BY <3>1, OrphanIsChain
    <3>3. Dangling(p[1]) /\ p[Len(p)] = s
      BY <3>1 DEF OrphanTo
    <3> QED
      BY <3>2, <3>3 DEF OrphanChain
  <2> QED
    BY <2>1, <2>2, <2>3
<1>5. ASSUME NEW c \in Loaded
      PROVE  c \in Reported' \/ c \in ToSet(ephemeralCounters)' \/ OrphanChain(c)'
  <2>1. CASE c \in ToSet(nonTxnCounters)
    BY <1>1, <2>1 DEF Reported
  <2>2. CASE c \in ToSet(ephemeralCounters)
    BY <1>1, <2>2
  <2>3. CASE \E r \in 1 .. Len(heap) : InCompromised(r) /\ c \in CountersOf(r)
    <3>1. Held(c)
      BY <2>3 DEF Held
    <3> QED
      BY <3>1, HeldIsReported
  <2>4. CASE \E s \in Starts(Loaded) : c \in Stretch(Loaded, s)
    <3>1. Held(c) \/ OrphanChain(c)
      BY <1>4, <2>4
    <3> QED
      BY <1>3, <3>1, HeldIsReported
  <2> QED
    BY <2>1, <2>2, <2>3, <2>4 DEF RestCover
<1> QED
  BY <1>2, <1>5 DEF DoneCover

-----------------------------------------------------------------------------
(* Where the counters are, in each phase.                                      *)
CoverInv ==
  /\ Before => LoadingCover
  /\ phase = "joining" => JoinCover /\ RestCover
  /\ phase \in {"joined", "done"} => DoneCover

(* Nothing has been loaded at first.                                           *)
LEMMA InitCover == Init => CoverInv
BY InitLoading DEF CoverInv, Init

(* Nothing of it changes with the phase, or in a step that changes nothing.    *)
LEMMA SameJoin ==
  ASSUME UNCHANGED vars
  PROVE  (JoinCover => JoinCover') /\ (RestCover => RestCover')
<1>1. /\ heap' = heap /\ txns' = txns /\ compromisedTxns' = compromisedTxns /\ nonTxnCounters' = nonTxnCounters
      /\ ephemeralCounters' = ephemeralCounters /\ frags' = frags /\ resumeFrags' = resumeFrags /\ files' = files
      /\ joined' = joined /\ work' = work
  BY DEF vars, recordVars, sortVars, fragVars, joinVars
<1>2. Loaded' = Loaded
  BY <1>1 DEF Loaded
<1>3. /\ \A r : CountersOf(r)' = CountersOf(r) /\ (InCompromised(r)' <=> InCompromised(r)) /\ (InTxns(r)' <=> InTxns(r))
      /\ \A f : StartOf(f)' = StartOf(f)
      /\ \A f, l : IsResume(f, l)' <=> IsResume(f, l)
      /\ \A x : Out(x)' <=> Out(x)
  BY <1>1 DEF CountersOf, InCompromised, InTxns, StartOf, First, IsResume, Out
<1>4. \A c : (IsOut(c)' <=> IsOut(c)) /\ (Held(c)' <=> Held(c))
  BY <1>1, <1>3 DEF IsOut, Held
<1>5. \A l : Followed(l)' <=> Followed(l)
  BY <1>1, <1>3, <1>4 DEF Followed
<1>6. RestCover => RestCover'
  BY <1>1, <1>2, <1>3 DEF RestCover
<1>7. FragStarts /\ FragsDiffer /\ StartsHaveFrags => FragStarts' /\ FragsDiffer' /\ StartsHaveFrags'
  BY <1>1, <1>2, <1>3 DEF FragStarts, FragsDiffer, StartsHaveFrags
<1>8. BeginsHeld /\ OutsWhole => BeginsHeld' /\ OutsWhole'
  BY <1>1, <1>2, <1>3, <1>4 DEF BeginsHeld, OutsWhole
<1>9. BeginsFollowed /\ ResumesFollowed => BeginsFollowed' /\ ResumesFollowed'
  BY <1>1, <1>2, <1>3, <1>4, <1>5 DEF BeginsFollowed, ResumesFollowed
<1> QED
  BY <1>6, <1>7, <1>8, <1>9 DEF JoinCover

(* The reports stay as they are.                                               *)
LEMMA SameDone ==
  ASSUME DoneCover, UNCHANGED <<files, heap, txns, compromisedTxns, nonTxnCounters, ephemeralCounters>>
  PROVE  DoneCover'
<1>1. Loaded' = Loaded
  BY DEF Loaded
<1>2. Reported' = Reported
  BY DEF Reported, CountersOf
<1>3. Chains' = Chains
  BY <1>1 DEF Chains, Continues
<1>4. \A s : Dangling(s)' <=> Dangling(s)
  BY <1>1 DEF Dangling, Continues
<1>5. \A c : OrphanChain(c)' <=> OrphanChain(c)
  BY <1>1, <1>3, <1>4 DEF OrphanChain
<1> QED
  BY <1>1, <1>2, <1>5 DEF DoneCover

(* Every step keeps track of every counter.                                    *)
LEMMA NextCover ==
  ASSUME IInv, LinkInv, TypeInv, RecInv, CoverInv, [Next]_vars
  PROVE  CoverInv'
<1>0. Before' => LoadingCover'
  BY NextLoading DEF CoverInv
<1>p. phase \in {"recording", "loading", "joining", "joined", "done"}
  BY DEF LinkInv, TxnTypes
<1>1. ASSUME NEW t \in Threads, NEW s \in Sites, Record(t, s) PROVE phase' \in {"recording", "loading"}
  BY <1>1 DEF Record
<1>2. CASE BeginCollection
  BY <1>0, <1>2 DEF BeginCollection, CoverInv, Before
<1>3. ASSUME NEW t \in Threads, BeginLoad(t) PROVE phase' \in {"recording", "loading"}
  BY <1>3 DEF BeginLoad
<1>4. CASE LoadSample
  BY <1>0, <1>4 DEF LoadSample, CoverInv, Before
<1>5. CASE EndLoad
  BY <1>0, <1>5 DEF EndLoad, CoverInv, Before
<1>6. CASE EndCollection
  <2>1. phase = "loading" /\ phase' = "joining"
    BY <1>6 DEF EndCollection
  <2>2. LoadingCover
    BY <2>1 DEF CoverInv, Before
  <2>3. JoinCover' /\ RestCover'
    BY <1>6, <2>2, EndCollectionCover
  <2> QED
    BY <1>0, <2>1, <2>3 DEF CoverInv
<1>7. CASE JoinFragments
  <2>1. phase = "joining" /\ phase' = "joining"
    BY <1>7 DEF JoinFragments
  <2>2. JoinCover' /\ RestCover'
    BY <1>7, <2>1, JoinFragmentsCover DEF CoverInv
  <2> QED
    BY <1>0, <2>1, <2>2 DEF CoverInv
<1>8. CASE AppendJoined
  <2>1. phase = "joining" /\ phase' = "joined"
    BY <1>8 DEF AppendJoined
  <2>2. DoneCover'
    BY <1>8, <2>1, AppendJoinedCover DEF CoverInv
  <2> QED
    BY <1>0, <2>1, <2>2 DEF CoverInv
<1>9. CASE GetData
  <2>1. /\ phase = "joined" /\ phase' = "done"
        /\ UNCHANGED <<files, heap, txns, compromisedTxns, nonTxnCounters, ephemeralCounters>>
    BY <1>9 DEF GetData, recordVars, sortVars
  <2>2. DoneCover'
    BY <2>1, SameDone DEF CoverInv
  <2> QED
    BY <1>0, <2>1, <2>2 DEF CoverInv
<1>10. CASE UNCHANGED vars
  <2>1. phase' = phase /\ UNCHANGED <<files, heap, txns, compromisedTxns, nonTxnCounters, ephemeralCounters>>
    BY <1>10 DEF vars, recordVars, sortVars
  <2>2. phase = "joining" => JoinCover' /\ RestCover'
    BY <1>10, SameJoin DEF CoverInv
  <2>3. phase \in {"joined", "done"} => DoneCover'
    BY <2>1, SameDone DEF CoverInv
  <2> QED
    BY <1>0, <2>1, <2>2, <2>3 DEF CoverInv
<1>11. ASSUME phase' \in {"recording", "loading"} PROVE CoverInv'
  BY <1>0, <1>11 DEF CoverInv, Before
<1> QED
  BY <1>1, <1>2, <1>3, <1>4, <1>5, <1>6, <1>7, <1>8, <1>9, <1>10, <1>11 DEF Next

(* No counter disappears silently: whatever the order of the files, however    *)
(* often the transactions were suspended and resumed across threads and        *)
(* whichever samples were lost, a loaded counter is reported, is still held    *)
(* back at the end, or is in a chain whose first resumption continues nothing  *)
(* that the loader follows, and the last only if a sample was lost (loader.py  *)
(* loadCounter, appendTxn; fragments.py addSuspendFragment, joinFragments).    *)
THEOREM OnlyOrphansSkippedHolds == Spec => []OnlyOrphansSkipped
<1>1. IInv /\ LinkInv /\ TypeInv /\ RecInv /\ CoverInv => OnlyOrphansSkipped
  <2> SUFFICES ASSUME IInv, TypeInv, RecInv, CoverInv, phase = "done", NEW c \in Loaded, c \notin Reported
               PROVE  c \in ToSet(ephemeralCounters) \/ (lost # {} /\ OrphanChain(c))
    BY DEF OnlyOrphansSkipped
  <2>1. c \in ToSet(ephemeralCounters) \/ OrphanChain(c)
    BY DEF CoverInv, DoneCover
  <2>2. ASSUME OrphanChain(c), lost = {} PROVE FALSE
    <3>1. PICK p \in Chains : Dangling(p[1])
      BY <2>2 DEF OrphanChain
    <3>2. p[1] \in Starts(Loaded)
      <4> DEFINE S == Starts(Loaded)
                 n == Cardinality(S)
      <4>1. p \in BoundedSeq(S, n) /\ p # <<>>
        BY DEF Chains
      <4> HIDE DEF S, n
      <4>2. PICK m \in 0 .. n : p \in [1 .. m -> S]
        BY <4>1 DEF BoundedSeq, SeqOf
      <4>3. m # 0
        BY <4>1, <4>2
      <4>4. n \in Nat
        BY StartsFinite DEF n, S
      <4>5. 1 \in 1 .. m
        BY <4>3, <4>4
      <4> QED
        BY <4>2, <4>5 DEF S
    <3>3. p[1] \in Loaded
      BY <3>2 DEF Starts
    <3> QED
      BY <2>2, <3>1, <3>3, NothingDangles
  <2> QED
    BY <2>1, <2>2
<1>2. Init => CoverInv
  BY InitCover
<1>3. IInv /\ LinkInv /\ TypeInv /\ RecInv /\ CoverInv /\ [Next]_vars => CoverInv'
  BY NextCover
<1> QED
  BY <1>1, <1>2, <1>3, InitInv, NextInv, InitLinks, NextLinks, InitTypes, NextTypes, InitRec, NextRec, PTL DEF Spec
=============================================================================
