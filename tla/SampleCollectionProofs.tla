------------------------ MODULE SampleCollectionProofs ------------------------
(***************************************************************************)
(* Proofs about SampleCollection, for any threads, any number and size of  *)
(* buffers, any capacity and any number of probes hit.                     *)
(*                                                                         *)
(* The invariant has five parts: where the collector is in its loops      *)
(* (LoopInv, ChainInv), what the buffers of a thread hold while it writes  *)
(* them (WindowInv), what was persisted (CleanInv), what is still to be    *)
(* persisted (LossInv, FlushInv, DoneInv) and what StorageMgr has counted  *)
(* (CapacityInv).                                                          *)
(***************************************************************************)
EXTENDS SampleCollection, FiniteSetTheorems, FunctionTheorems, SequenceTheorems,
        WellFoundedInduction, TLAPS

-----------------------------------------------------------------------------
(* Sets of numbers.                                                          *)

(* A set of numbers has a smallest element.                                    *)
LEMMA LeastOf ==
  ASSUME NEW T, T \subseteq Nat, T # {}
  PROVE  \E m \in T : \A y \in T : m <= y
<1>. DEFINE R == OpToRel(<, Nat)
<1>1. PICK m \in T : \A y \in T : ~ (<<y, m>> \in R)
  BY NatLessThanWellFounded, WFMin
<1>2. \A y \in T : y \in Nat /\ m \in Nat
  OBVIOUS
<1>3. ASSUME NEW y \in T, y < m PROVE FALSE
  <2>1. <<y, m>> \in R
    BY <1>2, <1>3 DEF OpToRel
  <2>. QED BY <2>1, <1>1, Zenon
<1>. QED BY <1>2, <1>3

(* Max of a bounded set of numbers is its largest element.                     *)
LEMMA MaxOf ==
  ASSUME NEW N \in Nat, NEW S, S \subseteq 0 .. N, S # {}
  PROVE  Max(S) \in S /\ \A y \in S : y <= Max(S)
<1>. DEFINE T == {N - x : x \in S}
<1>1. T \subseteq Nat /\ T # {}
  <2>1. PICK x \in S : TRUE
    OBVIOUS
  <2>2. N - x \in T
    BY <2>1
  <2>3. \A y \in S : N - y \in Nat
    OBVIOUS
  <2>. QED BY <2>2, <2>3
<1>2. PICK m \in T : \A y \in T : m <= y
  <2>. HIDE DEF T
  <2>. QED BY <1>1, LeastOf
<1>4. PICK x \in S : m = N - x
  OBVIOUS
<1>5. \A y \in S : x >= y
  BY <1>2, <1>4
<1>. QED BY <1>5 DEF Max

-----------------------------------------------------------------------------

Tsc == 0 .. MaxTsc
Sample == [tsc : Tsc, site : Tsc]
Filed == [tsc : Tsc, site : Tsc, clean : BOOLEAN]
InLoop == {"visit", "attach", "attachCheck", "collect", "reading", "peek", "flush", "account"}

Types ==
  /\ TypeOK
  /\ probesOn \in BOOLEAN
  /\ tsc \in [Threads -> Tsc]
  /\ wseen \in [Threads -> Nat \cup {NoReader}]
  /\ buf \in [Threads -> [Slots -> [1 .. BufLen -> Sample]]]
  /\ windex \in [Threads -> Nat] /\ rindex \in [Threads -> Nat \cup {NoReader}]
  /\ overflow \in [Threads -> Nat] /\ lastOverflow \in [Threads -> Nat]
  /\ lastTsc \in [Threads -> Tsc] /\ high \in [Threads -> Tsc] /\ since \in [Threads -> Tsc]
  /\ list \in Seq(Threads) /\ todo \in Seq(Threads)
  /\ cpc \in InLoop \cup {"off", "idle", "detach"}
  /\ flushing \in BOOLEAN /\ starting \in BOOLEAN /\ dropped \in BOOLEAN
  /\ rseen \in Nat
  /\ range \in [limit : Nat, idx : Nat, from : Nat \ {0}, to : 0 .. BufLen]
  /\ file \in [Threads -> Seq(Filed)]
  /\ recorded \in [Threads -> SUBSET Tsc]
  /\ reported \in [Threads -> Nat]
  /\ quiet \in [Threads -> BOOLEAN] /\ raced \in [Threads -> BOOLEAN]

-----------------------------------------------------------------------------
(* The collector.                                                          *)

Distinct(s) == \A i, j \in 1 .. Len(s) : s[i] = s[j] => i = j

\* A flush is due only between the end of a collection and the detach: no probe is
\* on, and a thread that was outside every probe stays there.
LoopInv ==
  /\ cpc \in InLoop => todo # <<>>
  /\ cpc = "detach" => todo = <<>>
  /\ flushing => ~ starting /\ ~ probesOn /\ cpc \notin {"off", "idle"}
  /\ cpc \in {"peek", "flush", "detach"} => flushing
  /\ \A t \in Threads : quiet[t] => flushing /\ wpc[t] = "out"
  /\ cpc = "reading" => windex[At] > rindex[At] + 1
  /\ \A t \in Threads : attached[t] /\ rindex[t] = NoReader => cpc = "attach" /\ t = At
  /\ \A t \in Threads : rindex[t] # NoReader => attached[t]
  /\ cpc \in InLoop \ {"visit"} => attached[At]
  /\ cpc = "off" => \A t \in Threads : ~ attached[t]

\* The chain holds each SamplesBuffer once, and the loop visits each once.
ChainInv ==
  /\ Distinct(list) /\ Distinct(todo)
  /\ \A t \in Threads : Contains(todo, t) => Contains(list, t)
  /\ \A t \in Threads : attached[t] => Contains(list, t)
  /\ \A t \in Threads : wpc[t] = "allocate" => ~ Contains(list, t)

\* The read index never passes the write index.
BehindInv ==
  /\ cpc = "attach" => rseen <= windex[At]
  /\ \A t \in Threads : rindex[t] # NoReader => rindex[t] = 0 \/ rindex[t] < windex[t]

-----------------------------------------------------------------------------
(* The buffers of a thread.                                                *)

InFlight == {"allocate", "load", "claim", "record", "store"}
TscAt(t, i, k) == buf[t][Slot(i)][k].tsc

\* The place of a complete sample in a buffer that the next one does not reuse.
Valid(t, i, k) ==
  /\ i \in 1 .. windex[t] /\ windex[t] < i + PoolSize
  /\ k \in 1 .. BufLen /\ (i = windex[t] => k <= pos[t])

Before(i, k, j, l) == i < j \/ (i = j /\ k < l)

\* All that is stored is complete, but for the sample being recorded.
IntactInv(t) ==
  \A s \in Slots, k \in 1 .. BufLen :
    /\ buf[t][s][k].tsc <= clock
    /\ \/ buf[t][s][k].tsc = buf[t][s][k].site
       \/ wpc[t] = "store" /\ s = Slot(windex[t]) /\ k = pos[t] + 1

\* Buffers fill in the order of time, with or without a reader.
OrderInv(t) ==
  /\ \A i, k \in Nat : Valid(t, i, k) => TscAt(t, i, k) >= 1
  /\ \A i, k, j, l \in Nat : Valid(t, i, k) /\ Valid(t, j, l) /\ Before(i, k, j, l)
                               => TscAt(t, i, k) < TscAt(t, j, l)
  /\ wpc[t] \in InFlight => /\ tsc[t] \in 1 .. clock
                            /\ \A i, k \in Nat : Valid(t, i, k) => TscAt(t, i, k) < tsc[t]

\* The thread's place in its buffer, and what the collector knows of the thread.
PlaceInv(t) ==
  /\ wpc[t] = "store" => TscAt(t, windex[t], pos[t] + 1) = tsc[t]
  /\ wpc[t] \in {"allocate", "load", "claim"} => pos[t] = BufLen
  /\ pos[t] < BufLen => windex[t] >= 1
  /\ lastTsc[t] <= clock /\ recorded[t] \subseteq 1 .. clock
  /\ overflow[t] >= lastOverflow[t]

WindowInv(t) == IntactInv(t) /\ OrderInv(t) /\ PlaceInv(t)

-----------------------------------------------------------------------------
(* What is on file.                                                        *)

\* _lastSampledTsc is beyond every sample on file, of this and of earlier
\* collections, that was read with nobody writing.
CleanInv(t) ==
  /\ \A i \in CleanAt(t) :
       /\ file[t][i].tsc = file[t][i].site
       /\ high[t] < file[t][i].tsc /\ file[t][i].tsc <= lastTsc[t]
       /\ \A j \in CleanAt(t) : j < i => file[t][j].tsc < file[t][i].tsc
  /\ high[t] <= lastTsc[t]

\* Samples that may follow what is on file.
CleanRun(t, q, last) ==
  \A i \in 1 .. Len(q) :
    /\ q[i].tsc = q[i].site /\ q[i].tsc > high[t] /\ q[i].tsc <= last
    /\ \A j \in CleanAt(t) : file[t][j].tsc < q[i].tsc
    /\ \A j \in 1 .. i - 1 : q[j].tsc < q[i].tsc

\* Between the scan of flush and its write, the samples selected follow what is on
\* file, unless their thread may be rewriting them.
PendingInv ==
  (cpc = "flush" /\ quiet[At]) =>
    \A k \in range.from .. range.to :
      /\ TscAt(At, range.idx, k) > high[At] /\ TscAt(At, range.idx, k) <= lastTsc[At]
      /\ \A i \in CleanAt(At) : file[At][i].tsc < TscAt(At, range.idx, k)
      /\ \A j \in range.from .. k - 1 : TscAt(At, range.idx, j) < TscAt(At, range.idx, k)

-----------------------------------------------------------------------------
(* What is to be on file.                                                  *)

\* No sample of the thread was lost since its reader was attached.
Kept(t) ==
  /\ rindex[t] # NoReader /\ ~ raced[t] /\ ~ dropped
  /\ overflow[t] = lastOverflow[t] /\ reported[t] = 0
  /\ windex[t] <= rindex[t] + PoolSize

\* The flush has scanned the thread's last buffer.
Flushed(t) == flushing /\ (~ Contains(todo, t) \/ (t = At /\ cpc \in {"flush", "account"}))

OnFile(t, x) == x \in Tscs(file[t])
Unread(t, x) == \E i, k \in Nat : Valid(t, i, k) /\ i > rindex[t] /\ TscAt(t, i, k) = x
AllFiled(t) == \A x \in recorded[t] : x > since[t] => OnFile(t, x)

LossInv(t) ==
  (Kept(t) /\ ~ Flushed(t)) =>
    /\ \A i, k \in Nat : Valid(t, i, k) /\ i > rindex[t]
                           => TscAt(t, i, k) > lastTsc[t] \/ TscAt(t, i, k) <= since[t]
    /\ wpc[t] \in InFlight => tsc[t] > lastTsc[t] \/ tsc[t] <= since[t]
    /\ \A x \in recorded[t] : x > since[t] => OnFile(t, x) \/ Unread(t, x)

\* The flush of the thread that the loop is at, step by step.
FlushInv(t) ==
  (t = At /\ flushing /\ cpc \in InLoop /\ quiet[t]) =>
    /\ cpc \in {"peek", "flush", "account"} => windex[t] <= rindex[t] + 1
    /\ cpc = "peek" => \A k \in Nat : Valid(t, windex[t], k) => TscAt(t, windex[t], k) < range.limit
    /\ (cpc = "flush" /\ Kept(t)) =>
         \A x \in recorded[t] : x > since[t] =>
           OnFile(t, x) \/ \E k \in range.from .. range.to : TscAt(t, range.idx, k) = x
    /\ (cpc = "account" /\ Kept(t)) => AllFiled(t)

\* A thread that the flush has left behind.
DoneInv(t) ==
  (flushing /\ ~ Contains(todo, t) /\ attached[t] /\ quiet[t] /\ ~ raced[t]
     /\ reported[t] = 0 /\ ~ dropped) => AllFiled(t)

-----------------------------------------------------------------------------
(* Facts about the operators the model is built from.                      *)

\* Samples each larger than the one before are in order.
LEMMA InOrder ==
  ASSUME NEW s \in Seq(Sample), NEW n \in 0 .. Len(s), \A k \in 2 .. n : s[k - 1].tsc < s[k].tsc
  PROVE  \A i, j \in 1 .. n : i < j => s[i].tsc < s[j].tsc
<1>. SUFFICES ASSUME NEW i \in 1 .. n, NEW j \in 1 .. n, i < j, ~ (s[i].tsc < s[j].tsc) PROVE FALSE
  OBVIOUS
<1>. DEFINE B == {m \in 1 .. n : i < m /\ ~ (s[i].tsc < s[m].tsc)}
<1>0. n \in Nat /\ j \in Nat /\ i \in Nat
  OBVIOUS
<1>1. B \subseteq Nat /\ B # {}
  <2>1. j \in B
    OBVIOUS
  <2>2. \A y \in B : y \in Nat
    BY <1>0
  <2>. QED BY <2>1, <2>2
<1>2. PICK m \in B : \A y \in B : m <= y
  <2>. HIDE DEF B
  <2>. QED BY <1>1, LeastOf
<1>3. \A k \in 1 .. n : s[k].tsc \in Int
  <2>1. \A k \in 1 .. n : s[k] \in Sample
    BY <1>0
  <2>2. \A k \in 1 .. n : s[k].tsc \in Tsc
    BY <2>1 DEF Sample
  <2>3. \A x \in Tsc : x \in Int
    BY CapacityAssumption DEF Tsc
  <2>. QED BY <2>2, <2>3
<1>4. m \in 2 .. n /\ m - 1 \in 1 .. n /\ s[m - 1].tsc < s[m].tsc
  BY <1>0
<1>5. CASE m - 1 = i
  BY <1>4, <1>5
<1>6. CASE m - 1 # i
  <2>1. m - 1 \notin B
    BY <1>0, <1>2
  <2>2. s[i].tsc < s[m - 1].tsc
    BY <1>0, <1>4, <1>6, <2>1
  <2>. QED BY <1>3, <1>4, <2>2
<1>. QED BY <1>5, <1>6

\* bufferAt is a slot of the pool.
LEMMA SlotType == ASSUME NEW i \in Nat PROVE Slot(i) \in Slots
  BY SizeAssumption DEF Slot, Slots

\* bufferAt gives two indices less than a pool size apart different buffers.
LEMMA SlotsDiffer ==
  ASSUME NEW i \in Nat, NEW j \in Nat, i < j, j < i + PoolSize
  PROVE  Slot(i) # Slot(j)
<1>. DEFINE p == i \div PoolSize
            q == j \div PoolSize
            r == i % PoolSize
<1>1. /\ p \in Nat /\ q \in Nat /\ r \in Nat
      /\ i = PoolSize * p + r
      /\ j = PoolSize * q + (j % PoolSize)
  BY SizeAssumption
<1>2. ASSUME NEW a \in Nat, NEW b \in Nat, NEW c \in Nat,
             i = PoolSize * a + c, j = PoolSize * b + c
      PROVE  FALSE
  <2>1. CASE b <= a
    <3>1. PoolSize * b <= PoolSize * a
      BY <2>1, SizeAssumption
    <3>. QED BY <3>1, <1>2, SizeAssumption
  <2>2. CASE b >= a + 1
    <3>1. PoolSize * b >= PoolSize * (a + 1)
      BY <2>2, SizeAssumption
    <3>2. PoolSize * (a + 1) = PoolSize * a + PoolSize
      BY SizeAssumption
    <3>. QED BY <3>1, <3>2, <1>2, SizeAssumption
  <2>. QED BY <2>1, <2>2
<1>3. r = j % PoolSize => FALSE
  BY <1>1, <1>2
<1>. QED BY <1>3 DEF Slot

\* A buffer is a sequence of BufLen samples.
LEMMA BufferSeq ==
  ASSUME NEW s \in [1 .. BufLen -> Sample]
  PROVE  s \in Seq(Sample) /\ Len(s) = BufLen
  BY SizeAssumption

\* What collectSamples selects: a sample from FirstFresh on exceeds _lastSampledTsc
\* and every sample before it in the buffer.
LEMMA FreshSuffix ==
  ASSUME NEW s \in Seq(Sample), NEW last \in Tsc
  PROVE  /\ FirstFresh(s, last) \in 1 .. Len(s) + 1
         /\ \A k \in FirstFresh(s, last) .. Len(s) :
              s[k].tsc > last /\ \A j \in 1 .. k - 1 : s[j].tsc < s[k].tsc
<1>. DEFINE stale == {k \in DOMAIN s : IsStale(s, k, last)}
<1>1. Len(s) \in Nat /\ DOMAIN s = 1 .. Len(s) /\ \A k \in 1 .. Len(s) : s[k].tsc \in Tsc
  <2>1. \A k \in 1 .. Len(s) : s[k] \in Sample
    OBVIOUS
  <2>. QED BY <2>1 DEF Sample
<1>2. {0} \cup stale \subseteq 0 .. Len(s) /\ {0} \cup stale # {}
  BY <1>1
<1>3. Max({0} \cup stale) \in {0} \cup stale /\ \A y \in {0} \cup stale : y <= Max({0} \cup stale)
  <2>. HIDE DEF stale
  <2>. QED BY <1>1, <1>2, MaxOf
<1>4. FirstFresh(s, last) = 1 + Max({0} \cup stale)
  BY DEF FirstFresh
<1>5. ASSUME NEW k \in FirstFresh(s, last) .. Len(s)
      PROVE  s[k].tsc > last /\ \A j \in 1 .. k - 1 : s[j].tsc < s[k].tsc
  <2>. DEFINE before == {last} \cup {s[j].tsc : j \in 1 .. k - 1}
  <2>k. Max({0} \cup stale) \in Nat /\ k \in 1 .. Len(s) /\ k > Max({0} \cup stale)
    <3>. HIDE DEF stale
    <3>. QED BY <1>1, <1>2, <1>3, <1>4
  <2>1. k \notin stale
    <3>. HIDE DEF stale
    <3>1. k \in {0} \cup stale => k <= Max({0} \cup stale)
      BY <1>3
    <3>. QED BY <3>1, <2>k
  <2>2. ~ (s[k].tsc <= Max(before))
    BY <2>k, <2>1, <1>1 DEF IsStale
  <2>3. before \subseteq 0 .. MaxTsc /\ before # {}
    BY <1>1, <2>k DEF Tsc
  <2>4. Max(before) \in before /\ \A y \in before : y <= Max(before)
    <3>. HIDE DEF before
    <3>. QED BY <2>3, MaxOf, CapacityAssumption
  <2>5. Max(before) \in Int /\ s[k].tsc \in Int
    <3>. HIDE DEF before
    <3>1. Max(before) \in 0 .. MaxTsc
      BY <2>3, <2>4
    <3>. QED BY <3>1, <2>k, <1>1, CapacityAssumption DEF Tsc
  <2>6. \A y \in before : y < s[k].tsc
    <3>. HIDE DEF before
    <3>. QED BY <2>2, <2>3, <2>4, <2>5, CapacityAssumption
  <2>. QED BY <2>6
<1>6. FirstFresh(s, last) \in 1 .. Len(s) + 1
  <2>. HIDE DEF stale
  <2>. QED BY <1>1, <1>2, <1>3, <1>4
<1>. QED BY <1>5, <1>6

\* And collectSamples leaves out nothing new: in a buffer whose samples from k on
\* are in order, a sample that exceeds _lastSampledTsc is selected.
LEMMA FreshSelected ==
  ASSUME NEW s \in Seq(Sample), NEW last \in Tsc, NEW k \in 1 .. Len(s), s[k].tsc > last,
         \A i, j \in 1 .. Len(s) : i < j => s[i].tsc < s[j].tsc
  PROVE  FirstFresh(s, last) <= k
<1>. DEFINE stale == {m \in DOMAIN s : IsStale(s, m, last)}
<1>1. Len(s) \in Nat /\ DOMAIN s = 1 .. Len(s) /\ \A m \in 1 .. Len(s) : s[m].tsc \in Tsc
  <2>1. \A m \in 1 .. Len(s) : s[m] \in Sample
    OBVIOUS
  <2>. QED BY <2>1 DEF Sample
<1>2. {0} \cup stale \subseteq 0 .. Len(s) /\ {0} \cup stale # {}
  BY <1>1
<1>3. Max({0} \cup stale) \in {0} \cup stale
  <2>. HIDE DEF stale
  <2>. QED BY <1>1, <1>2, MaxOf
<1>4. FirstFresh(s, last) = 1 + Max({0} \cup stale)
  BY DEF FirstFresh
<1>5. ASSUME NEW m \in stale PROVE m < k
  <2>. SUFFICES ASSUME m >= k PROVE FALSE
    BY <1>1
  <2>. DEFINE before == {last} \cup {s[j].tsc : j \in 1 .. m - 1}
  <2>0. m \in 1 .. Len(s)
    BY <1>1
  <2>1. s[m].tsc <= Max(before)
    BY <2>0 DEF IsStale
  <2>2. before \subseteq 0 .. MaxTsc /\ before # {}
    BY <1>1, <2>0 DEF Tsc
  <2>3. Max(before) \in before
    <3>. HIDE DEF before
    <3>. QED BY <2>2, MaxOf, CapacityAssumption
  <2>4. \A y \in before : y < s[m].tsc
    <3>1. s[m].tsc >= s[k].tsc /\ s[m].tsc \in Nat /\ s[k].tsc \in Nat /\ last \in Nat
      BY <1>1, <2>0, CapacityAssumption DEF Tsc
    <3>2. \A j \in 1 .. m - 1 : j \in 1 .. Len(s) /\ j < m
      BY <2>0, <1>1
    <3>3. \A j \in 1 .. m - 1 : s[j].tsc < s[m].tsc
      BY <2>0, <3>2
    <3>. QED BY <3>1, <3>3
  <2>5. \A y \in before : y \in Int /\ s[m].tsc \in Int
    BY <1>1, <2>0, <2>2, CapacityAssumption DEF Tsc
  <2>. HIDE DEF before
  <2>. QED BY <2>1, <2>3, <2>4, <2>5
<1>6. Max({0} \cup stale) < k /\ Max({0} \cup stale) \in Nat
  <2>. HIDE DEF stale
  <2>. QED BY <1>1, <1>2, <1>3, <1>5
<1>. QED BY <1>4, <1>6

\* What flush scans: the samples up to ValidPrefix are in order and in the past.
LEMMA ScannedPrefix ==
  ASSUME NEW s \in Seq(Sample), NEW limit \in Nat
  PROVE  /\ ValidPrefix(s, limit) \in 0 .. Len(s)
         /\ \A k \in 1 .. ValidPrefix(s, limit) :
              s[k].tsc < limit /\ (k > 1 => s[k - 1].tsc < s[k].tsc)
         /\ \A n \in 1 .. Len(s) :
              (\A k \in 1 .. n : s[k].tsc > (IF k = 1 THEN 0 ELSE s[k - 1].tsc) /\ s[k].tsc < limit)
                => n <= ValidPrefix(s, limit)
<1>. DEFINE good(n) == \A k \in 1 .. n : /\ s[k].tsc > (IF k = 1 THEN 0 ELSE s[k - 1].tsc)
                                         /\ s[k].tsc < limit
            S == {0} \cup {n \in DOMAIN s : good(n)}
<1>1. Len(s) \in Nat /\ DOMAIN s = 1 .. Len(s)
  OBVIOUS
<1>2. S \subseteq 0 .. Len(s) /\ S # {}
  BY <1>1
<1>3. ValidPrefix(s, limit) = Max(S)
  BY DEF ValidPrefix
<1>4. Max(S) \in S /\ \A y \in S : y <= Max(S)
  <2>. HIDE DEF S
  <2>. QED BY <1>1, <1>2, MaxOf
<1>5. Max(S) = 0 \/ good(Max(S))
  <2>. HIDE DEF good
  <2>. QED BY <1>4
<1>6. Max(S) \in 0 .. Len(s)
  <2>. HIDE DEF S, good
  <2>. QED BY <1>2, <1>4
<1>7. \A k \in 1 .. Max(S) : good(Max(S))
  <2>. HIDE DEF S, good
  <2>. QED BY <1>5, <1>6
<1>8. \A k \in 1 .. Max(S) : s[k].tsc < limit /\ (k > 1 => s[k - 1].tsc < s[k].tsc)
  <2>. HIDE DEF S
  <2>. QED
    <3>. TAKE k \in 1 .. Max(S)
    <3>1. good(Max(S))
      <4>. HIDE DEF good
      <4>. QED BY <1>7
    <3>. QED BY <3>1, <1>6
<1>9. \A n \in 1 .. Len(s) : good(n) => n <= Max(S)
  <2>. TAKE n \in 1 .. Len(s)
  <2>. HAVE good(n)
  <2>1. n \in S
    <3>. HIDE DEF good
    <3>. QED BY <1>1
  <2>. QED
    <3>. HIDE DEF S, good
    <3>. QED BY <2>1, <1>4
<1>. QED
  <2>1. ValidPrefix(s, limit) \in 0 .. Len(s)
    <3>. HIDE DEF S, good
    <3>. QED BY <1>3, <1>6
  <2>2. \A k \in 1 .. ValidPrefix(s, limit) : s[k].tsc < limit /\ (k > 1 => s[k - 1].tsc < s[k].tsc)
    <3>. HIDE DEF S, good
    <3>. QED BY <1>3, <1>8
  <2>3. \A n \in 1 .. Len(s) : good(n) => n <= ValidPrefix(s, limit)
    <3>. HIDE DEF S, good
    <3>. QED BY <1>3, <1>9
  <2>. HIDE DEF S
  <2>. QED BY <2>1, <2>2, <2>3

\* What is written to a file carries the history bit of the read.
LEMMA TaggedSeq ==
  ASSUME NEW s \in Seq(Sample), NEW c \in BOOLEAN
  PROVE  /\ Tagged(s, c) \in Seq(Filed) /\ Len(Tagged(s, c)) = Len(s)
         /\ \A k \in 1 .. Len(s) : /\ Tagged(s, c)[k].tsc = s[k].tsc
                                   /\ Tagged(s, c)[k].site = s[k].site
                                   /\ Tagged(s, c)[k].clean = c
<1>1. Len(s) \in Nat /\ DOMAIN s = 1 .. Len(s) /\ \A k \in 1 .. Len(s) : s[k] \in Sample
  OBVIOUS
<1>2. \A k \in 1 .. Len(s) : [tsc |-> s[k].tsc, site |-> s[k].site, clean |-> c] \in Filed
  BY <1>1 DEF Sample, Filed
<1>3. Tagged(s, c) = [k \in 1 .. Len(s) |-> [tsc |-> s[k].tsc, site |-> s[k].site, clean |-> c]]
  BY <1>1 DEF Tagged
<1>4. Tagged(s, c) \in Seq(Filed) /\ Len(Tagged(s, c)) = Len(s)
  BY <1>1, <1>2, <1>3
<1>. QED BY <1>3, <1>4

\* A file with the samples that persistSamples appends.
Appended(f, s, c) == f \o Tagged(s, c)

\* A file that samples are appended to keeps what it has, at its place.
LEMMA AppendedFile ==
  ASSUME NEW f \in Seq(Filed), NEW s \in Seq(Sample), NEW c \in BOOLEAN
  PROVE  /\ Appended(f, s, c) \in Seq(Filed) /\ Len(Appended(f, s, c)) = Len(f) + Len(s)
         /\ \A k \in 1 .. Len(f) : Appended(f, s, c)[k] = f[k]
         /\ \A k \in 1 .. Len(s) : /\ Appended(f, s, c)[Len(f) + k].tsc = s[k].tsc
                                   /\ Appended(f, s, c)[Len(f) + k].site = s[k].site
                                   /\ Appended(f, s, c)[Len(f) + k].clean = c
<1>. DEFINE q == Tagged(s, c)
            g == Appended(f, s, c)
<1>1. q \in Seq(Filed) /\ Len(q) = Len(s) /\ Len(f) \in Nat /\ Len(s) \in Nat
  BY TaggedSeq
<1>2. g = f \o q
  BY DEF Appended
<1>. HIDE DEF g
<1>3. /\ g \in Seq(Filed) /\ Len(g) = Len(f) + Len(s)
      /\ \A i \in 1 .. Len(f) + Len(s) : g[i] = IF i <= Len(f) THEN f[i] ELSE q[i - Len(f)]
  <2>. HIDE DEF q
  <2>1. /\ f \o q \in Seq(Filed) /\ Len(f \o q) = Len(f) + Len(q)
        /\ \A i \in 1 .. Len(f) + Len(q) : (f \o q)[i] = IF i <= Len(f) THEN f[i] ELSE q[i - Len(f)]
    BY <1>1, ConcatProperties, Zenon
  <2>. QED BY <1>1, <1>2, <2>1
<1>4. \A k \in 1 .. Len(f) : g[k] = f[k]
  <2>. HIDE DEF q
  <2>. QED BY <1>1, <1>3
<1>5. \A k \in 1 .. Len(s) : g[Len(f) + k] = q[k]
  <2>. HIDE DEF q
  <2>. TAKE k \in 1 .. Len(s)
  <2>1. Len(f) + k \in 1 .. Len(f) + Len(s) /\ ~ (Len(f) + k <= Len(f)) /\ (Len(f) + k) - Len(f) = k
    BY <1>1
  <2>. QED BY <1>3, <2>1
<1>6. \A k \in 1 .. Len(s) : q[k].tsc = s[k].tsc /\ q[k].site = s[k].site /\ q[k].clean = c
  BY TaggedSeq
<1>. HIDE DEF q
<1>. QED BY <1>3, <1>4, <1>5, <1>6 DEF g

\* persistSamples appends the samples, unless there are none, the capacity is spent
\* or a write fails, and it never counts more than the capacity.
LEMMA PersistEffect ==
  ASSUME Types, NEW t \in Threads, NEW s \in Seq(Sample), NEW c \in BOOLEAN, Persist(t, s, c)
  PROVE  /\ consumed' \in 0 .. Capacity /\ dropped' \in BOOLEAN /\ (dropped => dropped')
         /\ file' \in [Threads -> Seq(Filed)]
         /\ \A u \in Threads \ {t} : file'[u] = file[u]
         /\ \/ file'[t] = file[t] \o Tagged(s, c)
            \/ file' = file /\ (s = <<>> \/ dropped')
<1>. DEFINE g == file[t] \o Tagged(s, c)
<1>0. file[t] \in Seq(Filed)
  BY DEF Types
<1>1. g \in Seq(Filed) /\ Len(s) \in Nat
  <2>1. Tagged(s, c) \in Seq(Filed)
    BY TaggedSeq
  <2>. QED BY <1>0, <2>1
<1>2. Persist(t, s, c) <=>
        IF s = <<>> THEN UNCHANGED storeVars
        ELSE IF Capacity = 0 \/ consumed + Len(s) <= Capacity
             THEN /\ \/ file' = [file EXCEPT ![t] = g] /\ UNCHANGED dropped
                     \/ dropped' = TRUE /\ UNCHANGED file
                  /\ consumed' = IF Capacity = 0 THEN consumed ELSE consumed + Len(s)
             ELSE dropped' = TRUE /\ UNCHANGED <<file, consumed>>
  BY DEF Persist
<1>3. consumed \in 0 .. Capacity /\ dropped \in BOOLEAN /\ file \in [Threads -> Seq(Filed)]
  BY DEF Types, TypeOK
<1>. DEFINE none == s = <<>>
            room == Capacity = 0 \/ consumed + Len(s) <= Capacity
<1>. HIDE DEF g, none
<1>a. CASE none
  <2>1. UNCHANGED storeVars
    BY <1>a, <1>2 DEF none
  <2>. QED BY <1>a, <1>3, <2>1 DEF storeVars, none, g
<1>b. CASE ~ none /\ room
  <2>1. /\ \/ file' = [file EXCEPT ![t] = g] /\ UNCHANGED dropped
           \/ dropped' = TRUE /\ UNCHANGED file
        /\ consumed' = IF Capacity = 0 THEN consumed ELSE consumed + Len(s)
    BY <1>b, <1>2 DEF none
  <2>2. consumed' \in 0 .. Capacity
    BY <2>1, <1>b, <1>1, <1>3, CapacityAssumption
  <2>. QED BY <1>1, <1>3, <2>1, <2>2 DEF g
<1>c. CASE ~ none /\ ~ room
  <2>1. dropped' = TRUE /\ UNCHANGED <<file, consumed>>
    BY <1>c, <1>2 DEF none
  <2>. QED BY <1>3, <2>1
<1>. QED BY <1>a, <1>b, <1>c

\* The buffer that the loop is at is a thread of the chain.
LEMMA LoopSeq ==
  ASSUME Types, LoopInv, cpc \in InLoop
  PROVE  /\ At \in Threads /\ Len(todo) \in Nat \ {0} /\ At = todo[1]
         /\ Tail(todo) \in Seq(Threads) /\ Len(Tail(todo)) = Len(todo) - 1
         /\ \A i \in 1 .. Len(todo) - 1 : Tail(todo)[i] = todo[i + 1]
<1>1. todo \in Seq(Threads) /\ todo # <<>>
  BY DEF Types, LoopInv
<1>. QED BY <1>1 DEF At

\* A buffer of the pool, as the collector reads it.
LEMMA ReadBuffer ==
  ASSUME Types, NEW t \in Threads, NEW i \in Nat
  PROVE  /\ buf[t][Slot(i)] \in Seq(Sample) /\ Len(buf[t][Slot(i)]) = BufLen
         /\ \A k \in 1 .. BufLen : buf[t][Slot(i)][k] \in Sample
<1>1. buf \in [Threads -> [Slots -> [1 .. BufLen -> Sample]]]
  BY DEF Types
<1>2. buf[t][Slot(i)] \in [1 .. BufLen -> Sample]
  BY <1>1, SlotType, Zenon
<1>. HIDE DEF Slot
<1>. QED BY <1>2, BufferSeq

\* Consecutive samples of a buffer.
LEMMA SelectedSeq ==
  ASSUME NEW s \in Seq(Sample), NEW m \in Nat \ {0}, NEW n \in 0 .. Len(s)
  PROVE  /\ SubSeq(s, m, n) \in Seq(Sample)
         /\ Len(SubSeq(s, m, n)) = IF m <= n THEN n - m + 1 ELSE 0
         /\ \A i \in 1 .. n - m + 1 : SubSeq(s, m, n)[i] = s[m + i - 1]
<1>1. \A i \in m .. n : s[i] \in Sample
  OBVIOUS
<1>. QED BY <1>1, SubSeqProperties

\* _lastSampledTsc after the scan of the first n samples of a buffer.
LastSeen(s, n, last) == Max({last} \cup {s[k].tsc : k \in 1 .. n})

\* It is the largest tsc seen.
LEMMA LastOf ==
  ASSUME NEW s \in Seq(Sample), NEW last \in Tsc, NEW n \in 0 .. Len(s)
  PROVE  /\ LastSeen(s, n, last) \in Tsc /\ last <= LastSeen(s, n, last)
         /\ \A k \in 1 .. n : s[k].tsc <= LastSeen(s, n, last)
         /\ LastSeen(s, n, last) = last \/ \E k \in 1 .. n : LastSeen(s, n, last) = s[k].tsc
<1>. DEFINE S == {last} \cup {s[k].tsc : k \in 1 .. n}
<1>1. \A k \in 1 .. n : s[k].tsc \in Tsc
  <2>1. \A k \in 1 .. n : s[k] \in Sample
    OBVIOUS
  <2>. QED BY <2>1 DEF Sample
<1>2. S \subseteq 0 .. MaxTsc /\ S # {}
  BY <1>1 DEF Tsc
<1>3. LastSeen(s, n, last) \in S /\ \A y \in S : y <= LastSeen(s, n, last)
  <2>. HIDE DEF S
  <2>1. LastSeen(s, n, last) = Max(S)
    BY DEF S, LastSeen
  <2>. QED BY <1>2, <2>1, MaxOf, CapacityAssumption
<1>. QED BY <1>2, <1>3 DEF Tsc

\* The stores of the trampoline change one word of one sample.
LEMMA StoreEffect ==
  ASSUME Types, NEW t \in Threads, StoreTsc(t) \/ StoreSite(t)
  PROVE  /\ buf' \in [Threads -> [Slots -> [1 .. BufLen -> Sample]]]
         /\ \A u \in Threads \ {t} : buf'[u] = buf[u]
         /\ \A a \in Slots, k \in 1 .. BufLen :
              ~ (a = Slot(windex[t]) /\ k = pos[t] + 1) => buf'[t][a][k] = buf[t][a][k]
         /\ StoreTsc(t) => buf'[t][Slot(windex[t])][pos[t] + 1].tsc = tsc[t]
         /\ StoreSite(t) => /\ buf'[t][Slot(windex[t])][pos[t] + 1].site = tsc[t]
                            /\ buf'[t][Slot(windex[t])][pos[t] + 1].tsc = buf[t][Slot(windex[t])][pos[t] + 1].tsc
<1>. DEFINE a == Slot(windex[t])
            p == pos[t] + 1
            e == buf[t][a][p]
            r == [e EXCEPT !.tsc = tsc[t]]
            q == [e EXCEPT !.site = tsc[t]]
<1>1. /\ a \in Slots /\ p \in 1 .. BufLen /\ e \in Sample /\ r \in Sample /\ q \in Sample
      /\ r.tsc = tsc[t] /\ q.site = tsc[t] /\ q.tsc = e.tsc
  <2>0. TypeOK /\ windex[t] \in Nat
    BY DEF Types
  <2>1. wpc[t] \in {"record", "store"} /\ pos[t] \in Nat /\ pos[t] < BufLen
    <3>1. wpc[t] \in {"record", "store"}
      BY Zenon DEF StoreTsc, StoreSite
    <3>2. pos \in [Threads -> 0 .. BufLen] /\ pos[t] < BufLen
      BY <2>0, <3>1, Zenon DEF TypeOK
    <3>. QED BY <3>1, <3>2, SizeAssumption
  <2>2. a \in Slots /\ p \in 1 .. BufLen
    <3>1. a \in Slots
      BY <2>0, SlotType
    <3>. QED BY <2>1, <3>1, SizeAssumption
  <2>3. e \in Sample /\ tsc[t] \in Tsc
    <3>. HIDE DEF a, p
    <3>1. buf \in [Threads -> [Slots -> [1 .. BufLen -> Sample]]] /\ tsc[t] \in Tsc
      BY DEF Types
    <3>2. buf[t][a] \in [1 .. BufLen -> Sample]
      BY <2>2, <3>1
    <3>. QED BY <2>2, <3>1, <3>2, Zenon
  <2>. HIDE DEF e
  <2>. QED BY <2>2, <2>3 DEF Sample
<1>2. StoreTsc(t) => buf' = [buf EXCEPT ![t] = [buf[t] EXCEPT ![a] = [buf[t][a] EXCEPT ![p] = r]]]
  BY DEF StoreTsc
<1>3. StoreSite(t) => buf' = [buf EXCEPT ![t] = [buf[t] EXCEPT ![a] = [buf[t][a] EXCEPT ![p] = q]]]
  BY DEF StoreSite
<1>. DEFINE stored(x) == buf' = [buf EXCEPT ![t] = [buf[t] EXCEPT ![a] = [buf[t][a] EXCEPT ![p] = x]]]
<1>4. \A x \in Sample : stored(x) =>
        /\ buf' \in [Threads -> [Slots -> [1 .. BufLen -> Sample]]]
        /\ \A u \in Threads \ {t} : buf'[u] = buf[u]
        /\ \A b \in Slots, k \in 1 .. BufLen : ~ (b = a /\ k = p) => buf'[t][b][k] = buf[t][b][k]
        /\ buf'[t][a][p] = x
  <2>. SUFFICES ASSUME NEW x \in Sample, stored(x)
                PROVE  /\ buf' \in [Threads -> [Slots -> [1 .. BufLen -> Sample]]]
                       /\ \A u \in Threads \ {t} : buf'[u] = buf[u]
                       /\ \A b \in Slots, k \in 1 .. BufLen :
                            ~ (b = a /\ k = p) => buf'[t][b][k] = buf[t][b][k]
                       /\ buf'[t][a][p] = x
    OBVIOUS
  <2>0. buf \in [Threads -> [Slots -> [1 .. BufLen -> Sample]]] /\ a \in Slots /\ p \in 1 .. BufLen
    BY <1>1 DEF Types
  <2>. HIDE DEF a, p
  <2>. DEFINE f == buf[t]
              g == [f EXCEPT ![a] = [f[a] EXCEPT ![p] = x]]
  <2>1. f \in [Slots -> [1 .. BufLen -> Sample]]
    BY <2>0
  <2>2. buf' = [buf EXCEPT ![t] = g]
    OBVIOUS
  <2>. HIDE DEF f
  <2>3. /\ g \in [Slots -> [1 .. BufLen -> Sample]] /\ g[a][p] = x
        /\ \A b \in Slots, k \in 1 .. BufLen : ~ (b = a /\ k = p) => g[b][k] = f[b][k]
    BY <2>0, <2>1
  <2>. HIDE DEF g
  <2>. QED BY <2>0, <2>2, <2>3 DEF f
<1>. HIDE DEF a, p, e, r, q
<1>. QED BY <1>1, <1>2, <1>3, <1>4 DEF a, p, e

-----------------------------------------------------------------------------
(* Types.                                                                  *)

\* The overflows of a pool are counted up.
Counted == \A t \in Threads : overflow[t] >= lastOverflow[t]

\* The steps of a thread keep the types.
LEMMA ThreadTypes ==
  ASSUME Types, NEW t \in Threads, Thread(t)
  PROVE  Types'
<1>. USE SizeAssumption, CapacityAssumption DEF Types, TypeOK, collectorUnchanged, poolVars, readerVars,
         storeVars, loopVars, histVars
<1>1. CASE EnterProbe(t)
  BY <1>1 DEF EnterProbe
<1>2. CASE Stamp(t)
  <2>. USE <1>2 DEF Stamp
  <2>1. clock' \in Tsc
    BY DEF Tsc
  <2>2. wpc'[t] \in {"record", "load", "allocate"} /\ (wpc'[t] = "record" => pos[t] < BufLen)
    OBVIOUS
  <2>. QED BY <2>1, <2>2 DEF Tsc
<1>3. CASE Allocate(t)
  <2>. USE <1>3 DEF Allocate
  <2>1. list' \in Seq(Threads)
    OBVIOUS
  <2>. QED BY <2>1
<1>4. CASE LoadReadIndex(t)
  BY <1>4 DEF LoadReadIndex
<1>5. CASE Publish(t)
  <2>1. windex' \in [Threads -> Nat]
    BY <1>5 DEF Publish
  <2>2. /\ pos' \in [Threads -> 0 .. BufLen] /\ wseen' \in [Threads -> Nat \cup {NoReader}]
        /\ \A u \in Threads : wpc'[u] \in {"record", "store"} => pos'[u] < BufLen
    BY <1>5 DEF Publish
  <2>. QED BY <1>5, <2>1, <2>2 DEF Publish
<1>6. CASE Overflow(t)
  <2>1. overflow' \in [Threads -> Nat]
    BY <1>6 DEF Overflow
  <2>2. /\ pos' \in [Threads -> 0 .. BufLen] /\ wseen' \in [Threads -> Nat \cup {NoReader}]
        /\ \A u \in Threads : wpc'[u] \in {"record", "store"} => pos'[u] < BufLen
    BY <1>6 DEF Overflow
  <2>. QED BY <1>6, <2>1, <2>2 DEF Overflow
<1>7. CASE StoreTsc(t)
  <2>1. buf' \in [Threads -> [Slots -> [1 .. BufLen -> Sample]]]
    BY <1>7, StoreEffect
  <2>. QED BY <1>7, <2>1 DEF StoreTsc
<1>8. CASE StoreSite(t)
  <2>1. buf' \in [Threads -> [Slots -> [1 .. BufLen -> Sample]]]
    BY <1>8, StoreEffect
  <2>2. pos' \in [Threads -> 0 .. BufLen]
    <3>1. wpc[t] = "store" /\ pos' = [pos EXCEPT ![t] = @ + 1]
      BY <1>8, Zenon DEF StoreSite
    <3>2. pos \in [Threads -> 0 .. BufLen] /\ pos[t] < BufLen /\ BufLen \in Nat
      BY <3>1
    <3>. QED
      <4>. HIDE DEF Types, TypeOK
      <4>. QED BY <3>1, <3>2
  <2>3. tsc' \in [Threads -> Tsc]
    BY <1>8 DEF StoreSite, Tsc
  <2>4. recorded' \in [Threads -> SUBSET Tsc]
    <3>1. recorded[t] \cup {tsc[t]} \in SUBSET Tsc /\ recorded \in [Threads -> SUBSET Tsc]
      <4>1. recorded[t] \in SUBSET Tsc /\ tsc[t] \in Tsc
        OBVIOUS
      <4>. HIDE DEF Types, TypeOK
      <4>2. recorded[t] \cup {tsc[t]} \in SUBSET Tsc
        BY <4>1, Zenon
      <4>. QED BY <4>2 DEF Types
    <3>2. recorded' = [recorded EXCEPT ![t] = recorded[t] \cup {tsc[t]}]
      BY <1>8 DEF StoreSite
    <3>. HIDE DEF Types, TypeOK
    <3>. QED BY <3>1, <3>2
  <2>5. wpc' \in [Threads -> {"out", "stamp", "allocate", "load", "claim", "record", "store"}]
        /\ \A u \in Threads : wpc'[u] \in {"record", "store"} => pos'[u] < BufLen
    BY <1>8 DEF StoreSite
  <2>. QED BY <1>8, <2>1, <2>2, <2>3, <2>4, <2>5 DEF StoreSite
<1>. QED BY <1>1, <1>2, <1>3, <1>4, <1>5, <1>6, <1>7, <1>8 DEF Thread

\* So do the steps of the framework thread.
LEMMA FrameworkTypes ==
  ASSUME Types, LoopInv, Counted, Framework
  PROVE  Types'
<1>. USE SizeAssumption, CapacityAssumption DEF Types, TypeOK, threadsUnchanged, threadVars, poolVars, readerVars,
         storeVars, loopVars, histVars
<1>a. ASSUME cpc \in InLoop, Advance
      PROVE  todo' \in Seq(Threads) /\ cpc' \in InLoop \cup {"off", "idle", "detach"}
  <2>1. todo \in Seq(Threads) /\ todo # <<>>
    BY <1>a DEF LoopInv
  <2>. QED BY <1>a, <2>1 DEF Advance, InLoop
<1>b. cpc \in InLoop => At \in Threads
  BY LoopSeq
<1>1. CASE ActivateProbes
  BY <1>1 DEF ActivateProbes
<1>2. CASE DeactivateProbes
  BY <1>2 DEF DeactivateProbes
<1>3. CASE BeginCollection
  <2>. USE <1>3 DEF BeginCollection
  <2>1. ASSUME NEW t \in Threads PROVE high'[t] \in Tsc
    <3>. DEFINE S == {high[t]} \cup {file[t][k].tsc : k \in CleanAt(t)}
    <3>1. \A k \in CleanAt(t) : file[t][k].tsc \in Tsc
      <4>1. file[t] \in Seq(Filed)
        OBVIOUS
      <4>2. \A k \in DOMAIN file[t] : file[t][k] \in Filed
        BY <4>1
      <4>. QED BY <4>2 DEF CleanAt, Filed
    <3>2. S \subseteq 0 .. MaxTsc /\ S # {}
      <4>1. high[t] \in Tsc
        OBVIOUS
      <4>. HIDE DEF Types, TypeOK, BeginCollection
      <4>. QED BY <3>1, <4>1 DEF Tsc
    <3>3. high'[t] = Max(S)
      BY Zenon
    <3>. HIDE DEF S
    <3>. QED BY <3>2, <3>3, MaxOf DEF Tsc
  <2>2. high' \in [Threads -> Tsc]
    <3>1. high' = [t \in Threads |-> high'[t]]
      BY Zenon
    <3>. QED BY <2>1, <3>1
  <2>3. file' \in [Threads -> Seq(Filed)]
    OBVIOUS
  <2>4. consumed' \in 0 .. Capacity /\ todo' \in Seq(Threads) /\ cpc' \in InLoop \cup {"off", "idle", "detach"}
    BY DEF InLoop
  <2>. QED BY <2>2, <2>3, <2>4
<1>4. CASE BeginPoll
  BY <1>4 DEF BeginPoll, InLoop
<1>5. CASE EndCollection
  BY <1>5 DEF EndCollection, InLoop
<1>6. CASE OpenFails
  <2>1. CASE starting
    <3>1. /\ rindex' \in [Threads -> Nat \cup {NoReader}] /\ since' \in [Threads -> Tsc] /\ todo' \in Seq(Threads)
          /\ attached' \in [Threads -> BOOLEAN] /\ cpc' = "off"
      <4>1. /\ attached' = [t \in Threads |-> FALSE]
            /\ rindex' = [t \in Threads |-> NoReader]
            /\ since' = [t \in Threads |-> 0] /\ todo' = <<>> /\ cpc' = "off"
        BY <1>6, <2>1, Zenon DEF OpenFails
      <4>. QED BY <4>1 DEF Tsc
    <3>2. /\ UNCHANGED <<lastTsc, lastOverflow, storeVars, flushing, starting, probesOn, rseen, range, histVars>>
          /\ threadsUnchanged
      BY <1>6, Zenon DEF OpenFails
    <3>. QED BY <3>1, <3>2
  <2>2. CASE ~ starting
    BY <1>6, <2>2, <1>a DEF OpenFails, InLoop
  <2>. QED BY <2>1, <2>2
<1>7. CASE AttachBegin
  BY <1>7, <1>b DEF AttachBegin, InLoop
<1>8. CASE AttachStore
  <2>1. rindex' \in [Threads -> Nat \cup {NoReader}]
    <3>1. (IF rseen > 0 THEN rseen - 1 ELSE 0) \in Nat
      OBVIOUS
    <3>. QED BY <1>8, <3>1 DEF AttachStore
  <2>2. since' \in [Threads -> Tsc]
    BY <1>8 DEF AttachStore, Tsc
  <2>. QED BY <1>8, <2>1, <2>2 DEF AttachStore, InLoop
<1>9. CASE AttachCheck
  <2>1. todo' \in Seq(Threads) /\ cpc' \in InLoop \cup {"off", "idle", "detach"} /\ rseen' \in Nat
    BY <1>9, <1>a, <1>b DEF AttachCheck, InLoop
  <2>. QED BY <1>9, <2>1 DEF AttachCheck
<1>10. CASE VisitAttached
  BY <1>10 DEF VisitAttached, InLoop
<1>11. CASE HandOut
  BY <1>11 DEF HandOut, InLoop
<1>12. CASE PersistBuffer
  <2>. DEFINE s == buf[At][Slot(rindex[At] + 1)]
              q == SubSeq(s, FirstFresh(s, lastTsc[At]), BufLen)
  <2>1. At \in Threads
    BY <1>12, <1>b DEF PersistBuffer, InLoop
  <2>2. rindex[At] + 1 \in Nat /\ lastTsc[At] \in Tsc /\ (~ Racing) \in BOOLEAN
    <3>1. rindex[At] + 1 \in Nat /\ lastTsc[At] \in Tsc
      <4>1. rindex[At] \in Nat \cup {-1} /\ lastTsc[At] \in Tsc
        BY <2>1 DEF NoReader
      <4>2. \A x \in Nat \cup {-1} : x + 1 \in Nat
        OBVIOUS
      <4>. QED BY <4>1, <4>2
    <3>2. (~ Racing) \in BOOLEAN
      BY Zenon
    <3>. QED BY <3>1, <3>2
  <2>3. s \in Seq(Sample) /\ Len(s) = BufLen
    BY <2>1, <2>2, ReadBuffer, Zenon
  <2>4. q \in Seq(Sample)
    <3>. HIDE DEF s
    <3>1. FirstFresh(s, lastTsc[At]) \in 1 .. BufLen + 1
      BY <2>2, <2>3, FreshSuffix
    <3>. QED BY <2>3, <3>1, SelectedSeq
  <2>5. consumed' \in 0 .. Capacity /\ dropped' \in BOOLEAN /\ file' \in [Threads -> Seq(Filed)]
    <3>1. Persist(At, q, ~ Racing)
      BY <1>12, Zenon DEF PersistBuffer
    <3>. HIDE DEF s, q, Types, TypeOK
    <3>. QED BY <2>1, <2>2, <2>4, <3>1, PersistEffect, Zenon
  <2>6. lastTsc' = [lastTsc EXCEPT ![At] = Max({lastTsc[At]} \cup Tscs(s))]
    BY <1>12, Zenon DEF PersistBuffer
  <2>7. lastTsc' \in [Threads -> Tsc]
    <3>1. Max({lastTsc[At]} \cup Tscs(s)) \in Tsc
      <4>. HIDE DEF s, Types, TypeOK
      <4>1. Max({lastTsc[At]} \cup Tscs(s)) = LastSeen(s, BufLen, lastTsc[At])
        <5>1. DOMAIN s = 1 .. BufLen
          BY <2>3
        <5>. QED BY <5>1, Zenon DEF Tscs, LastSeen
      <4>2. BufLen \in 0 .. Len(s)
        BY <2>3
      <4>. QED BY <2>2, <2>3, <4>1, <4>2, LastOf
    <3>. QED BY <2>6, <3>1
  <2>8. rindex' \in [Threads -> Nat \cup {NoReader}] /\ raced' \in [Threads -> BOOLEAN]
    BY <1>12, <2>2 DEF PersistBuffer
  <2>9. cpc' \in InLoop /\ UNCHANGED <<attached, lastOverflow, loopVars, probesOn, rseen, range, since, reported, quiet, high>>
        /\ threadsUnchanged
    BY <1>12, Zenon DEF PersistBuffer, InLoop
  <2>. QED BY <2>5, <2>7, <2>8, <2>9
<1>13. CASE CollectDone
  <2>1. clock + 1 \in Nat
    OBVIOUS
  <2>2. range' \in [limit : Nat, idx : Nat, from : Nat \ {0}, to : 0 .. BufLen]
    BY <1>13, <2>1 DEF CollectDone
  <2>. QED BY <1>13, <2>2 DEF CollectDone, InLoop
<1>14. CASE FlushScan
  <2>. DEFINE s == buf[At][Slot(windex[At])]
              n == ValidPrefix(s, range.limit)
  <2>1. At \in Threads
    BY <1>14, <1>b DEF FlushScan, InLoop
  <2>2. windex[At] \in Nat /\ lastTsc[At] \in Tsc /\ range.limit \in Nat
    BY <2>1
  <2>3. s \in Seq(Sample) /\ Len(s) = BufLen
    BY <2>1, <2>2, ReadBuffer, Zenon
  <2>4. n \in 0 .. BufLen
    <3>. HIDE DEF s
    <3>. QED BY <2>2, <2>3, ScannedPrefix
  <2>5. FirstFresh(SubSeq(s, 1, n), lastTsc[At]) \in Nat \ {0}
    <3>. DEFINE u == SubSeq(s, 1, n)
    <3>. HIDE DEF s, n, Types, TypeOK
    <3>1. u \in Seq(Sample)
      BY <2>3, <2>4, SelectedSeq
    <3>. HIDE DEF u
    <3>2. Len(u) \in Nat /\ FirstFresh(u, lastTsc[At]) \in 1 .. Len(u) + 1
      BY <2>2, <3>1, FreshSuffix
    <3>. QED BY <3>2 DEF u
  <2>6. LastSeen(s, n, lastTsc[At]) \in Tsc
    <3>. HIDE DEF s, n
    <3>. QED BY <2>2, <2>3, <2>4, LastOf
  <2>7. /\ range' = [limit |-> range.limit, idx |-> windex[At], to |-> n,
                     from |-> FirstFresh(SubSeq(s, 1, n), lastTsc[At])]
        /\ lastTsc' = [lastTsc EXCEPT ![At] = LastSeen(s, n, lastTsc[At])]
    BY <1>14, Zenon DEF FlushScan, LastSeen
  <2>8. range' \in [limit : Nat, idx : Nat, from : Nat \ {0}, to : 0 .. BufLen] /\ lastTsc' \in [Threads -> Tsc]
    <3>. HIDE DEF s, n
    <3>. QED BY <2>2, <2>4, <2>5, <2>6, <2>7
  <2>. QED BY <1>14, <2>8 DEF FlushScan, InLoop
<1>15. CASE FlushPersist
  <2>. DEFINE s == buf[At][Slot(range.idx)]
              q == SubSeq(s, range.from, range.to)
  <2>1. At \in Threads
    BY <1>15, <1>b DEF FlushPersist, InLoop
  <2>2. range.idx \in Nat /\ range.from \in Nat \ {0} /\ range.to \in 0 .. BufLen /\ quiet[At] \in BOOLEAN
    BY <2>1
  <2>3. s \in Seq(Sample) /\ Len(s) = BufLen
    BY <2>1, <2>2, ReadBuffer, Zenon
  <2>4. q \in Seq(Sample)
    <3>. HIDE DEF s
    <3>. QED BY <2>2, <2>3, SelectedSeq
  <2>5. consumed' \in 0 .. Capacity /\ dropped' \in BOOLEAN /\ file' \in [Threads -> Seq(Filed)]
    <3>1. Persist(At, q, quiet[At])
      BY <1>15, Zenon DEF FlushPersist
    <3>. HIDE DEF s, q, Types, TypeOK
    <3>. QED BY <2>1, <2>2, <2>4, <3>1, PersistEffect, Zenon
  <2>6. range' \in [limit : Nat, idx : Nat, from : Nat \ {0}, to : 0 .. BufLen]
    BY <1>15 DEF FlushPersist
  <2>7. cpc' \in InLoop /\ UNCHANGED <<readerVars, loopVars, probesOn, rseen, since, histVars>> /\ threadsUnchanged
    BY <1>15, Zenon DEF FlushPersist, InLoop
  <2>. QED BY <2>5, <2>6, <2>7
<1>16. CASE Account
  <2>1. At \in Threads
    BY <1>16, <1>b DEF Account, InLoop
  <2>2. reported[At] + overflow[At] - lastOverflow[At] \in Nat
    <3>1. \A x, y, z \in Nat : y >= z => x + y - z \in Nat
      OBVIOUS
    <3>2. reported[At] \in Nat /\ overflow[At] \in Nat /\ lastOverflow[At] \in Nat
      BY <2>1
    <3>. QED BY <2>1, <3>1, <3>2 DEF Counted
  <2>3. reported' \in [Threads -> Nat] /\ lastOverflow' \in [Threads -> Nat]
    BY <1>16, <2>1, <2>2 DEF Account
  <2>4. todo' \in Seq(Threads) /\ cpc' \in InLoop \cup {"off", "idle", "detach"}
    BY <1>16, <1>a DEF Account, InLoop
  <2>. QED BY <1>16, <2>3, <2>4 DEF Account
<1>17. CASE DetachAll
  <2>1. rindex' \in [Threads -> Nat \cup {NoReader}] /\ since' \in [Threads -> Tsc] /\ reported' \in [Threads -> Nat]
    BY <1>17 DEF DetachAll, Tsc
  <2>. QED BY <1>17, <2>1 DEF DetachAll
<1>. QED BY <1>1, <1>2, <1>3, <1>4, <1>5, <1>6, <1>7, <1>8, <1>9, <1>10, <1>11,
             <1>12, <1>13, <1>14, <1>15, <1>16, <1>17 DEF Framework

-----------------------------------------------------------------------------
(* Where the collector is.                                                 *)

\* What a step of a thread may not do: it changes only its own state, and a thread
\* that the end of the collection found outside every probe takes none.
LEMMA ThreadFrame ==
  ASSUME Types, LoopInv, NEW t \in Threads, Thread(t)
  PROVE  /\ collectorUnchanged /\ ~ quiet[t]
         /\ \A u \in Threads \ {t} : /\ wpc'[u] = wpc[u] /\ tsc'[u] = tsc[u] /\ pos'[u] = pos[u]
                                     /\ windex'[u] = windex[u] /\ overflow'[u] = overflow[u]
                                     /\ recorded'[u] = recorded[u] /\ buf'[u] = buf[u]
         /\ windex'[t] >= windex[t] /\ overflow'[t] >= overflow[t] /\ clock' \in Nat /\ clock' >= clock
<1>. USE DEF poolVars
<1>0. collectorUnchanged
  BY Zenon DEF Thread, EnterProbe, Stamp, Allocate, LoadReadIndex, Publish, Overflow, StoreTsc, StoreSite
<1>1. ~ quiet[t]
  <2>1. wpc[t] # "out" \/ probesOn
    BY DEF Thread, EnterProbe, Stamp, Allocate, LoadReadIndex, Publish, Overflow, StoreTsc, StoreSite
  <2>. QED BY <2>1 DEF LoopInv
<1>2. /\ windex \in [Threads -> Nat] /\ overflow \in [Threads -> Nat] /\ clock \in Nat
      /\ pos \in [Threads -> 0 .. BufLen] /\ tsc \in [Threads -> Tsc] /\ recorded \in [Threads -> SUBSET Tsc]
      /\ wpc \in [Threads -> {"out", "stamp", "allocate", "load", "claim", "record", "store"}]
  BY CapacityAssumption DEF Types, TypeOK
<1>3. CASE EnterProbe(t)
  BY <1>0, <1>1, <1>2, <1>3 DEF EnterProbe
<1>4. CASE Stamp(t)
  BY <1>0, <1>1, <1>2, <1>4 DEF Stamp
<1>5. CASE Allocate(t)
  BY <1>0, <1>1, <1>2, <1>5 DEF Allocate
<1>6. CASE LoadReadIndex(t)
  BY <1>0, <1>1, <1>2, <1>6 DEF LoadReadIndex
<1>7. CASE Publish(t)
  BY <1>0, <1>1, <1>2, <1>7 DEF Publish
<1>8. CASE Overflow(t)
  BY <1>0, <1>1, <1>2, <1>8 DEF Overflow
<1>9. CASE StoreTsc(t)
  <2>1. \A u \in Threads \ {t} : buf'[u] = buf[u]
    BY <1>9, StoreEffect
  <2>. QED BY <1>0, <1>1, <1>2, <1>9, <2>1 DEF StoreTsc
<1>10. CASE StoreSite(t)
  <2>1. \A u \in Threads \ {t} : buf'[u] = buf[u]
    BY <1>10, StoreEffect
  <2>. QED BY <1>0, <1>1, <1>2, <1>10, <2>1 DEF StoreSite
<1>. QED BY <1>3, <1>4, <1>5, <1>6, <1>7, <1>8, <1>9, <1>10 DEF Thread

\* Nor does a step of the framework thread touch the state of the threads.
LEMMA FrameworkFrame == Framework => threadsUnchanged
  BY Zenon DEF Framework, ActivateProbes, DeactivateProbes, BeginCollection, BeginPoll, EndCollection, OpenFails,
     AttachBegin, AttachStore, AttachCheck, VisitAttached, HandOut, PersistBuffer, CollectDone, FlushScan,
     FlushPersist, Account, DetachAll

\* Every step keeps the collector in its loops.
LEMMA LoopInvStep ==
  ASSUME Types, LoopInv, Next
  PROVE  LoopInv'
<1>1. ASSUME NEW t \in Threads, Thread(t) PROVE LoopInv'
  <2>1. /\ \A u \in Threads : quiet[u] => wpc'[u] = wpc[u]
        /\ \A u \in Threads : windex'[u] >= windex[u]
    <3>1. \A u \in Threads : windex[u] \in Nat
      BY DEF Types
    <3>. QED BY <1>1, <3>1, ThreadFrame
  <2>2. At' = At /\ collectorUnchanged
    BY <1>1, ThreadFrame DEF At, collectorUnchanged, loopVars
  <2>3. cpc \in InLoop => At \in Threads
    BY LoopSeq
  <2>4. cpc = "reading" => windex'[At] > rindex[At] + 1
    <3>1. cpc = "reading" => At \in Threads
      BY <2>3 DEF InLoop
    <3>2. Types'
      BY <1>1, ThreadTypes
    <3>3. \A x, y, z \in Int : x > z + 1 /\ y >= x => y > z + 1
      OBVIOUS
    <3>4. At \in Threads => rindex[At] \in Int /\ windex[At] \in Int /\ windex'[At] \in Int
      <4>1. windex \in [Threads -> Nat] /\ windex' \in [Threads -> Nat] /\ rindex \in [Threads -> Nat \cup {-1}]
        BY <3>2 DEF Types, NoReader
      <4>. QED BY <4>1
    <3>. QED BY <2>1, <3>1, <3>3, <3>4 DEF LoopInv
  <2>. QED BY <2>1, <2>2, <2>4 DEF LoopInv, collectorUnchanged, readerVars, loopVars, histVars
<1>2. ASSUME Framework PROVE LoopInv'
  <2>. USE DEF threadsUnchanged, threadVars, poolVars, readerVars, storeVars, loopVars, histVars
  <2>b. cpc \in InLoop => At \in Threads
    BY LoopSeq
  <2>a. ASSUME cpc \in InLoop, Advance
        PROVE  /\ cpc' = "visit" \/ (cpc' = "detach" /\ flushing) \/ (cpc' = "idle" /\ ~ flushing)
               /\ cpc' = "visit" <=> todo' # <<>>
    <3>1. todo \in Seq(Threads) /\ todo # <<>>
      BY <2>a DEF LoopInv, Types
    <3>2. Len(Tail(todo)) = Len(todo) - 1 /\ Len(todo) \in Nat \ {0} /\ Tail(todo) \in Seq(Threads)
      BY <2>a, LoopSeq
    <3>3. \A r \in Seq(Threads) : r # <<>> <=> Len(r) > 0
      BY EmptySeq
    <3>4. Tail(todo) # <<>> <=> Len(Tail(todo)) > 0
      BY <3>2, <3>3
    <3>5. Len(todo) > 1 <=> Tail(todo) # <<>>
      BY <3>2, <3>4
    <3>. QED BY <2>a, <3>5 DEF Advance, InLoop
  <2>1. CASE ActivateProbes
    BY <2>1 DEF ActivateProbes, LoopInv, InLoop
  <2>2. CASE DeactivateProbes
    BY <2>2 DEF DeactivateProbes, LoopInv, InLoop
  <2>3. CASE BeginCollection
    BY <2>3 DEF BeginCollection, LoopInv, InLoop
  <2>4. CASE BeginPoll
    BY <2>4 DEF BeginPoll, LoopInv, InLoop
  <2>5. CASE EndCollection
    BY <2>5 DEF EndCollection, LoopInv, InLoop
  <2>6. CASE OpenFails
    BY <2>6, <2>a, <2>b DEF OpenFails, LoopInv, InLoop
  <2>7. CASE AttachBegin
    BY <2>7, <2>b DEF AttachBegin, LoopInv, InLoop, At, Types, TypeOK
  <2>8. CASE AttachStore
    <3>1. At \in Threads /\ rindex \in [Threads -> Nat \cup {-1}] /\ (IF rseen > 0 THEN rseen - 1 ELSE 0) \in Nat
      BY <2>8, <2>b DEF AttachStore, InLoop, Types, NoReader
    <3>2. rindex'[At] # NoReader /\ \A t \in Threads \ {At} : rindex'[t] = rindex[t]
      BY <2>8, <3>1 DEF AttachStore, NoReader
    <3>. QED BY <2>8, <3>1, <3>2 DEF AttachStore, LoopInv, InLoop, At
  <2>9. CASE AttachCheck
    BY <2>9, <2>a, <2>b DEF AttachCheck, LoopInv, InLoop, At
  <2>10. CASE VisitAttached
    BY <2>10 DEF VisitAttached, LoopInv, InLoop, At
  <2>11. CASE HandOut
    BY <2>11 DEF HandOut, LoopInv, InLoop, At
  <2>12. CASE PersistBuffer
    <3>1. /\ cpc = "reading" /\ cpc' = "collect" /\ rindex' = [rindex EXCEPT ![At] = @ + 1]
          /\ UNCHANGED <<attached, loopVars, probesOn, quiet>> /\ threadsUnchanged
      BY <2>12, Zenon DEF PersistBuffer
    <3>2. At \in Threads /\ rindex \in [Threads -> Nat \cup {-1}]
      BY <2>b, <3>1 DEF InLoop, Types, NoReader
    <3>3. rindex'[At] # NoReader /\ \A t \in Threads \ {At} : rindex'[t] = rindex[t]
      <4>1. rindex[At] \in Nat \cup {-1}
        BY <3>2
      <4>. QED BY <3>1, <3>2, <4>1 DEF NoReader
    <3>. QED BY <3>1, <3>2, <3>3 DEF LoopInv, InLoop, At
  <2>13. CASE CollectDone
    BY <2>13 DEF CollectDone, LoopInv, InLoop, At
  <2>14. CASE FlushScan
    BY <2>14 DEF FlushScan, LoopInv, InLoop, At
  <2>15. CASE FlushPersist
    BY <2>15 DEF FlushPersist, LoopInv, InLoop, At
  <2>16. CASE Account
    BY <2>16, <2>a, <2>b DEF Account, LoopInv, InLoop
  <2>17. CASE DetachAll
    BY <2>17 DEF DetachAll, LoopInv, InLoop
  <2>. QED BY <1>2, <2>1, <2>2, <2>3, <2>4, <2>5, <2>6, <2>7, <2>8, <2>9, <2>10, <2>11, <2>12, <2>13, <2>14,
              <2>15, <2>16, <2>17 DEF Framework
<1>. QED BY <1>1, <1>2 DEF Next

-----------------------------------------------------------------------------
(* What the buffers hold.                                                  *)

\* A sample of the pool.
LEMMA SlotSample ==
  ASSUME Types, NEW t \in Threads, NEW s \in Slots, NEW k \in 1 .. BufLen
  PROVE  buf[t][s][k] \in Sample /\ buf[t][s][k].tsc \in Nat
<1>1. buf \in [Threads -> [Slots -> [1 .. BufLen -> Sample]]]
  BY DEF Types
<1>2. buf[t][s] \in [1 .. BufLen -> Sample]
  BY <1>1
<1>3. buf[t][s][k] \in Sample
  BY <1>2, Zenon
<1>. QED BY <1>3, CapacityAssumption DEF Sample, Tsc

\* The sample at a place of the pool.
LEMMA TscAtType ==
  ASSUME Types, NEW t \in Threads, NEW i \in Nat, NEW k \in 1 .. BufLen
  PROVE  TscAt(t, i, k) \in Tsc /\ TscAt(t, i, k) \in Nat
<1>1. buf[t][Slot(i)][k] \in Sample
  BY ReadBuffer
<1>. QED BY <1>1, CapacityAssumption DEF TscAt, Sample, Tsc

\* The buffers of a thread are not touched by the steps of another.
LEMMA WindowOther ==
  ASSUME Types, LoopInv, NEW t \in Threads, Thread(t), NEW u \in Threads \ {t}, WindowInv(u)
  PROVE  WindowInv(u)'
<1>1. /\ wpc'[u] = wpc[u] /\ tsc'[u] = tsc[u] /\ pos'[u] = pos[u] /\ windex'[u] = windex[u]
      /\ overflow'[u] = overflow[u] /\ recorded'[u] = recorded[u] /\ buf'[u] = buf[u]
      /\ clock' >= clock /\ clock' \in Nat
  BY ThreadFrame
<1>2. lastTsc' = lastTsc /\ lastOverflow' = lastOverflow
  BY ThreadFrame DEF collectorUnchanged, readerVars
<1>3. /\ \A i, k \in Nat : Valid(u, i, k)' <=> Valid(u, i, k)
      /\ \A i, k \in Nat : TscAt(u, i, k)' = TscAt(u, i, k)
  BY <1>1 DEF Valid, TscAt
<1>4. clock \in Nat /\ tsc[u] \in Nat /\ lastTsc[u] \in Nat /\ windex[u] \in Nat /\ pos[u] \in Nat
  BY CapacityAssumption DEF Types, TypeOK, Tsc
<1>5. IntactInv(u)'
  <2>1. \A s \in Slots, k \in 1 .. BufLen : buf[u][s][k].tsc \in Nat
    BY SlotSample
  <2>. QED BY <1>1, <1>4, <2>1 DEF WindowInv, IntactInv
<1>6. OrderInv(u)'
  <2>1. \A i, k \in Nat : Valid(u, i, k)' => TscAt(u, i, k)' >= 1
    BY <1>3 DEF WindowInv, OrderInv
  <2>2. \A i, k, j, l \in Nat : Valid(u, i, k)' /\ Valid(u, j, l)' /\ Before(i, k, j, l)
                                  => TscAt(u, i, k)' < TscAt(u, j, l)'
    BY <1>3 DEF WindowInv, OrderInv
  <2>3. wpc'[u] \in InFlight => /\ tsc'[u] \in 1 .. clock'
                                /\ \A i, k \in Nat : Valid(u, i, k)' => TscAt(u, i, k)' < tsc'[u]
    BY <1>1, <1>3, <1>4 DEF WindowInv, OrderInv
  <2>4. \A i, k, j, l : Before(i, k, j, l)' <=> Before(i, k, j, l)
    BY DEF Before
  <2>. QED BY <2>1, <2>2, <2>3, <2>4 DEF OrderInv, InFlight
<1>7. PlaceInv(u)'
  <2>1. TscAt(u, windex[u], pos[u] + 1)' = TscAt(u, windex[u], pos[u] + 1)
    BY <1>1 DEF TscAt
  <2>2. recorded'[u] \subseteq 1 .. clock'
    BY <1>1, <1>4 DEF WindowInv, PlaceInv
  <2>. QED BY <1>1, <1>2, <1>4, <2>1, <2>2 DEF WindowInv, PlaceInv
<1>. QED BY <1>5, <1>6, <1>7 DEF WindowInv

\* The trampoline stores beyond every complete sample.
LEMMA ValidUntouched ==
  ASSUME Types, NEW t \in Threads, StoreTsc(t) \/ StoreSite(t), NEW i \in Nat, NEW k \in Nat, Valid(t, i, k)
  PROVE  buf'[t][Slot(i)][k] = buf[t][Slot(i)][k]
<1>1. windex[t] \in Nat /\ pos[t] \in Nat /\ k \in 1 .. BufLen /\ Slot(i) \in Slots
  BY SlotType DEF Types, TypeOK, Valid
<1>2. CASE i = windex[t]
  <2>1. k # pos[t] + 1
    BY <1>1, <1>2 DEF Valid
  <2>. QED BY <1>1, <2>1, StoreEffect
<1>3. CASE i # windex[t]
  <2>1. i < windex[t] /\ windex[t] < i + PoolSize
    BY <1>1, <1>3 DEF Valid
  <2>2. Slot(i) # Slot(windex[t])
    BY <1>1, <2>1, SlotsDiffer
  <2>. QED BY <1>1, <2>2, StoreEffect
<1>. QED BY <1>2, <1>3

\* The steps of a thread keep its buffers in the order of time.
LEMMA WindowOwn ==
  ASSUME Types, LoopInv, NEW t \in Threads, Thread(t), WindowInv(t)
  PROVE  WindowInv(t)'
<1>. USE DEF poolVars
<1>1. /\ clock \in Nat /\ tsc \in [Threads -> Tsc] /\ windex \in [Threads -> Nat]
      /\ pos \in [Threads -> 0 .. BufLen] /\ recorded \in [Threads -> SUBSET Tsc]
      /\ wpc \in [Threads -> {"out", "stamp", "allocate", "load", "claim", "record", "store"}]
      /\ wseen \in [Threads -> Nat \cup {NoReader}]
      /\ overflow[t] \in Nat /\ lastOverflow[t] \in Nat /\ BufLen \in Nat \ {0} /\ PoolSize \in Nat
  BY CapacityAssumption, SizeAssumption DEF Types, TypeOK
<1>2. lastTsc' = lastTsc /\ lastOverflow' = lastOverflow /\ lastTsc[t] \in Nat
  <2>1. lastTsc' = lastTsc /\ lastOverflow' = lastOverflow
    BY ThreadFrame DEF collectorUnchanged, readerVars
  <2>. QED BY <2>1, CapacityAssumption DEF Types, Tsc
<1>3. \A s \in Slots, k \in 1 .. BufLen : buf[t][s][k].tsc \in Nat
  BY SlotSample
<1>a. CASE EnterProbe(t) \/ Allocate(t) \/ LoadReadIndex(t)
  <2>1. UNCHANGED <<clock, tsc, pos, buf, windex, overflow, recorded>>
    BY <1>a DEF EnterProbe, Allocate, LoadReadIndex
  <2>2. /\ wpc[t] \notin {"store"} /\ wpc'[t] \notin {"store"}
        /\ wpc'[t] \in InFlight => wpc[t] \in InFlight
        /\ wpc'[t] \in {"allocate", "load", "claim"} => wpc[t] \in {"allocate", "load", "claim"}
    BY <1>1, <1>a DEF EnterProbe, Allocate, LoadReadIndex, InFlight
  <2>3. /\ \A i, k \in Nat : Valid(t, i, k)' <=> Valid(t, i, k)
        /\ \A i, k \in Nat : TscAt(t, i, k)' = TscAt(t, i, k)
    BY <2>1 DEF Valid, TscAt
  <2>4. IntactInv(t)' /\ PlaceInv(t)'
    BY <1>2, <2>1, <2>2 DEF WindowInv, IntactInv, PlaceInv
  <2>5. OrderInv(t)'
    <3>1. /\ \A i, k \in Nat : Valid(t, i, k) => TscAt(t, i, k) >= 1
          /\ \A i, k, j, l \in Nat : Valid(t, i, k) /\ Valid(t, j, l) /\ Before(i, k, j, l)
                                       => TscAt(t, i, k) < TscAt(t, j, l)
          /\ wpc[t] \in InFlight => /\ tsc[t] \in 1 .. clock
                                    /\ \A i, k \in Nat : Valid(t, i, k) => TscAt(t, i, k) < tsc[t]
      BY DEF WindowInv, OrderInv
    <3>2. \A i, k \in Nat : Valid(t, i, k)' => TscAt(t, i, k)' >= 1
      BY <2>3, <3>1
    <3>3. ASSUME NEW i \in Nat, NEW k \in Nat, NEW j \in Nat, NEW l \in Nat,
                 Valid(t, i, k)', Valid(t, j, l)', Before(i, k, j, l)
          PROVE  TscAt(t, i, k)' < TscAt(t, j, l)'
      BY <2>3, <3>1, <3>3
    <3>4. wpc'[t] \in InFlight => /\ tsc'[t] \in 1 .. clock'
                                  /\ \A i, k \in Nat : Valid(t, i, k)' => TscAt(t, i, k)' < tsc'[t]
      BY <2>1, <2>2, <2>3, <3>1
    <3>. QED BY <3>2, <3>3, <3>4 DEF OrderInv, Before
  <2>. QED BY <2>4, <2>5 DEF WindowInv
<1>b. CASE Stamp(t)
  <2>1. UNCHANGED <<pos, buf, windex, overflow, recorded>> /\ clock' = clock + 1 /\ tsc'[t] = clock + 1
    BY <1>1, <1>b DEF Stamp
  <2>2. /\ wpc[t] = "stamp" /\ wpc'[t] # "store"
        /\ wpc'[t] \in {"allocate", "load", "claim"} => pos[t] = BufLen
    BY <1>1, <1>b DEF Stamp
  <2>3. /\ \A i, k \in Nat : Valid(t, i, k)' <=> Valid(t, i, k)
        /\ \A i, k \in Nat : TscAt(t, i, k)' = TscAt(t, i, k)
    BY <2>1 DEF Valid, TscAt
  <2>4. IntactInv(t)'
    BY <1>1, <1>3, <2>1, <2>2 DEF WindowInv, IntactInv
  <2>5. PlaceInv(t)'
    <3>1. recorded'[t] \subseteq 1 .. clock'
      BY <1>1, <2>1 DEF WindowInv, PlaceInv
    <3>. QED BY <1>1, <1>2, <2>1, <2>2, <3>1 DEF WindowInv, PlaceInv
  <2>6. \A i, k \in Nat : Valid(t, i, k) => TscAt(t, i, k) < clock + 1
    <3>. SUFFICES ASSUME NEW i \in Nat, NEW k \in Nat, Valid(t, i, k) PROVE TscAt(t, i, k) < clock + 1
      OBVIOUS
    <3>1. Slot(i) \in Slots /\ k \in 1 .. BufLen
      BY SlotType DEF Valid
    <3>2. TscAt(t, i, k) <= clock /\ TscAt(t, i, k) \in Nat
      BY <1>3, <3>1 DEF WindowInv, IntactInv, TscAt
    <3>. QED BY <1>1, <3>2
  <2>7. OrderInv(t)'
    BY <1>1, <2>1, <2>3, <2>6 DEF WindowInv, OrderInv
  <2>. QED BY <2>4, <2>5, <2>7 DEF WindowInv
<1>c. CASE Publish(t) \/ Overflow(t)
  <2>1. /\ UNCHANGED <<clock, tsc, buf, recorded>> /\ pos'[t] = 0 /\ wpc[t] = "claim" /\ wpc'[t] = "record"
        /\ windex'[t] = windex[t] + 1 \/ (windex'[t] = windex[t] /\ windex[t] >= 1)
    <3>1. Overflow(t) => windex[t] >= 1
      <4>1. Overflow(t) => wseen[t] \in Nat /\ ~ (windex[t] < wseen[t] + PoolSize)
        BY <1>1 DEF Overflow, HasRoom
      <4>. QED BY <1>1, <4>1, SizeAssumption
    <3>. QED BY <1>1, <1>c, <3>1 DEF Publish, Overflow
  <2>2. pos[t] = BufLen
    BY <2>1 DEF WindowInv, PlaceInv
  <2>3. \A i, k \in Nat : Valid(t, i, k)' => Valid(t, i, k)
    BY <1>1, <2>1, <2>2 DEF Valid
  <2>4. \A i, k \in Nat : TscAt(t, i, k)' = TscAt(t, i, k)
    BY <2>1 DEF TscAt
  <2>5. IntactInv(t)'
    BY <2>1 DEF WindowInv, IntactInv
  <2>6. PlaceInv(t)'
    <3>1. overflow'[t] >= lastOverflow[t]
      <4>1. overflow'[t] >= overflow[t] /\ overflow'[t] \in Nat
        BY ThreadFrame, ThreadTypes DEF Types
      <4>. QED BY <1>1, <4>1 DEF WindowInv, PlaceInv
    <3>. QED BY <1>1, <1>2, <2>1, <3>1 DEF WindowInv, PlaceInv
  <2>7. OrderInv(t)'
    <3>1. \A i, k \in Nat : Valid(t, i, k)' => TscAt(t, i, k)' >= 1
      BY <2>3, <2>4 DEF WindowInv, OrderInv
    <3>2. \A i, k, j, l \in Nat : Valid(t, i, k)' /\ Valid(t, j, l)' /\ Before(i, k, j, l)
                                    => TscAt(t, i, k)' < TscAt(t, j, l)'
      BY <2>3, <2>4 DEF WindowInv, OrderInv
    <3>3. tsc'[t] \in 1 .. clock' /\ \A i, k \in Nat : Valid(t, i, k)' => TscAt(t, i, k)' < tsc'[t]
      BY <2>1, <2>3, <2>4 DEF WindowInv, OrderInv, InFlight
    <3>. QED BY <3>1, <3>2, <3>3 DEF OrderInv, Before
  <2>. QED BY <2>5, <2>6, <2>7 DEF WindowInv
<1>d. CASE StoreTsc(t)
  <2>1. UNCHANGED <<clock, tsc, windex, overflow, recorded, pos>> /\ wpc[t] = "record" /\ wpc'[t] = "store"
    BY <1>1, <1>d DEF StoreTsc
  <2>2. \A i, k \in Nat : Valid(t, i, k)' <=> Valid(t, i, k)
    BY <2>1 DEF Valid
  <2>3. \A i, k \in Nat : Valid(t, i, k) => TscAt(t, i, k)' = TscAt(t, i, k)
    BY <1>d, <2>1, ValidUntouched DEF TscAt
  <2>4. OrderInv(t)'
    BY <2>1, <2>2, <2>3 DEF WindowInv, OrderInv, InFlight
  <2>5. TscAt(t, windex[t], pos[t] + 1)' = tsc[t]
    BY <1>d, <2>1, StoreEffect DEF TscAt
  <2>6. PlaceInv(t)'
    BY <1>2, <2>1, <2>5 DEF WindowInv, PlaceInv
  <2>7. IntactInv(t)'
    <3>. SUFFICES ASSUME NEW s \in Slots, NEW k \in 1 .. BufLen
                  PROVE  /\ buf'[t][s][k].tsc <= clock
                         /\ \/ buf'[t][s][k].tsc = buf'[t][s][k].site
                            \/ s = Slot(windex[t]) /\ k = pos[t] + 1
      BY <2>1 DEF IntactInv
    <3>1. CASE s = Slot(windex[t]) /\ k = pos[t] + 1
      BY <2>1, <2>5, <3>1 DEF WindowInv, OrderInv, InFlight, TscAt
    <3>2. CASE ~ (s = Slot(windex[t]) /\ k = pos[t] + 1)
      <4>1. buf'[t][s][k] = buf[t][s][k]
        BY <1>d, <3>2, StoreEffect
      <4>. QED BY <2>1, <3>2, <4>1 DEF WindowInv, IntactInv
    <3>. QED BY <3>1, <3>2
  <2>. QED BY <2>4, <2>6, <2>7 DEF WindowInv
<1>e. CASE StoreSite(t)
  <2>1. /\ UNCHANGED <<clock, windex, overflow>> /\ wpc[t] = "store" /\ wpc'[t] = "out"
        /\ pos'[t] = pos[t] + 1 /\ recorded'[t] = recorded[t] \cup {tsc[t]}
    BY <1>1, <1>e DEF StoreSite
  <2>2. pos[t] < BufLen /\ pos[t] \in Nat /\ windex[t] \in Nat /\ windex[t] >= 1 /\ tsc[t] \in 1 .. clock
    BY <1>1, <2>1 DEF Types, TypeOK, WindowInv, PlaceInv, OrderInv, InFlight
  <2>3. \A i, k \in Nat : Valid(t, i, k)' <=> Valid(t, i, k) \/ (i = windex[t] /\ k = pos[t] + 1)
    BY <1>1, <2>1, <2>2, SizeAssumption DEF Valid
  <2>4. \A i, k \in Nat : Valid(t, i, k) => TscAt(t, i, k)' = TscAt(t, i, k)
    BY <1>e, <2>1, ValidUntouched DEF TscAt
  <2>5. buf'[t][Slot(windex[t])][pos[t] + 1].tsc = tsc[t]
    <3>1. TscAt(t, windex[t], pos[t] + 1) = tsc[t]
      BY <2>1 DEF WindowInv, PlaceInv
    <3>2. buf'[t][Slot(windex[t])][pos[t] + 1].tsc = buf[t][Slot(windex[t])][pos[t] + 1].tsc
      BY <1>e, StoreEffect
    <3>. QED BY <2>1, <3>1, <3>2 DEF TscAt
  <2>6. \A i, k \in Nat : Valid(t, i, k) => TscAt(t, i, k) < tsc[t]
    BY <2>1 DEF WindowInv, OrderInv, InFlight
  <2>7. OrderInv(t)'
    <3>0. \A i, k \in Nat : Valid(t, i, k) => TscAt(t, i, k) >= 1
      BY DEF WindowInv, OrderInv
    <3>1. \A i, k \in Nat : Valid(t, i, k)' => TscAt(t, i, k)' >= 1
      BY <2>2, <2>3, <2>4, <2>5, <3>0 DEF TscAt
    <3>2. ASSUME NEW i \in Nat, NEW k \in Nat, NEW j \in Nat, NEW l \in Nat,
                 Valid(t, i, k)', Valid(t, j, l)', Before(i, k, j, l)
          PROVE  TscAt(t, i, k)' < TscAt(t, j, l)'
      <4>1. Valid(t, i, k)
        BY <1>1, <2>2, <2>3, <3>2 DEF Before, Valid
      <4>2. CASE Valid(t, j, l)
        BY <2>4, <3>2, <4>1, <4>2 DEF WindowInv, OrderInv
      <4>3. CASE j = windex[t] /\ l = pos[t] + 1
        BY <2>4, <2>5, <2>6, <4>1, <4>3 DEF TscAt
      <4>. QED BY <2>3, <3>2, <4>2, <4>3
    <3>3. wpc'[t] \notin InFlight
      BY <2>1 DEF InFlight
    <3>. QED BY <3>1, <3>2, <3>3 DEF OrderInv, Before, InFlight
  <2>8. PlaceInv(t)'
    <3>1. recorded'[t] \subseteq 1 .. clock
      BY <2>1, <2>2 DEF WindowInv, PlaceInv
    <3>. QED BY <1>2, <2>1, <2>2, <3>1 DEF WindowInv, PlaceInv
  <2>9. IntactInv(t)'
    <3>. SUFFICES ASSUME NEW s \in Slots, NEW k \in 1 .. BufLen
                  PROVE  /\ buf'[t][s][k].tsc <= clock
                         /\ buf'[t][s][k].tsc = buf'[t][s][k].site
      BY <2>1 DEF IntactInv
    <3>1. CASE s = Slot(windex[t]) /\ k = pos[t] + 1
      <4>1. buf'[t][s][k].site = tsc[t] /\ buf'[t][s][k].tsc = tsc[t]
        <5>1. buf'[t][Slot(windex[t])][pos[t] + 1].site = tsc[t]
          BY <1>e, StoreEffect
        <5>. QED BY <2>5, <3>1, <5>1
      <4>. QED BY <2>2, <4>1
    <3>2. CASE ~ (s = Slot(windex[t]) /\ k = pos[t] + 1)
      <4>1. buf'[t][s][k] = buf[t][s][k]
        BY <1>e, <3>2, StoreEffect
      <4>. QED BY <2>1, <3>2, <4>1 DEF WindowInv, IntactInv
    <3>. QED BY <3>1, <3>2
  <2>. QED BY <2>7, <2>8, <2>9 DEF WindowInv
<1>. QED BY <1>a, <1>b, <1>c, <1>d, <1>e DEF Thread

-----------------------------------------------------------------------------
(* What the collector reads.                                               *)

\* collectSamples: the buffer in hand and the samples of it to persist.
ReadBuf == buf[At][Slot(rindex[At] + 1)]
ReadFrom == FirstFresh(ReadBuf, lastTsc[At])
ReadNew == SubSeq(ReadBuf, ReadFrom, BufLen)

\* What collectSamples does with a buffer.
LEMMA ReadStep ==
  ASSUME Types, LoopInv, PersistBuffer
  PROVE  /\ At \in Threads /\ rindex[At] \in Nat /\ windex[At] \in Nat /\ windex[At] > rindex[At] + 1
         /\ ReadBuf \in Seq(Sample) /\ Len(ReadBuf) = BufLen /\ ReadFrom \in 1 .. BufLen + 1
         /\ ReadNew \in Seq(Sample) /\ Len(ReadNew) = BufLen + 1 - ReadFrom
         /\ \A i \in 1 .. Len(ReadNew) : ReadNew[i] = ReadBuf[ReadFrom + i - 1]
         /\ Persist(At, ReadNew, ~ Racing)
         /\ lastTsc'[At] \in Tsc /\ lastTsc'[At] >= lastTsc[At]
         /\ \A k \in 1 .. BufLen : ReadBuf[k].tsc <= lastTsc'[At]
         /\ lastTsc'[At] = lastTsc[At] \/ \E k \in 1 .. BufLen : lastTsc'[At] = ReadBuf[k].tsc
         /\ \A t \in Threads \ {At} : lastTsc'[t] = lastTsc[t]
<1>1. At \in Threads /\ cpc = "reading" /\ cpc \in InLoop
  <2>1. cpc = "reading"
    BY DEF PersistBuffer
  <2>. QED BY <2>1, LoopSeq DEF InLoop
<1>2. rindex[At] \in Nat /\ windex[At] \in Nat /\ windex[At] > rindex[At] + 1 /\ lastTsc[At] \in Tsc
  <2>1. attached[At] /\ rindex[At] # NoReader
    BY <1>1 DEF LoopInv
  <2>. QED BY <1>1, <2>1 DEF LoopInv, Types
<1>3. ReadBuf \in Seq(Sample) /\ Len(ReadBuf) = BufLen
  BY <1>1, <1>2, ReadBuffer DEF ReadBuf
<1>4. ReadFrom \in 1 .. BufLen + 1
  BY <1>2, <1>3, FreshSuffix DEF ReadFrom
<1>5. /\ ReadNew \in Seq(Sample) /\ Len(ReadNew) = BufLen + 1 - ReadFrom
      /\ \A i \in 1 .. BufLen + 1 - ReadFrom : ReadNew[i] = ReadBuf[ReadFrom + i - 1]
  <2>1. ReadFrom \in Nat \ {0} /\ BufLen \in 0 .. Len(ReadBuf) /\ BufLen \in Nat
    BY <1>3, <1>4, SizeAssumption
  <2>2. /\ SubSeq(ReadBuf, ReadFrom, BufLen) \in Seq(Sample)
        /\ Len(SubSeq(ReadBuf, ReadFrom, BufLen)) = IF ReadFrom <= BufLen THEN BufLen - ReadFrom + 1 ELSE 0
        /\ \A i \in 1 .. BufLen - ReadFrom + 1 : SubSeq(ReadBuf, ReadFrom, BufLen)[i] = ReadBuf[ReadFrom + i - 1]
    BY <1>3, <2>1, SelectedSeq, Zenon
  <2>. QED BY <1>4, <2>1, <2>2 DEF ReadNew
<1>6. Persist(At, ReadNew, ~ Racing) /\ lastTsc' = [lastTsc EXCEPT ![At] = Max({lastTsc[At]} \cup Tscs(ReadBuf))]
  BY Zenon DEF PersistBuffer, ReadNew, ReadFrom, ReadBuf
<1>7. Max({lastTsc[At]} \cup Tscs(ReadBuf)) = LastSeen(ReadBuf, BufLen, lastTsc[At]) /\ BufLen \in 0 .. Len(ReadBuf)
  <2>1. DOMAIN ReadBuf = 1 .. BufLen /\ BufLen \in 0 .. Len(ReadBuf)
    BY <1>3, SizeAssumption
  <2>. QED BY <2>1, Zenon DEF Tscs, LastSeen
<1>8. lastTsc'[At] = LastSeen(ReadBuf, BufLen, lastTsc[At])
      /\ \A t \in Threads \ {At} : lastTsc'[t] = lastTsc[t]
  BY <1>1, <1>6, <1>7 DEF Types
<1>9. /\ lastTsc'[At] \in Tsc /\ lastTsc[At] <= lastTsc'[At]
      /\ \A k \in 1 .. BufLen : ReadBuf[k].tsc <= lastTsc'[At]
      /\ lastTsc'[At] = lastTsc[At] \/ \E k \in 1 .. BufLen : lastTsc'[At] = ReadBuf[k].tsc
  <2>1. ReadBuf \in Seq(Sample) /\ lastTsc[At] \in Tsc /\ BufLen \in 0 .. Len(ReadBuf)
    BY <1>2, <1>3, <1>7
  <2>2. /\ LastSeen(ReadBuf, BufLen, lastTsc[At]) \in Tsc /\ lastTsc[At] <= LastSeen(ReadBuf, BufLen, lastTsc[At])
        /\ \A k \in 1 .. BufLen : ReadBuf[k].tsc <= LastSeen(ReadBuf, BufLen, lastTsc[At])
        /\ \/ LastSeen(ReadBuf, BufLen, lastTsc[At]) = lastTsc[At]
           \/ \E k \in 1 .. BufLen : LastSeen(ReadBuf, BufLen, lastTsc[At]) = ReadBuf[k].tsc
    BY <2>1, LastOf, Zenon
  <2>. QED BY <1>8, <2>2, Zenon
<1>. QED BY <1>1, <1>2, <1>3, <1>4, <1>5, <1>6, <1>8, <1>9, CapacityAssumption DEF Tsc

\* flush: the live buffer and the part of it that the scan selects.
ScanBuf == buf[At][Slot(windex[At])]
ScanTo == ValidPrefix(ScanBuf, range.limit)
ScanFrom == FirstFresh(SubSeq(ScanBuf, 1, ScanTo), lastTsc[At])

\* What the scan of flush selects.
LEMMA ScanStep ==
  ASSUME Types, LoopInv, FlushScan
  PROVE  /\ At \in Threads /\ windex[At] \in Nat /\ range.limit \in Nat
         /\ ScanBuf \in Seq(Sample) /\ Len(ScanBuf) = BufLen /\ ScanTo \in 0 .. BufLen /\ ScanFrom \in 1 .. ScanTo + 1
         /\ \A k \in ScanFrom .. ScanTo :
              ScanBuf[k].tsc > lastTsc[At] /\ \A j \in 1 .. k - 1 : ScanBuf[j].tsc < ScanBuf[k].tsc
         /\ range' = [limit |-> range.limit, idx |-> windex[At], to |-> ScanTo, from |-> ScanFrom]
         /\ lastTsc'[At] \in Tsc /\ lastTsc'[At] >= lastTsc[At]
         /\ \A k \in 1 .. ScanTo : ScanBuf[k].tsc <= lastTsc'[At]
         /\ lastTsc'[At] = lastTsc[At] \/ \E k \in 1 .. ScanTo : lastTsc'[At] = ScanBuf[k].tsc
         /\ \A t \in Threads \ {At} : lastTsc'[t] = lastTsc[t]
<1>1. At \in Threads
  BY LoopSeq DEF FlushScan, InLoop
<1>2. windex[At] \in Nat /\ lastTsc[At] \in Tsc /\ range.limit \in Nat
  BY <1>1 DEF Types
<1>3. ScanBuf \in Seq(Sample) /\ Len(ScanBuf) = BufLen
  BY <1>1, <1>2, ReadBuffer DEF ScanBuf
<1>4. ScanTo \in 0 .. BufLen
  BY <1>2, <1>3, ScannedPrefix DEF ScanTo
<1>. DEFINE u == SubSeq(ScanBuf, 1, ScanTo)
<1>5. u \in Seq(Sample) /\ Len(u) = ScanTo /\ \A k \in 1 .. ScanTo : u[k] = ScanBuf[k]
  <2>1. /\ SubSeq(ScanBuf, 1, ScanTo) \in Seq(Sample)
        /\ Len(SubSeq(ScanBuf, 1, ScanTo)) = IF 1 <= ScanTo THEN ScanTo - 1 + 1 ELSE 0
        /\ \A i \in 1 .. ScanTo - 1 + 1 : SubSeq(ScanBuf, 1, ScanTo)[i] = ScanBuf[1 + i - 1]
    BY <1>3, <1>4, SelectedSeq
  <2>. QED BY <1>4, <2>1, SizeAssumption
<1>6. /\ ScanFrom \in 1 .. ScanTo + 1
      /\ \A k \in ScanFrom .. ScanTo : u[k].tsc > lastTsc[At] /\ \A j \in 1 .. k - 1 : u[j].tsc < u[k].tsc
  <2>1. ScanFrom = FirstFresh(u, lastTsc[At])
    BY DEF ScanFrom
  <2>. HIDE DEF u
  <2>. QED BY <1>2, <1>5, <2>1, FreshSuffix
<1>7. \A k \in ScanFrom .. ScanTo :
        ScanBuf[k].tsc > lastTsc[At] /\ \A j \in 1 .. k - 1 : ScanBuf[j].tsc < ScanBuf[k].tsc
  <2>. HIDE DEF u
  <2>. QED BY <1>4, <1>5, <1>6, SizeAssumption
<1>8. /\ range' = [limit |-> range.limit, idx |-> windex[At], to |-> ScanTo, from |-> ScanFrom]
      /\ lastTsc' = [lastTsc EXCEPT ![At] = LastSeen(ScanBuf, ScanTo, lastTsc[At])]
  BY Zenon DEF FlushScan, ScanBuf, ScanTo, ScanFrom, LastSeen
<1>9. lastTsc'[At] = LastSeen(ScanBuf, ScanTo, lastTsc[At])
      /\ \A t \in Threads \ {At} : lastTsc'[t] = lastTsc[t]
  BY <1>1, <1>8 DEF Types
<1>10. /\ lastTsc'[At] \in Tsc /\ lastTsc[At] <= lastTsc'[At]
       /\ \A k \in 1 .. ScanTo : ScanBuf[k].tsc <= lastTsc'[At]
       /\ lastTsc'[At] = lastTsc[At] \/ \E k \in 1 .. ScanTo : lastTsc'[At] = ScanBuf[k].tsc
  BY <1>2, <1>3, <1>4, <1>9, LastOf
<1>. QED BY <1>1, <1>2, <1>3, <1>4, <1>6, <1>7, <1>8, <1>9, <1>10, CapacityAssumption DEF Tsc

\* flush: the samples that are written out.
FlushNew == SubSeq(buf[At][Slot(range.idx)], range.from, range.to)

\* What flush writes out.
LEMMA FlushStep ==
  ASSUME Types, LoopInv, FlushPersist
  PROVE  /\ At \in Threads /\ FlushNew \in Seq(Sample)
         /\ range.from \in Nat \ {0} /\ range.to \in Nat /\ range.to <= BufLen /\ range.idx \in Nat
         /\ Len(FlushNew) = IF range.from <= range.to THEN range.to - range.from + 1 ELSE 0
         /\ \A i \in 1 .. Len(FlushNew) : FlushNew[i] = buf[At][Slot(range.idx)][range.from + i - 1]
         /\ Persist(At, FlushNew, quiet[At]) /\ quiet[At] \in BOOLEAN
<1>1. At \in Threads
  BY LoopSeq DEF FlushPersist, InLoop
<1>2. range.idx \in Nat /\ range.from \in Nat \ {0} /\ range.to \in 0 .. BufLen /\ quiet[At] \in BOOLEAN
  BY <1>1 DEF Types
<1>. DEFINE s == buf[At][Slot(range.idx)]
<1>3. s \in Seq(Sample) /\ Len(s) = BufLen
  BY <1>1, <1>2, ReadBuffer
<1>4. FlushNew = SubSeq(s, range.from, range.to) /\ Persist(At, FlushNew, quiet[At])
  BY Zenon DEF FlushNew, FlushPersist
<1>. HIDE DEF s
<1>5. /\ SubSeq(s, range.from, range.to) \in Seq(Sample)
      /\ Len(SubSeq(s, range.from, range.to)) = IF range.from <= range.to THEN range.to - range.from + 1 ELSE 0
      /\ \A i \in 1 .. range.to - range.from + 1 : SubSeq(s, range.from, range.to)[i] = s[range.from + i - 1]
  BY <1>2, <1>3, SelectedSeq
<1>6. \A i \in 1 .. Len(FlushNew) : FlushNew[i] = s[range.from + i - 1]
  BY <1>2, <1>4, <1>5, SizeAssumption
<1>7. Len(FlushNew) = (IF range.from <= range.to THEN range.to - range.from + 1 ELSE 0) /\ FlushNew \in Seq(Sample)
  BY <1>4, <1>5, Zenon
<1>. QED BY <1>1, <1>2, <1>4, <1>6, <1>7 DEF s

\* _lastSampledTsc only grows, and is never beyond the clock.
LEMMA LastTscGrows ==
  ASSUME Types, LoopInv, \A t \in Threads : WindowInv(t), Framework
  PROVE  \A t \in Threads : /\ lastTsc[t] \in Nat /\ lastTsc'[t] \in Nat
                            /\ lastTsc[t] <= lastTsc'[t] /\ lastTsc'[t] <= clock
<1>. SUFFICES ASSUME NEW t \in Threads
              PROVE  /\ lastTsc[t] \in Nat /\ lastTsc'[t] \in Nat
                     /\ lastTsc[t] <= lastTsc'[t] /\ lastTsc'[t] <= clock
  OBVIOUS
<1>1. lastTsc[t] \in Nat /\ lastTsc[t] <= clock /\ clock \in Nat
  BY CapacityAssumption DEF Types, TypeOK, Tsc, WindowInv, PlaceInv
<1>2. CASE PersistBuffer
  <2>1. CASE t = At
    <3>1. \A k \in 1 .. BufLen : ReadBuf[k].tsc <= clock
      <4>1. At \in Threads /\ Slot(rindex[At] + 1) \in Slots
        BY <1>2, ReadStep, SlotType
      <4>. QED BY <4>1 DEF ReadBuf, WindowInv, IntactInv
    <3>2. lastTsc'[At] \in Nat /\ lastTsc'[At] >= lastTsc[At]
      BY <1>2, ReadStep, CapacityAssumption DEF Tsc
    <3>3. lastTsc'[At] = lastTsc[At] \/ \E k \in 1 .. BufLen : lastTsc'[At] = ReadBuf[k].tsc
      BY <1>2, ReadStep
    <3>. QED BY <1>1, <2>1, <3>1, <3>2, <3>3
  <2>2. CASE t # At
    BY <1>1, <1>2, <2>2, ReadStep
  <2>. QED BY <2>1, <2>2
<1>3. CASE FlushScan
  <2>1. CASE t = At
    <3>1. \A k \in 1 .. ScanTo : ScanBuf[k].tsc <= clock
      <4>1. At \in Threads /\ Slot(windex[At]) \in Slots /\ ScanTo \in 0 .. BufLen
        BY <1>3, ScanStep, SlotType
      <4>. QED BY <4>1, SizeAssumption DEF ScanBuf, WindowInv, IntactInv
    <3>2. lastTsc'[At] \in Nat /\ lastTsc'[At] >= lastTsc[At]
      BY <1>3, ScanStep, CapacityAssumption DEF Tsc
    <3>3. lastTsc'[At] = lastTsc[At] \/ \E k \in 1 .. ScanTo : lastTsc'[At] = ScanBuf[k].tsc
      BY <1>3, ScanStep
    <3>. QED BY <1>1, <2>1, <3>1, <3>2, <3>3
  <2>2. CASE t # At
    BY <1>1, <1>3, <2>2, ScanStep
  <2>. QED BY <2>1, <2>2
<1>4. CASE ~ PersistBuffer /\ ~ FlushScan
  <2>1. lastTsc' = lastTsc
    BY <1>4, Zenon DEF Framework, ActivateProbes, DeactivateProbes, BeginCollection, BeginPoll, EndCollection, OpenFails,
       AttachBegin, AttachStore, AttachCheck, VisitAttached, HandOut, CollectDone, FlushPersist, Account,
       DetachAll, readerVars
  <2>. QED BY <1>1, <2>1
<1>. QED BY <1>2, <1>3, <1>4

\* Every step keeps the buffers in the order of time.
LEMMA WindowStep ==
  ASSUME Types, LoopInv, \A t \in Threads : WindowInv(t), Next
  PROVE  \A t \in Threads : WindowInv(t)'
<1>1. ASSUME NEW t \in Threads, Thread(t) PROVE \A u \in Threads : WindowInv(u)'
  BY <1>1, WindowOwn, WindowOther
<1>2. ASSUME Framework, NEW t \in Threads PROVE WindowInv(t)'
  <2>1. /\ UNCHANGED <<clock, wpc, tsc, pos, buf, windex, overflow, recorded>>
        /\ lastTsc'[t] <= clock
    BY <1>2, FrameworkFrame, LastTscGrows DEF threadsUnchanged, threadVars, poolVars
  <2>2. overflow[t] >= lastOverflow'[t]
    <3>1. CASE Account
      <4>1. At \in Threads
        BY <3>1, LoopSeq DEF Account, InLoop
      <4>2. \A u \in Threads : overflow[u] \in Nat /\ lastOverflow[u] \in Nat /\ overflow[u] >= lastOverflow[u]
        BY DEF Types, WindowInv, PlaceInv
      <4>3. lastOverflow'[t] = IF t = At THEN overflow[t] ELSE lastOverflow[t]
        BY <3>1, <4>1 DEF Account, Types
      <4>. QED BY <4>2, <4>3
    <3>2. CASE ~ Account
      <4>1. lastOverflow' = lastOverflow
        BY <1>2, <3>2, Zenon DEF Framework, ActivateProbes, DeactivateProbes, BeginCollection, BeginPoll, EndCollection,
           OpenFails, AttachBegin, AttachStore, AttachCheck, VisitAttached, HandOut, PersistBuffer, CollectDone,
           FlushScan, FlushPersist, DetachAll, readerVars
      <4>. QED BY <4>1 DEF WindowInv, PlaceInv
    <3>. QED BY <3>1, <3>2
  <2>3. WindowInv(t)
    OBVIOUS
  <2>4. IntactInv(t)'
    BY <2>1, <2>3 DEF WindowInv, IntactInv
  <2>5. PlaceInv(t)'
    BY <2>1, <2>2, <2>3 DEF WindowInv, PlaceInv, TscAt
  <2>6. OrderInv(t)'
    <3>1. /\ \A i, k \in Nat : Valid(t, i, k)' <=> Valid(t, i, k)
          /\ \A i, k \in Nat : TscAt(t, i, k)' = TscAt(t, i, k)
      BY <2>1 DEF Valid, TscAt
    <3>. QED BY <2>1, <2>3, <3>1 DEF WindowInv, OrderInv, Before
  <2>. QED BY <2>4, <2>5, <2>6 DEF WindowInv
<1>. QED BY <1>1, <1>2 DEF Next

-----------------------------------------------------------------------------
(* What is on file: CleanInOrder.                                          *)

\* What is on file are samples.
LEMMA FileSample ==
  ASSUME Types, NEW t \in Threads, NEW i \in CleanAt(t)
  PROVE  /\ i \in 1 .. Len(file[t]) /\ file[t][i] \in Filed
         /\ file[t][i].tsc \in Nat /\ file[t][i].clean
<1>1. file[t] \in Seq(Filed)
  BY DEF Types
<1>2. i \in 1 .. Len(file[t]) /\ file[t][i].clean
  BY <1>1 DEF CleanAt
<1>3. file[t][i] \in Filed
  BY <1>1, <1>2
<1>. QED BY <1>2, <1>3, CapacityAssumption DEF Filed, Tsc

\* A file left alone stays in order.
LEMMA CleanKept ==
  ASSUME Types, NEW t \in Threads, CleanInv(t), file'[t] = file[t], high'[t] = high[t],
         lastTsc[t] <= lastTsc'[t], lastTsc'[t] \in Nat
  PROVE  CleanInv(t)'
<1>1. CleanAt(t)' = CleanAt(t)
  BY DEF CleanAt
<1>2. high[t] \in Nat /\ lastTsc[t] \in Nat /\ \A i \in CleanAt(t) : file[t][i].tsc \in Nat
  <2>1. high[t] \in Nat /\ lastTsc[t] \in Nat
    BY CapacityAssumption DEF Types, Tsc
  <2>2. \A i \in CleanAt(t) : file[t][i].tsc \in Nat
    BY FileSample
  <2>. QED BY <2>1, <2>2
<1>. QED BY <1>1, <1>2 DEF CleanInv

\* Samples that follow what is on file keep it in order.
LEMMA CleanAppend ==
  ASSUME Types, NEW t \in Threads, CleanInv(t), NEW q \in Seq(Sample), NEW c \in BOOLEAN,
         file'[t] = file[t] \o Tagged(q, c), high'[t] = high[t],
         lastTsc[t] <= lastTsc'[t], lastTsc'[t] \in Nat, c => CleanRun(t, q, lastTsc'[t])
  PROVE  CleanInv(t)'
<1>. DEFINE f == file[t]
            g == file'[t]
<1>1. f \in Seq(Filed) /\ Len(f) \in Nat /\ Len(q) \in Nat
  BY DEF Types
<1>2. /\ g \in Seq(Filed) /\ Len(g) = Len(f) + Len(q)
      /\ \A k \in 1 .. Len(f) : g[k] = f[k]
      /\ \A k \in 1 .. Len(q) : /\ g[Len(f) + k].tsc = q[k].tsc
                                /\ g[Len(f) + k].site = q[k].site
                                /\ g[Len(f) + k].clean = c
  <2>1. g = Appended(f, q, c)
    BY DEF Appended
  <2>. HIDE DEF f, g
  <2>2. Appended(f, q, c) \in Seq(Filed) /\ Len(Appended(f, q, c)) = Len(f) + Len(q)
    BY <1>1, AppendedFile
  <2>3. \A k \in 1 .. Len(f) : Appended(f, q, c)[k] = f[k]
    BY <1>1, AppendedFile
  <2>4. \A k \in 1 .. Len(q) : /\ Appended(f, q, c)[Len(f) + k].tsc = q[k].tsc
                              /\ Appended(f, q, c)[Len(f) + k].site = q[k].site
                              /\ Appended(f, q, c)[Len(f) + k].clean = c
    BY <1>1, AppendedFile
  <2>. QED BY <2>1, <2>2, <2>3, <2>4, Zenon
<1>3. high[t] \in Nat /\ lastTsc[t] \in Nat /\ \A i \in CleanAt(t) : file[t][i].tsc \in Nat
  <2>1. high[t] \in Nat /\ lastTsc[t] \in Nat
    BY CapacityAssumption DEF Types, Tsc
  <2>2. \A i \in CleanAt(t) : file[t][i].tsc \in Nat
    BY FileSample
  <2>. QED BY <2>1, <2>2
<1>4. ASSUME NEW i \in CleanAt(t)'
      PROVE  \/ i \in CleanAt(t) /\ g[i] = f[i] /\ i <= Len(f)
             \/ /\ c /\ i - Len(f) \in 1 .. Len(q)
                /\ g[i].tsc = q[i - Len(f)].tsc /\ g[i].site = q[i - Len(f)].site
  <2>1. i \in 1 .. Len(f) + Len(q) /\ g[i].clean
    BY <1>2, <1>4 DEF CleanAt
  <2>2. CASE i <= Len(f)
    <3>1. i \in 1 .. Len(f)
      BY <1>1, <2>1, <2>2
    <3>2. i \in CleanAt(t)
      BY <1>1, <1>2, <2>1, <3>1 DEF CleanAt
    <3>. QED BY <1>2, <2>2, <3>1, <3>2
  <2>3. CASE i > Len(f)
    <3>1. i - Len(f) \in 1 .. Len(q) /\ i = Len(f) + (i - Len(f))
      BY <1>1, <2>1, <2>3
    <3>. HIDE DEF f, g
    <3>2. \A k \in 1 .. Len(q) : i = Len(f) + k => g[i].tsc = q[k].tsc /\ g[i].site = q[k].site /\ g[i].clean = c
      BY <1>2
    <3>. QED BY <2>1, <3>1, <3>2
  <2>4. i <= Len(f) \/ i > Len(f)
    <3>. HIDE DEF f, g
    <3>. QED BY <1>1, <2>1
  <2>. QED BY <2>2, <2>3, <2>4
<1>5. ASSUME NEW i \in CleanAt(t)'
      PROVE  /\ g[i].tsc = g[i].site /\ high[t] < g[i].tsc /\ g[i].tsc <= lastTsc'[t]
             /\ \A j \in CleanAt(t)' : j < i => g[j].tsc < g[i].tsc
  <2>1. CASE i \in CleanAt(t) /\ g[i] = f[i] /\ i <= Len(f)
    <3>1. g[i].tsc = g[i].site /\ high[t] < g[i].tsc /\ g[i].tsc <= lastTsc'[t]
      BY <1>3, <2>1 DEF CleanInv
    <3>2. ASSUME NEW j \in CleanAt(t)', j < i PROVE g[j].tsc < g[i].tsc
      <4>1. i \in Nat /\ j \in Nat
        BY <1>1, <1>2, <2>1, <3>2, FileSample DEF CleanAt
      <4>2. j \in CleanAt(t) /\ g[j] = f[j]
        <5>1. ~ (j - Len(f) \in 1 .. Len(q))
          <6>. HIDE DEF f, g
          <6>. QED BY <1>1, <2>1, <3>2, <4>1
        <5>. QED BY <1>4, <3>2, <5>1
      <4>. QED BY <2>1, <3>2, <4>2 DEF CleanInv
    <3>. QED BY <3>1, <3>2
  <2>2. CASE /\ c /\ i - Len(f) \in 1 .. Len(q)
             /\ g[i].tsc = q[i - Len(f)].tsc /\ g[i].site = q[i - Len(f)].site
    <3>0. CleanRun(t, q, lastTsc'[t])
      BY <2>2
    <3>1. g[i].tsc = g[i].site /\ high[t] < g[i].tsc /\ g[i].tsc <= lastTsc'[t]
      <4>1. q[i - Len(f)].tsc \in Int
        <5>1. q[i - Len(f)] \in Sample
          BY <2>2
        <5>. QED BY <5>1, CapacityAssumption DEF Sample, Tsc
      <4>. QED BY <1>3, <2>2, <3>0, <4>1 DEF CleanRun
    <3>2. ASSUME NEW j \in CleanAt(t)', j < i PROVE g[j].tsc < g[i].tsc
      <4>1. CASE j \in CleanAt(t) /\ g[j] = f[j]
        BY <2>2, <3>0, <4>1 DEF CleanRun
      <4>2. CASE j - Len(f) \in 1 .. Len(q) /\ g[j].tsc = q[j - Len(f)].tsc
        <5>1. j \in Nat /\ i \in Nat
          BY <1>1, <1>2, <3>2 DEF CleanAt
        <5>2. j - Len(f) \in 1 .. (i - Len(f)) - 1
          BY <1>1, <2>2, <3>2, <4>2, <5>1
        <5>. QED BY <2>2, <3>0, <4>2, <5>2 DEF CleanRun
      <4>. QED BY <1>4, <3>2, <4>1, <4>2
    <3>. QED BY <3>1, <3>2
  <2>. QED BY <1>4, <2>1, <2>2
<1>6. high'[t] <= lastTsc'[t]
  BY <1>3 DEF CleanInv
<1>7. \A i \in CleanAt(t)' : /\ file'[t][i].tsc = file'[t][i].site
                             /\ high'[t] < file'[t][i].tsc /\ file'[t][i].tsc <= lastTsc'[t]
                             /\ \A j \in CleanAt(t)' : j < i => file'[t][j].tsc < file'[t][i].tsc
  BY <1>5
<1>. QED BY <1>6, <1>7 DEF CleanInv

\* The buffer that the reader holds, while the writer is not beyond the pool, and
\* the live buffer of a thread outside every probe have only complete samples.
LEMMA IntactRead ==
  ASSUME Types, NEW t \in Threads, IntactInv(t), NEW i \in Nat, NEW k \in 1 .. BufLen,
         wpc[t] = "out" \/ (i < windex[t] /\ windex[t] < i + PoolSize)
  PROVE  buf[t][Slot(i)][k].tsc = buf[t][Slot(i)][k].site
<1>1. Slot(i) \in Slots /\ windex[t] \in Nat
  BY SlotType DEF Types
<1>2. wpc[t] = "store" => Slot(i) # Slot(windex[t])
  BY <1>1, SlotsDiffer
<1>. QED BY <1>1, <1>2 DEF IntactInv

\* collectSamples appends samples that follow what is on file.
LEMMA ReadClean ==
  ASSUME Types, LoopInv, \A t \in Threads : WindowInv(t), \A t \in Threads : CleanInv(t),
         PersistBuffer, ~ Racing
  PROVE  CleanRun(At, ReadNew, lastTsc'[At])
<1>1. /\ At \in Threads /\ rindex[At] \in Nat /\ windex[At] \in Nat /\ windex[At] > rindex[At] + 1
      /\ ReadBuf \in Seq(Sample) /\ Len(ReadBuf) = BufLen /\ ReadFrom \in 1 .. BufLen + 1
      /\ ReadNew \in Seq(Sample) /\ Len(ReadNew) = BufLen + 1 - ReadFrom
      /\ \A i \in 1 .. Len(ReadNew) : ReadNew[i] = ReadBuf[ReadFrom + i - 1]
      /\ \A k \in 1 .. BufLen : ReadBuf[k].tsc <= lastTsc'[At]
  BY ReadStep
<1>2. /\ lastTsc[At] \in Tsc /\ lastTsc[At] \in Nat /\ high[At] \in Nat /\ BufLen \in Nat
      /\ \A j \in CleanAt(At) : file[At][j].tsc \in Nat
  <2>1. \A j \in CleanAt(At) : file[At][j].tsc \in Nat
    BY <1>1, FileSample
  <2>. QED BY <1>1, <2>1, CapacityAssumption, SizeAssumption DEF Types, Tsc
<1>3. \A k \in 1 .. BufLen : ReadBuf[k].tsc = ReadBuf[k].site /\ ReadBuf[k].tsc \in Nat
  <2>1. rindex[At] + 1 \in Nat /\ rindex[At] + 1 < windex[At] /\ windex[At] < (rindex[At] + 1) + PoolSize
    BY <1>1, SizeAssumption DEF Racing
  <2>2. Slot(rindex[At] + 1) \in Slots
    BY <2>1, SlotType
  <2>. QED BY <1>1, <2>1, <2>2, IntactRead, SlotSample DEF ReadBuf, WindowInv
<1>4. \A k \in ReadFrom .. BufLen : ReadBuf[k].tsc > lastTsc[At] /\ \A j \in 1 .. k - 1 : ReadBuf[j].tsc < ReadBuf[k].tsc
  BY <1>1, <1>2, FreshSuffix DEF ReadFrom
<1>5. ASSUME NEW i \in 1 .. Len(ReadNew)
      PROVE  /\ ReadNew[i].tsc = ReadNew[i].site /\ ReadNew[i].tsc > high[At] /\ ReadNew[i].tsc <= lastTsc'[At]
             /\ \A j \in CleanAt(At) : file[At][j].tsc < ReadNew[i].tsc
             /\ \A j \in 1 .. i - 1 : ReadNew[j].tsc < ReadNew[i].tsc
  <2>. DEFINE k == ReadFrom + i - 1
  <2>1. k \in ReadFrom .. BufLen /\ k \in 1 .. BufLen /\ ReadNew[i] = ReadBuf[k]
    BY <1>1, <1>2
  <2>2. \A j \in 1 .. i - 1 : ReadFrom + j - 1 \in 1 .. k - 1 /\ ReadNew[j] = ReadBuf[ReadFrom + j - 1]
    BY <1>1, <1>2
  <2>. HIDE DEF k
  <2>3. ReadBuf[k].tsc > lastTsc[At] /\ \A j \in 1 .. k - 1 : ReadBuf[j].tsc < ReadBuf[k].tsc
    BY <1>4, <2>1
  <2>4. high[At] <= lastTsc[At] /\ \A j \in CleanAt(At) : file[At][j].tsc <= lastTsc[At]
    BY <1>1 DEF CleanInv
  <2>5. ReadBuf[k].tsc \in Nat /\ ReadBuf[k].tsc = ReadBuf[k].site /\ ReadBuf[k].tsc <= lastTsc'[At]
    BY <1>1, <1>3, <2>1
  <2>6. ReadBuf[k].tsc > high[At] /\ \A j \in CleanAt(At) : file[At][j].tsc < ReadBuf[k].tsc
    BY <1>2, <2>3, <2>4, <2>5
  <2>7. \A j \in 1 .. i - 1 : ReadNew[j].tsc < ReadBuf[k].tsc
    BY <2>2, <2>3
  <2>. QED BY <2>1, <2>5, <2>6, <2>7
<1>. QED BY <1>5 DEF CleanRun

\* So does flush, for a thread outside every probe.
LEMMA FlushClean ==
  ASSUME Types, LoopInv, \A t \in Threads : WindowInv(t), PendingInv, FlushPersist, quiet[At]
  PROVE  CleanRun(At, FlushNew, lastTsc[At])
<1>1. /\ At \in Threads /\ FlushNew \in Seq(Sample)
      /\ range.from \in Nat \ {0} /\ range.to \in Nat /\ range.to <= BufLen /\ range.idx \in Nat
      /\ Len(FlushNew) = IF range.from <= range.to THEN range.to - range.from + 1 ELSE 0
      /\ \A i \in 1 .. Len(FlushNew) : FlushNew[i] = buf[At][Slot(range.idx)][range.from + i - 1]
  BY FlushStep
<1>2. cpc = "flush" /\ wpc[At] = "out"
  BY <1>1 DEF FlushPersist, LoopInv
<1>3. ASSUME NEW i \in 1 .. Len(FlushNew)
      PROVE  /\ FlushNew[i].tsc = FlushNew[i].site
             /\ FlushNew[i].tsc > high[At] /\ FlushNew[i].tsc <= lastTsc[At]
             /\ \A j \in CleanAt(At) : file[At][j].tsc < FlushNew[i].tsc
             /\ \A j \in 1 .. i - 1 : FlushNew[j].tsc < FlushNew[i].tsc
  <2>. DEFINE k == range.from + i - 1
  <2>1. k \in range.from .. range.to /\ k \in 1 .. BufLen
    BY <1>1, <1>3, SizeAssumption
  <2>2. FlushNew[i].tsc = TscAt(At, range.idx, k)
    BY <1>1, <1>3 DEF TscAt
  <2>3. ASSUME NEW j \in 1 .. i - 1
        PROVE  range.from + j - 1 \in range.from .. k - 1 /\ FlushNew[j].tsc = TscAt(At, range.idx, range.from + j - 1)
    <3>1. j \in 1 .. Len(FlushNew) /\ Len(FlushNew) \in Nat
      BY <1>1, <1>3
    <3>2. FlushNew[j] = buf[At][Slot(range.idx)][range.from + j - 1]
      BY <1>1, <3>1
    <3>3. range.from + j - 1 \in range.from .. k - 1
      BY <1>1, <1>3, <3>1
    <3>. QED BY <3>2, <3>3 DEF TscAt
  <2>4. FlushNew[i].tsc = FlushNew[i].site
    <3>1. FlushNew[i] = buf[At][Slot(range.idx)][k]
      BY <1>1, <1>3
    <3>. HIDE DEF k
    <3>2. buf[At][Slot(range.idx)][k].tsc = buf[At][Slot(range.idx)][k].site
      BY <1>1, <1>2, <2>1, IntactRead DEF WindowInv
    <3>. QED BY <3>1, <3>2
  <2>. HIDE DEF k
  <2>. QED BY <1>2, <2>1, <2>2, <2>3, <2>4 DEF PendingInv
<1>. QED BY <1>3 DEF CleanRun

\* Every step keeps the files in order.
LEMMA CleanStep ==
  ASSUME Types, LoopInv, \A t \in Threads : WindowInv(t), \A t \in Threads : CleanInv(t), PendingInv, Next
  PROVE  \A t \in Threads : CleanInv(t)'
<1>1. ASSUME NEW u \in Threads, Thread(u), NEW t \in Threads PROVE CleanInv(t)'
  <2>1. file' = file /\ high' = high /\ lastTsc' = lastTsc
    BY <1>1, ThreadFrame DEF collectorUnchanged, readerVars, storeVars, histVars
  <2>2. lastTsc[t] \in Nat
    BY CapacityAssumption DEF Types, Tsc
  <2>. QED BY <2>1, <2>2, CleanKept
<1>2. ASSUME Framework, NEW t \in Threads PROVE CleanInv(t)'
  <2>0. lastTsc[t] \in Nat /\ lastTsc'[t] \in Nat /\ lastTsc[t] <= lastTsc'[t]
    BY <1>2, LastTscGrows
  <2>1. CASE PersistBuffer
    <3>0. high' = high
      BY <2>1, Zenon DEF PersistBuffer
    <3>1. /\ At \in Threads /\ ReadNew \in Seq(Sample) /\ (~ Racing) \in BOOLEAN
          /\ Persist(At, ReadNew, ~ Racing) /\ (~ Racing => CleanRun(At, ReadNew, lastTsc'[At]))
      <4>1. (~ Racing) \in BOOLEAN
        BY Zenon
      <4>. QED BY <2>1, <4>1, ReadStep, ReadClean
    <3>2. /\ \A u \in Threads \ {At} : file'[u] = file[u]
          /\ file'[At] = file[At] \o Tagged(ReadNew, ~ Racing) \/ file' = file
      BY <3>1, PersistEffect
    <3>3. CASE file'[t] = file[t]
      BY <2>0, <3>0, <3>3, CleanKept
    <3>4. CASE t = At /\ file'[At] = file[At] \o Tagged(ReadNew, ~ Racing)
      BY <2>0, <3>0, <3>1, <3>4, CleanAppend
    <3>. QED BY <3>2, <3>3, <3>4
  <2>2. CASE FlushPersist
    <3>0. high' = high /\ lastTsc' = lastTsc
      BY <2>2, Zenon DEF FlushPersist, readerVars, histVars
    <3>1. /\ At \in Threads /\ FlushNew \in Seq(Sample) /\ quiet[At] \in BOOLEAN
          /\ Persist(At, FlushNew, quiet[At]) /\ (quiet[At] => CleanRun(At, FlushNew, lastTsc[At]))
      BY <2>2, FlushStep, FlushClean
    <3>2. /\ \A u \in Threads \ {At} : file'[u] = file[u]
          /\ file'[At] = file[At] \o Tagged(FlushNew, quiet[At]) \/ file' = file
      BY <3>1, PersistEffect
    <3>3. CASE file'[t] = file[t]
      BY <2>0, <3>0, <3>3, CleanKept
    <3>4. CASE t = At /\ file'[At] = file[At] \o Tagged(FlushNew, quiet[At])
      BY <2>0, <3>0, <3>1, <3>4, CleanAppend
    <3>. QED BY <3>2, <3>3, <3>4
  <2>3. CASE BeginCollection
    <3>1. lastTsc' = lastTsc /\ file'[t] = <<>>
      BY <2>3 DEF BeginCollection, readerVars
    <3>2. CleanAt(t)' = {}
      BY <3>1 DEF CleanAt
    <3>. DEFINE S == {high[t]} \cup {file[t][k].tsc : k \in CleanAt(t)}
    <3>3. high'[t] = Max(S)
      BY <2>3, Zenon DEF BeginCollection
    <3>4. \A y \in S : y \in Nat /\ y <= lastTsc[t]
      <4>1. high[t] \in Nat /\ high[t] <= lastTsc[t]
        BY CapacityAssumption DEF Types, Tsc, CleanInv
      <4>2. \A k \in CleanAt(t) : file[t][k].tsc \in Nat /\ file[t][k].tsc <= lastTsc[t]
        BY FileSample DEF CleanInv
      <4>. QED BY <4>1, <4>2
    <3>5. S # {} /\ S \subseteq 0 .. lastTsc[t]
      BY <2>0, <3>4
    <3>6. Max(S) \in S
      <4>. HIDE DEF S
      <4>. QED BY <2>0, <3>5, MaxOf
    <3>7. high'[t] <= lastTsc'[t]
      <4>. HIDE DEF S
      <4>. QED BY <3>1, <3>3, <3>4, <3>6
    <3>. QED BY <3>2, <3>7 DEF CleanInv
  <2>4. CASE ~ PersistBuffer /\ ~ FlushPersist /\ ~ BeginCollection
    <3>1. file' = file /\ high' = high
      BY <1>2, <2>4, Zenon DEF Framework, ActivateProbes, DeactivateProbes, BeginPoll, EndCollection,
         OpenFails, AttachBegin, AttachStore, AttachCheck, VisitAttached, HandOut, CollectDone,
         FlushScan, Account, DetachAll, storeVars, histVars
    <3>. QED BY <2>0, <3>1, CleanKept
  <2>. QED BY <2>1, <2>2, <2>3, <2>4
<1>. QED BY <1>1, <1>2 DEF Next

\* What flush has selected follows what is on file until it is written.
LEMMA PendingStep ==
  ASSUME Types, LoopInv, \A t \in Threads : WindowInv(t), \A t \in Threads : CleanInv(t), PendingInv, Next
  PROVE  PendingInv'
<1>1. ASSUME NEW t \in Threads, Thread(t) PROVE PendingInv'
  <2>1. UNCHANGED <<cpc, quiet, todo, range, high, lastTsc, file>>
    BY <1>1, ThreadFrame DEF collectorUnchanged, readerVars, loopVars, storeVars, histVars
  <2>2. At' = At /\ (cpc = "flush" => At \in Threads)
    BY <2>1, LoopSeq DEF At, InLoop
  <2>3. (cpc = "flush" /\ quiet[At]) => buf'[At] = buf[At]
    BY <1>1, <2>2, ThreadFrame
  <2>4. CleanAt(At)' = CleanAt(At)
    BY <2>1, <2>2 DEF CleanAt
  <2>. QED BY <2>1, <2>2, <2>3, <2>4 DEF PendingInv, TscAt
<1>2. ASSUME Framework PROVE PendingInv'
  <2>1. CASE FlushScan
    <3>1. UNCHANGED <<file, high, buf, todo>>
      BY <2>1, Zenon DEF FlushScan, threadsUnchanged, poolVars, storeVars, histVars, loopVars
    <3>2. /\ At \in Threads /\ windex[At] \in Nat /\ ScanTo \in 0 .. BufLen /\ ScanFrom \in 1 .. ScanTo + 1
          /\ \A k \in ScanFrom .. ScanTo :
               ScanBuf[k].tsc > lastTsc[At] /\ \A j \in 1 .. k - 1 : ScanBuf[j].tsc < ScanBuf[k].tsc
          /\ range' = [limit |-> range.limit, idx |-> windex[At], to |-> ScanTo, from |-> ScanFrom]
          /\ \A k \in 1 .. ScanTo : ScanBuf[k].tsc <= lastTsc'[At]
      BY <2>1, ScanStep
    <3>3. /\ lastTsc[At] \in Nat /\ high[At] \in Nat /\ BufLen \in Nat
          /\ high[At] <= lastTsc[At] /\ \A j \in CleanAt(At) : file[At][j].tsc \in Nat /\ file[At][j].tsc <= lastTsc[At]
      <4>1. \A j \in CleanAt(At) : file[At][j].tsc \in Nat
        BY <3>2, FileSample
      <4>2. lastTsc[At] \in Nat /\ high[At] \in Nat /\ BufLen \in Nat
        BY <3>2, CapacityAssumption, SizeAssumption DEF Types, Tsc
      <4>. QED BY <3>2, <4>1, <4>2 DEF CleanInv
    <3>4. At' = At /\ CleanAt(At)' = CleanAt(At)
      BY <3>1 DEF At, CleanAt
    <3>5. /\ range'.from = ScanFrom /\ range'.to = ScanTo
          /\ \A k : TscAt(At, range.idx, k)' = ScanBuf[k].tsc
      BY <3>1, <3>2, <3>4 DEF TscAt, ScanBuf
    <3>6. ASSUME NEW k \in ScanFrom .. ScanTo
          PROVE  /\ ScanBuf[k].tsc > high[At] /\ ScanBuf[k].tsc <= lastTsc'[At]
                 /\ \A i \in CleanAt(At) : file[At][i].tsc < ScanBuf[k].tsc
                 /\ \A j \in ScanFrom .. k - 1 : ScanBuf[j].tsc < ScanBuf[k].tsc
      <4>1. k \in 1 .. ScanTo /\ k \in 1 .. BufLen /\ \A j \in ScanFrom .. k - 1 : j \in 1 .. k - 1
        BY <3>2, <3>3
      <4>2. ScanBuf[k].tsc \in Nat
        <5>1. Slot(windex[At]) \in Slots
          BY <3>2, SlotType
        <5>. QED BY <3>2, <4>1, <5>1, SlotSample DEF ScanBuf
      <4>. QED BY <3>2, <3>3, <4>1, <4>2
    <3>. QED BY <3>1, <3>4, <3>5, <3>6 DEF PendingInv
  <2>2. CASE ~ FlushScan
    <3>1. cpc' # "flush"
      BY <1>2, <2>2 DEF Framework, ActivateProbes, DeactivateProbes, BeginCollection, BeginPoll, EndCollection,
         OpenFails, AttachBegin, AttachStore, AttachCheck, VisitAttached, HandOut, PersistBuffer, CollectDone,
         FlushPersist, Account, DetachAll, Advance
    <3>. QED BY <3>1 DEF PendingInv
  <2>. QED BY <2>1, <2>2
<1>. QED BY <1>1, <1>2 DEF Next

\* What makes the files sound.
FileInv ==
  /\ Types /\ LoopInv /\ PendingInv
  /\ \A t \in Threads : WindowInv(t)
  /\ \A t \in Threads : CleanInv(t)

\* The types hold initially.
LEMMA TypesInit == Init => Types
<1>. SUFFICES ASSUME Init PROVE Types
  OBVIOUS
<1>. USE SizeAssumption, CapacityAssumption DEF Init
<1>1. buf \in [Threads -> [Slots -> [1 .. BufLen -> Sample]]]
  <2>1. NoSample \in Sample
    BY DEF NoSample, Sample, Tsc
  <2>. QED BY <2>1
<1>2. /\ range \in [limit : Nat, idx : Nat, from : Nat \ {0}, to : 0 .. BufLen]
      /\ list \in Seq(Threads) /\ todo \in Seq(Threads) /\ file \in [Threads -> Seq(Filed)]
  OBVIOUS
<1>3. /\ tsc \in [Threads -> Tsc] /\ lastTsc \in [Threads -> Tsc] /\ high \in [Threads -> Tsc]
      /\ since \in [Threads -> Tsc]
  BY DEF Tsc
<1>4. TypeOK
  BY DEF TypeOK
<1>. QED BY <1>1, <1>2, <1>3, <1>4 DEF Types

\* The files are sound initially.
LEMMA FileInvInit == Init => FileInv
<1>. SUFFICES ASSUME Init PROVE FileInv
  OBVIOUS
<1>1. Types
  BY TypesInit
<1>2. LoopInv /\ PendingInv
  BY DEF Init, LoopInv, InLoop, NoReader, PendingInv
<1>3. ASSUME NEW t \in Threads PROVE WindowInv(t) /\ CleanInv(t)
  <2>. USE DEF Init
  <2>1. CleanInv(t)
    BY DEF CleanInv, CleanAt
  <2>2. IntactInv(t)
    BY DEF IntactInv, NoSample
  <2>3. OrderInv(t)
    BY DEF OrderInv, Valid, InFlight
  <2>4. PlaceInv(t)
    BY SizeAssumption DEF PlaceInv
  <2>. QED BY <2>1, <2>2, <2>3, <2>4 DEF WindowInv
<1>. QED BY <1>1, <1>2, <1>3 DEF FileInv

\* Every step keeps them sound.
LEMMA FileInvStep == ASSUME FileInv, [Next]_vars PROVE FileInv'
<1>1. CASE Next
  <2>1. Counted
    BY DEF FileInv, Counted, WindowInv, PlaceInv
  <2>2. Types'
    BY <1>1, <2>1, ThreadTypes, FrameworkTypes DEF FileInv, Next
  <2>. QED BY <1>1, <2>2, LoopInvStep, WindowStep, CleanStep, PendingStep DEF FileInv
<1>2. CASE UNCHANGED vars
  <2>. USE <1>2 DEF vars, threadVars, poolVars, readerVars, storeVars, loopVars, histVars, FileInv
  <2>1. Types' /\ LoopInv'
    BY DEF Types, TypeOK, LoopInv, At
  <2>2. PendingInv'
    BY DEF PendingInv, TscAt, CleanAt, At
  <2>3. ASSUME NEW t \in Threads PROVE WindowInv(t)' /\ CleanInv(t)'
    <3>1. IntactInv(t)' /\ PlaceInv(t)'
      BY DEF WindowInv, IntactInv, PlaceInv, TscAt
    <3>2. OrderInv(t)'
      BY DEF WindowInv, OrderInv, Valid, TscAt, Before
    <3>3. CleanInv(t)'
      BY DEF CleanInv, CleanAt
    <3>. QED BY <3>1, <3>2, <3>3 DEF WindowInv
  <2>. QED BY <2>1, <2>2, <2>3
<1>. QED BY <1>1, <1>2

\* So they are sound throughout.
LEMMA FileInvHolds == Spec => []FileInv
  BY FileInvInit, FileInvStep, PTL DEF Spec

\* For any threads, pools and probes, the trampoline stores a sample only below
\* samplesBufferEnd, and StorageMgr never counts more than its capacity.
THEOREM CollectionTypes == Spec => []TypeOK
<1>1. FileInv => TypeOK
  BY DEF FileInv, Types
<1>. QED BY <1>1, FileInvHolds, PTL

\* For any threads, pools and probes, the samples that were read from a published
\* buffer, or flushed for a thread outside every probe, are on file intact, in the
\* order of their time stamps, and once, over all collections.
THEOREM FilesInOrder == Spec => []CleanInOrder
<1>1. FileInv => CleanInOrder
  <2>. SUFFICES ASSUME FileInv, NEW t \in Threads, NEW i \in CleanAt(t)
                PROVE  /\ file[t][i].tsc = file[t][i].site /\ file[t][i].tsc > high[t]
                       /\ \A j \in CleanAt(t) : j < i => file[t][j].tsc < file[t][i].tsc
    BY DEF CleanInOrder
  <2>1. CleanInv(t)
    BY DEF FileInv
  <2>2. file[t][i].tsc \in Nat /\ high[t] \in Nat
    <3>1. Types
      BY DEF FileInv
    <3>2. file[t][i].tsc \in Nat
      BY <3>1, FileSample
    <3>. QED BY <3>1, <3>2, CapacityAssumption DEF Types, Tsc
  <2>. QED BY <2>1, <2>2 DEF CleanInv
<1>. QED BY <1>1, FileInvHolds, PTL

-----------------------------------------------------------------------------
(* The chain, and the read index.                                          *)

\* The loop over the chain leaves a buffer behind once.
LEMMA AdvanceTodo ==
  ASSUME Types, LoopInv, ChainInv, cpc \in InLoop, Advance
  PROVE  /\ Distinct(todo') /\ ~ Contains(todo', At)
         /\ \A t \in Threads \ {At} : Contains(todo', t) <=> Contains(todo, t)
<1>1. /\ At = todo[1] /\ Len(todo) \in Nat \ {0} /\ todo' = Tail(todo) /\ Len(todo') = Len(todo) - 1
      /\ \A i \in 1 .. Len(todo) - 1 : todo'[i] = todo[i + 1]
  BY LoopSeq DEF Advance
<1>2. \A i, j \in 1 .. Len(todo) : todo[i] = todo[j] => i = j
  BY DEF ChainInv, Distinct
<1>3. Distinct(todo')
  BY <1>1, <1>2 DEF Distinct
<1>4. ~ Contains(todo', At)
  <2>1. \A i \in 1 .. Len(todo') : todo'[i] # At
    <3>. TAKE i \in 1 .. Len(todo')
    <3>1. i + 1 \in 1 .. Len(todo) /\ 1 \in 1 .. Len(todo) /\ i + 1 # 1 /\ todo'[i] = todo[i + 1]
      BY <1>1
    <3>. QED BY <1>1, <1>2, <3>1
  <2>. QED BY <2>1 DEF Contains
<1>5. ASSUME NEW t \in Threads \ {At} PROVE Contains(todo', t) <=> Contains(todo, t)
  <2>1. ASSUME NEW i \in 1 .. Len(todo'), todo'[i] = t PROVE Contains(todo, t)
    BY <1>1, <2>1 DEF Contains
  <2>2. ASSUME NEW i \in 1 .. Len(todo), todo[i] = t PROVE Contains(todo', t)
    <3>1. i - 1 \in 1 .. Len(todo') /\ i - 1 \in 1 .. Len(todo) - 1 /\ (i - 1) + 1 = i
      BY <1>1, <1>5, <2>2
    <3>2. todo'[i - 1] = t
      BY <1>1, <2>2, <3>1
    <3>. QED BY <3>1, <3>2 DEF Contains
  <2>. QED BY <2>1, <2>2 DEF Contains
<1>. QED BY <1>3, <1>4, <1>5

\* A SamplesBuffer is pushed once, and the loop visits it once.
LEMMA ChainStep ==
  ASSUME Types, LoopInv, ChainInv, Next
  PROVE  ChainInv'
<1>1. ASSUME NEW t \in Threads, Thread(t) PROVE ChainInv'
  <2>0. UNCHANGED <<todo, attached>> /\ \A u \in Threads \ {t} : wpc'[u] = wpc[u]
    BY <1>1, ThreadFrame DEF collectorUnchanged, readerVars, loopVars
  <2>1. CASE Allocate(t)
    <3>1. list \in Seq(Threads) /\ list' = <<t>> \o list /\ wpc[t] = "allocate" /\ wpc'[t] = "load"
      BY <2>1 DEF Allocate, Types, TypeOK
    <3>2. /\ Len(list) \in Nat /\ Len(list') = Len(list) + 1 /\ list'[1] = t
          /\ \A i \in 2 .. Len(list) + 1 : list'[i] = list[i - 1]
      BY <3>1
    <3>3. \A i \in 1 .. Len(list) : list[i] # t
      BY <3>1 DEF ChainInv, Contains
    <3>4. Distinct(list')
      <4>. SUFFICES ASSUME NEW i \in 1 .. Len(list'), NEW j \in 1 .. Len(list'), list'[i] = list'[j] PROVE i = j
        BY DEF Distinct
      <4>1. \A m \in 1 .. Len(list') : m = 1 \/ (m \in 2 .. Len(list) + 1 /\ m - 1 \in 1 .. Len(list))
        BY <3>2
      <4>2. \A m, n \in 1 .. Len(list) : list[m] = list[n] => m = n
        BY DEF ChainInv, Distinct
      <4>3. CASE i = 1 \/ j = 1
        BY <3>2, <3>3, <4>1, <4>3
      <4>4. CASE i # 1 /\ j # 1
        <5>1. list[i - 1] = list[j - 1] /\ i - 1 \in 1 .. Len(list) /\ j - 1 \in 1 .. Len(list)
          BY <3>2, <4>1, <4>4
        <5>. QED BY <4>2, <5>1
      <4>. QED BY <4>3, <4>4
    <3>5. \A u \in Threads : Contains(list, u) => Contains(list', u)
      <4>. SUFFICES ASSUME NEW u \in Threads, NEW i \in 1 .. Len(list), list[i] = u PROVE Contains(list', u)
        BY DEF Contains
      <4>1. i + 1 \in 1 .. Len(list') /\ i + 1 \in 2 .. Len(list) + 1 /\ (i + 1) - 1 = i
        BY <3>2
      <4>. QED BY <3>2, <4>1 DEF Contains
    <3>6. \A u \in Threads \ {t} : Contains(list', u) => Contains(list, u)
      <4>. SUFFICES ASSUME NEW u \in Threads \ {t}, NEW i \in 1 .. Len(list'), list'[i] = u PROVE Contains(list, u)
        BY DEF Contains
      <4>1. i \in 2 .. Len(list) + 1 /\ i - 1 \in 1 .. Len(list)
        BY <3>2
      <4>. QED BY <3>2, <4>1 DEF Contains
    <3>. QED BY <2>0, <3>1, <3>4, <3>5, <3>6 DEF ChainInv
  <2>2. CASE ~ Allocate(t)
    <3>1. list' = list
      BY <1>1, <2>2, Zenon DEF Thread, EnterProbe, Stamp, LoadReadIndex, Publish, Overflow, StoreTsc, StoreSite
    <3>2. wpc'[t] = "allocate" => ~ Contains(list, t)
      BY <1>1, <2>2 DEF Thread, EnterProbe, Stamp, LoadReadIndex, Publish, Overflow, StoreTsc, StoreSite, Types, TypeOK
    <3>. QED BY <2>0, <3>1, <3>2 DEF ChainInv
  <2>. QED BY <2>1, <2>2
<1>2. ASSUME Framework PROVE ChainInv'
  <2>1. UNCHANGED <<list, wpc>>
    BY <1>2, FrameworkFrame DEF threadsUnchanged, threadVars
  <2>2. CASE todo' = todo \/ todo' = list \/ todo' = <<>>
    <3>1. Distinct(todo') /\ \A t \in Threads : Contains(todo', t) => Contains(list, t)
      BY <2>2 DEF ChainInv, Distinct, Contains
    <3>2. \A t \in Threads : attached'[t] => Contains(list, t)
      <4>1. CASE AttachBegin
        <5>1. At \in Threads /\ Contains(todo, At)
          BY <4>1, LoopSeq DEF AttachBegin, InLoop, Contains
        <5>2. \A t \in Threads : attached'[t] => attached[t] \/ t = At
          BY <4>1 DEF AttachBegin, Types, TypeOK
        <5>. QED BY <5>1, <5>2 DEF ChainInv
      <4>2. CASE ~ AttachBegin
        <5>1. attached' = attached \/ attached' = [t \in Threads |-> FALSE]
          BY <1>2, <4>2, Zenon DEF Framework, ActivateProbes, DeactivateProbes, BeginCollection, BeginPoll,
             EndCollection, OpenFails, AttachStore, AttachCheck, VisitAttached, HandOut, PersistBuffer,
             CollectDone, FlushScan, FlushPersist, Account, DetachAll, readerVars
        <5>. QED BY <5>1 DEF ChainInv
      <4>. QED BY <4>1, <4>2
    <3>. QED BY <2>1, <3>1, <3>2 DEF ChainInv
  <2>3. CASE cpc \in InLoop /\ Advance
    <3>1. attached' = attached
      BY <1>2, <2>3 DEF Framework, ActivateProbes, DeactivateProbes, BeginCollection, BeginPoll, EndCollection,
         OpenFails, AttachBegin, AttachStore, AttachCheck, VisitAttached, HandOut, PersistBuffer, CollectDone, FlushScan,
         FlushPersist, Account, DetachAll, readerVars, Advance, InLoop
    <3>2. Distinct(todo') /\ ~ Contains(todo', At) /\ \A t \in Threads \ {At} : Contains(todo', t) <=> Contains(todo, t)
      BY <2>3, AdvanceTodo
    <3>. QED BY <2>1, <3>1, <3>2 DEF ChainInv
  <2>. QED
    <3>1. todo' = todo \/ todo' = list \/ todo' = <<>> \/ (cpc \in InLoop /\ Advance)
      BY <1>2 DEF Framework, ActivateProbes, DeactivateProbes, BeginCollection, BeginPoll, EndCollection,
         OpenFails, AttachBegin, AttachStore, AttachCheck, VisitAttached, HandOut, PersistBuffer, CollectDone, FlushScan,
         FlushPersist, Account, DetachAll, loopVars, InLoop
    <3>. QED BY <2>2, <2>3, <3>1
<1>. QED BY <1>1, <1>2 DEF Next

\* Attaching, reading and publishing keep the read index behind the write index.
LEMMA BehindStep ==
  ASSUME Types, LoopInv, BehindInv, Next
  PROVE  BehindInv'
<1>0. cpc \in InLoop => At \in Threads
  BY LoopSeq
<1>1. ASSUME NEW t \in Threads, Thread(t) PROVE BehindInv'
  <2>1. UNCHANGED <<cpc, rseen, rindex, todo>>
    BY <1>1, ThreadFrame DEF collectorUnchanged, readerVars, loopVars
  <2>2. \A u \in Threads : windex'[u] >= windex[u] /\ windex[u] \in Nat /\ windex'[u] \in Nat
    <3>1. windex \in [Threads -> Nat] /\ windex' \in [Threads -> Nat]
      BY <1>1, ThreadTypes DEF Types
    <3>. QED BY <1>1, <3>1, ThreadFrame
  <2>3. At' = At /\ (cpc = "attach" => At \in Threads) /\ rseen \in Nat
    BY <1>0, <2>1 DEF At, InLoop, Types
  <2>4. \A u \in Threads : rindex[u] # NoReader => rindex[u] \in Nat
    BY DEF Types
  <2>. QED BY <2>1, <2>2, <2>3, <2>4 DEF BehindInv
<1>2. ASSUME Framework PROVE BehindInv'
  <2>1. windex' = windex /\ windex \in [Threads -> Nat] /\ rindex \in [Threads -> Nat \cup {NoReader}] /\ rseen \in Nat
    BY <1>2, FrameworkFrame DEF threadsUnchanged, poolVars, Types
  <2>2. CASE AttachBegin
    BY <2>1, <2>2, <1>0 DEF AttachBegin, BehindInv, At, loopVars, InLoop
  <2>3. CASE AttachStore
    <3>1. At \in Threads /\ rseen <= windex[At] /\ windex[At] \in Nat
      BY <1>0, <2>1, <2>3 DEF AttachStore, InLoop, BehindInv
    <3>2. cpc' = "attachCheck" /\ rindex'[At] = (IF rseen > 0 THEN rseen - 1 ELSE 0)
          /\ \A t \in Threads \ {At} : rindex'[t] = rindex[t]
      BY <2>1, <2>3, <3>1 DEF AttachStore
    <3>3. rindex'[At] = 0 \/ rindex'[At] < windex[At]
      BY <2>1, <3>1, <3>2
    <3>. QED BY <2>1, <3>1, <3>2, <3>3 DEF BehindInv
  <2>4. CASE AttachCheck
    <3>1. cpc' = "attach" => rseen' = windex[At] /\ At' = At /\ At \in Threads
      BY <2>4, <1>0 DEF AttachCheck, At, Advance, InLoop
    <3>2. rindex' = rindex
      BY <2>4, Zenon DEF AttachCheck, readerVars
    <3>. QED BY <2>1, <3>1, <3>2 DEF BehindInv
  <2>5. CASE PersistBuffer
    <3>1. cpc' = "collect" /\ rindex' = [rindex EXCEPT ![At] = @ + 1]
      BY <2>5, Zenon DEF PersistBuffer
    <3>2. At \in Threads /\ windex[At] > rindex[At] + 1
      BY <2>5, ReadStep
    <3>. QED BY <2>1, <3>1, <3>2 DEF BehindInv
  <2>6. CASE ~ AttachBegin /\ ~ AttachStore /\ ~ AttachCheck /\ ~ PersistBuffer
    <3>1. cpc' # "attach" /\ (rindex' = rindex \/ rindex' = [t \in Threads |-> NoReader])
      BY <1>2, <2>6 DEF Framework, ActivateProbes, DeactivateProbes, BeginCollection, BeginPoll, EndCollection,
         OpenFails, VisitAttached, HandOut, CollectDone, FlushScan, FlushPersist, Account, DetachAll, readerVars, Advance
    <3>. QED BY <2>1, <3>1 DEF BehindInv
  <2>. QED BY <2>2, <2>3, <2>4, <2>5, <2>6
<1>. QED BY <1>1, <1>2 DEF Next

-----------------------------------------------------------------------------
(* What is to be on file: NoSilentLoss.                                    *)

\* A step that changes nothing that concerns the samples of a thread.
Same(t) ==
  /\ wpc'[t] = wpc[t] /\ tsc'[t] = tsc[t] /\ pos'[t] = pos[t] /\ buf'[t] = buf[t] /\ windex'[t] = windex[t]
  /\ recorded'[t] = recorded[t] /\ rindex'[t] = rindex[t] /\ lastTsc'[t] = lastTsc[t]
  /\ since'[t] = since[t] /\ file'[t] = file[t]

\* Such a step keeps the places of the samples.
LEMMA SameSamples ==
  ASSUME NEW t \in Threads, Same(t)
  PROVE  /\ \A i, k \in Nat : Valid(t, i, k)' <=> Valid(t, i, k)
         /\ \A i, k \in Nat : TscAt(t, i, k)' = TscAt(t, i, k)
         /\ \A x : OnFile(t, x)' <=> OnFile(t, x)
         /\ \A x : Unread(t, x)' <=> Unread(t, x)
         /\ AllFiled(t)' <=> AllFiled(t)
<1>1. /\ \A i, k \in Nat : Valid(t, i, k)' <=> Valid(t, i, k)
      /\ \A i, k \in Nat : TscAt(t, i, k)' = TscAt(t, i, k)
  BY DEF Same, Valid, TscAt
<1>2. \A x : OnFile(t, x)' <=> OnFile(t, x)
  BY DEF Same, OnFile, Tscs
<1>3. \A x : Unread(t, x)' <=> Unread(t, x)
  BY <1>1 DEF Same, Unread
<1>4. AllFiled(t)' <=> AllFiled(t)
  BY <1>2 DEF Same, AllFiled
<1>. QED BY <1>1, <1>2, <1>3, <1>4

\* It loses nothing.
LEMMA LossSame ==
  ASSUME NEW t \in Threads, LossInv(t), Same(t), Kept(t)' => Kept(t), Flushed(t) => Flushed(t)'
  PROVE  LossInv(t)'
<1>. SUFFICES ASSUME Kept(t)', ~ Flushed(t)'
              PROVE  /\ \A i, k \in Nat : Valid(t, i, k)' /\ i > rindex'[t]
                           => TscAt(t, i, k)' > lastTsc'[t] \/ TscAt(t, i, k)' <= since'[t]
                     /\ wpc'[t] \in InFlight => tsc'[t] > lastTsc'[t] \/ tsc'[t] <= since'[t]
                     /\ \A x \in recorded'[t] : x > since'[t] => OnFile(t, x)' \/ Unread(t, x)'
  BY DEF LossInv, InFlight
<1>1. /\ \A i, k \in Nat : Valid(t, i, k) /\ i > rindex[t]
                           => TscAt(t, i, k) > lastTsc[t] \/ TscAt(t, i, k) <= since[t]
      /\ wpc[t] \in InFlight => tsc[t] > lastTsc[t] \/ tsc[t] <= since[t]
      /\ \A x \in recorded[t] : x > since[t] => OnFile(t, x) \/ Unread(t, x)
  BY DEF LossInv
<1>2. /\ \A i, k \in Nat : Valid(t, i, k)' <=> Valid(t, i, k)
      /\ \A i, k \in Nat : TscAt(t, i, k)' = TscAt(t, i, k)
      /\ \A x : OnFile(t, x)' <=> OnFile(t, x)
      /\ \A x : Unread(t, x)' <=> Unread(t, x)
  BY SameSamples
<1>. QED BY <1>1, <1>2 DEF Same

\* Samples that are recorded are kept by the steps of their thread.
LEMMA LossThread ==
  ASSUME Types, LoopInv, BehindInv, \A t \in Threads : WindowInv(t),
         NEW u \in Threads, Thread(u), NEW t \in Threads, LossInv(t)
  PROVE  LossInv(t)'
<1>0. /\ UNCHANGED <<rindex, lastTsc, since, file, raced, dropped, reported, flushing, todo, cpc, lastOverflow>>
      /\ At' = At
  BY ThreadFrame DEF collectorUnchanged, readerVars, storeVars, loopVars, histVars, At
<1>1. CASE t # u
  <2>1. Same(t) /\ overflow'[t] = overflow[t]
    BY <1>0, <1>1, ThreadFrame DEF Same
  <2>2. (Kept(t)' => Kept(t)) /\ (Flushed(t) => Flushed(t)')
    BY <1>0, <2>1 DEF Kept, Flushed, Same
  <2>. QED BY <2>1, <2>2, LossSame
<1>2. CASE t = u
  <2>. SUFFICES ASSUME Kept(t)', ~ Flushed(t)'
                PROVE  /\ \A i, k \in Nat : Valid(t, i, k)' /\ i > rindex[t]
                             => TscAt(t, i, k)' > lastTsc[t] \/ TscAt(t, i, k)' <= since[t]
                       /\ wpc'[t] \in InFlight => tsc'[t] > lastTsc[t] \/ tsc'[t] <= since[t]
                       /\ \A x \in recorded'[t] : x > since[t] => OnFile(t, x) \/ Unread(t, x)'
    <3>1. \A x : OnFile(t, x)' <=> OnFile(t, x)
      BY <1>0 DEF OnFile
    <3>. QED BY <1>0, <3>1 DEF LossInv, InFlight
  <2>1. ~ Flushed(t)
    BY <1>0 DEF Flushed
  <2>t. /\ rindex[t] \in Nat /\ windex[t] \in Nat /\ lastTsc[t] \in Nat /\ since[t] \in Nat /\ clock \in Nat
        /\ pos[t] \in 0 .. BufLen /\ tsc[t] \in Nat /\ PoolSize \in Nat /\ PoolSize > 1 /\ BufLen \in Nat
        /\ overflow[t] \in Nat /\ lastOverflow[t] \in Nat
    <3>1. rindex[t] # NoReader
      BY <1>0 DEF Kept
    <3>. QED BY <3>1, SizeAssumption, CapacityAssumption DEF Types, TypeOK, Tsc
  <2>w. WindowInv(t) /\ lastTsc[t] <= clock /\ overflow[t] >= lastOverflow[t]
    BY DEF WindowInv, PlaceInv
  <2>2. Kept(t) /\ ~ Overflow(t)
    <3>1. windex'[t] >= windex[t] /\ overflow'[t] >= overflow[t] /\ overflow'[t] \in Nat /\ windex'[t] \in Nat
      BY <1>2, ThreadFrame, ThreadTypes DEF Types
    <3>2. overflow'[t] = lastOverflow[t] /\ windex'[t] <= rindex[t] + PoolSize
      BY <1>0 DEF Kept
    <3>3. overflow'[t] = overflow[t] /\ windex[t] <= rindex[t] + PoolSize
      BY <2>t, <2>w, <3>1, <3>2
    <3>4. Overflow(t) => overflow'[t] = overflow[t] + 1
      BY DEF Overflow, Types
    <3>. QED BY <1>0, <2>t, <3>2, <3>3, <3>4 DEF Kept
  <2>3. /\ \A i, k \in Nat : Valid(t, i, k) /\ i > rindex[t]
                             => TscAt(t, i, k) > lastTsc[t] \/ TscAt(t, i, k) <= since[t]
        /\ wpc[t] \in InFlight => tsc[t] > lastTsc[t] \/ tsc[t] <= since[t]
        /\ \A x \in recorded[t] : x > since[t] => OnFile(t, x) \/ Unread(t, x)
    BY <2>1, <2>2 DEF LossInv
  <2>a. CASE EnterProbe(t) \/ Allocate(t) \/ LoadReadIndex(t) \/ Stamp(t)
    <3>1. UNCHANGED <<pos, buf, windex, recorded>>
      BY <2>a DEF EnterProbe, Allocate, LoadReadIndex, Stamp, poolVars
    <3>2. /\ \A i, k \in Nat : Valid(t, i, k)' <=> Valid(t, i, k)
          /\ \A i, k \in Nat : TscAt(t, i, k)' = TscAt(t, i, k)
      BY <3>1 DEF Valid, TscAt
    <3>3. \A x : Unread(t, x)' <=> Unread(t, x)
      BY <1>0, <3>2 DEF Unread
    <3>4. wpc'[t] \in InFlight => tsc'[t] > lastTsc[t] \/ tsc'[t] <= since[t]
      <4>1. CASE Stamp(t)
        <5>1. tsc'[t] = clock + 1
          BY <4>1 DEF Stamp, Types
        <5>. QED BY <2>t, <2>w, <5>1
      <4>2. CASE ~ Stamp(t)
        <5>1. tsc' = tsc /\ (wpc'[t] \in InFlight => wpc[t] \in InFlight)
          BY <2>a, <4>2 DEF EnterProbe, Allocate, LoadReadIndex, InFlight, Types, TypeOK
        <5>. QED BY <2>3, <5>1
      <4>. QED BY <4>1, <4>2
    <3>. QED BY <2>3, <3>1, <3>2, <3>3, <3>4
  <2>b. CASE Publish(t)
    <3>1. /\ UNCHANGED <<tsc, buf, recorded>> /\ pos'[t] = 0 /\ wpc[t] = "claim" /\ windex'[t] = windex[t] + 1
      BY <2>b DEF Publish, Types, TypeOK
    <3>2. pos[t] = BufLen /\ windex'[t] <= rindex[t] + PoolSize
      BY <1>0, <2>w, <3>1 DEF WindowInv, PlaceInv, Kept
    <3>3. \A i, k \in Nat : i > rindex[t] => (Valid(t, i, k)' <=> Valid(t, i, k))
      BY <2>t, <3>1, <3>2 DEF Valid
    <3>4. \A i, k \in Nat : TscAt(t, i, k)' = TscAt(t, i, k)
      BY <3>1 DEF TscAt
    <3>5. \A x : Unread(t, x)' <=> Unread(t, x)
      BY <1>0, <3>3, <3>4 DEF Unread
    <3>. QED BY <2>3, <3>1, <3>3, <3>4, <3>5 DEF InFlight
  <2>c. CASE StoreTsc(t)
    <3>1. UNCHANGED <<tsc, windex, recorded, pos>> /\ wpc[t] = "record"
      BY <2>c DEF StoreTsc
    <3>2. \A i, k \in Nat : Valid(t, i, k)' <=> Valid(t, i, k)
      BY <3>1 DEF Valid
    <3>3. \A i, k \in Nat : Valid(t, i, k) => TscAt(t, i, k)' = TscAt(t, i, k)
      BY <2>c, ValidUntouched DEF TscAt
    <3>4. \A x : Unread(t, x) => Unread(t, x)'
      BY <1>0, <3>2, <3>3 DEF Unread
    <3>. QED BY <2>3, <3>1, <3>2, <3>3, <3>4 DEF InFlight
  <2>d. CASE StoreSite(t)
    <3>1. /\ windex' = windex /\ wpc[t] = "store" /\ wpc'[t] = "out"
          /\ pos'[t] = pos[t] + 1 /\ recorded'[t] = recorded[t] \cup {tsc[t]}
      BY <2>d DEF StoreSite, Types, TypeOK
    <3>2. pos[t] < BufLen /\ windex[t] >= 1
      BY <2>w, <3>1 DEF Types, TypeOK, WindowInv, PlaceInv
    <3>3. \A i, k \in Nat : Valid(t, i, k)' <=> Valid(t, i, k) \/ (i = windex[t] /\ k = pos[t] + 1)
      BY <2>t, <3>1, <3>2 DEF Valid
    <3>4. \A i, k \in Nat : Valid(t, i, k) => TscAt(t, i, k)' = TscAt(t, i, k)
      BY <2>d, ValidUntouched DEF TscAt
    <3>5. buf'[t][Slot(windex[t])][pos[t] + 1].tsc = tsc[t]
      <4>1. TscAt(t, windex[t], pos[t] + 1) = tsc[t]
        BY <2>w, <3>1 DEF WindowInv, PlaceInv
      <4>2. buf'[t][Slot(windex[t])][pos[t] + 1].tsc = buf[t][Slot(windex[t])][pos[t] + 1].tsc
        BY <2>d, StoreEffect
      <4>. QED BY <4>1, <4>2 DEF TscAt
    <3>6. tsc[t] > lastTsc[t] \/ tsc[t] <= since[t]
      BY <2>3, <3>1 DEF InFlight
    <3>7. \A i, k \in Nat : Valid(t, i, k)' /\ i > rindex[t]
                             => TscAt(t, i, k)' > lastTsc[t] \/ TscAt(t, i, k)' <= since[t]
      BY <2>3, <3>3, <3>4, <3>5, <3>6 DEF TscAt
    <3>8. \A x : Unread(t, x) => Unread(t, x)'
      BY <1>0, <3>3, <3>4 DEF Unread
    <3>9. ASSUME NEW x, x = tsc[t] PROVE Unread(t, x)'
      <4>1. windex[t] > rindex[t]
        BY <2>t, <3>2 DEF BehindInv, NoReader
      <4>2. \E i, k \in Nat : Valid(t, i, k)' /\ i > rindex[t] /\ TscAt(t, i, k)' = x
        <5>1. windex[t] \in Nat /\ pos[t] + 1 \in Nat
          BY <2>t
        <5>. QED BY <3>3, <3>5, <3>9, <4>1, <5>1 DEF TscAt
      <4>. QED BY <1>0, <4>2 DEF Unread
    <3>. QED BY <2>3, <3>1, <3>7, <3>8, <3>9 DEF InFlight
  <2>. QED BY <1>2, <2>2, <2>a, <2>b, <2>c, <2>d DEF Thread
<1>. QED BY <1>1, <1>2

\* What a step of the framework thread leaves alone: everything of the threads but
\* the one that the loop is at.
LEMMA Untouched ==
  ASSUME Types, LoopInv, Framework, NEW t \in Threads, ~ BeginCollection, ~ DetachAll, ~ (OpenFails /\ starting),
         t = At => cpc \notin {"attach", "reading", "peek", "flush", "account"}
  PROVE  /\ Same(t) /\ overflow'[t] = overflow[t] /\ lastOverflow'[t] = lastOverflow[t]
         /\ reported'[t] = reported[t] /\ raced'[t] = raced[t] /\ (dropped => dropped')
<1>1. UNCHANGED <<wpc, tsc, pos, buf, windex, recorded, overflow>>
  BY FrameworkFrame DEF threadsUnchanged, threadVars, poolVars
<1>. USE DEF readerVars, storeVars, loopVars, histVars
<1>0. cpc \in InLoop => At \in Threads
  BY LoopSeq
<1>2. CASE PersistBuffer
  <2>1. At \in Threads /\ t # At /\ ReadNew \in Seq(Sample) /\ Persist(At, ReadNew, ~ Racing)
        /\ lastTsc'[t] = lastTsc[t]
    <3>1. cpc = "reading"
      BY <1>2 DEF PersistBuffer
    <3>. QED BY <1>2, <3>1, ReadStep
  <2>2. (~ Racing) \in BOOLEAN
    BY Zenon
  <2>3. file'[t] = file[t] /\ (dropped => dropped')
    BY <2>1, <2>2, PersistEffect
  <2>4. /\ rindex' = [rindex EXCEPT ![At] = @ + 1] /\ raced' = [raced EXCEPT ![At] = @ \/ Racing]
        /\ UNCHANGED <<lastOverflow, since, reported>>
    BY <1>2, Zenon DEF PersistBuffer
  <2>5. rindex'[t] = rindex[t] /\ raced'[t] = raced[t]
    BY <2>1, <2>4 DEF Types
  <2>. QED BY <1>1, <2>1, <2>3, <2>4, <2>5 DEF Same
<1>3. CASE FlushPersist
  <2>1. At \in Threads /\ t # At /\ FlushNew \in Seq(Sample) /\ Persist(At, FlushNew, quiet[At]) /\ quiet[At] \in BOOLEAN
    <3>1. cpc = "flush"
      BY <1>3 DEF FlushPersist
    <3>. QED BY <1>3, <3>1, FlushStep
  <2>2. file'[t] = file[t] /\ (dropped => dropped')
    BY <2>1, PersistEffect
  <2>3. UNCHANGED <<rindex, lastTsc, lastOverflow, since, raced, reported>>
    BY <1>3, Zenon DEF FlushPersist
  <2>. QED BY <1>1, <2>2, <2>3 DEF Same
<1>4. CASE FlushScan
  <2>1. t # At /\ lastTsc'[t] = lastTsc[t]
    <3>1. cpc = "peek"
      BY <1>4 DEF FlushScan
    <3>. QED BY <1>4, <3>1, ScanStep
  <2>2. UNCHANGED <<rindex, lastOverflow, file, dropped, since, raced, reported>>
    BY <1>4, Zenon DEF FlushScan
  <2>. QED BY <1>1, <2>1, <2>2 DEF Same
<1>5. CASE Account
  <2>1. t # At /\ At \in Threads
    BY <1>0, <1>5 DEF Account, InLoop
  <2>2. lastOverflow'[t] = lastOverflow[t] /\ reported'[t] = reported[t]
    BY <1>5, <2>1 DEF Account, Types
  <2>3. UNCHANGED <<rindex, lastTsc, file, dropped, since, raced>>
    BY <1>5, Zenon DEF Account
  <2>. QED BY <1>1, <2>2, <2>3 DEF Same
<1>6. CASE AttachStore
  <2>1. t # At /\ At \in Threads
    BY <1>0, <1>6 DEF AttachStore, InLoop
  <2>2. rindex'[t] = rindex[t] /\ since'[t] = since[t] /\ raced'[t] = raced[t]
    BY <1>6, <2>1 DEF AttachStore, Types
  <2>3. UNCHANGED <<lastTsc, file, dropped, lastOverflow, reported>>
    BY <1>6, Zenon DEF AttachStore
  <2>. QED BY <1>1, <2>2, <2>3 DEF Same
<1>7. CASE ~ PersistBuffer /\ ~ FlushPersist /\ ~ FlushScan /\ ~ Account /\ ~ AttachStore
  <2>1. UNCHANGED <<rindex, lastTsc, since, file, lastOverflow, reported, raced, dropped>>
    BY <1>7, Zenon DEF Framework, ActivateProbes, DeactivateProbes, BeginPoll, EndCollection, OpenFails, AttachBegin,
       AttachCheck, VisitAttached, HandOut, CollectDone
  <2>. QED BY <1>1, <2>1 DEF Same
<1>. QED BY <1>2, <1>3, <1>4, <1>5, <1>6, <1>7

\* A thread that the flush has scanned stays so until the detach.
LEMMA FlushedStays ==
  ASSUME Types, LoopInv, ChainInv, Framework, NEW t \in Threads, ~ DetachAll, Flushed(t)
  PROVE  Flushed(t)'
<1>. USE DEF loopVars
<1>0. flushing /\ ~ starting /\ cpc \notin {"off", "idle"} /\ (cpc \in InLoop => Contains(todo, At))
  BY LoopSeq DEF Flushed, LoopInv, Contains
<1>1. CASE cpc \in InLoop /\ Advance
  <2>1. flushing' = flushing
    BY <1>0, <1>1 DEF Framework, ActivateProbes, DeactivateProbes, BeginCollection, BeginPoll, EndCollection,
       OpenFails, AttachBegin, AttachStore, AttachCheck, VisitAttached, HandOut, PersistBuffer, CollectDone, FlushScan,
       FlushPersist, Account
  <2>2. ~ Contains(todo', At) /\ \A u \in Threads \ {At} : Contains(todo', u) <=> Contains(todo, u)
    BY <1>1, AdvanceTodo
  <2>. QED BY <1>0, <2>1, <2>2 DEF Flushed
<1>2. CASE ~ (cpc \in InLoop /\ Advance)
  <2>1. /\ todo' = todo /\ flushing' = flushing
        /\ cpc \in {"flush", "account"} => cpc' \in {"flush", "account"}
    BY <1>0, <1>2 DEF Framework, ActivateProbes, DeactivateProbes, BeginCollection, BeginPoll, EndCollection,
       OpenFails, AttachBegin, AttachStore, AttachCheck, VisitAttached, HandOut, PersistBuffer, CollectDone, FlushScan,
       FlushPersist, Account, InLoop
  <2>2. At' = At
    BY <2>1 DEF At
  <2>. QED BY <2>1, <2>2 DEF Flushed
<1>. QED BY <1>1, <1>2

\* What is on file stays, and what persistSamples does not refuse gets there.
LEMMA PersistFiles ==
  ASSUME Types, NEW t \in Threads, NEW q \in Seq(Sample), NEW c \in BOOLEAN, Persist(t, q, c), ~ dropped'
  PROVE  /\ \A x : x \in Tscs(file[t]) => x \in Tscs(file'[t])
         /\ \A i \in 1 .. Len(q) : q[i].tsc \in Tscs(file'[t])
<1>1. file'[t] = file[t] \o Tagged(q, c) \/ (file' = file /\ q = <<>>)
  BY PersistEffect
<1>2. CASE file' = file /\ q = <<>>
  BY <1>2
<1>3. CASE file'[t] = file[t] \o Tagged(q, c)
  <2>. DEFINE f == file[t]
              g == file'[t]
  <2>1. f \in Seq(Filed) /\ Len(f) \in Nat /\ Len(q) \in Nat /\ g = Appended(f, q, c)
    BY <1>3 DEF Types, Appended
  <2>. HIDE DEF f, g
  <2>2. /\ g \in Seq(Filed) /\ Len(g) = Len(f) + Len(q)
        /\ \A k \in 1 .. Len(f) : g[k] = f[k]
        /\ \A k \in 1 .. Len(q) : g[Len(f) + k].tsc = q[k].tsc
    <3>1. Appended(f, q, c) \in Seq(Filed) /\ Len(Appended(f, q, c)) = Len(f) + Len(q)
      BY <2>1, AppendedFile
    <3>2. \A k \in 1 .. Len(f) : Appended(f, q, c)[k] = f[k]
      BY <2>1, AppendedFile
    <3>3. \A k \in 1 .. Len(q) : Appended(f, q, c)[Len(f) + k].tsc = q[k].tsc
      BY <2>1, AppendedFile
    <3>. QED BY <2>1, <3>1, <3>2, <3>3, Zenon
  <2>4. DOMAIN g = 1 .. Len(f) + Len(q) /\ DOMAIN f = 1 .. Len(f)
    BY <2>1, <2>2
  <2>5. \A i \in 1 .. Len(f) : i \in DOMAIN g /\ g[i] = f[i]
    BY <2>1, <2>2, <2>4
  <2>6. \A i \in 1 .. Len(q) : Len(f) + i \in DOMAIN g
    BY <2>1, <2>4
  <2>7. \A x : x \in Tscs(f) => x \in Tscs(g)
    BY <2>4, <2>5 DEF Tscs
  <2>8. \A i \in 1 .. Len(q) : q[i].tsc \in Tscs(g)
    BY <2>2, <2>6 DEF Tscs
  <2>. QED BY <2>7, <2>8 DEF f, g
<1>. QED BY <1>1, <1>2, <1>3

\* The samples of a buffer that the writer does not reuse are complete and in order.
LEMMA ReadOrder ==
  ASSUME Types, LoopInv, \A t \in Threads : WindowInv(t), PersistBuffer, ~ Racing
  PROVE  /\ \A k \in 1 .. BufLen : Valid(At, rindex[At] + 1, k) /\ ReadBuf[k].tsc = TscAt(At, rindex[At] + 1, k)
         /\ \A j, k \in 1 .. BufLen : j < k => ReadBuf[j].tsc < ReadBuf[k].tsc
<1>1. /\ At \in Threads /\ rindex[At] \in Nat /\ windex[At] \in Nat /\ windex[At] > rindex[At] + 1
      /\ windex[At] <= rindex[At] + PoolSize /\ rindex[At] + 1 \in Nat /\ BufLen \in Nat
  BY ReadStep, SizeAssumption DEF Racing
<1>2. \A k \in 1 .. BufLen : Valid(At, rindex[At] + 1, k) /\ ReadBuf[k].tsc = TscAt(At, rindex[At] + 1, k)
  BY <1>1, SizeAssumption DEF Valid, TscAt, ReadBuf
<1>3. \A j, k \in 1 .. BufLen : j \in Nat /\ k \in Nat /\ (j < k => Before(rindex[At] + 1, j, rindex[At] + 1, k))
  BY <1>1 DEF Before
<1>4. OrderInv(At)
  BY <1>1 DEF WindowInv
<1>. QED BY <1>1, <1>2, <1>3, <1>4 DEF OrderInv

\* collectSamples loses nothing of the buffer that it gives back.
LEMMA LossRead ==
  ASSUME Types, LoopInv, ChainInv, \A t \in Threads : WindowInv(t), LossInv(At), PersistBuffer,
         NEW t \in Threads, t = At
  PROVE  LossInv(t)'
<1>1. /\ At \in Threads /\ rindex[At] \in Nat /\ windex[At] \in Nat /\ windex[At] > rindex[At] + 1
      /\ ReadBuf \in Seq(Sample) /\ Len(ReadBuf) = BufLen /\ ReadFrom \in 1 .. BufLen + 1
      /\ ReadNew \in Seq(Sample) /\ Len(ReadNew) = BufLen + 1 - ReadFrom
      /\ \A i \in 1 .. Len(ReadNew) : ReadNew[i] = ReadBuf[ReadFrom + i - 1]
      /\ Persist(At, ReadNew, ~ Racing)
      /\ lastTsc'[At] \in Tsc /\ lastTsc'[At] >= lastTsc[At]
      /\ lastTsc'[At] = lastTsc[At] \/ \E k \in 1 .. BufLen : lastTsc'[At] = ReadBuf[k].tsc
  BY ReadStep
<1>2. /\ cpc = "reading" /\ rindex' = [rindex EXCEPT ![At] = @ + 1] /\ raced' = [raced EXCEPT ![At] = @ \/ Racing]
      /\ UNCHANGED <<lastOverflow, since, reported, flushing, todo>> /\ threadsUnchanged
  BY Zenon DEF PersistBuffer, loopVars
<1>3. UNCHANGED <<wpc, tsc, pos, buf, windex, overflow, recorded>> /\ At' = At
  BY <1>2 DEF threadsUnchanged, threadVars, poolVars, At
<1>4. rindex'[At] = rindex[At] + 1 /\ (~ raced'[At] => ~ raced[At] /\ ~ Racing)
  BY <1>1, <1>2 DEF Types
<1>t. /\ lastTsc[At] \in Tsc /\ lastTsc[At] \in Nat /\ lastTsc'[At] \in Nat /\ since[At] \in Nat /\ tsc[At] \in Nat
      /\ BufLen \in Nat /\ MaxTsc \in Nat
  <2>1. lastTsc[At] \in Tsc /\ since[At] \in Tsc /\ tsc[At] \in Tsc
    BY <1>1 DEF Types
  <2>2. Tsc \subseteq Nat
    BY CapacityAssumption DEF Tsc
  <2>. QED BY <1>1, <2>1, <2>2, CapacityAssumption, SizeAssumption
<1>. SUFFICES ASSUME Kept(t)', ~ Flushed(t)'
              PROVE  /\ \A i, k \in Nat : Valid(At, i, k) /\ i > rindex[At] + 1
                           => TscAt(At, i, k) > lastTsc'[At] \/ TscAt(At, i, k) <= since[At]
                     /\ wpc[At] \in InFlight => tsc[At] > lastTsc'[At] \/ tsc[At] <= since[At]
                     /\ \A x \in recorded[At] : x > since[At] =>
                          \/ x \in Tscs(file'[At])
                          \/ \E i, k \in Nat : Valid(At, i, k) /\ i > rindex[At] + 1 /\ TscAt(At, i, k) = x
  <2>1. /\ \A i, k \in Nat : Valid(t, i, k)' <=> Valid(At, i, k)
        /\ \A i, k \in Nat : TscAt(t, i, k)' = TscAt(At, i, k)
        /\ rindex'[t] = rindex[At] + 1
    BY <1>3, <1>4 DEF Valid, TscAt
  <2>. QED BY <1>2, <1>3, <1>4, <2>1 DEF LossInv, InFlight, OnFile, Unread
<1>5. ~ Racing /\ ~ raced[At] /\ ~ dropped' /\ ~ dropped /\ Kept(At) /\ ~ Flushed(At)
  <2>1. ~ raced'[At] /\ ~ dropped'
    BY <1>3 DEF Kept
  <2>2. ~ Racing /\ ~ raced[At] /\ ~ dropped
    <3>1. (~ Racing) \in BOOLEAN
      BY Zenon
    <3>2. dropped => dropped'
      BY <1>1, <3>1, PersistEffect
    <3>. QED BY <1>4, <2>1, <3>2
  <2>3. Kept(At)
    <3>1. windex[At] <= rindex[At] + PoolSize
      BY <1>1, <2>2, SizeAssumption DEF Racing
    <3>. QED BY <1>1, <1>2, <1>3, <2>2, <3>1 DEF Kept, NoReader
  <2>4. ~ Flushed(At)
    BY <1>2, LoopSeq DEF Flushed, Contains, InLoop
  <2>. QED BY <2>1, <2>2, <2>3, <2>4
<1>6. /\ \A i, k \in Nat : Valid(At, i, k) /\ i > rindex[At]
                           => TscAt(At, i, k) > lastTsc[At] \/ TscAt(At, i, k) <= since[At]
      /\ wpc[At] \in InFlight => tsc[At] > lastTsc[At] \/ tsc[At] <= since[At]
      /\ \A x \in recorded[At] : x > since[At] => OnFile(At, x) \/ Unread(At, x)
  BY <1>5 DEF LossInv
<1>7. /\ \A k \in 1 .. BufLen : Valid(At, rindex[At] + 1, k) /\ ReadBuf[k].tsc = TscAt(At, rindex[At] + 1, k)
      /\ \A j, k \in 1 .. BufLen : j < k => ReadBuf[j].tsc < ReadBuf[k].tsc
  BY <1>5, ReadOrder
<1>8. OrderInv(At) /\ rindex[At] + 1 \in Nat
  BY <1>1 DEF WindowInv
<1>9. \A i, k \in Nat : Valid(At, i, k) /\ i > rindex[At] + 1
                          => TscAt(At, i, k) > lastTsc'[At] \/ TscAt(At, i, k) <= since[At]
  <2>. SUFFICES ASSUME NEW i \in Nat, NEW k \in Nat, Valid(At, i, k), i > rindex[At] + 1
                PROVE  TscAt(At, i, k) > lastTsc'[At] \/ TscAt(At, i, k) <= since[At]
    OBVIOUS
  <2>1. \A m \in 1 .. BufLen : TscAt(At, i, k) > ReadBuf[m].tsc
    <3>1. \A m \in 1 .. BufLen : m \in Nat /\ Before(rindex[At] + 1, m, i, k)
      BY <1>t DEF Before
    <3>2. \A m \in 1 .. BufLen : TscAt(At, rindex[At] + 1, m) < TscAt(At, i, k)
      BY <1>7, <1>8, <3>1 DEF OrderInv
    <3>3. \A m \in 1 .. BufLen : TscAt(At, rindex[At] + 1, m) \in Nat /\ TscAt(At, i, k) \in Nat
      BY <1>1, <1>8, TscAtType DEF Valid
    <3>. QED BY <1>7, <3>2, <3>3
  <2>2. TscAt(At, i, k) > lastTsc[At] \/ TscAt(At, i, k) <= since[At]
    BY <1>1, <1>6
  <2>. QED BY <1>1, <2>1, <2>2
<1>10. wpc[At] \in InFlight => tsc[At] > lastTsc'[At] \/ tsc[At] <= since[At]
  <2>1. wpc[At] \in InFlight => \A m \in 1 .. BufLen : ReadBuf[m].tsc < tsc[At]
    <3>1. \A m \in 1 .. BufLen : m \in Nat
      BY <1>t
    <3>. QED BY <1>7, <1>8, <3>1 DEF OrderInv
  <2>2. \A m \in 1 .. BufLen : ReadBuf[m].tsc \in Nat
    <3>. TAKE m \in 1 .. BufLen
    <3>1. TscAt(At, rindex[At] + 1, m) \in Nat
      BY <1>1, <1>8, TscAtType
    <3>2. ReadBuf[m].tsc = TscAt(At, rindex[At] + 1, m)
      BY <1>7
    <3>. QED BY <3>1, <3>2
  <2>. QED BY <1>1, <1>6, <1>t, <2>1, <2>2
<1>11. ASSUME NEW x \in recorded[At], x > since[At]
       PROVE  \/ x \in Tscs(file'[At])
              \/ \E i, k \in Nat : Valid(At, i, k) /\ i > rindex[At] + 1 /\ TscAt(At, i, k) = x
  <2>0. /\ \A y : y \in Tscs(file[At]) => y \in Tscs(file'[At])
        /\ \A i \in 1 .. Len(ReadNew) : ReadNew[i].tsc \in Tscs(file'[At])
    <3>1. (~ Racing) \in BOOLEAN
      BY Zenon
    <3>. QED BY <1>1, <1>5, <3>1, PersistFiles
  <2>1. CASE OnFile(At, x)
    BY <2>0, <2>1 DEF OnFile
  <2>2. CASE Unread(At, x)
    <3>1. PICK i \in Nat, k \in Nat : Valid(At, i, k) /\ i > rindex[At] /\ TscAt(At, i, k) = x
      BY <2>2 DEF Unread
    <3>2. CASE i > rindex[At] + 1
      BY <3>1, <3>2
    <3>3. CASE i = rindex[At] + 1
      <4>1. k \in 1 .. BufLen /\ ReadBuf[k].tsc = x /\ x \in Nat
        BY <1>1, <1>7, <1>8, <3>1, <3>3, TscAtType DEF Valid
      <4>2. ReadBuf[k].tsc > lastTsc[At]
        <5>1. x > lastTsc[At] \/ x <= since[At]
          BY <1>6, <3>1
        <5>. QED BY <1>11, <1>t, <4>1, <5>1
      <4>3. ReadFrom <= k
        BY <1>1, <1>7, <1>t, <4>1, <4>2, FreshSelected DEF ReadFrom
      <4>4. k - ReadFrom + 1 \in 1 .. Len(ReadNew) /\ ReadFrom + (k - ReadFrom + 1) - 1 = k
        BY <1>1, <1>t, <4>1, <4>3
      <4>5. ReadNew[k - ReadFrom + 1] = ReadBuf[k]
        BY <1>1, <4>4
      <4>. QED BY <2>0, <4>1, <4>4, <4>5
    <3>. QED BY <1>1, <3>1, <3>2, <3>3
  <2>. QED BY <1>6, <1>11, <2>1, <2>2
<1>. QED BY <1>9, <1>10, <1>11

\* A reader that attaches owes nothing yet.
LEMMA LossAttach ==
  ASSUME Types, LoopInv, \A t \in Threads : WindowInv(t), AttachStore, NEW t \in Threads, t = At
  PROVE  LossInv(t)'
<1>2. UNCHANGED <<wpc, tsc, pos, buf, windex, recorded, clock>> /\ since'[t] = clock /\ clock \in Nat
  BY CapacityAssumption DEF AttachStore, threadsUnchanged, threadVars, poolVars, Types, TypeOK
<1>3. \A i, k \in Nat : Valid(t, i, k) => TscAt(t, i, k) <= clock
  <2>1. \A i, k \in Nat : Valid(t, i, k) => Slot(i) \in Slots /\ k \in 1 .. BufLen
    BY SlotType DEF Valid
  <2>. QED BY <2>1 DEF WindowInv, IntactInv, TscAt
<1>4. wpc[t] \in InFlight => tsc[t] <= clock
  BY <1>2 DEF WindowInv, OrderInv
<1>5. \A x \in recorded[t] : ~ (x > clock)
  BY <1>2 DEF WindowInv, PlaceInv
<1>6. /\ \A i, k \in Nat : Valid(t, i, k)' <=> Valid(t, i, k)
      /\ \A i, k \in Nat : TscAt(t, i, k)' = TscAt(t, i, k)
  BY <1>2 DEF Valid, TscAt
<1>. QED BY <1>2, <1>3, <1>4, <1>5, <1>6 DEF LossInv, InFlight

\* No step loses a sample of a thread that keeps within its pool.
LEMMA LossStep ==
  ASSUME Types, LoopInv, ChainInv, BehindInv, \A t \in Threads : WindowInv(t), \A t \in Threads : LossInv(t), Next
  PROVE  \A t \in Threads : LossInv(t)'
<1>1. ASSUME NEW u \in Threads, Thread(u), NEW t \in Threads PROVE LossInv(t)'
  BY <1>1, LossThread
<1>2. ASSUME Framework, NEW t \in Threads PROVE LossInv(t)'
  <2>1. CASE BeginCollection \/ DetachAll \/ (OpenFails /\ starting)
    <3>1. rindex'[t] = NoReader
      <4>1. BeginCollection => rindex' = rindex /\ rindex[t] = NoReader
        BY DEF BeginCollection, readerVars, LoopInv
      <4>2. DetachAll \/ (OpenFails /\ starting) => rindex' = [u \in Threads |-> NoReader]
        BY Zenon DEF DetachAll, OpenFails
      <4>. QED BY <2>1, <4>1, <4>2
    <3>. QED BY <3>1 DEF LossInv, Kept
  <2>2. CASE AttachStore /\ t = At
    BY <2>2, LossAttach
  <2>3. CASE PersistBuffer /\ t = At
    BY <2>3, LossRead
  <2>4. CASE (FlushScan \/ FlushPersist) /\ t = At
    <3>1. cpc \in {"peek", "flush"} /\ cpc' \in {"flush", "account"} /\ UNCHANGED <<todo, flushing>>
      BY <2>4 DEF FlushScan, FlushPersist, loopVars
    <3>2. Flushed(t)'
      BY <2>4, <3>1 DEF Flushed, LoopInv, At
    <3>. QED BY <3>2 DEF LossInv
  <2>5. CASE Account /\ t = At
    <3>1. Same(t) /\ UNCHANGED <<raced, dropped>>
      BY <2>5, Zenon DEF Account, Same, threadsUnchanged, threadVars, poolVars, storeVars
    <3>2. /\ reported'[t] = reported[t] + overflow[t] - lastOverflow[t] /\ overflow[t] >= lastOverflow[t]
          /\ reported[t] \in Nat /\ overflow[t] \in Nat /\ lastOverflow[t] \in Nat
      BY <2>5 DEF Account, Types, WindowInv, PlaceInv
    <3>3. Kept(t)' => Kept(t)
      <4>1. reported'[t] = 0 => reported[t] = 0 /\ overflow[t] = lastOverflow[t]
        <5>1. \A a, b, c \in Nat : b >= c /\ a + b - c = 0 => a = 0 /\ b = c
          OBVIOUS
        <5>. QED BY <3>2, <5>1
      <4>. QED BY <3>1, <4>1 DEF Kept, Same
    <3>4. ~ DetachAll
      BY <2>5 DEF Account, DetachAll
    <3>. QED BY <1>2, <3>1, <3>3, <3>4, FlushedStays, LossSame
  <2>6. CASE /\ ~ (BeginCollection \/ DetachAll \/ (OpenFails /\ starting))
             /\ t = At => ~ (AttachStore \/ PersistBuffer \/ FlushScan \/ FlushPersist \/ Account \/ AttachStore)
    <3>1. t = At => cpc \notin {"attach", "reading", "peek", "flush", "account"}
      BY <1>2, <2>6 DEF Framework, ActivateProbes, DeactivateProbes, BeginPoll, EndCollection,
         OpenFails, AttachBegin, AttachCheck, VisitAttached, HandOut, CollectDone
    <3>2. /\ Same(t) /\ overflow'[t] = overflow[t] /\ lastOverflow'[t] = lastOverflow[t]
          /\ reported'[t] = reported[t] /\ raced'[t] = raced[t] /\ (dropped => dropped')
      BY <1>2, <2>6, <3>1, Untouched
    <3>3. Kept(t)' => Kept(t)
      BY <3>2 DEF Kept, Same
    <3>. QED BY <1>2, <2>6, <3>2, <3>3, FlushedStays, LossSame
  <2>. QED BY <2>1, <2>2, <2>3, <2>4, <2>5, <2>6
<1>. QED BY <1>1, <1>2 DEF Next

\* The last buffer of a thread that collectSamples has caught up with is all in the
\* past when flush reads the time stamp counter.
LEMMA FlushBegun ==
  ASSUME Types, LoopInv, \A t \in Threads : WindowInv(t), CollectDone, NEW t \in Threads
  PROVE  FlushInv(t)'
<1>0. /\ cpc = "collect" /\ ~ (windex[At] > rindex[At] + 1) /\ cpc' = IF flushing THEN "peek" ELSE "account"
      /\ range' = IF flushing THEN [range EXCEPT !.limit = clock + 1] ELSE range
      /\ UNCHANGED <<rindex, flushing, todo, buf, windex, pos>>
  BY DEF CollectDone, readerVars, loopVars, threadsUnchanged, poolVars, threadVars
<1>. SUFFICES ASSUME t = At', flushing'
              PROVE  /\ windex'[t] <= rindex'[t] + 1
                     /\ \A k \in Nat : Valid(t, windex[t], k)' => TscAt(t, windex[t], k)' < range'.limit
                     /\ cpc' = "peek"
  BY <1>0 DEF FlushInv
<1>1. t = At /\ flushing /\ windex[t] \in Nat /\ rindex[t] \in Int /\ clock \in Nat
  <2>1. t = At /\ flushing
    BY <1>0 DEF At
  <2>2. windex \in [Threads -> Nat] /\ rindex \in [Threads -> Nat \cup {NoReader}] /\ clock \in 0 .. MaxTsc
    BY DEF Types, TypeOK
  <2>. QED BY <2>1, <2>2, CapacityAssumption DEF NoReader
<1>2. range'.limit = clock + 1
  BY <1>0, <1>1 DEF Types
<1>3. ASSUME NEW k \in Nat, Valid(t, windex[t], k) PROVE TscAt(t, windex[t], k) < clock + 1
  <2>1. Slot(windex[t]) \in Slots /\ k \in 1 .. BufLen
    BY <1>1, <1>3, SlotType DEF Valid
  <2>2. TscAt(t, windex[t], k) <= clock
    BY <2>1 DEF WindowInv, IntactInv, TscAt
  <2>3. TscAt(t, windex[t], k) \in Nat
    BY <1>1, <2>1, TscAtType
  <2>. QED BY <1>1, <2>2, <2>3
<1>4. \A k \in Nat : (Valid(t, windex[t], k)' <=> Valid(t, windex[t], k)) /\ TscAt(t, windex[t], k)' = TscAt(t, windex[t], k)
  BY <1>0 DEF Valid, TscAt
<1>. QED BY <1>0, <1>1, <1>2, <1>3, <1>4

\* The scan of flush selects every sample of the thread that is not on file.
LEMMA FlushSelects ==
  ASSUME Types, LoopInv, BehindInv, \A t \in Threads : WindowInv(t), FlushScan,
         quiet[At], LossInv(At), FlushInv(At), Kept(At), NEW x \in recorded[At], x > since[At], ~ OnFile(At, x)
  PROVE  \E k \in ScanFrom .. ScanTo : TscAt(At, windex[At], k) = x
<1>1. /\ At \in Threads /\ windex[At] \in Nat /\ range.limit \in Nat
      /\ ScanBuf \in Seq(Sample) /\ Len(ScanBuf) = BufLen /\ ScanTo \in 0 .. BufLen /\ ScanFrom \in 1 .. ScanTo + 1
  BY ScanStep
<1>2. cpc = "peek" /\ flushing /\ Contains(todo, At) /\ cpc \in InLoop
  BY LoopSeq DEF FlushScan, LoopInv, InLoop, Contains
<1>3. /\ windex[At] <= rindex[At] + 1
      /\ \A k \in Nat : Valid(At, windex[At], k) => TscAt(At, windex[At], k) < range.limit
  BY <1>2 DEF FlushInv
<1>4. /\ \A i, k \in Nat : Valid(At, i, k) /\ i > rindex[At]
                           => TscAt(At, i, k) > lastTsc[At] \/ TscAt(At, i, k) <= since[At]
      /\ Unread(At, x)
  BY <1>2 DEF LossInv, Flushed
<1>5. PICK i \in Nat, k \in Nat : Valid(At, i, k) /\ i > rindex[At] /\ TscAt(At, i, k) = x
  BY <1>4 DEF Unread
<1>t. /\ rindex[At] \in Nat /\ pos[At] \in 0 .. BufLen /\ BufLen \in Nat /\ x \in Nat /\ since[At] \in Nat
      /\ lastTsc[At] \in Tsc /\ lastTsc[At] \in Nat
  <2>1. rindex[At] \in Nat /\ pos[At] \in 0 .. BufLen
    BY <1>1 DEF Kept, Types, TypeOK
  <2>2. since[At] \in Tsc /\ recorded[At] \subseteq Tsc /\ lastTsc[At] \in Tsc
    BY <1>1 DEF Types
  <2>3. Tsc \subseteq Nat
    BY CapacityAssumption DEF Tsc
  <2>. QED BY <2>1, <2>2, <2>3, SizeAssumption
<1>6. i = windex[At] /\ k \in 1 .. pos[At]
  BY <1>1, <1>3, <1>5, <1>t DEF Valid
<1>. DEFINE w == windex[At]
<1>7. \A m \in 1 .. pos[At] : Valid(At, w, m) /\ m \in Nat /\ ScanBuf[m].tsc = TscAt(At, w, m) /\ ScanBuf[m].tsc \in Nat
  <2>1. \A m \in 1 .. pos[At] : Valid(At, w, m) /\ m \in Nat /\ m \in 1 .. BufLen
    <3>1. w \in 1 .. windex[At] /\ windex[At] < w + PoolSize
      BY <1>5, <1>6, Zenon DEF Valid
    <3>2. \A m \in 1 .. pos[At] : m \in Nat /\ m \in 1 .. BufLen /\ m <= pos[At]
      BY <1>t
    <3>. QED BY <3>1, <3>2, Zenon DEF Valid
  <2>2. \A m \in 1 .. pos[At] : ScanBuf[m].tsc = TscAt(At, w, m) /\ TscAt(At, w, m) \in Nat
    BY <1>1, <2>1, TscAtType DEF ScanBuf, TscAt
  <2>. QED BY <2>1, <2>2
<1>8. OrderInv(At)
  BY <1>1 DEF WindowInv
<1>9. \A m \in 1 .. pos[At] : ScanBuf[m].tsc > (IF m = 1 THEN 0 ELSE ScanBuf[m - 1].tsc) /\ ScanBuf[m].tsc < range.limit
  <2>. TAKE m \in 1 .. pos[At]
  <2>1. ScanBuf[m].tsc < range.limit /\ ScanBuf[m].tsc >= 1
    BY <1>1, <1>3, <1>7, <1>8 DEF OrderInv
  <2>2. CASE m # 1
    <3>1. m - 1 \in 1 .. pos[At] /\ Before(w, m - 1, w, m)
      BY <1>t, <2>2 DEF Before
    <3>2. TscAt(At, w, m - 1) < TscAt(At, w, m)
      BY <1>1, <1>7, <1>8, <3>1 DEF OrderInv
    <3>3. ScanBuf[m - 1].tsc < ScanBuf[m].tsc
      BY <1>7, <3>1, <3>2
    <3>. QED BY <1>7, <2>1, <2>2, <3>1, <3>3
  <2>. QED BY <1>7, <2>1, <2>2
<1>10. pos[At] <= ScanTo
  <2>1. pos[At] \in 1 .. Len(ScanBuf)
    BY <1>1, <1>6, <1>t
  <2>. QED BY <1>1, <1>9, <2>1, ScannedPrefix DEF ScanTo
<1>. DEFINE u == SubSeq(ScanBuf, 1, ScanTo)
<1>11. u \in Seq(Sample) /\ Len(u) = ScanTo /\ \A m \in 1 .. ScanTo : u[m] = ScanBuf[m]
  <2>1. /\ SubSeq(ScanBuf, 1, ScanTo) \in Seq(Sample)
        /\ Len(SubSeq(ScanBuf, 1, ScanTo)) = IF 1 <= ScanTo THEN ScanTo - 1 + 1 ELSE 0
        /\ \A m \in 1 .. ScanTo - 1 + 1 : SubSeq(ScanBuf, 1, ScanTo)[m] = ScanBuf[1 + m - 1]
    BY <1>1, SelectedSeq
  <2>. QED BY <1>1, <1>t, <2>1
<1>12. ScanFrom = FirstFresh(u, lastTsc[At])
  BY DEF ScanFrom
<1>. HIDE DEF u
<1>13. \A m, n \in 1 .. Len(u) : m < n => u[m].tsc < u[n].tsc
  <2>1. \A m \in 1 .. ScanTo : m > 1 => ScanBuf[m - 1].tsc < ScanBuf[m].tsc
    BY <1>1, ScannedPrefix DEF ScanTo
  <2>2. ASSUME NEW m \in 2 .. Len(u) PROVE u[m - 1].tsc < u[m].tsc
    <3>1. ScanTo \in Nat /\ m \in 1 .. ScanTo /\ m - 1 \in 1 .. ScanTo /\ m > 1
      BY <1>1, <1>11, ScannedPrefix DEF ScanTo
    <3>2. u[m] = ScanBuf[m] /\ u[m - 1] = ScanBuf[m - 1]
      BY <1>11, <3>1
    <3>. QED BY <2>1, <3>1, <3>2
  <2>3. Len(u) \in 0 .. Len(u)
    BY <1>11
  <2>. QED BY <1>11, <2>2, <2>3, InOrder
<1>14. ScanFrom <= k
  <2>1. k \in 1 .. Len(u) /\ u[k].tsc = x
    BY <1>1, <1>5, <1>6, <1>7, <1>10, <1>11, <1>t
  <2>2. x > lastTsc[At]
    BY <1>4, <1>5, <1>t
  <2>. QED BY <1>11, <1>12, <1>13, <1>t, <2>1, <2>2, FreshSelected
<1>. QED BY <1>1, <1>5, <1>6, <1>10, <1>14, <1>t

\* So between the scan and the write, every sample is on file or selected.
LEMMA FlushScanned ==
  ASSUME Types, LoopInv, BehindInv, \A t \in Threads : WindowInv(t), FlushScan,
         NEW t \in Threads, LossInv(t), FlushInv(t)
  PROVE  FlushInv(t)'
<1>0. /\ cpc = "peek" /\ cpc' = "flush"
      /\ UNCHANGED <<rindex, flushing, todo, file, dropped, lastOverflow, reported, quiet, raced, since>>
      /\ UNCHANGED <<overflow, recorded, buf, windex>>
  BY DEF FlushScan, storeVars, loopVars, histVars, threadsUnchanged, poolVars, threadVars
<1>1. /\ range' = [limit |-> range.limit, idx |-> windex[At], to |-> ScanTo, from |-> ScanFrom]
      /\ ScanTo \in 0 .. BufLen /\ ScanFrom \in 1 .. ScanTo + 1 /\ windex[At] \in Nat
  BY ScanStep
<1>2. At' = At /\ range'.idx = windex[At] /\ range'.to = ScanTo /\ range'.from = ScanFrom
  BY <1>0, <1>1 DEF At
<1>3. (t = At /\ flushing /\ quiet[t]) => windex[t] <= rindex[t] + 1
  BY <1>0 DEF FlushInv, InLoop
<1>4. ASSUME t = At, flushing, quiet[t], Kept(t)', NEW x \in recorded[t], x > since[t]
      PROVE  OnFile(t, x)' \/ \E k \in range'.from .. range'.to : buf'[t][Slot(range'.idx)][k].tsc = x
  <2>1. Kept(t)
    BY <1>0, <1>4 DEF Kept
  <2>2. CASE OnFile(t, x)
    BY <1>0, <2>2 DEF OnFile
  <2>3. CASE ~ OnFile(t, x)
    <3>1. \E k \in ScanFrom .. ScanTo : TscAt(At, windex[At], k) = x
      BY <1>4, <2>1, <2>3, FlushSelects
    <3>. QED BY <1>0, <1>2, <1>4, <3>1 DEF TscAt
  <2>. QED BY <2>2, <2>3
<1>. QED BY <1>0, <1>2, <1>3, <1>4 DEF FlushInv, TscAt

\* The write of flush completes the file of the thread.
LEMMA FlushWritten ==
  ASSUME Types, LoopInv, FlushPersist, NEW t \in Threads, FlushInv(t)
  PROVE  FlushInv(t)'
<1>0. /\ cpc = "flush" /\ cpc' = "account"
      /\ UNCHANGED <<rindex, flushing, todo, lastOverflow, reported, quiet, raced, since>>
      /\ UNCHANGED <<overflow, recorded, buf, windex>>
  BY DEF FlushPersist, readerVars, loopVars, histVars, threadsUnchanged, poolVars, threadVars
<1>1. /\ At \in Threads /\ FlushNew \in Seq(Sample)
      /\ range.from \in Nat \ {0} /\ range.to \in Nat /\ range.to <= BufLen /\ range.idx \in Nat
      /\ Len(FlushNew) = IF range.from <= range.to THEN range.to - range.from + 1 ELSE 0
      /\ \A i \in 1 .. Len(FlushNew) : FlushNew[i] = buf[At][Slot(range.idx)][range.from + i - 1]
      /\ Persist(At, FlushNew, quiet[At]) /\ quiet[At] \in BOOLEAN
  BY FlushStep
<1>2. At' = At
  BY <1>0 DEF At
<1>3. (t = At /\ flushing /\ quiet[t]) => windex[t] <= rindex[t] + 1
  BY <1>0 DEF FlushInv, InLoop
<1>4. ASSUME t = At, flushing, quiet[t], Kept(t)', NEW x \in recorded[t], x > since[t]
      PROVE  x \in Tscs(file'[t])
  <2>1. ~ dropped' /\ ~ dropped
    <3>1. dropped => dropped'
      BY <1>1, PersistEffect
    <3>. QED BY <1>4, <3>1 DEF Kept
  <2>2. Kept(t)
    BY <1>0, <1>4, <2>1 DEF Kept
  <2>3. OnFile(t, x) \/ \E k \in range.from .. range.to : TscAt(t, range.idx, k) = x
    BY <1>0, <1>4, <2>2 DEF FlushInv, InLoop
  <2>4. /\ \A y : y \in Tscs(file[t]) => y \in Tscs(file'[t])
        /\ \A i \in 1 .. Len(FlushNew) : FlushNew[i].tsc \in Tscs(file'[t])
    BY <1>1, <1>4, <2>1, PersistFiles
  <2>5. ASSUME NEW k \in range.from .. range.to, TscAt(t, range.idx, k) = x PROVE x \in Tscs(file'[t])
    <3>1. k - range.from + 1 \in 1 .. Len(FlushNew) /\ range.from + (k - range.from + 1) - 1 = k
      BY <1>1
    <3>2. FlushNew[k - range.from + 1] = buf[At][Slot(range.idx)][k]
      BY <1>1, <3>1
    <3>. QED BY <1>4, <2>4, <2>5, <3>1, <3>2 DEF TscAt
  <2>. QED BY <2>3, <2>4, <2>5 DEF OnFile
<1>. QED BY <1>0, <1>2, <1>3, <1>4 DEF FlushInv, AllFiled, OnFile

\* The flush, step by step.
LEMMA FlushInvStep ==
  ASSUME Types, LoopInv, ChainInv, BehindInv, \A t \in Threads : WindowInv(t) /\ LossInv(t) /\ FlushInv(t), Next
  PROVE  \A t \in Threads : FlushInv(t)'
<1>1. ASSUME NEW u \in Threads, Thread(u), NEW t \in Threads PROVE FlushInv(t)'
  <2>1. /\ UNCHANGED <<rindex, lastTsc, since, file, raced, dropped, reported, flushing, todo, cpc, lastOverflow,
                       range, quiet>>
        /\ ~ quiet[u] /\ At' = At
    BY <1>1, ThreadFrame DEF collectorUnchanged, readerVars, storeVars, loopVars, histVars, At
  <2>2. CASE ~ quiet[t]
    BY <2>1, <2>2 DEF FlushInv
  <2>3. CASE quiet[t]
    <3>1. Same(t) /\ overflow'[t] = overflow[t]
      <4>1. t \in Threads \ {u}
        BY <2>1, <2>3
      <4>. QED BY <1>1, <2>1, <4>1, ThreadFrame DEF Same
    <3>2. /\ \A i, k \in Nat : Valid(t, i, k)' <=> Valid(t, i, k)
          /\ \A i, k \in Nat : TscAt(t, i, k)' = TscAt(t, i, k)
          /\ \A x : OnFile(t, x)' <=> OnFile(t, x)
          /\ AllFiled(t)' <=> AllFiled(t)
      BY <3>1, SameSamples
    <3>3. Kept(t)' <=> Kept(t)
      BY <2>1, <3>1 DEF Kept, Same
    <3>4. windex[t] \in Nat /\ windex'[t] = windex[t] /\ recorded'[t] = recorded[t]
      BY <3>1 DEF Types, Same
    <3>5. /\ range.idx \in Nat /\ \A k \in range.from .. range.to : k \in Nat
      BY DEF Types
    <3>. QED BY <2>1, <2>3, <3>1, <3>2, <3>3, <3>4, <3>5 DEF FlushInv, InLoop
  <2>. QED BY <2>2, <2>3
<1>2. ASSUME Framework, NEW t \in Threads PROVE FlushInv(t)'
  <2>1. CASE CollectDone
    BY <2>1, FlushBegun
  <2>2. CASE FlushScan
    BY <2>2, FlushScanned
  <2>3. CASE FlushPersist
    BY <2>3, FlushWritten
  <2>4. CASE ~ CollectDone /\ ~ FlushScan /\ ~ FlushPersist
    <3>1. cpc' \notin {"peek", "flush", "account"}
      BY <1>2, <2>4 DEF Framework, ActivateProbes, DeactivateProbes, BeginCollection, BeginPoll, EndCollection,
         OpenFails, AttachBegin, AttachStore, AttachCheck, VisitAttached, HandOut, PersistBuffer, Account, DetachAll,
         Advance
    <3>. QED BY <3>1 DEF FlushInv
  <2>. QED BY <2>1, <2>2, <2>3, <2>4
<1>. QED BY <1>1, <1>2 DEF Next

\* poll leaves a thread with everything on file, or an overflow to report.
LEMMA DoneAccount ==
  ASSUME Types, LoopInv, BehindInv, \A t \in Threads : WindowInv(t) /\ FlushInv(t), Account, NEW t \in Threads, t = At
  PROVE  DoneInv(t)'
<1>1. Same(t) /\ UNCHANGED <<raced, dropped, quiet, flushing, attached, overflow>> /\ cpc = "account"
  BY Zenon DEF Account, Same, threadsUnchanged, threadVars, poolVars, storeVars
<1>2. /\ reported'[t] = reported[t] + overflow[t] - lastOverflow[t] /\ overflow[t] >= lastOverflow[t]
      /\ reported[t] \in Nat /\ overflow[t] \in Nat /\ lastOverflow[t] \in Nat
  BY DEF Account, Types, WindowInv, PlaceInv
<1>3. reported'[t] = 0 => reported[t] = 0 /\ overflow[t] = lastOverflow[t]
  <2>1. \A a, b, c \in Nat : b >= c /\ a + b - c = 0 => a = 0 /\ b = c
    OBVIOUS
  <2>. QED BY <1>2, <2>1
<1>. SUFFICES ASSUME flushing, attached[t], quiet[t], ~ raced[t], reported'[t] = 0, ~ dropped PROVE AllFiled(t)'
  BY <1>1 DEF DoneInv
<1>4. windex[t] <= rindex[t] + 1
  BY <1>1 DEF FlushInv, InLoop
<1>5. Kept(t)
  <2>1. rindex[t] # NoReader
    BY <1>1 DEF LoopInv
  <2>2. windex[t] \in Nat /\ rindex[t] \in Nat
    BY <2>1 DEF Types
  <2>. QED BY <1>3, <1>4, <2>1, <2>2, SizeAssumption DEF Kept
<1>6. AllFiled(t)
  BY <1>1, <1>5 DEF FlushInv, InLoop
<1>. QED BY <1>1, <1>6, SameSamples

\* A thread that the flush has left behind is left alone.
LEMMA DoneStep ==
  ASSUME Types, LoopInv, ChainInv, BehindInv,
         \A t \in Threads : WindowInv(t) /\ FlushInv(t) /\ DoneInv(t), Next
  PROVE  \A t \in Threads : DoneInv(t)'
<1>1. ASSUME NEW u \in Threads, Thread(u), NEW t \in Threads PROVE DoneInv(t)'
  <2>1. /\ UNCHANGED <<rindex, lastTsc, since, file, raced, dropped, reported, flushing, todo, attached, quiet>>
        /\ ~ quiet[u]
    BY <1>1, ThreadFrame DEF collectorUnchanged, readerVars, storeVars, loopVars, histVars
  <2>2. CASE ~ quiet[t]
    BY <2>1, <2>2 DEF DoneInv
  <2>3. CASE quiet[t]
    <3>1. Same(t)
      <4>1. t \in Threads \ {u}
        BY <2>1, <2>3
      <4>. QED BY <1>1, <2>1, <4>1, ThreadFrame DEF Same
    <3>2. AllFiled(t)' <=> AllFiled(t)
      BY <3>1, SameSamples
    <3>. QED BY <2>1, <3>2 DEF DoneInv
  <2>. QED BY <2>2, <2>3
<1>2. ASSUME Framework, NEW t \in Threads PROVE DoneInv(t)'
  <2>. USE DEF loopVars
  <2>1. CASE Account /\ t = At
    BY <2>1, DoneAccount
  <2>2. CASE ~ flushing'
    BY <2>2 DEF DoneInv
  <2>3. CASE EndCollection
    <3>1. todo' = list /\ attached' = attached
      BY <2>3 DEF EndCollection, readerVars
    <3>. QED BY <3>1 DEF DoneInv, ChainInv
  <2>4. CASE flushing' /\ ~ EndCollection /\ ~ (Account /\ t = At)
    <3>0. ~ BeginCollection /\ ~ BeginPoll /\ ~ DetachAll /\ flushing
      BY <1>2, <2>4 DEF Framework, ActivateProbes, DeactivateProbes, BeginCollection, BeginPoll, EndCollection,
         OpenFails, AttachBegin, AttachStore, AttachCheck, VisitAttached, HandOut, PersistBuffer, CollectDone, FlushScan,
         FlushPersist, Account, DetachAll
    <3>1. ~ starting /\ cpc \notin {"off", "idle"} /\ cpc # "detach"
      <4>1. ~ starting /\ cpc \notin {"off", "idle"}
        BY <3>0 DEF LoopInv
      <4>2. cpc # "detach"
        BY <1>2, <3>0, <2>4, <4>1 DEF Framework, ActivateProbes, DeactivateProbes, EndCollection,
           OpenFails, AttachBegin, AttachStore, AttachCheck, VisitAttached, HandOut, PersistBuffer, CollectDone,
           FlushScan, FlushPersist, Account
      <4>. QED BY <4>1, <4>2
    <3>2. cpc \in InLoop /\ At \in Threads /\ Contains(todo, At)
      <4>1. cpc \in InLoop
        BY <3>1 DEF Types
      <4>. QED BY <4>1, LoopSeq DEF Contains
    <3>3. CASE t = At
      <4>1. CASE OpenFails
        <5>1. ~ attached'[t]
          BY <3>1, <3>3, <4>1 DEF OpenFails
        <5>. QED BY <5>1 DEF DoneInv
      <4>2. CASE ~ OpenFails
        <5>1. todo' = todo
          BY <1>2, <2>4, <3>0, <3>1, <3>3, <4>2 DEF Framework, ActivateProbes, DeactivateProbes,
             AttachBegin, AttachStore, AttachCheck, VisitAttached, HandOut, PersistBuffer, CollectDone, FlushScan,
             FlushPersist
        <5>. QED BY <3>2, <3>3, <5>1 DEF DoneInv
      <4>. QED BY <4>1, <4>2
    <3>4. CASE t # At
      <4>1. /\ Same(t) /\ reported'[t] = reported[t] /\ raced'[t] = raced[t] /\ (dropped => dropped')
        BY <1>2, <3>0, <3>1, <3>4, Untouched
      <4>2. quiet' = quiet /\ attached'[t] = attached[t]
        <5>1. quiet' = quiet
          BY <1>2, <2>4, <3>0, Zenon DEF Framework, ActivateProbes, DeactivateProbes, OpenFails, AttachBegin, AttachStore,
             AttachCheck, VisitAttached, HandOut, PersistBuffer, CollectDone, FlushScan, FlushPersist, Account, histVars
        <5>2. attached' = attached \/ attached' = [attached EXCEPT ![At] = TRUE]
          BY <1>2, <2>4, <3>0, <3>1, Zenon DEF Framework, ActivateProbes, DeactivateProbes, OpenFails, AttachBegin,
             AttachStore, AttachCheck, VisitAttached, HandOut, PersistBuffer, CollectDone, FlushScan, FlushPersist, Account,
             readerVars
        <5>. QED BY <3>4, <5>1, <5>2 DEF Types, TypeOK
      <4>3. ~ Contains(todo', t) => ~ Contains(todo, t)
        <5>1. CASE Advance
          BY <3>2, <3>4, <5>1, AdvanceTodo
        <5>2. CASE ~ Advance
          <6>1. todo' = todo
            BY <1>2, <2>4, <3>0, <3>1, <5>2 DEF Framework, ActivateProbes, DeactivateProbes, OpenFails, AttachBegin,
               AttachStore, AttachCheck, VisitAttached, HandOut, PersistBuffer, CollectDone, FlushScan, FlushPersist, Account
          <6>. QED BY <6>1
        <5>. QED BY <5>1, <5>2
      <4>4. AllFiled(t)' <=> AllFiled(t)
        BY <4>1, SameSamples
      <4>. QED BY <3>0, <4>1, <4>2, <4>3, <4>4 DEF DoneInv
    <3>. QED BY <3>3, <3>4
  <2>. QED BY <2>1, <2>2, <2>3, <2>4
<1>. QED BY <1>1, <1>2 DEF Next

-----------------------------------------------------------------------------
(* A collection loses no sample in silence.                                *)

LossfreeInv ==
  /\ FileInv /\ ChainInv /\ BehindInv
  /\ \A t \in Threads : LossInv(t) /\ FlushInv(t) /\ DoneInv(t)

\* Nothing is lost initially.
LEMMA LossfreeInit == Init => LossfreeInv
<1>. SUFFICES ASSUME Init PROVE LossfreeInv
  OBVIOUS
<1>1. FileInv
  BY FileInvInit
<1>2. ChainInv /\ BehindInv
  BY DEF Init, ChainInv, BehindInv, Distinct, Contains
<1>3. \A t \in Threads : LossInv(t) /\ FlushInv(t) /\ DoneInv(t)
  BY DEF Init, LossInv, FlushInv, DoneInv, Kept
<1>. QED BY <1>1, <1>2, <1>3 DEF LossfreeInv

\* And no step loses anything in silence.
LEMMA LossfreeStep == ASSUME LossfreeInv, [Next]_vars PROVE LossfreeInv'
<1>1. CASE Next
  <2>1. Types /\ LoopInv /\ ChainInv /\ BehindInv /\ \A t \in Threads : WindowInv(t)
    BY DEF LossfreeInv, FileInv
  <2>2. \A t \in Threads : LossInv(t) /\ FlushInv(t) /\ DoneInv(t)
    BY DEF LossfreeInv
  <2>3. FileInv'
    BY FileInvStep DEF LossfreeInv
  <2>4. ChainInv' /\ BehindInv'
    BY <1>1, <2>1, ChainStep, BehindStep
  <2>5. \A t \in Threads : LossInv(t)'
    BY <1>1, <2>1, <2>2, LossStep
  <2>6. \A t \in Threads : FlushInv(t)'
    BY <1>1, <2>1, <2>2, FlushInvStep
  <2>7. \A t \in Threads : DoneInv(t)'
    BY <1>1, <2>1, <2>2, DoneStep
  <2>. QED BY <2>3, <2>4, <2>5, <2>6, <2>7 DEF LossfreeInv
<1>2. CASE UNCHANGED vars
  <2>. USE <1>2 DEF vars, threadVars, poolVars, readerVars, storeVars, loopVars, histVars, LossfreeInv
  <2>1. FileInv'
    BY FileInvStep
  <2>2. ChainInv' /\ BehindInv' /\ At' = At
    BY DEF ChainInv, BehindInv, At
  <2>3. ASSUME NEW t \in Threads PROVE LossInv(t)' /\ FlushInv(t)' /\ DoneInv(t)'
    <3>1. Same(t)
      BY DEF Same
    <3>2. (Kept(t)' <=> Kept(t)) /\ (Flushed(t)' <=> Flushed(t))
      BY <2>2 DEF Kept, Flushed
    <3>3. LossInv(t)'
      BY <3>1, <3>2, LossSame
    <3>4. AllFiled(t)' <=> AllFiled(t)
      BY <3>1, SameSamples
    <3>5. FlushInv(t)'
      BY <2>2, <3>2, <3>4 DEF FlushInv, Valid, TscAt, OnFile
    <3>6. DoneInv(t)'
      BY <3>4 DEF DoneInv
    <3>. QED BY <3>3, <3>5, <3>6
  <2>. QED BY <2>1, <2>2, <2>3
<1>. QED BY <1>1, <1>2

\* For any threads, pools and probes: when a collection has flushed, every sample
\* that a thread recorded since its reader was attached is on file, unless an
\* overflow of the thread's pool was reported or the capacity is spent.
THEOREM NothingLostSilently == Spec => []NoSilentLoss
<1>1. Spec => []LossfreeInv
  BY LossfreeInit, LossfreeStep, PTL DEF Spec
<1>2. LossfreeInv => NoSilentLoss
  <2>. SUFFICES ASSUME LossfreeInv, cpc = "detach", NEW t \in Threads,
                       attached[t], quiet[t], ~ raced[t], reported[t] = 0, ~ dropped
                PROVE  \A x \in recorded[t] : x > since[t] => x \in Tscs(file[t])
    BY DEF NoSilentLoss
  <2>1. todo = <<>> /\ flushing
    BY DEF LossfreeInv, FileInv, LoopInv
  <2>2. ~ Contains(todo, t)
    BY <2>1 DEF Contains
  <2>3. AllFiled(t)
    BY <2>1, <2>2 DEF LossfreeInv, DoneInv
  <2>. QED BY <2>3 DEF AllFiled, OnFile
<1>. QED BY <1>1, <1>2, PTL

-----------------------------------------------------------------------------
(* The capacity: StorageMgr counts what is on file, and what could not be  *)
(* written.                                                                *)

CapacityInv == IsFiniteSet(OnDisk) /\ (Capacity > 0 => Cardinality(OnDisk) <= consumed)

\* The places of n samples that are appended to a file of m.
Places(t, m, n) == {t} \X (m + 1 .. m + n)

\* There are as many places as samples.
LEMMA NewPlaces ==
  ASSUME NEW t, NEW m \in Nat, NEW n \in Nat
  PROVE  IsFiniteSet(Places(t, m, n)) /\ Cardinality(Places(t, m, n)) = n
<1>. DEFINE T == m + 1 .. m + n
<1>1. IsFiniteSet(T) /\ Cardinality(T) = n
  <2>1. /\ IsFiniteSet(m + 1 .. m + n)
        /\ Cardinality(m + 1 .. m + n) = IF m + 1 > m + n THEN 0 ELSE (m + n) - (m + 1) + 1
    BY FS_Interval
  <2>2. (IF m + 1 > m + n THEN 0 ELSE (m + n) - (m + 1) + 1) = n
    OBVIOUS
  <2>. QED BY <2>1, <2>2
<1>2. IsFiniteSet({t}) /\ Cardinality({t}) = 1
  BY FS_Singleton
<1>. HIDE DEF T
<1>3. IsFiniteSet({t} \X T) /\ Cardinality({t} \X T) = 1 * n
  BY <1>1, <1>2, FS_Product
<1>. QED BY <1>3 DEF T, Places

\* persistSamples counts what it writes.
LEMMA PersistCounts ==
  ASSUME Types, CapacityInv, NEW t \in Threads, NEW s \in Seq(Sample), NEW c \in BOOLEAN, Persist(t, s, c)
  PROVE  CapacityInv'
<1>. DEFINE g == file[t] \o Tagged(s, c)
            new == {t} \X (Len(file[t]) + 1 .. Len(file[t]) + Len(s))
<1>0. /\ file \in [Threads -> Seq(Filed)] /\ file[t] \in Seq(Filed) /\ Len(s) \in Nat /\ consumed \in Nat
      /\ Len(file[t]) \in Nat
  BY CapacityAssumption DEF Types, TypeOK
<1>1. \/ UNCHANGED <<file, consumed>>
      \/ /\ file' = [file EXCEPT ![t] = g] \/ file' = file
         /\ consumed' = IF Capacity = 0 THEN consumed ELSE consumed + Len(s)
  BY Zenon DEF Persist, storeVars
<1>2. CASE UNCHANGED <<file, consumed>>
  BY <1>2 DEF CapacityInv, OnDisk
<1>4. CASE /\ file' = file
           /\ consumed' = IF Capacity = 0 THEN consumed ELSE consumed + Len(s)
  <2>1. OnDisk' = OnDisk
    BY <1>4 DEF OnDisk
  <2>2. Cardinality(OnDisk) \in Nat
    BY FS_CardinalityType DEF CapacityInv
  <2>. QED BY <1>0, <1>4, <2>1, <2>2, CapacityAssumption DEF CapacityInv
<1>3. CASE /\ file' = [file EXCEPT ![t] = g]
           /\ consumed' = IF Capacity = 0 THEN consumed ELSE consumed + Len(s)
  <2>0. g = Appended(file[t], s, c)
    BY DEF Appended
  <2>. HIDE DEF g
  <2>1. g \in Seq(Filed) /\ Len(g) = Len(file[t]) + Len(s)
    BY <1>0, <2>0, AppendedFile
  <2>2. DOMAIN g = 1 .. Len(file[t]) + Len(s) /\ DOMAIN file[t] = 1 .. Len(file[t])
    BY <1>0, <2>1
  <2>3. DOMAIN g = DOMAIN file[t] \cup (Len(file[t]) + 1 .. Len(file[t]) + Len(s))
    BY <1>0, <2>2
  <2>4. \A u \in Threads : file'[u] = IF u = t THEN g ELSE file[u]
    BY <1>0, <1>3
  <2>5. OnDisk' = OnDisk \cup new
    <3>. DEFINE more == Len(file[t]) + 1 .. Len(file[t]) + Len(s)
    <3>1. DOMAIN file'[t] = DOMAIN file[t] \cup more
      BY <2>3, <2>4
    <3>. HIDE DEF more
    <3>2. ASSUME NEW p \in OnDisk' PROVE p \in OnDisk \cup ({t} \X more)
      <4>1. PICK u \in Threads : p \in {u} \X DOMAIN file'[u]
        BY DEF OnDisk
      <4>2. CASE u = t
        BY <3>1, <4>1, <4>2 DEF OnDisk
      <4>3. CASE u # t
        <5>1. p \in {u} \X DOMAIN file[u]
          BY <2>4, <4>1, <4>3
        <5>. QED BY <5>1 DEF OnDisk
      <4>. QED BY <4>2, <4>3
    <3>3. ASSUME NEW p \in OnDisk PROVE p \in OnDisk'
      <4>1. PICK u \in Threads : p \in {u} \X DOMAIN file[u]
        BY DEF OnDisk
      <4>2. DOMAIN file[u] \subseteq DOMAIN file'[u]
        BY <2>4, <3>1
      <4>3. p \in {u} \X DOMAIN file'[u]
        BY <4>1, <4>2
      <4>. QED BY <4>3 DEF OnDisk
    <3>4. ASSUME NEW p \in {t} \X more PROVE p \in OnDisk'
      <4>1. p \in {t} \X DOMAIN file'[t]
        BY <3>1, <3>4
      <4>. QED BY <4>1 DEF OnDisk
    <3>. QED BY <3>2, <3>3, <3>4 DEF more
  <2>6. OnDisk \cap new = {}
    <3>1. \A k \in DOMAIN file[t] : k \notin Len(file[t]) + 1 .. Len(file[t]) + Len(s)
      BY <1>0, <2>2
    <3>. QED BY <3>1 DEF OnDisk
  <2>7. IsFiniteSet(new) /\ Cardinality(new) = Len(s)
    <3>1. new = Places(t, Len(file[t]), Len(s))
      BY DEF Places
    <3>. HIDE DEF new
    <3>. QED BY <1>0, <3>1, NewPlaces
  <2>. HIDE DEF new
  <2>8. /\ IsFiniteSet(OnDisk \cup new)
        /\ Cardinality(OnDisk \cup new) = Cardinality(OnDisk) + Cardinality(new) - Cardinality(OnDisk \cap new)
    BY <2>7, FS_Union DEF CapacityInv
  <2>9. Cardinality(OnDisk \cap new) = 0 /\ Cardinality(OnDisk) \in Nat
    BY <2>6, FS_EmptySet, FS_CardinalityType DEF CapacityInv
  <2>10. Cardinality(OnDisk \cup new) = Cardinality(OnDisk) + Len(s)
    BY <1>0, <2>7, <2>8, <2>9
  <2>11. Capacity > 0 => Cardinality(OnDisk \cup new) <= consumed'
    BY <1>0, <1>3, <2>9, <2>10, CapacityAssumption DEF CapacityInv
  <2>. QED BY <2>5, <2>8, <2>11 DEF CapacityInv
<1>. QED BY <1>1, <1>2, <1>3, <1>4

\* Every step counts what it writes.
LEMMA CapacityStep == ASSUME Types, LoopInv, CapacityInv, [Next]_vars PROVE CapacityInv'
<1>1. CASE PersistBuffer
  <2>1. At \in Threads /\ ReadNew \in Seq(Sample) /\ Persist(At, ReadNew, ~ Racing)
    BY <1>1, ReadStep
  <2>2. (~ Racing) \in BOOLEAN
    OBVIOUS
  <2>. QED BY <2>1, <2>2, PersistCounts
<1>2. CASE FlushPersist
  <2>1. At \in Threads /\ FlushNew \in Seq(Sample) /\ Persist(At, FlushNew, quiet[At]) /\ quiet[At] \in BOOLEAN
    BY <1>2, FlushStep
  <2>. QED BY <2>1, PersistCounts
<1>3. CASE BeginCollection
  <2>1. file' = [t \in Threads |-> <<>>] /\ consumed' = 0
    BY <1>3 DEF BeginCollection
  <2>2. \A t \in Threads : DOMAIN file'[t] = {}
    BY <2>1
  <2>3. OnDisk' = {}
    BY <2>2 DEF OnDisk
  <2>. QED BY <2>1, <2>3, FS_EmptySet DEF CapacityInv
<1>4. CASE ~ PersistBuffer /\ ~ FlushPersist /\ ~ BeginCollection
  <2>1. UNCHANGED <<file, consumed>>
    <3>1. UNCHANGED storeVars
      BY <1>4, Zenon DEF Next, Framework, ActivateProbes, DeactivateProbes, BeginPoll, EndCollection, OpenFails,
         AttachBegin, AttachStore, AttachCheck, VisitAttached, HandOut, CollectDone, FlushScan, Account, DetachAll,
         Thread, EnterProbe, Stamp, Allocate, LoadReadIndex, Publish, Overflow, StoreTsc, StoreSite,
         collectorUnchanged, vars
    <3>. QED BY <3>1 DEF storeVars
  <2>. QED BY <2>1 DEF CapacityInv, OnDisk
<1>. QED BY <1>1, <1>2, <1>3, <1>4

\* For any threads, pools, probes and capacity, the files of a collection hold
\* together no more samples than the capacity allows: persistSamples writes
\* nothing that StorageMgr::consume refuses, and consume refuses in time.
THEOREM CapacityRespectedHolds == Spec => []CapacityRespected
<1>1. Init => CapacityInv
  <2>. SUFFICES ASSUME Init PROVE CapacityInv
    OBVIOUS
  <2>1. OnDisk = {} /\ consumed = 0
    BY DEF Init, OnDisk
  <2>. QED BY <2>1, FS_EmptySet DEF CapacityInv
<1>2. FileInv /\ CapacityInv /\ [Next]_vars => CapacityInv'
  BY CapacityStep DEF FileInv
<1>3. FileInv /\ CapacityInv => CapacityRespected
  <2>. SUFFICES ASSUME FileInv, CapacityInv, Capacity > 0 PROVE Cardinality(OnDisk) <= Capacity
    BY DEF CapacityRespected
  <2>1. consumed \in 0 .. Capacity
    BY DEF FileInv, Types, TypeOK
  <2>2. Cardinality(OnDisk) \in Nat
    BY FS_CardinalityType DEF CapacityInv
  <2>. QED BY <2>1, <2>2, CapacityAssumption DEF CapacityInv
<1>. QED BY <1>1, <1>2, <1>3, FileInvHolds, PTL DEF Spec
=============================================================================
