-------------------------- MODULE TxnExecutionProofs --------------------------
(* Proofs about TxnLoading, continued: when no sample is lost, the transactions*)
(* that the reports show are the executions of the program, one for one.       *)
EXTENDS TxnLoadingProofs

(* Without losses: where the object of a stretch is found while files are      *)
(* loaded, and that it is found there once.                                    *)
HasEnd(r) == \E e \in CountersOf(r) : Ending(e)
NoRepeat(s) == \A i, j \in 1 .. Len(s) : s[i] = s[j] => i = j

TxnsApart == \A i, j \in DOMAIN txns : txns[i] = txns[j] => i = j
TxnsEnded ==
  \A i \in DOMAIN txns :
    txns[i] # currentTxn /\ Opens(First(txns[i])) /\ HasEnd(txns[i]) /\ ~ InFrags(txns[i])
CompromisedOpen ==
  \A r \in 1 .. Len(heap) : InCompromised(r) => r # currentTxn /\ (Opens(First(r)) => ~ HasEnd(r))
RootsEnded == \A f \in 1 .. Len(frags) : IsRoot(f) => HasEnd(frags[f].txn)
FragsApart == \A f, g \in 1 .. Len(frags) : frags[f].txn = frags[g].txn => f = g
ListsApart == NoRepeat(rootFragments) /\ \A l \in Links : NoRepeat(resumeFrags[l])
CurrentKept == currentTxn # None /\ InFrags(currentTxn) => KeepBack
CountersApart == NoRepeat(ephemeralCounters) /\ \A r \in 1 .. Len(heap) : NoRepeat(heap[r].counters)
Places ==
  /\ TxnsApart /\ TxnsEnded /\ CompromisedOpen /\ RootsEnded
  /\ FragsApart /\ ListsApart /\ CurrentKept /\ CountersApart

(* What a thread recorded before the sample being loaded was read.             *)
LEMMA ReadBefore ==
  ASSUME IInv, TypeInv, RecInv, LoadSample, NEW c, c = files[thread][pos], c.threadId = thread,
         NEW e \in Loaded, Earlier(e, c)
  PROVE  e \in Read
<1>1. /\ thread \in Threads /\ pos \in Nat /\ pos \in 1 .. Len(files[thread])
  BY DEF LoadSample, IInv, LoadInv, FilesInv
<1>2. e.threadId = thread /\ e.tsc < c.tsc
  BY DEF Earlier
<1>3. PICK j \in 1 .. Len(files[thread]) : files[thread][j] = e
  BY <1>2, LoadedAre
<1>4. e.tsc \in Nat /\ c.tsc \in Nat
  <2>1. c \in Sample
    BY <1>1, LoadedAre
  <2> QED
    BY <2>1, LoadedAre, BoundsAssumption DEF Sample, Counters
<1>5. j < pos
  <2>0. pos < j => c.tsc < e.tsc
    <3>1. \A i, k \in 1 .. Len(files[thread]) : i < k => files[thread][i].tsc < files[thread][k].tsc
      BY <1>1 DEF RecInv, FilesSorted
    <3>2. pos < j => files[thread][pos].tsc < files[thread][j].tsc
      BY <1>1, <3>1
    <3> QED
      BY <1>3, <3>2
  <2>1. ~ (pos < j) /\ j # pos
    BY <1>2, <1>3, <1>4, <2>0
  <2>2. j \in Nat
    BY <1>1
  <2> QED
    BY <1>1, <2>1, <2>2
<1>6. ReadAt(e, j) /\ j \in Nat
  BY <1>1, <1>2, <1>3, <1>5 DEF ReadAt
<1> QED
  BY <1>6 DEF Read

(* The counters of the transaction under way.                                  *)
LEMMA CurrentHas ==
  ASSUME Apart(Read), LoadingCover, currentTxn # None, currentTxn \in 1 .. Len(heap), NEW s, s = First(currentTxn)
  PROVE  /\ CountersOf(currentTxn) = Stretch(Read, s) /\ LastStart(Read, s) /\ s.threadId = thread /\ s \in Read /\ Opens(s)
         /\ (heap[currentTxn].hasEndProbe <=> HasEnd(currentTxn))
         /\ \A e \in Read : Earlier(s, e) /\ Ending(e) => e \in CountersOf(currentTxn)
         /\ \A e \in CountersOf(currentTxn) : e \in Read /\ (Ending(e) => Earlier(s, e))
         /\ \A e \in ToSet(ephemeralCounters) : e \in Read /\ e \notin CountersOf(currentTxn)
<1>1. /\ CurrentIs(s) /\ LastStart(Read, s) /\ s.threadId = thread
      /\ (heap[currentTxn].hasEndProbe <=> IsClosed(Read, s))
      /\ ToSet(ephemeralCounters) = Region(Read, s) \ Stretch(Read, s)
  BY DEF LoadingCover, CurrentStretch, CurrentIs
<1>2. s \in Starts(Read) /\ s \in Read /\ Opens(s)
  BY <1>1 DEF LastStart, Starts
<1>3. CountersOf(currentTxn) = Stretch(Read, s)
  BY <1>2 DEF LoadingCover, Objects, ObjectsHold
<1>4. \A e \in Read : Earlier(s, e) => e \in Region(Read, s)
  BY <1>1 DEF Region, LastStart
<1>5. \A e \in Region(Read, s) : Ending(e) /\ e.tsc <= e.tsc => e \in Stretch(Read, s)
  BY DEF Stretch
<1>6. \A e \in Read : e.tsc \in Nat
  BY BoundsAssumption DEF Apart, Sample, Counters
<1>7. \A e \in Stretch(Read, s) : e \in Region(Read, s) /\ e \in Read /\ (e = s \/ Earlier(s, e))
  BY DEF Stretch, Region
<1>8. \A e \in Read : Earlier(s, e) /\ Ending(e) => e \in CountersOf(currentTxn)
  BY <1>3, <1>4, <1>5, <1>6
<1>9. \A e \in CountersOf(currentTxn) : e \in Read /\ (Ending(e) => Earlier(s, e))
  BY <1>2, <1>3, <1>7 DEF Ending
<1>10. heap[currentTxn].hasEndProbe <=> HasEnd(currentTxn)
  <2>1. IsClosed(Read, s) => HasEnd(currentTxn)
    <3>1. \A e \in Region(Read, s) : e \in Read
      BY DEF Region
    <3> QED
      BY <1>3, <1>5, <1>6, <3>1 DEF IsClosed, HasEnd
  <2>2. HasEnd(currentTxn) => IsClosed(Read, s)
    BY <1>3, <1>7 DEF IsClosed, HasEnd
  <2> QED
    BY <1>1, <2>1, <2>2
<1>11. \A e \in ToSet(ephemeralCounters) : e \in Read /\ e \notin CountersOf(currentTxn)
  BY <1>1, <1>3 DEF Region
<1> QED
  BY <1>1, <1>2, <1>3, <1>8, <1>9, <1>10, <1>11

(* Without losses a thread opens a transaction after the last one was closed,  *)
(* and closes it once.                                                         *)
LEMMA ClosedBefore ==
  ASSUME IInv, TypeInv, RecInv, LoadingCover, lost = {}, currentTxn # None, currentTxn \in 1 .. Len(heap),
         LoadSample, NEW c, c = files[thread][pos], c.threadId = thread, c \in Loaded, Newest(Read, c), Opens(c)
  PROVE  HasEnd(currentTxn)
<1>0. Apart(Read) /\ Read \subseteq Loaded
  BY ReadApart DEF Read
<1>s. PICK s : s = First(currentTxn)
  OBVIOUS
<1>1. /\ s.threadId = thread /\ s \in Read /\ Opens(s)
      /\ \A e \in Read : Earlier(s, e) /\ Ending(e) => e \in CountersOf(currentTxn)
  BY <1>0, <1>s, CurrentHas
<1>2. Earlier(s, c)
  BY <1>1 DEF Newest, Earlier
<1>3. PICK e \in Loaded : Earlier(s, e) /\ Earlier(e, c) /\ Ending(e)
  BY <1>0, <1>1, <1>2 DEF RecInv, Alternates
<1>4. e \in Read
  BY <1>3, ReadBefore
<1> QED
  BY <1>1, <1>3, <1>4 DEF HasEnd

(* So a transaction that a counter closes had not been closed.                 *)
LEMMA OpenBefore ==
  ASSUME IInv, TypeInv, RecInv, LoadingCover, lost = {}, currentTxn # None, currentTxn \in 1 .. Len(heap),
         LoadSample, NEW c, c = files[thread][pos], c.threadId = thread, c \in Loaded, Newest(Read, c), Ending(c)
  PROVE  ~ HasEnd(currentTxn)
<1> SUFFICES ASSUME HasEnd(currentTxn) PROVE FALSE
  OBVIOUS
<1>0. /\ Apart(Read) /\ Read \subseteq Loaded /\ Alternates(Loaded, open)
      /\ \A d \in Loaded : d.tsc \in Nat
      /\ \A d, e \in Loaded : d.tsc = e.tsc => d = e
  BY ReadApart, LoadedAre, LoadedDiffer DEF Read, RecInv
<1>s. PICK s : s = First(currentTxn)
  OBVIOUS
<1>1. /\ s.threadId = thread /\ s \in Read /\ LastStart(Read, s)
      /\ \A e \in CountersOf(currentTxn) : e \in Read /\ (Ending(e) => Earlier(s, e))
  BY <1>0, <1>s, CurrentHas
<1>2. PICK e \in Read : Ending(e) /\ Earlier(s, e)
  BY <1>1 DEF HasEnd
<1>3. Earlier(e, c)
  BY <1>1, <1>2 DEF Newest, Earlier
<1>4. PICK o \in Loaded : Earlier(o, c) /\ Opens(o) /\ ~ \E x \in Loaded : Earlier(o, x) /\ Earlier(x, c) /\ Ending(x)
  BY <1>0 DEF Alternates
<1>5. Earlier(e, o)
  <2>1. ~ Earlier(o, e) /\ o # e
    BY <1>0, <1>2, <1>3, <1>4 DEF Ending
  <2>2. o.tsc # e.tsc
    BY <1>0, <2>1
  <2> QED
    BY <1>0, <1>3, <1>4, <2>1, <2>2 DEF Earlier
<1>6. Earlier(s, o)
  BY <1>0, <1>1, <1>2, <1>5 DEF Earlier
<1>7. o \in Read
  BY <1>4, ReadBefore
<1>8. o \in Starts(Read)
  <2>1. ASSUME NEW d \in Read, Earlier(d, o), Opens(d)
        PROVE  \E x \in Read : Earlier(d, x) /\ Earlier(x, o) /\ Ending(x)
    <3>1. PICK x \in Loaded : Earlier(d, x) /\ Earlier(x, o) /\ Ending(x)
      BY <1>0, <1>4, <2>1 DEF Alternates
    <3>2. Earlier(x, c)
      <4>1. x.tsc \in Nat /\ o.tsc \in Nat /\ c.tsc \in Nat
        BY <1>0
      <4> QED
        BY <1>4, <3>1, <4>1 DEF Earlier
    <3>3. x \in Read
      BY <3>2, ReadBefore
    <3> QED
      BY <3>1, <3>3
  <2> QED
    BY <1>4, <1>7, <2>1 DEF Starts
<1> QED
  BY <1>1, <1>6, <1>8 DEF LastStart

-----------------------------------------------------------------------------
(* Lists without repetition.                                                   *)
LEMMA NoRepeatConcat ==
  ASSUME NEW S, NEW s \in Seq(S), NEW t \in Seq(S), NoRepeat(s), NoRepeat(t), \A x \in ToSet(s) : x \notin ToSet(t)
  PROVE  NoRepeat(s \o t)
<1>1. /\ Len(s) \in Nat /\ Len(t) \in Nat /\ DOMAIN s = 1 .. Len(s) /\ DOMAIN t = 1 .. Len(t)
      /\ Len(s \o t) = Len(s) + Len(t)
  OBVIOUS
<1>2. \A i \in 1 .. Len(s) + Len(t) : (s \o t)[i] = IF i <= Len(s) THEN s[i] ELSE t[i - Len(s)]
  OBVIOUS
<1>3. \A i \in 1 .. Len(s), j \in 1 .. Len(t) : s[i] # t[j]
  BY <1>1 DEF ToSet
<1> DEFINE u == s \o t
<1> HIDE DEF u
<1>4. ASSUME NEW i \in 1 .. Len(s) + Len(t), NEW j \in 1 .. Len(s) + Len(t), u[i] = u[j] PROVE i = j
  <2>1. /\ i <= Len(s) => i \in 1 .. Len(s) /\ u[i] = s[i]
        /\ ~ (i <= Len(s)) => i - Len(s) \in 1 .. Len(t) /\ u[i] = t[i - Len(s)]
        /\ j <= Len(s) => j \in 1 .. Len(s) /\ u[j] = s[j]
        /\ ~ (j <= Len(s)) => j - Len(s) \in 1 .. Len(t) /\ u[j] = t[j - Len(s)]
    BY <1>1, <1>2 DEF u
  <2>2. CASE i <= Len(s) /\ j <= Len(s)
    BY <1>4, <2>1, <2>2 DEF NoRepeat
  <2>3. CASE ~ (i <= Len(s)) /\ ~ (j <= Len(s))
    <3>1. i - Len(s) = j - Len(s)
      BY <1>4, <2>1, <2>3 DEF NoRepeat
    <3> QED
      BY <1>1, <3>1
  <2>4. CASE i <= Len(s) /\ ~ (j <= Len(s))
    BY <1>3, <1>4, <2>1, <2>4
  <2>5. CASE ~ (i <= Len(s)) /\ j <= Len(s)
    BY <1>3, <1>4, <2>1, <2>5
  <2> QED
    BY <2>2, <2>3, <2>4, <2>5
<1> QED
  BY <1>1, <1>4 DEF NoRepeat, u

(* Nor has one that a new element is appended to.                              *)
LEMMA NoRepeatAppend ==
  ASSUME NEW S, NEW s \in Seq(S), NEW x \in S, NoRepeat(s), \A i \in 1 .. Len(s) : s[i] # x
  PROVE  NoRepeat(Append(s, x))
<1> DEFINE a == Append(s, x)
<1>1. /\ Len(s) \in Nat /\ Len(a) = Len(s) + 1 /\ a[Len(s) + 1] = x
      /\ \A i \in 1 .. Len(s) : a[i] = s[i]
  OBVIOUS
<1>2. \A i \in 1 .. Len(a) : i \in 1 .. Len(s) \/ i = Len(s) + 1
  BY <1>1
<1> HIDE DEF a
<1>3. NoRepeat(a)
  BY <1>1, <1>2 DEF NoRepeat
<1> QED
  BY <1>3 DEF a

-----------------------------------------------------------------------------
(* A transaction that has ended is appended, unless it has a fragment.         *)
TxnsPlaced ==
  /\ \A i, j \in DOMAIN txns' : txns'[i] = txns'[j] => i = j
  /\ \A i \in DOMAIN txns' : /\ txns'[i] \in 1 .. Len(heap)
                             /\ Opens(First(txns'[i])) /\ HasEnd(txns'[i]) /\ ~ InFrags(txns'[i])

(* appendTxn puts an ended transaction in one place, or keeps it back.         *)
LEMMA AppendPlaces ==
  ASSUME TxnsIn, TxnsApart, TxnsEnded, CurrentKept, NEW q, q = currentTxn, q # None, q \in 1 .. Len(heap),
         Opens(First(q)), HasEnd(q), AppendTxn(q)
  PROVE  TxnsPlaced
<1>1. CASE KeepBack
  <2>1. txns' = txns
    BY <1>1 DEF AppendTxn
  <2> QED
    BY <2>1 DEF TxnsPlaced, TxnsIn, TxnsApart, TxnsEnded
<1>2. CASE ~ KeepBack
  <2>1. txns' = Put(txns, nextTxnId + 1, q)
    BY <1>2 DEF AppendTxn
  <2>2. DOMAIN txns' = DOMAIN txns \cup {nextTxnId + 1}
        /\ \A i \in DOMAIN txns' : txns'[i] = IF i = nextTxnId + 1 THEN q ELSE txns[i]
    BY <2>1 DEF Put
  <2>3. ~ InFrags(q)
    BY <1>2 DEF CurrentKept
  <2>4. \A i \in DOMAIN txns : txns[i] # q
    BY DEF TxnsEnded
  <2>5. \A i, j \in DOMAIN txns' : txns'[i] = txns'[j] => i = j
    BY <2>2, <2>4 DEF TxnsApart
  <2>6. \A i \in DOMAIN txns' : /\ txns'[i] \in 1 .. Len(heap)
                                /\ Opens(First(txns'[i])) /\ HasEnd(txns'[i]) /\ ~ InFrags(txns'[i])
    BY <2>2, <2>3 DEF TxnsIn, TxnsEnded
  <2> QED
    BY <2>5, <2>6 DEF TxnsPlaced
<1> QED
  BY <1>1, <1>2

(* A new transaction is under way and, if it resumes, has a new fragment.      *)
LEMMA BuildPlaces ==
  ASSUME FragTypes, Places, compromisedTxns \in Seq(Nat), \A k \in 1 .. Len(compromisedTxns) : compromisedTxns[k] \in 1 .. Len(heap),
         NEW c \in Sample, Resumes(c) => c.data \in Links, BuildTxn(c), FlushEphemeral, currentTxn' = Len(heap) + 1, TxnsPlaced
  PROVE  Places'
<1>n. PICK n : n = Len(heap) + 1
  OBVIOUS
<1>1. /\ heap' = Append(heap, Transaction(c)) /\ suspendingTxn' = FALSE
      /\ Resumes(c) => AddResumeFragment(c.data, n) /\ resumeFragment' = Len(frags) + 1
      /\ ~ Resumes(c) => UNCHANGED fragVars
      /\ ephemeralCounters' = <<>> /\ compromisedTxns' = compromisedTxns
  BY <1>n DEF BuildTxn, FlushEphemeral
<1>2. heap \in Seq(Txn) /\ Len(heap) \in Nat /\ n \in Nat /\ Len(frags) \in Nat
  BY <1>n DEF FragTypes
<1>3. /\ Transaction(c) \in Txn /\ Transaction(c).counters # <<>> /\ Transaction(c).counters[1] = c
      /\ Transaction(c).counters = <<c>>
  BY NoneAssumption DEF Transaction, Txn
<1>4. /\ Len(heap') = n /\ heap'[n] = Transaction(c) /\ \A r \in 1 .. Len(heap) : heap'[r] = heap[r]
  BY <1>1, <1>2, <1>3, <1>n, HeapAppends
<1>5. \A r \in 1 .. Len(heap) : First(r)' = First(r) /\ (HasEnd(r)' <=> HasEnd(r))
  BY <1>4 DEF First, HasEnd, CountersOf
<1>6. \A r \in 1 .. n : r \in 1 .. Len(heap) \/ r = n
  BY <1>2, <1>n
<1>7. \A r \in 1 .. Len(heap) : r # n
  BY <1>2, <1>n
<1>8. /\ \A f \in 1 .. Len(frags) : frags[f].txn \in 1 .. Len(heap)
      /\ \A k \in 1 .. Len(rootFragments) : rootFragments[k] \in 1 .. Len(frags)
      /\ \A l \in Links : resumeFrags[l] \in Seq(Nat) /\ \A k \in 1 .. Len(resumeFrags[l]) : resumeFrags[l][k] \in 1 .. Len(frags)
  BY DEF FragTypes
<1>9. /\ rootFragments' = rootFragments
      /\ \A f \in 1 .. Len(frags) : f \in 1 .. Len(frags') /\ frags'[f].txn = frags[f].txn
      /\ \A f \in 1 .. Len(frags') : f \in 1 .. Len(frags) \/ (Resumes(c) /\ f = Len(frags) + 1 /\ frags'[f].txn = n)
      /\ \A l \in Links : NoRepeat(resumeFrags'[l])
  <2>1. CASE ~ Resumes(c)
    BY <1>1, <2>1 DEF fragVars, Places, ListsApart
  <2>2. CASE Resumes(c)
    <3>l. PICK l : l = c.data /\ l \in Links
      BY <2>2
    <3>1. AddResumeFragment(l, n)
      BY <1>1, <2>2, <3>l
    <3>2. /\ Len(frags') = Len(frags) + 1 /\ frags'[Len(frags) + 1].txn = n
          /\ \A f \in 1 .. Len(frags) : frags'[f].txn = frags[f].txn
          /\ \A m \in Links : m # l => resumeFrags'[m] = resumeFrags[m]
          /\ rootFragments' = rootFragments
      BY <1>2, <3>1, <3>l, ResumeFragIs
    <3>3. resumeFrags'[l] = Append(resumeFrags[l], Len(frags) + 1)
      BY <3>1, <3>l DEF AddResumeFragment, FragTypes
    <3>4. NoRepeat(resumeFrags'[l])
      <4>1. \A k \in 1 .. Len(resumeFrags[l]) : resumeFrags[l][k] # Len(frags) + 1
        BY <1>2, <1>8, <3>l
      <4>2. NoRepeat(resumeFrags[l]) /\ resumeFrags[l] \in Seq(Nat) /\ Len(frags) + 1 \in Nat
        BY <1>2, <1>8, <3>l DEF Places, ListsApart
      <4>3. NoRepeat(Append(resumeFrags[l], Len(frags) + 1))
        BY <4>1, <4>2, NoRepeatAppend
      <4> QED
        BY <3>3, <4>3
    <3>5. \A m \in Links : NoRepeat(resumeFrags'[m])
      BY <3>2, <3>4 DEF Places, ListsApart
    <3>6. \A f \in 1 .. Len(frags') : f \in 1 .. Len(frags) \/ f = Len(frags) + 1
      BY <1>2, <3>2
    <3>7. \A f \in 1 .. Len(frags) : f \in 1 .. Len(frags')
      BY <1>2, <3>2
    <3> QED
      BY <2>2, <3>2, <3>5, <3>6, <3>7
  <2> QED
    BY <2>1, <2>2
<1>10. \A r \in 1 .. Len(heap) : InFrags(r)' <=> InFrags(r)
  BY <1>7, <1>9 DEF InFrags
<1>11. TxnsApart'
  BY DEF TxnsPlaced, TxnsApart
<1>12. TxnsEnded'
  BY <1>5, <1>7, <1>10, <1>n DEF TxnsPlaced, TxnsEnded
<1>13. CompromisedOpen'
  <2>1. \A r : InCompromised(r)' => InCompromised(r) /\ r \in 1 .. Len(heap)
    BY <1>1 DEF InCompromised
  <2> QED
    BY <1>5, <1>7, <1>n, <2>1 DEF CompromisedOpen, Places
<1>14. RootsEnded'
  <2>1. \A f : IsRoot(f)' => IsRoot(f) /\ f \in 1 .. Len(frags)
    BY <1>8, <1>9 DEF IsRoot
  <2> QED
    BY <1>5, <1>8, <1>9, <2>1 DEF RootsEnded, Places
<1>15. FragsApart'
  <2>1. ASSUME NEW f \in 1 .. Len(frags'), NEW g \in 1 .. Len(frags'), frags'[f].txn = frags'[g].txn PROVE f = g
    <3>1. CASE f \in 1 .. Len(frags) /\ g \in 1 .. Len(frags)
      BY <1>9, <2>1, <3>1 DEF FragsApart, Places
    <3>2. CASE f \notin 1 .. Len(frags)
      BY <1>7, <1>8, <1>9, <2>1, <3>2
    <3>3. CASE g \notin 1 .. Len(frags)
      BY <1>7, <1>8, <1>9, <2>1, <3>3
    <3> QED
      BY <3>1, <3>2, <3>3
  <2> QED
    BY <2>1 DEF FragsApart
<1>16. ListsApart'
  BY <1>9 DEF ListsApart, Places
<1>17. CurrentKept'
  <2>1. InFrags(n)' => Resumes(c)
    BY <1>7, <1>8, <1>9 DEF InFrags
  <2>2. Resumes(c) => resumeFragment' # None
    BY <1>1, <1>2, NoneAssumption
  <2>3. currentTxn' = n
    BY <1>n
  <2> QED
    BY <2>1, <2>2, <2>3 DEF CurrentKept, KeepBack
<1>18. CountersApart'
  <2>1. NoRepeat(ephemeralCounters')
    BY <1>1 DEF NoRepeat
  <2>2. NoRepeat(<<c>>)
    BY DEF NoRepeat
  <2> QED
    BY <1>3, <1>4, <1>6, <2>1, <2>2 DEF CountersApart, Places
<1> QED
  BY <1>11, <1>12, <1>13, <1>14, <1>15, <1>16, <1>17, <1>18 DEF Places

-----------------------------------------------------------------------------
(* Counters for the transaction under way; the last of them may suspend it.    *)
LEMMA AddPlaces ==
  ASSUME FragTypes, TxnsIn, Places, FragsKept, currentTxn # None, currentTxn \in 1 .. Len(heap), currentTxn' = currentTxn,
         heap[currentTxn].counters # <<>>,
         NEW cs \in Seq(Sample), NEW e \in BOOLEAN, heap' = [heap EXCEPT ![currentTxn] = AddCounters(@, cs, e)],
         NoRepeat(cs), \A d \in CountersOf(currentTxn) : d \notin ToSet(cs), NoRepeat(ephemeralCounters'),
         UNCHANGED <<txns, compromisedTxns, resumeFragment>>,
         resumeFragment # None <=> Resumes(First(currentTxn)),
         resumeFragment # None => frags[resumeFragment].txn = currentTxn,
         \/ UNCHANGED suspendingTxn /\ UNCHANGED fragVars
         \/ /\ suspendingTxn' = TRUE /\ ~ HasEnd(currentTxn)
            /\ \E c \in ToSet(cs) : c \in Sample /\ Ending(c) /\ AddSuspendFragment(LinkOf(c), currentTxn, resumeFragment)
  PROVE  Places'
<1>q. PICK q : q = currentTxn /\ q \in 1 .. Len(heap)
  OBVIOUS
<1>1. heap \in Seq(Txn) /\ Len(heap) \in Nat /\ Len(frags) \in Nat
  BY DEF FragTypes
<1>2. /\ Len(heap') = Len(heap) /\ After(q) = CountersOf(q) \cup ToSet(cs)
      /\ \A r \in 1 .. Len(heap) : FirstAfter(r) = First(r) /\ (r # q => heap'[r] = heap[r])
  BY <1>1, <1>q, HeapAdds
<1>3. heap[q] \in Txn /\ heap[q].counters \in Seq(Sample)
  <2>1. heap[q] \in Txn
    BY <1>1, <1>q
  <2> QED
    BY <2>1 DEF Txn
<1>4. heap'[q].counters = heap[q].counters \o cs
  <2>1. heap'[q] = AddCounters(heap[q], cs, e)
    BY <1>1, <1>q
  <2> QED
    BY <1>3, <2>1, AddCountersType
<1>5. \A r \in 1 .. Len(heap) : /\ First(r)' = First(r) /\ (HasEnd(r) => HasEnd(r)')
                                /\ (r # q => (HasEnd(r)' <=> HasEnd(r)))
  BY <1>2 DEF First, FirstAfter, HasEnd, CountersOf, After
<1>6. /\ \A f \in 1 .. Len(frags) : frags[f].txn \in 1 .. Len(heap)
      /\ \A k \in 1 .. Len(rootFragments) : rootFragments[k] \in 1 .. Len(frags)
      /\ rootFragments \in Seq(Nat)
  BY DEF FragTypes
<1>7. /\ \A f \in 1 .. Len(frags) : f \in 1 .. Len(frags') /\ frags'[f].txn = frags[f].txn
      /\ \A f \in 1 .. Len(frags') :
           f \in 1 .. Len(frags) \/ (f = Len(frags) + 1 /\ frags'[f].txn = q /\ ~ InFrags(q))
      /\ \A f \in 1 .. Len(frags') : IsRoot(f)' => (f \in 1 .. Len(frags) /\ IsRoot(f)) \/ (frags'[f].txn = q /\ HasEnd(q)')
      /\ resumeFrags' = resumeFrags /\ NoRepeat(rootFragments')
      /\ ((InFrags(q)' => InFrags(q)) /\ suspendingTxn' = suspendingTxn) \/ suspendingTxn' = TRUE
  <2>1. CASE UNCHANGED suspendingTxn /\ UNCHANGED fragVars
    <3>1. frags' = frags /\ rootFragments' = rootFragments /\ resumeFrags' = resumeFrags /\ suspendingTxn' = suspendingTxn
      BY <2>1 DEF fragVars
    <3> QED
      BY <3>1 DEF IsRoot, InFrags, Places, ListsApart
  <2>2. CASE /\ suspendingTxn' = TRUE /\ ~ HasEnd(currentTxn)
             /\ \E c \in ToSet(cs) : c \in Sample /\ Ending(c) /\ AddSuspendFragment(LinkOf(c), currentTxn, resumeFragment)
    <3>1. PICK c \in ToSet(cs) : c \in Sample /\ Ending(c) /\ AddSuspendFragment(LinkOf(c), q, resumeFragment)
      BY <1>q, <2>2
    <3>l. PICK l \in Links : l = LinkOf(c)
      BY <3>1 DEF LinkOf, Sample, Counters, Links
    <3>f. PICK f0 : f0 = IF resumeFragment = None THEN Len(frags) + 1 ELSE resumeFragment
      OBVIOUS
    <3>2. AddSuspendFragment(l, q, resumeFragment) /\ q \in Nat
      BY <1>1, <1>q, <3>1, <3>l
    <3>3. /\ resumeFragment = None => frags'[f0].txn = q /\ f0 \notin 1 .. Len(frags) /\ Len(frags') = Len(frags) + 1
          /\ resumeFragment # None => f0 \in 1 .. Len(frags) /\ Len(frags') = Len(frags)
          /\ \A f \in 1 .. Len(frags') : f \in 1 .. Len(frags) \/ f = f0
          /\ \A f \in 1 .. Len(frags) : frags'[f].txn = frags[f].txn
          /\ \A f \in 1 .. Len(frags') :
               IsRoot(f)' <=> (f \in 1 .. Len(frags) /\ IsRoot(f)) \/ (resumeFragment = None /\ f = f0)
          /\ resumeFrags' = resumeFrags
      BY <3>2, <3>f, SuspendFragIs
    <3>4. HasEnd(q)'
      BY <1>2, <3>1 DEF HasEnd, After, CountersOf
    <3>5. resumeFragment = None => ~ InFrags(q)
      <4> SUFFICES ASSUME resumeFragment = None, NEW f \in 1 .. Len(frags), frags[f].txn = q PROVE FALSE
        BY DEF InFrags
      <4>1. ~ Resumes(StartOf(f))
        BY <1>q DEF StartOf
      <4>2. IsRoot(f)
        BY <4>1 DEF FragsKept
      <4>3. HasEnd(q)
        BY <4>2 DEF Places, RootsEnded
      <4> QED
        BY <1>q, <2>2, <4>3
    <3>6. NoRepeat(rootFragments')
      <4>1. CASE resumeFragment # None
        <5>1. rootFragments' = rootFragments
          BY <3>2, <4>1 DEF AddSuspendFragment
        <5> QED
          BY <5>1 DEF Places, ListsApart
      <4>2. CASE resumeFragment = None
        <5>1. Len(Append(frags, TxnFragment(q))) = Len(frags) + 1
          BY DEF FragTypes
        <5>2. rootFragments' = Append(rootFragments, Len(frags) + 1)
          BY <3>2, <4>2, <5>1 DEF AddSuspendFragment
        <5>3. \A k \in 1 .. Len(rootFragments) : rootFragments[k] # Len(frags) + 1
          BY <1>1, <1>6
        <5>4. NoRepeat(rootFragments) /\ Len(frags) + 1 \in Nat
          BY <1>1 DEF Places, ListsApart
        <5>5. NoRepeat(Append(rootFragments, Len(frags) + 1))
          BY <1>6, <5>3, <5>4, NoRepeatAppend
        <5> QED
          BY <5>2, <5>5
      <4> QED
        BY <4>1, <4>2
    <3>7. \A f \in 1 .. Len(frags) : f \in 1 .. Len(frags')
      BY <1>1, <3>3
    <3> QED
      BY <2>2, <3>3, <3>4, <3>5, <3>6, <3>7, <3>f
  <2> QED
    BY <2>1, <2>2
<1>8. \A r \in 1 .. Len(heap) : r # q => (InFrags(r)' <=> InFrags(r))
  BY <1>7 DEF InFrags
<1>9. TxnsApart' /\ TxnsEnded'
  <2>1. \A i \in DOMAIN txns : txns[i] # q /\ txns[i] \in 1 .. Len(heap)
    BY <1>q DEF Places, TxnsEnded, TxnsIn
  <2> QED
    BY <1>5, <1>8, <1>q, <2>1 DEF Places, TxnsApart, TxnsEnded
<1>10. CompromisedOpen'
  <2>1. \A r : InCompromised(r)' => InCompromised(r)
    BY DEF InCompromised
  <2> QED
    BY <1>2, <1>5, <1>q, <2>1 DEF Places, CompromisedOpen
<1>11. RootsEnded'
  <2>1. ASSUME NEW f \in 1 .. Len(frags'), IsRoot(f)' PROVE \E x \in ToSet(heap'[frags'[f].txn].counters) : Ending(x)
    <3>1. CASE frags'[f].txn = q /\ HasEnd(q)'
      BY <3>1 DEF HasEnd, CountersOf
    <3>2. CASE f \in 1 .. Len(frags) /\ IsRoot(f)
      <4>1. frags'[f].txn = frags[f].txn /\ frags[f].txn \in 1 .. Len(heap) /\ HasEnd(frags[f].txn)
        BY <1>6, <1>7, <3>2 DEF Places, RootsEnded
      <4>g. PICK g : g = frags[f].txn
        OBVIOUS
      <4>2. HasEnd(g)'
        BY <1>5, <4>1, <4>g
      <4>3. \E x \in ToSet(heap'[g].counters) : Ending(x)
        BY <4>2 DEF HasEnd, CountersOf
      <4> QED
        BY <4>1, <4>3, <4>g
    <3> QED
      BY <1>7, <2>1, <3>1, <3>2
  <2> QED
    BY <2>1 DEF RootsEnded, HasEnd, CountersOf
<1>12. FragsApart'
  <2>1. ASSUME NEW f \in 1 .. Len(frags'), NEW g \in 1 .. Len(frags'), frags'[f].txn = frags'[g].txn PROVE f = g
    <3>1. CASE f \in 1 .. Len(frags) /\ g \in 1 .. Len(frags)
      BY <1>7, <2>1, <3>1 DEF FragsApart, Places
    <3>2. CASE f \notin 1 .. Len(frags)
      BY <1>7, <2>1, <3>2 DEF InFrags
    <3>3. CASE g \notin 1 .. Len(frags)
      BY <1>7, <2>1, <3>3 DEF InFrags
    <3> QED
      BY <3>1, <3>2, <3>3
  <2> QED
    BY <2>1 DEF FragsApart
<1>13. ListsApart'
  BY <1>7 DEF ListsApart, Places
<1>14. CurrentKept'
  <2>1. currentTxn' = q
    BY <1>q
  <2>2. InFrags(q) => KeepBack
    BY <1>q DEF Places, CurrentKept
  <2>3. InFrags(q)' => KeepBack'
    BY <1>7, <2>2 DEF KeepBack
  <2> QED
    BY <2>1, <2>3 DEF CurrentKept, InFrags
<1>15. CountersApart'
  <2>1. NoRepeat(heap[q].counters)
    BY <1>q DEF Places, CountersApart
  <2>2. NoRepeat(heap[q].counters \o cs)
    BY <1>3, <1>q, <2>1, NoRepeatConcat DEF CountersOf
  <2>3. \A r \in 1 .. Len(heap) : NoRepeat(heap'[r].counters)
    BY <1>2, <1>4, <2>2 DEF Places, CountersApart
  <2> QED
    BY <1>2, <2>3 DEF CountersApart
<1> QED
  BY <1>9, <1>10, <1>11, <1>12, <1>13, <1>14, <1>15 DEF Places

(* A counter that is set aside.                                                *)
LEMMA AsidePlaces ==
  ASSUME Places, ephemeralCounters \in Seq(Sample), NEW c \in Sample, c \notin ToSet(ephemeralCounters), AddEphemeral(c)
  PROVE  Places'
<1>1. /\ ephemeralCounters' = Append(ephemeralCounters, c)
      /\ UNCHANGED <<heap, currentTxn, txns, compromisedTxns, resumeFragment, suspendingTxn>> /\ UNCHANGED fragVars
  BY DEF AddEphemeral
<1>2. NoRepeat(ephemeralCounters')
  <2>1. \A i \in 1 .. Len(ephemeralCounters) : ephemeralCounters[i] # c
    BY DEF ToSet
  <2>2. NoRepeat(ephemeralCounters)
    BY DEF Places, CountersApart
  <2>3. NoRepeat(Append(ephemeralCounters, c))
    BY <2>1, <2>2, NoRepeatAppend
  <2> QED
    BY <1>1, <2>3
<1>3. /\ heap' = heap /\ currentTxn' = currentTxn /\ txns' = txns /\ compromisedTxns' = compromisedTxns
      /\ resumeFragment' = resumeFragment /\ suspendingTxn' = suspendingTxn /\ frags' = frags
      /\ rootFragments' = rootFragments /\ resumeFrags' = resumeFrags
  BY <1>1 DEF fragVars
<1>4. \A r : First(r)' = First(r) /\ (HasEnd(r)' <=> HasEnd(r)) /\ (InFrags(r)' <=> InFrags(r)) /\ (InCompromised(r)' <=> InCompromised(r))
             /\ (IsRoot(r)' <=> IsRoot(r))
  BY <1>3 DEF First, HasEnd, CountersOf, InFrags, InCompromised, IsRoot
<1>5. TxnsApart' /\ TxnsEnded' /\ CompromisedOpen' /\ RootsEnded'
  BY <1>3, <1>4 DEF Places, TxnsApart, TxnsEnded, CompromisedOpen, RootsEnded
<1>6. FragsApart' /\ ListsApart' /\ CurrentKept' /\ CountersApart'
  BY <1>2, <1>3, <1>4 DEF Places, FragsApart, ListsApart, CurrentKept, KeepBack, CountersApart
<1> QED
  BY <1>5, <1>6 DEF Places

-----------------------------------------------------------------------------
(* A close without an open.                                                    *)
LEMMA CompromisePlaces ==
  ASSUME FragTypes, TxnsIn, Places, ephemeralCounters \in Seq(Sample), compromisedTxns \in Seq(Nat),
         NEW c \in Sample, c \notin ToSet(ephemeralCounters), Compromise(c)
  PROVE  Places'
<1>n. PICK n : n = Len(heap) + 1
  OBVIOUS
<1>x. PICK x : x = AddCounters(Transaction(c), ephemeralCounters, FALSE)
  OBVIOUS
<1>1. /\ currentTxn = None /\ ~ Opens(c) /\ currentTxn' = None /\ txns' = txns
      /\ heap' = Append(heap, x) /\ compromisedTxns' = Append(compromisedTxns, n) /\ ephemeralCounters' = <<>>
      /\ frags' = frags /\ rootFragments' = rootFragments /\ resumeFrags' = resumeFrags
  BY <1>n, <1>x DEF Compromise, fragVars
<1>2. heap \in Seq(Txn) /\ Len(heap) \in Nat /\ n \in Nat
  BY <1>n DEF FragTypes
<1>3. x \in Txn /\ x.counters = <<c>> \o ephemeralCounters
  <2>1. Transaction(c) \in Txn /\ Transaction(c).counters = <<c>>
    BY NoneAssumption DEF Transaction, Txn
  <2> QED
    BY <1>x, <2>1, AddCountersType
<1>4. x.counters # <<>> /\ x.counters[1] = c
  <2>1. <<c>> \in Seq(Sample) /\ Len(<<c>>) = 1 /\ <<c>>[1] = c
    OBVIOUS
  <2>2. Len(<<c>> \o ephemeralCounters) = Len(<<c>>) + Len(ephemeralCounters) /\ (<<c>> \o ephemeralCounters)[1] = c /\ Len(ephemeralCounters) \in Nat
    BY <2>1, ConcatAt
  <2> QED
    BY <1>3, <2>1, <2>2
<1>5. /\ Len(heap') = n /\ heap'[n] = x /\ \A r \in 1 .. Len(heap) : heap'[r] = heap[r]
  BY <1>1, <1>2, <1>3, <1>4, <1>n, HeapAppends
<1>6. \A r \in 1 .. Len(heap) : First(r)' = First(r) /\ (HasEnd(r)' <=> HasEnd(r))
  BY <1>5 DEF First, HasEnd, CountersOf
<1>7. \A r \in 1 .. n : r \in 1 .. Len(heap) \/ r = n
  BY <1>2, <1>n
<1>8. \A r : (InFrags(r)' <=> InFrags(r)) /\ (IsRoot(r)' <=> IsRoot(r))
  BY <1>1 DEF InFrags, IsRoot
<1>9. TxnsApart' /\ TxnsEnded'
  <2>1. \A i \in DOMAIN txns : txns[i] \in 1 .. Len(heap) /\ txns[i] # None
    BY <1>2, NoneAssumption DEF TxnsIn
  <2> QED
    BY <1>1, <1>6, <1>8, <2>1 DEF Places, TxnsApart, TxnsEnded
<1>10. CompromisedOpen'
  <2>1. \A r : InCompromised(r)' => InCompromised(r) \/ r = n
    <3>1. /\ Len(compromisedTxns') = Len(compromisedTxns) + 1 /\ compromisedTxns'[Len(compromisedTxns) + 1] = n
          /\ \A k \in 1 .. Len(compromisedTxns) : compromisedTxns'[k] = compromisedTxns[k]
      BY <1>1, <1>2
    <3>2. \A k \in 1 .. Len(compromisedTxns') : k \in 1 .. Len(compromisedTxns) \/ k = Len(compromisedTxns) + 1
      BY <3>1
    <3> QED
      BY <3>1, <3>2 DEF InCompromised
  <2>2. First(n)' = c
    BY <1>4, <1>5 DEF First
  <2>3. \A r \in 1 .. n : r # None
    BY <1>2, NoneAssumption
  <2>4. ASSUME NEW r \in 1 .. n, InCompromised(r)' PROVE Opens(First(r)') => ~ HasEnd(r)'
    <3>1. CASE r = n
      BY <1>1, <2>2, <3>1
    <3>2. CASE r # n
      BY <1>6, <1>7, <2>1, <2>4, <3>2 DEF Places, CompromisedOpen
    <3> QED
      BY <3>1, <3>2
  <2> QED
    BY <1>1, <1>5, <2>3, <2>4 DEF CompromisedOpen
<1>11. RootsEnded'
  <2>1. \A f \in 1 .. Len(frags) : frags[f].txn \in 1 .. Len(heap)
    BY DEF FragTypes
  <2> QED
    BY <1>1, <1>6, <1>8, <2>1 DEF Places, RootsEnded
<1>12. FragsApart' /\ ListsApart' /\ CurrentKept'
  BY <1>1 DEF Places, FragsApart, ListsApart, CurrentKept
<1>13. CountersApart'
  <2>1. NoRepeat(<<c>>) /\ <<c>> \in Seq(Sample) /\ ToSet(<<c>>) = {c}
    BY DEF NoRepeat, ToSet
  <2>2. NoRepeat(ephemeralCounters)
    BY DEF Places, CountersApart
  <2>3. NoRepeat(<<c>> \o ephemeralCounters)
    BY <2>1, <2>2, NoRepeatConcat
  <2>4. NoRepeat(ephemeralCounters')
    BY <1>1 DEF NoRepeat
  <2> QED
    BY <1>3, <1>5, <1>7, <2>3, <2>4 DEF Places, CountersApart
<1> QED
  BY <1>9, <1>10, <1>11, <1>12, <1>13 DEF Places

(* A step that leaves the objects and the fragments as they are.               *)
LEMMA SamePlaces ==
  ASSUME Places, UNCHANGED <<heap, frags, rootFragments, resumeFrags, ephemeralCounters>>,
         UNCHANGED <<currentTxn, txns, compromisedTxns, resumeFragment, suspendingTxn>>
  PROVE  Places'
<1>1. \A r : /\ First(r)' = First(r) /\ (HasEnd(r)' <=> HasEnd(r)) /\ (InFrags(r)' <=> InFrags(r))
             /\ (InCompromised(r)' <=> InCompromised(r)) /\ (IsRoot(r)' <=> IsRoot(r))
  BY DEF First, HasEnd, CountersOf, InFrags, InCompromised, IsRoot
<1>2. TxnsApart' /\ TxnsEnded' /\ CompromisedOpen' /\ RootsEnded'
  BY <1>1 DEF Places, TxnsApart, TxnsEnded, CompromisedOpen, RootsEnded
<1>3. FragsApart' /\ ListsApart' /\ CurrentKept' /\ CountersApart'
  BY <1>1 DEF Places, FragsApart, ListsApart, CurrentKept, KeepBack, CountersApart
<1> QED
  BY <1>2, <1>3 DEF Places

(* endLoad.                                                                    *)
LEMMA EndLoadPlaces ==
  ASSUME IInv, LinkInv, TypeInv, LoadingCover, Places, EndLoad
  PROVE  Places'
<1>q. PICK q : q = currentTxn
  OBVIOUS
<1>0. /\ phase = "loading" /\ currentTxn' = None /\ heap' = heap /\ ephemeralCounters' = ephemeralCounters
      /\ frags' = frags /\ rootFragments' = rootFragments /\ resumeFrags' = resumeFrags
  BY DEF EndLoad, fragVars
<1>1. FragTypes /\ TxnsIn /\ compromisedTxns \in Seq(Nat) /\ heap \in Seq(Txn) /\ Len(heap) \in Nat
  <2>1. FragTypes /\ TxnsIn /\ compromisedTxns \in Seq(Nat)
    BY <1>0 DEF LinkInv, Before, TxnTypes, TxnsIn, TypeInv, SetAside
  <2> QED
    BY <2>1 DEF FragTypes
<1>2. \A r : First(r)' = First(r) /\ (HasEnd(r)' <=> HasEnd(r)) /\ (InFrags(r)' <=> InFrags(r)) /\ (IsRoot(r)' <=> IsRoot(r))
  BY <1>0 DEF First, HasEnd, CountersOf, InFrags, IsRoot
<1>3. q # None => q \in 1 .. Len(heap) /\ Opens(First(q)) /\ (heap[q].hasEndProbe <=> HasEnd(q))
  <2> SUFFICES ASSUME q # None PROVE q \in 1 .. Len(heap) /\ Opens(First(q)) /\ (heap[q].hasEndProbe <=> HasEnd(q))
    OBVIOUS
  <2>1. q \in 1 .. Len(heap)
    BY <1>1, <1>q DEF IInv, CurrentInv
  <2> QED
    BY <1>q, <2>1, ReadApart, CurrentHas
<1>4. \A r \in 1 .. Len(heap) : r # None
  BY <1>1, NoneAssumption
<1>5. /\ TxnsPlaced
      /\ \A r : InCompromised(r)' => InCompromised(r) \/ (r = q /\ q # None /\ ~ HasEnd(q))
  <2>1. CASE q # None /\ heap[q].hasEndProbe
    <3>1. AppendTxn(q) /\ compromisedTxns' = compromisedTxns
      BY <1>q, <2>1 DEF EndLoad
    <3>2. TxnsPlaced
      BY <1>1, <1>3, <1>q, <2>1, <3>1, AppendPlaces DEF Places
    <3> QED
      BY <3>1, <3>2 DEF InCompromised
  <2>2. CASE ~ (q # None /\ heap[q].hasEndProbe)
    <3>1. /\ txns' = txns
          /\ q = None => compromisedTxns' = compromisedTxns
          /\ q # None => compromisedTxns' = Append(compromisedTxns, q)
      BY <1>q, <2>2 DEF EndLoad
    <3>2. TxnsPlaced
      BY <1>1, <3>1 DEF TxnsPlaced, Places, TxnsApart, TxnsEnded, TxnsIn
    <3>3. CASE q = None
      BY <3>1, <3>2, <3>3 DEF InCompromised
    <3>4. CASE q # None
      <4>1. q \in Nat /\ ~ HasEnd(q)
        BY <1>1, <1>3, <2>2, <3>4
      <4>0. compromisedTxns' = Append(compromisedTxns, q) /\ compromisedTxns \in Seq(Nat)
        BY <1>1, <3>1, <3>4
      <4>2. /\ Len(compromisedTxns') = Len(compromisedTxns) + 1 /\ compromisedTxns'[Len(compromisedTxns) + 1] = q
            /\ \A k \in 1 .. Len(compromisedTxns) : compromisedTxns'[k] = compromisedTxns[k]
        BY <4>0, <4>1
      <4>3. \A k \in 1 .. Len(compromisedTxns') : k \in 1 .. Len(compromisedTxns) \/ k = Len(compromisedTxns) + 1
        BY <1>1, <4>2
      <4> QED
        BY <3>2, <3>4, <4>1, <4>2, <4>3 DEF InCompromised
    <3> QED
      BY <3>3, <3>4
  <2> QED
    BY <2>1, <2>2
<1>6. TxnsApart' /\ TxnsEnded'
  BY <1>0, <1>2, <1>4, <1>5 DEF TxnsPlaced, TxnsApart, TxnsEnded
<1>7. CompromisedOpen'
  BY <1>0, <1>2, <1>4, <1>5 DEF Places, CompromisedOpen
<1>8. RootsEnded' /\ FragsApart' /\ ListsApart' /\ CurrentKept' /\ CountersApart'
  BY <1>0, <1>2 DEF Places, RootsEnded, FragsApart, ListsApart, CurrentKept, CountersApart
<1> QED
  BY <1>6, <1>7, <1>8 DEF Places

-----------------------------------------------------------------------------
(* loadCounter without losses, branch by branch.                               *)
LEMMA LoadCounterPlaces ==
  ASSUME IInv, LinkInv, TypeInv, RecInv, LoadingCover, lost = {}, Places, LoadSample,
         NEW c, c = files[thread][pos], c.threadId = thread, c \in Loaded, Newest(Read, c),
         Resumes(c) => c.data \in Links, LoadCounter(c)
  PROVE  Places'
<1>0. phase = "loading"
  BY DEF LoadSample
<1>1. FragTypes /\ TxnsIn /\ CurrentLinks
  BY <1>0 DEF LinkInv, Before, TxnTypes, TxnsIn
<1>2. /\ ephemeralCounters \in Seq(Sample) /\ compromisedTxns \in Seq(Nat)
      /\ \A k \in 1 .. Len(compromisedTxns) : compromisedTxns[k] \in 1 .. Len(heap)
      /\ currentTxn # None => currentTxn \in 1 .. Len(heap)
  BY <1>1 DEF IInv, LoadInv, CurrentInv, TypeInv, SetAside, FragTypes
<1>3. /\ c \in Sample /\ c \notin Read /\ Apart(Read) /\ NoRepeat(ephemeralCounters)
  BY ReadApart DEF Newest, Places, CountersApart
<1>4. c \notin ToSet(ephemeralCounters)
  BY <1>3 DEF LoadingCover, AsideRead
<1>q. PICK q : q = currentTxn
  OBVIOUS
<1>5. q # None => /\ q \in 1 .. Len(heap) /\ Opens(First(q)) /\ heap[q].counters # <<>>
                  /\ \A d \in CountersOf(q) : d \in Read /\ d \notin ToSet(ephemeralCounters)
                  /\ (resumeFragment # None <=> Resumes(First(q)))
                  /\ (resumeFragment # None => frags[resumeFragment].txn = q)
                  /\ (Opens(c) => HasEnd(q)) /\ (Ending(c) => ~ HasEnd(q))
  <2> SUFFICES ASSUME q # None
               PROVE  /\ q \in 1 .. Len(heap) /\ Opens(First(q)) /\ heap[q].counters # <<>>
                      /\ \A d \in CountersOf(q) : d \in Read /\ d \notin ToSet(ephemeralCounters)
                      /\ (resumeFragment # None <=> Resumes(First(q)))
                      /\ (resumeFragment # None => frags[resumeFragment].txn = q)
                      /\ (Opens(c) => HasEnd(q)) /\ (Ending(c) => ~ HasEnd(q))
    OBVIOUS
  <2>1. q \in 1 .. Len(heap) /\ heap[q].counters # <<>>
    BY <1>2, <1>q DEF LoadingCover, Objects, ObjectsHold
  <2>2. /\ Opens(First(q)) /\ \A d \in CountersOf(q) : d \in Read
        /\ \A d \in ToSet(ephemeralCounters) : d \notin CountersOf(q)
    BY <1>3, <1>q, <2>1, CurrentHas
  <2>3. resumeFragment # None <=> Resumes(First(q))
    BY <1>q DEF LoadingCover, CurrentStretch, CurrentIs
  <2>4. resumeFragment # None => frags[resumeFragment].txn = q
    BY <1>1, <1>q DEF CurrentLinks
  <2>5. Opens(c) => HasEnd(q)
    BY <1>q, <2>1, ClosedBefore
  <2>6. Ending(c) => ~ HasEnd(q)
    BY <1>q, <2>1, OpenBefore
  <2> QED
    BY <2>1, <2>2, <2>3, <2>4, <2>5, <2>6
<1>6. CASE NextTxn(c)
  <2>1. q # None /\ Opens(c) /\ FlushEphemeral /\ AppendTxn(q) /\ BuildTxn(c) /\ currentTxn' = Len(heap) + 1
    BY <1>6, <1>q DEF NextTxn
  <2>2. TxnsPlaced
    BY <1>1, <1>5, <1>q, <2>1, AppendPlaces DEF Places
  <2> QED
    BY <1>1, <1>2, <1>3, <2>1, <2>2, BuildPlaces
<1>7. CASE FirstTxn(c)
  <2>1. currentTxn = None /\ BuildTxn(c) /\ currentTxn' = Len(heap) + 1 /\ FlushEphemeral /\ txns' = txns
    BY <1>7 DEF FirstTxn
  <2>2. TxnsPlaced
    BY <1>1, <2>1 DEF TxnsPlaced, Places, TxnsApart, TxnsEnded, TxnsIn
  <2> QED
    BY <1>1, <1>2, <1>3, <2>1, <2>2, BuildPlaces
<1>8. CASE AddInner(c)
  <2>cs. PICK cs : cs = <<c>>
    OBVIOUS
  <2>1. /\ q # None /\ heap' = [heap EXCEPT ![currentTxn] = AddCounters(@, cs, FALSE)]
        /\ currentTxn' = currentTxn /\ ephemeralCounters' = ephemeralCounters
        /\ UNCHANGED <<txns, compromisedTxns, resumeFragment>> /\ UNCHANGED suspendingTxn /\ UNCHANGED fragVars
    BY <1>8, <1>q, <2>cs DEF AddInner, sortVars
  <2>2. cs \in Seq(Sample) /\ NoRepeat(cs) /\ ToSet(cs) = {c}
    BY <1>3, <2>cs DEF NoRepeat, ToSet
  <2>3. \A d \in CountersOf(q) : d \notin ToSet(cs)
    BY <1>3, <1>5, <2>1, <2>2
  <2> QED
    BY <1>1, <1>3, <1>5, <1>q, <2>1, <2>2, <2>3, AddPlaces DEF LoadingCover, FragCover
<1>9. CASE CloseTxn(c)
  <2>cs. PICK cs : cs = Append(ephemeralCounters, c)
    OBVIOUS
  <2>1. /\ q # None /\ heap' = [heap EXCEPT ![currentTxn] = AddCounters(@, cs, TRUE)] /\ Ending(c)
        /\ currentTxn' = currentTxn /\ ephemeralCounters' = <<>>
        /\ UNCHANGED <<txns, compromisedTxns, resumeFragment>>
        /\ Suspends(c) => suspendingTxn' = TRUE /\ AddSuspendFragment(LinkOf(c), currentTxn, resumeFragment)
        /\ ~ Suspends(c) => UNCHANGED suspendingTxn /\ UNCHANGED fragVars
    BY <1>9, <1>q, <2>cs DEF CloseTxn, Ending
  <2>2. cs \in Seq(Sample) /\ ToSet(cs) = ToSet(ephemeralCounters) \cup {c}
    BY <1>2, <1>3, <2>cs, EphemeralSet
  <2>3. NoRepeat(cs)
    <3>1. \A i \in 1 .. Len(ephemeralCounters) : ephemeralCounters[i] # c
      BY <1>2, <1>4 DEF ToSet
    <3> QED
      BY <1>2, <1>3, <2>cs, <3>1, NoRepeatAppend
  <2>4. \A d \in CountersOf(q) : d \notin ToSet(cs)
    BY <1>3, <1>5, <2>1, <2>2
  <2>5. NoRepeat(ephemeralCounters')
    BY <2>1 DEF NoRepeat
  <2>6. ~ HasEnd(currentTxn) /\ c \in ToSet(cs)
    BY <1>5, <1>q, <2>1, <2>2
  <2>7. \/ UNCHANGED suspendingTxn /\ UNCHANGED fragVars
        \/ /\ suspendingTxn' = TRUE /\ ~ HasEnd(currentTxn)
           /\ \E d \in ToSet(cs) : d \in Sample /\ Ending(d) /\ AddSuspendFragment(LinkOf(d), currentTxn, resumeFragment)
    BY <1>3, <2>1, <2>6
  <2> QED
    BY <1>1, <1>5, <1>q, <2>1, <2>2, <2>3, <2>4, <2>5, <2>7, AddPlaces DEF LoadingCover, FragCover
<1>10. CASE AddEphemeral(c)
  BY <1>2, <1>3, <1>4, <1>10, AsidePlaces
<1>11. CASE Compromise(c)
  BY <1>1, <1>2, <1>3, <1>4, <1>11, CompromisePlaces
<1> QED
  BY <1>6, <1>7, <1>8, <1>9, <1>10, <1>11 DEF LoadCounter

(* loadCounter for the next sample of the file.                                *)
LEMMA LoadSamplePlaces ==
  ASSUME IInv, LinkInv, TypeInv, RecInv, LoadingCover, lost = {}, Places, LoadSample
  PROVE  Places'
<1>c. PICK c : c = files[thread][pos]
  OBVIOUS
<1>1. phase = "loading" /\ thread # None /\ pos <= Len(files[thread])
  BY DEF LoadSample
<1>2. c.site \in DOMAIN AppProbe => Newest(Read, c) /\ c.threadId = thread /\ c \in Loaded
  BY <1>c, ReadOne
<1>3. CASE c.site \in DOMAIN AppProbe
  <2>1. LoadCounter(c)
    BY <1>3, <1>c DEF LoadSample
  <2>2. Resumes(c) => c.data \in Links
    <3>1. pos \in DOMAIN files[thread] /\ thread \in Threads
      BY <1>1 DEF IInv, LoadInv, FilesInv
    <3> QED
      BY <1>3, <1>c, <3>1 DEF IInv, FilesInv, ResumesLinked
  <2> QED
    BY <1>2, <1>3, <1>c, <2>1, <2>2, LoadCounterPlaces
<1>4. CASE c.site \notin DOMAIN AppProbe
  <2>1. /\ UNCHANGED <<heap, frags, rootFragments, resumeFrags, ephemeralCounters>>
        /\ UNCHANGED <<currentTxn, txns, compromisedTxns, resumeFragment, suspendingTxn>>
    BY <1>4, <1>c DEF LoadSample, sortVars, fragVars
  <2> QED
    BY <2>1, SamePlaces
<1> QED
  BY <1>3, <1>4

(* Nothing is anywhere at first.                                               *)
LEMMA InitPlaces == Init => Places
<1> SUFFICES ASSUME Init PROVE Places
  OBVIOUS
<1>1. /\ heap = <<>> /\ frags = <<>> /\ txns = <<>> /\ rootFragments = <<>> /\ ephemeralCounters = <<>> /\ currentTxn = None
      /\ \A l \in Links : resumeFrags[l] = <<>>
  BY DEF Init
<1>2. /\ \A r \in 1 .. Len(heap) : FALSE
      /\ \A f \in 1 .. Len(frags) : FALSE
      /\ \A i \in DOMAIN txns : FALSE
  BY <1>1
<1>3. NoRepeat(<<>>)
  BY DEF NoRepeat
<1> QED
  BY <1>1, <1>2, <1>3 DEF Places, TxnsApart, TxnsEnded, CompromisedOpen, RootsEnded, FragsApart, ListsApart, CurrentKept, CountersApart

(* Every step until the fragments are joined. While samples are recorded there *)
(* is nothing to place.                                                        *)
Placed == Before /\ lost = {} => Places

(* Every step keeps the objects in their places until the files are loaded.    *)
LEMMA NextPlaces ==
  ASSUME IInv, LinkInv, TypeInv, RecInv, CoverInv, Placed, [Next]_vars
  PROVE  Placed'
<1> SUFFICES ASSUME Before', lost' = {} PROVE Places'
  BY DEF Placed
<1>1. ASSUME NEW t \in Threads, NEW s \in Sites, Record(t, s) PROVE Places'
  <2>1. /\ phase = "recording"
        /\ UNCHANGED <<heap, frags, rootFragments, resumeFrags, ephemeralCounters>>
        /\ UNCHANGED <<currentTxn, txns, compromisedTxns, resumeFragment, suspendingTxn>>
    BY <1>1 DEF Record, sortVars, fragVars
  <2>2. lost = {}
    BY <1>1 DEF Record
  <2> QED
    BY <2>1, <2>2, SamePlaces DEF Placed, Before
<1>2. CASE BeginCollection
  BY <1>2, SamePlaces DEF BeginCollection, Placed, Before, sortVars, fragVars, recordVars
<1>3. ASSUME NEW t \in Threads, BeginLoad(t) PROVE Places'
  BY <1>3, SamePlaces DEF BeginLoad, Placed, Before, sortVars, fragVars, recordVars
<1>4. CASE LoadSample
  <2>1. phase = "loading" /\ lost' = lost
    BY <1>4 DEF LoadSample, recordVars
  <2> QED
    BY <1>4, <2>1, LoadSamplePlaces DEF Placed, CoverInv, Before
<1>5. CASE EndLoad
  <2>1. phase = "loading" /\ lost' = lost
    BY <1>5 DEF EndLoad, recordVars
  <2> QED
    BY <1>5, <2>1, EndLoadPlaces DEF Placed, CoverInv, Before
<1>6. CASE EndCollection
  BY <1>6 DEF EndCollection, Before
<1>7. CASE JoinFragments
  BY <1>7 DEF JoinFragments, Before
<1>8. CASE AppendJoined
  BY <1>8 DEF AppendJoined, Before
<1>9. CASE GetData
  BY <1>9 DEF GetData, Before
<1>10. CASE UNCHANGED vars
  BY <1>10, SamePlaces DEF vars, Placed, Before, sortVars, fragVars, recordVars
<1> QED
  BY <1>1, <1>2, <1>3, <1>4, <1>5, <1>6, <1>7, <1>8, <1>9, <1>10 DEF Next

-----------------------------------------------------------------------------
(* Without losses a stretch has one closing counter, hence one link.           *)
LEMMA OneEnding ==
  ASSUME IInv, TypeInv, RecInv, lost = {}, NEW s \in Starts(Loaded),
         NEW d \in Stretch(Loaded, s), NEW e \in Stretch(Loaded, s), Ending(d), Ending(e), Earlier(d, e)
  PROVE  FALSE
<1>0. /\ Alternates(Loaded, open)
      /\ \A c \in Loaded : c.tsc \in Nat
      /\ \A c, x \in Loaded : c.tsc = x.tsc => c = x
  BY LoadedAre, LoadedDiffer DEF RecInv
<1>1. \A u \in Loaded : Opens(u) => u \in Starts(Loaded)
  BY <1>0 DEF Alternates, Starts
<1>2. /\ d \in Loaded /\ (d = s \/ Earlier(s, d)) /\ e \in Loaded
      /\ \A u \in Starts(Loaded) : Earlier(s, u) => Earlier(e, u)
  BY DEF Stretch, Region
<1>3. Opens(s) /\ s \in Loaded
  BY DEF Starts
<1>4. Earlier(s, d) /\ ~ Opens(d)
  BY <1>2, <1>3 DEF Ending
<1>5. PICK u \in Loaded : Earlier(u, e) /\ Opens(u) /\ ~ \E x \in Loaded : Earlier(u, x) /\ Earlier(x, e) /\ Ending(x)
  BY <1>0, <1>2 DEF Alternates
<1>6. Earlier(s, u)
  <2>1. ~ Earlier(u, d) /\ u.tsc # d.tsc
    BY <1>0, <1>2, <1>4, <1>5
  <2> QED
    BY <1>0, <1>2, <1>3, <1>4, <1>5, <2>1 DEF Earlier
<1>7. Earlier(e, u)
  BY <1>1, <1>2, <1>5, <1>6
<1> QED
  BY <1>0, <1>2, <1>5, <1>7 DEF Earlier

(* So it has at most one link.                                                 *)
LEMMA OneLink ==
  ASSUME IInv, TypeInv, RecInv, lost = {}, NEW s \in Starts(Loaded),
         NEW l \in LinksFrom(Loaded, s), NEW m \in LinksFrom(Loaded, s)
  PROVE  l = m
<1>1. PICK d \in Stretch(Loaded, s) : Ending(d) /\ LinkOf(d) = l
  BY DEF LinksFrom
<1>2. PICK e \in Stretch(Loaded, s) : Ending(e) /\ LinkOf(e) = m
  BY DEF LinksFrom
<1>3. d \in Loaded /\ e \in Loaded /\ d.threadId = s.threadId /\ e.threadId = s.threadId
  BY DEF Stretch, Region, Earlier
<1>4. ~ Earlier(d, e) /\ ~ Earlier(e, d)
  BY <1>1, <1>2, OneEnding
<1>5. d.tsc \in Nat /\ e.tsc \in Nat
  BY <1>3, LoadedAre
<1>6. d.tsc = e.tsc
  BY <1>3, <1>4, <1>5 DEF Earlier
<1>7. d = e
  BY <1>3, <1>6, LoadedDiffer
<1> QED
  BY <1>1, <1>2, <1>7

(* Different stretches have no counter in common.                              *)
LEMMA StretchesApart ==
  ASSUME IInv, TypeInv, NEW s \in Starts(Loaded), NEW u \in Starts(Loaded), s # u,
         NEW c \in Stretch(Loaded, s)
  PROVE  c \notin Stretch(Loaded, u)
<1> SUFFICES ASSUME c \in Stretch(Loaded, u) PROVE FALSE
  OBVIOUS
<1>1. /\ c \in Loaded /\ (c = s \/ Earlier(s, c)) /\ (c = u \/ Earlier(u, c))
      /\ (Earlier(s, u) => Earlier(c, u)) /\ (Earlier(u, s) => Earlier(c, s))
  BY DEF Stretch, Region
<1>2. s \in Loaded /\ u \in Loaded
  BY DEF Starts
<1>3. s.tsc \in Nat /\ u.tsc \in Nat /\ c.tsc \in Nat /\ s.tsc # u.tsc
  BY <1>1, <1>2, LoadedAre, LoadedDiffer
<1>4. s.threadId = u.threadId
  BY <1>1 DEF Earlier
<1>5. Earlier(s, u) \/ Earlier(u, s)
  BY <1>3, <1>4 DEF Earlier
<1> QED
  BY <1>1, <1>3, <1>5 DEF Earlier

-----------------------------------------------------------------------------
(* The stretches that continue u are those that resume under next.             *)
FollowsLink(u, next) == \A s \in Starts(Loaded) : Continues(u, s) <=> Resumes(s) /\ s.data = next

(* A closed stretch has a closing counter.                                     *)
LEMMA ClosedHasEnd ==
  ASSUME IInv, NEW s
  PROVE  IsClosed(Loaded, s) <=> \E e \in Stretch(Loaded, s) : Ending(e)
<1>1. \A e \in Region(Loaded, s) : e \in Loaded /\ e.tsc \in Nat
  BY LoadedAre DEF Region
<1>2. \A e \in Region(Loaded, s) : Ending(e) => e \in Stretch(Loaded, s)
  <2> TAKE e \in Region(Loaded, s)
  <2>1. e.tsc <= e.tsc
    BY <1>1
  <2> QED
    BY <2>1 DEF Stretch
<1>3. \A e \in Stretch(Loaded, s) : e \in Region(Loaded, s)
  BY DEF Stretch
<1> QED
  BY <1>2, <1>3 DEF IsClosed

(* When everything is loaded, the next of a fragment is what continues it; a   *)
(* transaction without a fragment was not suspended, or not resumed.           *)
LEMMA FragFollows ==
  ASSUME IInv, TypeInv, RecInv, FragTypes, LoadingCover, Places, lost = {}, Read = Loaded,
         NEW f \in 1 .. Len(frags)
  PROVE  FollowsLink(StartOf(f), frags[f].next)
<1>0. ObjectsHold /\ StartsHaveObjects /\ FragCover /\ FragsApart /\ Loaded \subseteq Sample
  BY LoadedAre DEF LoadingCover, Objects, Places
<1>1. PICK r \in 1 .. Len(heap) : r = frags[f].txn
  BY DEF FragTypes
<1>u. PICK u : u = StartOf(f)
  OBVIOUS
<1>2. Opens(u) /\ First(r) = u
  BY <1>0, <1>1, <1>u DEF FragCover, FragsKept, StartOf
<1>3. u \in Starts(Loaded) /\ CountersOf(r) = Stretch(Loaded, u)
  BY <1>0, <1>2 DEF ObjectsHold
<1>4. \A l \in Links : l \in LinksFrom(Loaded, u) <=> EndsUnder(CountersOf(r), l)
  BY <1>3, LinksAre
<1>5. \A l \in LinksFrom(Loaded, u) : l \in Links /\ suspendFrag[l] = f
  <2> TAKE l \in LinksFrom(Loaded, u)
  <2>1. l \in Links
    BY <1>0, LinksAreLinks
  <2>2. suspendFrag[l] # None /\ frags[suspendFrag[l]].txn = r
    BY <1>0, <1>2, <1>4, <2>1 DEF FragCover, SuspendsHaveFrags
  <2>3. suspendFrag[l] \in 1 .. Len(frags)
    BY <2>1, <2>2 DEF FragTypes
  <2> QED
    BY <1>0, <1>1, <2>1, <2>2, <2>3 DEF FragsApart
<1>6. frags[f].next # None => frags[f].next \in LinksFrom(Loaded, u)
  <2> SUFFICES ASSUME frags[f].next # None PROVE frags[f].next \in LinksFrom(Loaded, u)
    OBVIOUS
  <2>1. frags[f].next \in Links
    <3>1. frags[f] \in Frag
      BY DEF FragTypes
    <3> QED
      BY <3>1 DEF Frag
  <2>2. suspendFrag[frags[f].next] = f
    BY <1>0 DEF FragCover, NextsLinked
  <2>3. f # None
    BY NoneAssumption DEF FragTypes
  <2> QED
    BY <1>0, <1>1, <1>4, <2>1, <2>2, <2>3 DEF FragCover, SuspendsLinked
<1>7. ASSUME NEW s \in Starts(Loaded), Resumes(s)
      PROVE  s.data \in Links /\ resumeFrags[s.data] # <<>>
  <2>1. PICK q \in 1 .. Len(heap) : First(q) = s
    BY <1>0 DEF StartsHaveObjects
  <2>2. PICK g \in 1 .. Len(frags) : frags[g].txn = q
    BY <1>0, <1>7, <2>1 DEF FragCover, ResumesHaveFrags
  <2>3. s.data \in Links /\ IsResume(g, s.data)
    BY <1>0, <1>7, <2>1, <2>2 DEF FragCover, FragsKept, StartOf
  <2> QED
    BY <2>3 DEF IsResume
<1>8. ASSUME NEW s \in Starts(Loaded), Continues(u, s) PROVE s.data = frags[f].next
  <2>1. Resumes(s) /\ s.data \in LinksFrom(Loaded, u)
    BY <1>8 DEF Continues
  <2>2. suspendFrag[s.data] = f /\ s.data \in Links /\ resumeFrags[s.data] # <<>>
    BY <1>5, <1>7, <2>1
  <2>3. f # None
    BY NoneAssumption DEF FragTypes
  <2>4. frags[f].next # None
    BY <1>0, <2>2, <2>3 DEF FragCover, SuspendsLinked
  <2> QED
    BY <1>3, <1>6, <2>1, <2>4, OneLink
<1>9. ASSUME NEW s \in Starts(Loaded), Resumes(s), s.data = frags[f].next PROVE Continues(u, s)
  <2>1. s.data # None
    BY <1>7, <1>9, NoneAssumption
  <2> QED
    BY <1>6, <1>9, <2>1 DEF Continues
<1>10. \A s \in Starts(Loaded) : Continues(u, s) => Resumes(s)
  BY DEF Continues
<1> QED
  BY <1>8, <1>9, <1>10, <1>u DEF FollowsLink

(* A stretch without a fragment begins a transaction that nothing resumes.     *)
LEMMA NothingFollows ==
  ASSUME IInv, FragTypes, LoadingCover, Read = Loaded,
         NEW r \in 1 .. Len(heap), Opens(First(r)), ~ InFrags(r)
  PROVE  ~ Resumes(First(r)) /\ FollowsLink(First(r), None)
<1>0. ObjectsHold /\ StartsHaveObjects /\ FragCover /\ Loaded \subseteq Sample
  BY LoadedAre DEF LoadingCover, Objects
<1>1. ~ Resumes(First(r))
  BY <1>0 DEF FragCover, ResumesHaveFrags, InFrags
<1>2. CountersOf(r) = Stretch(Loaded, First(r))
  BY <1>0 DEF ObjectsHold
<1>3. ASSUME NEW l \in LinksFrom(Loaded, First(r)) PROVE FALSE
  <2>1. l \in Links
    BY <1>0, LinksAreLinks
  <2>2. EndsUnder(CountersOf(r), l)
    BY <1>2, LinksAre
  <2>3. suspendFrag[l] # None /\ frags[suspendFrag[l]].txn = r
    BY <1>0, <2>1, <2>2 DEF FragCover, SuspendsHaveFrags
  <2>4. suspendFrag[l] \in 1 .. Len(frags)
    BY <2>1, <2>3 DEF FragTypes
  <2> QED
    BY <2>3, <2>4 DEF InFrags
<1>4. \A s \in Starts(Loaded) : ~ Continues(First(r), s)
  BY <1>3 DEF Continues
<1>5. ASSUME NEW s \in Starts(Loaded), Resumes(s) PROVE s.data # None
  <2>1. PICK q \in 1 .. Len(heap) : First(q) = s
    BY <1>0 DEF StartsHaveObjects
  <2>2. PICK g \in 1 .. Len(frags) : frags[g].txn = q
    BY <1>0, <1>5, <2>1 DEF FragCover, ResumesHaveFrags
  <2>3. s.data \in Links
    BY <1>0, <1>5, <2>1, <2>2 DEF FragCover, FragsKept, StartOf
  <2> QED
    BY <2>3, NoneAssumption
<1> QED
  BY <1>1, <1>4, <1>5 DEF FollowsLink

-----------------------------------------------------------------------------
(* Chains that begin like an execution. In a path the time stamps grow, so it  *)
(* is no longer than there are stretches.                                      *)
End(p) == p[Len(p)]
Path(p) ==
  /\ p \in Seq(Starts(Loaded)) /\ p # <<>> /\ Len(p) <= Cardinality(Upto(End(p)))
  /\ \A i \in 1 .. Len(p) - 1 : Continues(p[i], p[i + 1])
  /\ \A i \in 1 .. Len(p) : p[i].tsc <= End(p).tsc
  /\ ~ Resumes(p[1]) /\ IsClosed(Loaded, p[1])
Leads(p, q) == Len(p) <= Len(q) /\ \A i \in 1 .. Len(p) : p[i] = q[i]

(* A stretch that begins a transaction and was closed is a path.               *)
LEMMA PathBegins ==
  ASSUME IInv, TypeInv, NEW s \in Starts(Loaded), ~ Resumes(s), IsClosed(Loaded, s)
  PROVE  Path(<<s>>) /\ End(<<s>>) = s /\ CountersOfChain(<<s>>) = Stretch(Loaded, s)
<1>1. s.tsc \in Nat
  BY LoadedAre DEF Starts
<1>2. s \in Upto(s) /\ IsFiniteSet(Upto(s)) /\ Cardinality(Upto(s)) \in Nat
  BY <1>1, StartsFinite DEF Upto
<1>3. Cardinality(Upto(s)) >= 1
  BY <1>2, FS_EmptySet
<1>p. PICK p : p = <<s>>
  OBVIOUS
<1>4. p \in Seq(Starts(Loaded)) /\ p # <<>> /\ Len(p) = 1 /\ p[1] = s /\ DOMAIN p = {1}
  BY <1>p
<1>5. End(p) = s
  BY <1>4 DEF End
<1>6. /\ \A i \in 1 .. Len(p) - 1 : FALSE
      /\ \A i \in 1 .. Len(p) : i = 1
  BY <1>4
<1>7. Path(p)
  BY <1>1, <1>3, <1>4, <1>5, <1>6 DEF Path
<1>8. CountersOfChain(p) = Stretch(Loaded, s)
  BY <1>4 DEF CountersOfChain
<1> QED
  BY <1>5, <1>7, <1>8, <1>p

(* A path and a stretch that continues it are a path; they share no counter.   *)
LEMMA PathGrows ==
  ASSUME IInv, TypeInv, RecInv, NEW p, Path(p), NEW s \in Starts(Loaded), Continues(End(p), s)
  PROVE  /\ Path(Append(p, s)) /\ End(Append(p, s)) = s
         /\ CountersOfChain(Append(p, s)) = CountersOfChain(p) \cup Stretch(Loaded, s)
         /\ \A c \in CountersOfChain(p) : c \notin Stretch(Loaded, s)
<1> DEFINE S == Starts(Loaded)
           q == Append(p, s)
<1>u. PICK u : u = End(p)
  OBVIOUS
<1>1. /\ p \in Seq(S) /\ p # <<>> /\ Len(p) <= Cardinality(Upto(u)) /\ u = p[Len(p)]
      /\ \A i \in 1 .. Len(p) - 1 : Continues(p[i], p[i + 1])
      /\ \A i \in 1 .. Len(p) : p[i].tsc <= u.tsc
      /\ ~ Resumes(p[1]) /\ IsClosed(Loaded, p[1])
  BY <1>u DEF Path, End
<1>3. s \in S
  OBVIOUS
<1>t. \A v \in S : v.tsc \in Nat
  BY LoadedAre DEF Starts
<1>4. /\ q \in Seq(S) /\ Len(q) = Len(p) + 1 /\ Len(p) \in Nat \ {0} /\ q[Len(p) + 1] = s
      /\ (\A i \in 1 .. Len(p) : q[i] = p[i] /\ p[i] \in S) /\ DOMAIN q = 1 .. Len(p) + 1 /\ DOMAIN p = 1 .. Len(p)
  <2> HIDE DEF S
  <2> QED
    BY <1>1, <1>3
<1>0. u \in S /\ u.tsc < s.tsc
  <2>1. u \in S
    BY <1>1, <1>4
  <2> QED
    BY <1>u, <2>1, ContinuesLater
<1>2. Cardinality(Upto(u)) + 1 <= Cardinality(Upto(s))
  <2>1. s \notin Upto(u) /\ Upto(u) \cup {s} \in SUBSET Upto(s)
    BY <1>0, <1>t DEF Upto
  <2>2. Cardinality(Upto(u) \cup {s}) = Cardinality(Upto(u)) + 1
    BY <2>1, StartsFinite, FS_AddElement
  <2>3. Cardinality(Upto(u) \cup {s}) <= Cardinality(Upto(s))
    BY <2>1, StartsFinite, FS_Subset
  <2> QED
    BY <2>2, <2>3
<1> HIDE DEF q, S
<1>5. q # <<>> /\ q[1] = p[1] /\ End(q) = s
  BY <1>4 DEF End
<1>n. Len(q) = Len(p) + 1 /\ Len(p) \in Nat \ {0}
  BY <1>4
<1>6. \A i \in 1 .. Len(q) - 1 : Continues(q[i], q[i + 1])
  <2> TAKE i \in 1 .. Len(q) - 1
  <2>1. CASE i = Len(p)
    <3>1. q[i] = u /\ q[i + 1] = s
      BY <1>1, <1>4, <2>1
    <3> QED
      BY <1>u, <3>1
  <2>2. CASE i # Len(p)
    <3>1. i \in 1 .. Len(p) - 1 /\ i \in 1 .. Len(p) /\ i + 1 \in 1 .. Len(p)
      BY <1>n, <2>2
    <3>2. q[i] = p[i] /\ q[i + 1] = p[i + 1]
      BY <1>4, <3>1
    <3> QED
      BY <1>1, <3>1, <3>2
  <2> QED
    BY <2>1, <2>2
<1>7. Len(q) <= Cardinality(Upto(s))
  <2>1. Cardinality(Upto(u)) \in Nat /\ Cardinality(Upto(s)) \in Nat
    BY StartsFinite
  <2> QED
    BY <1>1, <1>2, <1>4, <2>1
<1>8. \A i \in 1 .. Len(q) : q[i].tsc <= s.tsc
  <2> TAKE i \in 1 .. Len(q)
  <2>1. CASE i = Len(p) + 1
    BY <1>3, <1>4, <1>t, <2>1
  <2>2. CASE i # Len(p) + 1
    <3>1. i \in 1 .. Len(p)
      BY <1>4, <2>2
    <3>2. q[i].tsc <= u.tsc /\ q[i].tsc \in Nat /\ u.tsc \in Nat /\ s.tsc \in Nat
      BY <1>0, <1>1, <1>3, <1>4, <1>t, <3>1
    <3> QED
      BY <1>0, <3>2
  <2> QED
    BY <2>1, <2>2
<1>9. Path(q)
  BY <1>1, <1>4, <1>5, <1>6, <1>7, <1>8 DEF Path, S
<1>10. CountersOfChain(q) = CountersOfChain(p) \cup Stretch(Loaded, s)
  <2>1. \A k \in 1 .. Len(p) + 1 : k \in 1 .. Len(p) \/ k = Len(p) + 1
    BY <1>4
  <2>2. \A k \in 1 .. Len(p) : k \in 1 .. Len(p) + 1
    BY <1>4
  <2>3. Len(p) + 1 \in 1 .. Len(p) + 1
    BY <1>4
  <2>4. \A c : c \in CountersOfChain(q) <=> \E k \in 1 .. Len(p) + 1 : c \in Stretch(Loaded, q[k])
    BY <1>4 DEF CountersOfChain
  <2>5. \A c : c \in CountersOfChain(p) <=> \E k \in 1 .. Len(p) : c \in Stretch(Loaded, p[k])
    BY <1>4 DEF CountersOfChain
  <2> QED
    BY <1>4, <2>1, <2>2, <2>3, <2>4, <2>5
<1>11. \A c \in CountersOfChain(p) : c \notin Stretch(Loaded, s)
  <2> TAKE c \in CountersOfChain(p)
  <2>1. PICK k \in 1 .. Len(p) : c \in Stretch(Loaded, p[k])
    BY <1>4 DEF CountersOfChain
  <2>2. p[k] \in S /\ p[k].tsc <= u.tsc
    BY <1>1, <1>4
  <2>3. p[k].tsc \in Nat /\ u.tsc \in Nat /\ s.tsc \in Nat
    BY <1>0, <1>3, <1>t, <2>2
  <2>4. p[k] # s
    BY <1>0, <2>2, <2>3
  <2> QED
    BY <1>3, <2>1, <2>2, <2>4, StretchesApart DEF S
<1> QED
  BY <1>5, <1>9, <1>10, <1>11 DEF q

(* A path is a chain of the property.                                          *)
LEMMA PathIsChain ==
  ASSUME IInv, TypeInv, NEW p, Path(p)
  PROVE  p \in Chains
<1> DEFINE S == Starts(Loaded)
           n == Cardinality(S)
<1>1. p \in Seq(S) /\ Len(p) \in 0 .. n /\ p # <<>> /\ \A i \in 1 .. Len(p) - 1 : Continues(p[i], p[i + 1])
  BY StartsFinite DEF Path
<1> HIDE DEF S, n
<1>2. p \in [1 .. Len(p) -> S]
  BY <1>1
<1>3. p \in BoundedSeq(S, n)
  BY <1>1, <1>2 DEF BoundedSeq, SeqOf
<1> QED
  BY <1>1, <1>3 DEF Chains, S, n

(* What an execution is made of.                                               *)
LEMMA ExecutionIs ==
  ASSUME IInv, TypeInv, NEW e \in Executions
  PROVE  /\ e \in Seq(Starts(Loaded)) /\ Len(e) \in Nat \ {0}
         /\ \A i \in 1 .. Len(e) : e[i] \in Starts(Loaded)
         /\ \A i \in 1 .. Len(e) - 1 : Continues(e[i], e[i + 1])
         /\ ~ Resumes(e[1]) /\ IsClosed(Loaded, e[1])
         /\ \A s \in Starts(Loaded) : ~ Continues(End(e), s)
<1> DEFINE S == Starts(Loaded)
           n == Cardinality(S)
<1>1. e \in BoundedSeq(S, n) /\ e # <<>> /\ \A i \in 1 .. Len(e) - 1 : Continues(e[i], e[i + 1])
  BY DEF Executions, Chains
<1> HIDE DEF S, n
<1>2. PICK m \in 0 .. n : e \in [1 .. m -> S]
  BY <1>1 DEF BoundedSeq, SeqOf
<1>3. m \in Nat
  BY <1>2, StartsFinite DEF n, S
<1>4. e \in Seq(S) /\ Len(e) = m
  BY <1>2, <1>3, ListOf
<1>5. m # 0
  BY <1>1, <1>4
<1>6. \A i \in 1 .. Len(e) : e[i] \in S
  BY <1>4
<1>7. /\ ~ Resumes(e[1]) /\ IsClosed(Loaded, e[1])
      /\ \A s \in Starts(Loaded) : ~ Continues(End(e), s)
  BY DEF Executions, End
<1> QED
  BY <1>1, <1>3, <1>4, <1>5, <1>6, <1>7 DEF S

(* Paths that lead to each other, and where they part.                         *)
LEMMA LeadsApart ==
  ASSUME NEW S, NEW p \in Seq(S), NEW q \in Seq(S), NEW s \in S, NEW u \in S
  PROVE  /\ Leads(p, p)
         /\ Leads(p, Append(p, s))
         /\ Leads(Append(p, s), q) => Leads(p, q)
         /\ Leads(q, Append(p, s)) => Leads(q, p) \/ Leads(p, q)
         /\ Leads(Append(p, s), Append(p, u)) => s = u
         /\ Leads(p, q) /\ Len(p) < Len(q) /\ q[Len(p) + 1] = s => Leads(Append(p, s), q)
<1> DEFINE a == Append(p, s)
           b == Append(p, u)
<1>1. /\ Len(p) \in Nat /\ Len(q) \in Nat /\ Len(a) = Len(p) + 1 /\ a[Len(p) + 1] = s /\ \A i \in 1 .. Len(p) : a[i] = p[i]
      /\ Len(b) = Len(p) + 1 /\ b[Len(p) + 1] = u
  OBVIOUS
<1> HIDE DEF a, b
<1>2. \A i \in 1 .. Len(p) : i \in 1 .. Len(p) + 1
  BY <1>1
<1>3. \A i \in 1 .. Len(p) + 1 : i \in 1 .. Len(p) \/ i = Len(p) + 1
  BY <1>1
<1>4. Len(p) + 1 \in 1 .. Len(p) + 1
  BY <1>1
<1>5. Leads(p, p) /\ Leads(p, a)
  BY <1>1 DEF Leads
<1>6. Leads(a, q) => Leads(p, q)
  BY <1>1, <1>2 DEF Leads
<1>7. Leads(q, a) => Leads(q, p) \/ Leads(p, q)
  <2> SUFFICES ASSUME Leads(q, a) PROVE Leads(q, p) \/ Leads(p, q)
    OBVIOUS
  <2>1. Len(q) <= Len(p) + 1 /\ \A i \in 1 .. Len(q) : q[i] = a[i]
    BY <1>1 DEF Leads
  <2>2. CASE Len(q) <= Len(p)
    <3>1. \A i \in 1 .. Len(q) : i \in 1 .. Len(p)
      BY <1>1, <2>2
    <3> QED
      BY <1>1, <2>1, <2>2, <3>1 DEF Leads
  <2>3. CASE ~ (Len(q) <= Len(p))
    <3>1. Len(q) = Len(p) + 1
      BY <1>1, <2>1, <2>3
    <3>2. \A i \in 1 .. Len(p) : i \in 1 .. Len(q)
      BY <1>1, <3>1
    <3>3. Len(p) <= Len(q)
      BY <1>1, <3>1
    <3> QED
      BY <1>1, <2>1, <3>2, <3>3 DEF Leads
  <2> QED
    BY <2>2, <2>3
<1>8. Leads(a, b) => s = u
  BY <1>1, <1>4 DEF Leads
<1>9. Leads(p, q) /\ Len(p) < Len(q) /\ q[Len(p) + 1] = s => Leads(a, q)
  BY <1>1, <1>3 DEF Leads
<1> QED
  BY <1>5, <1>6, <1>7, <1>8, <1>9 DEF a, b

(* A path that nothing continues and that leads to an execution is it.         *)
LEMMA LeadsAll ==
  ASSUME IInv, TypeInv, NEW e \in Executions, NEW p, Path(p), Leads(p, e),
         \A s \in Starts(Loaded) : ~ Continues(End(p), s)
  PROVE  p = e
<1>1. /\ e \in Seq(Starts(Loaded)) /\ Len(e) \in Nat \ {0}
      /\ \A i \in 1 .. Len(e) : e[i] \in Starts(Loaded)
      /\ \A i \in 1 .. Len(e) - 1 : Continues(e[i], e[i + 1])
  BY ExecutionIs
<1>2. p \in Seq(Starts(Loaded)) /\ p # <<>>
  BY DEF Path
<1>3. Len(p) \in Nat \ {0}
  BY <1>2
<1>4. Len(p) <= Len(e) /\ \A i \in 1 .. Len(p) : p[i] = e[i]
  BY DEF Leads
<1>5. ~ (Len(p) < Len(e))
  <2> SUFFICES ASSUME Len(p) < Len(e) PROVE FALSE
    OBVIOUS
  <2>1. Len(p) \in 1 .. Len(e) - 1 /\ Len(p) + 1 \in 1 .. Len(e) /\ Len(p) \in 1 .. Len(p)
    BY <1>1, <1>3
  <2>2. Continues(e[Len(p)], e[Len(p) + 1]) /\ e[Len(p)] = End(p) /\ e[Len(p) + 1] \in Starts(Loaded)
    BY <1>1, <1>4, <2>1 DEF End
  <2> QED
    BY <2>2
<1>6. Len(p) = Len(e)
  BY <1>1, <1>3, <1>4, <1>5
<1>7. p \in [1 .. Len(e) -> Starts(Loaded)] /\ e \in [1 .. Len(e) -> Starts(Loaded)]
  BY <1>1, <1>2, <1>6
<1> QED
  BY <1>4, <1>6, <1>7

-----------------------------------------------------------------------------
(* Joining without losses. An item is a transaction that is reported, joined   *)
(* or being joined. Each is the stretches of a path ch: no path leads to       *)
(* another, one leads to every execution, and joinFragments has to continue    *)
(* each with whatever continues its path.                                      *)
InJoined(x) == \E k \in 1 .. Len(joined) : joined[k] = x
Item(x) == InTxns(x) \/ Out(x)

ItemsAre(ch) == \A x \in 1 .. Len(heap) : Item(x) => Path(ch[x]) /\ CountersOf(x) = CountersOfChain(ch[x])
ItemsPart(ch) == \A x, y \in 1 .. Len(heap) : Item(x) /\ Item(y) /\ Leads(ch[x], ch[y]) => x = y
ItemsLead(ch) == \A e \in Executions : \E x \in 1 .. Len(heap) : Item(x) /\ Leads(ch[x], e)
ItemsOver(ch) == \A x \in 1 .. Len(heap) : InTxns(x) \/ InJoined(x) => FollowsLink(End(ch[x]), None)
WorkFollows(ch) == \A k \in 1 .. Len(work) : FollowsLink(End(ch[work[k][1]]), work[k][2])
Following(ch) == ItemsAre(ch) /\ ItemsPart(ch) /\ ItemsLead(ch) /\ ItemsOver(ch) /\ WorkFollows(ch)

NextsFollow ==
  /\ \A l \in Links : \A f \in 1 .. Len(frags) : IsResume(f, l) => FollowsLink(StartOf(f), frags[f].next)
  /\ \A l \in Links : NoRepeat(resumeFrags[l])
NoCounterTwice == \A r \in 1 .. Len(heap) : NoRepeat(heap[r].counters)
WorkApart ==
  /\ \A j, k \in 1 .. Len(work) : work[j][1] = work[k][1] => j = k
  /\ \A k \in 1 .. Len(work) : ~ InTxns(work[k][1]) /\ ~ InJoined(work[k][1])
IdsApart ==
  /\ \A j, k \in 1 .. Len(joined) : heap[joined[j]].txnId = heap[joined[k]].txnId => j = k
  /\ \A k \in 1 .. Len(joined) : ~ InTxns(joined[k]) /\ heap[joined[k]].txnId \notin DOMAIN txns
JoinPlaces == NextsFollow /\ NoCounterTwice /\ TxnsApart /\ WorkApart /\ IdsApart

(* What was recorded does not change while the fragments are joined.           *)
LEMMA SameGraph ==
  ASSUME Loaded' = Loaded
  PROVE  /\ \A p : (Path(p)' <=> Path(p)) /\ CountersOfChain(p)' = CountersOfChain(p)
         /\ \A u, n : FollowsLink(u, n)' <=> FollowsLink(u, n)
         /\ Executions' = Executions
<1>1. \A a, b : Continues(a, b)' <=> Continues(a, b)
  BY DEF Continues
<1>2. \A s : Upto(s)' = Upto(s)
  BY DEF Upto
<1>3. \A p : Path(p)' <=> Path(p)
  BY <1>1, <1>2 DEF Path, End
<1>4. \A p : CountersOfChain(p)' = CountersOfChain(p)
  BY DEF CountersOfChain
<1>5. \A u, n : FollowsLink(u, n)' <=> FollowsLink(u, n)
  BY <1>1 DEF FollowsLink
<1>6. Chains' = Chains
  BY <1>1 DEF Chains
<1>7. Executions' = Executions
  BY <1>1, <1>6 DEF Executions
<1> QED
  BY <1>3, <1>4, <1>5, <1>7

(* endCollection: the paths are the first stretches.                           *)
LEMMA EndCollectionFollows ==
  ASSUME IInv, LinkInv, TypeInv, RecInv, LoadingCover, Places, lost = {}, EndCollection
  PROVE  JoinPlaces' /\ \E ch : Following(ch)'
<1>0. /\ phase = "loading" /\ thread = None /\ pending = {} /\ currentTxn = None
      /\ frags' = frags /\ resumeFrags' = resumeFrags /\ heap' = heap /\ txns' = txns /\ files' = files
  BY DEF EndCollection, recordVars, sortVars, fragVars, IInv, CurrentInv
<1>1. FragTypes /\ TxnsIn /\ Len(heap) \in Nat
  <2>1. FragTypes /\ TxnsIn
    BY <1>0 DEF LinkInv, TxnTypes, TxnsIn
  <2> QED
    BY <2>1 DEF FragTypes
<1>2. Loaded' = Loaded /\ Loaded \subseteq Sample /\ Read = Loaded
  BY <1>0, LoadedAre, ReadAll DEF Loaded
<1>3. /\ \A p : (Path(p)' <=> Path(p)) /\ CountersOfChain(p)' = CountersOfChain(p)
      /\ \A u, n : FollowsLink(u, n)' <=> FollowsLink(u, n)
      /\ Executions' = Executions
  BY <1>2, SameGraph
<1>4. /\ \A r : CountersOf(r)' = CountersOf(r) /\ (InTxns(r)' <=> InTxns(r)) /\ First(r)' = First(r)
      /\ \A f : StartOf(f)' = StartOf(f)
      /\ \A f, l : IsResume(f, l)' <=> IsResume(f, l)
  BY <1>0 DEF CountersOf, InTxns, StartOf, First, IsResume
<1>5. /\ Len(work') = Len(rootFragments) /\ joined' = <<>>
      /\ \A k \in 1 .. Len(rootFragments) : /\ work'[k][1] = frags[rootFragments[k]].txn
                                            /\ work'[k][2] = frags[rootFragments[k]].next
  BY RootsOut
<1>6. /\ \A x : ~ InJoined(x)'
      /\ \A x : Out(x)' <=> \E k \in 1 .. Len(rootFragments) : frags[rootFragments[k]].txn = x
  <2>1. \A k \in 1 .. Len(joined') : FALSE
    BY <1>5
  <2> QED
    BY <1>5, <2>1 DEF Out, InJoined
<1>7. /\ ObjectsHold /\ ObjectsPlaced /\ ObjectsDiffer /\ StartsHaveObjects /\ FragCover
      /\ TxnsApart /\ TxnsEnded /\ CompromisedOpen /\ RootsEnded /\ FragsApart /\ ListsApart /\ CountersApart
  BY DEF LoadingCover, Objects, Places
<1>8. /\ \A f \in 1 .. Len(frags) : frags[f].txn \in 1 .. Len(heap)
      /\ \A k \in 1 .. Len(rootFragments) : rootFragments[k] \in 1 .. Len(frags)
  BY <1>1 DEF FragTypes
<1>9. \A f \in 1 .. Len(frags) : FollowsLink(StartOf(f), frags[f].next)
  BY <1>1, <1>2, FragFollows
<1>10. \A k \in 1 .. Len(rootFragments) : IsRoot(rootFragments[k]) /\ InFrags(frags[rootFragments[k]].txn)
  BY <1>8 DEF IsRoot, InFrags
<1>11. ASSUME NEW x \in 1 .. Len(heap), Item(x)'
       PROVE  /\ First(x) \in Starts(Loaded) /\ ~ Resumes(First(x)) /\ IsClosed(Loaded, First(x))
              /\ CountersOf(x) = Stretch(Loaded, First(x))
  <2>1. Opens(First(x)) /\ HasEnd(x) /\ ~ Resumes(First(x))
    <3>1. CASE InTxns(x)
      <4>1. Opens(First(x)) /\ HasEnd(x) /\ ~ InFrags(x)
        BY <1>7, <3>1 DEF TxnsEnded, InTxns
      <4> QED
        BY <1>1, <1>2, <4>1, NothingFollows
    <3>2. CASE Out(x)'
      <4>1. PICK k \in 1 .. Len(rootFragments) : frags[rootFragments[k]].txn = x
        BY <1>6, <3>2
      <4>2. PICK f \in 1 .. Len(frags) : f = rootFragments[k]
        BY <1>8
      <4>3. IsRoot(f) /\ frags[f].txn = x /\ StartOf(f) = First(x)
        BY <1>10, <4>1, <4>2 DEF StartOf
      <4> QED
        BY <1>7, <4>3 DEF FragCover, FragsKept, RootsKept, RootsEnded
    <3> QED
      BY <1>4, <1>11, <3>1, <3>2 DEF Item
  <2>2. First(x) \in Starts(Loaded) /\ CountersOf(x) = Stretch(Loaded, First(x))
    BY <1>2, <1>7, <2>1 DEF ObjectsHold
  <2>3. IsClosed(Loaded, First(x))
    BY <2>1, <2>2, ClosedHasEnd DEF HasEnd
  <2> QED
    BY <2>1, <2>2, <2>3
<1>c. PICK ch : ch = [x \in 1 .. Len(heap) |-> <<First(x)>>]
  OBVIOUS
<1>12. \A x \in 1 .. Len(heap) : ch[x] = <<First(x)>> /\ Len(ch[x]) = 1 /\ ch[x][1] = First(x) /\ End(ch[x]) = First(x)
  BY <1>c DEF End
<1>13. ItemsAre(ch)'
  <2>1. ASSUME NEW x \in 1 .. Len(heap), Item(x)' PROVE Path(ch[x]) /\ CountersOf(x) = CountersOfChain(ch[x])
    <3>1. Path(<<First(x)>>) /\ CountersOfChain(<<First(x)>>) = Stretch(Loaded, First(x))
      BY <1>11, <2>1, PathBegins
    <3> QED
      BY <1>11, <1>12, <2>1, <3>1
  <2> QED
    BY <1>0, <1>3, <1>4, <2>1 DEF ItemsAre
<1>14. ItemsPart(ch)'
  <2>1. ASSUME NEW x \in 1 .. Len(heap), NEW y \in 1 .. Len(heap), Leads(ch[x], ch[y]) PROVE x = y
    <3>1. First(x) = First(y)
      BY <1>12, <2>1 DEF Leads
    <3> QED
      BY <1>7, <3>1 DEF ObjectsDiffer
  <2> QED
    BY <1>0, <2>1 DEF ItemsPart, Leads
<1>15. ItemsLead(ch)'
  <2>1. ASSUME NEW e \in Executions PROVE \E x \in 1 .. Len(heap) : Item(x)' /\ Leads(ch[x], e)
    <3>1. Len(e) \in Nat \ {0} /\ e[1] \in Starts(Loaded) /\ ~ Resumes(e[1]) /\ IsClosed(Loaded, e[1])
      <4>1. /\ Len(e) \in Nat \ {0} /\ ~ Resumes(e[1]) /\ IsClosed(Loaded, e[1])
            /\ \A i \in 1 .. Len(e) : e[i] \in Starts(Loaded)
        BY ExecutionIs
      <4>2. 1 \in 1 .. Len(e)
        BY <4>1
      <4> QED
        BY <4>1, <4>2
    <3>2. PICK x \in 1 .. Len(heap) : First(x) = e[1]
      BY <1>2, <1>7, <3>1 DEF StartsHaveObjects
    <3>3. Opens(First(x)) /\ CountersOf(x) = Stretch(Loaded, First(x))
      BY <1>2, <1>7, <3>1, <3>2 DEF ObjectsHold, Starts
    <3>4. HasEnd(x)
      BY <3>1, <3>2, <3>3, ClosedHasEnd DEF HasEnd
    <3>5. ~ InCompromised(x)
      BY <1>7, <3>3, <3>4 DEF CompromisedOpen
    <3>6. x # currentTxn
      BY <1>0, <1>1, NoneAssumption
    <3>7. InTxns(x) \/ InFrags(x)
      BY <1>7, <3>5, <3>6 DEF ObjectsPlaced
    <3>8. InFrags(x) => Out(x)'
      <4> SUFFICES ASSUME NEW f \in 1 .. Len(frags), frags[f].txn = x PROVE Out(x)'
        BY DEF InFrags
      <4>1. IsRoot(f)
        BY <1>7, <3>1, <3>2 DEF FragCover, FragsKept, StartOf
      <4> QED
        BY <1>6, <4>1 DEF IsRoot
    <3>9. Leads(ch[x], e)
      <4>p. PICK p : p = ch[x]
        OBVIOUS
      <4>1. Len(p) = 1 /\ p[1] = e[1]
        BY <1>12, <3>2, <4>p
      <4>2. \A i \in 1 .. Len(p) : i = 1
        BY <4>1
      <4>3. Leads(p, e)
        BY <3>1, <4>1, <4>2 DEF Leads
      <4> QED
        BY <4>3, <4>p
    <3> QED
      BY <1>4, <3>7, <3>8, <3>9 DEF Item
  <2> QED
    BY <1>0, <1>3, <2>1 DEF ItemsLead, Leads
<1>16. ItemsOver(ch)'
  <2>1. ASSUME NEW x \in 1 .. Len(heap), InTxns(x) PROVE FollowsLink(End(ch[x]), None)
    <3>1. Opens(First(x)) /\ ~ InFrags(x)
      BY <1>7, <2>1 DEF TxnsEnded, InTxns
    <3>2. FollowsLink(First(x), None)
      BY <1>1, <1>2, <3>1, NothingFollows
    <3> QED
      BY <1>12, <3>2
  <2> QED
    BY <1>0, <1>3, <1>4, <1>6, <2>1 DEF ItemsOver, End
<1>17. WorkFollows(ch)'
  <2>1. ASSUME NEW k \in 1 .. Len(rootFragments) PROVE FollowsLink(End(ch[work'[k][1]]), work'[k][2])
    <3>1. rootFragments[k] \in 1 .. Len(frags) /\ frags[rootFragments[k]].txn \in 1 .. Len(heap)
      BY <1>8
    <3>2. End(ch[frags[rootFragments[k]].txn]) = StartOf(rootFragments[k])
      BY <1>12, <3>1 DEF StartOf
    <3> QED
      BY <1>5, <1>9, <3>1, <3>2
  <2> QED
    BY <1>3, <1>5, <2>1 DEF WorkFollows, End
<1>18. NextsFollow'
  BY <1>0, <1>3, <1>4, <1>7, <1>9 DEF NextsFollow, ListsApart
<1>19. NoCounterTwice' /\ TxnsApart'
  BY <1>0, <1>7 DEF NoCounterTwice, CountersApart, TxnsApart
<1>20. WorkApart'
  <2>1. ASSUME NEW j \in 1 .. Len(rootFragments), NEW k \in 1 .. Len(rootFragments), work'[j][1] = work'[k][1] PROVE j = k
    <3>0. frags[rootFragments[j]].txn = frags[rootFragments[k]].txn
      BY <1>5, <2>1
    <3>1. rootFragments[j] = rootFragments[k]
      BY <1>7, <1>8, <3>0 DEF FragsApart
    <3> QED
      BY <1>7, <3>1 DEF ListsApart, NoRepeat
  <2>2. ASSUME NEW k \in 1 .. Len(rootFragments) PROVE ~ InTxns(work'[k][1])
    <3>1. InFrags(frags[rootFragments[k]].txn)
      BY <1>10
    <3> QED
      BY <1>5, <1>7, <3>1 DEF TxnsEnded, InTxns
  <2> QED
    BY <1>0, <1>5, <2>1, <2>2 DEF WorkApart, InTxns, InJoined
<1>21. IdsApart'
  <2>1. \A k \in 1 .. Len(joined') : FALSE
    BY <1>5
  <2> QED
    BY <2>1 DEF IdsApart
<1>22. Following(ch)'
  BY <1>13, <1>14, <1>15, <1>16, <1>17 DEF Following
<1> QED
  BY <1>18, <1>19, <1>20, <1>21, <1>22 DEF JoinPlaces

-----------------------------------------------------------------------------
(* Transaction.join repeats no counter.                                        *)
LEMMA JoinNoRepeat ==
  ASSUME NEW x \in Txn, NEW y \in Txn, NoRepeat(x.counters), NoRepeat(y.counters),
         \A c \in ToSet(x.counters) : c \notin ToSet(y.counters)
  PROVE  NoRepeat(Join(x, y).counters)
<1> DEFINE all == x.counters \o y.counters
           key == [i \in DOMAIN all |-> all[i].tsc]
           sorted == StableSort(all, key)
           n == Len(all)
<1>1. x.counters \in Seq(Sample) /\ y.counters \in Seq(Sample)
  BY DEF Txn
<1>2. all \in Seq(Sample) /\ NoRepeat(all)
  BY <1>1, NoRepeatConcat
<1> HIDE DEF all
<1>3. DOMAIN all = 1 .. n /\ n \in Nat /\ \A i \in 1 .. n : all[i] \in Sample
  BY <1>2
<1>4. \A c \in Sample : c.tsc \in Int
  BY DEF Sample, Counters
<1>5. key \in [1 .. n -> Int]
  BY <1>3, <1>4
<1> HIDE DEF key
<1>6. Len(sorted) = n /\ \A k \in 1 .. n : sorted[k] = all[Order(key)[k]]
  BY <1>2, <1>5, SortKeeps
<1>7. Order(key) \in [1 .. n -> 1 .. n] /\ \A i, j \in 1 .. n : Order(key)[i] = Order(key)[j] => i = j
  BY <1>3, <1>5, OrderIsPermutation
<1> HIDE DEF sorted, n
<1>8. NoRepeat(sorted)
  <2> SUFFICES ASSUME NEW i \in 1 .. n, NEW j \in 1 .. n, sorted[i] = sorted[j] PROVE i = j
    BY <1>6 DEF NoRepeat
  <2>1. Order(key)[i] \in 1 .. n /\ Order(key)[j] \in 1 .. n
    BY <1>7
  <2>2. all[Order(key)[i]] = all[Order(key)[j]]
    BY <1>6
  <2>3. Order(key)[i] = Order(key)[j]
    BY <1>2, <2>1, <2>2 DEF NoRepeat, n
  <2> QED
    BY <1>7, <2>3
<1>9. Join(x, y) = [x EXCEPT !.counters = sorted]
  BY DEF Join, all, key, sorted
<1>10. Join(x, y).counters = sorted
  BY <1>9 DEF Txn
<1> QED
  BY <1>8, <1>10

(* The end of a chain: the paths stay, one of them is over.                    *)
LEMMA EndFollows ==
  ASSUME LinkInv, JoinCover, JoinPlaces, NEW ch, Following(ch), Loaded' = Loaded,
         NEW txn, NEW next, EndStep(txn), next = work[1][2], next \in Links => resumeFrags[next] = <<>>
  PROVE  JoinPlaces' /\ Following(ch)'
<1>1. /\ FragTypes /\ Len(joined) \in Nat /\ Len(work) \in Nat \ {0} /\ txn = work[1][1]
      /\ frags' = frags /\ resumeFrags' = resumeFrags /\ txns' = txns
  BY DEF LinkInv, TxnTypes, EndStep, fragVars
<1>2. /\ txn \in 1 .. Len(heap) /\ Len(heap') = Len(heap)
      /\ \A r \in 1 .. Len(heap) : /\ heap'[r].counters = heap[r].counters
                                   /\ heap'[r].txnId = IF r = txn THEN nextTxnId + 1 ELSE heap[r].txnId
      /\ Len(joined') = Len(joined) + 1 /\ joined'[Len(joined) + 1] = txn
      /\ \A k \in 1 .. Len(joined) : joined'[k] = joined[k]
      /\ \A k \in 1 .. Len(joined) + 1 : k \in 1 .. Len(joined) \/ k = Len(joined) + 1
      /\ Len(work') = Len(work) - 1
      /\ \A k \in 1 .. Len(work) - 1 : k + 1 \in 1 .. Len(work) /\ work'[k] = work[k + 1]
  BY EndIs
<1>w. /\ Len(work') = Len(work) - 1
      /\ \A k \in 1 .. Len(work) - 1 : k + 1 \in 1 .. Len(work) /\ work'[k] = work[k + 1]
  BY <1>2
<1>j. /\ Len(joined') = Len(joined) + 1 /\ joined'[Len(joined) + 1] = txn /\ Len(joined) \in Nat
      /\ \A k \in 1 .. Len(joined) : joined'[k] = joined[k]
  BY <1>1, <1>2
<1>h. /\ \A r \in 1 .. Len(heap) : heap'[r].txnId = IF r = txn THEN nextTxnId + 1 ELSE heap[r].txnId
      /\ txn \in 1 .. Len(heap)
  BY <1>2
<1>3. \A r \in 1 .. Len(heap) : CountersOf(r)' = CountersOf(r) /\ First(r)' = First(r)
  BY <1>2 DEF CountersOf, First
<1>4. /\ \A r : InTxns(r)' <=> InTxns(r)
      /\ \A f, l : IsResume(f, l)' <=> IsResume(f, l)
      /\ \A f \in 1 .. Len(frags) : StartOf(f)' = StartOf(f)
  <2>1. \A f \in 1 .. Len(frags) : frags[f].txn \in 1 .. Len(heap)
    BY <1>1 DEF FragTypes
  <2> QED
    BY <1>1, <1>2, <2>1 DEF InTxns, IsResume, StartOf, First
<1>5. /\ \A x : InJoined(x)' <=> InJoined(x) \/ x = txn
  <2>1. Len(joined) + 1 \in 1 .. Len(joined') /\ \A k \in 1 .. Len(joined) : k \in 1 .. Len(joined')
    BY <1>1, <1>2
  <2> QED
    BY <1>2, <2>1 DEF InJoined
<1>6. \A x : Out(x)' <=> Out(x)
  <2>1. 1 \in 1 .. Len(work)
    BY <1>1
  <2>2. \A k \in 1 .. Len(work) : k = 1 \/ \E j \in 1 .. Len(work') : work'[j] = work[k]
    <3> SUFFICES ASSUME NEW k \in 1 .. Len(work), k # 1 PROVE \E j \in 1 .. Len(work') : work'[j] = work[k]
      OBVIOUS
    <3>1. k - 1 \in 1 .. Len(work) - 1 /\ (k - 1) + 1 = k
      BY <1>1
    <3>2. work'[k - 1] = work[k] /\ k - 1 \in 1 .. Len(work')
      BY <1>w, <3>1
    <3> QED
      BY <3>2
  <2>3. \A x : Out(x) <=> InJoined(x) \/ \E k \in 1 .. Len(work) : work[k][1] = x
    BY DEF Out, InJoined
  <2>4. \A x : Out(x)' <=> InJoined(x)' \/ \E k \in 1 .. Len(work') : work'[k][1] = x
    BY DEF Out, InJoined
  <2>5. \A x : (\E k \in 1 .. Len(work') : work'[k][1] = x) => \E k \in 1 .. Len(work) : work[k][1] = x
    BY <1>w
  <2>6. \A x : (\E k \in 1 .. Len(work) : work[k][1] = x) => x = txn \/ \E k \in 1 .. Len(work') : work'[k][1] = x
    BY <1>1, <2>2
  <2> QED
    BY <1>1, <1>5, <2>1, <2>3, <2>4, <2>5, <2>6
<1>7. \A x : Item(x)' <=> Item(x)
  BY <1>4, <1>6 DEF Item
<1>8. /\ \A p : (Path(p)' <=> Path(p)) /\ CountersOfChain(p)' = CountersOfChain(p)
      /\ \A u, n : FollowsLink(u, n)' <=> FollowsLink(u, n)
      /\ Executions' = Executions
  BY SameGraph
<1>9. ItemsAre(ch)' /\ ItemsPart(ch)' /\ ItemsLead(ch)'
  BY <1>2, <1>3, <1>7, <1>8 DEF Following, ItemsAre, ItemsPart, ItemsLead, Leads
<1>10. FollowsLink(End(ch[txn]), None)
  <2>1. next \in Links \cup {None} /\ FollowsLink(End(ch[txn]), next)
    <3>1. 1 \in 1 .. Len(work) /\ work \in Seq(Nat \X (Links \cup {None}))
      BY <1>1 DEF LinkInv, TxnTypes
    <3>2. work[1] \in Nat \X (Links \cup {None})
      BY <3>1
    <3> QED
      BY <1>1, <3>1, <3>2 DEF Following, WorkFollows
  <2>2. \A s \in Starts(Loaded) : Resumes(s) => s.data \in Links /\ s.data # next /\ s.data # None
    <3> SUFFICES ASSUME NEW s \in Starts(Loaded), Resumes(s) PROVE s.data \in Links /\ s.data # next /\ s.data # None
      OBVIOUS
    <3>1. s.data \in Links /\ resumeFrags[s.data] # <<>>
      <4>1. PICK f \in 1 .. Len(frags) : s.data \in Links /\ IsResume(f, s.data)
        BY DEF JoinCover, StartsHaveFrags
      <4> QED
        BY <4>1 DEF IsResume
    <3> QED
      BY <2>1, <3>1, NoneAssumption
  <2> QED
    BY <2>1, <2>2 DEF FollowsLink
<1>11. ItemsOver(ch)'
  <2>1. \A x \in 1 .. Len(heap) : InTxns(x) \/ InJoined(x) \/ x = txn => FollowsLink(End(ch[x]), None)
    BY <1>10 DEF Following, ItemsOver
  <2> QED
    BY <1>2, <1>4, <1>5, <1>8, <2>1 DEF ItemsOver, End
<1>12. WorkFollows(ch)'
  <2>1. \A k \in 1 .. Len(work) - 1 : FollowsLink(End(ch[work'[k][1]]), work'[k][2])
    BY <1>2 DEF Following, WorkFollows
  <2> QED
    BY <1>2, <1>8, <2>1 DEF WorkFollows, End
<1>13. NextsFollow'
  BY <1>1, <1>4, <1>8 DEF JoinPlaces, NextsFollow
<1>14. NoCounterTwice' /\ TxnsApart'
  BY <1>1, <1>2 DEF JoinPlaces, NoCounterTwice, TxnsApart
<1>15. WorkApart'
  <2>0. 1 \in 1 .. Len(work) /\ WorkApart
    BY <1>1 DEF JoinPlaces
  <2>1. ASSUME NEW j \in 1 .. Len(work) - 1, NEW k \in 1 .. Len(work) - 1, work'[j][1] = work'[k][1] PROVE j = k
    <3>1. j + 1 \in 1 .. Len(work) /\ k + 1 \in 1 .. Len(work) /\ work[j + 1][1] = work[k + 1][1]
      BY <1>w, <2>1
    <3>2. j + 1 = k + 1
      BY <2>0, <3>1 DEF WorkApart
    <3> QED
      BY <3>2
  <2>2. ASSUME NEW k \in 1 .. Len(work) - 1 PROVE work'[k][1] # txn /\ ~ InTxns(work'[k][1]) /\ ~ InJoined(work'[k][1])
    <3>1. k + 1 # 1 /\ k + 1 \in 1 .. Len(work) /\ work'[k] = work[k + 1]
      BY <1>w
    <3>2. work[k + 1][1] # work[1][1] /\ ~ InTxns(work[k + 1][1]) /\ ~ InJoined(work[k + 1][1])
      BY <2>0, <3>1 DEF WorkApart
    <3> QED
      BY <1>1, <3>1, <3>2
  <2>3. \A j, k \in 1 .. Len(work') : work'[j][1] = work'[k][1] => j = k
    BY <1>2, <2>1
  <2>4. ASSUME NEW k \in 1 .. Len(work') PROVE (\A i \in DOMAIN txns' : txns'[i] # work'[k][1]) /\ (\A i \in 1 .. Len(joined') : joined'[i] # work'[k][1])
    <3>1. work'[k][1] # txn /\ ~ InTxns(work'[k][1]) /\ ~ InJoined(work'[k][1])
      BY <1>2, <2>2
    <3> QED
      BY <1>1, <1>2, <3>1 DEF InTxns, InJoined
  <2> QED
    BY <2>3, <2>4 DEF WorkApart, InTxns, InJoined
<1>16. IdsApart'
  <2>0. 1 \in 1 .. Len(work) /\ WorkApart /\ IdsApart
    BY <1>1 DEF JoinPlaces
  <2>1. ~ InTxns(txn) /\ ~ InJoined(txn)
    BY <1>1, <2>0 DEF WorkApart
  <2>2. /\ nextTxnId \in Nat /\ \A i \in DOMAIN txns : i \in 1 .. nextTxnId
        /\ \A k \in 1 .. Len(joined) : joined[k] \in 1 .. Len(heap) /\ heap[joined[k]].txnId \in 1 .. nextTxnId
    BY DEF LinkInv, TxnTypes
  <2>3. \A k \in 1 .. Len(joined) : /\ joined'[k] = joined[k] /\ joined[k] # txn
                                    /\ heap'[joined'[k]].txnId = heap[joined[k]].txnId /\ heap[joined[k]].txnId # nextTxnId + 1
    <3> TAKE k \in 1 .. Len(joined)
    <3>1. joined'[k] = joined[k] /\ joined[k] # txn
      BY <1>j, <2>1 DEF InJoined
    <3>2. joined[k] \in 1 .. Len(heap) /\ heap[joined[k]].txnId \in 1 .. nextTxnId
      BY <2>2
    <3>3. heap[joined[k]].txnId # nextTxnId + 1
      BY <2>2, <3>2
    <3>4. heap'[joined[k]].txnId = heap[joined[k]].txnId
      BY <1>h, <3>1, <3>2
    <3> QED
      BY <3>1, <3>3, <3>4
  <2>4. heap'[joined'[Len(joined) + 1]].txnId = nextTxnId + 1 /\ nextTxnId + 1 \notin DOMAIN txns
    <3>1. nextTxnId + 1 \notin 1 .. nextTxnId
      BY <2>2
    <3> QED
      BY <1>h, <1>j, <2>2, <3>1
  <2>5. \A j, k \in 1 .. Len(joined') : heap'[joined'[j]].txnId = heap'[joined'[k]].txnId => j = k
    <3>1. \A k \in 1 .. Len(joined') : k \in 1 .. Len(joined) \/ k = Len(joined) + 1
      BY <1>j
    <3>2. \A j, k \in 1 .. Len(joined) : heap'[joined'[j]].txnId = heap'[joined'[k]].txnId => j = k
      BY <2>0, <2>3 DEF IdsApart
    <3>3. \A k \in 1 .. Len(joined) : heap'[joined'[k]].txnId # nextTxnId + 1
      BY <2>3
    <3> QED
      BY <2>4, <3>1, <3>2, <3>3
  <2>6. \A k \in 1 .. Len(joined') : (\A i \in DOMAIN txns : txns[i] # joined'[k]) /\ heap'[joined'[k]].txnId \notin DOMAIN txns
    <3>1. \A k \in 1 .. Len(joined') : k \in 1 .. Len(joined) \/ k = Len(joined) + 1
      BY <1>j
    <3>2. \A k \in 1 .. Len(joined) : (\A i \in DOMAIN txns : txns[i] # joined'[k]) /\ heap'[joined'[k]].txnId \notin DOMAIN txns
      BY <2>0, <2>3 DEF IdsApart, InTxns
    <3>3. (\A i \in DOMAIN txns : txns[i] # joined'[Len(joined) + 1])
      BY <1>j, <2>1 DEF InTxns
    <3> QED
      BY <2>4, <3>1, <3>2, <3>3
  <2> QED
    BY <1>1, <2>5, <2>6 DEF IdsApart, InTxns
<1> QED
  BY <1>9, <1>11, <1>12, <1>13, <1>14, <1>15, <1>16 DEF JoinPlaces, Following

-----------------------------------------------------------------------------
(* A suspension that was resumed: the objects of the copies are new.           *)
RefsNew(txn, n, ref) ==
  /\ \A i \in 1 .. n : ref[i] = (IF i = 1 THEN txn ELSE Len(heap) + i - 1) /\ (i # 1 => ref[i] \notin 1 .. Len(heap))
  /\ \A i, j \in 1 .. n : ref[i] = ref[j] => i = j
  /\ \A r \in 1 .. Len(heap') : r \in 1 .. Len(heap) \/ \E i \in 1 .. n : i # 1 /\ ref[i] = r
(* Each resumption has its object: the transaction itself or a new copy.       *)
LEMMA ChainRefs ==
  ASSUME LinkInv, NEW txn, NEW next \in Links, NEW fs, ChainStep(txn, next, fs),
         NEW n, n = Len(fs), NEW ref, ref = Refs(txn, fs)
  PROVE  RefsNew(txn, n, ref)
<1>1. ChainEffect(txn, next, fs)
  BY ChainIs
<1>2. /\ Len(heap) \in Nat /\ n \in Nat \ {0} /\ Len(work) \in Nat \ {0} /\ txn \in 1 .. Len(heap)
      /\ Len(heap') = Len(heap) + n - 1 /\ ref[1] = txn /\ 1 \in 1 .. n /\ fs \in Seq(Nat)
  BY <1>1 DEF ChainEffect
<1>4. DOMAIN fs = 1 .. n
  BY <1>2
<1>5. \A i \in 1 .. n : ref[i] = IF i = 1 THEN txn ELSE Len(heap) + i - 1
  BY <1>4, Zenon DEF Refs
<1>6. \A i \in 1 .. n : i # 1 => ref[i] \notin 1 .. Len(heap)
  BY <1>2, <1>5
<1>7. \A i, j \in 1 .. n : ref[i] = ref[j] => i = j
  BY <1>2, <1>5
<1>8. \A r \in 1 .. Len(heap') : r \in 1 .. Len(heap) \/ \E i \in 1 .. n : i # 1 /\ ref[i] = r
  <2> SUFFICES ASSUME NEW r \in 1 .. Len(heap'), r \notin 1 .. Len(heap) PROVE \E i \in 1 .. n : i # 1 /\ ref[i] = r
    OBVIOUS
  <2>0. (r - Len(heap)) + 1 \in 1 .. n
    BY <1>2
  <2>1. PICK i \in 1 .. n : i = (r - Len(heap)) + 1
    BY <2>0
  <2>2. i # 1 /\ Len(heap) + i - 1 = r
    BY <1>2, <2>1
  <2> QED
    BY <1>5, <2>2
<1> QED
  BY <1>5, <1>6, <1>7, <1>8 DEF RefsNew

(* The items after it: the others, and the transaction with its copies.        *)
ItemsAfter(txn, n, ref) ==
  /\ \A x : (InTxns(x)' <=> InTxns(x)) /\ (InJoined(x)' <=> InJoined(x)) /\ (Item(x) => x \in 1 .. Len(heap))
  /\ ~ InTxns(txn) /\ ~ InJoined(txn) /\ Item(txn)
  /\ \A x : Item(x)' <=> (Item(x) /\ x # txn) \/ \E i \in 1 .. n : x = ref[i]
(* The step of joinFragments leaves those items.                               *)
LEMMA ChainItems ==
  ASSUME LinkInv, JoinPlaces, NEW txn, NEW next \in Links, NEW fs, ChainStep(txn, next, fs),
         NEW n, n = Len(fs), NEW ref, ref = Refs(txn, fs)
  PROVE  ItemsAfter(txn, n, ref)
<1>1. /\ TxnTypes /\ WorkClosed /\ joined' = joined /\ txns' = txns /\ txn = work[1][1] /\ WorkApart
  BY DEF LinkInv, ChainStep, JoinPlaces
<1>e. ChainEffect(txn, next, fs)
  BY ChainIs
<1>2. /\ n \in Nat \ {0} /\ Len(work) \in Nat \ {0} /\ ref[1] = txn /\ 1 \in 1 .. n
  BY <1>e DEF ChainEffect
<1>3. 1 \in 1 .. Len(work)
  BY <1>2
<1>4. /\ Len(work') = n + (Len(work) - 1)
      /\ \A k \in 1 .. n : work'[k][1] = ref[k]
      /\ \A k \in 1 .. Len(work) - 1 : k + 1 \in 1 .. Len(work) /\ work'[n + k] = work[k + 1]
  BY <1>e, Zenon DEF ChainEffect
<1>5. \A x : (InTxns(x)' <=> InTxns(x)) /\ (InJoined(x)' <=> InJoined(x))
  BY <1>1 DEF InTxns, InJoined
<1>6. ~ InTxns(txn) /\ ~ InJoined(txn)
  BY <1>1, <1>3 DEF WorkApart
<1>7. \A x : Item(x) => x \in 1 .. Len(heap)
  BY <1>1 DEF Item, InTxns, Out, TxnTypes, WorkClosed
<1>8. Item(txn)
  BY <1>1, <1>3 DEF Item, Out
<1>9. \A k \in 1 .. Len(work) : k = 1 \/ \E j \in 1 .. Len(work') : work'[j] = work[k]
  <2> SUFFICES ASSUME NEW k \in 1 .. Len(work), k # 1 PROVE \E j \in 1 .. Len(work') : work'[j] = work[k]
    OBVIOUS
  <2>1. k - 1 \in 1 .. Len(work) - 1 /\ (k - 1) + 1 = k /\ n + (k - 1) \in 1 .. n + (Len(work) - 1)
    BY <1>2
  <2> QED
    BY <1>4, <2>1
<1>10. \A k \in 1 .. Len(work') : k \in 1 .. n \/ \E j \in 1 .. Len(work) : j # 1 /\ work'[k] = work[j]
  <2> SUFFICES ASSUME NEW k \in 1 .. Len(work'), k \notin 1 .. n PROVE \E j \in 1 .. Len(work) : j # 1 /\ work'[k] = work[j]
    OBVIOUS
  <2>1. k - n \in 1 .. Len(work) - 1 /\ n + (k - n) = k /\ (k - n) + 1 # 1
    BY <1>2, <1>4
  <2>2. (k - n) + 1 \in 1 .. Len(work) /\ work'[n + (k - n)] = work[(k - n) + 1]
    BY <1>4, <2>1
  <2> QED
    BY <2>1, <2>2
<1>11. \A k \in 1 .. n : k \in 1 .. Len(work')
  BY <1>2, <1>4
<1>12. \A x : (\E k \in 1 .. Len(work') : work'[k][1] = x)
                <=> (\E i \in 1 .. n : x = ref[i]) \/ \E j \in 1 .. Len(work) : j # 1 /\ work[j][1] = x
  <2>1. \A x : (\E k \in 1 .. Len(work') : work'[k][1] = x)
                => (\E i \in 1 .. n : x = ref[i]) \/ \E j \in 1 .. Len(work) : j # 1 /\ work[j][1] = x
    BY <1>4, <1>10
  <2>2. \A x : (\E i \in 1 .. n : x = ref[i]) => \E k \in 1 .. Len(work') : work'[k][1] = x
    BY <1>4, <1>11
  <2>3. \A x : (\E j \in 1 .. Len(work) : j # 1 /\ work[j][1] = x) => \E k \in 1 .. Len(work') : work'[k][1] = x
    BY <1>9
  <2> QED
    BY <2>1, <2>2, <2>3
<1>13. \A x : (\E j \in 1 .. Len(work) : j # 1 /\ work[j][1] = x) <=> x # txn /\ \E j \in 1 .. Len(work) : work[j][1] = x
  BY <1>1, <1>3 DEF WorkApart
<1>14. \A x : (Item(x) <=> InTxns(x) \/ InJoined(x) \/ \E j \in 1 .. Len(work) : work[j][1] = x)
  BY DEF Item, Out, InJoined
<1>15. \A x : (Item(x)' <=> InTxns(x)' \/ InJoined(x)' \/ \E j \in 1 .. Len(work') : work'[j][1] = x)
  BY DEF Item, Out, InJoined
<1>16. \A x : Item(x)' <=> (Item(x) /\ x # txn) \/ \E i \in 1 .. n : x = ref[i]
  BY <1>5, <1>6, <1>12, <1>13, <1>14, <1>15
<1> QED
  BY <1>5, <1>6, <1>7, <1>8, <1>16 DEF ItemsAfter

-----------------------------------------------------------------------------
(* The paths of the transaction and its copies: one for every stretch that     *)
(* continues the path of the transaction.                                      *)
PathAfter(txn, f, q) ==
  /\ StartOf(f) \in Starts(Loaded) /\ Path(q) /\ End(q) = StartOf(f)
  /\ CountersOfChain(q) = CountersOf(txn) \cup CountersOf(frags[f].txn)
  /\ \A c \in CountersOf(txn) : c \notin CountersOf(frags[f].txn)
  /\ FollowsLink(StartOf(f), frags[f].next)
PathsAfter(txn, fs, n, p) ==
  /\ Path(p) /\ CountersOf(txn) = CountersOfChain(p)
  /\ \A i \in 1 .. n : PathAfter(txn, fs[i], Append(p, StartOf(fs[i])))
  /\ \A i, j \in 1 .. n : StartOf(fs[i]) = StartOf(fs[j]) => i = j
  /\ \A s \in Starts(Loaded) : Continues(End(p), s) => \E i \in 1 .. n : s = StartOf(fs[i])
(* The step of joinFragments has those paths to give to them.                  *)
LEMMA ChainPaths ==
  ASSUME IInv, LinkInv, TypeInv, RecInv, JoinCover, JoinPlaces, NEW ch, Following(ch),
         NEW txn, NEW next \in Links, NEW fs, ChainStep(txn, next, fs),
         NEW n, n = Len(fs), NEW p, p = ch[txn]
  PROVE  PathsAfter(txn, fs, n, p)
<1>1. /\ fs = resumeFrags[next] /\ txn = work[1][1] /\ next = work[1][2]
  BY DEF ChainStep
<1>2. ChainEffect(txn, next, fs)
  BY ChainIs
<1>3. /\ n \in Nat \ {0} /\ Len(work) \in Nat \ {0} /\ txn \in 1 .. Len(heap)
      /\ \A i \in 1 .. n : fs[i] \in 1 .. Len(frags)
  BY <1>2 DEF ChainEffect
<1>4. 1 \in 1 .. Len(work)
  BY <1>3
<1>5. Item(txn)
  BY <1>1, <1>4 DEF Item, Out
<1>6. Path(p) /\ CountersOf(txn) = CountersOfChain(p)
  BY <1>3, <1>5 DEF Following, ItemsAre
<1>7. FollowsLink(End(p), next)
  BY <1>1, <1>4 DEF Following, WorkFollows
<1>8. \A i \in 1 .. n : IsResume(fs[i], next)
  BY <1>1 DEF IsResume
<1>9. \A f \in 1 .. Len(frags) : IsResume(f, next) => \E i \in 1 .. n : fs[i] = f
  BY <1>1 DEF IsResume
<1>10. ASSUME NEW i \in 1 .. n
       PROVE  /\ StartOf(fs[i]) \in Starts(Loaded) /\ Continues(End(p), StartOf(fs[i]))
              /\ CountersOf(frags[fs[i]].txn) = Stretch(Loaded, StartOf(fs[i]))
              /\ FollowsLink(StartOf(fs[i]), frags[fs[i]].next)
  <2>1. fs[i] \in 1 .. Len(frags) /\ IsResume(fs[i], next)
    BY <1>3, <1>8
  <2>2. /\ StartOf(fs[i]) \in Starts(Loaded) /\ Resumes(StartOf(fs[i])) /\ StartOf(fs[i]).data = next
        /\ CountersOf(frags[fs[i]].txn) = Stretch(Loaded, StartOf(fs[i]))
    BY <2>1 DEF JoinCover, FragStarts
  <2>3. Continues(End(p), StartOf(fs[i]))
    BY <1>7, <2>2 DEF FollowsLink
  <2>4. FollowsLink(StartOf(fs[i]), frags[fs[i]].next)
    BY <2>1 DEF JoinPlaces, NextsFollow
  <2> QED
    BY <2>2, <2>3, <2>4
<1>11. ASSUME NEW i \in 1 .. n
       PROVE  PathAfter(txn, fs[i], Append(p, StartOf(fs[i])))
  <2>s. PICK s \in Starts(Loaded) : s = StartOf(fs[i])
    BY <1>10
  <2>1. Continues(End(p), s) /\ CountersOf(frags[fs[i]].txn) = Stretch(Loaded, s) /\ FollowsLink(StartOf(fs[i]), frags[fs[i]].next)
    BY <1>10, <2>s
  <2>2. /\ Path(Append(p, s)) /\ End(Append(p, s)) = s
        /\ CountersOfChain(Append(p, s)) = CountersOfChain(p) \cup Stretch(Loaded, s)
        /\ \A c \in CountersOfChain(p) : c \notin Stretch(Loaded, s)
    BY <1>6, <2>1, PathGrows
  <2> QED
    BY <1>6, <2>s, <2>1, <2>2 DEF PathAfter
<1>12. ASSUME NEW i \in 1 .. n, NEW j \in 1 .. n, StartOf(fs[i]) = StartOf(fs[j]) PROVE i = j
  <2>1. fs[i] \in 1 .. Len(frags) /\ fs[j] \in 1 .. Len(frags) /\ IsResume(fs[i], next) /\ IsResume(fs[j], next)
    BY <1>3, <1>8
  <2>2. fs[i] = fs[j]
    BY <1>12, <2>1 DEF JoinCover, FragsDiffer
  <2>3. NoRepeat(fs)
    BY <1>1 DEF JoinPlaces, NextsFollow
  <2> QED
    BY <2>2, <2>3 DEF NoRepeat
<1>13. ASSUME NEW s \in Starts(Loaded), Continues(End(p), s) PROVE \E i \in 1 .. n : s = StartOf(fs[i])
  <2>1. Resumes(s) /\ s.data = next
    BY <1>7, <1>13 DEF FollowsLink
  <2>2. PICK f \in 1 .. Len(frags) : IsResume(f, next) /\ StartOf(f) = s
    BY <2>1 DEF JoinCover, StartsHaveFrags
  <2> QED
    BY <1>9, <2>2
<1> QED
  BY <1>6, <1>11, <1>12, <1>13 DEF PathsAfter

(* The lists of joinFragments stay apart.                                      *)
LEMMA ChainPlaces ==
  ASSUME IInv, LinkInv, TypeInv, RecInv, JoinCover, JoinPlaces, NEW ch, Following(ch), Loaded' = Loaded,
         NEW txn, NEW next \in Links, NEW fs, ChainStep(txn, next, fs)
  PROVE  JoinPlaces'
<1>1. /\ FragTypes /\ TxnTypes /\ joined' = joined /\ txns' = txns /\ frags' = frags /\ resumeFrags' = resumeFrags /\ txn = work[1][1]
      /\ nextTxnId' = nextTxnId /\ NextsFollow /\ NoCounterTwice /\ TxnsApart /\ WorkApart /\ IdsApart
  BY DEF LinkInv, ChainStep, fragVars, JoinPlaces
<1>n. PICK n : n = Len(fs)
  OBVIOUS
<1>ref. PICK ref : ref = Refs(txn, fs)
  OBVIOUS
<1>p. PICK p : p = ch[txn]
  OBVIOUS
<1>e. ChainEffect(txn, next, fs)
  BY ChainIs
<1>r. /\ \A i \in 1 .. n : ref[i] = (IF i = 1 THEN txn ELSE Len(heap) + i - 1) /\ (i # 1 => ref[i] \notin 1 .. Len(heap))
      /\ \A i, j \in 1 .. n : ref[i] = ref[j] => i = j
      /\ \A r \in 1 .. Len(heap') : r \in 1 .. Len(heap) \/ \E i \in 1 .. n : i # 1 /\ ref[i] = r
  <2>1. RefsNew(txn, n, ref)
    BY <1>n, <1>ref, ChainRefs
  <2> QED
    BY <2>1, Zenon DEF RefsNew
<1>f. \A i \in 1 .. n : fs[i] \in 1 .. Len(frags)
  BY <1>e, <1>n DEF ChainEffect
<1>2. /\ \A i \in 1 .. n : /\ fs[i] \in 1 .. Len(frags) /\ ref[i] = IF i = 1 THEN txn ELSE Len(heap) + i - 1
                           /\ i # 1 => ref[i] \notin 1 .. Len(heap)
      /\ \A i, j \in 1 .. n : ref[i] = ref[j] => i = j
      /\ \A r \in 1 .. Len(heap') : r \in 1 .. Len(heap) \/ \E i \in 1 .. n : i # 1 /\ ref[i] = r
  BY <1>f, <1>r
<1>3. /\ n \in Nat \ {0} /\ Len(work) \in Nat \ {0} /\ txn \in 1 .. Len(heap) /\ ref[1] = txn /\ 1 \in 1 .. n
      /\ txn \notin ResumeTxns /\ 1 \in 1 .. Len(work)
  BY <1>e, <1>n, <1>ref DEF ChainEffect
<1>4. \A r \in 1 .. Len(heap) : r # txn => heap'[r] = heap[r]
  BY <1>e DEF ChainEffect
<1>5. \A i \in 1 .. n : heap'[ref[i]] = Join(heap[txn], heap[frags[fs[i]].txn])
  <2>1. DOMAIN fs = 1 .. n
    BY <1>e, <1>n DEF ChainEffect
  <2>2. \A i \in 1 .. n : Merged(txn, fs)[i] = Join(heap[txn], heap[frags[fs[i]].txn])
    BY <2>1, Zenon DEF Merged
  <2>3. \A i \in 1 .. n : heap'[ref[i]] = Merged(txn, fs)[i]
    BY <1>e, <1>n, <1>ref, Zenon DEF ChainEffect
  <2> QED
    BY <2>2, <2>3
<1>6. \A f \in 1 .. Len(frags) : frags[f].txn \in 1 .. Len(heap)
  BY <1>1 DEF FragTypes
<1>7. NextsFollow'
  <2>1. \A u, m : FollowsLink(u, m)' <=> FollowsLink(u, m)
    BY SameGraph
  <2>2. \A f, l : IsResume(f, l)' <=> IsResume(f, l)
    BY <1>1 DEF IsResume
  <2>3. ASSUME NEW l \in Links, NEW f \in 1 .. Len(frags), IsResume(f, l) PROVE StartOf(f)' = StartOf(f)
    <3>1. frags[f].txn \in ResumeTxns
      BY <1>1, <2>3 DEF IsResume, ResumeTxns
    <3>2. heap'[frags[f].txn] = heap[frags[f].txn]
      BY <1>3, <1>4, <1>6, <3>1
    <3> QED
      BY <1>1, <3>2 DEF StartOf, First
  <2>4. ASSUME NEW l \in Links, NEW f \in 1 .. Len(frags), IsResume(f, l) PROVE FollowsLink(StartOf(f), frags[f].next)
    BY <1>1, <2>4 DEF NextsFollow
  <2>5. \A l \in Links : NoRepeat(resumeFrags[l])
    BY <1>1 DEF NextsFollow
  <2>6. ASSUME NEW l \in Links, NEW f \in 1 .. Len(frags'), IsResume(f, l)' PROVE FollowsLink(StartOf(f), frags[f].next)'
    <3>1. f \in 1 .. Len(frags) /\ IsResume(f, l)
      BY <1>1, <2>2, <2>6
    <3>2. StartOf(f)' = StartOf(f) /\ FollowsLink(StartOf(f), frags[f].next) /\ frags'[f] = frags[f]
      BY <1>1, <2>3, <2>4, <3>1
    <3> QED
      BY <2>1, <3>2
  <2> QED
    BY <1>1, <2>5, <2>6 DEF NextsFollow
<1>8. NoCounterTwice'
  <2>1. ASSUME NEW i \in 1 .. n PROVE NoRepeat(heap'[ref[i]].counters)
    <3>1. PICK x \in 1 .. Len(heap) : x = frags[fs[i]].txn
      BY <1>2, <1>6
    <3>2. heap[txn] \in Txn /\ heap[x] \in Txn
      BY <1>1, <1>3 DEF FragTypes
    <3>3. NoRepeat(heap[txn].counters) /\ NoRepeat(heap[x].counters)
      BY <1>1, <1>3 DEF NoCounterTwice
    <3>4. \A c \in CountersOf(txn) : c \notin CountersOf(x)
      <4>1. PathsAfter(txn, fs, n, p)
        BY <1>n, <1>p, ChainPaths
      <4> QED
        BY <3>1, <4>1, Zenon DEF PathsAfter, PathAfter
    <3>5. NoRepeat(Join(heap[txn], heap[x]).counters)
      BY <3>2, <3>3, <3>4, JoinNoRepeat DEF CountersOf
    <3> QED
      BY <1>5, <3>1, <3>5
  <2> SUFFICES ASSUME NEW r \in 1 .. Len(heap') PROVE NoRepeat(heap'[r].counters)
    BY DEF NoCounterTwice
  <2>2. CASE r \in 1 .. Len(heap) /\ r # txn
    BY <1>1, <1>4, <2>2 DEF NoCounterTwice
  <2>3. CASE \E i \in 1 .. n : ref[i] = r
    BY <2>1, <2>3
  <2> QED
    BY <1>2, <1>3, <2>2, <2>3
<1>9. TxnsApart'
  BY <1>1 DEF TxnsApart
<1>10. /\ Len(work') = n + (Len(work) - 1)
       /\ \A k \in 1 .. n : work'[k][1] = ref[k]
       /\ \A k \in 1 .. Len(work) - 1 : k + 1 \in 1 .. Len(work) /\ work'[n + k] = work[k + 1]
  BY <1>e, <1>n, <1>ref, Zenon DEF ChainEffect
<1>11. \A k \in 1 .. Len(work') : k \in 1 .. n \/ ((k - n) + 1 \in 1 .. Len(work) /\ (k - n) + 1 # 1 /\ work'[k] = work[(k - n) + 1])
  <2> SUFFICES ASSUME NEW k \in 1 .. Len(work'), k \notin 1 .. n
               PROVE  (k - n) + 1 \in 1 .. Len(work) /\ (k - n) + 1 # 1 /\ work'[k] = work[(k - n) + 1]
    OBVIOUS
  <2>1. k - n \in 1 .. Len(work) - 1 /\ n + (k - n) = k /\ (k - n) + 1 # 1
    BY <1>3, <1>10
  <2> QED
    BY <1>10, <2>1
<1>12. /\ \A j, k \in 1 .. Len(work) : work[j][1] = work[k][1] => j = k
       /\ \A k \in 1 .. Len(work) : ~ InTxns(work[k][1]) /\ ~ InJoined(work[k][1]) /\ work[k][1] \in 1 .. Len(heap)
  <2>1. WorkClosed
    BY DEF LinkInv, ChainStep
  <2> QED
    BY <1>1, <2>1 DEF WorkApart, WorkClosed
<1>13. \A k \in 1 .. Len(work) : k # 1 => work[k][1] # txn
  BY <1>1, <1>3, <1>12
<1>14. \A i \in 1 .. n : \A k \in 1 .. Len(work) : k # 1 => work[k][1] # ref[i]
  BY <1>2, <1>3, <1>12, <1>13
<1>15. ASSUME NEW j \in 1 .. Len(work'), NEW k \in 1 .. Len(work'), work'[j][1] = work'[k][1] PROVE j = k
  <2>1. CASE j \in 1 .. n /\ k \in 1 .. n
    BY <1>2, <1>10, <1>15, <2>1
  <2>2. CASE j \in 1 .. n /\ k \notin 1 .. n
    BY <1>10, <1>11, <1>14, <1>15, <2>2
  <2>3. CASE j \notin 1 .. n /\ k \in 1 .. n
    BY <1>10, <1>11, <1>14, <1>15, <2>3
  <2>4. CASE j \notin 1 .. n /\ k \notin 1 .. n
    <3>1. (j - n) + 1 = (k - n) + 1
      BY <1>11, <1>12, <1>15, <2>4
    <3>2. j \in Int /\ k \in Int /\ n \in Int
      BY <1>3
    <3> QED
      BY <3>1, <3>2
  <2> QED
    BY <2>1, <2>2, <2>3, <2>4
<1>16. \A x : InTxns(x) \/ InJoined(x) => x \in 1 .. Len(heap)
  BY <1>1 DEF TxnTypes, InTxns, InJoined
<1>17. \A x : (InTxns(x)' <=> InTxns(x)) /\ (InJoined(x)' <=> InJoined(x))
  BY <1>1 DEF InTxns, InJoined
<1>18. ~ InTxns(txn) /\ ~ InJoined(txn)
  BY <1>1, <1>3, <1>12
<1>19. ASSUME NEW k \in 1 .. Len(work') PROVE ~ InTxns(work'[k][1]) /\ ~ InJoined(work'[k][1])
  <2>1. CASE k \in 1 .. n
    <3>1. work'[k][1] = ref[k]
      BY <1>10, <2>1
    <3>2. ref[k] = txn \/ ref[k] \notin 1 .. Len(heap)
      BY <1>2, <1>3, <2>1
    <3> QED
      BY <1>16, <1>18, <3>1, <3>2
  <2>2. CASE k \notin 1 .. n
    BY <1>11, <1>12, <2>2
  <2> QED
    BY <2>1, <2>2
<1>20. WorkApart'
  <2>1. \A k \in 1 .. Len(work') : (\A i \in DOMAIN txns' : txns'[i] # work'[k][1]) /\ (\A i \in 1 .. Len(joined') : joined'[i] # work'[k][1])
    BY <1>1, <1>19 DEF InTxns, InJoined
  <2> QED
    BY <1>15, <2>1 DEF WorkApart, InTxns, InJoined
<1>21. IdsApart'
  <2>1. \A k \in 1 .. Len(joined) : heap'[joined[k]] = heap[joined[k]]
    BY <1>1, <1>4, <1>18 DEF TxnTypes, InJoined
  <2>2. \A k \in 1 .. Len(joined) : (\A i \in DOMAIN txns : txns[i] # joined[k]) /\ heap[joined[k]].txnId \notin DOMAIN txns
    BY <1>1 DEF IdsApart, InTxns
  <2>3. \A j, k \in 1 .. Len(joined) : heap[joined[j]].txnId = heap[joined[k]].txnId => j = k
    BY <1>1 DEF IdsApart
  <2> QED
    BY <1>1, <2>1, <2>2, <2>3 DEF IdsApart, InTxns
<1> QED
  BY <1>7, <1>8, <1>9, <1>20, <1>21 DEF JoinPlaces

-----------------------------------------------------------------------------
(* Where the path of an item leads when the one of another item is continued.  *)
LEMMA GrownLeads ==
  ASSUME IInv, TypeInv, NEW p, Path(p), NEW e \in Executions, Leads(p, e), NEW t \in Starts(Loaded), Continues(End(p), t)
  PROVE  \E s \in Starts(Loaded) : Continues(End(p), s) /\ Leads(Append(p, s), e)
<1>1. /\ e \in Seq(Starts(Loaded)) /\ Len(e) \in Nat \ {0}
      /\ \A i \in 1 .. Len(e) : e[i] \in Starts(Loaded)
      /\ \A i \in 1 .. Len(e) - 1 : Continues(e[i], e[i + 1])
      /\ \A s \in Starts(Loaded) : ~ Continues(End(e), s)
  BY ExecutionIs
<1>2. p \in Seq(Starts(Loaded)) /\ p # <<>>
  BY DEF Path
<1>3. Len(p) \in Nat \ {0}
  BY <1>2
<1>4. Len(p) <= Len(e) /\ \A i \in 1 .. Len(p) : p[i] = e[i]
  BY DEF Leads
<1>5. Len(p) \in 1 .. Len(p)
  BY <1>3
<1>6. End(p) = e[Len(p)]
  BY <1>4, <1>5 DEF End
<1>7. Len(p) # Len(e)
  BY <1>1, <1>6 DEF End
<1>8. Len(p) < Len(e) /\ Len(p) \in 1 .. Len(e) - 1 /\ Len(p) + 1 \in 1 .. Len(e)
  BY <1>1, <1>3, <1>4, <1>7
<1>9. PICK s \in Starts(Loaded) : s = e[Len(p) + 1]
  BY <1>1, <1>8
<1>10. Continues(End(p), s)
  BY <1>1, <1>6, <1>8, <1>9
<1>11. Leads(Append(p, s), e)
  BY <1>1, <1>2, <1>8, <1>9, LeadsApart
<1> QED
  BY <1>10, <1>11

(* A suspension that was resumed: the path of the transaction goes on, one for *)
(* every copy.                                                                 *)
LEMMA ChainFollows ==
  ASSUME IInv, LinkInv, TypeInv, RecInv, JoinCover, JoinPlaces, NEW ch, Following(ch), Loaded' = Loaded,
         NEW txn, NEW next \in Links, NEW fs, ChainStep(txn, next, fs)
  PROVE  \E ch2 : Following(ch2)'
<1>n. PICK n : n = Len(fs)
  OBVIOUS
<1>ref. PICK ref : ref = Refs(txn, fs)
  OBVIOUS
<1>p. PICK p : p = ch[txn]
  OBVIOUS
<1>st. PICK st : st = [i \in 1 .. n |-> StartOf(fs[i])]
  OBVIOUS
<1>e. ChainEffect(txn, next, fs)
  BY ChainIs
<1>r. RefsNew(txn, n, ref)
  BY <1>n, <1>ref, ChainRefs
<1>a. ItemsAfter(txn, n, ref)
  BY <1>n, <1>ref, ChainItems
<1>g. PathsAfter(txn, fs, n, p)
  BY <1>n, <1>p, ChainPaths
<1>1. /\ n \in Nat \ {0} /\ Len(heap) \in Nat /\ Len(work) \in Nat \ {0} /\ txn \in 1 .. Len(heap) /\ ref[1] = txn /\ 1 \in 1 .. n
      /\ Len(heap') = Len(heap) + n - 1
  BY <1>e, <1>n, <1>ref DEF ChainEffect
<1>2. /\ \A i \in 1 .. n : ref[i] = txn \/ ref[i] \notin 1 .. Len(heap)
      /\ \A i, j \in 1 .. n : ref[i] = ref[j] => i = j
      /\ \A r \in 1 .. Len(heap') : r \in 1 .. Len(heap) \/ \E i \in 1 .. n : ref[i] = r
  <2>1. \A i \in 1 .. n : ref[i] = txn \/ ref[i] \notin 1 .. Len(heap)
    BY <1>1, <1>r DEF RefsNew
  <2>2. \A i, j \in 1 .. n : ref[i] = ref[j] => i = j
    BY <1>r, Zenon DEF RefsNew
  <2>3. \A r \in 1 .. Len(heap') : r \in 1 .. Len(heap) \/ \E i \in 1 .. n : ref[i] = r
    BY <1>r, Zenon DEF RefsNew
  <2> QED
    BY <2>1, <2>2, <2>3
<1>3. /\ Path(p) /\ CountersOf(txn) = CountersOfChain(p) /\ \A i \in 1 .. n : st[i] = StartOf(fs[i])
      /\ \A s \in Starts(Loaded) : Continues(End(p), s) => \E i \in 1 .. n : s = st[i]
  <2>1. Path(p) /\ CountersOf(txn) = CountersOfChain(p)
    BY <1>g, Zenon DEF PathsAfter
  <2>2. \A s \in Starts(Loaded) : Continues(End(p), s) => \E i \in 1 .. n : s = StartOf(fs[i])
    BY <1>g, Zenon DEF PathsAfter
  <2> QED
    BY <1>st, <2>1, <2>2
<1>4. ASSUME NEW i \in 1 .. n
      PROVE  /\ st[i] \in Starts(Loaded) /\ Path(Append(p, st[i])) /\ End(Append(p, st[i])) = st[i]
             /\ CountersOfChain(Append(p, st[i])) = CountersOf(txn) \cup CountersOf(frags[fs[i]].txn)
             /\ FollowsLink(st[i], frags[fs[i]].next)
  <2>1. st[i] = StartOf(fs[i])
    BY <1>3
  <2>2. PathAfter(txn, fs[i], Append(p, st[i]))
    BY <1>g, <2>1, Zenon DEF PathsAfter
  <2> QED
    BY <2>1, <2>2 DEF PathAfter
<1>5. ASSUME NEW i \in 1 .. n, NEW j \in 1 .. n, st[i] = st[j] PROVE i = j
  <2>1. StartOf(fs[i]) = StartOf(fs[j])
    BY <1>3, <1>5
  <2> QED
    BY <1>g, <2>1, Zenon DEF PathsAfter
<1>c. PICK ch2 : ch2 = [r \in 1 .. Len(heap') |-> IF r \in 1 .. Len(heap) /\ r # txn THEN ch[r]
                                                  ELSE Append(p, st[CHOOSE i \in 1 .. n : ref[i] = r])]
  OBVIOUS
<1>6. \A r \in 1 .. Len(heap) : r # txn => r \in 1 .. Len(heap') /\ ch2[r] = ch[r]
  <2> SUFFICES ASSUME NEW r \in 1 .. Len(heap), r # txn PROVE r \in 1 .. Len(heap') /\ ch2[r] = ch[r]
    OBVIOUS
  <2>1. r \in 1 .. Len(heap')
    BY <1>1
  <2> QED
    BY <1>c, <2>1, Zenon
<1>7. ASSUME NEW i \in 1 .. n PROVE ref[i] \in 1 .. Len(heap') /\ ch2[ref[i]] = Append(p, st[i])
  <2>1. ref[i] \in 1 .. Len(heap')
    BY <1>e, <1>n, <1>ref DEF ChainEffect
  <2>2. PICK r \in 1 .. Len(heap') : r = ref[i]
    BY <2>1
  <2>3. ~ (r \in 1 .. Len(heap) /\ r # txn)
    BY <1>2, <2>2
  <2>4. ch2[r] = Append(p, st[CHOOSE j \in 1 .. n : ref[j] = r])
    BY <1>c, <2>3, Zenon
  <2>5. (CHOOSE j \in 1 .. n : ref[j] = r) = i
    BY <1>2, <2>2
  <2> QED
    BY <2>1, <2>2, <2>4, <2>5, Zenon
<1> DEFINE Old(x) == x \in 1 .. Len(heap) /\ x # txn /\ Item(x)
<1>8. ASSUME NEW x, Item(x)' PROVE Old(x) \/ \E i \in 1 .. n : x = ref[i]
  BY <1>8, <1>a DEF ItemsAfter
<1>9. \A x : Old(x) => Item(x)' /\ Path(ch[x]) /\ CountersOf(x) = CountersOfChain(ch[x])
  BY <1>a DEF ItemsAfter, Following, ItemsAre
<1>10. \A x, y : Old(x) /\ Old(y) /\ Leads(ch[x], ch[y]) => x = y
  BY DEF Following, ItemsPart
<1>11. \A x : Old(x) => ~ Leads(ch[x], p) /\ ~ Leads(p, ch[x])
  BY <1>1, <1>a, <1>p DEF ItemsAfter, Following, ItemsPart
<1>12. \A x : Old(x) => ch2[x] = ch[x] /\ heap'[x] = heap[x]
  BY <1>6, <1>e DEF ChainEffect
<1>13. \A i \in 1 .. n : Item(ref[i])'
  BY <1>a DEF ItemsAfter
<1> HIDE DEF Old
<1>14. /\ \A q : (Path(q)' <=> Path(q)) /\ CountersOfChain(q)' = CountersOfChain(q)
       /\ \A u, m : FollowsLink(u, m)' <=> FollowsLink(u, m)
       /\ Executions' = Executions
  BY SameGraph
<1>15. ItemsAre(ch2)'
  <2>1. ASSUME NEW x \in 1 .. Len(heap'), Item(x)' PROVE Path(ch2[x]) /\ ToSet(heap'[x].counters) = CountersOfChain(ch2[x])
    <3>1. CASE Old(x)
      BY <1>9, <1>12, <3>1 DEF CountersOf
    <3>2. ASSUME NEW i \in 1 .. n, x = ref[i] PROVE Path(ch2[x]) /\ ToSet(heap'[x].counters) = CountersOfChain(ch2[x])
      <4>1. ToSet(heap'[ref[i]].counters) = CountersOf(txn) \cup CountersOf(frags[fs[i]].txn)
        BY <1>e, <1>n, <1>ref DEF ChainEffect
      <4>2. Path(Append(p, st[i])) /\ CountersOfChain(Append(p, st[i])) = CountersOf(txn) \cup CountersOf(frags[fs[i]].txn)
        BY <1>4
      <4>3. ch2[x] = Append(p, st[i])
        BY <1>7, <3>2
      <4> QED
        BY <3>2, <4>1, <4>2, <4>3
    <3> QED
      BY <1>8, <2>1, <3>1, <3>2
  <2> QED
    BY <1>14, <2>1 DEF ItemsAre, CountersOf
<1>16. p \in Seq(Starts(Loaded)) /\ (\A x : Old(x) => ch[x] \in Seq(Starts(Loaded))) /\ \A i \in 1 .. n : st[i] \in Starts(Loaded)
  BY <1>3, <1>4, <1>9 DEF Path
<1>17. ItemsPart(ch2)'
  <2>1. ASSUME NEW x \in 1 .. Len(heap'), NEW y \in 1 .. Len(heap'), Item(x)', Item(y)', Leads(ch2[x], ch2[y]) PROVE x = y
    <3>1. CASE Old(x) /\ Old(y)
      BY <1>10, <1>12, <2>1, <3>1
    <3>2. ASSUME Old(x), NEW j \in 1 .. n, y = ref[j] PROVE FALSE
      <4>1. Leads(ch[x], Append(p, st[j]))
        BY <1>7, <1>12, <2>1, <3>2
      <4>2. ch[x] \in Seq(Starts(Loaded)) /\ st[j] \in Starts(Loaded) /\ p \in Seq(Starts(Loaded))
        BY <1>16, <3>2
      <4>3. Leads(ch[x], p) \/ Leads(p, ch[x])
        BY <4>1, <4>2, LeadsApart
      <4> QED
        BY <1>11, <3>2, <4>3
    <3>3. ASSUME Old(y), NEW i \in 1 .. n, x = ref[i] PROVE FALSE
      <4>1. Leads(Append(p, st[i]), ch[y])
        BY <1>7, <1>12, <2>1, <3>3
      <4>2. ch[y] \in Seq(Starts(Loaded)) /\ st[i] \in Starts(Loaded) /\ p \in Seq(Starts(Loaded))
        BY <1>16, <3>3
      <4>3. Leads(p, ch[y])
        BY <4>1, <4>2, LeadsApart
      <4> QED
        BY <1>11, <3>3, <4>3
    <3>4. ASSUME NEW i \in 1 .. n, x = ref[i], NEW j \in 1 .. n, y = ref[j] PROVE x = y
      <4>1. Leads(Append(p, st[i]), Append(p, st[j]))
        BY <1>7, <2>1, <3>4
      <4>2. st[i] \in Starts(Loaded) /\ st[j] \in Starts(Loaded) /\ p \in Seq(Starts(Loaded))
        BY <1>16
      <4>3. st[i] = st[j]
        BY <4>1, <4>2, LeadsApart
      <4> QED
        BY <1>5, <3>4, <4>3
    <3> QED
      BY <1>8, <2>1, <3>1, <3>2, <3>3, <3>4
  <2> QED
    BY <2>1 DEF ItemsPart, Leads
<1>18. ItemsLead(ch2)'
  <2>1. ASSUME NEW e \in Executions PROVE \E x \in 1 .. Len(heap') : Item(x)' /\ Leads(ch2[x], e)
    <3>1. PICK x \in 1 .. Len(heap) : Item(x) /\ Leads(ch[x], e)
      BY DEF Following, ItemsLead
    <3>2. CASE x # txn
      <4>1. Old(x)
        BY <3>1, <3>2 DEF Old
      <4>2. Item(x)' /\ ch2[x] = ch[x] /\ x \in 1 .. Len(heap')
        BY <1>6, <1>9, <3>2, <4>1
      <4> QED
        BY <3>1, <4>2
    <3>3. CASE x = txn
      <4>1. Leads(p, e)
        BY <1>p, <3>1, <3>3
      <4>2. st[1] \in Starts(Loaded) /\ Continues(End(p), st[1])
        <5>1. Path(Append(p, st[1])) /\ st[1] \in Starts(Loaded) /\ Path(p)
          BY <1>1, <1>3, <1>4
        <5>2. /\ p \in Seq(Starts(Loaded)) /\ p # <<>>
          BY <5>1 DEF Path
        <5>q. PICK q : q = Append(p, st[1])
          OBVIOUS
        <5>3. Len(p) \in Nat \ {0} /\ Len(q) = Len(p) + 1 /\ q[Len(p)] = p[Len(p)] /\ q[Len(p) + 1] = st[1]
          BY <5>1, <5>2, <5>q
        <5>4. Len(p) \in 1 .. Len(q) - 1
          BY <5>3
        <5>5. Continues(q[Len(p)], q[Len(p) + 1])
          BY <5>1, <5>4, <5>q DEF Path
        <5> QED
          BY <5>1, <5>3, <5>5 DEF End
      <4>3. PICK s \in Starts(Loaded) : Continues(End(p), s) /\ Leads(Append(p, s), e)
        BY <1>3, <4>1, <4>2, GrownLeads
      <4>4. PICK i \in 1 .. n : s = st[i]
        BY <1>3, <4>3
      <4> QED
        BY <1>7, <1>13, <4>3, <4>4
    <3> QED
      BY <3>2, <3>3
  <2> QED
    BY <1>14, <2>1 DEF ItemsLead, Leads
<1>19. ItemsOver(ch2)'
  <2>1. ASSUME NEW x, InTxns(x) \/ InJoined(x) PROVE FollowsLink(End(ch2[x]), None)
    <3>1. x \in 1 .. Len(heap) /\ x # txn
      BY <1>a, <2>1 DEF ItemsAfter, Item, Out, InJoined
    <3> QED
      BY <1>6, <2>1, <3>1 DEF Following, ItemsOver
  <2>2. \A x : InTxns(x)' \/ InJoined(x)' => InTxns(x) \/ InJoined(x)
    BY <1>a DEF ItemsAfter
  <2> QED
    BY <1>14, <2>1, <2>2 DEF ItemsOver, End
<1>20. WorkFollows(ch2)'
  <2>1. /\ Len(work') = n + (Len(work) - 1)
        /\ \A k \in 1 .. n : work'[k][1] = ref[k] /\ work'[k][2] = frags[fs[k]].next
        /\ \A k \in 1 .. Len(work) - 1 : k + 1 \in 1 .. Len(work) /\ work'[n + k] = work[k + 1]
    BY <1>e, <1>n, <1>ref, Zenon DEF ChainEffect
  <2>2. ASSUME NEW k \in 1 .. Len(work') PROVE FollowsLink(End(ch2[work'[k][1]]), work'[k][2])
    <3>1. CASE k \in 1 .. n
      <4>1. End(ch2[ref[k]]) = st[k] /\ FollowsLink(st[k], frags[fs[k]].next)
        BY <1>4, <1>7, <3>1
      <4> QED
        BY <2>1, <3>1, <4>1
    <3>2. CASE k \notin 1 .. n
      <4>1. k - n \in 1 .. Len(work) - 1 /\ n + (k - n) = k /\ (k - n) + 1 # 1
        BY <1>1, <2>1, <3>2
      <4>2. PICK j \in 1 .. Len(work) : j # 1 /\ work'[k] = work[j]
        BY <2>1, <4>1
      <4>3. work[j][1] \in 1 .. Len(heap) /\ work[j][1] # txn
        <5>1. WorkClosed /\ WorkApart /\ txn = work[1][1] /\ 1 \in 1 .. Len(work)
          <6>1. 1 \in 1 .. Len(work)
            BY <1>1
          <6> QED
            BY <6>1 DEF LinkInv, ChainStep, JoinPlaces
        <5> QED
          BY <4>2, <5>1 DEF WorkClosed, WorkApart
      <4>4. FollowsLink(End(ch[work[j][1]]), work[j][2])
        BY DEF Following, WorkFollows
      <4> QED
        BY <1>6, <4>2, <4>3, <4>4
    <3> QED
      BY <3>1, <3>2
  <2> QED
    BY <1>14, <2>2 DEF WorkFollows, End
<1>21. Following(ch2)'
  BY <1>15, <1>17, <1>18, <1>19, <1>20 DEF Following
<1> QED
  BY <1>21

-----------------------------------------------------------------------------
(* appendTxn of what was joined: every id is free, so nothing is merged. The   *)
(* state of the loop after n of them.                                          *)
IdOf(k) == heap[joined[k]].txnId
Taken(st, n) ==
  /\ st.heap = heap
  /\ \A i : i \in DOMAIN st.txns <=> i \in DOMAIN txns \/ \E k \in 1 .. n : i = IdOf(k)
  /\ \A i \in DOMAIN txns : st.txns[i] = txns[i]
  /\ \A k \in 1 .. n : st.txns[IdOf(k)] = joined[k]

(* One appended transaction.                                                   *)
LEMMA TakesNext ==
  ASSUME IdsApart, NEW n \in 1 .. Len(joined), NEW st, LoopOK(st), Taken(st, n - 1)
  PROVE  Taken(AppendOne(st, joined[n]), n)
<1> DEFINE d == st.txns
           id == IdOf(n)
           e == Put(d, id, joined[n])
<1>1. /\ st.heap = heap /\ st = [heap |-> heap, txns |-> d]
      /\ \A i : i \in DOMAIN d <=> i \in DOMAIN txns \/ \E k \in 1 .. n - 1 : i = IdOf(k)
      /\ \A i \in DOMAIN txns : d[i] = txns[i]
      /\ \A k \in 1 .. n - 1 : d[IdOf(k)] = joined[k]
  BY DEF Taken, LoopOK
<1>2. \A k \in 1 .. n - 1 : k \in 1 .. Len(joined) /\ k # n
  OBVIOUS
<1>3. id \notin DOMAIN txns /\ \A k \in 1 .. n - 1 : IdOf(k) # id
  BY <1>2 DEF IdsApart, IdOf
<1>4. id \notin DOMAIN d
  BY <1>1, <1>3
<1>5. AppendOne(st, joined[n]) = [st EXCEPT !.txns = e]
  BY <1>1, <1>4, Zenon DEF AppendOne, IdOf
<1> HIDE DEF d
<1>6. DOMAIN e = DOMAIN d \cup {id} /\ \A i \in DOMAIN e : e[i] = IF i = id THEN joined[n] ELSE d[i]
  BY DEF Put
<1> HIDE DEF e
<1>7. PICK new : new = AppendOne(st, joined[n])
  OBVIOUS
<1>8. new.heap = heap /\ new.txns = e
  BY <1>1, <1>5, <1>7
<1> HIDE DEF id
<1>9. \A k \in 1 .. n : k \in 1 .. n - 1 \/ k = n
  OBVIOUS
<1>10. n \in 1 .. n /\ \A k \in 1 .. n - 1 : k \in 1 .. n
  OBVIOUS
<1>11. \A i : i \in DOMAIN e <=> i \in DOMAIN txns \/ \E k \in 1 .. n : i = IdOf(k)
  BY <1>1, <1>6, <1>9, <1>10 DEF id
<1>12. \A i \in DOMAIN txns : e[i] = txns[i]
  BY <1>1, <1>3, <1>6
<1>13. \A k \in 1 .. n : e[IdOf(k)] = joined[k]
  <2> TAKE k \in 1 .. n
  <2>1. IdOf(k) \in DOMAIN e
    BY <1>11
  <2>2. CASE k = n
    BY <1>6, <2>1, <2>2 DEF id
  <2>3. CASE k \in 1 .. n - 1
    BY <1>1, <1>3, <1>6, <2>1, <2>3
  <2> QED
    BY <1>9, <2>2, <2>3
<1>14. Taken(new, n)
  BY <1>8, <1>11, <1>12, <1>13 DEF Taken
<1> QED
  BY <1>7, <1>14

(* All of them, by the least round that would fail.                            *)
LEMMA AllTaken ==
  ASSUME LinkInv, JoinPlaces, AppendJoined
  PROVE  Taken([heap |-> heap', txns |-> txns'], Len(joined))
<1>1. IdsApart /\ TxnTypes
  BY DEF JoinPlaces, LinkInv
<1>2. PICK f : /\ Appends(f, Len(joined)) /\ \A n \in 0 .. Len(joined) : LoopOK(f[n])
               /\ heap' = f[Len(joined)].heap /\ txns' = f[Len(joined)].txns
  BY AppendJoinedIs
<1> DEFINE N == Len(joined)
           B == {n \in 0 .. N : ~ Taken(f[n], n)}
<1>3. N \in Nat
  BY <1>1 DEF TxnTypes
<1>4. f[0] = [heap |-> heap, txns |-> txns] /\ \A n \in 1 .. N : f[n] = AppendOne(f[n - 1], joined[n])
  BY <1>2, <1>3, AppendsAt
<1>5. Taken(f[0], 0)
  <2>1. \A k \in 1 .. 0 : FALSE
    OBVIOUS
  <2>2. f[0].heap = heap /\ f[0].txns = txns
    BY <1>4
  <2> QED
    BY <2>1, <2>2 DEF Taken
<1>6. ASSUME B # {} PROVE FALSE
  <2>1. B \subseteq Nat
    BY <1>3
  <2>2. PICK n \in B : \A y \in B : n <= y
    <3> HIDE DEF B
    <3> QED
      BY <1>6, <2>1, LeastOf
  <2>3. n # 0
    BY <1>5, <2>2
  <2>4. n \in 1 .. N /\ n - 1 \in 0 .. N /\ n - 1 < n
    BY <1>3, <2>3
  <2>5. Taken(f[n - 1], n - 1)
    <3>1. n - 1 \notin B
      BY <2>1, <2>2, <2>4
    <3> QED
      BY <2>4, <3>1
  <2>6. Taken(AppendOne(f[n - 1], joined[n]), n)
    BY <1>1, <1>2, <2>4, <2>5, TakesNext
  <2> QED
    BY <1>4, <2>4, <2>6
<1>7. Taken(f[N], N)
  BY <1>3, <1>6
<1> QED
  BY <1>2, <1>7 DEF Taken

(* A list without repetitions is as long as it has elements.                   *)
LEMMA NoRepeatCount ==
  ASSUME NEW S, NEW s \in Seq(S), NoRepeat(s)
  PROVE  Len(s) = Cardinality(ToSet(s))
<1>1. DOMAIN s = 1 .. Len(s) /\ Len(s) \in Nat
  OBVIOUS
<1>2. s \in [1 .. Len(s) -> ToSet(s)]
  BY <1>1 DEF ToSet
<1>3. s \in Bijection(1 .. Len(s), ToSet(s))
  <2>1. IsInjective(s)
    BY <1>1 DEF IsInjective, NoRepeat
  <2>2. \A t \in ToSet(s) : \E i \in 1 .. Len(s) : s[i] = t
    BY <1>1 DEF ToSet
  <2> QED
    BY <1>2, <2>1, <2>2 DEF Bijection, Injection, Surjection
<1>4. IsFiniteSet(1 .. Len(s)) /\ Cardinality(1 .. Len(s)) = Len(s)
  BY <1>1, FS_Interval
<1>5. ExistsBijection(1 .. Len(s), ToSet(s))
  BY <1>3 DEF ExistsBijection
<1> QED
  BY <1>4, <1>5, FS_Bijection

(* Then the transactions are the executions.                                   *)
Matched ==
  /\ {CountersOf(txns[i]) : i \in DOMAIN txns} = {CountersOfChain(p) : p \in Executions}
  /\ Cardinality(DOMAIN txns) = Cardinality(Executions)
  /\ \A i \in DOMAIN txns : Len(heap[txns[i]].counters) = Cardinality(CountersOf(txns[i]))

(* The path of a transaction that nothing continues is its execution.          *)
LEMMA AppendJoinedMatches ==
  ASSUME IInv, LinkInv, TypeInv, RecInv, JoinPlaces, NEW ch, Following(ch), AppendJoined
  PROVE  Matched'
<1>1. /\ work = <<>> /\ files' = files /\ FragTypes /\ TxnTypes /\ TxnsApart /\ IdsApart /\ NoCounterTwice
  BY DEF AppendJoined, recordVars, LinkInv, JoinPlaces
<1>2. Loaded' = Loaded /\ Loaded \subseteq Sample
  BY <1>1, LoadedAre DEF Loaded
<1>3. /\ \A q : CountersOfChain(q)' = CountersOfChain(q)
      /\ Executions' = Executions
  BY <1>2, SameGraph
<1>4. /\ heap' = heap
      /\ \A i : i \in DOMAIN txns' <=> i \in DOMAIN txns \/ \E k \in 1 .. Len(joined) : i = IdOf(k)
      /\ \A i \in DOMAIN txns : txns'[i] = txns[i]
      /\ \A k \in 1 .. Len(joined) : txns'[IdOf(k)] = joined[k]
  <2>1. Taken([heap |-> heap', txns |-> txns'], Len(joined))
    BY AllTaken
  <2> QED
    BY <2>1 DEF Taken
<1>5. \A x : Item(x) <=> InTxns(x) \/ InJoined(x)
  <2>1. \A k \in 1 .. Len(work) : FALSE
    BY <1>1
  <2> QED
    BY <2>1 DEF Item, Out, InJoined
<1>6. \A i \in DOMAIN txns' : txns'[i] \in 1 .. Len(heap) /\ Item(txns'[i])
  <2> TAKE i \in DOMAIN txns'
  <2>1. CASE i \in DOMAIN txns
    <3>1. InTxns(txns'[i])
      BY <1>4, <2>1 DEF InTxns
    <3> QED
      BY <1>1, <1>4, <1>5, <2>1, <3>1 DEF TxnTypes
  <2>2. ASSUME NEW k \in 1 .. Len(joined), i = IdOf(k) PROVE txns'[i] \in 1 .. Len(heap) /\ Item(txns'[i])
    <3>1. InJoined(txns'[i])
      BY <1>4, <2>2 DEF InJoined
    <3> QED
      BY <1>1, <1>4, <1>5, <2>2, <3>1 DEF TxnTypes
  <2> QED
    BY <1>4, <2>1, <2>2
<1>7. \A x : Item(x) => \E i \in DOMAIN txns' : txns'[i] = x
  <2>1. ASSUME NEW x, InTxns(x) PROVE \E i \in DOMAIN txns' : txns'[i] = x
    BY <1>4, <2>1 DEF InTxns
  <2>2. ASSUME NEW x, InJoined(x) PROVE \E i \in DOMAIN txns' : txns'[i] = x
    BY <1>4, <2>2 DEF InJoined
  <2> QED
    BY <1>5, <2>1, <2>2
<1>8. ASSUME NEW i \in DOMAIN txns', NEW j \in DOMAIN txns', txns'[i] = txns'[j] PROVE i = j
  <2>1. CASE i \in DOMAIN txns /\ j \in DOMAIN txns
    BY <1>1, <1>4, <1>8, <2>1 DEF TxnsApart
  <2>2. ASSUME NEW x \in DOMAIN txns, NEW k \in 1 .. Len(joined) PROVE txns'[x] # txns'[IdOf(k)]
    BY <1>1, <1>4 DEF IdsApart, InTxns
  <2>3. ASSUME NEW k \in 1 .. Len(joined), NEW m \in 1 .. Len(joined), txns'[IdOf(k)] = txns'[IdOf(m)] PROVE IdOf(k) = IdOf(m)
    BY <1>4, <2>3 DEF IdOf
  <2> QED
    BY <1>4, <1>8, <2>1, <2>2, <2>3
<1>b. PICK b : b = [i \in DOMAIN txns' |-> ch[txns'[i]]]
  OBVIOUS
<1>9. \A i \in DOMAIN txns' : b[i] = ch[txns'[i]]
  BY <1>b
<1>10. ASSUME NEW x, Item(x), x \in 1 .. Len(heap)
       PROVE  /\ Path(ch[x]) /\ CountersOf(x) = CountersOfChain(ch[x])
              /\ \A s \in Starts(Loaded) : ~ Continues(End(ch[x]), s)
              /\ ch[x] \in Executions
  <2>1. Path(ch[x]) /\ CountersOf(x) = CountersOfChain(ch[x])
    BY <1>10 DEF Following, ItemsAre
  <2>2. FollowsLink(End(ch[x]), None)
    BY <1>5, <1>10 DEF Following, ItemsOver
  <2>3. ASSUME NEW s \in Starts(Loaded), Continues(End(ch[x]), s) PROVE FALSE
    <3>1. s.data = None
      BY <2>2, <2>3 DEF FollowsLink
    <3>2. s.data \in LinksFrom(Loaded, End(ch[x]))
      BY <2>3 DEF Continues
    <3>3. s.data \in Links
      BY <1>2, <3>2, LinksAreLinks
    <3> QED
      BY <3>1, <3>3, NoneAssumption
  <2>4. ch[x] \in Chains /\ ~ Resumes(ch[x][1]) /\ IsClosed(Loaded, ch[x][1])
    BY <2>1, PathIsChain DEF Path
  <2>5. ch[x] \in Executions
    BY <2>3, <2>4 DEF Executions, End
  <2> QED
    BY <2>1, <2>3, <2>5
<1>11. \A i \in DOMAIN txns' : b[i] \in Executions /\ CountersOf(txns'[i]) = CountersOfChain(b[i])
  BY <1>6, <1>9, <1>10
<1>12. ASSUME NEW i \in DOMAIN txns', NEW j \in DOMAIN txns', b[i] = b[j] PROVE i = j
  <2>1. Path(b[i]) /\ b[j] = b[i]
    BY <1>6, <1>9, <1>10, <1>12
  <2>2. Leads(b[i], b[j])
    <3>1. Len(b[i]) \in Nat
      BY <2>1 DEF Path
    <3> QED
      BY <2>1, <3>1 DEF Leads
  <2>3. Leads(ch[txns'[i]], ch[txns'[j]])
    BY <1>9, <2>2
  <2>4. txns'[i] = txns'[j]
    BY <1>6, <2>3 DEF Following, ItemsPart
  <2> QED
    BY <1>8, <2>4
<1>13. ASSUME NEW e \in Executions PROVE \E i \in DOMAIN txns' : b[i] = e
  <2>1. PICK x \in 1 .. Len(heap) : Item(x) /\ Leads(ch[x], e)
    BY DEF Following, ItemsLead
  <2>2. ch[x] = e
    BY <1>10, <2>1, LeadsAll
  <2>3. PICK i \in DOMAIN txns' : txns'[i] = x
    BY <1>7, <2>1
  <2> QED
    BY <1>9, <2>2, <2>3
<1>14. Cardinality(DOMAIN txns') = Cardinality(Executions)
  <2>1. b \in [DOMAIN txns' -> Executions]
    BY <1>b, <1>9, <1>11
  <2>2. IsInjective(b)
    BY <1>12, <2>1 DEF IsInjective
  <2>3. b \in Bijection(DOMAIN txns', Executions)
    BY <1>13, <2>1, <2>2 DEF Bijection, Injection, Surjection
  <2>4. IsFiniteSet(DOMAIN txns')
    <3>1. DOMAIN txns' \in SUBSET (1 .. nextTxnId) /\ nextTxnId \in Nat
      BY <1>1, <1>4 DEF TxnTypes, IdOf
    <3>2. IsFiniteSet(1 .. nextTxnId)
      BY <3>1, FS_Interval
    <3> QED
      BY <3>1, <3>2, FS_Subset
  <2>5. ExistsBijection(DOMAIN txns', Executions)
    BY <2>3 DEF ExistsBijection
  <2> QED
    BY <2>4, <2>5, FS_Bijection
<1>15. {CountersOf(txns'[i]) : i \in DOMAIN txns'} = {CountersOfChain(p) : p \in Executions}
  BY <1>11, <1>13
<1>16. ASSUME NEW i \in DOMAIN txns' PROVE Len(heap[txns'[i]].counters) = Cardinality(CountersOf(txns'[i]))
  <2>1. PICK x \in 1 .. Len(heap) : x = txns'[i]
    BY <1>6
  <2>2. heap[x] \in Txn /\ NoRepeat(heap[x].counters)
    BY <1>1 DEF FragTypes, NoCounterTwice
  <2>3. heap[x].counters \in Seq(Sample)
    BY <2>2 DEF Txn
  <2>4. Len(heap[x].counters) = Cardinality(ToSet(heap[x].counters))
    BY <2>2, <2>3, NoRepeatCount
  <2> QED
    BY <2>1, <2>4 DEF CountersOf
<1>17. {ToSet(heap'[txns'[i]].counters) : i \in DOMAIN txns'} = {CountersOfChain(p)' : p \in Executions'}
  BY <1>3, <1>4, <1>15 DEF CountersOf
<1> QED
  BY <1>3, <1>4, <1>14, <1>16, <1>17 DEF Matched, CountersOf

-----------------------------------------------------------------------------
(* Without losses, from the end of loading on: every item follows its path,    *)
(* and in the end the transactions are the executions.                         *)
ExeInv ==
  /\ phase = "joining" /\ lost = {} => JoinPlaces /\ \E ch : Following(ch)
  /\ phase \in {"joined", "done"} /\ lost = {} => Matched

(* Nothing changes while the fragments are joined.                             *)
LEMMA SameFollowing ==
  ASSUME JoinPlaces, NEW ch, Following(ch), UNCHANGED <<files, heap, txns, work, joined, frags, resumeFrags>>
  PROVE  JoinPlaces' /\ Following(ch)'
<1>1. Loaded' = Loaded
  BY DEF Loaded
<1>2. /\ \A p : (Path(p)' <=> Path(p)) /\ CountersOfChain(p)' = CountersOfChain(p)
      /\ \A u, n : FollowsLink(u, n)' <=> FollowsLink(u, n)
      /\ Executions' = Executions
  BY <1>1, SameGraph
<1>3. /\ \A r : CountersOf(r)' = CountersOf(r) /\ (InTxns(r)' <=> InTxns(r)) /\ (InJoined(r)' <=> InJoined(r)) /\ (Out(r)' <=> Out(r))
      /\ \A f : StartOf(f)' = StartOf(f)
      /\ \A f, l : IsResume(f, l)' <=> IsResume(f, l)
  BY DEF CountersOf, InTxns, InJoined, Out, StartOf, First, IsResume
<1>4. \A x : Item(x)' <=> Item(x)
  BY <1>3 DEF Item
<1>5. ItemsAre(ch)' /\ ItemsPart(ch)' /\ ItemsLead(ch)'
  BY <1>2, <1>3, <1>4 DEF Following, ItemsAre, ItemsPart, ItemsLead, Leads
<1>6. ItemsOver(ch)' /\ WorkFollows(ch)'
  BY <1>2, <1>3 DEF Following, ItemsOver, WorkFollows, End
<1>7. NextsFollow'
  BY <1>2, <1>3 DEF JoinPlaces, NextsFollow
<1>8. NoCounterTwice' /\ TxnsApart'
  BY DEF JoinPlaces, NoCounterTwice, TxnsApart
<1>9. WorkApart' /\ IdsApart'
  BY DEF JoinPlaces, WorkApart, IdsApart, InTxns, InJoined
<1> QED
  BY <1>5, <1>6, <1>7, <1>8, <1>9 DEF JoinPlaces, Following

(* Nor after that.                                                             *)
LEMMA SameMatched ==
  ASSUME Matched, UNCHANGED <<files, heap, txns>>
  PROVE  Matched'
<1>1. Loaded' = Loaded
  BY DEF Loaded
<1>2. (\A p : CountersOfChain(p)' = CountersOfChain(p)) /\ Executions' = Executions
  BY <1>1, SameGraph
<1>4. {ToSet(heap'[txns'[i]].counters) : i \in DOMAIN txns'} = {CountersOf(txns[i]) : i \in DOMAIN txns}
  BY DEF CountersOf
<1>5. {CountersOfChain(p)' : p \in Executions'} = {CountersOfChain(p) : p \in Executions}
  BY <1>2
<1> QED
  BY <1>2, <1>4, <1>5 DEF Matched, CountersOf

(* joinFragments, at the end of a chain or not.                                *)
LEMMA JoinFragmentsFollows ==
  ASSUME IInv, LinkInv, TypeInv, RecInv, JoinCover, JoinPlaces, NEW ch, Following(ch), JoinFragments
  PROVE  JoinPlaces' /\ \E ch2 : Following(ch2)'
<1>1. Loaded' = Loaded
  BY DEF JoinFragments, recordVars, Loaded
<1>2. PICK txn, next, fs :
        \/ EndStep(txn) /\ next = work[1][2] /\ (next \in Links => resumeFrags[next] = <<>>)
        \/ next \in Links /\ ChainStep(txn, next, fs)
  BY JoinCases
<1>3. CASE EndStep(txn) /\ next = work[1][2] /\ (next \in Links => resumeFrags[next] = <<>>)
  BY <1>1, <1>3, EndFollows
<1>4. CASE next \in Links /\ ChainStep(txn, next, fs)
  BY <1>1, <1>4, ChainFollows, ChainPlaces
<1> QED
  BY <1>2, <1>3, <1>4

(* Every step keeps the transactions on the paths of the executions.           *)
LEMMA NextExe ==
  ASSUME IInv, LinkInv, TypeInv, RecInv, CoverInv, Placed, ExeInv, [Next]_vars
  PROVE  ExeInv'
<1>1. ASSUME NEW t \in Threads, NEW s \in Sites, Record(t, s) PROVE phase' \in {"recording", "loading"}
  BY <1>1 DEF Record
<1>2. CASE BeginCollection
  BY <1>2 DEF BeginCollection, ExeInv
<1>3. ASSUME NEW t \in Threads, BeginLoad(t) PROVE phase' \in {"recording", "loading"}
  BY <1>3 DEF BeginLoad
<1>4. CASE LoadSample
  BY <1>4 DEF LoadSample, ExeInv
<1>5. CASE EndLoad
  BY <1>5 DEF EndLoad, ExeInv
<1>6. CASE EndCollection
  <2>1. phase = "loading" /\ phase' = "joining" /\ lost' = lost
    BY <1>6 DEF EndCollection, recordVars
  <2>2. lost = {} => JoinPlaces' /\ \E ch : Following(ch)'
    BY <1>6, <2>1, EndCollectionFollows DEF CoverInv, Placed, Before
  <2> QED
    BY <2>1, <2>2 DEF ExeInv
<1>7. CASE JoinFragments
  <2>1. phase = "joining" /\ phase' = "joining" /\ lost' = lost
    BY <1>7 DEF JoinFragments, recordVars
  <2>2. lost = {} => JoinPlaces' /\ \E ch : Following(ch)'
    BY <1>7, <2>1, JoinFragmentsFollows DEF CoverInv, ExeInv
  <2> QED
    BY <2>1, <2>2 DEF ExeInv
<1>8. CASE AppendJoined
  <2>1. phase = "joining" /\ phase' = "joined" /\ lost' = lost
    BY <1>8 DEF AppendJoined, recordVars
  <2>2. lost = {} => Matched'
    BY <1>8, <2>1, AppendJoinedMatches DEF ExeInv
  <2> QED
    BY <2>1, <2>2 DEF ExeInv
<1>9. CASE GetData
  <2>1. phase = "joined" /\ phase' = "done" /\ lost' = lost /\ UNCHANGED <<files, heap, txns>>
    BY <1>9 DEF GetData, recordVars
  <2> QED
    BY <2>1, SameMatched DEF ExeInv
<1>10. CASE UNCHANGED vars
  <2>1. phase' = phase /\ lost' = lost /\ UNCHANGED <<files, heap, txns, work, joined, frags, resumeFrags>>
    BY <1>10 DEF vars, recordVars, fragVars, joinVars
  <2>2. phase = "joining" /\ lost = {} => JoinPlaces' /\ \E ch : Following(ch)'
    BY <2>1, SameFollowing DEF ExeInv
  <2>3. phase \in {"joined", "done"} /\ lost = {} => Matched'
    BY <2>1, SameMatched DEF ExeInv
  <2> QED
    BY <2>1, <2>2, <2>3 DEF ExeInv
<1>11. ASSUME phase' \in {"recording", "loading"} PROVE ExeInv'
  BY <1>11 DEF ExeInv
<1> QED
  BY <1>1, <1>2, <1>3, <1>4, <1>5, <1>6, <1>7, <1>8, <1>9, <1>10, <1>11 DEF Next

(* When no sample was lost the transactions are exactly the executions,        *)
(* whatever the order of the files and whichever side of a link was loaded     *)
(* first, and none has a counter twice (loader.py loadCounter, endLoad;        *)
(* fragments.py addResumeFragment, addSuspendFragment, joinFragments).         *)
THEOREM JoinedAsExecutedHolds == Spec => []JoinedAsExecuted
<1>1. ExeInv => JoinedAsExecuted
  BY DEF ExeInv, Matched, JoinedAsExecuted
<1>2. Init => CoverInv
  BY InitCover
<1>3. IInv /\ LinkInv /\ TypeInv /\ RecInv /\ CoverInv /\ [Next]_vars => CoverInv'
  BY NextCover
<1>4. Init => Placed
  BY InitPlaces DEF Placed
<1>5. IInv /\ LinkInv /\ TypeInv /\ RecInv /\ CoverInv /\ Placed /\ [Next]_vars => Placed'
  BY NextPlaces
<1>6. Init => ExeInv
  BY DEF Init, ExeInv
<1>7. IInv /\ LinkInv /\ TypeInv /\ RecInv /\ CoverInv /\ Placed /\ ExeInv /\ [Next]_vars => ExeInv'
  BY NextExe
<1> QED
  BY <1>1, <1>2, <1>3, <1>4, <1>5, <1>6, <1>7, InitInv, NextInv, InitLinks, NextLinks, InitTypes, NextTypes, InitRec, NextRec, PTL DEF Spec
=============================================================================
