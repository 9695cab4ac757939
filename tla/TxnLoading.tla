------------------------------ MODULE TxnLoading ------------------------------
(* How the profiler builds transactions out of the samples of a profile        *)
(* (txn/loader.py, txn/fragments.py, txn/__init__.py, txn/collector.py,        *)
(* txn/extractor.py, txn/collection.py).                                       *)
(*                                                                             *)
(* The threads of the target record samples; a transaction may be suspended in *)
(* one thread and resumed, once or several times, in others. The files of the  *)
(* threads are then loaded one after the other, in whatever order the file     *)
(* system lists them, and the fragments of suspended transactions are joined.  *)
(*                                                                             *)
(* Python objects that the code shares by reference are indices into a heap:   *)
(* heap holds the Transaction objects, frags the TxnFragment objects.          *)
EXTENDS Probes, FiniteSets, StableSort

CONSTANTS
  Threads,      \* the threads of the target, each with one samples file
  Sites,        \* return sites of the probes in the binary
  AppProbe,     \* the probes listed in the app info file, by return site
  UserProbes,   \* the probes of the profile, in order
  None,
  MaxSamples,   \* bound: samples recorded in a profile
  MaxLost       \* bound: samples lost when a thread runs out of buffers

VARIABLES
  phase,          \* "recording", "loading", "joining", "joined" or "done"
  clock,          \* the time stamp counter
  files,          \* the samples file of each thread
  open,           \* threads that are inside a transaction
  lost,           \* number of samples lost
  pending,        \* threads whose file is not loaded yet
  thread,         \* the thread whose file is being loaded, or None
  pos,            \* the next record of that file
  orphaned,       \* Extractor.orphanedSamplesCount
  heap,           \* Transaction objects
  currentTxn,
  txns,           \* the OrderedDict of transactions: id -> object
  compromisedTxns,
  nonTxnCounters,
  ephemeralCounters,
  nextTxnId,
  resumeFragment,
  suspendingTxn,
  frags,          \* TxnFragment objects
  rootFragments,
  resumeFrags,    \* TxnFragments.fragments under a ResumeKey
  suspendFrag,    \* TxnFragments.fragments under a SuspendKey
  work,           \* calls of joinFragments still to make: <<object, link>>
  joined,         \* the list that TxnFragments.join returns
  txnMap          \* TxnCollection.txnMap: the ids in order

recordVars == <<clock, files, open, lost>>
fileVars   == <<pending, thread, pos, orphaned>>
fragVars   == <<frags, rootFragments, resumeFrags, suspendFrag>>
joinVars   == <<work, joined, txnMap>>
sortVars   == <<compromisedTxns, nonTxnCounters, ephemeralCounters>>
vars == <<phase, recordVars, fileVars, heap, currentTxn, txns, sortVars, nextTxnId,
          resumeFragment, suspendingTxn, fragVars, joinVars>>

(* The identity of a suspended transaction: the time stamp of the suspending   *)
(* sample and the address of the thread's local storage.                       *)
Links == (1 .. MaxSamples) \X Threads

ASSUME BoundsAssumption == MaxSamples \in Nat
ASSUME NoneAssumption == None \notin Nat /\ None \notin Threads /\ None \notin Links

-----------------------------------------------------------------------------
(* The attributes that count for a sample: those of the user's probe if the    *)
(* profile has one for it, else those of the probe in the binary.              *)
UserAttrs(c) == ProbeMapGet(UserProbes, AppProbe[c.site], AppProbe[c.site]).attrs
Begins(c)   == "canBeginTxn" \in UserAttrs(c)
Resumes(c)  == "canResumeTxn" \in UserAttrs(c)
Suspends(c) == "canSuspendTxn" \in UserAttrs(c)
Ends(c)     == "canEndTxn" \in UserAttrs(c)
Opens(c)    == Begins(c) \/ Resumes(c)
Closes(c)   == Ends(c) \/ Suspends(c)

Counter(threadId, site, data, tsc) ==
  [threadId |-> threadId, site |-> site, data |-> data, tsc |-> tsc]

(* Transaction.__init__ and addCounter.                                        *)
Transaction(c) == [counters |-> <<c>>, hasEndProbe |-> FALSE, txnId |-> None]
AddCounters(txn, cs, isEndProbe) ==
  [txn EXCEPT !.counters = @ \o cs, !.hasEndProbe = @ \/ isEndProbe]

(* Transaction.join: the counters of both, in order of time.                   *)
Join(txn, other) ==
  LET all == txn.counters \o other.counters
  IN  [txn EXCEPT !.counters = StableSort(all, [i \in DOMAIN all |-> all[i].tsc])]

(* Transaction.finalize: the first counter of a transaction.                   *)
BeginTsc(txn) == Min({txn.counters[i].tsc : i \in DOMAIN txn.counters})

-----------------------------------------------------------------------------
(* The target. A thread opens a transaction with a begin or a resume probe and *)
(* closes it with an end or a suspend probe; a resume names a transaction that *)
(* was suspended before, and several may name the same one.                    *)
Loaded == {c \in UNION {ToSet(files[t]) : t \in Threads} : c.site \in DOMAIN AppProbe}
LinkOf(c) == <<c.tsc, c.threadId>>
Suspended == {LinkOf(c) : c \in {d \in Loaded \cup lost : Suspends(d)}}

Init ==
  /\ phase = "recording"
  /\ clock = 0
  /\ files = [t \in Threads |-> <<>>]
  /\ open = {}
  /\ lost = {}
  /\ pending = Threads
  /\ thread = None
  /\ pos = 1
  /\ orphaned = 0
  /\ heap = <<>>
  /\ currentTxn = None
  /\ txns = <<>>
  /\ compromisedTxns = <<>>
  /\ nonTxnCounters = <<>>
  /\ ephemeralCounters = <<>>
  /\ nextTxnId = 0
  /\ resumeFragment = None
  /\ suspendingTxn = FALSE
  /\ frags = <<>>
  /\ rootFragments = <<>>
  /\ resumeFrags = [l \in Links |-> <<>>]
  /\ suspendFrag = [l \in Links |-> None]
  /\ work = <<>>
  /\ joined = <<>>
  /\ txnMap = <<>>

(* A probe of thread t is hit. The sample may be lost (no buffer was free).    *)
Record(t, s) ==
  LET known == s \in DOMAIN AppProbe
      hit(data) == Counter(t, s, data, clock + 1)
  IN
  /\ phase = "recording"
  /\ clock < MaxSamples
  /\ known => /\ Opens(hit(None)) => t \notin open
              /\ Closes(hit(None)) => t \in open
  /\ clock' = clock + 1
  /\ open' = IF ~ known THEN open
             ELSE IF Opens(hit(None)) THEN open \cup {t}
             ELSE IF Closes(hit(None)) THEN open \ {t} ELSE open
  /\ \E data \in IF known /\ Resumes(hit(None)) THEN Suspended ELSE {None} :
       \/ /\ files' = [files EXCEPT ![t] = Append(@, hit(data))]
          /\ lost' = lost
       \/ /\ known
          /\ Cardinality(lost) < MaxLost
          /\ lost' = lost \cup {hit(data)}
          /\ files' = files
  /\ UNCHANGED <<phase, fileVars, heap, currentTxn, txns, sortVars, nextTxnId,
                 resumeFragment, suspendingTxn, fragVars, joinVars>>

(* beginCollection: the profile has ended.                                     *)
BeginCollection ==
  /\ phase = "recording"
  /\ phase' = "loading"
  /\ UNCHANGED <<recordVars, fileVars, heap, currentTxn, txns, sortVars, nextTxnId,
                 resumeFragment, suspendingTxn, fragVars, joinVars>>

(* beginLoad: the file of any thread may be next.                              *)
BeginLoad(t) ==
  /\ phase = "loading"
  /\ thread = None
  /\ t \in pending
  /\ thread' = t
  /\ pos' = 1
  /\ UNCHANGED <<phase, recordVars, pending, orphaned, heap, currentTxn, txns, sortVars,
                 nextTxnId, resumeFragment, suspendingTxn, fragVars, joinVars>>

-----------------------------------------------------------------------------
(* Fragments. A link is made from whichever side is loaded last.               *)

(* A fragment, not linked yet to those that resume it.                         *)
TxnFragment(ref) == [txn |-> ref, next |-> None]

(* addResumeFragment(link, txn), txn being the object at ref.                  *)
AddResumeFragment(link, ref) ==
  LET first  == resumeFrags[link] = <<>>
      linked == IF first /\ suspendFrag[link] # None
                THEN [frags EXCEPT ![suspendFrag[link]].next = link]
                ELSE frags
  IN  /\ frags' = Append(linked, TxnFragment(ref))
      /\ resumeFrags' = [resumeFrags EXCEPT ![link] = Append(@, Len(frags) + 1)]
      /\ UNCHANGED <<rootFragments, suspendFrag>>

(* Fault: the suspending side does not look for resumptions loaded before it.  *)
AddSuspendFragmentUnlinked(link, ref, fragment) ==
  LET isRoot == fragment = None
      all    == IF isRoot THEN Append(frags, TxnFragment(ref)) ELSE frags
      f      == IF isRoot THEN Len(all) ELSE fragment
  IN  /\ frags' = all
      /\ rootFragments' = IF isRoot THEN Append(rootFragments, f) ELSE rootFragments
      /\ suspendFrag' = [suspendFrag EXCEPT ![link] = f]
      /\ UNCHANGED resumeFrags

(* addSuspendFragment(link, txn, fragment): a transaction that was not resumed *)
(* itself is the root of a chain.                                              *)
AddSuspendFragment(link, ref, fragment) ==
  LET isRoot == fragment = None
      all    == IF isRoot THEN Append(frags, TxnFragment(ref)) ELSE frags
      f      == IF isRoot THEN Len(all) ELSE fragment
  IN  /\ frags' = IF resumeFrags[link] # <<>> THEN [all EXCEPT ![f].next = link] ELSE all
      /\ rootFragments' = IF isRoot THEN Append(rootFragments, f) ELSE rootFragments
      /\ suspendFrag' = [suspendFrag EXCEPT ![link] = f]
      /\ UNCHANGED resumeFrags

-----------------------------------------------------------------------------
(* The loader.                                                                 *)

(* Fault: only the suspending fragments are kept back.                         *)
KeepBackSuspended == suspendingTxn

(* BoundedTxnLoader.appendTxn: fragments are kept back until all are loaded.   *)
KeepBack == resumeFragment # None \/ suspendingTxn

(* A new entry of the dictionary.                                              *)
Put(dict, id, ref) == [k \in DOMAIN dict \cup {id} |-> IF k = id THEN ref ELSE dict[k]]

(* Fault: the id is not taken.                                                 *)
AppendTxnSameId(ref) ==
  IF KeepBack THEN UNCHANGED <<txns, nextTxnId>>
  ELSE /\ nextTxnId' = nextTxnId
       /\ txns' = Put(txns, nextTxnId + 1, ref)

AppendTxn(ref) ==
  IF KeepBack THEN UNCHANGED <<txns, nextTxnId>>
  ELSE /\ nextTxnId' = nextTxnId + 1
       /\ txns' = Put(txns, nextTxnId + 1, ref)

(* buildTxn for a counter that begins or resumes a transaction.                *)
BuildTxn(c) ==
  /\ suspendingTxn' = FALSE
  /\ heap' = Append(heap, Transaction(c))
  /\ IF Resumes(c)
     THEN /\ AddResumeFragment(c.data, Len(heap) + 1)
          /\ resumeFragment' = Len(frags) + 1
     ELSE /\ resumeFragment' = None
          /\ UNCHANGED fragVars

(* Fault: the counters between two transactions are dropped.                   *)
FlushEphemeralDrops ==
  /\ ephemeralCounters' = <<>>
  /\ UNCHANGED <<nonTxnCounters, compromisedTxns>>

FlushEphemeral ==
  /\ nonTxnCounters' = nonTxnCounters \o ephemeralCounters
  /\ ephemeralCounters' = <<>>
  /\ UNCHANGED compromisedTxns

(* A transaction is under way and the counter opens the next one.              *)
NextTxn(c) ==
  /\ currentTxn # None
  /\ Opens(c)
  /\ heap[currentTxn].hasEndProbe \/ Resumes(c)
  /\ FlushEphemeral
  /\ AppendTxn(currentTxn)
  /\ BuildTxn(c)
  /\ currentTxn' = Len(heap) + 1

(* A transaction begins inside one that is under way, or an inner probe is hit *)
AddInner(c) ==
  /\ currentTxn # None
  /\ ~ heap[currentTxn].hasEndProbe
  /\ IF Opens(c) THEN ~ Resumes(c) ELSE ~ Closes(c)
  /\ heap' = [heap EXCEPT ![currentTxn] = AddCounters(@, <<c>>, FALSE)]
  /\ UNCHANGED <<currentTxn, txns, sortVars, nextTxnId, resumeFragment, suspendingTxn, fragVars>>

(* The counter closes the transaction: what was hit since an earlier close     *)
(* belongs to it after all.                                                    *)
CloseTxn(c) ==
  /\ currentTxn # None
  /\ ~ Opens(c)
  /\ Closes(c)
  /\ heap' = [heap EXCEPT ![currentTxn] = AddCounters(@, Append(ephemeralCounters, c), TRUE)]
  /\ ephemeralCounters' = <<>>
  /\ IF Suspends(c)
     THEN /\ suspendingTxn' = TRUE
          /\ AddSuspendFragment(LinkOf(c), currentTxn, resumeFragment)
     ELSE UNCHANGED <<suspendingTxn, fragVars>>
  /\ UNCHANGED <<currentTxn, txns, compromisedTxns, nonTxnCounters, nextTxnId, resumeFragment>>

(* An inner probe is hit when no transaction is under way, or after its end.   *)
AddEphemeral(c) ==
  /\ ~ Opens(c) /\ ~ Closes(c)
  /\ currentTxn # None => heap[currentTxn].hasEndProbe
  /\ ephemeralCounters' = Append(ephemeralCounters, c)
  /\ UNCHANGED <<heap, currentTxn, txns, compromisedTxns, nonTxnCounters, nextTxnId,
                 resumeFragment, suspendingTxn, fragVars>>

(* Fault: what the file before left behind is not moved out of the way.        *)
FirstTxnKeepsEphemeral(c) ==
  /\ currentTxn = None
  /\ Opens(c)
  /\ BuildTxn(c)
  /\ currentTxn' = Len(heap) + 1
  /\ UNCHANGED <<txns, nextTxnId, sortVars>>

(* The first transaction of a file.                                            *)
FirstTxn(c) ==
  /\ currentTxn = None
  /\ Opens(c)
  /\ BuildTxn(c)
  /\ currentTxn' = Len(heap) + 1
  /\ FlushEphemeral
  /\ UNCHANGED <<txns, nextTxnId>>

(* A close without an open: a compromised transaction.                         *)
Compromise(c) ==
  /\ currentTxn = None
  /\ ~ Opens(c)
  /\ Closes(c)
  /\ suspendingTxn' = FALSE
  /\ resumeFragment' = None
  /\ heap' = Append(heap, AddCounters(Transaction(c), ephemeralCounters, FALSE))
  /\ compromisedTxns' = Append(compromisedTxns, Len(heap) + 1)
  /\ ephemeralCounters' = <<>>
  /\ UNCHANGED <<currentTxn, txns, nonTxnCounters, nextTxnId, fragVars>>

(* loadCounter.                                                                *)
LoadCounter(c) ==
  \/ NextTxn(c)
  \/ AddInner(c)
  \/ CloseTxn(c)
  \/ AddEphemeral(c)
  \/ FirstTxn(c)
  \/ Compromise(c)

(* Extractor.loadSample and loadCounter: a sample of a return site that the    *)
(* app info file does not list is counted and skipped.                         *)
LoadSample ==
  /\ phase = "loading"
  /\ thread # None
  /\ pos <= Len(files[thread])
  /\ pos' = pos + 1
  /\ LET c == files[thread][pos] IN
       IF c.site \in DOMAIN AppProbe
       THEN LoadCounter(c) /\ orphaned' = orphaned
       ELSE /\ orphaned' = orphaned + 1
            /\ UNCHANGED <<heap, currentTxn, txns, sortVars, nextTxnId, resumeFragment,
                           suspendingTxn, fragVars>>
  /\ UNCHANGED <<phase, recordVars, pending, thread, joinVars>>

(* endLoad: ephemeral counters, fragment and flags stay for the next file.     *)
EndLoad ==
  /\ phase = "loading"
  /\ thread # None
  /\ pos > Len(files[thread])
  /\ IF currentTxn # None /\ heap[currentTxn].hasEndProbe
     THEN AppendTxn(currentTxn) /\ UNCHANGED compromisedTxns
     ELSE /\ compromisedTxns' = IF currentTxn = None THEN compromisedTxns
                                ELSE Append(compromisedTxns, currentTxn)
          /\ UNCHANGED <<txns, nextTxnId>>
  /\ currentTxn' = None
  /\ thread' = None
  /\ pending' = pending \ {thread}
  /\ UNCHANGED <<phase, recordVars, pos, orphaned, heap, nonTxnCounters, ephemeralCounters,
                 resumeFragment, suspendingTxn, fragVars, joinVars>>

(* endCollection: TxnFragments.join starts from every root.                    *)
EndCollection ==
  /\ phase = "loading"
  /\ thread = None
  /\ pending = {}
  /\ phase' = "joining"
  /\ work' = [i \in DOMAIN rootFragments |->
                <<frags[rootFragments[i]].txn, frags[rootFragments[i]].next>>]
  /\ UNCHANGED <<recordVars, fileVars, heap, currentTxn, txns, sortVars, nextTxnId,
                 resumeFragment, suspendingTxn, fragVars, joined, txnMap>>

(* joinFragments(txns, txn, fragments). The end of a chain takes the next id;  *)
(* a fragment that was resumed several times makes a copy of the transaction   *)
(* for every resumption but the first.                                         *)
JoinFragments ==
  LET txn  == work[1][1]
      next == work[1][2]
      fs   == IF next = None THEN <<>> ELSE resumeFrags[next]
      ref(i) == IF i = 1 THEN txn ELSE Len(heap) + i - 1
      merged(i) == Join(heap[txn], heap[frags[fs[i]].txn])
  IN
  /\ phase = "joining"
  /\ work # <<>>
  /\ IF fs = <<>>
     THEN /\ nextTxnId' = nextTxnId + 1
          /\ heap' = [heap EXCEPT ![txn].txnId = nextTxnId + 1]
          /\ joined' = Append(joined, txn)
          /\ work' = Tail(work)
     ELSE /\ heap' = [heap EXCEPT ![txn] = merged(1)] \o [i \in 1 .. Len(fs) - 1 |-> merged(i + 1)]
          /\ work' = [i \in DOMAIN fs |-> <<ref(i), frags[fs[i]].next>>] \o Tail(work)
          /\ UNCHANGED <<nextTxnId, joined>>
  /\ UNCHANGED <<phase, recordVars, fileVars, currentTxn, txns, sortVars, resumeFragment,
                 suspendingTxn, fragVars, txnMap>>

(* AbstractTxnLoader.appendTxn for every transaction that join returned: one   *)
(* whose id is taken is joined with the transaction that has it.               *)
AppendJoined ==
  LET append(st, ref) ==
        LET id == st.heap[ref].txnId
        IN  IF id \in DOMAIN st.txns
            THEN [st EXCEPT !.heap[st.txns[id]] = Join(@, st.heap[ref])]
            ELSE [st EXCEPT !.txns = Put(@, id, ref)]
      states[n \in 0 .. Len(joined)] ==
        IF n = 0 THEN [heap |-> heap, txns |-> txns] ELSE append(states[n - 1], joined[n])
      all == states[Len(joined)]
  IN
  /\ phase = "joining"
  /\ work = <<>>
  /\ phase' = "joined"
  /\ heap' = all.heap
  /\ txns' = all.txns
  /\ UNCHANGED <<recordVars, fileVars, currentTxn, sortVars, nextTxnId, resumeFragment,
                 suspendingTxn, fragVars, work, joined, txnMap>>

(* getData: TxnCollection orders the transactions by their first counter; the  *)
(* dictionary has them in the order of their ids.                              *)
TxnMap ==
  LET ids == SetToSortSeq(DOMAIN txns, <)
  IN  StableSort(ids, [i \in DOMAIN ids |-> BeginTsc(heap[txns[ids[i]]])])
GetData ==
  /\ phase = "joined"
  /\ phase' = "done"
  /\ txnMap' = TxnMap
  /\ UNCHANGED <<recordVars, fileVars, heap, currentTxn, txns, sortVars, nextTxnId,
                 resumeFragment, suspendingTxn, fragVars, work, joined>>

Next ==
  \/ \E t \in Threads, s \in Sites : Record(t, s)
  \/ BeginCollection
  \/ \E t \in Threads : BeginLoad(t)
  \/ LoadSample
  \/ EndLoad
  \/ EndCollection
  \/ JoinFragments
  \/ AppendJoined
  \/ GetData

Spec == Init /\ [][Next]_vars

-----------------------------------------------------------------------------
(* Properties.                                                                 *)

Counters == [threadId : Threads, site : Sites, data : Links \cup {None}, tsc : 1 .. MaxSamples]

(* Every variable has its type; references point into their heaps.             *)
TypeOK ==
  /\ phase \in {"recording", "loading", "joining", "joined", "done"}
  /\ clock \in 0 .. MaxSamples
  /\ \A t \in Threads : ToSet(files[t]) \subseteq Counters
  /\ open \subseteq Threads
  /\ lost \subseteq Counters
  /\ pending \subseteq Threads
  /\ thread \in Threads \cup {None}
  /\ pos \in 1 .. MaxSamples + 1
  /\ orphaned \in 0 .. MaxSamples
  /\ \A i \in DOMAIN heap : ToSet(heap[i].counters) \subseteq Counters
  /\ currentTxn \in DOMAIN heap \cup {None}
  /\ ToSet(compromisedTxns) \subseteq DOMAIN heap
  /\ ToSet(nonTxnCounters) \cup ToSet(ephemeralCounters) \subseteq Counters
  /\ DOMAIN txns \subseteq 1 .. nextTxnId
  /\ \A i \in DOMAIN txns : txns[i] \in DOMAIN heap
  /\ resumeFragment \in DOMAIN frags \cup {None}
  /\ suspendingTxn \in BOOLEAN
  /\ \A i \in DOMAIN frags : frags[i].txn \in DOMAIN heap /\ frags[i].next \in Links \cup {None}
  /\ ToSet(rootFragments) \subseteq DOMAIN frags

CountersOf(ref) == ToSet(heap[ref].counters)

(* What a thread executed of a transaction in one go, out of the samples L: a  *)
(* stretch. It starts at a counter that opens a transaction; a begin starts    *)
(* none while an earlier opening of the thread has not been closed, as when    *)
(* the close was lost. It lasts until the next stretch starts, except for the  *)
(* counters after the last closing one.                                        *)
Ending(c) == Closes(c) /\ ~ Opens(c)
Earlier(c, d) == c.threadId = d.threadId /\ c.tsc < d.tsc
Starts(L) ==
  {c \in L : /\ Opens(c)
             /\ ~ Resumes(c) => \A d \in L : Earlier(d, c) /\ Opens(d) =>
                                  \E e \in L : Earlier(d, e) /\ Earlier(e, c) /\ Ending(e)}
Region(L, c) ==
  {d \in L : /\ d = c \/ Earlier(c, d)
             /\ \A s \in Starts(L) : Earlier(c, s) => Earlier(d, s)}
IsClosed(L, c) == \E e \in Region(L, c) : Ending(e)
Stretch(L, c) ==
  {d \in Region(L, c) : IsClosed(L, c) => \E e \in Region(L, c) : Ending(e) /\ d.tsc <= e.tsc}

(* The links under which a stretch was suspended, and what continues it.       *)
LinksFrom(L, c) == {LinkOf(d) : d \in {e \in Stretch(L, c) : Ending(e) /\ Suspends(e)}}
Continues(a, b) == Resumes(b) /\ b.data \in LinksFrom(Loaded, a)

(* Stretches, named by their first counters, each of which continues the one   *)
(* before it.                                                                  *)
Chains ==
  LET starts == Starts(Loaded)
  IN  {p \in BoundedSeq(starts, Cardinality(starts)) :
         p # <<>> /\ \A i \in 1 .. Len(p) - 1 : Continues(p[i], p[i + 1])}
CountersOfChain(p) == UNION {Stretch(Loaded, p[k]) : k \in DOMAIN p}

(* An execution of a transaction: from a begin that the thread closed, through *)
(* one resumption of each suspension, until nothing resumes it.                *)
Executions ==
  {p \in Chains : /\ ~ Resumes(p[1]) /\ IsClosed(Loaded, p[1])
                  /\ ~ \E s \in Starts(Loaded) : Continues(p[Len(p)], s)}

(* When no sample was lost the transactions are exactly the executions,        *)
(* whatever the order in which the files were loaded and whichever side of a   *)
(* link came first, and none has a counter twice (loader.py loadCounter,       *)
(* fragments.py addResumeFragment, addSuspendFragment, joinFragments).         *)
JoinedAsExecuted ==
  phase = "done" /\ lost = {} =>
    /\ {CountersOf(txns[i]) : i \in DOMAIN txns} =
         {CountersOfChain(p) : p \in Executions}
    /\ Cardinality(DOMAIN txns) = Cardinality(Executions)
    /\ \A i \in DOMAIN txns : Len(heap[txns[i]].counters) = Cardinality(CountersOf(txns[i]))

(* With or without losses, a transaction that holds a resumption holds the     *)
(* suspension it continues: threads are never mixed up (fragments.py Key).     *)
LinksClosed ==
  \A i \in DOMAIN txns : \A c \in CountersOf(txns[i]) :
    Resumes(c) => \E d \in CountersOf(txns[i]) : Suspends(d) /\ LinkOf(d) = c.data

(* A transaction under way, and the counters that may still be added to it,    *)
(* are of the thread being loaded, although endLoad leaves ephemeral counters  *)
(* behind (loader.py loadCounter, endLoad).                                    *)
CurrentOfOneThread ==
  currentTxn # None =>
    \A c \in CountersOf(currentTxn) \cup ToSet(ephemeralCounters) : c.threadId = thread

(* What is in no report: the counters still held back at the end, and the      *)
(* chains that start at a resumption whose suspension was lost or lost its own *)
(* opening counter, or at one that continues a transaction which was resumed   *)
(* itself and, an opening being lost, suspended more than once: its fragment   *)
(* follows one of these links.                                                 *)
Reported ==
  (UNION {CountersOf(txns[i]) : i \in DOMAIN txns})
    \cup (UNION {CountersOf(r) : r \in ToSet(compromisedTxns)})
    \cup ToSet(nonTxnCounters)
Dangling(c) ==
  /\ Resumes(c)
  /\ \A s \in Starts(Loaded) :
       Continues(s, c) => Resumes(s) /\ LinksFrom(Loaded, s) # {c.data}
OrphanChain(c) == \E p \in Chains : Dangling(p[1]) /\ c \in Stretch(Loaded, p[Len(p)])

(* No counter disappears silently except those two kinds, and the second only  *)
(* if a sample was lost (loader.py loadCounter, appendTxn; fragments.py        *)
(* addSuspendFragment, joinFragments).                                         *)
OnlyOrphansSkipped ==
  phase = "done" =>
    \A c \in Loaded \ Reported :
      c \in ToSet(ephemeralCounters) \/ (lost # {} /\ OrphanChain(c))

(* AbstractTxnLoader.isNotAccounted "Returns True, if any of the counters were *)
(* skipped, due to data inconsistency".                                        *)
SkippedAreAccounted ==
  phase = "done" /\ Loaded \ Reported # {} => nonTxnCounters # <<>>

=============================================================================
