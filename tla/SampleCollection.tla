--------------------------- MODULE SampleCollection ---------------------------
(***************************************************************************)
(* The path of a probe sample, from the trampoline of an application       *)
(* thread, through the thread's SamplesBuffer, to the thread's samples     *)
(* file: lib/xpedite/probes/{ProbeCtl.S,Recorders.C},                      *)
(* include/xpedite/framework/SamplesBuffer.H and                           *)
(* lib/xpedite/framework/{Collector,StorageMgr,Persister}.                 *)
(*                                                                         *)
(* Every thread may be inside a probe at any time; the framework thread    *)
(* runs the collector.  Threads create their SamplesBuffer at their first  *)
(* probe, also in the middle of a session.  Each access to memory the      *)
(* other side uses is a step; the pool's indices behave as in BufferPool,  *)
(* whose readIndexMax is NoReader here.                                    *)
(*                                                                         *)
(* A sample is two words, stored one after the other: its tsc, and a       *)
(* return site that stands for all the rest.  The site of a sample is the  *)
(* number of its tsc, so a sample is intact when the two agree.  All       *)
(* samples have the same size, and BufLen of them reach the guard.         *)
(***************************************************************************)
EXTENDS Integers, Sequences, SequencesExt, FiniteSetsExt

CONSTANTS
  Threads,      \* application threads
  PoolSize,     \* buffers per thread
  BufLen,       \* samples per buffer
  Capacity,     \* samplesDataCapacity, in samples; 0 is unlimited
  MaxTsc        \* bound: probes hit

ASSUME SizeAssumption == PoolSize \in Nat /\ PoolSize > 1 /\ BufLen \in Nat \ {0}
ASSUME CapacityAssumption == Capacity \in Nat /\ MaxTsc \in Nat

VARIABLES
  clock,      \* the time stamp counter
  probesOn,   \* the probes are patched to call the trampoline
  \* per application thread
  wpc,        \* where the thread is in the trampoline
  tsc,        \* the time stamp it records
  wseen,      \* its local copy of rindex
  pos,        \* samplesBufferPtr, as an offset; BufLen is samplesBufferEnd
  \* per SamplesBuffer
  buf,        \* the samples in each buffer of the pool
  windex, rindex, overflow,
  attached,   \* _fd >= 0
  lastTsc,    \* _lastSampledTsc
  lastOverflow,
  \* the collector
  list,       \* the chain of SamplesBuffers, newest first
  cpc,        \* where the framework thread is
  todo,       \* the buffers the loop over the chain has left
  flushing,   \* poll's flush_
  starting,   \* the attach is attachAll's, not poll's
  rseen,      \* its local copy of windex
  range,      \* flush: the RDTSC limit, then the samples to persist
  consumed,   \* StorageMgr::_size
  dropped,    \* samples were dropped: _capacityBreached, or a write failed
  file,       \* the samples persisted for each thread in this collection
  \* history, per thread
  since,      \* the clock when its reader was attached
  recorded,   \* the time stamps of the samples it has recorded completely
  reported,   \* overflows the collection has reported
  quiet,      \* it was outside every probe when the collection ended
  raced,      \* a buffer was read while the writer was one beyond the pool
  high        \* the last time stamp persisted cleanly by earlier collections

threadVars == <<wpc, tsc, wseen, pos>>
poolVars == <<buf, windex, overflow>>
readerVars == <<rindex, attached, lastTsc, lastOverflow>>
storeVars == <<consumed, dropped, file>>
loopVars == <<todo, flushing, starting>>
histVars == <<reported, quiet, raced, high>>
vars == <<clock, probesOn, threadVars, poolVars, readerVars, storeVars, loopVars,
          list, cpc, rseen, range, since, recorded, histVars>>

NoReader == -1
NoSample == [tsc |-> 0, site |-> 0]
Slots == 0 .. PoolSize - 1
Slot(i) == i % PoolSize

Init ==
  /\ clock = 0
  /\ probesOn = FALSE
  /\ wpc = [t \in Threads |-> "out"]
  /\ tsc = [t \in Threads |-> 0]
  /\ wseen = [t \in Threads |-> NoReader]
  /\ pos = [t \in Threads |-> BufLen]
  /\ buf = [t \in Threads |-> [s \in Slots |-> [k \in 1 .. BufLen |-> NoSample]]]
  /\ windex = [t \in Threads |-> 0]
  /\ rindex = [t \in Threads |-> NoReader]
  /\ overflow = [t \in Threads |-> 0]
  /\ attached = [t \in Threads |-> FALSE]
  /\ lastTsc = [t \in Threads |-> 0]
  /\ lastOverflow = [t \in Threads |-> 0]
  /\ list = <<>>
  /\ cpc = "off"
  /\ todo = <<>>
  /\ flushing = FALSE
  /\ starting = FALSE
  /\ rseen = 0
  /\ range = [limit |-> 0, idx |-> 0, from |-> 1, to |-> 0]
  /\ consumed = 0
  /\ dropped = FALSE
  /\ file = [t \in Threads |-> <<>>]
  /\ since = [t \in Threads |-> 0]
  /\ recorded = [t \in Threads |-> {}]
  /\ reported = [t \in Threads |-> 0]
  /\ quiet = [t \in Threads |-> FALSE]
  /\ raced = [t \in Threads |-> FALSE]
  /\ high = [t \in Threads |-> 0]

-----------------------------------------------------------------------------
(* Application threads: xpediteTrampoline and xpediteExpandAndRecord.      *)

collectorUnchanged == UNCHANGED <<readerVars, storeVars, loopVars, probesOn, cpc, rseen, range, since, histVars>>

\* A patched call site is executed.
EnterProbe(t) ==
  /\ probesOn
  /\ wpc[t] = "out"
  /\ wpc' = [wpc EXCEPT ![t] = "stamp"]
  /\ UNCHANGED <<clock, tsc, wseen, pos, poolVars, list, recorded>>
  /\ collectorUnchanged

\* rdtsc, and the comparison of samplesBufferPtr with samplesBufferEnd.
Stamp(t) ==
  /\ wpc[t] = "stamp"
  /\ clock < MaxTsc
  /\ clock' = clock + 1
  /\ tsc' = [tsc EXCEPT ![t] = clock']
  /\ wpc' = [wpc EXCEPT ![t] = IF pos[t] < BufLen THEN "record"
                               ELSE IF Contains(list, t) THEN "load" ELSE "allocate"]
  /\ UNCHANGED <<wseen, pos, poolVars, list, recorded>>
  /\ collectorUnchanged

\* The constructor of SamplesBuffer pushes it onto the chain (compare and swap).
Allocate(t) ==
  /\ wpc[t] = "allocate"
  /\ list' = <<t>> \o list
  /\ wpc' = [wpc EXCEPT ![t] = "load"]
  /\ UNCHANGED <<clock, tsc, wseen, pos, poolVars, recorded>>
  /\ collectorUnchanged

\* SamplesBuffer::expand: nextWritableBuffer loads the read index.
LoadReadIndex(t) ==
  /\ wpc[t] = "load"
  /\ wseen' = [wseen EXCEPT ![t] = rindex[t]]
  /\ wpc' = [wpc EXCEPT ![t] = "claim"]
  /\ UNCHANGED <<clock, tsc, pos, poolVars, list, recorded>>
  /\ collectorUnchanged

HasRoom(t) == wseen[t] = NoReader \/ windex[t] < wseen[t] + PoolSize

\* Mutated form: samplesBufferPtr is not set to the new buffer.
PublishKeepsPos(t) ==
  /\ wpc[t] = "claim"
  /\ HasRoom(t)
  /\ windex' = [windex EXCEPT ![t] = @ + 1]
  /\ wseen' = [wseen EXCEPT ![t] = NoReader]
  /\ wpc' = [wpc EXCEPT ![t] = "record"]
  /\ UNCHANGED <<clock, tsc, pos, buf, overflow, list, recorded>>
  /\ collectorUnchanged

\* nextWritableBuffer hands out the next buffer and publishes the last one.
Publish(t) ==
  /\ wpc[t] = "claim"
  /\ HasRoom(t)
  /\ windex' = [windex EXCEPT ![t] = @ + 1]
  /\ wseen' = [wseen EXCEPT ![t] = NoReader]
  /\ pos' = [pos EXCEPT ![t] = 0]
  /\ wpc' = [wpc EXCEPT ![t] = "record"]
  /\ UNCHANGED <<clock, tsc, buf, overflow, list, recorded>>
  /\ collectorUnchanged

\* Mutated form: the overflow is not counted.
OverflowUncounted(t) ==
  /\ wpc[t] = "claim"
  /\ ~ HasRoom(t)
  /\ wseen' = [wseen EXCEPT ![t] = NoReader]
  /\ pos' = [pos EXCEPT ![t] = 0]
  /\ wpc' = [wpc EXCEPT ![t] = "record"]
  /\ UNCHANGED <<clock, tsc, buf, windex, overflow, list, recorded>>
  /\ collectorUnchanged

\* nextWritableBuffer hands out the buffer just filled once more.
Overflow(t) ==
  /\ wpc[t] = "claim"
  /\ ~ HasRoom(t)
  /\ overflow' = [overflow EXCEPT ![t] = @ + 1]
  /\ wseen' = [wseen EXCEPT ![t] = NoReader]
  /\ pos' = [pos EXCEPT ![t] = 0]
  /\ wpc' = [wpc EXCEPT ![t] = "record"]
  /\ UNCHANGED <<clock, tsc, buf, windex, list, recorded>>
  /\ collectorUnchanged

\* The store of the first word of the sample.
StoreTsc(t) ==
  /\ wpc[t] = "record"
  /\ buf' = [buf EXCEPT ![t][Slot(windex[t])][pos[t] + 1].tsc = tsc[t]]
  /\ wpc' = [wpc EXCEPT ![t] = "store"]
  /\ UNCHANGED <<clock, tsc, wseen, pos, windex, overflow, list, recorded>>
  /\ collectorUnchanged

\* The store of the rest of the sample; samplesBufferPtr moves past it.
StoreSite(t) ==
  /\ wpc[t] = "store"
  /\ buf' = [buf EXCEPT ![t][Slot(windex[t])][pos[t] + 1].site = tsc[t]]
  /\ pos' = [pos EXCEPT ![t] = @ + 1]
  /\ recorded' = [recorded EXCEPT ![t] = @ \cup {tsc[t]}]
  /\ tsc' = [tsc EXCEPT ![t] = 0]
  /\ wpc' = [wpc EXCEPT ![t] = "out"]
  /\ UNCHANGED <<clock, wseen, windex, overflow, list>>
  /\ collectorUnchanged

Thread(t) ==
  \/ EnterProbe(t) \/ Stamp(t) \/ Allocate(t) \/ LoadReadIndex(t)
  \/ Publish(t) \/ Overflow(t) \/ StoreTsc(t) \/ StoreSite(t)

-----------------------------------------------------------------------------
(* The scan of a buffer and the store of what it selects.                  *)

Tscs(s) == {s[k].tsc : k \in DOMAIN s}

\* A sample is stale when its tsc does not exceed every tsc seen before it.
IsStale(s, k, last) == s[k].tsc <= Max({last} \cup {s[j].tsc : j \in 1 .. k - 1})

\* collectSamples: everything up to the last stale sample is skipped.
FirstFresh(s, last) == 1 + Max({0} \cup {k \in DOMAIN s : IsStale(s, k, last)})

\* flush: the scan ends at the first tsc that is out of order or not in the past.
ValidPrefix(s, limit) ==
  Max({0} \cup {n \in DOMAIN s : \A k \in 1 .. n :
                  /\ s[k].tsc > (IF k = 1 THEN 0 ELSE s[k - 1].tsc)
                  /\ s[k].tsc < limit})

\* Samples on file carry the history bit that says how they were read.
Tagged(s, clean) == [k \in DOMAIN s |-> [tsc |-> s[k].tsc, site |-> s[k].site, clean |-> clean]]

\* Mutated form: consume does not look at what is consumed already.
PersistUnmetered(t, s, clean) ==
  IF s = <<>> THEN UNCHANGED storeVars
  ELSE IF Capacity = 0 \/ Len(s) <= Capacity
       THEN /\ file' = [file EXCEPT ![t] = @ \o Tagged(s, clean)]
            /\ consumed' = IF Capacity = 0 THEN consumed ELSE consumed + Len(s)
            /\ UNCHANGED dropped
       ELSE dropped' = TRUE /\ UNCHANGED <<file, consumed>>

\* persistSamples with StorageMgr::consume and Persister::persistData.  The first
\* refusal is logged; persistData does not look at the result of its writes, so
\* that samples it could not write are counted, gone, and reported to nobody.
Persist(t, s, clean) ==
  IF s = <<>> THEN UNCHANGED storeVars
  ELSE IF Capacity = 0 \/ consumed + Len(s) <= Capacity
       THEN /\ \/ file' = [file EXCEPT ![t] = @ \o Tagged(s, clean)] /\ UNCHANGED dropped
               \/ dropped' = TRUE /\ UNCHANGED file
            /\ consumed' = IF Capacity = 0 THEN consumed ELSE consumed + Len(s)
       ELSE dropped' = TRUE /\ UNCHANGED <<file, consumed>>

-----------------------------------------------------------------------------
(* The framework thread: Handler and Collector.                            *)

threadsUnchanged == UNCHANGED <<clock, threadVars, poolVars, list, recorded>>

\* The buffer the loop over the chain is at.
At == Head(todo)

\* The writer was between its load and its store when the reader attached, and
\* is now rewriting the buffer the reader reads (see BufferPool's IndexWindow).
Racing == windex[At] > rindex[At] + PoolSize

\* The samples of a thread's file that were read while no one could write them.
CleanAt(t) == {k \in DOMAIN file[t] : file[t][k].clean}

\* Requests between two polls enable and disable the probes.
ActivateProbes ==
  /\ cpc \in {"off", "idle"}
  /\ ~ probesOn
  /\ probesOn' = TRUE
  /\ UNCHANGED <<readerVars, storeVars, loopVars, cpc, rseen, range, since, histVars>>
  /\ threadsUnchanged

DeactivateProbes ==
  /\ cpc \in {"off", "idle"}
  /\ probesOn
  /\ probesOn' = FALSE
  /\ UNCHANGED <<readerVars, storeVars, loopVars, cpc, rseen, range, since, histVars>>
  /\ threadsUnchanged

\* Handler::beginProfile: a new Collector, then attachAll.
BeginCollection ==
  /\ cpc = "off"
  /\ todo' = list
  /\ starting' = TRUE
  /\ flushing' = FALSE
  /\ consumed' = 0
  /\ dropped' = FALSE
  /\ file' = [t \in Threads |-> <<>>]
  /\ high' = [t \in Threads |-> Max({high[t]} \cup {file[t][k].tsc : k \in CleanAt(t)})]
  /\ cpc' = IF list = <<>> THEN "idle" ELSE "visit"
  /\ UNCHANGED <<readerVars, probesOn, rseen, range, since, reported, quiet, raced>>
  /\ threadsUnchanged

\* Collector::poll, at the framework's poll interval.
BeginPoll ==
  /\ cpc = "idle"
  /\ list # <<>>
  /\ todo' = list
  /\ starting' = FALSE
  /\ flushing' = FALSE
  /\ cpc' = "visit"
  /\ UNCHANGED <<readerVars, storeVars, probesOn, rseen, range, since, histVars>>
  /\ threadsUnchanged

\* Handler::endProfile: Profile::stop, then endSamplesCollection polls with flush.
EndCollection ==
  /\ cpc = "idle"
  /\ probesOn' = FALSE
  /\ todo' = list
  /\ starting' = FALSE
  /\ flushing' = TRUE
  /\ cpc' = IF list = <<>> THEN "detach" ELSE "visit"
  /\ quiet' = [t \in Threads |-> wpc[t] = "out"]
  /\ UNCHANGED <<readerVars, storeVars, rseen, range, since, reported, raced, high>>
  /\ threadsUnchanged

\* The loop over the chain moves on, or ends.
Advance ==
  /\ todo' = Tail(todo)
  /\ cpc' = IF Len(todo) > 1 THEN "visit" ELSE IF flushing THEN "detach" ELSE "idle"

\* attachReader cannot open the samples file.  poll leaves the buffer for the
\* next poll; attachAll detaches what it has attached and the profile fails.
OpenFails ==
  /\ cpc = "visit"
  /\ ~ attached[At]
  /\ IF starting
     THEN /\ attached' = [t \in Threads |-> FALSE]
          /\ rindex' = [t \in Threads |-> NoReader]
          /\ since' = [t \in Threads |-> 0]
          /\ todo' = <<>>
          /\ cpc' = "off"
     ELSE Advance /\ UNCHANGED <<attached, rindex, since>>
  /\ UNCHANGED <<lastTsc, lastOverflow, storeVars, flushing, starting, probesOn, rseen, range, histVars>>
  /\ threadsUnchanged

\* attachReader opens the file and loads the write index.
AttachBegin ==
  /\ cpc = "visit"
  /\ ~ attached[At]
  /\ attached' = [attached EXCEPT ![At] = TRUE]
  /\ rseen' = windex[At]
  /\ cpc' = "attach"
  /\ UNCHANGED <<rindex, lastTsc, lastOverflow, storeVars, loopVars, probesOn, range, since, histVars>>
  /\ threadsUnchanged

AttachStore ==
  /\ cpc = "attach"
  /\ rindex' = [rindex EXCEPT ![At] = IF rseen > 0 THEN rseen - 1 ELSE 0]
  /\ since' = [since EXCEPT ![At] = clock]
  /\ raced' = [raced EXCEPT ![At] = FALSE]
  /\ cpc' = "attachCheck"
  /\ UNCHANGED <<attached, lastTsc, lastOverflow, storeVars, loopVars, probesOn, rseen, range, reported, quiet, high>>
  /\ threadsUnchanged

AttachCheck ==
  /\ cpc = "attachCheck"
  /\ IF windex[At] > rindex[At] + PoolSize THEN rseen' = windex[At] /\ cpc' = "attach" /\ UNCHANGED todo
     ELSE /\ rseen' = 0
          /\ IF starting THEN Advance ELSE cpc' = "collect" /\ UNCHANGED todo
  /\ UNCHANGED <<readerVars, storeVars, flushing, starting, probesOn, range, since, histVars>>
  /\ threadsUnchanged

\* poll finds the buffer attached already.
VisitAttached ==
  /\ cpc = "visit"
  /\ attached[At]
  /\ cpc' = "collect"
  /\ UNCHANGED <<readerVars, storeVars, loopVars, probesOn, rseen, range, since, histVars>>
  /\ threadsUnchanged

\* collectSamples: nextReadableRange returns a published buffer.
HandOut ==
  /\ cpc = "collect"
  /\ windex[At] > rindex[At] + 1
  /\ cpc' = "reading"
  /\ UNCHANGED <<readerVars, storeVars, loopVars, probesOn, rseen, range, since, histVars>>
  /\ threadsUnchanged

\* Mutated form: samples of an earlier session are not recognised.
PersistBufferAll ==
  /\ cpc = "reading"
  /\ LET s == buf[At][Slot(rindex[At] + 1)]
     IN  /\ Persist(At, s, ~ Racing)
         /\ lastTsc' = [lastTsc EXCEPT ![At] = Max({@} \cup Tscs(s))]
  /\ rindex' = [rindex EXCEPT ![At] = @ + 1]
  /\ raced' = [raced EXCEPT ![At] = @ \/ Racing]
  /\ cpc' = "collect"
  /\ UNCHANGED <<attached, lastOverflow, loopVars, probesOn, rseen, range, since, reported, quiet, high>>
  /\ threadsUnchanged

\* collectSamples: the buffer is scanned, its fresh samples are persisted, and
\* the next call of nextReadableRange gives it back.
PersistBuffer ==
  /\ cpc = "reading"
  /\ LET s == buf[At][Slot(rindex[At] + 1)]
     IN  /\ Persist(At, SubSeq(s, FirstFresh(s, lastTsc[At]), BufLen), ~ Racing)
         /\ lastTsc' = [lastTsc EXCEPT ![At] = Max({@} \cup Tscs(s))]
  /\ rindex' = [rindex EXCEPT ![At] = @ + 1]
  /\ raced' = [raced EXCEPT ![At] = @ \/ Racing]
  /\ cpc' = "collect"
  /\ UNCHANGED <<attached, lastOverflow, loopVars, probesOn, rseen, range, since, reported, quiet, high>>
  /\ threadsUnchanged

\* collectSamples ends; flush, if it is due, reads the time stamp counter.
CollectDone ==
  /\ cpc = "collect"
  /\ ~ (windex[At] > rindex[At] + 1)
  /\ cpc' = IF flushing THEN "peek" ELSE "account"
  /\ range' = IF flushing THEN [range EXCEPT !.limit = clock + 1] ELSE range
  /\ UNCHANGED <<readerVars, storeVars, loopVars, probesOn, rseen, since, histVars>>
  /\ threadsUnchanged

\* flush: peekWithDataRace and the scan.
FlushScan ==
  /\ cpc = "peek"
  /\ LET s == buf[At][Slot(windex[At])]
         n == ValidPrefix(s, range.limit)
     IN  /\ range' = [limit |-> range.limit, idx |-> windex[At], to |-> n,
                      from |-> FirstFresh(SubSeq(s, 1, n), lastTsc[At])]
         /\ lastTsc' = [lastTsc EXCEPT ![At] = Max({@} \cup {s[k].tsc : k \in 1 .. n})]
  /\ cpc' = "flush"
  /\ UNCHANGED <<rindex, attached, lastOverflow, storeVars, loopVars, probesOn, rseen, since, histVars>>
  /\ threadsUnchanged

\* flush: the samples the scan selected are written out of the live buffer.
FlushPersist ==
  /\ cpc = "flush"
  /\ Persist(At, SubSeq(buf[At][Slot(range.idx)], range.from, range.to), quiet[At])
  /\ range' = [limit |-> 0, idx |-> 0, from |-> 1, to |-> 0]
  /\ cpc' = "account"
  /\ UNCHANGED <<readerVars, loopVars, probesOn, rseen, since, histVars>>
  /\ threadsUnchanged

\* poll: the overflows since the last poll are added up and reported.
Account ==
  /\ cpc = "account"
  /\ lastOverflow' = [lastOverflow EXCEPT ![At] = overflow[At]]
  /\ reported' = [reported EXCEPT ![At] = @ + overflow[At] - lastOverflow[At]]
  /\ Advance
  /\ UNCHANGED <<rindex, attached, lastTsc, storeVars, flushing, starting, probesOn, rseen, range, since,
                 quiet, raced, high>>
  /\ threadsUnchanged

\* endSamplesCollection: detachAll walks the chain again.
DetachAll ==
  /\ cpc = "detach"
  /\ attached' = [t \in Threads |-> FALSE]
  /\ rindex' = [t \in Threads |-> NoReader]
  /\ flushing' = FALSE
  /\ cpc' = "off"
  /\ since' = [t \in Threads |-> 0]
  /\ reported' = [t \in Threads |-> 0]
  /\ quiet' = [t \in Threads |-> FALSE]
  /\ raced' = [t \in Threads |-> FALSE]
  /\ UNCHANGED <<lastTsc, lastOverflow, storeVars, todo, starting, probesOn, rseen, range, high>>
  /\ threadsUnchanged

Framework ==
  \/ ActivateProbes \/ DeactivateProbes
  \/ BeginCollection \/ BeginPoll \/ EndCollection
  \/ OpenFails \/ AttachBegin \/ AttachStore \/ AttachCheck \/ VisitAttached
  \/ HandOut \/ PersistBuffer \/ CollectDone
  \/ FlushScan \/ FlushPersist \/ Account \/ DetachAll

Next == Framework \/ \E t \in Threads : Thread(t)

Spec == Init /\ [][Next]_vars

-----------------------------------------------------------------------------
(* Properties.                                                             *)

\* Every thread keeps within its buffer: the trampoline stores a sample only below
\* samplesBufferEnd, and StorageMgr counts no more than its capacity.
TypeOK ==
  /\ clock \in 0 .. MaxTsc
  /\ wpc \in [Threads -> {"out", "stamp", "allocate", "load", "claim", "record", "store"}]
  /\ pos \in [Threads -> 0 .. BufLen]
  /\ \A t \in Threads : wpc[t] \in {"record", "store"} => pos[t] < BufLen
  /\ attached \in [Threads -> BOOLEAN]
  /\ consumed \in 0 .. Capacity

\* Samples read from a published buffer, or flushed for a thread that was outside
\* every probe, are on file intact and in the order of their time stamps, and
\* none of them was on file already or in the file of an earlier collection.
\* Left out is what was read while the writer was one beyond the pool (Racing):
\* the reader had attached in the middle of nextWritableBuffer.
CleanInOrder ==
  \A t \in Threads : \A i \in CleanAt(t) :
    /\ file[t][i].tsc = file[t][i].site
    /\ file[t][i].tsc > high[t]
    /\ \A j \in CleanAt(t) : j < i => file[t][j].tsc < file[t][i].tsc

\* The samples on file, over all threads: each is a place of a file.
OnDisk == UNION {{t} \X DOMAIN file[t] : t \in Threads}

\* The files of a collection, of all threads together, keep within the capacity the
\* profile was begun with: StorageMgr counts what the collector writes.
CapacityRespected == Capacity > 0 => Cardinality(OnDisk) <= Capacity

\* When a collection has flushed, every sample that a thread recorded since its
\* reader was attached is on file, or the collection has reported an overflow of
\* that thread's pool, or the capacity is spent.  Left out are a thread that was
\* inside a probe when the collection ended, one whose reader attached in the
\* middle of nextWritableBuffer, and a collection in which a write failed: that
\* loss the code does not report.
NoSilentLoss ==
  cpc = "detach" =>
    \A t \in Threads :
      (attached[t] /\ quiet[t] /\ ~ raced[t] /\ reported[t] = 0 /\ ~ dropped) =>
        \A x \in recorded[t] : x > since[t] => x \in Tscs(file[t])

\* "Intact sample objects are copied to release space in the samples buffer."
IntactPersisted ==
  \A t \in Threads : \A i \in DOMAIN file[t] : file[t][i].tsc = file[t][i].site

=============================================================================
