# Xpedite in TLA+

Xpedite profiles C++ programs through probes: call sites that are patched, at run time, to
record a time stamp and counters. A background thread in the profiled process (the
*framework thread*) collects what application threads record and serves requests, from inside
the process or from a Python profiler over TCP. These modules specify the parts of it whose
correctness depends on order, and the algorithms that turn samples into reports: what threads
share without locks, who may profile when, what a profile leaves behind, how the profiler talks to
a process that may not answer, how transactions are put together from the samples of several
threads, and what is counted in a report.

## 1. The system

| Part | State | Operations | Talks to |
|---|---|---|---|
| `WaitFreeBufferPool` | write index, read index, overflow count, buffers | attach, detach, next writable, next readable, peek | one writer thread, the framework thread; no lock |
| `SamplesBuffer` chain | one pool per thread, a file descriptor, last time stamp and overflow count collected | expand, attach/detach all, ranges | pushed on a list with compare and swap by new threads |
| trampolines, recorders | `samplesBufferPtr`, `samplesBufferEnd` (thread local) | record a sample, expand | pool |
| `Collector`, `StorageMgr`, `Persister` | collecting, capacity used, capacity breached | begin, poll, flush, end | chain, files |
| `Handler`, `Profile` | collector, poll interval, keys of active probes | execute requests, poll, shut down | collector, PMU, recorders, probes |
| `PmuCtl`, `PerfEventsCtl`, `RecorderCtl` | counters enabled, event sets per thread with a generation, active recorder | enable, disable, attach a thread, release | threads in probes |
| `SessionManager`, `LocalSession`, `RemoteSession` | session type, request slot, client | poll, execute, shut down | callers through the slot, clients through TCP |
| `Framework` | can-run flag, the thread, the init promise | initialise, profile, end, halt | application threads |
| `Listener`, `Framer`, `Buffer` | socket, cursor, receive buffer | accept, read a frame | `RemoteSession` |
| `ProbeList`, `Probe`, `AddressSpace` | list of probes, code bytes | add, activate, deactivate, match | application code |
| profiler client (Python) | connection, rpyc server, driver, time of the session | start, restart, command, wait, report | target by TCP, driver |
| PMU requests (Python) | events database, topdown tree, lists of requests, registers | load, resolve, allocate, enable | driver or target |
| transaction loaders (Python) | transaction under way, counters set aside, fragments | load a counter, end a file, join | sample files |
| analytics, reports, notebook (Python) | groups, timelines, histograms, profiles | filter, group, conflate, compare, show | loaders |

What is hard, and where: the list `hazards` in `PROJECT.json` names each place by line. In
short: the pool is shared by two threads that read each other's index; a reader joins while the
writer is in the middle of taking a buffer; the last buffer is read while it is written; three
kinds of actor (callers, clients, the framework thread) compete for one handler; a profile can
end in six ways; the thread everybody waits for may be halted or may die.

What makes each part correct:

* pool: a buffer the reader is given is complete and is not written; nothing published is
  skipped; the loops end; the index never wraps.
* collector: the file holds samples in order, once; what is missing was reported.
* sessions: one at a time; a caller is answered; a request is not used after its caller left.
* handler: however a profile ends, the process is as it was.
* framer: it delivers the frames sent, whole and in order.
* profiler client: it takes a response for the command it belongs to, profiles what it was asked
  to, comes to an end, and holds nothing then.
* PMU requests: every event asked for has one request, in a register that can count it.
* loaders: a transaction is what one execution recorded, whatever the order of files; nothing
  disappears silently.
* analytics: every transaction is in a report once, every cycle in one segment of its timeline, and
  only like is compared with like.

## 2. Modules

| Module | Models | Extends |
|---|---|---|
| `BufferPool` | `WaitFreeBufferPool.H`, one writer, one reader | |
| `BufferPoolProofs` | theorems about it | `BufferPool` |
| `SampleCollection` | trampoline, `SamplesBuffer`, `Collector`, `StorageMgr`, all threads | |
| `SampleCollectionProofs` | theorems about it | `SampleCollection` |
| `MCSampleCollection` | symmetry for the run with two threads | `SampleCollection` |
| `Handler` | what each request does: `Handler`, `Profile`, `PmuCtl`, `RecorderCtl` | |
| `SessionControl` | `Framework`, `SessionManager`, both sessions | `Handler` |
| `SessionControlProofs` | theorems about it | `SessionControl` |
| `MCSessionControl` | small sets of requests and keys | `SessionControl` |
| `FrameQueue` | what a connection promises: a queue of frames | |
| `Framing` | `Framer`, `Buffer`; implements `FrameQueue` | |
| `FramingProofs` | theorems about it, the refinement included | `Framing` |
| `ProfilerClient` | a session of the profiler, composed with the target's `RemoteSession` | `Handler` |
| `ProfilerClientProofs` | theorems about it | `ProfilerClient` |
| `MCProfilerClient` | profiles, durations, leftovers | `ProfilerClient` |
| `Probes` | `types/probe.py`, `ProbeMap` | |
| `StableSort` | Python's `sorted` and `list.sort` (external) | |
| `TxnLoading` | recording, `Extractor`, `BoundedTxnLoader`, `TxnFragments`, `TxnCollection` | `Probes`, `StableSort` |
| `TxnLoadingProofs` | theorems about it, losses included | `TxnLoading` |
| `TxnExecutionProofs` | without losses the transactions are the executions | `TxnLoadingProofs` |
| `MCTxnLoading` | a binary with a probe of each kind | `TxnLoading` |
| `Analytics` | `analytics/`, `types/route.py`, classifier, histograms, report, notebook commands | |
| `MCAnalytics` | seven transactions | `Analytics` |
| `Pmu` | `pmu/`: database, topdown tree, requests, allocation | `StableSort` |
| `PmuProofs` | theorems about it | `Pmu` |
| `MCPmu` | a database, a tree and lists of counters | `Pmu` |

### BufferPool

`windex`, `rindex`, `overflow` and `content` are the members of the pool; `wpc`, `wseen` and
`rpc`, `rseen`, `cur` are where the two threads are and what their local variables hold.
`nextWritableBuffer` is `LoadReadIndex` followed by `Publish` or `Overflow`; `attachReader` is
`AttachBegin`, then `AttachStore` and `AttachCheck` until the check succeeds;
`nextReadableBuffer` is `Release` (with a buffer in hand), then `HandOut` or `FindNone`. The
writer's index is only written by the writer, so its own load needs no step. The content of a
buffer is the index it was filled for and whether the fill is complete. `attempts` and `reads`
are history: they appear in no guard.

Indices are numbers below `Wrap` and their sums wrap, because `readIndexMax`, the read index of
a pool without a reader, is chosen so that `rindex + poolSize` is the largest index. In the run
`pool` and in the proofs `Wrap` is far from the bound (`NoWrap`); the configuration `BufferPool_width` takes the
write index to the end of the range.

**Memory model.** Actions are sequentially consistent. The code runs on x86-64 only (the
trampolines are its assembly), where the writer's stores become visible in order, so a published
index is seen after the samples it covers. The one place where a store may be passed by a later
load is the writer's `_writeIndex` store and its next load of `_readIndex`, thousands of
samples later, and the reader's `_readIndex` stores, which when seen late only make the writer
more careful; the store in `attachReader` is sequentially consistent in the code.

### SampleCollection

Each thread is `out`side every probe or inside one, at the `stamp`, at the allocation of its
buffer, in `nextWritableBuffer` or between the two stores of a sample (`StoreTsc`,
`StoreSite`). The framework thread runs `Handler::beginProfile` (`BeginCollection`, then the
attach of each buffer in the chain), `Collector::poll` (`BeginPoll`, then for each buffer of the
chain: attach if need be, `HandOut`/`PersistBuffer` until there is none, `Account`) and
`Handler::endProfile` (`EndCollection`: the same loop with `FlushScan` and `FlushPersist`, then
`DetachAll`). Files may fail to open at any time (`OpenFails`), and a write may fail: `persist` ignores the result, so the
samples are counted and not on file, and nothing is reported.

A sample is its time stamp and one more word, the *site*, that stands for everything else;
`StoreSite` stores the time stamp's own number, so that a sample is intact when the two agree.
The content of a published buffer that is not under rewrite cannot change, so reading it is one
step. `flush` is two: what it selected is written from a live buffer. The scan of `flush` is
one step; a scan interleaved with stores reads some samples later, and every sample it then sees
in a different state is one of a thread that was inside a probe, which no property but the
refuted `IntactPersisted` speaks of.

`since`, `recorded`, `reported`, `dropped`, `quiet`, `raced`, `high` and the `clean` bit of a persisted
sample are history. They say which samples the code can vouch for: `quiet` threads were outside
every probe when the collection ended, and `raced` readers attached in the middle of
`nextWritableBuffer` (the case `IndexWindow` allows). Both exclusions are necessary: without
either, TLC finds a lost buffer. A sample that a racing reader took, or that was flushed from a thread inside a probe, is not
`clean`. `dropped` says that samples of the collection were not written, because the capacity was breached (which is
reported) or because a write failed (which is not).

### Handler and SessionControl

`h` is everything a request can change: whether there is a collector, whether the poll interval
is 0, the keys in `Profile::_activeProbes`, the probes patched, the counters enabled, whether
perf events are (`perf`), the attributes published for threads to attach (`attrs`), whether a thread has
attached some (`attached`), and the active recorder. `PerfEventsCtl::enable` publishes the attributes before it can
fail and does not withdraw them: `attrs` is then `"failed"`, threads that start attach events (`StartThread`), and `disable`
leaves both alone until a later request succeeds. `Outcomes(s, r)` is the set of results of executing
request `r` in state `s`; a failure that depends on files, on the kernel or on a null callback is
a second element of the set. `fpc` walks through `SessionManager::poll`: the slot (`local`), the
listener (`accept`), the client, `Handler::poll` (`work`), and back.

A caller goes through the requests of `Framework::beginProfile` (`stage`), each through
`Enqueue` and `Awaited`; a failed one goes to the stage `end`, because the guard created first is
destroyed on return. `DestroyGuard` is the destructor of the guard a successful call returned.
A client connects, sends one request at a time and closes at any moment; `pollClient` executes frames for as long as
there are any, so nothing bounds how many. `WriteFails`,
`DropClient` and `AcceptThrows` are the ways a poll fails: an exception from `accept` is not
caught before `initializeOnce`, so the thread ends without `shutdown` (`dead`).

### Framing

A byte is a record that says which byte of which frame it is, so that what `readFrame` returns can
be compared with what was sent. `ReadSocket` reads any number of the bytes on the wire that the
buffer has room for after `EnsureRoom`; `CompleteMeta` and `CompleteBody` are the two states of the
cursor. `BufferSound` says what `ensureCapacity` would do in every state: make room for all that is missing of
the frame under way, and keep what is unread. `Queue` maps the state to `FrameQueue`: the frames sent and not delivered are the queue, and
a delivered frame is the number of the frame whose bytes it has, 0 if there is none. Fairness is
that the session keeps polling.

### ProfilerClient

`pc` walks through `Profiler.record`: start of the app, `pingApp` with its one restart, `Runtime.__init__`
(counters, resolution of probes, activation one by one, check of the list, begin), the loop with its
heartbeat, end, release of the driver, report, exit. Each command is `Send`, `ReadHeader`, `ReadBody`
(`admin`, `readFrame`, `readAtleast`), or one of the ways it fails: `Timeout` after ten seconds, `ReadFails`
at the end of the stream, `ReadGarbled` when an earlier time out left the stream in the middle of a frame.
`Raise` says, caller by caller, what an exception does. The connection is two queues; a restart makes a second
one, and the first keeps what it holds. A start launches an rpyc server for a remote target, links to it and attaches to the
target, and each of the three may fail (`LaunchFails`, `LinkFails`, `AttachFails`); `linked` are the servers it got connected to, and
`StopApp` kills only those: `Remote.__exit__` raises on a connection that is `None` before it gets to `kill`. The target executes commands through the operators of `Handler`, refuses
a second connection, resets when the profiler closes, and may die (`TargetDies`). `opts` is the command line
and the profile; `Leftovers` are states in which an earlier profiler may have left the target, which are
states that `MCSessionControl_disconnect.cfg` shows to occur.

### Probes and TxnLoading

`Probes` has the two notions of equality of a probe and the lookup of `ProbeMap` with its order of
insertion. `TxnLoading` first lets the threads record (`Record`, samples may be lost), then loads the
files in any order and finally joins. Python objects shared by reference are indices into `heap` and
`frags`. `LoadCounter` has one disjunct per branch of `BoundedTxnLoader.loadCounter`; `JoinFragments` is one
call of the recursion, its stack being `work`. A transaction is checked against `Executions`, which are
computed from the files without the loader's state. `AppendJoined` is the loop of `appendTxn` over the joined
transactions, as a function of the number of rounds; `Put` inserts in the dictionary. `StableSort` is what Python's `sorted` does: by key,
equal keys in the order they had.

The thread model is the one of the transaction probes: a thread opens a transaction when it is in
none and closes the one it is in; a resume names a suspension that took place before.

### Analytics

A state is what was loaded; `FilterTxns`, `GenerateHistograms`, `GenerateProfiles` and `GenerateReport` are
the steps of `ReportGenerator.generateReport`; the notebook's commands show something in `shown` and change nothing else. The
algorithms are operators: `ConflateRoutes`, `BuildTimeline`, `ConflateTimeline`, `TimelineLeaves`,
`Buckets`, `BuildDistribution`, `DiffTable`, `DiffTxns`. One hardware counter stands for all; a sample without counts has `None`. Time is in cycles.
`buildTimelineStats` raises for a transaction whose counters do not match its route (`Mismatch`) or lack a time stamp or counts
(`Incomplete`), and one such transaction of the current run or of a benchmark fails the whole report. Means are
kept exact by scaling; whether floating point rounding still makes the last bucket is a choice (`count`).

### Pmu

`LoadEventsDb`, then `ResolveCounters` (topdown nodes to events, each once), `ResolveEvent` for each event, the
allocation (`BeginAllocation`, one `Allocate` per call of the recursion, `EndAllocation`), and the two
ways to enable. A register is a number from 0; a request's place in the list is its register, as for the driver.
`DiscardFirst` is the loop of `Allocator.allocate` as it is written, with a `return` in its first iteration. `OpenFails` and the
alternatives of `EnableCpu` and `BuildPerfEventsRequest` are the failures of the device: a driver that is not loaded, a counter mask that does not
fit its byte (`Packs`), a write or a flush that fails. (The device is opened in text mode and a packed request is bytes, which Python 3
refuses to write: that is the failing alternative too.) `reads` of a node is what its ratio asks for in the pass of
`buildEventsCollector`, in which every event has the value 99; ratios are not computed, so what they would read with
other values is not modelled.

## 3. Runs

| Run | Bounds | Shows |
|---|---|---|
| `pool` | 4 buffers, write index to 12, 2 overflows | types, `IndexWindow`, `IntactRead`, `AttachAtMostTwice`, `AttachTerminates`, `PublishedIsRead` |
| `collection` | 1 thread, 2 buffers of 3 samples, 10 probe hits, no capacity limit | types, `CleanInOrder`, `NoSilentLoss` |
| `collection_threads` | 2 threads, 2 buffers of 1 sample, 4 hits, capacity 2 | `CapacityRespected`, `NoSilentLoss` with threads that appear during a collection |
| `session` | 1 caller, 1 client, 2 probes, 2 overlapping keys, every request | types, `SessionsExclusive`, `ProfileHasSession`, `GuardKeepsProfile`, `RequestOutlivesSlot`, `LocalLeavesNothing`, `EndRestores` |
| `session_live` | 1 caller, 2 clients, 1 probe | `RequestAnswered`, `ClientServed` |
| `framing` | header of 2 bytes, buffer of 5, frames of 1, 3 or 5, 4 frames | `BufferSound`; `DeliversFrames`: `Framing` implements `FrameQueue` |
| `client` | 2 probes, profiles with an unknown and with a named probe, 2 time outs, durations none, 0 and 3 | types, `SetUpInStep`, `ProfiledAsAsked`, `NothingHeld`, `SessionEnds`, `TargetRestored` |
| `txn` | 2 threads, 5 samples of 6 sites, up to 2 lost | types, `JoinedAsExecuted`, `LinksClosed`, `CurrentOfOneThread`, `OnlyOrphansSkipped` |
| `analytics` | up to 3 of 7 transactions, 2 benchmarks with one of six sets of up to 2, 3 buckets | `EveryTxnReported`, `TimelinesAgree`, `DiffAligned`, `HistogramComplete` |
| `pmu` | 9 events, up to 4 counters or a node and 2 counters, 4 registers | `AllocationSound`, `RequestsComplete` |

Why the bounds are enough. In `pool` the write index goes three times around the pool, so a
reader can attach, lap, detach and attach again with the writer anywhere; four buffers separate
"one beyond the pool" from "one before it". In `collection` ten hits of three to a buffer fill
both buffers, overflow, and leave room for two more collections. In `collection_threads` the capacity holds one sample of each thread
or two of one, so that it is spent by either, in the middle of a poll, or not at all. In `session` there is no bound on what a client or the caller sends; that several callers do not disturb `RequestOutlivesSlot` and `LocalLeavesNothing`
is left to the proofs. In `framing` a buffer of 5 holds a header and a short frame, or a part of one and the beginning of
the next, so that it is relocated with every remainder; each frame fits it, as the profiler's commands
fit the 8 KB of the real one. In `client` two time outs are one more than `pingApp` survives, and one in each
connection; the duration is longer than a heartbeat. In `txn` five samples are enough for a transaction that is
suspended in one thread and resumed in both, for one that crosses threads twice, and for a begin, suspend, resume
and end with any two of them lost; a resumed transaction that is suspended twice needs a sixth sample and is left to the proof of `OnlyOrphansSkipped`. In `analytics` two transactions take the same route at overlapping times, and are in one
profile of the current run, of a benchmark or of both; others have a probe hit three times, coinciding points, a thread crossed and come back to, a thread that
records no counts, one point only. The benchmarks are drawn from the same seven. In `pmu` four events over four registers contain the lists that the greedy allocation refuses.

The bounds `MaxIndex`, `MaxOverflow`, `MaxTsc`, `MaxFrames` (of `Framing`), `MaxSamples`, `MaxLost`, `MaxTimeouts` and
`MaxElapsed` are guards or caps of single actions; `MaxCurrent` and `Stored` bound what is loaded in `Analytics`.

Deadlock is checked for `pool`, `collection` and `collection_threads`. The other systems stop: sessions after `halt` or the
death of the framework thread, a connection after it is closed, the profiler after its report, the loaders
and `Pmu` when they are done, a notebook after the command that a behaviour is about.

**Fairness.** `BufferPool` assumes that the framework thread goes on with an attach or a read it
has begun; nothing is assumed of the writer, which may stop in the middle of a probe, nor that
anybody attaches. `SessionControl` assumes weak fairness of the framework thread as a whole, which
is a loop with a sleep, and nothing of callers or clients. `RequestAnswered` and `ClientServed` have a condition of their own, `PollReturns`:
`pollClient` serves a client for as long as frames are there, so a client that never pauses starves the callers and the clients in
the queue, in the model as in the code. `Framing` assumes that the session polls. `ProfilerClient`
assumes weak fairness of the profiler, a program that runs until it ends, and of the target's framework
thread while the target lives; the target may die, another profiler may stay connected forever, and
a key need never be pressed. Since a time out is bounded, the target's thread is what lets the profiler
get on after `MaxTimeouts`; without the bound a time out alone would.

### What the sources say and the code does not do

Two disagreements are runs that TLC refutes, with the line quoted in `PROJECT.json` (`findings`).

| Run | Claim | What happens |
|---|---|---|
| `session_disconnect` | a disconnect disables probes and counters | only if a profile was begun |
| `session_interval` | the poll interval must be valid | the check looks at the previous one |

### Further instances

Other questions, most of them claims of the sources that the models refute, are configurations kept beside the runs, to be started by hand:
`tlc -config <file>.cfg <module>`.

| Configuration | Property | Outcome |
|---|---|---|
| `BufferPool_width` | `WriteIndexNeverWraps`, 2 buffers, indices modulo 8 | holds |
| `BufferPool_invariant2` | "windex cannot be greater than (rindex + poolSize)", WaitFreeBufferPool.H:199 | violated: one more, for a reader that attaches during `nextWritableBuffer` |
| `SampleCollection_intact` | "Intact sample objects are copied", SamplesBuffer.H:10 | violated: `flush` checks time stamps only |
| `MCSessionControl_halt` | "blocked till the execution completes or times out", LocalSession.H:6 | violated: forever, if the framework thread ends first |
| `MCSessionControl_guard` | a refused profile leaves the active one alone, two callers | violated: the guard is created before the first request (Framework.C:156) |
| `MCSessionControl_perf` | "perf events will be disabled ... at the end of a profiling session", PerfEventsCtl.C:18 | violated: those that threads attached for a request that failed stay open, as `enable` has published its attributes (line 82) when it fails |
| `Framing_grow` | `DeliversFrames`, with frames larger than the buffer | violated: the branch of `ensureRoom` that reallocates does not move the unread bytes (Buffer.H:97) |
| `MCProfilerClient_end` | "Ends samples collection and disconnects", runtime.py:238 | violated: the answer to a heartbeat that timed out is read as the answer to the end command |
| `MCProfilerClient_duration` | "automatically terminated after elapse of duration seconds", profiler/\_\_init\_\_.py:84 | violated: without a heartbeat interval, the default, `min(None, duration)` raises at once in Python 3, which `install.sh` sets up (in Python 2 it is `None`, a wait for a key) |
| `MCProfilerClient_server` | "Bring down the server", remote.py:163 | violated: `__exit__` raises before `kill` for the server of a restart that could not be reached (line 168) |
| `MCTxnLoading_skipped` | "Returns True, if any of the counters were skipped", loader.py:58 | violated: chains that begin with an orphan resume, and counters set aside in the last file, are in no list |
| `MCAnalytics_tree` | "a hierarchical break up of time spend in a transaction", timelineTree.py:2 | violated: a leaf that closes an open group has only the duration of the group's last point (line 104) |
| `MCAnalytics_report` | a report "for each category, route combination", reportgenerator.py:7 | violated: not for a category without a histogram (report/\_\_init\_\_.py:104) |
| `MCAnalytics_title` | a series of bars has the title of its own collection | violated when a collection has no transaction of the category (reportgenerator.py:75) |
| `MCAnalytics_once` | a conflated profile counts a benchmark's transaction once | violated: it is in the profile of each route it was conflated to (aggregator.py:75) |
| `MCAnalytics_filter` | a filter shows no transaction that it rejects | violated: an empty result is false, so all profiles are taken (commands.py:36) |
| `MCPmu_fixed` | no "missing pmc samples", timeline.py:492 | violated: two events of one fixed register are accepted (event.py:152) and share one value (FixedPmcSet.H:44) |
| `MCPmu_refused` | "constraints prevent all selected counter from being used simultaneously", pmuctrl.py:124 | violated: refused although an assignment exists |

## 4. Proofs

The theorems of the eight proof modules hold for every value of the constants that satisfies the assumptions named in the
module that declares them, which TLC evaluates in every run. The invariants were model checked on small
instances before they were proved, where TLC can evaluate them (`Layout` and `Following` quantify over infinite sets). Two theorems have a hypothesis of their own (`OneCaller`, `FramesFit`); what happens without it
is shown by a configuration of section 3. `SampleCollectionProofs`, `PmuProofs` and `TxnLoadingProofs` begin
with the facts about numbers and sorting that they use (`LeastOf`, `MaxOf`, `SortKeeps`), stated in each of them so that it can be checked by itself.

**BufferPool** (`TypeCorrect`, `IndexWindowHolds`, `AttachAtMostTwiceHolds`, `IntactReadHolds`),
for every `PoolSize > 1`, under `NoWrap`. `IndexWindow` is not inductive: whether the writer will
go one beyond the pool depends on what it has loaded. The invariant `IInv` adds

* `IndexInv`: the reader's index is behind the writer's whenever it is in force;
* `SeenInv`: a writer between load and store saw either no reader or an index no larger than the
  current one;
* `AheadInv`: the bound is on `WIndexAhead`, the index *after* the call in progress. After a first
  store of `attachReader` it can grow by one only, which is why a second store always suffices;
* `HeldInv`: the buffer in hand is the one after the read index and it is published;
* `ContentInv`: the last `PoolSize - 1` published buffers are complete.

`SlotsDiffer` (indices less than a pool apart have different buffers) connects the distance of
indices with the content. Then `IntactRead` follows from `AheadInv` and `ContentInv`.

**SessionControl** (`TypeCorrect`, `SessionsExclusiveHolds`, `ProfileHasSessionHolds`,
`RequestOutlivesSlotHolds`, `LocalLeavesNothingHolds`, `EndRestoresHolds`). What a process is restored to (`Restored`) allows
attributes that a failed perf events request has published, and what threads attached for them, and nothing else. `IInv` has three parts
beside the types:

* `StateOK(h)`: every patched probe is matched by a key in `_activeProbes`, a recorder that reads
  counters is active only with a counter enabled, and perf events without an enabled request are those of one that failed. It is what makes `Profile::stop` sufficient (lemma
  `EndRestored`), and each request keeps it (`OutcomeOK`);
* `SessionInv`: what the session type means at each point of `poll`;
* `CallerInv`: the request in the slot is one of its caller's stage, and once no caller has anything
  left to undo the process is restored.

`GuardKeepsProfileOfOne` is proved for one caller (`OneCaller`) and any clients: `GuardInv` follows the profile from
the success of the begin request to the guard, and says that the local session is alive, which keeps clients out. For
two callers it is refuted (`MCSessionControl_guard`).

**SampleCollection** (`CollectionTypes`, `FilesInOrder`, `NothingLostSilently`, `CapacityRespectedHolds`), for any threads, any
`PoolSize > 1`, any length of buffer and any capacity. The invariants:

* `LoopInv`, `ChainInv`, `BehindInv`: where the framework thread is in its loops; the chain holds each buffer once and
  a loop visits it once; a flush is due only with probes off;
* `WindowInv(t)`: which samples in the buffers of a thread are valid (`Valid`), that they are intact and in order while the thread
  stores the words of the next one, and that the last `PoolSize - 1` published buffers are not rewritten, unless the
  reader attached in the middle of `nextWritableBuffer`;
* `CleanInv(t)`: `_lastSampledTsc` is beyond every clean sample on file, of this and of earlier collections. It is what makes
  `FirstFresh` skip exactly what was persisted already;
* `LossInv(t)`, `FlushInv(t)`, `DoneInv(t)`: each recorded sample is on file or unread, unless samples were dropped; step by step through the flush; and on
  file for a thread the flush has left behind;
* `CapacityInv`: there are no more samples on file than `StorageMgr` has counted, which counts those whose write failed too. `CapacityRespected` counts them as the places of
  all files (`OnDisk`), a set, so that the theorems about cardinality apply.

**Framing** (`FramerBufferSound`, `FramingImplementsQueue`), for any length of header, capacity and cut of the stream, if every
frame fits the buffer (`FramesFit`; `Framing_grow` shows what happens otherwise). That there is room for the rest of a frame is the case of
`EnsureRoom` in which the unread bytes are moved to the front, and it needs `FramesFit`. `FramerInv` says that the unread bytes of the buffer followed by those
on the wire are what remains of the frames sent: `Layout` gives the position of each frame in this stream, and the
three ways in which it changes (a read, a frame taken, a frame sent) are lemmas. The refinement is the safety part of `DeliversFrames`: `Queue!InOrder`, the initial
condition and steps of `FrameQueue`. Its fairness is left to the run `framing`.

**TxnLoading** (`CurrentOfOneThreadHolds`, `LinksClosedHolds`, `LoadingTypes`, `OnlyOrphansSkippedHolds`, `JoinedAsExecutedHolds`), for any threads, binary and profile. `None` is neither a number, a
thread nor a link, and `MaxSamples` is a number. `endLoad` leaves counters
of one file in `ephemeralCounters` when the next begins, so the first property needs three facts: a file holds samples of
its own thread (`FilesInv`); a transaction is under way only while a file is loaded; and from the moment it is, what is
set aside comes from this file, because both ways to open one empty the list first (`CurrentInv`).

`LinksClosed` is about the transactions at the end, made by references to objects that are joined in place. `LinkInv` says
what fragments mean until then: a fragment with a next link holds that suspension, the fragments filed under a link resume that link and no other, roots
and transactions without a fragment resume nothing (`FragLinks`, `CurrentLinks`, `TxnsPlain`). During the joining (`WorkClosed`, `JoinedClosed`) every
transaction being built is closed and holds the suspension that comes next, and is not one of a resume fragment, so that the join
of a fragment into it changes nothing that is still to be joined. The loop of `appendTxn` has an invariant of its own (`LoopOK`); that it holds in
every round is shown by the least round in which it fails. Sorting keeps counters because the order is a permutation (`OrderIsPermutation`, `SortKeeps`). Types
need `TypeInv`: time stamps are distinct, and the orphaned samples are among those seen (`Seen`), which bounds them by `MaxSamples`.

`OnlyOrphansSkipped` follows every counter from the files to the reports. A stretch is what a thread recorded from an opening counter to
the last closing one before the next stretch; it is named by its first counter, and it is defined on any set of samples, so that the invariants can speak of
what was read so far (`Read`). What holds, in each phase (`CoverInv`):

* `RecInv`, from the recording: a resumption names an earlier suspension, recorded or lost; while nothing is lost, openings and closings of a thread
  alternate, so that a stretch is suspended at most once;
* `LoadingCover`, while files are loaded: an object holds the whole of one stretch of what was read, or is compromised; each stretch is under way, reported, compromised or in a
  fragment; a counter outside the stretches is set aside or not in a transaction (`RestCover`). `FragCover` adds what the dictionary of
  fragments means: a stretch that resumes has one fragment, under its link; a fragment suspended under one link which is resumed has it as its
  next, from whichever side the link was found;
* `JoinCover`, while fragments are joined: a stretch that begins a transaction is held and its links are followed, a stretch that is joined to a transaction is in it
  as a whole, and then the link of its fragment is followed too;
* `DoneCover`: nothing that was held is dropped by `appendTxn`, which only makes transactions grow (`Absorbed`).

When no work is left, a resumption that is in no transaction continues nothing the loader follows, or a stretch that is in no transaction either. Time stamps grow
along a chain, so going back ends, at a resumption that dangles (`OrphansEnd`): the resumption with the least time stamp that has no such chain is a contradiction. Without losses nothing
dangles (`NothingDangles`). The first form of this property said that an orphaned chain starts at a resumption whose suspension has no opening counter; it held in every run and the
attempt to prove it refuted it, with six samples and two losses: a resumed transaction whose end is lost is suspended again, `fragment.next` is overwritten, and the resumptions of the first
suspension are joined to nothing (`fragments.py:123`).

`JoinedAsExecuted` is about recordings without losses, and says that transactions and executions correspond one to one. While files are loaded (`Places`) what is in the
dictionary has ended and is in no fragment, what is compromised has not ended, a fragment is filed once, and no list has an element twice; a stretch has one link at most (`OneLink`), so the next link of
its fragment names exactly what continues it (`FragFollows`). During the joining, an *item* is a transaction that is reported, joined or being joined. `Following(ch)` gives every item a *path* `ch[x]`, a chain of
stretches from a closed begin that it consists of: no path is the beginning of another (`ItemsPart`), every execution has a path that leads to it (`ItemsLead`), the paths of finished items are continued by
nothing (`ItemsOver`), and `joinFragments` has to continue each of the others under the link that continues its path (`WorkFollows`). A step that joins the resumptions of a suspension replaces one path by its continuations, one for
the transaction and one for each of its copies (`ChainPaths`, `ChainFollows`); time stamps grow along a path, so no counter is joined twice (`PathGrows`, `JoinNoRepeat`). Ids of joined transactions are
free (`IdsApart`), so the loop of `appendTxn` merges nothing (`AllTaken`). When no work is left, a path that leads to an execution is that execution (`LeadsAll`), and `txns` and the executions
are in bijection (`AppendJoinedMatches`).

**ProfilerClient** (`NothingHeldHolds`, `SessionTypes`, `SetUpAnswered`, `ProfiledAsAskedHolds`), for any profiles, options and bounds.
Assumed are: a profile has two probes or more, which `Runtime` checks (`ProfilesAssumption`); an earlier profiler that left counters programmed left
them recorded, as every state does that `Handler` leads to from a profiler's commands (`LeftoversAssumption`); times are numbers or `None` (`TimesAssumption`); `None` is not an outcome,
a connection or a command. The invariant `HoldInv` says at which steps the driver cannot be open, and that
only a command in progress awaits a response; and that the servers of a session are those it linked to, but for one that a restart
launched and did not reach. Every way a command can go, its exceptions included, is `Onward`: it leads to no
step at which something was to be released, except with an outcome that says that the session failed.
`SessionInv` is about the connection: the two of a session are used one after the other (`ConnInv`), nothing but the last command or its response
is in the current one while the session is set up (`OneAtATime`), and a response that has not been read yet says what the target has done (`Answer`). `Prepared` is what has been done when
the profiler gets to a step, and `Recorded` that counters which are programmed are recorded.

**Pmu** (`AllocationHolds`, `RequestsCompleteHolds`), for any databases, hierarchy, lists of counters and limits. Assumed is
what the loaders make: registers are finite sets of numbers and an initialized event has one; a hierarchy has nodes of the first level; names are a base and a
qualifier. `EachOnce` says that the events still to resolve and those in the lists are together the ones asked for, each once; `SelectsOwn` that
an offcore event's select points at its own value; `Ascending` that each insertion keeps the fixed requests in the order of their registers. During the recursion of `Allocator.allocate` (`Allocating`) the registers taken are distinct and allowed,
none of the requests is forgotten or placed twice. That the sorted result then has each request at the place of its register needs that as many
distinct registers as requests, all below their number, are all of them (`Pigeons`).

**Only model checked.** `PublishedIsRead`, `AttachTerminates`, `RequestAnswered`, `ClientServed`, `SessionEnds`, `TargetRestored` and the fairness of
`DeliversFrames` are liveness, out of the prover's reach. The properties of `Analytics` are about sums and
recursive functions over timelines and routes, which would need induction over data. `WriteIndexNeverWraps` is about the end of the range, which `NoWrap` keeps away.

## 5. Not modelled, and the plan

Not modelled: formats of files and messages, logging, rendering of reports, the interceptors of
`malloc`, the kernel module, the bit encoding of requests, bindings, code generated or taken from third parties.
`PROJECT.json` lists every part with the reason. Other limits:

* `probeCtl` may fail to patch a probe whose segment cannot be made writable; the model's requests
  patch every match.
* Threads end without removing their buffer from the chain, so a thread's end is not an event.
* Samples have one size; the guard at the end of a buffer, made for samples of different sizes, and
  `checkOverflow` need a module of their own.
* The comment of `Collector::persistSamples`, "dropping all samples from now on", is not a property: after
  a breach a segment that still fits in the capacity is persisted, in the model as in the code.

Behaviour met while modelling, which no document speaks of and the models have as it is:

* `LocalSession::_isAlive` is never reset, so after the first local profile every remote profiler
  is refused.
* A first start that fails leaves its rpyc server running (`__enter__` raised, so `__exit__` is not called), and so does a
  restart that could not be linked (`MCProfilerClient_server`);
  a set up that fails after the driver was programmed leaves it open. `NothingHeld` excludes these.
* A duration that the last ping has exceeded raises in the wait. The session then fails, as it does without a heartbeat
  (`MCProfilerClient_duration`), and the target is restored by the disconnect.
* `Persister` ignores what `write` returns: samples are lost without a report when a write fails, and the file is
  cut in the middle of a sample when it is short. The model has the failing write, not the short one.
* One transaction without counts fails the whole report, if counters were asked for.
* `EventsDb` reads a counter mask in base 16, with or without `0x`.
* A category with a single transaction, or whose elapsed times are all zero, has no histogram
  (`histogram.py:113`), and its profiles are left out of the report (`MCAnalytics_report`).
* What a failed perf events request has published stays until a later request succeeds and is disabled
  (`MCSessionControl_perf`).
* `diffTxns` raises where it means to say that nothing is comparable (`commands.py:180`).
* In a conflated timeline a count stays NaN when the first of the merged ones is, and not when a later one is.
* A command of the notebook accepts no route of one point; a profile whose own route has one point is shown.

Planned, in this order:

1. `PerfEvents`: `Handler` knows whether attributes are published and whether any thread has attached events;
   to be added are the event sets per thread, generations, attach during enable and disable, delayed
   release; the separate stores of `RecorderCtl` seen by running threads. Invariant: a set a thread may
   read is not freed; liveness: it is freed in the end.
2. Proofs: of `Analytics` what needs no induction: `EveryTxnReported` and `DiffAligned` from lemmas about the keys of the groups; `WriteIndexNeverWraps` with wrapping sums.
3. `FrameworkInit`: `call_once`, the promise, the time out of `initialize`.
4. `ProbeCtl`: registration, patching, matching of keys.
5. Samples of several sizes and the samples loader; an abstract queue that `BufferPool` implements while a
   reader is attached.
