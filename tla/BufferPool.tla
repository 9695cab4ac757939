----------------------------- MODULE BufferPool -----------------------------
(***************************************************************************)
(* The pool of sample buffers an application thread (the writer) shares    *)
(* with the framework thread (the reader):                                 *)
(* include/xpedite/common/WaitFreeBufferPool.H.                            *)
(*                                                                         *)
(* There are no locks.  The writer owns _writeIndex, the reader owns       *)
(* _readIndex, each reads the other's index with a plain atomic load, and  *)
(* the reader joins and leaves while the writer runs.  Every load or store *)
(* of the other side's index is a step of its own.                         *)
(*                                                                         *)
(* A buffer's content is abstracted to the index it was last filled for    *)
(* and whether that fill is complete: what a reader must be able to rely   *)
(* on.  Indices are unsigned integers of a fixed width, Wrap values wide.  *)
(***************************************************************************)
EXTENDS Integers

CONSTANTS
  PoolSize,     \* buffers in the pool
  Wrap,         \* number of values of an index (2^64 in the code)
  MaxIndex,     \* bound: the writer takes no new buffer from this index on
  MaxOverflow,  \* bound: overflows the writer counts
  None          \* no buffer

ASSUME PoolSizeAssumption == PoolSize \in Nat /\ PoolSize > 1
ASSUME WrapAssumption == Wrap \in Nat /\ Wrap > 2 * PoolSize
ASSUME BoundAssumption == MaxIndex \in Nat /\ MaxOverflow \in Nat
ASSUME NoneAssumption == None \notin Int

VARIABLES
  windex,     \* _writeIndex
  rindex,     \* _readIndex
  overflow,   \* _overflowCount
  content,    \* what each buffer of _pool holds
  wpc,        \* where the writer thread is
  wseen,      \* the writer's local copy of rindex
  rpc,        \* where the reader thread is
  rseen,      \* the reader's local copy of windex
  cur,        \* the index the reader holds a buffer for (SamplesBuffer::_curReadBuf)
  attempts,   \* history: stores of _readIndex by the attach in progress, or the last one
  reads       \* history: buffers handed out since the attach, counted up to 2

writerVars == <<overflow, content, wpc, wseen>>
readerVars == <<rpc, rseen, cur, attempts, reads>>
vars == <<windex, rindex, writerVars, readerVars>>

Index == 0 .. Wrap - 1
Slots == 0 .. PoolSize - 1
Content == [idx : Index, done : BOOLEAN]

\* readIndexMax: the read index of a pool that has no reader.
ReadIndexMax == Wrap - 1 - PoolSize

\* bufferAt: the mask of a power of two is the remainder.
Slot(i) == i % PoolSize

\* index arithmetic wraps around at the width of the index
Wrapped(i) == IF i < Wrap THEN i ELSE i - Wrap

\* rindex + poolSize, as computed by attachReader and nextWritableBuffer
Limit(r) == Wrapped(r + PoolSize)

Init ==
  /\ windex = 0
  /\ rindex = ReadIndexMax
  /\ overflow = 0
  /\ content = [s \in Slots |-> [idx |-> 0, done |-> FALSE]]
  /\ wpc = "filled"          \* samplesBufferPtr is null: the first probe expands
  /\ wseen = ReadIndexMax
  /\ rpc = "detached"
  /\ rseen = 0
  /\ cur = None
  /\ attempts = 0
  /\ reads = 0

-----------------------------------------------------------------------------
(* The writer.                                                             *)

\* The last probe that fits was recorded; the next one calls nextWritableBuffer.
Fill ==
  /\ wpc = "filling"
  /\ content' = [content EXCEPT ![Slot(windex)] = [idx |-> windex, done |-> TRUE]]
  /\ wpc' = "filled"
  /\ UNCHANGED <<windex, rindex, overflow, wseen, readerVars>>

\* nextWritableBuffer, up to the load of the reader's index.
LoadReadIndex ==
  /\ wpc = "filled"
  /\ windex < MaxIndex
  /\ overflow < MaxOverflow
  /\ wseen' = rindex
  /\ wpc' = "loaded"
  /\ UNCHANGED <<windex, rindex, overflow, content, readerVars>>

\* Mutated forms of the writer's steps.
PublishWhenFull ==
  /\ wpc = "loaded"
  /\ windex <= Limit(wseen)
  /\ windex' = Wrapped(windex + 1)
  /\ content' = [content EXCEPT ![Slot(windex')] = [idx |-> windex', done |-> FALSE]]
  /\ wpc' = "filling"
  /\ UNCHANGED <<rindex, overflow, wseen, readerVars>>

PublishUnguarded ==
  /\ wpc = "loaded"
  /\ windex' = Wrapped(windex + 1)
  /\ content' = [content EXCEPT ![Slot(windex')] = [idx |-> windex', done |-> FALSE]]
  /\ wpc' = "filling"
  /\ UNCHANGED <<rindex, overflow, wseen, readerVars>>

\* nextWritableBuffer, branch taken: the filled buffer becomes readable and the
\* writer starts to overwrite the next one.
Publish ==
  /\ wpc = "loaded"
  /\ windex < Limit(wseen)
  /\ windex' = Wrapped(windex + 1)
  /\ content' = [content EXCEPT ![Slot(windex')] = [idx |-> windex', done |-> FALSE]]
  /\ wpc' = "filling"
  /\ UNCHANGED <<rindex, overflow, wseen, readerVars>>

\* nextWritableBuffer, branch not taken: the buffer just filled is used again.
Overflow ==
  /\ wpc = "loaded"
  /\ ~ (windex < Limit(wseen))
  /\ overflow' = overflow + 1
  /\ content' = [content EXCEPT ![Slot(windex)] = [idx |-> windex, done |-> FALSE]]
  /\ wpc' = "filling"
  /\ UNCHANGED <<windex, rindex, wseen, readerVars>>

Writer == Fill \/ LoadReadIndex \/ Publish \/ Overflow

-----------------------------------------------------------------------------
(* The reader.                                                             *)

\* attachReader: the first load of the writer's index.
AttachBegin ==
  /\ rpc = "detached"
  /\ rseen' = windex
  /\ attempts' = 0
  /\ reads' = 0
  /\ rpc' = "attach"
  /\ UNCHANGED <<windex, rindex, writerVars, cur>>

\* attachReader: the store at the head of the loop's body.
AttachStore ==
  /\ rpc = "attach"
  /\ rindex' = IF rseen > 0 THEN rseen - 1 ELSE 0
  /\ attempts' = IF attempts < 3 THEN attempts + 1 ELSE 3
  /\ rpc' = "attachCheck"
  /\ UNCHANGED <<windex, writerVars, rseen, cur, reads>>

\* Mutated form: the loop does not reload the writer's index.
AttachCheckNoReload ==
  /\ rpc = "attachCheck"
  /\ rseen' = rseen
  /\ rpc' = IF windex > Limit(rindex) THEN "attach" ELSE "idle"
  /\ UNCHANGED <<windex, rindex, writerVars, cur, attempts, reads>>

\* attachReader: the reload of the writer's index and the loop's condition.
AttachCheck ==
  /\ rpc = "attachCheck"
  /\ rseen' = windex
  /\ rpc' = IF windex > Limit(rindex) THEN "attach" ELSE "idle"
  /\ UNCHANGED <<windex, rindex, writerVars, cur, attempts, reads>>

\* Mutated form: the buffer given back stays the reader's current one.
ReleaseKeepsBuffer ==
  /\ rpc = "reading"
  /\ rindex' = Wrapped(rindex + 1)
  /\ rpc' = "released"
  /\ UNCHANGED <<windex, writerVars, rseen, cur, attempts, reads>>

\* nextReadableBuffer with a buffer in hand: it is given back first.
Release ==
  /\ rpc = "reading"
  /\ rindex' = Wrapped(rindex + 1)
  /\ cur' = None
  /\ rpc' = "released"
  /\ UNCHANGED <<windex, writerVars, rseen, attempts, reads>>

\* Mutated forms: the buffer the writer still fills is handed out, and a call
\* without a buffer to give back returns none.
HandOutUnfinished ==
  /\ rpc \in {"idle", "released"}
  /\ windex > rindex
  /\ cur' = Wrapped(rindex + 1)
  /\ rpc' = "reading"
  /\ reads' = IF reads < 2 THEN reads + 1 ELSE 2
  /\ UNCHANGED <<windex, rindex, writerVars, rseen, attempts>>

HandOutHeldOnly ==
  /\ rpc = "released"
  /\ windex > Wrapped(rindex + 1)
  /\ cur' = Wrapped(rindex + 1)
  /\ rpc' = "reading"
  /\ reads' = IF reads < 2 THEN reads + 1 ELSE 2
  /\ UNCHANGED <<windex, rindex, writerVars, rseen, attempts>>

\* nextReadableBuffer: the load of the writer's index finds a published buffer.
HandOut ==
  /\ rpc \in {"idle", "released"}
  /\ windex > Wrapped(rindex + 1)
  /\ cur' = Wrapped(rindex + 1)
  /\ rpc' = "reading"
  /\ reads' = IF reads < 2 THEN reads + 1 ELSE 2
  /\ UNCHANGED <<windex, rindex, writerVars, rseen, attempts>>

\* nextReadableBuffer: nothing to read, nullptr is returned.
FindNone ==
  /\ rpc = "released"
  /\ ~ (windex > Wrapped(rindex + 1))
  /\ rpc' = "idle"
  /\ UNCHANGED <<windex, rindex, writerVars, rseen, cur, attempts, reads>>

\* detachReader: the collector reads a pool until it finds none, then detaches.
Detach ==
  /\ rpc = "idle"
  /\ rindex' = ReadIndexMax
  /\ rpc' = "detached"
  /\ UNCHANGED <<windex, writerVars, rseen, cur, attempts, reads>>

Reader ==
  \/ AttachBegin \/ AttachStore \/ AttachCheck
  \/ Release \/ HandOut \/ FindNone \/ Detach

-----------------------------------------------------------------------------
Next == Writer \/ Reader

Spec == Init /\ [][Next]_vars

\* The framework thread keeps polling while it is attached: attachReader and the
\* loop of Collector::collectSamples run to their end.  Nothing is assumed of the
\* writer, nor that a session begins or ends.
Fairness ==
  /\ WF_vars(AttachStore)
  /\ WF_vars(AttachCheck)
  /\ WF_vars(Release)
  /\ WF_vars(HandOut)
  /\ WF_vars(FindNone)

FairSpec == Spec /\ Fairness

-----------------------------------------------------------------------------
(* Properties.                                                             *)

\* Every index stays an index, every local copy is one, and the reader holds
\* no buffer but the one it reads.
TypeOK ==
  /\ windex \in Index
  /\ rindex \in Index
  /\ overflow \in 0 .. MaxOverflow
  /\ content \in [Slots -> Content]
  /\ wpc \in {"filling", "filled", "loaded"}
  /\ wseen \in Index
  /\ rpc \in {"detached", "attach", "attachCheck", "idle", "reading", "released"}
  /\ rseen \in Index
  /\ cur \in Index \cup {None}
  /\ rpc # "reading" => cur = None
  /\ attempts \in 0 .. 3
  /\ reads \in 0 .. 2

\* attachReader has returned and detachReader has not been called.
Attached == rpc \in {"idle", "reading", "released"}

\* No index gets near its width: MaxIndex is far from Wrap.
NoWrap == MaxIndex + 2 * PoolSize < Wrap

\* "At anytime, windex cannot be greater than (rindex + poolSize)": invariant #2
\* of nextReadableBuffer's comment.  A writer that loaded readIndexMax just
\* before the reader stored its index publishes one buffer too many.
InvariantTwo == Attached => windex <= rindex + PoolSize

\* What the code does guarantee of the two indices while a reader is attached:
\* the writer is never more than one buffer beyond the pool, and only as long as
\* the reader that attached while it was between its load and its store has not
\* given back a buffer; the reader never passes the writer.
IndexWindow ==
  Attached =>
    /\ rindex <= windex
    /\ windex <= rindex + PoolSize + 1
    /\ windex = rindex + PoolSize + 1 =>
         attempts = 1 /\ (reads = 0 \/ (reads = 1 /\ rpc = "reading"))

\* The buffer in the reader's hands holds exactly the complete samples of the
\* index it was published under and is not being rewritten by the writer, except
\* possibly for the first buffer read after an attach that stored its index once.
IntactRead ==
  (rpc = "reading" /\ ~ (attempts = 1 /\ reads = 1)) =>
    content[Slot(cur)] = [idx |-> cur, done |-> TRUE]

\* attachReader's retry loop stores the read index at most twice, however fast
\* the writer is: after the first store a writer that has passed the pool size
\* can publish at most one more buffer.
AttachAtMostTwice == attempts <= 2

\* "It also prevents windex from ever overflowing" (comment of
\* nextWritableBuffer): the write index only ever grows, at any distance from
\* the width of the index.
WriteIndexNeverWraps == [][windex' >= windex]_windex

\* Under the fairness of the framework thread an attach terminates.
AttachTerminates == (rpc = "attach") ~> Attached

\* Every published buffer of an attached pool is eventually read and given back,
\* unless the reader detaches first.
PublishedIsRead ==
  \A i \in 1 .. MaxIndex :
    (Attached /\ rindex < i /\ i < windex) ~> (rindex >= i)

=============================================================================
