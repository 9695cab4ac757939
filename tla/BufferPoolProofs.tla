-------------------------- MODULE BufferPoolProofs --------------------------
(***************************************************************************)
(* Machine-checked proofs about BufferPool, for every pool size, index     *)
(* width and bound that keeps the indices away from the width.             *)
(***************************************************************************)
EXTENDS BufferPool, TLAPS

Prev(i) == IF i > 0 THEN i - 1 ELSE 0

\* The write index once the writer's call in progress, if any, has stored it.
WIndexAhead == IF wpc = "loaded" /\ windex < wseen + PoolSize THEN windex + 1 ELSE windex

\* The reader has stored a read index that is still in force.
HasReader ==
  \/ rpc \in {"attachCheck", "idle", "reading", "released"}
  \/ rpc = "attach" /\ attempts > 0

\* The indices of the two threads are in order and below the bound.
IndexInv ==
  /\ windex <= MaxIndex
  /\ wpc = "loaded" => windex < MaxIndex /\ overflow < MaxOverflow
  /\ HasReader => rindex <= Prev(windex)
  /\ ~ HasReader => rindex = ReadIndexMax
  /\ rpc = "attach" => rseen <= windex

\* What a writer between its load and its store can have seen.
SeenInv ==
  wpc = "loaded" =>
    \/ wseen = ReadIndexMax
    \/ /\ wseen <= Prev(windex)
       /\ HasReader => wseen <= rindex
       /\ rpc = "attach" => wseen <= Prev(rseen)

\* How far the writer can be ahead, while the reader attaches and afterwards.
AheadInv ==
  /\ rpc \in {"attach", "attachCheck"} => reads = 0
  /\ rpc \in {"reading", "released"} => reads > 0
  /\ rpc = "attach" =>
       \/ attempts = 0
       \/ attempts = 1 /\ WIndexAhead <= rseen + 1 /\ rseen > rindex + PoolSize
  /\ rpc = "attachCheck" =>
       attempts = 1 \/ (attempts = 2 /\ WIndexAhead <= rindex + PoolSize)
  /\ Attached =>
       /\ attempts \in {1, 2}
       /\ WIndexAhead <= rindex + PoolSize + 1
       /\ ~ (attempts = 1 /\ (reads = 0 \/ (reads = 1 /\ rpc = "reading"))) =>
            WIndexAhead <= rindex + PoolSize
  /\ attempts <= 2

\* The buffer in hand is the one after the read index, and it is published.
HeldInv == rpc = "reading" => cur = rindex + 1 /\ cur < windex

\* The buffers of the last PoolSize - 1 published indices are complete, and the
\* writer's own buffer is complete whenever it asks for another one.
ContentInv ==
  /\ windex = 0 => wpc # "filling"
  /\ (windex > 0 /\ wpc = "filling") => content[Slot(windex)] = [idx |-> windex, done |-> FALSE]
  /\ (windex > 0 /\ wpc # "filling") => content[Slot(windex)] = [idx |-> windex, done |-> TRUE]
  /\ \A i \in Index : (0 < i /\ i < windex /\ windex < i + PoolSize) =>
                        content[Slot(i)] = [idx |-> i, done |-> TRUE]

IInv == TypeOK /\ IndexInv /\ SeenInv /\ AheadInv /\ HeldInv /\ ContentInv

-----------------------------------------------------------------------------
(* Facts about the operators the model is built from.                      *)

\* bufferAt is a slot of the pool.
LEMMA SlotType == ASSUME NEW i \in Nat PROVE Slot(i) \in Slots
  BY PoolSizeAssumption DEF Slot, Slots

\* bufferAt gives two indices less than a pool size apart different buffers.
LEMMA SlotsDiffer ==
  ASSUME NEW i \in Nat, NEW j \in Nat, i < j, j < i + PoolSize
  PROVE  Slot(i) # Slot(j)
<1>1. /\ i \div PoolSize \in Nat /\ j \div PoolSize \in Nat
      /\ i = PoolSize * (i \div PoolSize) + (i % PoolSize)
      /\ j = PoolSize * (j \div PoolSize) + (j % PoolSize)
  BY PoolSizeAssumption
<1>2. ASSUME NEW p \in Nat, NEW q \in Nat, NEW r \in Nat,
             i = PoolSize * p + r, j = PoolSize * q + r
      PROVE  FALSE
  <2>1. CASE q <= p
    <3>1. PoolSize * q <= PoolSize * p
      BY <2>1, PoolSizeAssumption
    <3>. QED BY <3>1, <1>2, PoolSizeAssumption
  <2>2. CASE q >= p + 1
    <3>1. PoolSize * q >= PoolSize * (p + 1)
      BY <2>2, PoolSizeAssumption
    <3>2. PoolSize * (p + 1) = PoolSize * p + PoolSize
      BY PoolSizeAssumption
    <3>. QED BY <3>1, <3>2, <1>2, PoolSizeAssumption
  <2>. QED BY <2>1, <2>2
<1>3. i % PoolSize \in Nat
  BY PoolSizeAssumption
<1>. QED BY <1>1, <1>2, <1>3 DEF Slot

\* Without wrap-around the index arithmetic of both threads is plain addition.
LEMMA PlainArithmetic ==
  ASSUME NoWrap
  PROVE  /\ ReadIndexMax \in Nat /\ MaxIndex + PoolSize <= ReadIndexMax
         /\ Limit(ReadIndexMax) = ReadIndexMax + PoolSize
         /\ \A i \in 0 .. MaxIndex : /\ Limit(i) = i + PoolSize
                                     /\ Wrapped(i + 1) = i + 1
  BY PoolSizeAssumption, WrapAssumption, BoundAssumption
     DEF NoWrap, ReadIndexMax, Limit, Wrapped

-----------------------------------------------------------------------------
(* The inductive invariant.                                                *)

\* A pool no one has used satisfies the invariant.
LEMMA IInvInit == Init => IInv
<1>. SUFFICES ASSUME Init PROVE IInv
  OBVIOUS
<1>1. ReadIndexMax \in Index /\ 0 \in Index
  BY PoolSizeAssumption, WrapAssumption DEF ReadIndexMax, Index
<1>2. TypeOK
  BY <1>1, BoundAssumption DEF Init, TypeOK, Content
<1>3. IndexInv /\ SeenInv /\ AheadInv /\ HeldInv
  BY BoundAssumption DEF Init, IndexInv, SeenInv, AheadInv, HeldInv, HasReader, Attached
<1>4. ContentInv
  BY DEF Init, ContentInv, Index
<1>. QED BY <1>2, <1>3, <1>4 DEF IInv

\* Every step of the writer and of the reader keeps the invariant.
LEMMA IInvStep == ASSUME NoWrap, IInv, [Next]_vars PROVE IInv'
<1>. USE PlainArithmetic, PoolSizeAssumption, WrapAssumption, BoundAssumption
<1>t. windex \in Nat /\ rindex \in Nat /\ wseen \in Nat /\ rseen \in Nat
      /\ MaxIndex \in Nat /\ PoolSize \in Nat /\ MaxIndex + 2 * PoolSize < Wrap
  BY DEF IInv, TypeOK, Index, NoWrap
<1>1. CASE Fill
  <2>1. TypeOK'
    BY <1>1, <1>t DEF Fill, IInv, TypeOK, Index, Content, IndexInv, readerVars, writerVars, ReadIndexMax
  <2>2. IndexInv' /\ SeenInv'
    BY <1>1, <1>t DEF Fill, IInv, TypeOK, Index, IndexInv, SeenInv, AheadInv, HeldInv,
       HasReader, Attached, Prev, WIndexAhead, readerVars, writerVars
  <2>3. AheadInv' /\ HeldInv'
    BY <1>1, <1>t DEF Fill, IInv, TypeOK, Index, IndexInv, SeenInv, AheadInv, HeldInv,
       HasReader, Attached, Prev, WIndexAhead, readerVars, writerVars
  <2>4. ContentInv'
    <3>1. Slot(windex) \in Slots /\ windex > 0
      BY <1>1, <1>t, SlotType DEF Fill, IInv, ContentInv
    <3>2. content'[Slot(windex)] = [idx |-> windex, done |-> TRUE]
      BY <1>1, <3>1 DEF Fill, IInv, TypeOK
    <3>3. ASSUME NEW i \in Index, 0 < i, i < windex, windex < i + PoolSize
          PROVE  content'[Slot(i)] = [idx |-> i, done |-> TRUE]
      <4>1. Slot(i) \in Slots /\ Slot(i) # Slot(windex)
        BY <3>3, <1>t, SlotType, SlotsDiffer DEF Index
      <4>. QED BY <1>1, <3>3, <4>1 DEF Fill, IInv, TypeOK, ContentInv
    <3>. QED BY <1>1, <3>2, <3>3 DEF Fill, ContentInv
  <2>. QED BY <2>1, <2>2, <2>3, <2>4 DEF IInv
<1>2. CASE LoadReadIndex
  <2>1. TypeOK'
    BY <1>2, <1>t DEF LoadReadIndex, IInv, TypeOK, Index, Content, IndexInv, readerVars, writerVars, ReadIndexMax
  <2>2. IndexInv' /\ SeenInv'
    BY <1>2, <1>t DEF LoadReadIndex, IInv, TypeOK, Index, IndexInv, SeenInv, AheadInv, HeldInv,
       HasReader, Attached, Prev, WIndexAhead, readerVars, writerVars
  <2>3. AheadInv' /\ HeldInv'
    BY <1>2, <1>t DEF LoadReadIndex, IInv, TypeOK, Index, IndexInv, SeenInv, AheadInv, HeldInv,
       HasReader, Attached, Prev, WIndexAhead, readerVars, writerVars
  <2>4. ContentInv'
    BY <1>2, <1>t DEF LoadReadIndex, IInv, ContentInv, readerVars, writerVars
  <2>. QED BY <2>1, <2>2, <2>3, <2>4 DEF IInv
<1>3. CASE Publish
  <2>1. TypeOK'
    <3>1. windex' = windex + 1 /\ windex' \in Index
      BY <1>3, <1>t DEF Publish, IInv, IndexInv, Index
    <3>2. [idx |-> windex', done |-> FALSE] \in Content
      BY <3>1 DEF Content
    <3>3. content' \in [Slots -> Content]
      BY <1>3, <3>2 DEF Publish, IInv, TypeOK
    <3>. QED BY <1>3, <3>1, <3>3, <1>t DEF Publish, IInv, TypeOK, readerVars, writerVars
  <2>2. IndexInv' /\ SeenInv'
    BY <1>3, <1>t DEF Publish, IInv, TypeOK, Index, IndexInv, SeenInv, AheadInv, HeldInv,
       HasReader, Attached, Prev, WIndexAhead, readerVars, writerVars
  <2>3. AheadInv' /\ HeldInv'
    BY <1>3, <1>t DEF Publish, IInv, TypeOK, Index, IndexInv, SeenInv, AheadInv, HeldInv,
       HasReader, Attached, Prev, WIndexAhead, readerVars, writerVars
  <2>4. ContentInv'
    <3>1. windex' = windex + 1 /\ windex \in Index
      BY <1>3, <1>t DEF Publish, IInv, IndexInv, TypeOK
    <3>2. Slot(windex + 1) \in Slots
      BY <1>t, SlotType
    <3>3. content'[Slot(windex + 1)] = [idx |-> windex + 1, done |-> FALSE]
      BY <1>3, <3>1, <3>2 DEF Publish, IInv, TypeOK
    <3>4. ASSUME NEW i \in Index, 0 < i, i < windex + 1, windex + 1 < i + PoolSize
          PROVE  content'[Slot(i)] = [idx |-> i, done |-> TRUE]
      <4>1. Slot(i) \in Slots /\ Slot(i) # Slot(windex + 1)
        BY <3>4, <1>t, SlotType, SlotsDiffer DEF Index
      <4>2. content'[Slot(i)] = content[Slot(i)]
        BY <1>3, <3>1, <4>1 DEF Publish, IInv, TypeOK
      <4>3. CASE i = windex
        BY <1>3, <3>4, <4>2, <4>3 DEF Publish, IInv, ContentInv
      <4>4. CASE i < windex
        BY <3>4, <1>t, <4>2, <4>4 DEF IInv, ContentInv, Index
      <4>. QED BY <3>4, <4>3, <4>4, <1>t DEF Index
    <3>5. wpc' = "filling" /\ windex' # 0
      BY <1>3, <1>t, <3>1 DEF Publish
    <3>. QED BY <3>1, <3>3, <3>4, <3>5 DEF ContentInv
  <2>. QED BY <2>1, <2>2, <2>3, <2>4 DEF IInv
<1>4. CASE Overflow
  <2>1. TypeOK'
    <3>1. [idx |-> windex, done |-> FALSE] \in Content
      BY DEF IInv, TypeOK, Content
    <3>2. content' \in [Slots -> Content]
      BY <1>4, <3>1 DEF Overflow, IInv, TypeOK
    <3>3. overflow' \in 0 .. MaxOverflow
      BY <1>4 DEF Overflow, IInv, TypeOK, IndexInv
    <3>. QED BY <1>4, <3>2, <3>3 DEF Overflow, IInv, TypeOK, readerVars
  <2>2. IndexInv' /\ SeenInv'
    BY <1>4, <1>t DEF Overflow, IInv, TypeOK, Index, IndexInv, SeenInv, AheadInv, HeldInv,
       HasReader, Attached, Prev, WIndexAhead, readerVars, writerVars
  <2>3. AheadInv' /\ HeldInv'
    BY <1>4, <1>t DEF Overflow, IInv, TypeOK, Index, IndexInv, SeenInv, AheadInv, HeldInv,
       HasReader, Attached, Prev, WIndexAhead, readerVars, writerVars
  <2>4. ContentInv'
    <3>1. Slot(windex) \in Slots
      BY <1>t, SlotType
    <3>2. content'[Slot(windex)] = [idx |-> windex, done |-> FALSE]
      BY <1>4, <3>1 DEF Overflow, IInv, TypeOK
    <3>3. windex > 0
      BY <1>4, <1>t DEF Overflow, IInv, IndexInv, SeenInv, Prev
    <3>4. ASSUME NEW i \in Index, 0 < i, i < windex, windex < i + PoolSize
          PROVE  content'[Slot(i)] = [idx |-> i, done |-> TRUE]
      <4>1. Slot(i) \in Slots /\ Slot(i) # Slot(windex)
        BY <3>4, <1>t, SlotType, SlotsDiffer DEF Index
      <4>. QED BY <1>4, <3>4, <4>1 DEF Overflow, IInv, TypeOK, ContentInv
    <3>. QED BY <1>4, <3>2, <3>3, <3>4 DEF Overflow, ContentInv
  <2>. QED BY <2>1, <2>2, <2>3, <2>4 DEF IInv
<1>5. CASE AttachBegin
  <2>1. TypeOK'
    BY <1>5, <1>t DEF AttachBegin, IInv, TypeOK, Index, Content, IndexInv, readerVars, writerVars, ReadIndexMax
  <2>2. IndexInv' /\ SeenInv'
    BY <1>5, <1>t DEF AttachBegin, IInv, TypeOK, Index, IndexInv, SeenInv, AheadInv, HeldInv,
       HasReader, Attached, Prev, WIndexAhead, readerVars, writerVars
  <2>3. AheadInv' /\ HeldInv'
    BY <1>5, <1>t DEF AttachBegin, IInv, TypeOK, Index, IndexInv, SeenInv, AheadInv, HeldInv,
       HasReader, Attached, Prev, WIndexAhead, readerVars, writerVars
  <2>4. ContentInv'
    BY <1>5, <1>t DEF AttachBegin, IInv, ContentInv, readerVars, writerVars
  <2>. QED BY <2>1, <2>2, <2>3, <2>4 DEF IInv
<1>6. CASE AttachStore
  <2>1. TypeOK'
    BY <1>6, <1>t DEF AttachStore, IInv, TypeOK, Index, Content, IndexInv, readerVars, writerVars, ReadIndexMax
  <2>2. IndexInv' /\ SeenInv'
    BY <1>6, <1>t DEF AttachStore, IInv, TypeOK, Index, IndexInv, SeenInv, AheadInv, HeldInv,
       HasReader, Attached, Prev, WIndexAhead, readerVars, writerVars
  <2>3. AheadInv' /\ HeldInv'
    BY <1>6, <1>t DEF AttachStore, IInv, TypeOK, Index, IndexInv, SeenInv, AheadInv, HeldInv,
       HasReader, Attached, Prev, WIndexAhead, readerVars, writerVars
  <2>4. ContentInv'
    BY <1>6, <1>t DEF AttachStore, IInv, ContentInv, readerVars, writerVars
  <2>. QED BY <2>1, <2>2, <2>3, <2>4 DEF IInv
<1>7. CASE AttachCheck
  <2>1. TypeOK'
    BY <1>7, <1>t DEF AttachCheck, IInv, TypeOK, Index, Content, IndexInv, readerVars, writerVars, ReadIndexMax
  <2>2. IndexInv' /\ SeenInv'
    BY <1>7, <1>t DEF AttachCheck, IInv, TypeOK, Index, IndexInv, SeenInv, AheadInv, HeldInv,
       HasReader, Attached, Prev, WIndexAhead, readerVars, writerVars
  <2>3. AheadInv' /\ HeldInv'
    BY <1>7, <1>t DEF AttachCheck, IInv, TypeOK, Index, IndexInv, SeenInv, AheadInv, HeldInv,
       HasReader, Attached, Prev, WIndexAhead, readerVars, writerVars
  <2>4. ContentInv'
    BY <1>7, <1>t DEF AttachCheck, IInv, ContentInv, readerVars, writerVars
  <2>. QED BY <2>1, <2>2, <2>3, <2>4 DEF IInv
<1>8. CASE Release
  <2>1. TypeOK'
    <3>1. rindex' = rindex + 1 /\ rindex' \in Index
      BY <1>8, <1>t DEF Release, IInv, IndexInv, HasReader, Prev, Index
    <3>. QED BY <1>8, <3>1 DEF Release, IInv, TypeOK, writerVars
  <2>2. IndexInv' /\ SeenInv'
    BY <1>8, <1>t DEF Release, IInv, TypeOK, Index, IndexInv, SeenInv, AheadInv, HeldInv,
       HasReader, Attached, Prev, WIndexAhead, readerVars, writerVars
  <2>3. AheadInv' /\ HeldInv'
    BY <1>8, <1>t DEF Release, IInv, TypeOK, Index, IndexInv, SeenInv, AheadInv, HeldInv,
       HasReader, Attached, Prev, WIndexAhead, readerVars, writerVars
  <2>4. ContentInv'
    BY <1>8, <1>t DEF Release, IInv, ContentInv, readerVars, writerVars
  <2>. QED BY <2>1, <2>2, <2>3, <2>4 DEF IInv
<1>9. CASE HandOut
  <2>1. TypeOK'
    <3>1. cur' = rindex + 1 /\ cur' \in Index
      BY <1>9, <1>t DEF HandOut, IInv, IndexInv, HasReader, Prev, Index
    <3>. QED BY <1>9, <3>1 DEF HandOut, IInv, TypeOK, writerVars
  <2>2. IndexInv' /\ SeenInv'
    BY <1>9, <1>t DEF HandOut, IInv, TypeOK, Index, IndexInv, SeenInv, AheadInv, HeldInv,
       HasReader, Attached, Prev, WIndexAhead, readerVars, writerVars
  <2>3. AheadInv' /\ HeldInv'
    BY <1>9, <1>t DEF HandOut, IInv, TypeOK, Index, IndexInv, SeenInv, AheadInv, HeldInv,
       HasReader, Attached, Prev, WIndexAhead, readerVars, writerVars
  <2>4. ContentInv'
    BY <1>9, <1>t DEF HandOut, IInv, ContentInv, readerVars, writerVars
  <2>. QED BY <2>1, <2>2, <2>3, <2>4 DEF IInv
<1>10. CASE FindNone
  <2>1. TypeOK'
    BY <1>10, <1>t DEF FindNone, IInv, TypeOK, Index, Content, IndexInv, readerVars, writerVars, ReadIndexMax
  <2>2. IndexInv' /\ SeenInv'
    BY <1>10, <1>t DEF FindNone, IInv, TypeOK, Index, IndexInv, SeenInv, AheadInv, HeldInv,
       HasReader, Attached, Prev, WIndexAhead, readerVars, writerVars
  <2>3. AheadInv' /\ HeldInv'
    BY <1>10, <1>t DEF FindNone, IInv, TypeOK, Index, IndexInv, SeenInv, AheadInv, HeldInv,
       HasReader, Attached, Prev, WIndexAhead, readerVars, writerVars
  <2>4. ContentInv'
    BY <1>10, <1>t DEF FindNone, IInv, ContentInv, readerVars, writerVars
  <2>. QED BY <2>1, <2>2, <2>3, <2>4 DEF IInv
<1>11. CASE Detach
  <2>1. TypeOK'
    BY <1>11, <1>t DEF Detach, IInv, TypeOK, Index, Content, IndexInv, readerVars, writerVars, ReadIndexMax
  <2>2. IndexInv' /\ SeenInv'
    BY <1>11, <1>t DEF Detach, IInv, TypeOK, Index, IndexInv, SeenInv, AheadInv, HeldInv,
       HasReader, Attached, Prev, WIndexAhead, readerVars, writerVars
  <2>3. AheadInv' /\ HeldInv'
    BY <1>11, <1>t DEF Detach, IInv, TypeOK, Index, IndexInv, SeenInv, AheadInv, HeldInv,
       HasReader, Attached, Prev, WIndexAhead, readerVars, writerVars
  <2>4. ContentInv'
    BY <1>11, <1>t DEF Detach, IInv, ContentInv, readerVars, writerVars
  <2>. QED BY <2>1, <2>2, <2>3, <2>4 DEF IInv
<1>12. CASE UNCHANGED vars
  BY <1>12 DEF IInv, TypeOK, IndexInv, SeenInv, AheadInv, HeldInv, ContentInv,
     HasReader, Attached, WIndexAhead, vars, readerVars, writerVars
<1>. QED
  BY <1>1, <1>2, <1>3, <1>4, <1>5, <1>6, <1>7, <1>8, <1>9, <1>10, <1>11, <1>12
     DEF Next, Writer, Reader

-----------------------------------------------------------------------------
(* The theorems.                                                           *)

\* The invariant holds in every reachable state.
LEMMA IInvAlways == ASSUME NoWrap PROVE Spec => []IInv
<1>1. IInv /\ [Next]_vars => IInv'
  BY IInvStep
<1>. QED BY IInvInit, <1>1, PTL DEF Spec

\* The indices, local copies and counters of the pool keep their types.
THEOREM TypeCorrect == ASSUME NoWrap PROVE Spec => []TypeOK
<1>1. IInv => TypeOK
  BY DEF IInv
<1>. QED BY IInvAlways, <1>1, PTL

\* The distance between the two indices of an attached pool (the corrected form
\* of invariant #2 of nextReadableBuffer's comment).
THEOREM IndexWindowHolds == ASSUME NoWrap PROVE Spec => []IndexWindow
<1>1. IInv => IndexWindow
  BY PoolSizeAssumption, PlainArithmetic
     DEF IInv, TypeOK, Index, IndexInv, AheadInv, WIndexAhead, HasReader, Prev,
         Attached, IndexWindow
<1>. QED BY IInvAlways, <1>1, PTL

\* The retry loop of attachReader stores the read index at most twice.
THEOREM AttachAtMostTwiceHolds == ASSUME NoWrap PROVE Spec => []AttachAtMostTwice
<1>1. IInv => AttachAtMostTwice
  BY DEF IInv, AheadInv, AttachAtMostTwice
<1>. QED BY IInvAlways, <1>1, PTL

\* A buffer that nextReadableBuffer hands out holds the complete samples it was
\* published with for as long as the reader holds it, but for the first buffer
\* after an attach that met a writer between its load and its store.
THEOREM IntactReadHolds == ASSUME NoWrap PROVE Spec => []IntactRead
<1>1. IInv => IntactRead
  <2>. SUFFICES ASSUME IInv, rpc = "reading", ~ (attempts = 1 /\ reads = 1)
                PROVE  content[Slot(cur)] = [idx |-> cur, done |-> TRUE]
    BY DEF IntactRead
  <2>1. windex \in Nat /\ rindex \in Nat /\ cur \in Index
    BY NoneAssumption, WrapAssumption
       DEF IInv, TypeOK, Index, HeldInv
  <2>2. 0 < cur /\ cur < windex /\ cur = rindex + 1
    BY <2>1 DEF IInv, HeldInv
  <2>3. windex < cur + PoolSize
    BY <2>1, <2>2, PoolSizeAssumption
       DEF IInv, TypeOK, AheadInv, Attached, WIndexAhead
  <2>. QED BY <2>1, <2>2, <2>3 DEF IInv, ContentInv
<1>. QED BY IInvAlways, <1>1, PTL

=============================================================================
