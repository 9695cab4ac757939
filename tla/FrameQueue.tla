----------------------------- MODULE FrameQueue -----------------------------
(* What a connection promises to the session that reads commands from it:    *)
(* frames are delivered once, whole and in the order they were sent, and all  *)
(* of those sent before the profiler closes the connection are delivered.     *)
EXTENDS Naturals, Sequences

CONSTANTS
  MaxFrames     \* bound: frames sent over the connection

VARIABLES
  queue,        \* frames sent and not delivered
  delivered     \* frames delivered

vars == <<queue, delivered>>

Init == queue = <<>> /\ delivered = <<>>

Enqueue ==
  /\ Len(queue) + Len(delivered) < MaxFrames
  /\ queue' = Append(queue, Len(queue) + Len(delivered) + 1)
  /\ UNCHANGED delivered

Dequeue ==
  /\ queue # <<>>
  /\ delivered' = Append(delivered, Head(queue))
  /\ queue' = Tail(queue)

Next == Enqueue \/ Dequeue

(* What is delivered is right; and everything is delivered.                   *)
InOrder == Init /\ [][Next]_vars
Spec == InOrder /\ WF_vars(Dequeue)

=============================================================================
