------------------------------ MODULE Framing -------------------------------
(* How a stream of bytes becomes frames: transport::tcp::Framer over          *)
(* transport::util::Buffer. The profiler sends length prefixed frames; reads   *)
(* of the non-blocking socket return any number of the bytes that have come.  *)
(*                                                                            *)
(* A byte is a record that says which byte of which frame it is, so that the  *)
(* content of the receive buffer is exact.                                    *)
EXTENDS Naturals, Sequences, SequencesExt

CONSTANTS
  HeaderLen,    \* Framer::headerLen
  BufferCapacity,
  FrameLens,    \* lengths of frames
  MaxFrames     \* bound: frames sent over the connection

ASSUME LensAssumption ==
  /\ BufferCapacity \in Nat /\ HeaderLen \in 1 .. BufferCapacity
  /\ FrameLens \subseteq Nat \ {0}

VARIABLES
  sent,         \* the length of each frame sent
  wire,         \* bytes not read from the socket
  closed,       \* the profiler has closed its end
  buffer,       \* Framer::_buffer
  cursor,       \* Framer::_cursorLocation
  frameLength,
  delivered     \* the frames returned by readFrame

framerVars == <<buffer, cursor, frameLength, delivered>>
vars == <<sent, wire, closed, framerVars>>

Byte(f, part, k) == [frame |-> f, part |-> part, at |-> k]
Header(f) == [k \in 1 .. HeaderLen |-> Byte(f, "header", k)]
Body(f, len) == [k \in 1 .. len |-> Byte(f, "body", k)]
Zero == Byte(0, "none", 0)

(* Buffer. _in and _out count from 0, mem from 1.                             *)
Size(b) == b.in - b.out
UsableCapacity(b) == b.capacity - b.in
Content(b) == SubSeq(b.mem, b.out + 1, b.in)

(* Fault: data is not moved to the beginning of the buffer.                   *)
RelocatedStays(b) == b.mem

(* memmove: what follows the data stays where it was.                         *)
Relocated(b) == Content(b) \o SubSeq(b.mem, Size(b) + 1, Len(b.mem))

NewCapacity(b, needed) ==
  CHOOSE n \in {b.capacity * 2 ^ k : k \in 0 .. needed} :
    /\ n >= b.capacity + needed
    /\ \A m \in {b.capacity * 2 ^ k : k \in 0 .. needed} : m >= b.capacity + needed => n <= m

(* Fault: the free space is counted, wherever it is.                          *)
EnsureRoomAnywhere(b, size) == b

(* Buffer::ensureRoom: a buffer that grows keeps its data where it was.       *)
EnsureRoom(b, size) ==
  IF b.in + size <= b.capacity THEN b
  ELSE LET needed == Size(b) + size - b.capacity
           rewound == [b EXCEPT !.in = b.in - b.out, !.out = 0]
       IN  IF Size(b) + size > b.capacity
           THEN LET n == NewCapacity(b, needed)
                IN  [rewound EXCEPT !.capacity = n,
                                    !.mem = @ \o [i \in 1 .. n - b.capacity |-> Zero]]
           ELSE [rewound EXCEPT !.mem = Relocated(b)]

(* Buffer::read has read the given bytes.                                     *)
Filled(b, bytes) ==
  [b EXCEPT !.mem = SubSeq(@, 1, b.in) \o bytes \o SubSeq(@, b.in + Len(bytes) + 1, Len(@)),
            !.in = @ + Len(bytes)]

AdvanceRead(b, n) == [b EXCEPT !.out = @ + n]

-----------------------------------------------------------------------------
(* Framer::reset.                                                             *)
Init ==
  /\ sent = <<>>
  /\ wire = <<>>
  /\ closed = FALSE
  /\ buffer = [mem |-> [i \in 1 .. BufferCapacity |-> Zero], capacity |-> BufferCapacity,
               in |-> 0, out |-> 0]
  /\ cursor = "PDU_META"
  /\ frameLength = HeaderLen
  /\ delivered = <<>>

(* The profiler sends a frame.                                                *)
Send(len) ==
  LET f == Len(sent) + 1 IN
  /\ ~ closed
  /\ Len(sent) < MaxFrames
  /\ sent' = Append(sent, len)
  /\ wire' = wire \o Header(f) \o Body(f, len)
  /\ UNCHANGED <<closed, framerVars>>

Close ==
  /\ ~ closed
  /\ closed' = TRUE
  /\ UNCHANGED <<sent, wire, framerVars>>

(* Framer::parseFrameLen, of the bytes of a header.                           *)
ParseFrameLen(bytes) == sent[bytes[1].frame]

(* readFrame goes on with the buffer b once frameLength bytes are in it.      *)
CompleteMeta(b) ==
  LET len == ParseFrameLen(Content(b))
      rest == AdvanceRead(b, HeaderLen)
  IN  IF Size(rest) < len
      THEN /\ buffer' = rest
           /\ cursor' = "PDU_BODY"
           /\ frameLength' = len
           /\ UNCHANGED delivered
      ELSE /\ buffer' = AdvanceRead(rest, len)
           /\ cursor' = "PDU_META"
           /\ frameLength' = HeaderLen
           /\ delivered' = Append(delivered, SubSeq(Content(rest), 1, len))

CompleteBody(b) ==
  /\ buffer' = AdvanceRead(b, frameLength)
  /\ cursor' = "PDU_META"
  /\ frameLength' = HeaderLen
  /\ delivered' = Append(delivered, SubSeq(Content(b), 1, frameLength))

Proceed(b) ==
  IF Size(b) < frameLength
  THEN buffer' = b /\ UNCHANGED <<cursor, frameLength, delivered>>
  ELSE IF cursor = "PDU_META" THEN CompleteMeta(b) ELSE CompleteBody(b)

(* readFrame: the frame is in the buffer.                                     *)
ReadBuffered ==
  /\ cursor # "DISCONNECTED"
  /\ Size(buffer) >= frameLength
  /\ Proceed(buffer)
  /\ UNCHANGED <<sent, wire, closed>>

(* readFrame: some bytes are read first.                                      *)
ReadSocket ==
  LET b == EnsureRoom(buffer, frameLength - Size(buffer)) IN
  /\ cursor # "DISCONNECTED"
  /\ Size(buffer) < frameLength
  /\ \E k \in 1 .. Len(wire) :
       /\ k <= UsableCapacity(b)
       /\ Proceed(Filled(b, SubSeq(wire, 1, k)))
       /\ wire' = SubSeq(wire, k + 1, Len(wire))
  /\ UNCHANGED <<sent, closed>>

(* readFrame: the end of the stream, handleDisconnect throws.                 *)
ReadEof ==
  /\ cursor # "DISCONNECTED"
  /\ Size(buffer) < frameLength
  /\ wire = <<>>
  /\ closed
  /\ cursor' = "DISCONNECTED"
  /\ buffer' = EnsureRoom(buffer, frameLength - Size(buffer))
  /\ UNCHANGED <<sent, wire, closed, frameLength, delivered>>

ReadFrame == ReadBuffered \/ ReadSocket \/ ReadEof

Next == (\E len \in FrameLens : Send(len)) \/ Close \/ ReadFrame

(* The session keeps polling its client.                                      *)
Spec == Init /\ [][Next]_vars /\ WF_vars(ReadFrame)

-----------------------------------------------------------------------------
(* A frame delivered is frame f when its bytes are those of f, all of them.   *)
Frame(bytes) ==
  IF \E f \in DOMAIN sent : bytes = Body(f, sent[f])
  THEN CHOOSE f \in DOMAIN sent : bytes = Body(f, sent[f])
  ELSE 0

Queue == INSTANCE FrameQueue WITH
  queue <- [i \in 1 .. Len(sent) - Len(delivered) |-> Len(delivered) + i],
  delivered <- [i \in DOMAIN delivered |-> Frame(delivered[i])]

(* The framer implements a queue of frames, however the stream is cut into    *)
(* reads and wherever the buffer is relocated.                                *)
DeliversFrames == Queue!Spec

(* What Buffer assumes of itself and never checks (advanceReadUnsafe,         *)
(* Framer::read): it holds no more than it has room for, nothing is read that *)
(* was not written, and a frame that is not complete gets room for the rest   *)
(* of it behind the bytes read before, which are kept.                        *)
BufferSound ==
  /\ buffer.out <= buffer.in /\ buffer.in <= buffer.capacity
  /\ Len(buffer.mem) = buffer.capacity
  /\ \A i \in buffer.out + 1 .. buffer.in : buffer.mem[i] # Zero
  /\ (cursor # "DISCONNECTED" /\ Size(buffer) < frameLength) =>
       LET missing == frameLength - Size(buffer)
           b == EnsureRoom(buffer, missing)
       IN  missing <= UsableCapacity(b) /\ Content(b) = Content(buffer)

=============================================================================
