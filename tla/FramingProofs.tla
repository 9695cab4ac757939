---------------------------- MODULE FramingProofs ----------------------------
(* Proofs about Framing, for the frames that fit the buffer: a longer frame   *)
(* makes the buffer grow, and run Framing_grow shows what is lost then.       *)
EXTENDS Framing, Integers, SequenceTheorems, TLAPS

FramesFit == \A n \in FrameLens : n <= BufferCapacity

SentByte == [frame : Nat \ {0}, part : {"header", "body"}, at : Nat \ {0}]
AnyByte == SentByte \cup {Zero}

BufferType == [mem : Seq(AnyByte), capacity : Nat, in : Nat, out : Nat]

(* A buffer within its bounds, whose data are bytes that were sent.           *)
SoundBuffer(b) ==
  /\ b \in BufferType
  /\ b.out <= b.in /\ b.in <= b.capacity
  /\ Len(b.mem) = b.capacity
  /\ Content(b) \in Seq(SentByte)

(* Where the next frame starts, counted from what has not been taken.         *)
Origin(c) == IF c = "PDU_META" THEN 1 ELSE 1 - HeaderLen

(* The bytes s are what remains of the frames lens once d of them, and in     *)
(* PDU_BODY the header of the next, were taken: frame f starts at pos[f].     *)
Layout(s, lens, d, c, pos) ==
  /\ pos \in [Nat -> Int]
  /\ pos[d + 1] = Origin(c)
  /\ pos[Len(lens) + 1] = Len(s) + 1
  /\ \A f \in d + 1 .. Len(lens) :
       /\ pos[f + 1] = pos[f] + HeaderLen + lens[f] /\ pos[f + 1] <= Len(s) + 1
       /\ \A k \in 1 .. HeaderLen :
            pos[f] + k - 1 \in 1 .. Len(s) => s[pos[f] + k - 1] = Byte(f, "header", k)
       /\ \A k \in 1 .. lens[f] :
            pos[f] + HeaderLen + k - 1 \in 1 .. Len(s)
              => s[pos[f] + HeaderLen + k - 1] = Byte(f, "body", k)

(* t is s without its first n bytes.                                          *)
Drops(s, t, n) == Len(t) = Len(s) - n /\ \A i \in 1 .. Len(t) : t[i] = s[i + n]

(* t is s followed by h and by y.                                             *)
Extends(s, t, h, y) ==
  /\ Len(t) = Len(s) + Len(h) + Len(y)
  /\ \A i \in 1 .. Len(s) : t[i] = s[i]
  /\ \A k \in 1 .. Len(h) : t[Len(s) + k] = h[k]
  /\ \A k \in 1 .. Len(y) : t[Len(s) + Len(h) + k] = y[k]

Stream == Content(buffer) \o wire

FramerType ==
  /\ sent \in Seq(FrameLens)
  /\ wire \in Seq(SentByte)
  /\ closed \in BOOLEAN
  /\ SoundBuffer(buffer) /\ buffer.capacity = BufferCapacity
  /\ cursor \in {"PDU_META", "PDU_BODY", "DISCONNECTED"}
  /\ frameLength \in 1 .. BufferCapacity
  /\ delivered \in Seq(Seq(SentByte))
  /\ Len(delivered) <= Len(sent)

(* What was delivered, and what is expected next.                             *)
Progress ==
  /\ \A i \in 1 .. Len(delivered) : delivered[i] = Body(i, sent[i])
  /\ cursor = "PDU_META" => frameLength = HeaderLen
  /\ cursor = "PDU_BODY" => /\ Len(delivered) < Len(sent)
                            /\ frameLength = sent[Len(delivered) + 1]
                            /\ Size(buffer) < frameLength

InStep == cursor # "DISCONNECTED" =>
  \E pos \in [Nat -> Int] : Layout(Stream, sent, Len(delivered), cursor, pos)

(* The inductive invariant.                                                   *)
FramerInv == FramerType /\ Progress /\ InStep

-----------------------------------------------------------------------------
(* The parts of a stream of frames.                                           *)
LEMMA Constants ==
  /\ HeaderLen \in Nat \ {0} /\ BufferCapacity \in Nat \ {0} /\ HeaderLen <= BufferCapacity
  /\ FrameLens \subseteq Nat \ {0}
BY LensAssumption

(* A slice of a sequence.                                                      *)
LEMMA Slice ==
  ASSUME NEW S, NEW s \in Seq(S), NEW m \in Nat, NEW n \in Nat, m <= n, n <= Len(s)
  PROVE  /\ SubSeq(s, m + 1, n) \in Seq(S) /\ Len(SubSeq(s, m + 1, n)) = n - m
         /\ \A i \in 1 .. n - m : SubSeq(s, m + 1, n)[i] = s[m + i]
<1>. DEFINE c == SubSeq(s, m + 1, n)
<1>1. \A i \in m + 1 .. n : s[i] \in S
  BY LenProperties
<1>2. c \in Seq(S) /\ Len(c) = (IF m + 1 <= n THEN n - (m + 1) + 1 ELSE 0)
      /\ \A i \in 1 .. n - (m + 1) + 1 : c[i] = s[m + 1 + i - 1]
  BY <1>1, SubSeqProperties
<1>. HIDE DEF c
<1>3. n - (m + 1) + 1 = n - m
  OBVIOUS
<1>4. \A i \in 1 .. n - m : c[i] = s[m + i]
  <2>1. \A i \in 1 .. n - m : m + 1 + i - 1 = m + i
    OBVIOUS
  <2>. QED  BY <1>2, <1>3, <2>1
<1>5. Len(c) = n - m
  BY <1>2
<1>. QED  BY <1>2, <1>4, <1>5 DEF c

(* Two sequences, one after the other.                                         *)
LEMMA Join ==
  ASSUME NEW S, NEW s \in Seq(S), NEW t \in Seq(S)
  PROVE  /\ s \o t \in Seq(S) /\ Len(s \o t) = Len(s) + Len(t)
         /\ \A i \in 1 .. Len(s) : (s \o t)[i] = s[i]
         /\ \A i \in 1 .. Len(t) : (s \o t)[Len(s) + i] = t[i]
<1>. DEFINE c == s \o t
<1>1. /\ c \in Seq(S) /\ Len(c) = Len(s) + Len(t)
      /\ \A i \in 1 .. Len(s) + Len(t) : c[i] = IF i <= Len(s) THEN s[i] ELSE t[i - Len(s)]
  BY ConcatProperties
<1>2. Len(s) \in Nat /\ Len(t) \in Nat
  OBVIOUS
<1>. HIDE DEF c
<1>3. \A i \in 1 .. Len(s) : c[i] = s[i]
  BY <1>1, <1>2
<1>4. \A i \in 1 .. Len(t) : c[Len(s) + i] = t[i]
  <2>1. \A i \in 1 .. Len(t) : /\ Len(s) + i \in 1 .. Len(s) + Len(t)
                               /\ ~ (Len(s) + i <= Len(s)) /\ (Len(s) + i) - Len(s) = i
    BY <1>2
  <2>. QED  BY <1>1, <2>1
<1>. QED  BY <1>1, <1>3, <1>4 DEF c

(* Streams of bytes, one after the other.                                      *)
LEMMA BytesAssociate ==
  ASSUME NEW s \in Seq(SentByte), NEW t \in Seq(SentByte), NEW u \in Seq(SentByte)
  PROVE  (s \o t) \o u = s \o (t \o u)
BY ConcatAssociative

(* Sums that a stream which lost its first bytes leads to.                     *)
LEMMA SumShift == \A x, y, h, l, m \in Int : y = x + h + l => y - m = (x - m) + h + l
OBVIOUS

(* The bytes of a header, and those of a body, end before the frame does.      *)
LEMMA HeaderEnds ==
  \A p, h, m, j, ls \in Int : j <= h /\ 0 <= m /\ p + h + m <= ls + 1 => p + j - 1 <= ls
OBVIOUS

(* Likewise, behind the header.                                                *)
LEMMA BodyEnds ==
  \A p, h, m, j, ls \in Int : j <= m /\ p + h + m <= ls + 1 => p + h + j - 1 <= ls
OBVIOUS

(* A header is HeaderLen bytes.                                                *)
LEMMA HeaderType == ASSUME NEW f \in Nat \ {0}
                    PROVE  Header(f) \in Seq(SentByte) /\ Len(Header(f)) = HeaderLen
<1>1. \A k \in 1 .. HeaderLen : Byte(f, "header", k) \in SentByte
  BY Constants DEF Byte, SentByte
<1>2. Header(f) \in [1 .. HeaderLen -> SentByte]
  BY <1>1 DEF Header
<1>. QED  BY <1>2, Constants, SeqDef, LenProperties

(* A payload is as many bytes as the header says.                              *)
LEMMA BodyType == ASSUME NEW f \in Nat \ {0}, NEW n \in Nat
                  PROVE  Body(f, n) \in Seq(SentByte) /\ Len(Body(f, n)) = n
<1>1. \A k \in 1 .. n : Byte(f, "body", k) \in SentByte
  BY DEF Byte, SentByte
<1>2. Body(f, n) \in [1 .. n -> SentByte]
  BY <1>1 DEF Body
<1>. QED  BY <1>2, SeqDef, LenProperties

(* A frame is known by its bytes.                                             *)
LEMMA BodyInjective == ASSUME NEW f \in Nat \ {0}, NEW g \in Nat \ {0},
                              NEW m \in Nat \ {0}, NEW n \in Nat \ {0}, Body(f, m) = Body(g, n)
                       PROVE  f = g
<1>1. Len(Body(f, m)) = m /\ Len(Body(g, n)) = n
  BY BodyType
<1>2. Body(f, m)[1] = Byte(f, "body", 1)
  BY DEF Body
<1>3. Body(g, n)[1] = Byte(g, "body", 1)
  BY DEF Body
<1>. QED  BY <1>1, <1>2, <1>3 DEF Byte

-----------------------------------------------------------------------------
(* Buffer.                                                                    *)
LEMMA ContentType == ASSUME NEW b, SoundBuffer(b)
                     PROVE  /\ Content(b) \in Seq(SentByte)
                            /\ Len(Content(b)) = Size(b) /\ Size(b) \in Nat
                            /\ \A i \in 1 .. Size(b) : Content(b)[i] = b.mem[b.out + i]
<1>1. b.mem \in Seq(AnyByte) /\ b.out + 1 \in 1 .. Len(b.mem) + 1 /\ b.in \in b.out .. Len(b.mem)
  BY DEF SoundBuffer, BufferType
<1>2. b.in \in Nat /\ b.out \in Nat
  BY DEF SoundBuffer, BufferType
<1>. DEFINE mem == b.mem
            in == b.in
            out == b.out
<1>3. mem \in Seq(AnyByte) /\ in \in Nat /\ out \in Nat /\ out <= in /\ in <= Len(mem)
  BY <1>1, <1>2
<1>4. Content(b) = SubSeq(mem, out + 1, in) /\ Size(b) = in - out /\ Content(b) \in Seq(SentByte)
  BY DEF SoundBuffer, Content, Size
<1>. HIDE DEF mem, in, out
<1>5. Len(SubSeq(mem, out + 1, in)) = in - out /\ \A i \in 1 .. in - out : SubSeq(mem, out + 1, in)[i] = mem[out + i]
  BY <1>3, Slice
<1>6. Size(b) \in Nat
  BY <1>3, <1>4
<1>7. Len(Content(b)) = Size(b) /\ \A i \in 1 .. Size(b) : Content(b)[i] = mem[out + i]
  BY <1>4, <1>5, Zenon
<1>. QED  BY <1>4, <1>6, <1>7 DEF mem, out

(* Buffer::ensureRoom makes the room it is asked for and keeps the data.      *)
LEMMA EnsureRoomKeeps ==
  ASSUME NEW b, SoundBuffer(b), NEW size \in Nat, Size(b) + size <= b.capacity
  PROVE  /\ SoundBuffer(EnsureRoom(b, size))
         /\ EnsureRoom(b, size).capacity = b.capacity
         /\ Content(EnsureRoom(b, size)) = Content(b)
         /\ Size(EnsureRoom(b, size)) = Size(b)
         /\ size <= UsableCapacity(EnsureRoom(b, size))
<1>. DEFINE r == EnsureRoom(b, size)
<1>1. CASE b.in + size <= b.capacity
  <2>1. b.in \in Nat /\ b.capacity \in Nat
    BY DEF SoundBuffer, BufferType
  <2>. QED  BY <1>1, <2>1 DEF EnsureRoom, UsableCapacity
<1>2. CASE ~ (b.in + size <= b.capacity)
  <2>. DEFINE tail == SubSeq(b.mem, Size(b) + 1, Len(b.mem))
  <2>1. b.in \in Nat /\ b.out \in Nat /\ b.capacity \in Nat /\ b.mem \in Seq(AnyByte)
        /\ Len(b.mem) = b.capacity /\ b.out <= b.in /\ b.in <= b.capacity
    BY DEF SoundBuffer, BufferType
  <2>2. ~ (Size(b) + size > b.capacity)
    BY <2>1 DEF Size
  <2>3. r = [[b EXCEPT !.in = b.in - b.out, !.out = 0] EXCEPT !.mem = Relocated(b)]
    BY <1>2, <2>2 DEF EnsureRoom
  <2>4. r = [mem |-> Relocated(b), capacity |-> b.capacity, in |-> b.in - b.out, out |-> 0]
    <3>1. b = [mem |-> b.mem, capacity |-> b.capacity, in |-> b.in, out |-> b.out]
      BY DEF SoundBuffer, BufferType
    <3>. QED  BY <3>1, <2>3
  <2>5. /\ Content(b) \in Seq(AnyByte) /\ Len(Content(b)) = Size(b) /\ Size(b) \in Nat
        /\ tail \in Seq(AnyByte) /\ Len(tail) = b.capacity - Size(b)
    <3>1. Content(b) \in Seq(SentByte) /\ Len(Content(b)) = Size(b) /\ Size(b) \in Nat
      BY ContentType
    <3>2. Content(b) \in Seq(AnyByte)
      BY <2>1, SubSeqProperties DEF Content
    <3>3. Size(b) <= b.capacity
      BY <2>1 DEF Size
    <3>4. tail \in Seq(AnyByte) /\ Len(tail) = b.capacity - Size(b)
      <4>. DEFINE mem == b.mem
                  m == Size(b) + 1
                  n == b.capacity
      <4>1. m \in Int /\ n \in Int /\ m <= n + 1 /\ n - m + 1 = b.capacity - Size(b)
        BY <2>1, <3>1, <3>3
      <4>2. \A i \in m .. n : mem[i] \in AnyByte
        BY <2>1, <3>1
      <4>3. tail = SubSeq(mem, m, n)
        BY <2>1
      <4>. HIDE DEF mem, m, n
      <4>4. /\ SubSeq(mem, m, n) \in Seq(AnyByte)
            /\ Len(SubSeq(mem, m, n)) = IF m <= n THEN n - m + 1 ELSE 0
        BY <4>1, <4>2, SubSeqProperties
      <4>5. (IF m <= n THEN n - m + 1 ELSE 0) = n - m + 1
        BY <4>1
      <4>. HIDE DEF tail
      <4>. QED  BY <4>1, <4>3, <4>4, <4>5, Zenon
    <3>. HIDE DEF tail
    <3>. QED  BY <3>1, <3>2, <3>4
  <2>6. /\ Relocated(b) \in Seq(AnyByte) /\ Len(Relocated(b)) = b.capacity
        /\ \A i \in 1 .. Size(b) : Relocated(b)[i] = Content(b)[i]
    <3>. DEFINE kept == Content(b)
    <3>1. Relocated(b) = kept \o tail
      BY DEF Relocated
    <3>2. kept \in Seq(AnyByte) /\ tail \in Seq(AnyByte) /\ Len(kept) = Size(b) /\ Len(tail) = b.capacity - Size(b)
      BY <2>5
    <3>. HIDE DEF kept, tail
    <3>3. /\ kept \o tail \in Seq(AnyByte) /\ Len(kept \o tail) = Len(kept) + Len(tail)
          /\ \A i \in 1 .. Len(kept) : (kept \o tail)[i] = kept[i]
      BY <3>2, Join
    <3>4. Len(kept) + Len(tail) = b.capacity
      BY <2>1, <2>5, <3>2
    <3>5. \A i \in 1 .. Size(b) : Relocated(b)[i] = kept[i]
      BY <3>1, <3>2, <3>3, Zenon
    <3>. QED  BY <3>1, <3>3, <3>4, <3>5 DEF kept
  <2>7. r \in BufferType /\ r.out = 0 /\ r.in = Size(b) /\ r.capacity = b.capacity
        /\ r.mem = Relocated(b)
    BY <2>1, <2>4, <2>5, <2>6 DEF BufferType, Size
  <2>8. Content(r) = Content(b)
    <3>. DEFINE c == SubSeq(Relocated(b), 1, Size(b))
    <3>1. c \in Seq(AnyByte) /\ Len(c) = Size(b)
          /\ \A i \in 1 .. Size(b) : c[i] = Relocated(b)[i]
      <4>. DEFINE mem == Relocated(b)
                  n == Size(b)
      <4>1. mem \in Seq(AnyByte) /\ n \in Nat /\ n <= Len(mem)
        BY <2>1, <2>5, <2>6 DEF Size
      <4>. HIDE DEF mem, n
      <4>2. /\ SubSeq(mem, 0 + 1, n) \in Seq(AnyByte) /\ Len(SubSeq(mem, 0 + 1, n)) = n - 0
            /\ \A i \in 1 .. n - 0 : SubSeq(mem, 0 + 1, n)[i] = mem[0 + i]
        BY <4>1, Slice
      <4>3. /\ SubSeq(mem, 1, n) \in Seq(AnyByte) /\ Len(SubSeq(mem, 1, n)) = n
            /\ \A i \in 1 .. n : SubSeq(mem, 1, n)[i] = mem[i]
        BY <4>1, <4>2
      <4>. QED  BY <4>3 DEF mem, n
    <3>2. c = Content(b)
      BY <3>1, <2>5, <2>6, SeqEqual
    <3>3. SubSeq(r.mem, r.out + 1, r.in) = c
      BY <2>7, <3>2
    <3>. QED  BY <3>2, <3>3 DEF Content
  <2>9. Size(b) <= b.capacity
    BY <2>1 DEF Size
  <2>10. Size(r) = Size(b)
    BY <2>5, <2>7 DEF Size
  <2>11. Content(r) \in Seq(SentByte)
    BY <2>8 DEF SoundBuffer
  <2>. HIDE DEF r
  <2>12. SoundBuffer(r)
    BY <2>5, <2>6, <2>7, <2>9, <2>11 DEF SoundBuffer
  <2>13. size <= UsableCapacity(r)
    <3>1. r.in = Size(b) /\ r.capacity = b.capacity /\ Size(b) \in Nat /\ b.capacity \in Nat
      BY <2>1, <2>5, <2>7
    <3>. QED  BY <3>1 DEF UsableCapacity
  <2>. QED  BY <2>7, <2>8, <2>10, <2>12, <2>13 DEF r
<1>. QED  BY <1>1, <1>2

(* Buffer::read appends what it reads to the data.                            *)
LEMMA FilledAppends ==
  ASSUME NEW b, SoundBuffer(b), NEW bytes \in Seq(SentByte), Len(bytes) <= UsableCapacity(b)
  PROVE  /\ SoundBuffer(Filled(b, bytes))
         /\ Filled(b, bytes).capacity = b.capacity
         /\ Content(Filled(b, bytes)) = Content(b) \o bytes
<1>. DEFINE r == Filled(b, bytes)
            n == Len(bytes)
            left == SubSeq(b.mem, 1, b.in)
            right == SubSeq(b.mem, b.in + n + 1, Len(b.mem))
            mem == left \o bytes \o right
<1>1. b.in \in Nat /\ b.out \in Nat /\ b.capacity \in Nat /\ b.mem \in Seq(AnyByte)
      /\ Len(b.mem) = b.capacity /\ b.out <= b.in /\ b.in <= b.capacity
  BY DEF SoundBuffer, BufferType
<1>2. n \in Nat /\ b.in + n <= b.capacity /\ bytes \in Seq(AnyByte)
  <2>1. n \in Nat /\ b.in + n <= b.capacity
    BY <1>1 DEF UsableCapacity
  <2>2. bytes \in [1 .. n -> SentByte]
    BY LenProperties
  <2>3. bytes \in [1 .. n -> AnyByte]
    BY <2>2 DEF AnyByte
  <2>. QED  BY <2>1, <2>3, SeqDef
<1>3. r = [mem |-> mem, capacity |-> b.capacity, in |-> b.in + n, out |-> b.out]
  <2>1. b = [mem |-> b.mem, capacity |-> b.capacity, in |-> b.in, out |-> b.out]
    BY DEF SoundBuffer, BufferType
  <2>2. [b EXCEPT !.mem = mem]
          = [mem |-> mem, capacity |-> b.capacity, in |-> b.in, out |-> b.out]
    <3>. HIDE DEF mem
    <3>. QED  BY <2>1
  <2>3. r = [[b EXCEPT !.mem = mem] EXCEPT !.in = b.in + n]
    BY DEF Filled
  <2>. HIDE DEF mem
  <2>. QED  BY <2>2, <2>3
<1>4. left \in Seq(AnyByte) /\ Len(left) = b.in /\ \A i \in 1 .. b.in : left[i] = b.mem[i]
  BY <1>1, SubSeqProperties
<1>5. right \in Seq(AnyByte) /\ Len(right) = b.capacity - b.in - n
  BY <1>1, <1>2, SubSeqProperties, SMTT(30)
<1>6. /\ mem \in Seq(AnyByte) /\ Len(mem) = b.capacity
      /\ \A i \in 1 .. b.in : mem[i] = b.mem[i]
      /\ \A i \in 1 .. n : mem[b.in + i] = bytes[i]
  <2>. DEFINE lb == left \o bytes
  <2>1. /\ lb \in Seq(AnyByte) /\ Len(lb) = b.in + n
        /\ \A i \in 1 .. b.in : lb[i] = left[i]
        /\ \A i \in 1 .. n : lb[b.in + i] = bytes[i]
    BY <1>1, <1>2, <1>4, ConcatProperties, SMTT(30)
  <2>. HIDE DEF lb
  <2>2. /\ lb \o right \in Seq(AnyByte) /\ Len(lb \o right) = b.capacity
        /\ \A i \in 1 .. b.in + n : (lb \o right)[i] = lb[i]
    <3>1. /\ lb \o right \in Seq(AnyByte) /\ Len(lb \o right) = Len(lb) + Len(right)
          /\ \A i \in 1 .. Len(lb) : (lb \o right)[i] = lb[i]
      BY <1>5, <2>1, Join
    <3>2. Len(lb) + Len(right) = b.capacity
      <4>1. Len(lb) = b.in + n /\ Len(right) = b.capacity - b.in - n
        BY <1>5, <2>1
      <4>2. b.in \in Int /\ n \in Int /\ b.capacity \in Int
        BY <1>1, <1>2
      <4>. HIDE DEF n, right
      <4>. QED  BY <4>1, <4>2
    <3>. QED  BY <3>1, <3>2, <2>1
  <2>3. mem = lb \o right
    BY DEF lb
  <2>4. \A i \in 1 .. b.in : i \in 1 .. b.in + n
    BY <1>1, <1>2
  <2>5. \A i \in 1 .. n : b.in + i \in 1 .. b.in + n
    BY <1>1, <1>2
  <2>. QED  BY <1>4, <2>1, <2>2, <2>3, <2>4, <2>5
<1>. HIDE DEF mem
<1>7. r \in BufferType /\ r.out = b.out /\ r.in = b.in + n /\ r.capacity = b.capacity /\ r.mem = mem
  BY <1>1, <1>2, <1>3, <1>6 DEF BufferType
<1>. HIDE DEF r
<1>8. Content(r) = Content(b) \o bytes
  <2>. DEFINE c == SubSeq(mem, b.out + 1, b.in + n)
              cc == Content(b) \o bytes
  <2>1. c \in Seq(AnyByte) /\ Len(c) = Size(b) + n
        /\ \A i \in 1 .. Size(b) + n : c[i] = mem[b.out + i]
    <3>1. b.out <= b.in + n /\ b.in + n <= Len(mem) /\ b.in + n \in Nat
          /\ (b.in + n) - b.out = Size(b) + n
      BY <1>1, <1>2, <1>6 DEF Size
    <3>2. /\ c \in Seq(AnyByte) /\ Len(c) = (b.in + n) - b.out
          /\ \A i \in 1 .. (b.in + n) - b.out : c[i] = mem[b.out + i]
      <4>. DEFINE e == b.in + n
      <4>1. b.out \in Nat /\ e \in Nat /\ b.out <= e /\ e <= Len(mem) /\ mem \in Seq(AnyByte)
        BY <1>1, <1>6, <3>1
      <4>. HIDE DEF e
      <4>2. /\ SubSeq(mem, b.out + 1, e) \in Seq(AnyByte)
            /\ Len(SubSeq(mem, b.out + 1, e)) = e - b.out
            /\ \A i \in 1 .. e - b.out : SubSeq(mem, b.out + 1, e)[i] = mem[b.out + i]
        BY <4>1, Slice, SMTT(30)
      <4>. QED  BY <4>2 DEF e
    <3>. QED  BY <3>1, <3>2
  <2>2. /\ Content(b) \in Seq(SentByte) /\ Len(Content(b)) = Size(b) /\ Size(b) \in Nat
        /\ \A i \in 1 .. Size(b) : Content(b)[i] = b.mem[b.out + i]
    BY ContentType
  <2>3. /\ cc \in Seq(SentByte) /\ Len(cc) = Size(b) + n
        /\ \A i \in 1 .. Size(b) : cc[i] = Content(b)[i]
        /\ \A i \in 1 .. n : cc[Size(b) + i] = bytes[i]
    <3>1. /\ cc \in Seq(SentByte) /\ Len(cc) = Len(Content(b)) + Len(bytes)
          /\ \A i \in 1 .. Len(Content(b)) : cc[i] = Content(b)[i]
          /\ \A i \in 1 .. Len(bytes) : cc[Len(Content(b)) + i] = bytes[i]
      <4>1. Content(b) \in Seq(SentByte)
        BY <2>2
      <4>. QED  BY <4>1, Join
    <3>. HIDE DEF cc
    <3>. QED  BY <3>1, <2>2
  <2>. HIDE DEF c, cc
  <2>4. ASSUME NEW i \in 1 .. Size(b) + n PROVE c[i] = cc[i]
    <3>1. CASE i <= Size(b)
      <4>1. i \in 1 .. Size(b) /\ b.out + i \in 1 .. b.in
        BY <3>1, <1>1, <2>2 DEF Size
      <4>. QED  BY <4>1, <2>1, <2>2, <2>3, <1>6
    <3>2. CASE ~ (i <= Size(b))
      <4>. DEFINE k == i - Size(b)
      <4>1. k \in 1 .. n /\ i = Size(b) + k
        BY <3>2, <1>1, <1>2, <2>2
      <4>2. b.out + i = b.in + k
        BY <4>1, <1>1, <1>2 DEF Size
      <4>. HIDE DEF k
      <4>. QED  BY <4>1, <4>2, <2>1, <2>3, <1>6
    <3>. QED  BY <3>1, <3>2
  <2>5. c = cc
    BY <2>1, <2>2, <2>3, <2>4, <1>2, SeqEqual
  <2>. QED  BY <2>5, <1>7 DEF Content, c, cc
<1>9. Content(b) \o bytes \in Seq(SentByte)
  BY ContentType, ConcatProperties
<1>. QED  BY <1>1, <1>2, <1>6, <1>7, <1>8, <1>9 DEF SoundBuffer, r

(* Buffer::advanceReadUnsafe drops the first bytes of the data.               *)
LEMMA AdvanceReadDrops ==
  ASSUME NEW b, SoundBuffer(b), NEW n \in Nat, n <= Size(b)
  PROVE  /\ SoundBuffer(AdvanceRead(b, n))
         /\ AdvanceRead(b, n).capacity = b.capacity
         /\ Size(AdvanceRead(b, n)) = Size(b) - n
         /\ \A i \in 1 .. Size(b) - n : Content(AdvanceRead(b, n))[i] = Content(b)[i + n]
<1>. DEFINE r == AdvanceRead(b, n)
<1>1. b.in \in Nat /\ b.out \in Nat /\ b.capacity \in Nat /\ b.mem \in Seq(AnyByte)
      /\ Len(b.mem) = b.capacity /\ b.out <= b.in /\ b.in <= b.capacity
  BY DEF SoundBuffer, BufferType
<1>2. r = [mem |-> b.mem, capacity |-> b.capacity, in |-> b.in, out |-> b.out + n]
  BY DEF SoundBuffer, BufferType, AdvanceRead
<1>3. /\ r \in BufferType /\ r.mem = b.mem /\ r.capacity = b.capacity
      /\ r.in = b.in /\ r.out = b.out + n /\ r.out <= r.in
  BY <1>1, <1>2 DEF BufferType, Size
<1>. HIDE DEF r
<1>4. /\ Content(b) \in Seq(SentByte) /\ Len(Content(b)) = Size(b) /\ Size(b) \in Nat
      /\ \A i \in 1 .. Size(b) : Content(b)[i] = b.mem[b.out + i]
  BY ContentType
<1>5. Size(r) = Size(b) - n /\ Size(r) \in Nat
  BY <1>1, <1>3 DEF Size
<1>6. /\ Content(r) \in Seq(AnyByte) /\ Len(Content(r)) = Size(r)
      /\ \A i \in 1 .. Size(r) : Content(r)[i] = b.mem[b.out + n + i]
  <2>. DEFINE c == SubSeq(b.mem, b.out + n + 1, b.in)
  <2>1. b.out + n \in Nat /\ b.out + n <= b.in /\ b.in - (b.out + n) = Size(r)
    BY <1>1, <1>3 DEF Size
  <2>2. c \in Seq(AnyByte) /\ Len(c) = b.in - (b.out + n)
        /\ \A i \in 1 .. b.in - (b.out + n) : c[i] = b.mem[b.out + n + i]
    <3>. DEFINE q == b.out + n
    <3>1. q \in Nat /\ q <= b.in /\ b.in <= Len(b.mem) /\ b.in \in Nat /\ b.mem \in Seq(AnyByte)
      BY <1>1, <2>1
    <3>. HIDE DEF q
    <3>2. /\ SubSeq(b.mem, q + 1, b.in) \in Seq(AnyByte)
          /\ Len(SubSeq(b.mem, q + 1, b.in)) = b.in - q
          /\ \A i \in 1 .. b.in - q : SubSeq(b.mem, q + 1, b.in)[i] = b.mem[q + i]
      BY <3>1, Slice
    <3>. QED  BY <3>2 DEF q
  <2>. QED  BY <2>1, <2>2, <1>3 DEF Content
<1>7. ASSUME NEW i \in 1 .. Size(r) PROVE Content(r)[i] = Content(b)[i + n]
  <2>1. i + n \in 1 .. Size(b) /\ b.out + n + i = b.out + (i + n)
    BY <1>1, <1>4, <1>5
  <2>. QED  BY <2>1, <1>4, <1>6
<1>8. Content(r) \in Seq(SentByte)
  <2>1. ASSUME NEW i \in 1 .. Size(r) PROVE Content(r)[i] \in SentByte
    <3>1. i + n \in 1 .. Len(Content(b))
      BY <1>4, <1>5
    <3>. QED  BY <3>1, <1>4, <1>7, ElementOfSeq
  <2>2. Content(r) \in [1 .. Size(r) -> SentByte]
    BY <2>1, <1>6, LenProperties
  <2>. QED  BY <2>2, <1>5, SeqDef
<1>. QED  BY <1>1, <1>3, <1>5, <1>7, <1>8 DEF SoundBuffer, r

-----------------------------------------------------------------------------
(* The stream. What is dropped from the data is dropped from the stream.      *)
LEMMA StreamDrops ==
  ASSUME NEW b, SoundBuffer(b), NEW n \in Nat, n <= Size(b), NEW w \in Seq(SentByte)
  PROVE  LET s == Content(b) \o w
             t == Content(AdvanceRead(b, n)) \o w
         IN  /\ s \in Seq(SentByte) /\ t \in Seq(SentByte)
             /\ Len(s) = Size(b) + Len(w) /\ Drops(s, t, n)
<1>. DEFINE r == AdvanceRead(b, n)
            s == Content(b) \o w
            t == Content(r) \o w
<1>1. /\ Content(b) \in Seq(SentByte) /\ Len(Content(b)) = Size(b) /\ Size(b) \in Nat
  BY ContentType
<1>2. /\ SoundBuffer(r) /\ Size(r) = Size(b) - n
      /\ \A i \in 1 .. Size(b) - n : Content(r)[i] = Content(b)[i + n]
  BY AdvanceReadDrops
<1>. HIDE DEF r
<1>3. Content(r) \in Seq(SentByte) /\ Len(Content(r)) = Size(r) /\ Size(r) \in Nat
  BY <1>2, ContentType
<1>4. /\ s \in Seq(SentByte) /\ Len(s) = Len(Content(b)) + Len(w)
      /\ \A i \in 1 .. Len(Content(b)) : s[i] = Content(b)[i]
      /\ \A i \in 1 .. Len(w) : s[Len(Content(b)) + i] = w[i]
  <2>1. Content(b) \in Seq(SentByte)
    BY <1>1
  <2>. QED  BY <2>1, Join
<1>5. /\ t \in Seq(SentByte) /\ Len(t) = Len(Content(r)) + Len(w)
      /\ \A i \in 1 .. Len(Content(r)) : t[i] = Content(r)[i]
      /\ \A i \in 1 .. Len(w) : t[Len(Content(r)) + i] = w[i]
  <2>1. Content(r) \in Seq(SentByte)
    BY <1>3
  <2>. QED  BY <2>1, Join
<1>6. Len(w) \in Nat
  OBVIOUS
<1>. HIDE DEF s, t
<1>7. ASSUME NEW i \in 1 .. Len(t) PROVE t[i] = s[i + n]
  <2>1. CASE i <= Size(r)
    <3>1. i \in 1 .. Size(b) - n /\ i \in 1 .. Len(Content(r)) /\ i + n \in 1 .. Len(Content(b))
      BY <2>1, <1>1, <1>2, <1>3
    <3>. QED  BY <3>1, <1>2, <1>4, <1>5
  <2>2. CASE ~ (i <= Size(r))
    <3>. DEFINE k == i - Size(r)
    <3>1. k \in 1 .. Len(w) /\ i = Len(Content(r)) + k /\ i + n = Len(Content(b)) + k
      BY <2>2, <1>1, <1>2, <1>3, <1>5, <1>6
    <3>. HIDE DEF k
    <3>. QED  BY <3>1, <1>4, <1>5
  <2>. QED  BY <2>1, <2>2
<1>8. Len(t) = Len(s) - n /\ Len(s) = Size(b) + Len(w)
  BY <1>1, <1>2, <1>3, <1>4, <1>5, <1>6
<1>9. Drops(s, t, n)
  BY <1>7, <1>8 DEF Drops
<1>. QED  BY <1>4, <1>5, <1>8, <1>9 DEF s, t, r

(* The place of a byte in a stream that has lost its first n bytes.            *)
LEMMA ShiftIndex ==
  ASSUME NEW p \in Int, NEW n \in Nat, NEW q, q = p - n, NEW k \in Int,
         NEW ls \in Nat, NEW lt \in Nat, lt = ls - n, q + k - 1 \in 1 .. lt
  PROVE  q + k - 1 + n = p + k - 1 /\ p + k - 1 \in 1 .. ls
OBVIOUS

(* A stream of frames stays one when its first bytes are consumed.             *)
LEMMA LayoutDrops ==
  ASSUME NEW s \in Seq(SentByte), NEW t \in Seq(SentByte), NEW lens \in Seq(FrameLens),
         NEW d \in Nat, NEW c, NEW pos, Layout(s, lens, d, c, pos),
         NEW n \in Nat, Drops(s, t, n),
         NEW e \in Nat, d <= e, NEW cc,
         pos[e + 1] - n = Origin(cc)
  PROVE  \E q \in [Nat -> Int] : /\ Layout(t, lens, e, cc, q)
                                 /\ \A f \in Nat : q[f] = pos[f] - n
<1>0. Len(t) = Len(s) - n /\ \A i \in 1 .. Len(t) : t[i] = s[i + n]
  BY DEF Drops
<1>. USE <1>0
<1>. DEFINE q == [f \in Nat |-> pos[f] - n]
<1>1. pos \in [Nat -> Int] /\ pos[Len(lens) + 1] = Len(s) + 1
  BY DEF Layout
<1>2. q \in [Nat -> Int] /\ \A f \in Nat : q[f] = pos[f] - n
  <2>. HIDE <1>0
  <2>0. \A f \in Nat : pos[f] \in Int
    BY <1>1
  <2>1. \A f \in Nat : pos[f] - n \in Int
    BY <2>0
  <2>. QED  BY <2>1, Zenon
<1>. HIDE DEF q
<1>3. Len(s) \in Nat /\ Len(t) \in Nat /\ Len(lens) \in Nat
  OBVIOUS
<1>4. q[e + 1] = Origin(cc)
  BY <1>2
<1>5. q[Len(lens) + 1] = Len(t) + 1
  <2>1. Len(lens) + 1 \in Nat
    BY <1>3
  <2>. QED  BY <2>1, <1>1, <1>2, <1>3
<1>6. ASSUME NEW f \in e + 1 .. Len(lens)
      PROVE  /\ q[f + 1] = q[f] + HeaderLen + lens[f] /\ q[f + 1] <= Len(t) + 1
             /\ \A k \in 1 .. HeaderLen :
                  q[f] + k - 1 \in 1 .. Len(t) => t[q[f] + k - 1] = Byte(f, "header", k)
             /\ \A k \in 1 .. lens[f] :
                  q[f] + HeaderLen + k - 1 \in 1 .. Len(t)
                    => t[q[f] + HeaderLen + k - 1] = Byte(f, "body", k)
  <2>1. f \in Nat /\ f + 1 \in Nat /\ f \in d + 1 .. Len(lens) /\ f \in 1 .. Len(lens)
    BY <1>3
  <2>2. /\ pos[f + 1] = pos[f] + HeaderLen + lens[f] /\ pos[f + 1] <= Len(s) + 1
        /\ \A k \in 1 .. HeaderLen :
             pos[f] + k - 1 \in 1 .. Len(s) => s[pos[f] + k - 1] = Byte(f, "header", k)
        /\ \A k \in 1 .. lens[f] :
             pos[f] + HeaderLen + k - 1 \in 1 .. Len(s)
               => s[pos[f] + HeaderLen + k - 1] = Byte(f, "body", k)
    BY <2>1 DEF Layout
  <2>3. q[f] = pos[f] - n /\ q[f + 1] = pos[f + 1] - n /\ pos[f] \in Int /\ pos[f + 1] \in Int
    BY <2>1, <1>1, <1>2
  <2>4. HeaderLen \in Nat /\ lens[f] \in Nat
    <3>1. lens[f] \in FrameLens
      BY <2>1, ElementOfSeq
    <3>. QED  BY <3>1, Constants
  <2>5. q[f + 1] = q[f] + HeaderLen + lens[f] /\ q[f + 1] <= Len(t) + 1
    <3>1. \A x, y, m \in Int : x <= y + 1 => x - m <= (y - m) + 1
      OBVIOUS
    <3>2. pos[f + 1] - n <= (Len(s) - n) + 1
      BY <2>2, <2>3, <1>3, <3>1
    <3>3. q[f + 1] = q[f] + HeaderLen + lens[f]
      <4>1. HeaderLen \in Int /\ lens[f] \in Int /\ n \in Int
        BY <2>4
      <4>. HIDE <1>0
      <4>0. pos[f + 1] = pos[f] + HeaderLen + lens[f] /\ pos[f + 1] \in Int /\ pos[f] \in Int
        BY <2>2, <2>3, Zenon
      <4>2. pos[f + 1] - n = (pos[f] - n) + HeaderLen + lens[f]
        <5>. DEFINE x == pos[f]
                    y == pos[f + 1]
                    l == lens[f]
        <5>1. x \in Int /\ y \in Int /\ l \in Int /\ n \in Int /\ HeaderLen \in Int /\ y = x + HeaderLen + l
          BY <4>0, <4>1, Zenon
        <5>. HIDE DEF x, y, l
        <5>2. y - n = (x - n) + HeaderLen + l
          BY <5>1, SumShift
        <5>. QED  BY <5>2, Zenon DEF x, y, l
      <4>. QED  BY <2>3, <4>2, Zenon
    <3>. QED  BY <2>3, <3>2, <3>3
  <2>6. ASSUME NEW k \in 1 .. HeaderLen, q[f] + k - 1 \in 1 .. Len(t)
        PROVE  t[q[f] + k - 1] = Byte(f, "header", k)
    <3>1. k \in Int
      BY <2>4
    <3>2. q[f] + k - 1 + n = pos[f] + k - 1 /\ pos[f] + k - 1 \in 1 .. Len(s)
      BY <2>3, <2>6, <1>3, <3>1, ShiftIndex
    <3>. QED  BY <2>2, <2>6, <3>2
  <2>7. ASSUME NEW k \in 1 .. lens[f], q[f] + HeaderLen + k - 1 \in 1 .. Len(t)
        PROVE  t[q[f] + HeaderLen + k - 1] = Byte(f, "body", k)
    <3>. DEFINE m == HeaderLen + k
    <3>1. m \in Int /\ q[f] + HeaderLen + k - 1 = q[f] + m - 1
          /\ pos[f] + HeaderLen + k - 1 = pos[f] + m - 1
      <4>. HIDE <1>0
      <4>1. k \in Int /\ HeaderLen \in Int /\ m \in Int /\ q[f] \in Int /\ pos[f] \in Int
        BY <2>3, <2>4
      <4>2. q[f] + HeaderLen + k - 1 = q[f] + m - 1
        BY <4>1
      <4>3. pos[f] + HeaderLen + k - 1 = pos[f] + m - 1
        BY <4>1
      <4>. QED  BY <4>1, <4>2, <4>3
    <3>. HIDE DEF m
    <3>2. q[f] + m - 1 + n = pos[f] + m - 1 /\ pos[f] + m - 1 \in 1 .. Len(s)
      <4>1. pos[f] \in Int /\ q[f] = pos[f] - n /\ m \in Int /\ q[f] + m - 1 \in 1 .. Len(t)
        BY <2>3, <2>7, <3>1
      <4>2. Len(s) \in Nat /\ Len(t) \in Nat /\ Len(t) = Len(s) - n
        BY <1>3
      <4>. HIDE <1>0
      <4>. QED  BY <4>1, <4>2, ShiftIndex
    <3>. QED  BY <2>2, <2>7, <3>1, <3>2
  <2>. QED  BY <2>5, <2>6, <2>7
<1>7. Layout(t, lens, e, cc, q)
  BY <1>2, <1>4, <1>5, <1>6 DEF Layout
<1>. QED  BY <1>2, <1>7

(* Framer::parseFrameLen finds the length of the next frame.                  *)
LEMMA NextHeader ==
  ASSUME NEW s \in Seq(SentByte), NEW lens \in Seq(FrameLens), NEW d \in Nat, d <= Len(lens),
         NEW pos, Layout(s, lens, d, "PDU_META", pos), HeaderLen <= Len(s)
  PROVE  /\ d < Len(lens) /\ s[1] = Byte(d + 1, "header", 1)
         /\ pos[d + 1] - HeaderLen = 1 - HeaderLen
         /\ (pos[d + 2] - HeaderLen) - lens[d + 1] = 1
<1>1. /\ pos \in [Nat -> Int] /\ pos[Len(lens) + 1] = Len(s) + 1 /\ pos[d + 1] = 1
  BY DEF Layout, Origin
<1>2. Len(s) \in Nat /\ Len(lens) \in Nat /\ HeaderLen \in Nat \ {0}
  BY Constants
<1>3. d < Len(lens)
  <2>1. ASSUME d = Len(lens) PROVE FALSE
    <3>1. pos[Len(lens) + 1] = 1
      BY <2>1, <1>1
    <3>. QED  BY <3>1, <1>1, <1>2
  <2>. QED  BY <2>1, <1>2
<1>4. d + 1 \in d + 1 .. Len(lens)
  BY <1>2, <1>3
<1>5. /\ pos[(d + 1) + 1] = pos[d + 1] + HeaderLen + lens[d + 1]
      /\ \A k \in 1 .. HeaderLen :
           pos[d + 1] + k - 1 \in 1 .. Len(s) => s[pos[d + 1] + k - 1] = Byte(d + 1, "header", k)
  BY <1>4 DEF Layout
<1>6. s[1] = Byte(d + 1, "header", 1)
  BY <1>1, <1>2, <1>5
<1>7. lens[d + 1] \in Nat
  <2>1. d + 1 \in 1 .. Len(lens)
    BY <1>2, <1>3
  <2>2. lens[d + 1] \in FrameLens
    BY <2>1, ElementOfSeq
  <2>. QED  BY <2>2, Constants
<1>8. (d + 1) + 1 = d + 2
  OBVIOUS
<1>9. pos[d + 1] - HeaderLen = 1 - HeaderLen
  BY <1>1
<1>10. (pos[d + 2] - HeaderLen) - lens[d + 1] = 1
  <2>1. pos[d + 2] = 1 + HeaderLen + lens[d + 1]
    BY <1>1, <1>5, <1>8
  <2>. QED  BY <2>1, <1>2, <1>7
<1>. QED  BY <1>3, <1>6, <1>9, <1>10

(* After a header the stream goes on with the body of its frame.              *)
LEMMA NextBody ==
  ASSUME NEW s \in Seq(SentByte), NEW lens \in Seq(FrameLens), NEW d \in Nat, d < Len(lens),
         NEW pos, Layout(s, lens, d, "PDU_BODY", pos)
  PROVE  /\ lens[d + 1] \in Nat \ {0}
         /\ pos[d + 2] - lens[d + 1] = 1
         /\ \A k \in 1 .. lens[d + 1] : k <= Len(s) => s[k] = Byte(d + 1, "body", k)
<1>1. /\ pos \in [Nat -> Int] /\ pos[d + 1] = 1 - HeaderLen
  BY DEF Layout, Origin
<1>2. Len(s) \in Nat /\ Len(lens) \in Nat /\ HeaderLen \in Nat \ {0}
  BY Constants
<1>3. d + 1 \in d + 1 .. Len(lens) /\ d + 1 \in 1 .. Len(lens) /\ (d + 1) + 1 = d + 2
  BY <1>2
<1>4. lens[d + 1] \in Nat \ {0}
  <2>1. lens[d + 1] \in FrameLens
    BY <1>3, ElementOfSeq
  <2>. QED  BY <2>1, Constants
<1>5. /\ pos[(d + 1) + 1] = pos[d + 1] + HeaderLen + lens[d + 1]
      /\ \A k \in 1 .. lens[d + 1] :
           pos[d + 1] + HeaderLen + k - 1 \in 1 .. Len(s)
             => s[pos[d + 1] + HeaderLen + k - 1] = Byte(d + 1, "body", k)
  BY <1>3 DEF Layout
<1>6. \A k \in 1 .. lens[d + 1] : pos[d + 1] + HeaderLen + k - 1 = k
  BY <1>1, <1>2, <1>4
<1>7. ASSUME NEW k \in 1 .. lens[d + 1], k <= Len(s) PROVE s[k] = Byte(d + 1, "body", k)
  <2>1. k \in 1 .. Len(s)
    BY <1>2, <1>4, <1>7
  <2>. QED  BY <2>1, <1>5, <1>6
<1>8. pos[d + 2] - lens[d + 1] = 1
  BY <1>1, <1>2, <1>3, <1>4, <1>5
<1>. QED  BY <1>4, <1>7, <1>8

(* The bytes appended to what was on the wire come last.                      *)
LEMMA StreamSends ==
  ASSUME NEW c \in Seq(SentByte), NEW w \in Seq(SentByte), NEW h \in Seq(SentByte),
         NEW y \in Seq(SentByte)
  PROVE  /\ c \o w \in Seq(SentByte) /\ c \o ((w \o h) \o y) \in Seq(SentByte)
         /\ Extends(c \o w, c \o ((w \o h) \o y), h, y)
<1>. DEFINE s == c \o w
            u == s \o h
            e == w \o h
            t == c \o (e \o y)
<1>1. e \in Seq(SentByte) /\ s \in Seq(SentByte)
  BY ConcatProperties
<1>2. u = c \o e
  BY BytesAssociate, ZenonT(30)
<1>. HIDE DEF s, e
<1>3. /\ u \in Seq(SentByte) /\ Len(u) = Len(s) + Len(h)
      /\ \A i \in 1 .. Len(s) : u[i] = s[i]
      /\ \A i \in 1 .. Len(h) : u[Len(s) + i] = h[i]
  BY <1>1, Join
<1>. HIDE DEF u
<1>4. /\ t \in Seq(SentByte) /\ Len(t) = Len(u) + Len(y)
      /\ \A i \in 1 .. Len(u) : t[i] = u[i]
      /\ \A i \in 1 .. Len(y) : t[Len(u) + i] = y[i]
  <2>0. c \in Seq(SentByte) /\ e \in Seq(SentByte) /\ y \in Seq(SentByte)
    BY <1>1
  <2>1. t = (c \o e) \o y
    <3>. HIDE DEF t
    <3>1. (c \o e) \o y = c \o (e \o y)
      BY <2>0, BytesAssociate, ZenonT(30)
    <3>. QED  BY <3>1 DEF t
  <2>2. t = u \o y
    BY <1>2, <2>1
  <2>. HIDE DEF t
  <2>3. /\ u \o y \in Seq(SentByte) /\ Len(u \o y) = Len(u) + Len(y)
        /\ \A i \in 1 .. Len(u) : (u \o y)[i] = u[i]
        /\ \A i \in 1 .. Len(y) : (u \o y)[Len(u) + i] = y[i]
    <3>1. u \in Seq(SentByte)
      BY <1>3
    <3>. QED  BY <3>1, Join
  <2>. QED  BY <2>2, <2>3
<1>. HIDE DEF t
<1>5. Len(s) \in Nat /\ Len(h) \in Nat /\ Len(y) \in Nat
  BY <1>1
<1>6. \A i \in 1 .. Len(s) : i \in 1 .. Len(u)
  BY <1>3, <1>5
<1>7. \A k \in 1 .. Len(h) : Len(s) + k \in 1 .. Len(u)
  BY <1>3, <1>5
<1>8. s \in Seq(SentByte) /\ t \in Seq(SentByte) /\ Extends(s, t, h, y)
  BY <1>1, <1>3, <1>4, <1>6, <1>7 DEF Extends
<1>. QED  BY <1>8 DEF s, t, e

(* A frame that is sent is appended to the stream.                            *)
LEMMA LayoutSends ==
  ASSUME NEW s \in Seq(SentByte), NEW t \in Seq(SentByte), NEW lens \in Seq(FrameLens),
         NEW d \in Nat, d <= Len(lens), NEW c, NEW pos, Layout(s, lens, d, c, pos),
         NEW len \in FrameLens, Len(t) = Len(s) + HeaderLen + len,
         \A i \in 1 .. Len(s) : t[i] = s[i],
         \A k \in 1 .. HeaderLen : t[Len(s) + k] = Byte(Len(lens) + 1, "header", k),
         \A k \in 1 .. len : t[Len(s) + HeaderLen + k] = Byte(Len(lens) + 1, "body", k)
  PROVE  Layout(t, Append(lens, len), d, c, [pos EXCEPT ![Len(lens) + 2] = Len(t) + 1])
<1>. DEFINE n == Len(lens)
            l == Append(lens, len)
            q == [pos EXCEPT ![n + 2] = Len(t) + 1]
<1>1. pos \in [Nat -> Int] /\ pos[n + 1] = Len(s) + 1
      /\ pos[d + 1] = Origin(c)
  BY DEF Layout
<1>2. Len(s) \in Nat /\ Len(t) \in Nat /\ n \in Nat /\ HeaderLen \in Nat \ {0} /\ len \in Nat \ {0}
  BY Constants
<1>3. /\ Len(l) = n + 1 /\ l[n + 1] = len
      /\ \A f \in 1 .. n : l[f] = lens[f]
  BY AppendProperties
<1>4. /\ q \in [Nat -> Int] /\ q[n + 2] = Len(t) + 1
      /\ \A f \in Nat : f # n + 2 => q[f] = pos[f]
  <2>1. n + 2 \in Nat /\ Len(t) + 1 \in Int
    BY <1>2
  <2>. HIDE DEF n
  <2>. QED  BY <1>1, <2>1
<1>. HIDE DEF l, q
<1>5. q[d + 1] = Origin(c)
  <2>1. d + 1 # n + 2 /\ d + 1 \in Nat
    BY <1>2
  <2>. QED  BY <2>1, <1>1, <1>4
<1>6. q[Len(l) + 1] = Len(t) + 1
  <2>1. Len(l) + 1 = n + 2
    BY <1>2, <1>3
  <2>. QED  BY <2>1, <1>4
<1>7. ASSUME NEW f \in d + 1 .. Len(l)
      PROVE  /\ q[f + 1] = q[f] + HeaderLen + l[f] /\ q[f + 1] <= Len(t) + 1
             /\ \A k \in 1 .. HeaderLen :
                  q[f] + k - 1 \in 1 .. Len(t) => t[q[f] + k - 1] = Byte(f, "header", k)
             /\ \A k \in 1 .. l[f] :
                  q[f] + HeaderLen + k - 1 \in 1 .. Len(t)
                    => t[q[f] + HeaderLen + k - 1] = Byte(f, "body", k)
  <2>1. CASE f = n + 1
    <3>1. q[f] = Len(s) + 1 /\ q[f + 1] = Len(t) + 1 /\ l[f] = len
      <4>1. f \in Nat /\ f # n + 2 /\ f + 1 = n + 2
        BY <2>1, <1>2
      <4>. QED  BY <4>1, <2>1, <1>1, <1>3, <1>4
    <3>2. \A k \in 1 .. HeaderLen : q[f] + k - 1 = Len(s) + k
      BY <3>1, <1>2
    <3>3. \A k \in 1 .. len : q[f] + HeaderLen + k - 1 = Len(s) + HeaderLen + k
      BY <3>1, <1>2
    <3>4. q[f + 1] = q[f] + HeaderLen + l[f] /\ q[f + 1] <= Len(t) + 1
      BY <3>1, <1>2
    <3>. QED  BY <2>1, <3>1, <3>2, <3>3, <3>4
  <2>2. CASE f # n + 1
    <3>1. /\ f \in d + 1 .. n /\ f \in 1 .. n /\ f \in Nat /\ f + 1 \in Nat
          /\ f # n + 2 /\ f + 1 # n + 2
      BY <2>2, <1>2, <1>3
    <3>2. q[f] = pos[f] /\ q[f + 1] = pos[f + 1] /\ l[f] = lens[f] /\ pos[f] \in Int
      BY <3>1, <1>1, <1>3, <1>4
    <3>3. /\ pos[f + 1] = pos[f] + HeaderLen + lens[f] /\ pos[f + 1] <= Len(s) + 1
          /\ \A k \in 1 .. HeaderLen :
               pos[f] + k - 1 \in 1 .. Len(s) => s[pos[f] + k - 1] = Byte(f, "header", k)
          /\ \A k \in 1 .. lens[f] :
               pos[f] + HeaderLen + k - 1 \in 1 .. Len(s)
                 => s[pos[f] + HeaderLen + k - 1] = Byte(f, "body", k)
      BY <3>1 DEF Layout
    <3>4. lens[f] \in Nat
      <4>1. lens[f] \in FrameLens
        BY <3>1, ElementOfSeq
      <4>. QED  BY <4>1, Constants
    <3>5. pos[f] + HeaderLen + lens[f] <= Len(s) + 1
      BY <3>3
    <3>6. ASSUME NEW k \in 1 .. HeaderLen, q[f] + k - 1 \in 1 .. Len(t)
          PROVE  t[q[f] + k - 1] = Byte(f, "header", k)
      <4>1. pos[f] + k - 1 <= Len(s)
        <5>1. k \in Int /\ k <= HeaderLen /\ 0 <= lens[f] /\ lens[f] \in Int /\ HeaderLen \in Int
              /\ Len(s) \in Int
          BY <3>4, <1>2
        <5>. QED  BY <3>2, <3>5, <5>1, HeaderEnds
      <4>2. pos[f] + k - 1 \in 1 .. Len(s)
        BY <4>1, <3>2, <3>6, <1>2
      <4>. QED  BY <4>2, <3>2, <3>3
    <3>7. ASSUME NEW k \in 1 .. lens[f], q[f] + HeaderLen + k - 1 \in 1 .. Len(t)
          PROVE  t[q[f] + HeaderLen + k - 1] = Byte(f, "body", k)
      <4>1. pos[f] + HeaderLen + k - 1 <= Len(s)
        <5>1. k \in Int /\ k <= lens[f] /\ lens[f] \in Int /\ HeaderLen \in Int /\ Len(s) \in Int
          BY <3>4, <1>2
        <5>. QED  BY <3>2, <3>5, <5>1, BodyEnds
      <4>2. pos[f] + HeaderLen + k - 1 \in 1 .. Len(s)
        BY <4>1, <3>2, <3>7, <1>2
      <4>. QED  BY <4>2, <3>2, <3>3
    <3>8. q[f + 1] = q[f] + HeaderLen + l[f] /\ q[f + 1] <= Len(t) + 1
      <4>1. \A x, ls, h, m \in Int : x <= ls + 1 /\ 0 <= h /\ 0 <= m => x <= (ls + h + m) + 1
        OBVIOUS
      <4>2. pos[f + 1] \in Int
        BY <1>1, <3>1
      <4>3. HeaderLen \in Int /\ 0 <= HeaderLen /\ len \in Int /\ 0 <= len /\ Len(s) \in Int
        BY <1>2
      <4>4. pos[f + 1] <= (Len(s) + HeaderLen + len) + 1
        BY <3>3, <4>1, <4>2, <4>3
      <4>. QED  BY <3>2, <3>3, <4>4
    <3>. QED  BY <3>2, <3>6, <3>7, <3>8
  <2>. QED  BY <2>1, <2>2
<1>. QED  BY <1>4, <1>5, <1>6, <1>7 DEF Layout, l, q

(* And when a frame is sent.                                                   *)
LEMMA LayoutGrows ==
  ASSUME NEW x \in Seq(SentByte), NEW w \in Seq(SentByte), NEW lens \in Seq(FrameLens),
         NEW d \in Nat, d <= Len(lens), NEW c, NEW pos, Layout(x \o w, lens, d, c, pos),
         NEW len \in FrameLens
  PROVE  \E q \in [Nat -> Int] :
           Layout(x \o ((w \o Header(Len(lens) + 1)) \o Body(Len(lens) + 1, len)),
                  Append(lens, len), d, c, q)
<1>. DEFINE n == Len(lens) + 1
            h == Header(n)
            y == Body(n, len)
            s == x \o w
            t == x \o ((w \o h) \o y)
            q == [pos EXCEPT ![Len(lens) + 2] = Len(t) + 1]
<1>1. n \in Nat \ {0} /\ len \in Nat
  BY Constants
<1>. HIDE DEF n
<1>2. h \in Seq(SentByte) /\ Len(h) = HeaderLen
  BY <1>1, HeaderType
<1>3. \A k \in 1 .. HeaderLen : h[k] = Byte(n, "header", k)
  BY DEF Header
<1>4. y \in Seq(SentByte) /\ Len(y) = len
  BY <1>1, BodyType
<1>5. \A k \in 1 .. len : y[k] = Byte(n, "body", k)
  BY DEF Body
<1>. HIDE DEF h, y
<1>6. s \in Seq(SentByte) /\ t \in Seq(SentByte) /\ Extends(s, t, h, y)
  <2>1. h \in Seq(SentByte) /\ y \in Seq(SentByte)
    BY <1>2, <1>4
  <2>. QED  BY <2>1, StreamSends
<1>7. Layout(s, lens, d, c, pos)
  OBVIOUS
<1>. HIDE DEF s, t
<1>8. /\ Len(t) = Len(s) + HeaderLen + len
      /\ \A i \in 1 .. Len(s) : t[i] = s[i]
      /\ \A k \in 1 .. HeaderLen : t[Len(s) + k] = Byte(n, "header", k)
      /\ \A k \in 1 .. len : t[Len(s) + HeaderLen + k] = Byte(n, "body", k)
  BY <1>2, <1>3, <1>4, <1>5, <1>6 DEF Extends
<1>9. Layout(t, Append(lens, len), d, c, q)
  BY <1>6, <1>7, <1>8, LayoutSends DEF n
<1>10. q \in [Nat -> Int]
  BY <1>9 DEF Layout
<1>. HIDE DEF q
<1>. QED  BY <1>9, <1>10 DEF n, h, y, t

-----------------------------------------------------------------------------
(* The actions. readFrame goes on with a buffer b, which the stream starts    *)
(* with: it takes the header or the whole of the next frame, or waits.        *)
Delivers ==
  \/ delivered' = delivered
  \/ /\ Len(delivered) < Len(sent)
     /\ delivered' = Append(delivered, Body(Len(delivered) + 1, sent[Len(delivered) + 1]))

(* The first bytes of the data are the body of the next frame.                *)
LEMMA BodyTaken ==
  ASSUME NEW b, SoundBuffer(b), NEW w \in Seq(SentByte), NEW lens \in Seq(FrameLens),
         NEW d \in Nat, d < Len(lens), NEW pos,
         Layout(Content(b) \o w, lens, d, "PDU_BODY", pos), lens[d + 1] <= Size(b)
  PROVE  /\ SubSeq(Content(b), 1, lens[d + 1]) = Body(d + 1, lens[d + 1])
         /\ \E q \in [Nat -> Int] :
              Layout(Content(AdvanceRead(b, lens[d + 1])) \o w, lens, d + 1, "PDU_META", q)
<1>. DEFINE n == lens[d + 1]
            s == Content(b) \o w
            t == Content(AdvanceRead(b, n)) \o w
            x == SubSeq(Content(b), 1, n)
<1>1. /\ Content(b) \in Seq(SentByte) /\ Len(Content(b)) = Size(b) /\ Size(b) \in Nat
  BY ContentType
<1>2. /\ s \in Seq(SentByte) /\ Len(s) = Size(b) + Len(w)
      /\ \A i \in 1 .. Size(b) : s[i] = Content(b)[i]
  <2>1. /\ s \in Seq(SentByte) /\ Len(s) = Len(Content(b)) + Len(w)
        /\ \A i \in 1 .. Len(Content(b)) : s[i] = Content(b)[i]
    <3>1. Content(b) \in Seq(SentByte)
      BY <1>1
    <3>. QED  BY <3>1, Join
  <2>. HIDE DEF s
  <2>. QED  BY <2>1, <1>1
<1>3. Layout(s, lens, d, "PDU_BODY", pos)
  OBVIOUS
<1>. HIDE DEF s
<1>4. /\ n \in Nat \ {0} /\ pos[d + 2] - n = 1
      /\ \A k \in 1 .. n : k <= Len(s) => s[k] = Byte(d + 1, "body", k)
  BY <1>2, <1>3, NextBody
<1>5. n <= Size(b)
  OBVIOUS
<1>. HIDE DEF n
<1>6. x = Body(d + 1, n)
  <2>1. x \in Seq(SentByte) /\ Len(x) = n /\ \A i \in 1 .. n : x[i] = Content(b)[i]
    <3>1. \A i \in 1 .. n : Content(b)[i] \in SentByte
      BY <1>1, <1>4, <1>5, LenProperties
    <3>2. /\ x \in Seq(SentByte) /\ Len(x) = (IF 1 <= n THEN n - 1 + 1 ELSE 0)
          /\ \A i \in 1 .. n - 1 + 1 : x[i] = Content(b)[1 + i - 1]
      BY <3>1, <1>4, SubSeqProperties
    <3>. HIDE DEF x
    <3>. QED  BY <3>2, <1>4
  <2>2. Body(d + 1, n) \in Seq(SentByte) /\ Len(Body(d + 1, n)) = n
    BY <1>4, BodyType
  <2>3. \A i \in 1 .. n : Body(d + 1, n)[i] = Byte(d + 1, "body", i)
    BY DEF Body
  <2>4. \A i \in 1 .. n : i \in 1 .. Size(b) /\ i <= Len(s)
    BY <1>1, <1>2, <1>4, <1>5
  <2>. HIDE DEF x
  <2>5. \A i \in 1 .. n : x[i] = Body(d + 1, n)[i]
    BY <2>1, <2>3, <2>4, <1>2, <1>4
  <2>. QED  BY <2>1, <2>2, <2>5, SeqEqual
<1>7. \E q \in [Nat -> Int] : Layout(t, lens, d + 1, "PDU_META", q)
  <2>1. t \in Seq(SentByte) /\ Drops(s, t, n)
    BY <1>4, <1>5, StreamDrops DEF s
  <2>. HIDE DEF t
  <2>. DEFINE e == d + 1
  <2>2. e \in Nat /\ d <= e /\ e + 1 = d + 2
    OBVIOUS
  <2>3. pos[e + 1] - n = Origin("PDU_META")
    BY <2>2, <1>4 DEF Origin
  <2>4. n \in Nat /\ s \in Seq(SentByte)
    BY <1>2, <1>4
  <2>. HIDE DEF e
  <2>5. \E q \in [Nat -> Int] : Layout(t, lens, e, "PDU_META", q)
    BY <1>3, <2>1, <2>2, <2>3, <2>4, LayoutDrops
  <2>. QED  BY <2>5 DEF e
<1>. QED  BY <1>6, <1>7 DEF n

(* The first bytes of the data are the header of the next frame.              *)
LEMMA HeaderTaken ==
  ASSUME NEW b, SoundBuffer(b), NEW w \in Seq(SentByte), NEW lens \in Seq(FrameLens),
         NEW d \in Nat, d <= Len(lens), NEW pos,
         Layout(Content(b) \o w, lens, d, "PDU_META", pos), HeaderLen <= Size(b)
  PROVE  /\ d < Len(lens) /\ Content(b)[1].frame = d + 1
         /\ \E q \in [Nat -> Int] :
              Layout(Content(AdvanceRead(b, HeaderLen)) \o w, lens, d, "PDU_BODY", q)
<1>. DEFINE s == Content(b) \o w
            t == Content(AdvanceRead(b, HeaderLen)) \o w
<1>1. /\ Content(b) \in Seq(SentByte) /\ Len(Content(b)) = Size(b) /\ Size(b) \in Nat
      /\ HeaderLen \in Nat \ {0}
  BY ContentType, Constants
<1>2. /\ s \in Seq(SentByte) /\ Len(s) = Len(Content(b)) + Len(w)
      /\ \A i \in 1 .. Len(Content(b)) : s[i] = Content(b)[i]
  <2>1. Content(b) \in Seq(SentByte)
    BY <1>1
  <2>. QED  BY <2>1, Join
<1>3. Layout(s, lens, d, "PDU_META", pos)
  OBVIOUS
<1>4. s \in Seq(SentByte) /\ t \in Seq(SentByte) /\ Drops(s, t, HeaderLen)
  BY <1>1, StreamDrops
<1>. HIDE DEF s, t
<1>5. HeaderLen <= Len(s)
  BY <1>1, <1>2
<1>6. /\ d < Len(lens) /\ s[1] = Byte(d + 1, "header", 1)
      /\ pos[d + 1] - HeaderLen = 1 - HeaderLen
  BY <1>3, <1>4, <1>5, NextHeader
<1>7. Content(b)[1].frame = d + 1
  <2>1. Content(b)[1] = s[1]
    BY <1>1, <1>2
  <2>. QED  BY <2>1, <1>6 DEF Byte
<1>8. \E q \in [Nat -> Int] : Layout(t, lens, d, "PDU_BODY", q)
  <2>1. pos[d + 1] - HeaderLen = Origin("PDU_BODY") /\ d <= d /\ HeaderLen \in Nat
    BY <1>1, <1>6 DEF Origin
  <2>. QED  BY <1>3, <1>4, <2>1, LayoutDrops
<1>. QED  BY <1>6, <1>7, <1>8 DEF t

(* readFrame, with the bytes read in the buffer, delivers frames in order.     *)
LEMMA ProceedKeeps ==
  ASSUME FramesFit, FramerType, Progress, cursor # "DISCONNECTED",
         NEW b, SoundBuffer(b), b.capacity = BufferCapacity,
         wire' \in Seq(SentByte), NEW pos,
         Layout(Content(b) \o wire', sent, Len(delivered), cursor, pos),
         Proceed(b), UNCHANGED <<sent, closed>>
  PROVE  FramerInv' /\ Delivers
<1>. DEFINE d == Len(delivered)
            Here(q) == Layout(Stream', sent', Len(delivered'), cursor', q)
<1>1. /\ sent \in Seq(FrameLens) /\ Len(sent) \in Nat /\ d \in Nat /\ d <= Len(sent)
      /\ delivered \in Seq(Seq(SentByte)) /\ frameLength \in 1 .. BufferCapacity
      /\ cursor \in {"PDU_META", "PDU_BODY"} /\ closed \in BOOLEAN
  BY DEF FramerType
<1>2. Size(b) \in Nat /\ HeaderLen \in 1 .. BufferCapacity
  BY ContentType, Constants
<1>3. \A i \in 1 .. Len(sent) : sent[i] \in 1 .. BufferCapacity
  <2>1. \A i \in 1 .. Len(sent) : sent[i] \in FrameLens
    BY <1>1, ElementOfSeq
  <2>2. \A n \in FrameLens : n \in 1 .. BufferCapacity
    <3>1. \A n \in FrameLens : n \in Nat \ {0} /\ n <= BufferCapacity
      BY Constants DEF FramesFit
    <3>. QED  BY <3>1, Constants
  <2>. QED  BY <2>1, <2>2
<1>4. sent' = sent /\ closed' = closed
  OBVIOUS
<1>5. \A i \in 1 .. d : delivered[i] = Body(i, sent[i])
  BY DEF Progress
(* Not all of it has come.                                                    *)
<1>6. CASE Size(b) < frameLength
  <2>1. buffer' = b /\ cursor' = cursor /\ frameLength' = frameLength /\ delivered' = delivered
    BY <1>6 DEF Proceed
  <2>2. FramerType'
    BY <1>1, <1>4, <2>1 DEF FramerType
  <2>3. Progress'
    BY <1>4, <1>6, <2>1 DEF Progress
  <2>4. Here(pos)
    BY <1>4, <2>1 DEF Stream
  <2>5. pos \in [Nat -> Int]
    BY DEF Layout
  <2>6. InStep'
    BY <2>4, <2>5 DEF InStep
  <2>. QED  BY <2>1, <2>2, <2>3, <2>6 DEF FramerInv, Delivers
(* A frame that is in the data r, once its header was taken, is delivered.    *)
<1>7. ASSUME NEW r, SoundBuffer(r), r.capacity = BufferCapacity, d < Len(sent),
             NEW q, Layout(Content(r) \o wire', sent, d, "PDU_BODY", q),
             sent[d + 1] <= Size(r),
             buffer' = AdvanceRead(r, sent[d + 1]), cursor' = "PDU_META",
             frameLength' = HeaderLen,
             delivered' = Append(delivered, SubSeq(Content(r), 1, sent[d + 1]))
      PROVE  FramerInv' /\ Delivers
  <2>. DEFINE n == sent[d + 1]
  <2>1. d + 1 \in 1 .. Len(sent) /\ d + 1 \in Nat \ {0} /\ n \in Nat
    BY <1>1, <1>3, <1>7
  <2>2. SubSeq(Content(r), 1, n) = Body(d + 1, n)
    BY <1>1, <1>7, BodyTaken
  <2>3. \E p \in [Nat -> Int] : Layout(Content(AdvanceRead(r, n)) \o wire', sent, d + 1, "PDU_META", p)
    BY <1>1, <1>7, BodyTaken
  <2>4. SoundBuffer(buffer') /\ buffer'.capacity = BufferCapacity
    BY <2>1, <1>7, AdvanceReadDrops
  <2>5. Body(d + 1, n) \in Seq(SentByte)
    BY <2>1, BodyType
  <2>6. delivered' = Append(delivered, Body(d + 1, n))
    BY <2>2, <1>7
  <2>. HIDE DEF n
  <2>7. /\ delivered' \in Seq(Seq(SentByte)) /\ Len(delivered') = d + 1
        /\ delivered'[d + 1] = Body(d + 1, n)
        /\ \A i \in 1 .. d : delivered'[i] = delivered[i]
    BY <2>5, <2>6, <1>1, AppendProperties
  <2>8. FramerType'
    BY <1>1, <1>2, <1>4, <1>7, <2>4, <2>7 DEF FramerType
  <2>9. \A i \in 1 .. d + 1 : delivered'[i] = Body(i, sent[i])
    <3>1. \A i \in 1 .. d + 1 : i = d + 1 \/ i \in 1 .. d
      BY <1>1
    <3>. QED  BY <3>1, <1>5, <2>7 DEF n
  <2>10. Progress'
    BY <1>4, <1>7, <2>7, <2>9 DEF Progress
  <2>11. InStep'
    BY <1>4, <1>7, <2>3, <2>7 DEF InStep, Stream, n
  <2>12. Delivers
    BY <1>7, <2>6 DEF Delivers, n
  <2>. QED  BY <2>8, <2>10, <2>11, <2>12 DEF FramerInv
(* The rest of a frame has come.                                              *)
<1>8. CASE ~ (Size(b) < frameLength) /\ cursor = "PDU_BODY"
  <2>1. d < Len(sent) /\ frameLength = sent[d + 1]
    BY <1>8 DEF Progress
  <2>2. CompleteBody(b)
    BY <1>8 DEF Proceed
  <2>3. sent[d + 1] <= Size(b)
    BY <1>1, <1>2, <1>8, <2>1
  <2>. QED  BY <1>7, <1>8, <2>1, <2>2, <2>3 DEF CompleteBody
(* A header has come.                                                         *)
<1>9. CASE ~ (Size(b) < frameLength) /\ cursor = "PDU_META"
  <2>. DEFINE rest == AdvanceRead(b, HeaderLen)
              len == ParseFrameLen(Content(b))
  <2>1. HeaderLen <= Size(b) /\ HeaderLen \in Nat
    BY <1>1, <1>2, <1>9 DEF Progress
  <2>2. CompleteMeta(b)
    BY <1>9 DEF Proceed
  <2>3. d < Len(sent) /\ Content(b)[1].frame = d + 1
    BY <1>1, <1>9, <2>1, HeaderTaken
  <2>4. PICK q \in [Nat -> Int] : Layout(Content(rest) \o wire', sent, d, "PDU_BODY", q)
    BY <1>1, <1>9, <2>1, HeaderTaken
  <2>5. SoundBuffer(rest) /\ rest.capacity = BufferCapacity /\ Size(rest) \in Nat
    BY <2>1, AdvanceReadDrops, ContentType
  <2>6. len = sent[d + 1] /\ len \in 1 .. BufferCapacity
    <3>1. d + 1 \in 1 .. Len(sent)
      BY <1>1, <2>3
    <3>. QED  BY <3>1, <1>3, <2>3 DEF ParseFrameLen
  <2>7. \/ /\ Size(rest) < len /\ buffer' = rest /\ cursor' = "PDU_BODY" /\ frameLength' = len
           /\ delivered' = delivered
        \/ /\ ~ (Size(rest) < len) /\ buffer' = AdvanceRead(rest, len) /\ cursor' = "PDU_META"
           /\ frameLength' = HeaderLen
           /\ delivered' = Append(delivered, SubSeq(Content(rest), 1, len))
    BY <2>2 DEF CompleteMeta
  <2>. HIDE DEF rest, len
  <2>8. CASE /\ Size(rest) < len /\ buffer' = rest /\ cursor' = "PDU_BODY" /\ frameLength' = len
             /\ delivered' = delivered
    <3>1. FramerType'
      BY <1>1, <1>4, <2>5, <2>6, <2>8 DEF FramerType
    <3>2. Progress'
      BY <1>4, <1>5, <2>3, <2>6, <2>8 DEF Progress
    <3>3. InStep'
      BY <1>4, <2>4, <2>8 DEF InStep, Stream
    <3>. QED  BY <2>8, <3>1, <3>2, <3>3 DEF FramerInv, Delivers
  <2>9. CASE /\ ~ (Size(rest) < len) /\ buffer' = AdvanceRead(rest, len) /\ cursor' = "PDU_META"
             /\ frameLength' = HeaderLen
             /\ delivered' = Append(delivered, SubSeq(Content(rest), 1, len))
    <3>1. sent[d + 1] <= Size(rest)
      BY <2>5, <2>6, <2>9
    <3>. QED  BY <1>7, <2>3, <2>4, <2>5, <2>6, <2>9, <3>1
  <2>. QED  BY <2>7, <2>8, <2>9
<1>. QED  BY <1>1, <1>6, <1>8, <1>9

(* The invariant holds before anything is sent.                                *)
LEMMA InitHolds == Init => FramerInv
<1>. SUFFICES ASSUME Init PROVE FramerInv
  OBVIOUS
<1>. DEFINE m == [i \in 1 .. BufferCapacity |-> Zero]
            p == [f \in Nat |-> 1]
<1>1. m \in Seq(AnyByte) /\ Len(m) = BufferCapacity
  <2>1. m \in [1 .. BufferCapacity -> AnyByte]
    BY DEF AnyByte
  <2>. QED  BY <2>1, Constants, SeqDef, LenProperties
<1>2. buffer = [mem |-> m, capacity |-> BufferCapacity, in |-> 0, out |-> 0]
  BY DEF Init
<1>. HIDE DEF m
<1>3. Content(buffer) = <<>>
  <2>1. SubSeq(m, 1, 0) = <<>>
    BY SubSeqEmpty
  <2>. QED  BY <1>2, <2>1 DEF Content
<1>4. <<>> \in Seq(SentByte) /\ Len(<<>>) = 0
  BY EmptySeq
<1>5. SoundBuffer(buffer)
  BY <1>1, <1>2, <1>3, <1>4, Constants DEF SoundBuffer, BufferType
<1>6. FramerType
  <2>1. sent \in Seq(FrameLens) /\ Len(sent) = 0 /\ delivered \in Seq(Seq(SentByte))
        /\ Len(delivered) = 0 /\ wire \in Seq(SentByte)
    BY EmptySeq DEF Init
  <2>2. buffer.capacity = BufferCapacity
    BY <1>2
  <2>3. frameLength \in 1 .. BufferCapacity
    BY Constants DEF Init
  <2>4. closed \in BOOLEAN /\ cursor \in {"PDU_META", "PDU_BODY", "DISCONNECTED"}
    BY DEF Init
  <2>5. Len(delivered) <= Len(sent)
    BY <2>1
  <2>. QED  BY <1>5, <2>1, <2>2, <2>3, <2>4, <2>5 DEF FramerType
<1>7. Progress
  BY DEF Init, Progress
<1>8. Stream = <<>>
  BY <1>3, <1>4, ConcatEmptySeq DEF Init, Stream
<1>9. p \in [Nat -> Int] /\ Layout(Stream, sent, Len(delivered), cursor, p)
  BY <1>4, <1>8 DEF Init, Layout, Origin
<1>. HIDE DEF p
<1>. QED  BY <1>6, <1>7, <1>9 DEF FramerInv, InStep

(* A frame that is sent comes after all frames sent before it.                 *)
LEMMA SendKeeps ==
  ASSUME FramerInv, NEW len \in FrameLens, Send(len)
  PROVE  FramerInv'
<1>. DEFINE n == Len(sent)
<1>1. FramerType /\ Progress /\ InStep
  BY DEF FramerInv
<1>2. /\ sent' = Append(sent, len)
      /\ wire' = (wire \o Header(n + 1)) \o Body(n + 1, len)
      /\ closed' = closed /\ buffer' = buffer /\ cursor' = cursor /\ frameLength' = frameLength
      /\ delivered' = delivered
  BY DEF Send, framerVars
<1>3. /\ sent \in Seq(FrameLens) /\ n \in Nat /\ n + 1 \in Nat \ {0} /\ wire \in Seq(SentByte)
      /\ len \in Nat \ {0} /\ Content(buffer) \in Seq(SentByte)
  BY <1>1, Constants, ContentType DEF FramerType
<1>4. Header(n + 1) \in Seq(SentByte) /\ Body(n + 1, len) \in Seq(SentByte)
  BY <1>3, HeaderType, BodyType
<1>5. /\ sent' \in Seq(FrameLens) /\ Len(sent') = n + 1
      /\ \A i \in 1 .. n : sent'[i] = sent[i]
  BY <1>2, <1>3, AppendProperties
<1>6. FramerType'
  <2>1. Len(delivered) <= n + 1
    BY <1>1, <1>3 DEF FramerType
  <2>2. wire' \in Seq(SentByte)
    BY <1>2, <1>3, <1>4
  <2>. QED  BY <1>1, <1>2, <1>5, <2>1, <2>2 DEF FramerType
<1>7. Progress'
  <2>1. Len(delivered) \in Nat /\ Len(delivered) <= n
    BY <1>1 DEF FramerType
  <2>2. \A i \in 1 .. Len(delivered) : sent'[i] = sent[i]
    BY <1>3, <1>5, <2>1
  <2>3. \A i \in 1 .. Len(delivered') : delivered'[i] = Body(i, sent'[i])
    BY <1>1, <1>2, <2>2 DEF Progress
  <2>4. ASSUME cursor = "PDU_BODY"
        PROVE  Len(delivered) < n + 1 /\ frameLength = sent'[Len(delivered) + 1]
    <3>1. Len(delivered) < n /\ frameLength = sent[Len(delivered) + 1]
      BY <1>1, <2>4 DEF Progress
    <3>2. Len(delivered) + 1 \in 1 .. n
      BY <1>3, <2>1, <3>1
    <3>. QED  BY <1>3, <1>5, <2>1, <3>1, <3>2
  <2>. QED  BY <1>1, <1>2, <1>5, <2>3, <2>4 DEF Progress
<1>8. InStep'
  <2>. SUFFICES ASSUME cursor # "DISCONNECTED"
                PROVE  \E q \in [Nat -> Int] : Layout(Stream', sent', Len(delivered'), cursor', q)
    BY <1>2 DEF InStep
  <2>1. PICK pos \in [Nat -> Int] :
          Layout(Content(buffer) \o wire, sent, Len(delivered), cursor, pos)
    BY <1>1 DEF InStep, Stream
  <2>2. Len(delivered) \in Nat /\ Len(delivered) <= Len(sent)
    BY <1>1 DEF FramerType
  <2>3. \E q \in [Nat -> Int] :
          Layout(Content(buffer) \o ((wire \o Header(n + 1)) \o Body(n + 1, len)),
                 Append(sent, len), Len(delivered), cursor, q)
    BY <1>3, <2>1, <2>2, LayoutGrows
  <2>. QED  BY <1>2, <2>3 DEF Stream
<1>. QED  BY <1>6, <1>7, <1>8 DEF FramerInv

(* Every outcome of readFrame keeps the invariant.                             *)
LEMMA ReadFrameKeeps ==
  ASSUME FramesFit, FramerInv, ReadFrame
  PROVE  FramerInv' /\ Delivers
<1>1. FramerType /\ Progress /\ InStep
  BY DEF FramerInv
<1>2. /\ SoundBuffer(buffer) /\ buffer.capacity = BufferCapacity /\ wire \in Seq(SentByte)
      /\ frameLength \in 1 .. BufferCapacity /\ BufferCapacity \in Nat
      /\ Content(buffer) \in Seq(SentByte) /\ Size(buffer) \in Nat
  BY <1>1, Constants, ContentType DEF FramerType
(* The room asked for is there without growing the buffer.                    *)
<1>3. ASSUME Size(buffer) < frameLength
      PROVE  LET b == EnsureRoom(buffer, frameLength - Size(buffer))
             IN  /\ SoundBuffer(b) /\ b.capacity = BufferCapacity
                 /\ Content(b) = Content(buffer) /\ Size(b) = Size(buffer)
  <2>1. frameLength - Size(buffer) \in Nat
        /\ Size(buffer) + (frameLength - Size(buffer)) <= buffer.capacity
    BY <1>2, <1>3
  <2>. QED  BY <1>2, <2>1, EnsureRoomKeeps
<1>4. CASE ReadBuffered
  <2>1. /\ cursor # "DISCONNECTED" /\ Proceed(buffer) /\ UNCHANGED <<sent, wire, closed>>
    BY <1>4 DEF ReadBuffered
  <2>2. PICK pos \in [Nat -> Int] : Layout(Stream, sent, Len(delivered), cursor, pos)
    BY <1>1, <2>1 DEF InStep
  <2>3. Layout(Content(buffer) \o wire', sent, Len(delivered), cursor, pos) /\ wire' \in Seq(SentByte)
    BY <1>2, <2>1, <2>2 DEF Stream
  <2>. QED  BY <1>1, <1>2, <2>1, <2>3, ProceedKeeps
<1>5. CASE ReadSocket
  <2>. DEFINE b == EnsureRoom(buffer, frameLength - Size(buffer))
  <2>1. /\ cursor # "DISCONNECTED" /\ Size(buffer) < frameLength /\ UNCHANGED <<sent, closed>>
    BY <1>5 DEF ReadSocket
  <2>2. /\ SoundBuffer(b) /\ b.capacity = BufferCapacity
        /\ Content(b) = Content(buffer) /\ Size(b) = Size(buffer)
    BY <1>3, <2>1
  <2>3. PICK k \in 1 .. Len(wire) :
          /\ k <= UsableCapacity(b) /\ Proceed(Filled(b, SubSeq(wire, 1, k)))
          /\ wire' = SubSeq(wire, k + 1, Len(wire))
    BY <1>5 DEF ReadSocket
  <2>. HIDE DEF b
  <2>. DEFINE x == SubSeq(wire, 1, k)
              r == Filled(b, x)
  <2>4. Len(wire) \in Nat /\ k \in Nat /\ k <= Len(wire)
    BY <1>2
  <2>5. x \in Seq(SentByte) /\ Len(x) = k
    <3>1. SubSeq(wire, 0 + 1, k) \in Seq(SentByte) /\ Len(SubSeq(wire, 0 + 1, k)) = k - 0
      BY <1>2, <2>4, Slice
    <3>. QED  BY <3>1, <2>4
  <2>6. wire' \in Seq(SentByte)
    BY <1>2, <2>3, <2>4, Slice
  <2>7. x \o wire' = wire
    BY <1>2, <2>3, <2>4, ConcatAdjacentSubSeq, SubSeqFull
  <2>8. Proceed(r)
    BY <2>3
  <2>. HIDE DEF x
  <2>9. SoundBuffer(r) /\ r.capacity = BufferCapacity /\ Content(r) = Content(buffer) \o x
    BY <2>2, <2>3, <2>5, FilledAppends
  <2>. HIDE DEF r
  <2>10. Content(r) \o wire' = Stream
    <3>1. Content(buffer) \in Seq(SentByte) /\ x \in Seq(SentByte)
      BY <1>2, <2>5
    <3>2. (Content(buffer) \o x) \o wire' = Content(buffer) \o (x \o wire')
      BY <3>1, <2>6, BytesAssociate, Zenon
    <3>. QED  BY <3>2, <2>7, <2>9 DEF Stream
  <2>11. PICK pos \in [Nat -> Int] : Layout(Stream, sent, Len(delivered), cursor, pos)
    BY <1>1, <2>1 DEF InStep
  <2>12. Layout(Content(r) \o wire', sent, Len(delivered), cursor, pos)
    BY <2>10, <2>11
  <2>. QED  BY <1>1, <2>1, <2>6, <2>8, <2>9, <2>12, ProceedKeeps
<1>6. CASE ReadEof
  <2>1. /\ Size(buffer) < frameLength /\ cursor' = "DISCONNECTED"
        /\ buffer' = EnsureRoom(buffer, frameLength - Size(buffer))
        /\ UNCHANGED <<sent, wire, closed, frameLength, delivered>>
    BY <1>6 DEF ReadEof
  <2>2. SoundBuffer(buffer') /\ buffer'.capacity = BufferCapacity
    BY <1>3, <2>1
  <2>3. FramerType'
    BY <1>1, <2>1, <2>2 DEF FramerType
  <2>4. Progress' /\ InStep'
    BY <1>1, <2>1 DEF Progress, InStep
  <2>. QED  BY <2>1, <2>3, <2>4 DEF FramerInv, Delivers
<1>. QED  BY <1>4, <1>5, <1>6 DEF ReadFrame

(* Every step keeps the invariant.                                             *)
LEMMA StepKeeps ==
  ASSUME FramesFit, FramerInv, [Next]_vars
  PROVE  FramerInv'
<1>1. ASSUME NEW len \in FrameLens, Send(len) PROVE FramerInv'
  BY <1>1, SendKeeps
<1>2. CASE Close
  BY <1>2 DEF Close, framerVars, FramerInv, FramerType, Progress, InStep, Stream
<1>3. CASE ReadFrame
  BY <1>3, ReadFrameKeeps
<1>4. CASE UNCHANGED vars
  BY <1>4 DEF vars, framerVars, FramerInv, FramerType, Progress, InStep, Stream
<1>. QED  BY <1>1, <1>2, <1>3, <1>4 DEF Next

(* So the invariant holds throughout.                                          *)
LEMMA InvHolds ==
  ASSUME FramesFit
  PROVE  Spec => []FramerInv
<1>1. Init => FramerInv
  BY InitHolds
<1>2. FramerInv /\ [Next]_vars => FramerInv'
  BY StepKeeps
<1>. QED  BY <1>1, <1>2, PTL DEF Spec

(* The invariant keeps the offsets of the buffer in bounds, and leaves room.   *)
LEMMA InvBufferSound == FramerInv => BufferSound
<1>. SUFFICES ASSUME FramerInv PROVE BufferSound
  OBVIOUS
<1>1. SoundBuffer(buffer) /\ buffer.capacity = BufferCapacity /\ frameLength \in 1 .. BufferCapacity
  BY DEF FramerInv, FramerType
<1>2. /\ buffer.in \in Nat /\ buffer.out \in Nat /\ Size(buffer) = buffer.in - buffer.out
      /\ buffer.out <= buffer.in
  BY <1>1 DEF SoundBuffer, BufferType, Size
<1>4. ASSUME Size(buffer) < frameLength
      PROVE  LET missing == frameLength - Size(buffer)
                 b == EnsureRoom(buffer, missing)
             IN  missing <= UsableCapacity(b) /\ Content(b) = Content(buffer)
  <2>1. frameLength - Size(buffer) \in Nat
        /\ Size(buffer) + (frameLength - Size(buffer)) <= buffer.capacity
    BY <1>1, <1>2, <1>4, Constants
  <2>. QED  BY <1>1, <2>1, EnsureRoomKeeps
<1>3. ASSUME NEW i \in buffer.out + 1 .. buffer.in PROVE buffer.mem[i] # Zero
  <2>. DEFINE k == i - buffer.out
  <2>1. k \in 1 .. Size(buffer) /\ buffer.out + k = i
    BY <1>2
  <2>. HIDE DEF k
  <2>2. /\ Content(buffer) \in Seq(SentByte) /\ Len(Content(buffer)) = Size(buffer)
        /\ \A j \in 1 .. Size(buffer) : Content(buffer)[j] = buffer.mem[buffer.out + j]
    BY <1>1, ContentType
  <2>3. Content(buffer)[k] \in SentByte
    BY <2>1, <2>2, ElementOfSeq
  <2>4. buffer.mem[i] \in SentByte
    BY <2>1, <2>2, <2>3
  <2>5. Zero \notin SentByte
    BY DEF Zero, Byte, SentByte
  <2>. QED  BY <2>4, <2>5
<1>. QED  BY <1>1, <1>3, <1>4 DEF BufferSound, SoundBuffer

(* Buffer never reads what was not written, and Buffer::ensureRoom makes room *)
(* for the rest of the frame that Framer waits for without losing the part it *)
(* has, for any sizes of the header and the buffer and any frames that fit.   *)
THEOREM FramerBufferSound ==
  ASSUME FramesFit
  PROVE  Spec => []BufferSound
BY InvHolds, InvBufferSound, PTL

-----------------------------------------------------------------------------
(* The refinement.                                                            *)
LEMMA DeliveredFrame ==
  ASSUME FramerInv, NEW i \in 1 .. Len(delivered)
  PROVE  Frame(delivered[i]) = i
<1>1. /\ sent \in Seq(FrameLens) /\ Len(delivered) \in Nat /\ Len(sent) \in Nat
      /\ Len(delivered) <= Len(sent) /\ DOMAIN sent = 1 .. Len(sent)
  BY LenProperties DEF FramerInv, FramerType
<1>2. i \in DOMAIN sent /\ delivered[i] = Body(i, sent[i])
  BY <1>1 DEF FramerInv, Progress
<1>3. ASSUME NEW f \in DOMAIN sent, delivered[i] = Body(f, sent[f]) PROVE f = i
  <2>1. f \in Nat \ {0} /\ i \in Nat \ {0} /\ sent[f] \in FrameLens /\ sent[i] \in FrameLens
    BY <1>1, <1>2, ElementOfSeq
  <2>2. sent[f] \in Nat \ {0} /\ sent[i] \in Nat \ {0}
    BY <2>1, Constants
  <2>. QED  BY <1>2, <1>3, <2>1, <2>2, BodyInjective
<1>. QED  BY <1>2, <1>3 DEF Frame

(* The abstract state: d of n frames are delivered.                           *)
Pending(n, d) == [i \in 1 .. n - d |-> d + i]
Done(d) == [i \in 1 .. d |-> i]

(* What is delivered are the first frames sent, in order.                      *)
LEMMA AbstractState ==
  ASSUME FramerInv
  PROVE  /\ Len(sent) \in Nat /\ Len(delivered) \in Nat /\ Len(delivered) <= Len(sent)
         /\ [i \in DOMAIN delivered |-> Frame(delivered[i])] = Done(Len(delivered))
<1>1. /\ Len(sent) \in Nat /\ Len(delivered) \in Nat /\ Len(delivered) <= Len(sent)
      /\ DOMAIN delivered = 1 .. Len(delivered)
  BY LenProperties DEF FramerInv, FramerType
<1>. QED  BY <1>1, DeliveredFrame DEF Done

(* The abstract state is made of sequences of frames.                          *)
LEMMA PendingType ==
  ASSUME NEW n \in Nat, NEW d \in Nat, d <= n
  PROVE  /\ Pending(n, d) \in Seq(Nat) /\ Len(Pending(n, d)) = n - d
         /\ Done(d) \in Seq(Nat) /\ Len(Done(d)) = d
<1>1. Pending(n, d) \in [1 .. n - d -> Nat] /\ Done(d) \in [1 .. d -> Nat] /\ n - d \in Nat
  BY DEF Pending, Done
<1>2. \A m \in Nat : \A f \in [1 .. m -> Nat] : f \in Seq(Nat) /\ Len(f) = m
  BY SeqDef, LenProperties
<1>. QED  BY <1>1, <1>2

(* A frame is sent.                                                           *)
LEMMA EnqueueStep ==
  ASSUME NEW n \in Nat, NEW d \in Nat, d <= n
  PROVE  Pending(n + 1, d) = Append(Pending(n, d), n + 1)
<1>. DEFINE p == Append(Pending(n, d), n + 1)
<1>1. Pending(n, d) \in Seq(Nat) /\ Len(Pending(n, d)) = n - d /\ n + 1 \in Nat
  BY PendingType
<1>2. /\ p \in Seq(Nat) /\ Len(p) = n - d + 1 /\ p[n - d + 1] = n + 1
      /\ \A i \in 1 .. n - d : p[i] = Pending(n, d)[i]
  BY <1>1, AppendProperties
<1>3. Pending(n + 1, d) \in Seq(Nat) /\ Len(Pending(n + 1, d)) = n - d + 1
  <2>1. n + 1 \in Nat /\ d <= n + 1 /\ (n + 1) - d = n - d + 1
    OBVIOUS
  <2>. QED  BY <2>1, PendingType
<1>. HIDE DEF p
<1>4. ASSUME NEW i \in 1 .. n - d + 1 PROVE Pending(n + 1, d)[i] = p[i]
  <2>1. Pending(n + 1, d)[i] = d + i
    BY DEF Pending
  <2>2. CASE i \in 1 .. n - d
    BY <1>2, <2>1, <2>2 DEF Pending
  <2>3. CASE i = n - d + 1
    BY <1>2, <2>1, <2>3
  <2>. QED  BY <2>2, <2>3
<1>5. Pending(n + 1, d) = p
  BY <1>2, <1>3, <1>4, SeqEqual
<1>. QED  BY <1>5 DEF p

(* A frame is delivered.                                                      *)
LEMMA DequeueStep ==
  ASSUME NEW n \in Nat, NEW d \in Nat, d < n
  PROVE  /\ Pending(n, d) # <<>> /\ Head(Pending(n, d)) = d + 1
         /\ Pending(n, d + 1) = Tail(Pending(n, d))
         /\ Done(d + 1) = Append(Done(d), d + 1)
<1>. DEFINE p == Pending(n, d)
            t == Tail(p)
            e == Append(Done(d), d + 1)
<1>1. p \in Seq(Nat) /\ Len(p) = n - d /\ Done(d) \in Seq(Nat) /\ Len(Done(d)) = d
  <2>1. d <= n
    OBVIOUS
  <2>. QED  BY <2>1, PendingType
<1>2. Pending(n, d + 1) \in Seq(Nat) /\ Len(Pending(n, d + 1)) = n - d - 1
      /\ Done(d + 1) \in Seq(Nat) /\ Len(Done(d + 1)) = d + 1
  <2>1. d + 1 \in Nat /\ d + 1 <= n /\ n - (d + 1) = n - d - 1
    OBVIOUS
  <2>. QED  BY <2>1, PendingType
<1>3. p # <<>>
  BY <1>1
<1>4. \A i \in 1 .. n - d : p[i] = d + i
  BY DEF Pending
<1>5. \A i \in 1 .. n - d - 1 : Pending(n, d + 1)[i] = d + 1 + i
  BY DEF Pending
<1>6. \A i \in 1 .. d : Done(d)[i] = i
  BY DEF Done
<1>7. \A i \in 1 .. d + 1 : Done(d + 1)[i] = i
  BY DEF Done
<1>. HIDE DEF p
<1>8. /\ Head(p) = p[1] /\ t \in Seq(Nat) /\ Len(t) = Len(p) - 1
      /\ \A i \in 1 .. Len(t) : t[i] = p[i + 1]
  BY <1>1, <1>3, HeadTailProperties
<1>9. Head(p) = d + 1
  BY <1>4, <1>8
<1>. HIDE DEF t
<1>10. Pending(n, d + 1) = t
  <2>1. Len(t) = n - d - 1
    BY <1>1, <1>8
  <2>2. \A i \in 1 .. n - d - 1 : i + 1 \in 1 .. n - d /\ d + (i + 1) = d + 1 + i
    OBVIOUS
  <2>3. \A i \in 1 .. n - d - 1 : Pending(n, d + 1)[i] = t[i]
    BY <1>4, <1>5, <1>8, <2>1, <2>2
  <2>. QED  BY <1>2, <1>8, <2>1, <2>3, SeqEqual
<1>11. /\ e \in Seq(Nat) /\ Len(e) = d + 1 /\ e[d + 1] = d + 1
       /\ \A i \in 1 .. d : e[i] = Done(d)[i]
  BY <1>1, AppendProperties
<1>. HIDE DEF e
<1>12. Done(d + 1) = e
  <2>1. \A i \in 1 .. d + 1 : i \in 1 .. d \/ i = d + 1
    OBVIOUS
  <2>2. \A i \in 1 .. d + 1 : Done(d + 1)[i] = e[i]
    BY <1>6, <1>7, <1>11, <2>1
  <2>. QED  BY <1>2, <1>11, <2>2, SeqEqual
<1>. QED  BY <1>3, <1>9, <1>10, <1>12 DEF p, t, e

(* An initial state is one of the queue.                                       *)
LEMMA RefinementInit == Init => Queue!Init
BY DEF Init, Queue!Init

(* A step is one of the queue, or changes nothing there.                       *)
LEMMA RefinementStep ==
  ASSUME FramesFit, FramerInv, FramerInv', [Next]_vars
  PROVE  [Queue!Next]_Queue!vars
<1>. DEFINE n == Len(sent)
            d == Len(delivered)
            q == [i \in 1 .. Len(sent) - Len(delivered) |-> Len(delivered) + i]
            dd == [i \in DOMAIN delivered |-> Frame(delivered[i])]
<1>1. n \in Nat /\ d \in Nat /\ d <= n /\ q = Pending(n, d) /\ dd = Done(d)
  BY AbstractState DEF Pending
<1>2. q' = Pending(Len(sent'), Len(delivered')) /\ dd' = Done(Len(delivered'))
  <2>1. q' = Pending(Len(sent'), Len(delivered'))
    BY DEF Pending
  <2>2. (Len(sent) \in Nat /\ Len(delivered) \in Nat /\ Len(delivered) <= Len(sent)
          /\ dd = Done(Len(delivered)))'
    BY AbstractState, PTL
  <2>. QED  BY <2>1, <2>2
<1>3. Len(q) + Len(dd) = n
  <2>1. Len(Pending(n, d)) = n - d /\ Len(Done(d)) = d
    BY <1>1, PendingType
  <2>2. Len(q) = n - d /\ Len(dd) = d
    BY <1>1, <2>1
  <2>. HIDE DEF q, dd
  <2>. QED  BY <1>1, <2>2
<1>. HIDE DEF q, dd
(* A step that neither sends nor delivers.                                    *)
<1>4. ASSUME Len(sent') = n, Len(delivered') = d PROVE UNCHANGED <<q, dd>>
  BY <1>1, <1>2, <1>4
<1>5. ASSUME NEW len \in FrameLens, Send(len) PROVE [Queue!Next]_Queue!vars
  <2>1. sent' = Append(sent, len) /\ delivered' = delivered /\ n < MaxFrames
    BY <1>5 DEF Send, framerVars
  <2>2. Len(sent') = n + 1 /\ Len(delivered') = d
    BY <2>1 DEF FramerInv, FramerType
  <2>3. q' = Append(q, n + 1)
    BY <1>1, <1>2, <2>2, EnqueueStep
  <2>4. dd' = dd
    BY <1>1, <1>2, <2>2
  <2>. QED  BY <1>3, <2>1, <2>3, <2>4 DEF Queue!Next, Queue!Enqueue, q, dd
<1>6. CASE ReadFrame
  <2>1. Delivers /\ sent' = sent
    BY <1>6, ReadFrameKeeps DEF ReadFrame, ReadBuffered, ReadSocket, ReadEof
  <2>2. CASE delivered' = delivered
    BY <1>4, <2>1, <2>2 DEF Queue!vars, q, dd
  <2>3. CASE /\ d < n
             /\ delivered' = Append(delivered, Body(d + 1, sent[d + 1]))
    <3>1. Len(delivered') = d + 1 /\ Len(sent') = n
      BY <2>1, <2>3 DEF FramerInv, FramerType
    <3>2. q # <<>> /\ Head(q) = d + 1 /\ q' = Tail(q) /\ dd' = Append(dd, d + 1)
      BY <1>1, <1>2, <2>3, <3>1, DequeueStep
    <3>. QED  BY <3>2 DEF Queue!Next, Queue!Dequeue, q, dd
  <2>. QED  BY <2>1, <2>2, <2>3 DEF Delivers
<1>7. CASE Close
  BY <1>4, <1>7 DEF Close, framerVars, Queue!vars, q, dd
<1>8. CASE UNCHANGED vars
  BY <1>4, <1>8 DEF vars, framerVars, Queue!vars, q, dd
<1>. QED  BY <1>5, <1>6, <1>7, <1>8 DEF Next

(* However the stream is cut into reads and wherever the buffer is moved, the *)
(* frames readFrame returns are those sent, whole, once and in their order.   *)
THEOREM FramingImplementsQueue ==
  ASSUME FramesFit
  PROVE  Spec => Queue!InOrder
<1>1. Init => Queue!Init
  BY RefinementInit
<1>2. FramerInv /\ FramerInv' /\ [Next]_vars => [Queue!Next]_Queue!vars
  BY RefinementStep
<1>3. Spec => []FramerInv
  BY InvHolds
<1>. QED  BY <1>1, <1>2, <1>3, PTL DEF Spec, Queue!InOrder

=============================================================================
