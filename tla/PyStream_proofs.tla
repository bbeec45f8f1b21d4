--------------------------- MODULE PyStream_proofs ---------------------------
(***************************************************************************)
(* The buffers of the stream handler stay within their allocations, and    *)
(* the frames that one side sends are those that the other decodes, in     *)
(* order, for every size, every conversation and every way of cutting the  *)
(* bytes.                                                                  *)
(***************************************************************************)
EXTENDS PyStream, SequenceTheorems, WellFoundedInduction, TLAPS

\* What one write buffer keeps.
WOK(b) ==
  /\ b \in Buffer
  /\ b.pos <= Len(b.buf)
  /\ Len(b.buf) <= b.alloc

\* What one decode buffer keeps: a conjunct of DecoderInBounds, with types.
DOK(d) ==
  /\ d \in Decoder
  /\ Len(d.buf) + d.remaining <= d.alloc
  /\ d.opcode # 0 => d.header = _loqui_get_header_size(d.opcode)
  /\ d.opcode = 0 => d.buf = <<>> /\ ~d.complete
  /\ d.remaining > 0 \/ d.complete =>
       /\ d.opcode # 0
       /\ Len(d.buf) >= d.header
       /\ Len(d.buf) + d.remaining = d.header + loqui_get_data_payload_size(d)
  /\ d.complete => d.remaining = 0
  /\ ~d.complete /\ d.remaining = 0 /\ d.opcode # 0 => Len(d.buf) < d.header

\* The least of two numbers is one of them.
LEMMA MinOfTwo ==
  ASSUME NEW a \in Nat, NEW b \in Nat
  PROVE  /\ Min({a, b}) \in Nat
         /\ Min({a, b}) <= a /\ Min({a, b}) <= b
         /\ Min({a, b}) = a \/ Min({a, b}) = b
<1>1. CASE a <= b
  <2>1. a \in {a, b} /\ \A y \in {a, b} : a <= y
    BY <1>1
  <2> QED BY <2>1, SMT DEF Min
<1>2. CASE b <= a
  <2>1. b \in {a, b} /\ \A y \in {a, b} : b <= y
    BY <1>2
  <2> QED BY <2>1, SMT DEF Min
<1> QED BY <1>1, <1>2

\* A write to a write buffer keeps it within its allocation.
LEMMA WriteKeepsBuffer ==
  ASSUME NEW b, WOK(b), NEW bytes \in Seq(Nat)
  PROVE  WOK(loqui_buffer_write(b, bytes))
<1> DEFINE c == loqui_buffer_write(b, bytes)
           n == Len(b.buf) + Len(bytes)
<1>1. b.buf \in Seq(Nat) /\ b.pos \in Nat /\ b.alloc \in Nat
  BY DEF WOK, Buffer
<1>2. b.buf \o bytes \in Seq(Nat) /\ Len(b.buf \o bytes) = n
  BY <1>1, ConcatProperties
<1>3. Len(b.buf) \in Nat /\ Len(bytes) \in Nat
  BY <1>1
<1>4. n \in Nat /\ n * 2 \in Nat /\ n <= n * 2
  BY <1>3
<1>5. c = [b EXCEPT !.buf = b.buf \o bytes,
                    !.alloc = IF n > b.alloc THEN n * 2 ELSE b.alloc]
  BY DEF loqui_buffer_write
<1>6. CASE n > b.alloc
  <2>1. c = [b EXCEPT !.buf = b.buf \o bytes, !.alloc = n * 2]
    BY <1>5, <1>6
  <2>2. c \in Buffer /\ c.buf = b.buf \o bytes /\ c.pos = b.pos
        /\ c.alloc = n * 2
    BY <1>2, <1>4, <2>1 DEF WOK, Buffer
  <2> QED BY <1>1, <1>2, <1>3, <1>4, <2>2 DEF WOK
<1>7. CASE ~(n > b.alloc)
  <2>1. c = [b EXCEPT !.buf = b.buf \o bytes, !.alloc = b.alloc]
    BY <1>5, <1>7
  <2>2. c \in Buffer /\ c.buf = b.buf \o bytes /\ c.pos = b.pos
        /\ c.alloc = b.alloc
    BY <1>1, <1>2, <2>1 DEF WOK, Buffer
  <2> QED BY <1>1, <1>2, <1>3, <1>4, <1>7, <2>2 DEF WOK
<1> QED BY <1>6, <1>7

\* The header of a frame is a sequence of bytes.
LEMMA HeaderType ==
  ASSUME NEW f \in Frame
  PROVE  Header(f) \in Seq(Nat)
<1>1. f.op \in Opcode /\ f.flags \in Nat /\ f.seq \in Nat /\ f.code \in Nat
      /\ Len(f.data) \in Nat
  BY DEF Frame
<1> QED
  BY <1>1 DEF Header, Opcode, Hello, HelloAck, Ping, Pong, Request, Response,
              Push, GoAway, Error, Version

\* So is enqueueing a whole frame.
LEMMA AppendKeepsBuffer ==
  ASSUME NEW b, WOK(b), NEW f \in Frame
  PROVE  WOK(loqui_append(b, f))
<1>1. Header(f) \in Seq(Nat)
  BY HeaderType
<1>2. WOK(loqui_buffer_write(b, Header(f)))
  BY <1>1, WriteKeepsBuffer
<1>3. f.data \in Seq(Nat)
  BY DEF Frame
<1>4. WOK(loqui_buffer_write(loqui_buffer_write(b, Header(f)), f.data))
  BY <1>2, <1>3, WriteKeepsBuffer
<1> QED BY <1>2, <1>4 DEF loqui_append

\* A part at the end of a sequence.
LEMMA TailPart ==
  ASSUME NEW t \in Seq(Nat), NEW k \in Nat, k <= Len(t)
  PROVE  /\ SubSeq(t, k + 1, Len(t)) \in Seq(Nat)
         /\ Len(SubSeq(t, k + 1, Len(t))) = Len(t) - k
<1>1. \A i \in (k + 1)..Len(t) : t[i] \in Nat
  BY ElementOfSeq
<1>2. Len(t) \in Nat /\ k + 1 \in Int
  OBVIOUS
<1> QED BY <1>1, <1>2, SubSeqProperties

\* A part in the middle.
LEMMA MiddlePart ==
  ASSUME NEW t \in Seq(Nat), NEW p \in Nat, NEW k \in Nat, p + k <= Len(t)
  PROVE  SubSeq(t, p + 1, p + k) \in Seq(Nat)
<1>1. \A i \in (p + 1)..(p + k) : t[i] \in Nat
  BY ElementOfSeq
<1>2. p + 1 \in Int /\ p + k \in Int
  OBVIOUS
<1> QED BY <1>1, <1>2, SubSeqProperties

\* A part at the beginning.
LEMMA HeadPart ==
  ASSUME NEW t \in Seq(Nat), NEW k \in Nat, k <= Len(t)
  PROVE  SubSeq(t, 1, k) \in Seq(Nat) /\ Len(SubSeq(t, 1, k)) = k
<1>1. \A i \in 1..k : t[i] \in Nat
  BY ElementOfSeq
<1> QED BY <1>1, SubSeqProperties

\* n zeros are a sequence of length n.
LEMMA ConstantSeq ==
  ASSUME NEW n \in Nat
  PROVE  [i \in 1..n |-> 0] \in Seq(Nat) /\ Len([i \in 1..n |-> 0]) = n
OBVIOUS

\* Recycling an allocation gives one.
LEMMA RecycledType ==
  ASSUME NEW a \in Nat
  PROVE  Recycled(a) \in Nat
BY SizesAssumption DEF Recycled

\* Consuming k bytes, with the reset or the compaction that follows, keeps a
\* write buffer within its allocation.
LEMMA ConsumeKeepsBuffer ==
  ASSUME NEW b, WOK(b), NEW k \in Nat, k <= Len(b.buf) - b.pos,
         NEW c \in _reset_or_compact_write_buf([b EXCEPT !.pos = @ + k])
  PROVE  WOK(c)
<1> DEFINE e == [b EXCEPT !.pos = @ + k]
<1>1. WOK(e)
  BY SMTT(30) DEF WOK, Buffer
<1>2. CASE e.pos = Len(e.buf)
  <2>1. c = [buf |-> <<>>, pos |-> 0, alloc |-> Recycled(e.alloc)]
    BY <1>2 DEF _reset_or_compact_write_buf
  <2>2. Recycled(e.alloc) \in Nat
    BY <1>1, RecycledType DEF WOK, Buffer
  <2> QED BY <2>1, <2>2 DEF WOK, Buffer
<1>3. CASE e.pos # Len(e.buf) /\ Compacts(e)
  <2>1. PICK m \in memcpy(e) : c = [buf |-> m, pos |-> 0, alloc |-> e.alloc]
    BY <1>3 DEF _reset_or_compact_write_buf
  <2>2. Unsent(e) \in Seq(Nat) /\ Len(Unsent(e)) = Len(e.buf) - e.pos
    BY <1>1, TailPart DEF Unsent, WOK, Buffer
  <2>3. /\ [i \in 1..(Len(e.buf) - e.pos) |-> 0] \in Seq(Nat)
        /\ Len([i \in 1..(Len(e.buf) - e.pos) |-> 0]) = Len(e.buf) - e.pos
    <3>1. Len(e.buf) - e.pos \in Nat
      BY <1>1 DEF WOK, Buffer
    <3> QED BY <3>1, ConstantSeq
  <2>4. m \in Seq(Nat) /\ Len(m) = Len(e.buf) - e.pos
    BY <2>1, <2>2, <2>3 DEF memcpy
  <2> QED BY <1>1, <2>1, <2>4 DEF WOK, Buffer
<1>4. CASE e.pos # Len(e.buf) /\ ~Compacts(e)
  BY <1>1, <1>4 DEF _reset_or_compact_write_buf
<1> QED BY <1>2, <1>3, <1>4

\* The regions of a compaction are apart.
LEMMA CompactionApart ==
  ASSUME NEW b, WOK(b), Compacts(b)
  PROVE  Len(b.buf) - b.pos <= b.pos
BY DEF WOK, Buffer, Compacts

-----------------------------------------------------------------------------
(* The decoder *)

\* A reset decoder is in bounds whatever it was before.
LEMMA ResetKeepsDecoder ==
  ASSUME NEW d \in Decoder
  PROVE  DOK(_reset_decode_buf(d))
<1> DEFINE e == _reset_decode_buf(d)
<1>1. Recycled(d.alloc) \in Nat
  BY RecycledType DEF Decoder
<1>2. /\ e.opcode = 0 /\ e.remaining = 0 /\ e.complete = FALSE
      /\ e.buf = <<>> /\ e.alloc = Recycled(d.alloc) /\ e.header = d.header
  BY DEF Decoder, _reset_decode_buf
<1>3. e \in Decoder
  <2>1. e = [d EXCEPT !.opcode = 0, !.remaining = 0, !.complete = FALSE,
                      !.buf = <<>>, !.alloc = Recycled(d.alloc)]
    BY DEF _reset_decode_buf
  <2>2. 0 \in 0..9 /\ 0 \in Nat /\ <<>> \in Seq(Nat) /\ FALSE \in BOOLEAN
    OBVIOUS
  <2> QED BY <1>1, <2>1, <2>2, Zenon DEF Decoder
<1>4. Len(e.buf) + e.remaining <= e.alloc
  BY <1>1, <1>2
<1> QED BY <1>2, <1>3, <1>4 DEF DOK

\* The header sizes, as a table.
LEMMA HeaderSizes ==
  ASSUME NEW op \in Nat
  PROVE  /\ _loqui_get_header_size(op) \in 0..4
         /\ _loqui_get_header_size(op) # 0 => op \in Opcode
         /\ op \in Opcode => _loqui_get_header_size(op) # 0
BY DEF _loqui_get_header_size, Opcode, Hello, HelloAck, Ping, Pong, Request,
       Response, Push, GoAway, Error

\* The size of the payload is read from the header, all of it present.
LEMMA PayloadSizeType ==
  ASSUME NEW d \in Decoder, d.opcode # 0,
         d.header = _loqui_get_header_size(d.opcode),
         Len(d.buf) >= d.header
  PROVE  loqui_get_data_payload_size(d) \in Nat
BY SMTT(30) DEF Decoder, _loqui_get_header_size, loqui_get_data_payload_size, Hello,
       HelloAck, Ping, Pong, Request, Response, Push, GoAway, Error

\* It is the same when bytes are added behind the header.
LEMMA PayloadSizeStable ==
  ASSUME NEW d \in Decoder, NEW e \in Decoder, d.opcode # 0,
         d.header = _loqui_get_header_size(d.opcode),
         Len(d.buf) >= d.header, e.opcode = d.opcode,
         NEW bytes \in Seq(Nat), e.buf = d.buf \o bytes
  PROVE  loqui_get_data_payload_size(e) = loqui_get_data_payload_size(d)
<1>1. d.buf \in Seq(Nat) /\ d.opcode \in 0..9 /\ Len(d.buf) \in Nat
  BY DEF Decoder
<1>2. \A i \in 1..Len(d.buf) : e.buf[i] = d.buf[i]
  BY <1>1, ConcatProperties
<1>3. \A i \in 1..d.header : e.buf[i] = d.buf[i]
  <2>1. d.header \in Nat
    BY DEF Decoder
  <2> QED BY <1>1, <1>2, <2>1
<1>4. /\ d.opcode \in {1, 2, 5, 6, 8} => 3 \in 1..d.header
      /\ d.opcode = 7 => 2 \in 1..d.header
      /\ d.opcode = 9 => 4 \in 1..d.header
  BY DEF _loqui_get_header_size, Hello, HelloAck, Ping, Pong, Request,
         Response, Push, GoAway, Error
<1>5. /\ d.opcode \in {1, 2, 5, 6, 8} => e.buf[3] = d.buf[3]
      /\ d.opcode = 7 => e.buf[2] = d.buf[2]
      /\ d.opcode = 9 => e.buf[4] = d.buf[4]
  BY <1>3, <1>4
<1> USE DEF Hello, HelloAck, Ping, Pong, Request, Response, Push, GoAway, Error
<1>6. CASE d.opcode \in {1, 2, 5, 6, 8}
  BY <1>5, <1>6 DEF loqui_get_data_payload_size
<1>7. CASE d.opcode = 7
  BY <1>5, <1>7 DEF loqui_get_data_payload_size
<1>8. CASE d.opcode = 9
  BY <1>5, <1>8 DEF loqui_get_data_payload_size
<1>9. CASE d.opcode \in {3, 4}
  BY <1>9, SMTT(30) DEF loqui_get_data_payload_size
<1> QED BY <1>1, <1>6, <1>7, <1>8, <1>9

\* A write to a decode buffer adds the bytes and never overruns.
LEMMA WriteToDecoder ==
  ASSUME NEW d \in Decoder, NEW bytes \in Seq(Nat)
  PROVE  LET e == loqui_buffer_write(d, bytes) IN
         /\ e \in Decoder
         /\ e.buf = d.buf \o bytes /\ Len(e.buf) = Len(d.buf) + Len(bytes)
         /\ e.opcode = d.opcode /\ e.header = d.header
         /\ e.remaining = d.remaining /\ e.complete = d.complete
         /\ d.alloc <= e.alloc /\ Len(e.buf) <= e.alloc
<1> DEFINE e == loqui_buffer_write(d, bytes)
           n == Len(d.buf) + Len(bytes)
           a == IF n > d.alloc THEN n * 2 ELSE d.alloc
<1>1. d.buf \in Seq(Nat) /\ d.alloc \in Nat
  BY DEF Decoder
<1>2. d.buf \o bytes \in Seq(Nat) /\ Len(d.buf \o bytes) = n
  BY <1>1, ConcatProperties
<1>3. n \in Nat
  BY <1>1
<1>4. a \in Nat /\ n <= a /\ d.alloc <= a
  BY <1>1, <1>3
<1>5. e = [d EXCEPT !.buf = d.buf \o bytes, !.alloc = a]
  BY DEF loqui_buffer_write
<1> HIDE DEF a, n
<1>6. e \in Decoder
  BY <1>2, <1>4, <1>5, Zenon DEF Decoder
<1>7. /\ e.buf = d.buf \o bytes /\ e.alloc = a
      /\ e.opcode = d.opcode /\ e.header = d.header
      /\ e.remaining = d.remaining /\ e.complete = d.complete
  BY <1>5 DEF Decoder
<1> QED BY <1>2, <1>3, <1>4, <1>6, <1>7 DEF n

\* A decoder whose header is complete and whose payload is awaited.
Awaits(d) ==
  /\ d \in Decoder
  /\ d.opcode # 0 /\ ~d.complete
  /\ d.header = _loqui_get_header_size(d.opcode)
  /\ Len(d.buf) >= d.header
  /\ Len(d.buf) + d.remaining = d.header + loqui_get_data_payload_size(d)
  /\ Len(d.buf) + d.remaining <= d.alloc

\* What one round of the decoder may leave behind.
ResultOK(r) ==
  /\ r.status \in {"complete", "needs_more", "error"}
  /\ r.dec \in Decoder
  /\ r.consumed \in Nat
  /\ r.status # "error" => DOK(r.dec)
  /\ r.status = "complete" => r.dec.complete

\* Reading payload bytes (decoder.h:159) keeps the decoder in bounds.
LEMMA ReadPayloadOK ==
  ASSUME NEW d, Awaits(d), NEW data \in Seq(Nat), NEW before \in Nat
  PROVE  ResultOK(ReadPayload(d, data, before))
<1> DEFINE n == Min({d.remaining, Len(data)})
           c == loqui_buffer_write(d, SubSeq(data, 1, n))
           e == [c EXCEPT !.remaining = @ - n]
           g == [e EXCEPT !.complete = TRUE]
<1>1. d \in Decoder /\ d.remaining \in Nat /\ Len(data) \in Nat
      /\ d.buf \in Seq(Nat) /\ Len(d.buf) \in Nat /\ d.header \in Nat
      /\ d.alloc \in Nat
  BY DEF Awaits, Decoder
<1>2. n \in Nat /\ n <= d.remaining /\ n <= Len(data)
  BY <1>1, MinOfTwo
<1> HIDE DEF n
<1>3. SubSeq(data, 1, n) \in Seq(Nat) /\ Len(SubSeq(data, 1, n)) = n
  BY <1>2, HeadPart
<1>4. /\ c \in Decoder
      /\ c.buf = d.buf \o SubSeq(data, 1, n) /\ Len(c.buf) = Len(d.buf) + n
      /\ c.opcode = d.opcode /\ c.header = d.header
      /\ c.remaining = d.remaining /\ c.complete = d.complete
      /\ d.alloc <= c.alloc
  BY <1>1, <1>3, WriteToDecoder, ZenonT(40)
<1> HIDE DEF c
<1>5. d.remaining - n \in Nat
  BY <1>1, <1>2
<1>6. e \in Decoder
  <2>1. e = [c EXCEPT !.remaining = d.remaining - n]
    BY <1>4
  <2> QED BY <1>4, <1>5, <2>1, Zenon DEF Decoder
<1>7. /\ e.buf = c.buf /\ e.alloc = c.alloc /\ e.opcode = d.opcode
      /\ e.header = d.header /\ e.complete = d.complete
      /\ e.remaining = d.remaining - n
  BY <1>4 DEF Decoder
<1>8. g \in Decoder
  BY <1>6, Zenon DEF Decoder
<1>9. /\ g.buf = c.buf /\ g.alloc = c.alloc /\ g.opcode = d.opcode
      /\ g.header = d.header /\ g.complete = TRUE
      /\ g.remaining = d.remaining - n
  BY <1>6, <1>7 DEF Decoder
<1> HIDE DEF e, g
<1>10. /\ loqui_get_data_payload_size(e) = loqui_get_data_payload_size(d)
       /\ loqui_get_data_payload_size(g) = loqui_get_data_payload_size(d)
  <2>1. d.opcode # 0 /\ d.header = _loqui_get_header_size(d.opcode)
        /\ Len(d.buf) >= d.header
    BY DEF Awaits
  <2> QED BY <1>1, <1>3, <1>4, <1>6, <1>7, <1>8, <1>9, <2>1, PayloadSizeStable
<1>11. c.alloc \in Nat
  BY <1>4 DEF Decoder
<1>12. loqui_get_data_payload_size(d) \in Nat
  BY PayloadSizeType DEF Awaits
<1>13. /\ d.opcode # 0 /\ ~d.complete
       /\ d.header = _loqui_get_header_size(d.opcode)
       /\ Len(d.buf) >= d.header
       /\ Len(d.buf) + d.remaining = d.header + loqui_get_data_payload_size(d)
       /\ Len(d.buf) + d.remaining <= d.alloc
  BY DEF Awaits
<1>14. /\ Len(c.buf) + (d.remaining - n) <= c.alloc
       /\ Len(c.buf) >= d.header
       /\ Len(c.buf) + (d.remaining - n)
            = d.header + loqui_get_data_payload_size(d)
  <2>1. Len(c.buf) = Len(d.buf) + n /\ d.alloc <= c.alloc
    BY <1>4
  <2>2. Len(c.buf) + (d.remaining - n) = Len(d.buf) + d.remaining
    BY <1>1, <1>2, <2>1
  <2>3. Len(d.buf) + n >= d.header
    BY <1>1, <1>2, <1>13
  <2>4. Len(d.buf) + d.remaining <= c.alloc
    BY <1>1, <1>11, <1>13, <2>1
  <2> QED BY <1>13, <2>1, <2>2, <2>3, <2>4
<1>15. CASE e.remaining = 0
  <2>1. ReadPayload(d, data, before) = Result("complete", g, before + n)
    BY <1>15 DEF ReadPayload, n, c, e, g
  <2>2. DOK(g)
    BY <1>7, <1>8, <1>9, <1>10, <1>13, <1>14, <1>15 DEF DOK
  <2> QED BY <1>2, <1>8, <1>9, <2>1, <2>2 DEF ResultOK, Result
<1>16. CASE e.remaining # 0
  <2>1. ReadPayload(d, data, before) = Result("needs_more", e, before + n)
    BY <1>16 DEF ReadPayload, n, c, e, g
  <2>2. DOK(e)
    BY <1>5, <1>6, <1>7, <1>10, <1>13, <1>14, <1>16 DEF DOK
  <2> QED BY <1>2, <1>6, <2>1, <2>2 DEF ResultOK, Result
<1> QED BY <1>15, <1>16

\* So does finishing the header and going on with the payload (decoder.h:117).
LEMMA ReadAppendOK ==
  ASSUME NEW d, DOK(d), d.opcode # 0, ~d.complete,
         NEW data \in Seq(Nat), data # <<>>, NEW before \in Nat
  PROVE  ResultOK(loqui_read_append_data(d, data, before))
<1> DEFINE n == Min({d.header - Len(d.buf), Len(data)})
           e == loqui_buffer_write(d, SubSeq(data, 1, n))
           size == loqui_get_data_payload_size(e)
           g == [e EXCEPT !.remaining = size]
           a == IF e.header + size > e.alloc THEN e.header + size ELSE e.alloc
           h == [loqui_buffer_ensure_size(e, e.header + size)
                   EXCEPT !.remaining = size]
           rest == SubSeq(data, n + 1, Len(data))
<1>1. d \in Decoder /\ d.remaining \in Nat /\ Len(data) \in Nat
      /\ d.buf \in Seq(Nat) /\ Len(d.buf) \in Nat /\ d.header \in Nat
      /\ d.alloc \in Nat /\ d.opcode \in 0..9 /\ Len(data) > 0
  BY DEF DOK, Decoder
<1>2. d.header = _loqui_get_header_size(d.opcode)
  BY DEF DOK
<1>3. CASE Len(d.buf) >= d.header
  <2>1. d.remaining > 0
    BY <1>1, <1>3 DEF DOK
  <2>2. Awaits(d)
    BY <1>1, <1>2, <1>3, <2>1 DEF DOK, Awaits
  <2>3. loqui_read_append_data(d, data, before) = ReadPayload(d, data, before)
    BY <1>3 DEF loqui_read_append_data
  <2> QED BY <2>2, <2>3, ReadPayloadOK
<1>4. CASE ~(Len(d.buf) >= d.header)
  <2>1. d.header - Len(d.buf) \in Nat /\ d.header - Len(d.buf) > 0
    BY <1>1, <1>4
  <2>2. /\ n \in Nat /\ n <= d.header - Len(d.buf) /\ n <= Len(data)
        /\ n > 0
    BY <1>1, <2>1, MinOfTwo
  <2>3. d.remaining = 0
    BY <1>1, <1>4 DEF DOK
  <2> HIDE DEF n
  <2>4. SubSeq(data, 1, n) \in Seq(Nat) /\ Len(SubSeq(data, 1, n)) = n
    BY <2>2, HeadPart
  <2>5. /\ e \in Decoder
        /\ Len(e.buf) = Len(d.buf) + n
        /\ e.opcode = d.opcode /\ e.header = d.header
        /\ e.remaining = 0 /\ e.complete = d.complete
        /\ Len(e.buf) <= e.alloc
    <3>1. /\ e \in Decoder
          /\ Len(e.buf) = Len(d.buf) + Len(SubSeq(data, 1, n))
          /\ e.opcode = d.opcode /\ e.header = d.header
          /\ e.remaining = d.remaining /\ e.complete = d.complete
          /\ Len(e.buf) <= e.alloc
      BY <1>1, <2>4, WriteToDecoder
    <3> QED BY <2>3, <2>4, <3>1
  <2> HIDE DEF e
  <2>6. e.alloc \in Nat /\ Len(e.buf) \in Nat
    BY <2>5 DEF Decoder
  <2>7. before + n \in Nat
    BY <2>2
  <2>8. CASE Len(e.buf) < e.header
    <3>1. loqui_read_append_data(d, data, before)
            = Result("needs_more", e, before + n)
      BY <1>4, <2>8 DEF loqui_read_append_data, n, e
    <3>2. Len(e.buf) + e.remaining <= e.alloc
      BY <2>5, <2>6
    <3>3. DOK(e)
      BY <1>2, <2>5, <2>6, <2>8, <3>2 DEF DOK
    <3> QED BY <2>5, <2>7, <3>1, <3>3 DEF ResultOK, Result
  <2>9. CASE ~(Len(e.buf) < e.header)
    <3>1. Len(e.buf) = e.header
      BY <1>1, <2>1, <2>2, <2>5, <2>6, <2>9, SMTT(30)
    <3>2. size \in Nat
      BY <1>2, <2>5, <2>6, <3>1, PayloadSizeType
    <3> HIDE DEF size
    <3>3. CASE size > DataSizeMax
      <4>1. loqui_read_append_data(d, data, before)
              = Result("error", g, before + n)
        BY <1>4, <2>9, <3>3 DEF loqui_read_append_data, n, e, size
      <4>2. g \in Decoder
        BY <2>5, <3>2, Zenon DEF Decoder
      <4> QED BY <2>7, <4>1, <4>2 DEF ResultOK, Result
    <3>4. CASE ~(size > DataSizeMax)
      <4>1. loqui_read_append_data(d, data, before)
              = ReadPayload(h, rest, before + n)
        BY <1>4, <2>9, <3>4 DEF loqui_read_append_data, n, e, size
      <4>2. rest \in Seq(Nat)
        BY <2>2, TailPart
      <4>3. a \in Nat /\ e.header + size <= a
        BY <1>1, <2>5, <2>6, <3>2
      <4>4. h = [e EXCEPT !.alloc = a, !.remaining = size]
        BY <2>5 DEF loqui_buffer_ensure_size, Decoder
      <4> HIDE DEF a, h
      <4>5. h \in Decoder
        BY <2>5, <3>2, <4>3, <4>4, Zenon DEF Decoder
      <4>6. /\ h.buf = e.buf /\ h.alloc = a /\ h.opcode = d.opcode
            /\ h.header = d.header /\ h.complete = d.complete
            /\ h.remaining = size
        BY <2>5, <4>4 DEF Decoder
      <4>7. loqui_get_data_payload_size(h) = size
        BY <2>5, <4>6 DEF size, loqui_get_data_payload_size
      <4>8. Awaits(h)
        BY <1>1, <1>2, <2>5, <2>6, <3>1, <3>2, <4>3, <4>5, <4>6, <4>7
        DEF Awaits
      <4> QED BY <2>7, <4>1, <4>2, <4>8, ReadPayloadOK
    <3> QED BY <3>3, <3>4
  <2> QED BY <2>8, <2>9
<1> QED BY <1>3, <1>4

\* So does starting a frame (decoder.h:186).
LEMMA ReadNewOK ==
  ASSUME NEW d, DOK(d), d.opcode = 0,
         NEW data \in Seq(Nat), data # <<>>
  PROVE  ResultOK(loqui_read_new_data(d, data))
<1> DEFINE op == data[1]
           header == _loqui_get_header_size(op)
           e == [d EXCEPT !.buf = <<>>, !.remaining = 0,
                          !.opcode = op, !.header = header]
<1>1. d \in Decoder /\ op \in Nat /\ ~d.complete /\ d.alloc \in Nat
  BY DEF DOK, Decoder
<1>2. header \in Nat /\ (header # 0 => op \in 0..9 /\ op # 0)
  BY <1>1, HeaderSizes, SMTT(30) DEF Opcode
<1> HIDE DEF header, op
<1>3. CASE header = 0
  <2>1. loqui_read_new_data(d, data) = Result("error", d, 0)
    BY <1>3 DEF loqui_read_new_data, header, op
  <2> QED BY <1>1, <2>1 DEF ResultOK, Result
<1>4. CASE header # 0
  <2>1. <<>> \in Seq(Nat) /\ 0 \in Nat /\ op \in 0..9 /\ op # 0
    BY <1>2, <1>4
  <2>2. e \in Decoder
    BY <1>1, <1>2, <2>1, Zenon DEF Decoder
  <2>3. /\ e.buf = <<>> /\ e.remaining = 0 /\ e.opcode = op
        /\ e.header = header /\ e.complete = d.complete /\ e.alloc = d.alloc
    BY <1>1 DEF Decoder
  <2> HIDE DEF e
  <2>4. Len(e.buf) = 0 /\ e.alloc \in Nat
    BY <1>1, <2>3
  <2>5. DOK(e)
    BY <1>1, <1>2, <1>4, <2>1, <2>2, <2>3, <2>4 DEF DOK, header
  <2>6. CASE Len(data) > 1
    <3>1. loqui_read_new_data(d, data) = loqui_read_append_data(e, Tail(data), 1)
      BY <1>4, <2>6 DEF loqui_read_new_data, header, op, e
    <3>2. Tail(data) \in Seq(Nat) /\ Tail(data) # <<>>
      <4>1. Tail(data) \in Seq(Nat) /\ Len(Tail(data)) = Len(data) - 1
        BY HeadTailProperties
      <4>2. Len(Tail(data)) # 0
        <5>1. Len(data) \in Nat /\ Len(data) - 1 # 0
          BY <2>6
        <5> QED BY <4>1, <5>1, Zenon
      <4>3. Len(<<>>) = 0
        BY EmptySeq
      <4>4. Tail(data) # <<>>
        BY <4>2, <4>3, Zenon
      <4> QED BY <4>1, <4>4
    <3>3. e.opcode # 0 /\ ~e.complete /\ 1 \in Nat
      <4>1. ~e.complete
        BY <1>1, <2>3, Zenon
      <4> QED BY <2>1, <2>3, <4>1
    <3>4. ResultOK(loqui_read_append_data(e, Tail(data), 1))
      BY <2>5, <3>2, <3>3, ReadAppendOK
    <3> QED BY <3>1, <3>4
  <2>7. CASE ~(Len(data) > 1)
    <3>1. loqui_read_new_data(d, data) = Result("needs_more", e, 1)
      BY <1>4, <2>7 DEF loqui_read_new_data, header, op, e
    <3> QED BY <2>2, <2>5, <3>1 DEF ResultOK, Result
  <2> QED BY <2>6, <2>7
<1> QED BY <1>3, <1>4

\* One round of the decoder, from any state in bounds and for any bytes.
LEMMA ReadDataOK ==
  ASSUME NEW d, DOK(d), NEW data \in Seq(Nat), data # <<>>
  PROVE  ResultOK(loqui_decoder_read_data(d, data))
<1>1. CASE d.complete
  <2>1. loqui_decoder_read_data(d, data) = Result("complete", d, 0)
    BY <1>1 DEF loqui_decoder_read_data
  <2> QED BY <1>1, <2>1 DEF ResultOK, Result, DOK
<1>2. CASE ~d.complete /\ d.opcode = 0
  BY <1>2, ReadNewOK DEF loqui_decoder_read_data
<1>3. CASE ~d.complete /\ d.opcode # 0
  BY <1>3, ReadAppendOK DEF loqui_decoder_read_data
<1> QED BY <1>1, <1>2, <1>3

\* The event of a complete frame is a frame.
LEMMA EventType ==
  ASSUME NEW d, DOK(d), d.complete
  PROVE  Event(d) \in Frame
<1> DEFINE size == loqui_get_data_payload_size(d)
<1>1. d \in Decoder /\ d.buf \in Seq(Nat) /\ d.opcode \in 0..9
      /\ d.header \in Nat /\ Len(d.buf) \in Nat
  BY DEF DOK, Decoder
<1>2. /\ d.opcode # 0 /\ d.header = _loqui_get_header_size(d.opcode)
      /\ d.remaining = 0 /\ Len(d.buf) >= d.header
      /\ Len(d.buf) + d.remaining = d.header + size
  BY DEF DOK
<1>3. size \in Nat
  BY <1>1, <1>2, PayloadSizeType
<1> HIDE DEF size
<1>4. Len(d.buf) = d.header + size
  BY <1>1, <1>2, <1>3
<1>5. SubSeq(d.buf, d.header + 1, d.header + size) \in Seq(Nat)
  BY <1>1, <1>2, <1>4, TailPart
<1>6. \A i \in 1..d.header : d.buf[i] \in Nat
  BY <1>1, <1>2, ElementOfSeq
<1>7. d.header >= 2 /\ (d.opcode = 9 => d.header = 4)
  BY <1>1, <1>2 DEF _loqui_get_header_size, Hello, HelloAck, Ping, Pong,
     Request, Response, Push, GoAway, Error
<1>8. d.buf[1] \in Nat /\ d.buf[2] \in Nat /\ (d.opcode = 9 => d.buf[3] \in Nat)
  BY <1>1, <1>6, <1>7
<1>9. loqui_get_seq(d) \in Nat
  BY <1>8 DEF loqui_get_seq
<1>10. loqui_get_code(d) \in Nat
  BY <1>8 DEF loqui_get_code, Error
<1>11. d.opcode \in Opcode
  BY <1>1, <1>2 DEF Opcode
<1> QED BY <1>5, <1>8, <1>9, <1>10, <1>11 DEF Event, Frame, size

-----------------------------------------------------------------------------
(* The invariant *)

\* The inductive invariant: the types, and the bounds of the buffers.
IInv == TypeOK /\ \A s \in Side : WOK(w[s]) /\ DOK(dec[s])

\* It holds when the handlers are created.
LEMMA InitIInv == Init => IInv
<1> SUFFICES ASSUME Init PROVE IInv
  OBVIOUS
<1> USE SizesAssumption DEF Init
<1>1. FreshBuffer \in Buffer /\ WOK(FreshBuffer)
  BY DEF FreshBuffer, Buffer, WOK
<1>2. FreshDecoder \in Decoder
  BY DEF FreshDecoder, Decoder
<1>3. DOK(FreshDecoder)
  BY <1>2 DEF FreshDecoder, DOK
<1>4. script \in [Side -> Seq(Frame)]
  BY ScriptsAssumption
<1>5. seq \in [Side -> 0..(SeqMax - 1)]
  BY DEF Side
<1>6. TypeOK
  BY <1>1, <1>2, <1>4, <1>5 DEF TypeOK
<1> QED BY <1>1, <1>3, <1>6 DEF IInv

\* Enqueueing a frame keeps it: only the write buffer of the sender grows.
LEMMA SendKeeps ==
  ASSUME IInv, NEW s \in Side, Send(s)
  PROVE  IInv'
<1> DEFINE n == next_seq(seq[s])
           f == IF TakesSeq(Head(script[s]))
                THEN [Head(script[s]) EXCEPT !.seq = n] ELSE Head(script[s])
<1>1. seq[s] \in 0..(SeqMax - 1) /\ SeqMax \in Nat \ {0}
  BY SizesAssumption DEF IInv, TypeOK
<1>2. n \in 0..(SeqMax - 1) /\ n \in Nat
  BY <1>1 DEF next_seq
<1> HIDE DEF n
<1>3. Head(script[s]) \in Frame /\ Tail(script[s]) \in Seq(Frame)
  BY HeadTailProperties DEF IInv, TypeOK, Send
<1>4. f \in Frame
  <2>1. [Head(script[s]) EXCEPT !.seq = n] \in Frame
    BY <1>2, <1>3, Zenon DEF Frame
  <2> QED BY <1>3, <2>1
<1> HIDE DEF f
<1>5. /\ seq' = [seq EXCEPT ![s] = IF TakesSeq(f) THEN n ELSE @]
      /\ w' = [w EXCEPT ![s] = loqui_append(@, f)]
      /\ sent' = [sent EXCEPT ![s] = Append(@, f)]
      /\ script' = [script EXCEPT ![s] = Tail(@)]
      /\ UNCHANGED <<wire, dec, chunk, events, got, failed>>
  BY DEF Send, f, n
<1>6. WOK(loqui_append(w[s], f))
  BY <1>4, AppendKeepsBuffer DEF IInv
<1>7. loqui_append(w[s], f) \in Buffer
  BY <1>6 DEF WOK
<1>8. w' \in [Side -> Buffer] /\ \A t \in Side : WOK(w'[t])
  BY <1>5, <1>6, <1>7 DEF IInv, TypeOK
<1>9. Append(sent[s], f) \in Seq(Frame)
  BY <1>4, AppendProperties DEF IInv, TypeOK
<1>10. sent' \in [Side -> Seq(Frame)] /\ script' \in [Side -> Seq(Frame)]
  BY <1>3, <1>5, <1>9 DEF IInv, TypeOK
<1>11. seq' \in [Side -> 0..(SeqMax - 1)]
  BY <1>2, <1>5 DEF IInv, TypeOK
<1> QED BY <1>5, <1>8, <1>10, <1>11 DEF IInv, TypeOK

\* Sending bytes keeps it, compaction included.
LEMMA WriteBytesKeeps ==
  ASSUME IInv, NEW s \in Side, WriteBytes(s)
  PROVE  IInv'
<1> DEFINE left == Len(w[s].buf) - w[s].pos
<1>1. WOK(w[s]) /\ w[s].buf \in Seq(Nat) /\ w[s].pos \in Nat
      /\ Len(w[s].buf) \in Nat /\ w[s].pos <= Len(w[s].buf)
  BY DEF IInv, WOK, Buffer
<1>2. left \in Nat
  BY <1>1
<1>3. Min({OutMax, left}) \in Nat /\ Min({OutMax, left}) <= left
  BY <1>2, SizesAssumption, MinOfTwo
<1>4. PICK k \in 1..Min({OutMax, left}) :
        /\ wire' = [wire EXCEPT ![s] =
                      @ \o SubSeq(w[s].buf, w[s].pos + 1, w[s].pos + k)]
        /\ \E b \in _reset_or_compact_write_buf([w[s] EXCEPT !.pos = @ + k]) :
             w' = [w EXCEPT ![s] = b]
  BY DEF WriteBytes
<1>5. k \in Nat /\ k <= left
  BY <1>2, <1>3, <1>4
<1>6. PICK b \in _reset_or_compact_write_buf([w[s] EXCEPT !.pos = @ + k]) :
        w' = [w EXCEPT ![s] = b]
  BY <1>4
<1>7. WOK(b)
  BY <1>1, <1>5, <1>6, ConsumeKeepsBuffer
<1>8. b \in Buffer
  BY <1>7 DEF WOK
<1>9. w' \in [Side -> Buffer] /\ \A t \in Side : WOK(w'[t])
  BY <1>6, <1>7, <1>8 DEF IInv, TypeOK
<1>10. SubSeq(w[s].buf, w[s].pos + 1, w[s].pos + k) \in Seq(Nat)
  <2>1. w[s].pos + k <= Len(w[s].buf)
    BY <1>1, <1>5
  <2> QED BY <1>1, <1>5, <2>1, MiddlePart
<1>11. wire' \in [Side -> Seq(Nat)]
  <2>1. wire[s] \o SubSeq(w[s].buf, w[s].pos + 1, w[s].pos + k) \in Seq(Nat)
    BY <1>10, ConcatProperties DEF IInv, TypeOK
  <2> QED BY <1>4, <2>1 DEF IInv, TypeOK
<1>12. UNCHANGED <<script, seq, dec, chunk, events, got, sent, failed>>
  BY DEF WriteBytes
<1> QED BY <1>9, <1>11, <1>12 DEF IInv, TypeOK

\* Handing a chunk to on_bytes_received touches no buffer.
LEMMA ReceiveKeeps ==
  ASSUME IInv, NEW s \in Side, Receive(s)
  PROVE  IInv'
<1>1. Peer(s) \in Side
  BY DEF Side, Peer
<1>2. wire[Peer(s)] \in Seq(Nat)
  BY <1>1 DEF IInv, TypeOK
<1>3. PICK n \in 1..Len(wire[Peer(s)]) :
        /\ chunk' = [chunk EXCEPT ![s] = SubSeq(wire[Peer(s)], 1, n)]
        /\ wire' = [wire EXCEPT ![Peer(s)] = SubSeq(@, n + 1, Len(@))]
  BY DEF Receive
<1>4. n \in Nat /\ n <= Len(wire[Peer(s)])
  BY <1>2, <1>3
<1>5. /\ SubSeq(wire[Peer(s)], 1, n) \in Seq(Nat)
      /\ SubSeq(wire[Peer(s)], n + 1, Len(wire[Peer(s)])) \in Seq(Nat)
  BY <1>2, <1>4, HeadPart, TailPart
<1>6. chunk' \in [Side -> Seq(Nat)] /\ wire' \in [Side -> Seq(Nat)]
  BY <1>1, <1>3, <1>5 DEF IInv, TypeOK
<1>7. UNCHANGED <<script, seq, w, dec, events, got, sent, failed>>
  BY DEF Receive
<1> QED BY <1>6, <1>7 DEF IInv, TypeOK

\* A call that raises leaves a decoder that is in bounds.
LEMMA RaiseKeeps ==
  ASSUME IInv, NEW s \in Side, NEW d, DOK(d), Raise(s, d)
  PROVE  IInv'
<1>1. d \in Decoder
  BY DEF DOK
<1>2. dec' \in [Side -> Decoder] /\ \A t \in Side : DOK(dec'[t])
  BY <1>1 DEF IInv, TypeOK, Raise
<1>3. chunk' \in [Side -> Seq(Nat)] /\ events' \in [Side -> Seq(Frame)]
  BY DEF IInv, TypeOK, Raise
<1>4. failed' \in [Side -> BOOLEAN]
  BY Zenon DEF IInv, TypeOK, Raise
<1>5. UNCHANGED <<script, seq, w, wire, got, sent>>
  BY DEF Raise
<1> QED BY <1>2, <1>3, <1>4, <1>5 DEF IInv, TypeOK

\* The bookkeeping of on_bytes_received keeps the types.
LEMMA ContinueKeeps ==
  ASSUME IInv, NEW s \in Side, NEW rest \in Seq(Nat), NEW list \in Seq(Frame),
         Continue(s, rest, list)
  PROVE  /\ chunk' \in [Side -> Seq(Nat)]
         /\ events' \in [Side -> Seq(Frame)]
         /\ got' \in [Side -> Seq(Frame)]
<1>1. got[s] \o list \in Seq(Frame)
  BY ConcatProperties DEF IInv, TypeOK
<1>2. <<>> \in Seq(Frame)
  OBVIOUS
<1> QED BY <1>1, <1>2 DEF IInv, TypeOK, Continue

\* The part of the data behind what a round has consumed.
LEMMA RestType ==
  ASSUME NEW t \in Seq(Nat), NEW k \in Nat
  PROVE  SubSeq(t, k + 1, Len(t)) \in Seq(Nat)
<1>1. \A i \in (k + 1)..Len(t) : t[i] \in Nat
  BY ElementOfSeq
<1>2. Len(t) \in Nat /\ k + 1 \in Int
  OBVIOUS
<1> QED BY <1>1, <1>2, SubSeqProperties

\* One round of the decoding loop keeps it, for each of its four outcomes.
LEMMA DecodeKeeps ==
  ASSUME IInv, NEW s \in Side, Decode(s)
  PROVE  IInv'
<1> DEFINE r == loqui_decoder_read_data(dec[s], chunk[s])
           f == Event(r.dec)
<1>1. DOK(dec[s]) /\ chunk[s] \in Seq(Nat) /\ events[s] \in Seq(Frame)
  BY DEF IInv, TypeOK
<1>2. chunk[s] # <<>>
  BY DEF Decode, DecodeError, DecodeNeedsMore, DecodeComplete, DecodeUnpackable
<1>3. ResultOK(r)
  BY <1>1, <1>2, ReadDataOK
<1> HIDE DEF r
<1>4. CASE DecodeError(s)
  <2>1. Raise(s, _reset_decode_buf(r.dec))
    BY <1>4 DEF DecodeError, r
  <2>2. DOK(_reset_decode_buf(r.dec))
    BY <1>3, ResetKeepsDecoder DEF ResultOK
  <2> QED BY <2>1, <2>2, RaiseKeeps
<1>5. CASE DecodeNeedsMore(s)
  <2>1. /\ r.status = "needs_more"
        /\ dec' = [dec EXCEPT ![s] = r.dec]
        /\ Continue(s, <<>>, events[s])
        /\ UNCHANGED <<script, seq, w, wire, sent, failed>>
    BY <1>5 DEF DecodeNeedsMore, r
  <2>2. DOK(r.dec) /\ r.dec \in Decoder
    BY <1>3, <2>1 DEF ResultOK
  <2>3. dec' \in [Side -> Decoder] /\ \A t \in Side : DOK(dec'[t])
    BY <2>1, <2>2 DEF IInv, TypeOK
  <2>4. /\ chunk' \in [Side -> Seq(Nat)]
        /\ events' \in [Side -> Seq(Frame)]
        /\ got' \in [Side -> Seq(Frame)]
    <3>1. <<>> \in Seq(Nat)
      OBVIOUS
    <3> QED BY <1>1, <2>1, <3>1, ContinueKeeps
  <2> QED BY <2>1, <2>3, <2>4 DEF IInv, TypeOK
<1>6. CASE DecodeComplete(s)
  <2>1. /\ r.status = "complete"
        /\ IF f.op = Ping
           THEN /\ w' = [w EXCEPT ![s] = loqui_append(@, PongFor(f))]
                /\ sent' = [sent EXCEPT ![s] = Append(@, PongFor(f))]
           ELSE UNCHANGED <<w, sent>>
        /\ dec' = [dec EXCEPT ![s] = _reset_decode_buf(r.dec)]
        /\ Continue(s, SubSeq(chunk[s], r.consumed + 1, Len(chunk[s])),
                    Append(events[s], f))
        /\ UNCHANGED <<script, seq, wire, failed>>
    BY <1>6 DEF DecodeComplete, r
  <2>2. DOK(r.dec) /\ r.dec.complete /\ r.dec \in Decoder /\ r.consumed \in Nat
    BY <1>3, <2>1 DEF ResultOK
  <2>3. f \in Frame
    BY <2>2, EventType
  <2> HIDE DEF f
  <2>4. PongFor(f) \in Frame
    BY <2>3, SMTT(30) DEF PongFor, Frame, Opcode, Pong
  <2>5. DOK(_reset_decode_buf(r.dec))
    BY <2>2, ResetKeepsDecoder
  <2>6. _reset_decode_buf(r.dec) \in Decoder
    BY <2>5 DEF DOK
  <2>7. dec' \in [Side -> Decoder] /\ \A t \in Side : DOK(dec'[t])
    BY <2>1, <2>5, <2>6 DEF IInv, TypeOK
  <2>8. /\ chunk' \in [Side -> Seq(Nat)]
        /\ events' \in [Side -> Seq(Frame)]
        /\ got' \in [Side -> Seq(Frame)]
    <3>1. SubSeq(chunk[s], r.consumed + 1, Len(chunk[s])) \in Seq(Nat)
      BY <1>1, <2>2, RestType
    <3>2. Append(events[s], f) \in Seq(Frame)
      BY <1>1, <2>3, AppendProperties
    <3> QED BY <2>1, <3>1, <3>2, ContinueKeeps
  <2>9. /\ w' \in [Side -> Buffer] /\ \A t \in Side : WOK(w'[t])
        /\ sent' \in [Side -> Seq(Frame)]
    <3>1. CASE f.op = Ping
      <4>1. WOK(loqui_append(w[s], PongFor(f)))
        BY <2>4, AppendKeepsBuffer DEF IInv
      <4>2. loqui_append(w[s], PongFor(f)) \in Buffer
        BY <4>1 DEF WOK
      <4>3. Append(sent[s], PongFor(f)) \in Seq(Frame)
        BY <2>4, AppendProperties DEF IInv, TypeOK
      <4>4. /\ w' = [w EXCEPT ![s] = loqui_append(@, PongFor(f))]
            /\ sent' = [sent EXCEPT ![s] = Append(@, PongFor(f))]
        BY <2>1, <3>1
      <4> QED BY <4>1, <4>2, <4>3, <4>4 DEF IInv, TypeOK
    <3>2. CASE f.op # Ping
      <4>1. w' = w /\ sent' = sent
        BY <2>1, <3>2
      <4> QED BY <4>1 DEF IInv, TypeOK
    <3> QED BY <3>1, <3>2
  <2> QED BY <2>1, <2>7, <2>8, <2>9 DEF IInv, TypeOK
<1>7. CASE DecodeUnpackable(s)
  <2>1. r.status = "complete" /\ Raise(s, r.dec)
    BY <1>7 DEF DecodeUnpackable, r
  <2>2. DOK(r.dec)
    BY <1>3, <2>1 DEF ResultOK
  <2> QED BY <2>1, <2>2, RaiseKeeps
<1> QED BY <1>4, <1>5, <1>6, <1>7 DEF Decode

\* So does a step that changes nothing.
LEMMA StutterKeeps == IInv /\ UNCHANGED vars => IInv'
BY DEF IInv, TypeOK, vars

\* Every step keeps it.
LEMMA NextKeeps == IInv /\ [Next]_vars => IInv'
<1> SUFFICES ASSUME IInv, [Next]_vars PROVE IInv'
  OBVIOUS
<1>1. ASSUME NEW s \in Side, Send(s) PROVE IInv'
  BY <1>1, SendKeeps
<1>2. ASSUME NEW s \in Side, WriteBytes(s) PROVE IInv'
  BY <1>2, WriteBytesKeeps
<1>3. ASSUME NEW s \in Side, Receive(s) PROVE IInv'
  BY <1>3, ReceiveKeeps
<1>4. ASSUME NEW s \in Side, Decode(s) PROVE IInv'
  BY <1>4, DecodeKeeps
<1>5. CASE Done
  BY <1>5, StutterKeeps DEF Done
<1>6. CASE UNCHANGED vars
  BY <1>6, StutterKeeps
<1> QED BY <1>1, <1>2, <1>3, <1>4, <1>5, <1>6 DEF Next

\* IInv is an invariant of two stream handlers that face each other.
THEOREM IInvHolds == Spec => []IInv
BY InitIInv, NextKeeps, PTL DEF Spec

\* The types of the handlers' state, for all sizes and conversations.
THEOREM TypesHold == Spec => []TypeOK
<1>1. IInv => TypeOK
  BY DEF IInv
<1> QED BY <1>1, IInvHolds, PTL

\* No write to the write buffer is out of bounds, and no compaction copies
\* between regions that overlap, for all buffer sizes and all frames.
THEOREM WriteBufferSafe == Spec => []WriteBufferInBounds
<1>1. IInv => WriteBufferInBounds
  <2> SUFFICES ASSUME IInv, NEW s \in Side
               PROVE  /\ w[s].pos <= Len(w[s].buf)
                      /\ Len(w[s].buf) <= w[s].alloc
                      /\ \A k \in 0..(Len(w[s].buf) - w[s].pos) :
                           LET b == [w[s] EXCEPT !.pos = @ + k]
                           IN  Compacts(b) => Len(b.buf) - b.pos <= b.pos
    BY DEF WriteBufferInBounds
  <2>1. WOK(w[s])
    BY DEF IInv
  <2>2. ASSUME NEW k \in 0..(Len(w[s].buf) - w[s].pos)
        PROVE  LET b == [w[s] EXCEPT !.pos = @ + k]
               IN  Compacts(b) => Len(b.buf) - b.pos <= b.pos
    <3>1. WOK([w[s] EXCEPT !.pos = @ + k])
      BY <2>1, SMTT(30) DEF WOK, Buffer
    <3> QED BY <3>1, CompactionApart
  <2> QED BY <2>1, <2>2 DEF WOK
<1> QED BY <1>1, IInvHolds, PTL

\* The decoder never reads a field that it has not received and never writes
\* past its allocation, whatever the bytes and however they are cut.
THEOREM DecoderSafe == Spec => []DecoderInBounds
<1>1. IInv => DecoderInBounds
  BY DEF IInv, DOK, DecoderInBounds
<1> QED BY <1>1, IInvHolds, PTL

-----------------------------------------------------------------------------
(* Sequences, by induction from the least counterexample *)

\* Induction up to a number.
LEMMA UpTo ==
  ASSUME NEW k \in Nat, NEW P, 0 \in P, \A n \in 0..k - 1 : n \in P => n + 1 \in P
  PROVE  0..k \subseteq P
<1> SUFFICES ASSUME ~(0..k \subseteq P) PROVE FALSE
  OBVIOUS
<1> DEFINE T == {n \in 0..k : n \notin P}
<1>1. T \subseteq Nat /\ T # {}
  OBVIOUS
<1>2. PICK x \in T : \A y \in T : ~(<<y, x>> \in OpToRel(<, Nat))
  BY <1>1, NatLessThanWellFounded, WFMin
<1>3. \A y \in T : ~(y < x)
  BY <1>1, <1>2 DEF OpToRel
<1>4. x # 0 /\ x - 1 \in 0..k - 1
  OBVIOUS
<1>5. x - 1 \in P
  BY <1>3, <1>4
<1> QED BY <1>4, <1>5

\* A sequence that is not empty has a last element.
LEMMA LastSplit ==
  ASSUME NEW S, NEW q \in Seq(S), q # <<>>
  PROVE  \E p \in Seq(S), x \in S : q = Append(p, x) /\ Len(p) + 1 = Len(q)
<1> DEFINE n == Len(q)
           p == [i \in 1..n - 1 |-> q[i]]
<1>1. n \in Nat /\ n >= 1 /\ q \in [1..n -> S]
  BY LenProperties, EmptySeq
<1>2. p \in Seq(S) /\ Len(p) = n - 1
  BY <1>1
<1>3. q[n] \in S
  BY <1>1
<1>4. q = Append(p, q[n])
  BY <1>1, <1>2, <1>3
<1>5. Len(p) + 1 = Len(q)
  BY <1>1, <1>2
<1> HIDE DEF p
<1> QED BY <1>2, <1>3, <1>4, <1>5, Zenon

\* What holds of the empty sequence and is kept by Append holds of all.
LEMMA Appends ==
  ASSUME NEW S, NEW P, <<>> \in P,
         \A q \in Seq(S), x \in S : q \in P => Append(q, x) \in P
  PROVE  Seq(S) \subseteq P
<1> SUFFICES ASSUME NEW q \in Seq(S) PROVE q \in P
  OBVIOUS
<1> DEFINE Q == {n \in Nat : \A r \in Seq(S) : Len(r) = n => r \in P}
<1>1. 0 \in Q
  BY EmptySeq
<1>2. ASSUME NEW n \in 0..Len(q) - 1, n \in Q PROVE n + 1 \in Q
  <2>1. ASSUME NEW r \in Seq(S), Len(r) = n + 1 PROVE r \in P
    <3>1. r # <<>> /\ n \in Nat
      BY <2>1
    <3>2. PICK p \in Seq(S), x \in S : r = Append(p, x) /\ Len(p) + 1 = Len(r)
      BY <3>1, LastSplit
    <3>3. Len(p) = n
      BY <2>1, <3>1, <3>2, LenProperties
    <3> QED BY <1>2, <3>2, <3>3
  <2> QED BY <2>1
<1> HIDE DEF Q
<1>3. 0..Len(q) \subseteq Q
  BY <1>1, <1>2, LenProperties, UpTo
<1>4. Len(q) \in Q
  BY <1>3, LenProperties
<1> QED BY <1>4 DEF Q

\* What FlattenSeq computes, step by step.
LEMMA FlattenRuns ==
  ASSUME NEW T, NEW q \in Seq(Seq(T)), q # <<>>
  PROVE  \E h : /\ \A i \in 1..Len(q) :
                    h[i] = IF i = 1 THEN q[i] ELSE h[i - 1] \o q[i]
               /\ FlattenSeq(q) = h[Len(q)]
<1> DEFINE Runs(h, m) == h = [i \in 1..m |-> IF i = 1 THEN q[i] ELSE h[i - 1] \o q[i]]
           P == {m \in 0..Len(q) : \E h : Runs(h, m)}
<1>0. Len(q) \in Nat /\ Len(q) # 0
  BY LenProperties, EmptySeq
<1>1. 0 \in P
  <2> DEFINE h == [i \in 1..0 |-> 0]
  <2>1. Runs(h, 0)
    OBVIOUS
  <2> HIDE DEF h, Runs
  <2> QED BY <1>0, <2>1
<1>2. ASSUME NEW m \in 0..Len(q) - 1, m \in P PROVE m + 1 \in P
  <2>1. PICK h : Runs(h, m)
    BY <1>2
  <2> DEFINE g == [i \in 1..m + 1 |->
                     IF i = m + 1 THEN (IF m = 0 THEN q[1] ELSE h[m] \o q[m + 1]) ELSE h[i]]
  <2>2. Runs(g, m + 1)
    <3>1. ASSUME NEW i \in 1..m + 1
          PROVE  g[i] = IF i = 1 THEN q[i] ELSE g[i - 1] \o q[i]
      <4>1. CASE i = m + 1
        BY <4>1
      <4>2. CASE i # m + 1
        <5>1. i \in 1..m /\ g[i] = h[i] /\ (i # 1 => g[i - 1] = h[i - 1])
          BY <4>2
        <5>2. h[i] = IF i = 1 THEN q[i] ELSE h[i - 1] \o q[i]
          BY <2>1, <5>1
        <5> QED BY <5>1, <5>2
      <4> QED BY <4>1, <4>2
    <3> QED BY <3>1
  <2> HIDE DEF g, Runs
  <2> QED BY <1>0, <2>2
<1> HIDE DEF P
<1>3. Len(q) \in P
  <2>1. 0..Len(q) \subseteq P
    BY <1>0, <1>1, <1>2, UpTo
  <2> QED BY <1>0, <2>1
<1>4. PICK h : Runs(h, Len(q))
  BY <1>3 DEF P
<1> DEFINE f == CHOOSE g : Runs(g, Len(q))
<1>5. Runs(f, Len(q))
  BY <1>4
<1>6. FlattenSeq(q) = f[Len(q)]
  BY <1>0 DEF FlattenSeq
<1> HIDE DEF f
<1>7. \A i \in 1..Len(q) : f[i] = IF i = 1 THEN q[i] ELSE f[i - 1] \o q[i]
  BY <1>5
<1> QED BY <1>6, <1>7, Zenon

\* Nothing, flattened, is nothing.
LEMMA FlattenEmpty == FlattenSeq(<<>>) = <<>>
BY DEF FlattenSeq

\* The last part comes last.
LEMMA FlattenAppend ==
  ASSUME NEW T, NEW q \in Seq(Seq(T)), NEW x \in Seq(T)
  PROVE  FlattenSeq(Append(q, x)) = FlattenSeq(q) \o x
<1> DEFINE a == Append(q, x)
           n == Len(q)
<1>1. /\ n \in Nat /\ a \in Seq(Seq(T)) /\ a # <<>> /\ Len(a) = n + 1
      /\ \A i \in 1..n : a[i] = q[i]
      /\ a[n + 1] = x
  BY LenProperties, AppendProperties
<1>2. PICK h : /\ \A i \in 1..Len(a) :
                    h[i] = IF i = 1 THEN a[i] ELSE h[i - 1] \o a[i]
               /\ FlattenSeq(a) = h[Len(a)]
  <2> HIDE DEF a
  <2> QED BY <1>1, FlattenRuns
<1> HIDE DEF a
<1>3. CASE q = <<>>
  <2>1. n = 0
    BY <1>3
  <2> HIDE DEF n
  <2>2. h[1] = a[1]
    BY <1>1, <1>2, <2>1
  <2>3. FlattenSeq(a) = x
    BY <1>1, <1>2, <2>1, <2>2
  <2>4. <<>> \o x = x
    BY ConcatEmptySeq
  <2> QED BY <1>3, <2>3, <2>4, FlattenEmpty DEF a
<1>4. CASE q # <<>>
  <2>1. PICK g : /\ \A i \in 1..n : g[i] = IF i = 1 THEN q[i] ELSE g[i - 1] \o q[i]
                 /\ FlattenSeq(q) = g[n]
    BY <1>4, FlattenRuns
  <2>2. n >= 1
    BY <1>1, <1>4, EmptySeq
  <2> HIDE DEF n
  <2> DEFINE P == {0} \cup {i \in 1..n : h[i] = g[i]}
  <2>3. ASSUME NEW i \in 0..n - 1, i \in P PROVE i + 1 \in P
    <3>1. i + 1 \in 1..n /\ i + 1 \in 1..n + 1 /\ (i + 1) - 1 = i
      BY <1>1
    <3>2. CASE i = 0
      <4>1. h[1] = a[1] /\ g[1] = q[1] /\ 1 \in 1..n
        BY <1>1, <1>2, <2>1, <2>2
      <4> QED BY <1>1, <3>2, <4>1
    <3>3. CASE i # 0
      <4>0. i + 1 # 1
        BY <3>3
      <4>1. h[i + 1] = h[i] \o a[i + 1]
        <5>1. h[i + 1] = IF i + 1 = 1 THEN a[i + 1] ELSE h[(i + 1) - 1] \o a[i + 1]
          BY <1>1, <1>2, <3>1
        <5> QED BY <3>1, <4>0, <5>1
      <4>2. g[i + 1] = g[i] \o q[i + 1]
        <5>1. g[i + 1] = IF i + 1 = 1 THEN q[i + 1] ELSE g[(i + 1) - 1] \o q[i + 1]
          BY <2>1, <3>1
        <5> QED BY <3>1, <4>0, <5>1
      <4>3. a[i + 1] = q[i + 1] /\ h[i] = g[i]
        BY <1>1, <2>3, <3>1, <3>3
      <4> QED BY <3>1, <4>1, <4>2, <4>3
    <3> QED BY <3>2, <3>3
  <2> HIDE DEF P
  <2>4. 0..n \subseteq P
    <3>1. 0 \in P
      BY DEF P
    <3> QED BY <1>1, <2>3, <3>1, UpTo
  <2>5. h[n] = g[n]
    BY <1>1, <2>2, <2>4 DEF P
  <2>6. h[n + 1] = h[n] \o a[n + 1]
    <3>1. n + 1 \in 1..Len(a) /\ n + 1 # 1 /\ (n + 1) - 1 = n
      BY <1>1, <2>2
    <3>2. h[n + 1] = IF n + 1 = 1 THEN a[n + 1] ELSE h[(n + 1) - 1] \o a[n + 1]
      BY <1>2, <3>1
    <3> QED BY <3>1, <3>2
  <2>7. FlattenSeq(a) = h[n] \o x
    BY <1>1, <1>2, <2>6
  <2> QED BY <2>1, <2>5, <2>7 DEF a
<1> QED BY <1>3, <1>4

\* What FlattenSeq makes of sequences is a sequence.
LEMMA FlattenType ==
  ASSUME NEW T, NEW q \in Seq(Seq(T))
  PROVE  FlattenSeq(q) \in Seq(T)
<1> DEFINE P == {r \in Seq(Seq(T)) : FlattenSeq(r) \in Seq(T)}
<1>1. <<>> \in P
  <2>1. <<>> \in Seq(T) /\ <<>> \in Seq(Seq(T))
    BY EmptySeq
  <2> QED BY <2>1, FlattenEmpty
<1>2. ASSUME NEW r \in Seq(Seq(T)), NEW x \in Seq(T), r \in P
      PROVE  Append(r, x) \in P
  <2>1. FlattenSeq(Append(r, x)) = FlattenSeq(r) \o x
    BY FlattenAppend
  <2>2. FlattenSeq(r) \in Seq(T)
    BY <1>2
  <2>3. FlattenSeq(r) \o x \in Seq(T)
    BY <2>2, ConcatProperties
  <2>4. Append(r, x) \in Seq(Seq(T))
    BY AppendProperties
  <2> QED BY <2>1, <2>3, <2>4
<1> HIDE DEF P
<1>3. Seq(Seq(T)) \subseteq P
  BY <1>1, <1>2, Appends
<1> QED BY <1>3 DEF P

\* An encoding is a sequence of bytes, and never empty.
LEMMA EncodingType ==
  ASSUME NEW f \in Frame
  PROVE  Encoding(f) \in Seq(Nat) /\ Encoding(f) # <<>>
<1>1. Header(f) \in Seq(Nat) /\ f.data \in Seq(Nat) /\ <<>> \in Seq(Nat)
  BY HeaderType DEF Frame
<1>2. Header(f) # <<>>
  <2>1. f.op \in Opcode
    BY DEF Frame
  <2> QED
    BY <2>1 DEF Header, Opcode, Hello, HelloAck, Ping, Pong, Request, Response,
                Push, GoAway, Error, Version
<1>3. ASSUME NEW t \in Seq(Nat) PROVE Header(f) \o t \in Seq(Nat) /\ Header(f) \o t # <<>>
  BY <1>1, <1>2, ConcatProperties, ConcatEqualIffEmpty
<1>4. CASE HasPayload(f.op)
  BY <1>1, <1>3, <1>4 DEF Encoding
<1>5. CASE ~HasPayload(f.op)
  BY <1>1, <1>3, <1>5 DEF Encoding
<1> QED BY <1>4, <1>5

\* The bytes of no frames, and of one more frame.
LEMMA BytesAppend ==
  /\ Bytes(<<>>) = <<>>
  /\ \A q \in Seq(Frame), f \in Frame :
       Bytes(q) \in Seq(Nat) /\ Bytes(Append(q, f)) = Bytes(q) \o Encoding(f)
<1>1. Bytes(<<>>) = <<>>
  <2>1. [i \in DOMAIN <<>> |-> Encoding(<<>>[i])] = <<>>
    OBVIOUS
  <2> QED BY <2>1, FlattenEmpty DEF Bytes
<1>2. ASSUME NEW q \in Seq(Frame), NEW f \in Frame
      PROVE  Bytes(q) \in Seq(Nat) /\ Bytes(Append(q, f)) = Bytes(q) \o Encoding(f)
  <2> DEFINE e == [i \in DOMAIN q |-> Encoding(q[i])]
             a == Append(q, f)
             d == [i \in DOMAIN a |-> Encoding(a[i])]
  <2>1. Len(q) \in Nat /\ DOMAIN q = 1..Len(q) /\ \A i \in 1..Len(q) : q[i] \in Frame
    BY LenProperties, ElementOfSeq
  <2>2. /\ a \in Seq(Frame) /\ Len(a) = Len(q) + 1 /\ DOMAIN a = 1..Len(q) + 1
        /\ \A i \in 1..Len(q) : a[i] = q[i]
        /\ a[Len(q) + 1] = f
    BY AppendProperties, LenProperties
  <2> HIDE DEF a
  <2>3. \A g \in Frame : Encoding(g) \in Seq(Nat)
    BY EncodingType
  <2>4. e = [i \in 1..Len(q) |-> Encoding(q[i])]
    BY <2>1
  <2>5. \A i \in 1..Len(q) : Encoding(q[i]) \in Seq(Nat)
    BY <2>1, <2>3
  <2>6. e \in Seq(Seq(Nat)) /\ Len(e) = Len(q)
    BY <2>1, <2>4, <2>5
  <2>7. d = [i \in 1..Len(q) + 1 |-> Encoding(a[i])]
    BY <2>2
  <2>8. \A i \in 1..Len(q) + 1 : Encoding(a[i]) \in Seq(Nat)
    BY <2>2, <2>3, ElementOfSeq
  <2>9. d \in Seq(Seq(Nat)) /\ Len(d) = Len(q) + 1
    BY <2>1, <2>7, <2>8
  <2>10. d = Append(e, Encoding(f))
    <3>1. /\ Append(e, Encoding(f)) \in Seq(Seq(Nat))
          /\ Len(Append(e, Encoding(f))) = Len(q) + 1
          /\ \A i \in 1..Len(q) : Append(e, Encoding(f))[i] = e[i]
          /\ Append(e, Encoding(f))[Len(q) + 1] = Encoding(f)
      <4> HIDE DEF e
      <4> QED BY <2>3, <2>6, AppendProperties
    <3>2. \A i \in 1..Len(q) : d[i] = Encoding(q[i]) /\ e[i] = Encoding(q[i])
      BY <2>1, <2>2, <2>4, <2>7
    <3>3. d[Len(q) + 1] = Encoding(f)
      BY <2>1, <2>2, <2>7
    <3> HIDE DEF d, e
    <3>4. \A i \in 1..Len(d) : d[i] = Append(e, Encoding(f))[i]
      BY <2>1, <2>9, <3>1, <3>2, <3>3
    <3> QED BY <2>9, <3>1, <3>4, SeqEqual
  <2> HIDE DEF d, e
  <2>11. FlattenSeq(d) = FlattenSeq(e) \o Encoding(f)
    BY <2>3, <2>6, <2>10, FlattenAppend
  <2>12. Bytes(q) = FlattenSeq(e) /\ Bytes(a) = FlattenSeq(d)
    BY DEF Bytes, d, e
  <2> QED BY <2>6, <2>11, <2>12, FlattenType DEF a
<1> QED BY <1>1, <1>2

\* Append is the innermost in a concatenation.
LEMMA ConcatAppend ==
  ASSUME NEW S, NEW q \in Seq(S), NEW r \in Seq(S), NEW x \in S
  PROVE  q \o Append(r, x) = Append(q \o r, x)
<1>1. <<x>> \in Seq(S)
  OBVIOUS
<1>2. Append(r, x) = r \o <<x>>
  BY AppendIsConcat
<1>3. q \o r \in Seq(S)
  BY ConcatProperties
<1>4. Append(q \o r, x) = (q \o r) \o <<x>>
  BY <1>3, AppendIsConcat
<1> QED BY <1>1, <1>2, <1>4, ConcatAssociative

\* Bytes are put together in any order.
LEMMA Assoc == \A a, b, c \in Seq(Nat) : (a \o b) \o c = a \o (b \o c)
BY ConcatAssociative, SMTT(30)

\* The bytes of two lists of frames, one after the other.
LEMMA BytesConcat ==
  ASSUME NEW q \in Seq(Frame), NEW r \in Seq(Frame)
  PROVE  Bytes(q \o r) = Bytes(q) \o Bytes(r)
<1> DEFINE P == {t \in Seq(Frame) : Bytes(q \o t) = Bytes(q) \o Bytes(t)}
<1>0. \A t \in Seq(Frame), f \in Frame :
        Bytes(t) \in Seq(Nat) /\ Bytes(Append(t, f)) = Bytes(t) \o Encoding(f)
  BY BytesAppend
<1>00. \A t \in Seq(Frame) : Bytes(t) \in Seq(Nat)
  <2>1. [op |-> 1, flags |-> 0, seq |-> 0, code |-> 0, data |-> <<>>] \in Frame
    BY DEF Frame, Opcode
  <2> QED BY <1>0, <2>1
<1>1. <<>> \in P
  <2>1. q \o <<>> = q /\ <<>> \in Seq(Frame)
    BY ConcatEmptySeq
  <2>2. Bytes(q) \o <<>> = Bytes(q)
    BY <1>00, ConcatEmptySeq
  <2>3. Bytes(<<>>) = <<>>
    BY BytesAppend
  <2> QED BY <2>1, <2>2, <2>3
<1>2. ASSUME NEW t \in Seq(Frame), NEW f \in Frame, t \in P
      PROVE  Append(t, f) \in P
  <2>1. Append(t, f) \in Seq(Frame) /\ q \o t \in Seq(Frame)
    BY AppendProperties, ConcatProperties
  <2>2. Bytes(q \o Append(t, f)) = Bytes(q \o t) \o Encoding(f)
    <3>1. q \o Append(t, f) = Append(q \o t, f)
      BY ConcatAppend
    <3>2. Bytes(Append(q \o t, f)) = Bytes(q \o t) \o Encoding(f)
      BY <1>0, <2>1
    <3> QED BY <3>1, <3>2
  <2>3. Bytes(q) \in Seq(Nat) /\ Bytes(t) \in Seq(Nat) /\ Encoding(f) \in Seq(Nat)
    BY <1>00, EncodingType
  <2>4. (Bytes(q) \o Bytes(t)) \o Encoding(f) = Bytes(q) \o (Bytes(t) \o Encoding(f))
    BY <2>3, Assoc, ZenonT(40)
  <2>5. Bytes(q \o t) = Bytes(q) \o Bytes(t)
    BY <1>2
  <2> QED BY <1>0, <2>1, <2>2, <2>4, <2>5
<1> HIDE DEF P
<1>3. Seq(Frame) \subseteq P
  BY <1>1, <1>2, Appends
<1> QED BY <1>3 DEF P

\* The sequence number that one frame adds to those of its opcode.
OwnSeq(f, op) == IF f.op = op THEN <<f.seq>> ELSE <<>>

\* The sequence numbers of no frames, and of one more frame.
LEMMA SeqsAppend ==
  ASSUME NEW op
  PROVE  /\ Seqs(<<>>, op) = <<>>
         /\ \A q \in Seq(Frame), f \in Frame :
              Seqs(Append(q, f), op) = Seqs(q, op) \o OwnSeq(f, op)
<1>1. Seqs(<<>>, op) = <<>>
  <2>1. [i \in DOMAIN <<>> |-> IF <<>>[i].op = op THEN <<<<>>[i].seq>> ELSE <<>>] = <<>>
    OBVIOUS
  <2> QED BY <2>1, FlattenEmpty DEF Seqs
<1>2. ASSUME NEW q \in Seq(Frame), NEW f \in Frame
      PROVE  Seqs(Append(q, f), op) = Seqs(q, op) \o OwnSeq(f, op)
  <2> DEFINE e == [i \in DOMAIN q |-> OwnSeq(q[i], op)]
             a == Append(q, f)
             d == [i \in DOMAIN a |-> OwnSeq(a[i], op)]
  <2>1. Len(q) \in Nat /\ DOMAIN q = 1..Len(q) /\ \A i \in 1..Len(q) : q[i] \in Frame
    BY LenProperties, ElementOfSeq
  <2>2. /\ a \in Seq(Frame) /\ Len(a) = Len(q) + 1 /\ DOMAIN a = 1..Len(q) + 1
        /\ \A i \in 1..Len(q) : a[i] = q[i]
        /\ a[Len(q) + 1] = f
    BY AppendProperties, LenProperties
  <2>0. Seqs(q, op) = FlattenSeq(e) /\ Seqs(a, op) = FlattenSeq(d)
    BY DEF Seqs, OwnSeq
  <2> HIDE DEF a
  <2>3. \A g \in Frame : OwnSeq(g, op) \in Seq(Nat)
    BY DEF Frame, OwnSeq
  <2>4. e = [i \in 1..Len(q) |-> OwnSeq(q[i], op)]
    BY <2>1
  <2>5. \A i \in 1..Len(q) : OwnSeq(q[i], op) \in Seq(Nat)
    BY <2>1, <2>3
  <2>6. e \in Seq(Seq(Nat)) /\ Len(e) = Len(q)
    BY <2>1, <2>4, <2>5
  <2>7. d = [i \in 1..Len(q) + 1 |-> OwnSeq(a[i], op)]
    BY <2>2
  <2>8. \A i \in 1..Len(q) + 1 : OwnSeq(a[i], op) \in Seq(Nat)
    BY <2>2, <2>3, ElementOfSeq
  <2>9. d \in Seq(Seq(Nat)) /\ Len(d) = Len(q) + 1
    BY <2>1, <2>7, <2>8
  <2>10. d = Append(e, OwnSeq(f, op))
    <3>1. /\ Append(e, OwnSeq(f, op)) \in Seq(Seq(Nat))
          /\ Len(Append(e, OwnSeq(f, op))) = Len(q) + 1
          /\ \A i \in 1..Len(q) : Append(e, OwnSeq(f, op))[i] = e[i]
          /\ Append(e, OwnSeq(f, op))[Len(q) + 1] = OwnSeq(f, op)
      <4> HIDE DEF e
      <4> QED BY <2>3, <2>6, AppendProperties
    <3>2. \A i \in 1..Len(q) : d[i] = OwnSeq(q[i], op) /\ e[i] = OwnSeq(q[i], op)
      BY <2>1, <2>2, <2>4, <2>7
    <3>3. d[Len(q) + 1] = OwnSeq(f, op)
      BY <2>1, <2>2, <2>7
    <3> HIDE DEF d, e
    <3>4. \A i \in 1..Len(d) : d[i] = Append(e, OwnSeq(f, op))[i]
      BY <2>1, <2>9, <3>1, <3>2, <3>3
    <3> QED BY <2>9, <3>1, <3>4, SeqEqual
  <2> HIDE DEF d, e
  <2>11. FlattenSeq(d) = FlattenSeq(e) \o OwnSeq(f, op)
    BY <2>3, <2>6, <2>10, FlattenAppend
  <2> QED BY <2>0, <2>11 DEF a
<1> QED BY <1>1, <1>2

\* The sequence numbers are numbers.
LEMMA SeqsType ==
  ASSUME NEW op, NEW q \in Seq(Frame)
  PROVE  Seqs(q, op) \in Seq(Nat)
<1> DEFINE P == {t \in Seq(Frame) : Seqs(t, op) \in Seq(Nat)}
<1>0. \A t \in Seq(Frame), f \in Frame :
        Seqs(Append(t, f), op) = Seqs(t, op) \o OwnSeq(f, op)
  BY SeqsAppend
<1>1. <<>> \in P
  <2>1. <<>> \in Seq(Frame) /\ <<>> \in Seq(Nat)
    BY EmptySeq
  <2>2. Seqs(<<>>, op) = <<>>
    BY SeqsAppend
  <2> QED BY <2>1, <2>2
<1>2. ASSUME NEW t \in Seq(Frame), NEW f \in Frame, t \in P
      PROVE  Append(t, f) \in P
  <2>1. OwnSeq(f, op) \in Seq(Nat)
    BY DEF Frame, OwnSeq
  <2>2. Seqs(t, op) \o OwnSeq(f, op) \in Seq(Nat)
    BY <1>2, <2>1, ConcatProperties
  <2>3. Append(t, f) \in Seq(Frame)
    BY AppendProperties
  <2>4. Seqs(Append(t, f), op) = Seqs(t, op) \o OwnSeq(f, op)
    BY <1>0
  <2> QED BY <2>2, <2>3, <2>4
<1> HIDE DEF P
<1>3. Seq(Frame) \subseteq P
  BY <1>1, <1>2, Appends
<1> QED BY <1>3 DEF P

-----------------------------------------------------------------------------
(* What the decoder takes of the bytes *)

\* A round without an error takes a beginning of the data into the buffer, all
\* of it when the frame is not complete then.
Takes(r, op, buf, data, before) ==
  r.status # "error" =>
    \E n \in 0..Len(data) :
      /\ r.consumed = before + n
      /\ r.dec.opcode = op
      /\ r.dec.buf = buf \o SubSeq(data, 1, n)
      /\ r.status = "needs_more" => n = Len(data) /\ ~r.dec.complete

\* Reading payload bytes.
LEMMA ReadPayloadTakes ==
  ASSUME NEW d \in Decoder, ~d.complete, NEW data \in Seq(Nat), NEW before \in Nat
  PROVE  Takes(ReadPayload(d, data, before), d.opcode, d.buf, data, before)
<1> DEFINE n == Min({d.remaining, Len(data)})
           c == loqui_buffer_write(d, SubSeq(data, 1, n))
           e == [c EXCEPT !.remaining = @ - n]
           g == [e EXCEPT !.complete = TRUE]
<1>1. d.remaining \in Nat /\ Len(data) \in Nat
  BY DEF Decoder
<1>2. /\ n \in Nat /\ n <= d.remaining /\ n <= Len(data)
      /\ n = d.remaining \/ n = Len(data)
  BY <1>1, MinOfTwo
<1> HIDE DEF n
<1>3. SubSeq(data, 1, n) \in Seq(Nat)
  BY <1>2, HeadPart
<1>4. /\ c \in Decoder
      /\ c.buf = d.buf \o SubSeq(data, 1, n)
      /\ c.opcode = d.opcode
      /\ c.remaining = d.remaining /\ c.complete = d.complete
  BY <1>3, WriteToDecoder
<1> HIDE DEF c
<1>5. /\ e.buf = c.buf /\ e.opcode = d.opcode /\ e.complete = d.complete
      /\ e.remaining = d.remaining - n
      /\ g.buf = c.buf /\ g.opcode = d.opcode
  BY <1>4 DEF Decoder
<1>6. n \in 0..Len(data)
  BY <1>1, <1>2
<1>7. CASE e.remaining = 0
  <2>1. ReadPayload(d, data, before) = Result("complete", g, before + n)
    BY <1>7 DEF ReadPayload, n, c
  <2> HIDE DEF e, g
  <2>2. /\ Result("complete", g, before + n).status = "complete"
        /\ Result("complete", g, before + n).consumed = before + n
        /\ Result("complete", g, before + n).dec = g
    BY DEF Result
  <2> QED BY <1>4, <1>5, <1>6, <2>1, <2>2 DEF Takes
<1>8. CASE e.remaining # 0
  <2>1. ReadPayload(d, data, before) = Result("needs_more", e, before + n)
    BY <1>8 DEF ReadPayload, n, c
  <2>2. n = Len(data)
    BY <1>1, <1>2, <1>5, <1>8
  <2> HIDE DEF e, g
  <2>3. /\ Result("needs_more", e, before + n).status = "needs_more"
        /\ Result("needs_more", e, before + n).consumed = before + n
        /\ Result("needs_more", e, before + n).dec = e
    BY DEF Result
  <2>4. ~e.complete
    BY <1>4, <1>5, Zenon
  <2> QED BY <1>4, <1>5, <1>6, <2>1, <2>2, <2>3, <2>4 DEF Takes
<1> QED BY <1>7, <1>8

\* Two beginnings, one behind the other, are one.
LEMMA TwoParts ==
  ASSUME NEW t \in Seq(Nat), NEW k \in 0..Len(t),
         NEW m \in 0..(Len(t) - k)
  PROVE  /\ SubSeq(t, 1, k) \o SubSeq(SubSeq(t, k + 1, Len(t)), 1, m)
              = SubSeq(t, 1, k + m)
         /\ k + m \in 0..Len(t)
<1> DEFINE a == SubSeq(t, 1, k)
           r == SubSeq(t, k + 1, Len(t))
           b == SubSeq(r, 1, m)
           c == SubSeq(t, 1, k + m)
<1>1. Len(t) \in Nat /\ k \in Nat /\ k <= Len(t) /\ m \in Nat
      /\ k + m \in Nat /\ k + m <= Len(t) /\ m <= Len(t) - k
  OBVIOUS
<1>2. /\ a \in Seq(Nat) /\ Len(a) = k /\ \A i \in 1..k : a[i] = t[i]
  BY <1>1, SubSeqProperties, ElementOfSeq
<1>3. /\ r \in Seq(Nat) /\ Len(r) = Len(t) - k
      /\ \A i \in 1..Len(t) - k : r[i] = t[k + i]
  BY <1>1, SubSeqProperties, ElementOfSeq
<1>4. /\ c \in Seq(Nat) /\ Len(c) = k + m /\ \A i \in 1..k + m : c[i] = t[i]
  BY <1>1, SubSeqProperties, ElementOfSeq
<1> HIDE DEF a, r, c
<1>5. /\ b \in Seq(Nat) /\ Len(b) = m /\ \A i \in 1..m : b[i] = r[i]
  BY <1>1, <1>3, SubSeqProperties, ElementOfSeq
<1> HIDE DEF b
<1>6. /\ a \o b \in Seq(Nat) /\ Len(a \o b) = k + m
      /\ \A i \in 1..k + m : (a \o b)[i] = IF i <= k THEN a[i] ELSE b[i - k]
  BY <1>2, <1>5, ConcatProperties
<1>7. ASSUME NEW i \in 1..k + m PROVE (a \o b)[i] = c[i]
  <2>0. i \in Nat /\ k \in Nat /\ i >= 1 /\ i <= k + m
    BY <1>1
  <2>1. CASE i <= k
    <3>1. i \in 1..k
      BY <2>0, <2>1
    <3> QED BY <1>2, <1>4, <1>6, <2>1, <3>1
  <2>2. CASE i > k
    <3>1. i - k \in 1..m /\ i - k \in 1..Len(t) - k /\ k + (i - k) = i
      BY <1>1, <2>2
    <3>2. r[i - k] = t[k + (i - k)] /\ b[i - k] = r[i - k]
      BY <1>3, <1>5, <3>1
    <3>3. (a \o b)[i] = b[i - k] /\ c[i] = t[i]
      <4>1. ~(i <= k)
        BY <2>0, <2>2
      <4> QED BY <1>4, <1>6, <4>1
    <3> QED BY <3>1, <3>2, <3>3
  <2>3. i <= k \/ i > k
    BY <2>0
  <2> QED BY <2>1, <2>2, <2>3, Zenon
<1>8. a \o b = c
  BY <1>4, <1>6, <1>7, SeqEqual
<1> QED BY <1>1, <1>8 DEF a, b, c, r

\* Finishing the header, and going on with the payload.
LEMMA ReadAppendTakes ==
  ASSUME NEW d, DOK(d), d.opcode # 0, ~d.complete,
         NEW data \in Seq(Nat), data # <<>>, NEW before \in Nat
  PROVE  Takes(loqui_read_append_data(d, data, before), d.opcode, d.buf, data, before)
<1> DEFINE n == Min({d.header - Len(d.buf), Len(data)})
           b == SubSeq(data, 1, n)
           e == loqui_buffer_write(d, b)
           size == loqui_get_data_payload_size(e)
           a == IF e.header + size > e.alloc THEN e.header + size ELSE e.alloc
           h == [loqui_buffer_ensure_size(e, e.header + size)
                   EXCEPT !.remaining = size]
           rest == SubSeq(data, n + 1, Len(data))
<1>1. d \in Decoder /\ Len(data) \in Nat /\ d.buf \in Seq(Nat)
      /\ Len(d.buf) \in Nat /\ d.header \in Nat
      /\ d.header = _loqui_get_header_size(d.opcode)
  BY DEF DOK, Decoder
<1>2. CASE Len(d.buf) >= d.header
  <2>1. loqui_read_append_data(d, data, before) = ReadPayload(d, data, before)
    BY <1>2 DEF loqui_read_append_data
  <2> QED BY <1>1, <2>1, ReadPayloadTakes
<1>3. CASE ~(Len(d.buf) >= d.header)
  <2>1. d.header - Len(d.buf) \in Nat
    BY <1>1, <1>3
  <2>2. /\ n \in Nat /\ n <= Len(data) /\ n <= d.header - Len(d.buf)
        /\ n = d.header - Len(d.buf) \/ n = Len(data)
    BY <1>1, <2>1, MinOfTwo
  <2> HIDE DEF n
  <2>3. b \in Seq(Nat) /\ Len(b) = n
    BY <2>2, HeadPart
  <2>4. /\ e \in Decoder
        /\ e.buf = d.buf \o b /\ Len(e.buf) = Len(d.buf) + n
        /\ e.opcode = d.opcode /\ e.header = d.header /\ e.complete = d.complete
    <3> HIDE DEF b
    <3> QED BY <1>1, <2>3, WriteToDecoder
  <2>5. CASE Len(e.buf) < e.header
    <3>1. loqui_read_append_data(d, data, before) = Result("needs_more", e, before + n)
      BY <1>3, <2>5 DEF loqui_read_append_data, n, e
    <3> HIDE DEF e
    <3>2. n = Len(data)
      <4>1. Len(d.buf) + n < d.header
        BY <2>4, <2>5
      <4> QED BY <1>1, <2>2, <4>1
    <3>3. /\ Result("needs_more", e, before + n).status = "needs_more"
          /\ Result("needs_more", e, before + n).consumed = before + n
          /\ Result("needs_more", e, before + n).dec = e
      BY DEF Result
    <3>4. n \in 0..Len(data) /\ ~e.complete
      BY <1>1, <2>2, <2>4
    <3> QED BY <2>4, <3>1, <3>2, <3>3, <3>4 DEF Takes, b
  <2>6. CASE ~(Len(e.buf) < e.header) /\ size > DataSizeMax
    <3>1. loqui_read_append_data(d, data, before)
            = Result("error", [e EXCEPT !.remaining = size], before + n)
      BY <1>3, <2>6 DEF loqui_read_append_data, n, e, size
    <3> QED BY <3>1 DEF Takes, Result
  <2>7. CASE ~(Len(e.buf) < e.header) /\ ~(size > DataSizeMax)
    <3>1. loqui_read_append_data(d, data, before) = ReadPayload(h, rest, before + n)
      BY <1>3, <2>7 DEF loqui_read_append_data, n, e, size
    <3>2. e.alloc \in Nat /\ e.header \in Nat /\ Len(e.buf) \in Nat
      BY <2>4, SMTT(30) DEF Decoder
    <3> HIDE DEF e
    <3>3. size \in Nat
      <4>1. Len(e.buf) >= e.header
        BY <2>7, <3>2
      <4>2. e.opcode # 0 /\ e.header = _loqui_get_header_size(e.opcode)
        BY <1>1, <2>4
      <4> QED BY <2>4, <4>1, <4>2, PayloadSizeType
    <3> HIDE DEF size
    <3>4. a \in Nat
      BY <3>2, <3>3
    <3>5. h = [e EXCEPT !.alloc = a, !.remaining = size]
      BY <2>4 DEF loqui_buffer_ensure_size, Decoder
    <3> HIDE DEF a, h
    <3>6. h \in Decoder
      BY <2>4, <3>3, <3>4, <3>5, Zenon DEF Decoder
    <3>7. h.buf = e.buf /\ h.opcode = e.opcode /\ h.complete = e.complete
      BY <2>4, <3>5 DEF Decoder
    <3>8. ~h.complete
      BY <2>4, <3>7, Zenon
    <3>9. rest \in Seq(Nat) /\ Len(rest) = Len(data) - n
      BY <2>2, TailPart
    <3> HIDE DEF rest
    <3>10. Takes(ReadPayload(h, rest, before + n), h.opcode, h.buf, rest, before + n)
      BY <2>2, <3>6, <3>8, <3>9, ReadPayloadTakes
    <3> DEFINE r == ReadPayload(h, rest, before + n)
    <3> HIDE DEF r
    <3>11. ASSUME r.status # "error"
           PROVE  \E k \in 0..Len(data) :
                    /\ r.consumed = before + k
                    /\ r.dec.opcode = d.opcode
                    /\ r.dec.buf = d.buf \o SubSeq(data, 1, k)
                    /\ r.status = "needs_more" => k = Len(data) /\ ~r.dec.complete
      <4>1. PICK m \in 0..Len(rest) :
              /\ r.consumed = (before + n) + m
              /\ r.dec.opcode = h.opcode
              /\ r.dec.buf = h.buf \o SubSeq(rest, 1, m)
              /\ r.status = "needs_more" => m = Len(rest) /\ ~r.dec.complete
        BY <3>10, <3>11 DEF Takes, r
      <4>2. n \in 0..Len(data) /\ m \in 0..(Len(data) - n) /\ m \in Nat /\ m <= Len(rest)
        BY <1>1, <2>2, <3>9
      <4>3. /\ b \o SubSeq(rest, 1, m) = SubSeq(data, 1, n + m)
            /\ n + m \in 0..Len(data)
        BY <4>2, TwoParts DEF rest
      <4>4. SubSeq(rest, 1, m) \in Seq(Nat)
        BY <3>9, <4>2, HeadPart
      <4>5. (d.buf \o b) \o SubSeq(rest, 1, m) = d.buf \o (b \o SubSeq(rest, 1, m))
        BY <1>1, <2>3, <4>4, Assoc, ZenonT(40)
      <4>6. r.dec.buf = d.buf \o SubSeq(data, 1, n + m)
        BY <2>4, <3>7, <4>1, <4>3, <4>5, Zenon
      <4>7. r.consumed = before + (n + m) /\ (m = Len(rest) => n + m = Len(data))
        BY <1>1, <2>2, <3>9, <4>1, <4>2
      <4>8. r.dec.opcode = d.opcode
        BY <2>4, <3>7, <4>1, Zenon
      <4>9. r.status = "needs_more" => n + m = Len(data) /\ ~r.dec.complete
        BY <4>1, <4>7, Zenon
      <4>10. n + m \in 0..Len(data)
        BY <4>3
      <4>11. r.consumed = before + (n + m)
        BY <4>7
      <4> DEFINE k == n + m
      <4> HIDE DEF k
      <4> QED BY <4>6, <4>8, <4>9, <4>10, <4>11, Zenon DEF k
    <3> QED BY <3>1, <3>11 DEF Takes, r
  <2> QED BY <2>5, <2>6, <2>7
<1> QED BY <1>2, <1>3

\* The first byte of a chunk.
LEMMA FirstByte ==
  ASSUME NEW t \in Seq(Nat), Len(t) >= 1
  PROVE  SubSeq(t, 1, 1) = <<t[1]>>
<1>1. Len(t) \in Nat /\ 1 \in 1..Len(t) /\ t[1] \in Nat
  BY ElementOfSeq
<1>2. /\ SubSeq(t, 1, 1) \in Seq(Nat) /\ Len(SubSeq(t, 1, 1)) = 1
      /\ SubSeq(t, 1, 1)[1] = t[1]
  BY <1>1, SubSeqProperties
<1>3. <<t[1]>> \in Seq(Nat) /\ Len(<<t[1]>>) = 1 /\ <<t[1]>>[1] = t[1]
  BY <1>1
<1>4. \A i \in 1..1 : SubSeq(t, 1, 1)[i] = <<t[1]>>[i]
  <2>1. \A i \in 1..1 : i = 1
    OBVIOUS
  <2> QED BY <1>2, <1>3, <2>1, Zenon
<1>5. \A i \in 1..Len(SubSeq(t, 1, 1)) : SubSeq(t, 1, 1)[i] = <<t[1]>>[i]
  BY <1>2, <1>4, Zenon
<1> QED BY <1>2, <1>3, <1>5, SeqEqual

\* A round of the decoder moves bytes from the front of the data to the end of
\* the part of the frame that it has, and no byte is lost, added or changed.
LEMMA ReadDataTakes ==
  ASSUME NEW d, DOK(d), NEW data \in Seq(Nat), data # <<>>,
         loqui_decoder_read_data(d, data).status # "error"
  PROVE  LET r == loqui_decoder_read_data(d, data) IN
         /\ r.consumed \in 0..Len(data)
         /\ Partial(r.dec) = Partial(d) \o SubSeq(data, 1, r.consumed)
         /\ r.status = "needs_more" => r.consumed = Len(data) /\ ~r.dec.complete
<1> DEFINE r == loqui_decoder_read_data(d, data)
<1>0. d \in Decoder /\ d.buf \in Seq(Nat) /\ Len(data) \in Nat /\ Len(data) >= 1
      /\ d.opcode \in 0..9
  BY EmptySeq DEF DOK, Decoder
<1>1. CASE d.complete
  <2>1. r = Result("complete", d, 0)
    BY <1>1 DEF loqui_decoder_read_data
  <2>2. r.status = "complete" /\ r.dec = d /\ r.consumed = 0
    BY <2>1 DEF Result
  <2>3. SubSeq(data, 1, 0) = <<>>
    BY SubSeqEmpty
  <2>4. Partial(d) \in Seq(Nat)
    <3>1. <<d.opcode>> \in Seq(Nat) /\ <<>> \in Seq(Nat)
      BY <1>0
    <3>2. <<d.opcode>> \o d.buf \in Seq(Nat)
      BY <1>0, <3>1, ConcatProperties
    <3> QED BY <3>1, <3>2 DEF Partial
  <2>5. Partial(d) \o <<>> = Partial(d)
    BY <2>4, ConcatEmptySeq
  <2> HIDE DEF r
  <2>6. Partial(r.dec) = Partial(d) \o SubSeq(data, 1, r.consumed)
    BY <2>2, <2>3, <2>5, Zenon
  <2>7. 0 \in 0..Len(data)
    BY <1>0
  <2>8. "complete" # "needs_more"
    OBVIOUS
  <2> QED BY <2>2, <2>6, <2>7, <2>8, Zenon DEF r
<1>2. CASE ~d.complete /\ d.opcode # 0
  <2>1. r = loqui_read_append_data(d, data, 0)
    BY <1>2 DEF loqui_decoder_read_data
  <2>2. Takes(r, d.opcode, d.buf, data, 0)
    BY <1>2, <2>1, ReadAppendTakes
  <2> HIDE DEF r
  <2>3. r.status # "error"
    BY DEF r
  <2>4. PICK n \in 0..Len(data) :
          /\ r.consumed = 0 + n
          /\ r.dec.opcode = d.opcode
          /\ r.dec.buf = d.buf \o SubSeq(data, 1, n)
          /\ r.status = "needs_more" => n = Len(data) /\ ~r.dec.complete
    BY <2>2, <2>3 DEF Takes
  <2>5. r.consumed = n
    BY <1>0, <2>4
  <2>6. Partial(r.dec) = <<d.opcode>> \o (d.buf \o SubSeq(data, 1, n))
    BY <1>2, <2>4 DEF Partial
  <2>7. Partial(d) = <<d.opcode>> \o d.buf
    BY <1>2 DEF Partial
  <2>8. <<d.opcode>> \in Seq(Nat) /\ SubSeq(data, 1, n) \in Seq(Nat)
    <3>1. n \in Nat /\ n <= Len(data)
      BY <1>0
    <3> QED BY <1>0, <3>1, HeadPart
  <2>9. (<<d.opcode>> \o d.buf) \o SubSeq(data, 1, n)
          = <<d.opcode>> \o (d.buf \o SubSeq(data, 1, n))
    BY <1>0, <2>8, Assoc, ZenonT(40)
  <2>10. Partial(r.dec) = Partial(d) \o SubSeq(data, 1, r.consumed)
    BY <2>5, <2>6, <2>7, <2>9, Zenon
  <2> QED BY <2>4, <2>5, <2>10, Zenon DEF r
<1>3. CASE ~d.complete /\ d.opcode = 0
  <2> DEFINE op == data[1]
             header == _loqui_get_header_size(op)
             e == [d EXCEPT !.buf = <<>>, !.remaining = 0,
                            !.opcode = op, !.header = header]
  <2>1. r = loqui_read_new_data(d, data)
    BY <1>3 DEF loqui_decoder_read_data
  <2>2. op \in Nat
    BY <1>0
  <2>3. header \in Nat /\ (header # 0 => op \in 0..9 /\ op # 0)
    BY <2>2, HeaderSizes DEF Opcode
  <2> HIDE DEF header, op
  <2>4. header # 0
    <3>1. CASE header = 0
      <4>1. r = Result("error", d, 0)
        BY <2>1, <3>1 DEF loqui_read_new_data, header, op
      <4> QED BY <4>1 DEF Result
    <3> QED BY <3>1
  <2>5. op \in 0..9 /\ op # 0 /\ <<op>> \in Seq(Nat)
    BY <2>3, <2>4
  <2>6. e \in Decoder
    <3>1. <<>> \in Seq(Nat) /\ 0 \in Nat
      OBVIOUS
    <3> QED BY <1>0, <2>3, <2>5, <3>1, Zenon DEF Decoder
  <2>7. /\ e.buf = <<>> /\ e.remaining = 0 /\ e.opcode = op
        /\ e.header = header /\ e.complete = d.complete /\ e.alloc = d.alloc
    BY <1>0 DEF Decoder
  <2> HIDE DEF e
  <2>8. Partial(d) = <<>>
    BY <1>3 DEF Partial
  <2>9. CASE ~(Len(data) > 1)
    <3>1. r = Result("needs_more", e, 1)
      BY <2>1, <2>4, <2>9 DEF loqui_read_new_data, header, op, e
    <3>2. r.status = "needs_more" /\ r.dec = e /\ r.consumed = 1
      BY <3>1 DEF Result
    <3>3. Len(data) = 1
      <4>1. \A k \in Nat : k >= 1 /\ ~(k > 1) => k = 1
        OBVIOUS
      <4> QED BY <1>0, <2>9, <4>1, Zenon
    <3>4. SubSeq(data, 1, 1) = <<op>>
      BY <1>0, FirstByte DEF op
    <3>5. Partial(e) = <<op>> \o <<>>
      BY <2>5, <2>7 DEF Partial
    <3>6. <<op>> \o <<>> = <<op>> /\ <<>> \o <<op>> = <<op>>
      BY <2>5, ConcatEmptySeq
    <3>7. ~e.complete
      BY <1>3, <2>7, Zenon
    <3> HIDE DEF r
    <3>8. Partial(r.dec) = Partial(d) \o SubSeq(data, 1, r.consumed)
      BY <2>8, <3>2, <3>4, <3>5, <3>6, Zenon
    <3>9. r.consumed \in 0..Len(data) /\ r.consumed = Len(data)
      BY <3>2, <3>3
    <3> QED BY <3>2, <3>7, <3>8, <3>9, Zenon DEF r
  <2>10. CASE Len(data) > 1
    <3> DEFINE t == Tail(data)
    <3>1. r = loqui_read_append_data(e, t, 1)
      BY <2>1, <2>4, <2>10 DEF loqui_read_new_data, header, op, e
    <3>2. /\ t \in Seq(Nat) /\ Len(t) = Len(data) - 1 /\ Len(t) \in Nat
          /\ t = SubSeq(data, 2, Len(data))
      BY <1>0, HeadTailProperties, TailIsSubSeq
    <3> HIDE DEF t
    <3>3. t # <<>>
      <4>1. Len(t) # 0
        BY <1>0, <2>10, <3>2
      <4> QED BY <4>1
    <3>4. DOK(e)
      <4>1. e.alloc \in Nat /\ Len(e.buf) = 0 /\ e.alloc = d.alloc
        BY <1>0, <2>7 DEF Decoder
      <4>2. ~e.complete
        BY <1>3, <2>7, Zenon
      <4>3. Len(e.buf) + e.remaining <= e.alloc
        BY <2>7, <4>1
      <4>4. e.header = _loqui_get_header_size(e.opcode) /\ e.opcode # 0
        BY <2>5, <2>7 DEF header
      <4>5. Len(e.buf) < e.header /\ e.remaining = 0
        BY <2>3, <2>4, <2>7, <4>1
      <4> QED BY <2>6, <4>2, <4>3, <4>4, <4>5 DEF DOK
    <3>5. e.opcode # 0 /\ ~e.complete
      BY <1>3, <2>5, <2>7, Zenon
    <3>6. Takes(r, e.opcode, e.buf, t, 1)
      <4>1. Takes(loqui_read_append_data(e, t, 1), e.opcode, e.buf, t, 1)
        BY <3>2, <3>3, <3>4, <3>5, ReadAppendTakes
      <4> QED BY <3>1, <4>1
    <3> HIDE DEF r
    <3>7. r.status # "error"
      BY DEF r
    <3>8. PICK n \in 0..Len(t) :
            /\ r.consumed = 1 + n
            /\ r.dec.opcode = e.opcode
            /\ r.dec.buf = e.buf \o SubSeq(t, 1, n)
            /\ r.status = "needs_more" => n = Len(t) /\ ~r.dec.complete
      BY <3>6, <3>7 DEF Takes
    <3>9. n \in Nat /\ n <= Len(t) /\ 1 \in 0..Len(data) /\ n \in 0..(Len(data) - 1)
      BY <1>0, <3>2
    <3>10. SubSeq(t, 1, n) \in Seq(Nat)
      BY <3>2, <3>9, HeadPart
    <3>11. <<>> \o SubSeq(t, 1, n) = SubSeq(t, 1, n)
      BY <3>10, ConcatEmptySeq
    <3>12. Partial(r.dec) = <<op>> \o SubSeq(t, 1, n)
      BY <2>5, <2>7, <3>8, <3>11 DEF Partial
    <3>13. SubSeq(data, 1, 1) = <<op>>
      BY <1>0, FirstByte DEF op
    <3>14. SubSeq(data, 1, 1) \o SubSeq(t, 1, n) = SubSeq(data, 1, 1 + n)
           /\ 1 + n \in 0..Len(data)
      <4>1. 1 + 1 = 2
        OBVIOUS
      <4>2. SubSeq(data, 1, 1) \o SubSeq(SubSeq(data, 1 + 1, Len(data)), 1, n)
              = SubSeq(data, 1, 1 + n) /\ 1 + n \in 0..Len(data)
        BY <3>9, TwoParts
      <4> QED BY <3>2, <4>1, <4>2
    <3>15. SubSeq(data, 1, 1 + n) \in Seq(Nat)
      <4>1. 1 + n \in Nat /\ 1 + n <= Len(data)
        BY <1>0, <3>14
      <4> QED BY <4>1, HeadPart
    <3>16. <<>> \o SubSeq(data, 1, 1 + n) = SubSeq(data, 1, 1 + n)
      BY <3>15, ConcatEmptySeq
    <3>17. Partial(r.dec) = Partial(d) \o SubSeq(data, 1, r.consumed)
      BY <2>8, <3>8, <3>12, <3>13, <3>14, <3>16, Zenon
    <3>18. n = Len(t) => r.consumed = Len(data)
      BY <1>0, <3>2, <3>8, <3>9
    <3>19. r.consumed \in 0..Len(data)
      BY <3>8, <3>14
    <3> QED BY <3>8, <3>17, <3>18, <3>19, Zenon DEF r
  <2> QED BY <2>9, <2>10
<1> QED BY <1>1, <1>2, <1>3

-----------------------------------------------------------------------------
(* The decoder reads what the encoder wrote *)

\* The elements of a concatenation.
LEMMA ConcatParts ==
  ASSUME NEW a \in Seq(Nat), NEW b \in Seq(Nat)
  PROVE  /\ a \o b \in Seq(Nat) /\ Len(a \o b) = Len(a) + Len(b)
         /\ Len(a) \in Nat /\ Len(b) \in Nat
         /\ \A j \in 1..Len(a) : (a \o b)[j] = a[j]
         /\ \A j \in 1..Len(b) : (a \o b)[Len(a) + j] = b[j]
<1>1. /\ a \o b \in Seq(Nat) /\ Len(a \o b) = Len(a) + Len(b)
      /\ \A i \in 1..Len(a) + Len(b) :
           (a \o b)[i] = IF i <= Len(a) THEN a[i] ELSE b[i - Len(a)]
  BY ConcatProperties
<1>2. Len(a) \in Nat /\ Len(b) \in Nat
  BY LenProperties
<1>3. ASSUME NEW j \in 1..Len(a) PROVE (a \o b)[j] = a[j]
  <2>1. j \in 1..Len(a) + Len(b) /\ j <= Len(a)
    BY <1>2
  <2> QED BY <1>1, <2>1
<1>4. ASSUME NEW j \in 1..Len(b) PROVE (a \o b)[Len(a) + j] = b[j]
  <2>1. Len(a) + j \in 1..Len(a) + Len(b) /\ ~(Len(a) + j <= Len(a))
        /\ (Len(a) + j) - Len(a) = j
    BY <1>2
  <2> QED BY <1>1, <2>1
<1> QED BY <1>1, <1>2, <1>3, <1>4

\* Two concatenations that agree, with first parts as long as each other.
LEMMA SplitAt ==
  ASSUME NEW a \in Seq(Nat), NEW b \in Seq(Nat), NEW c \in Seq(Nat),
         NEW d \in Seq(Nat), a \o b = c \o d, Len(a) = Len(c)
  PROVE  a = c /\ b = d
<1>1. /\ Len(a \o b) = Len(a) + Len(b) /\ Len(a) \in Nat /\ Len(b) \in Nat
      /\ \A j \in 1..Len(a) : (a \o b)[j] = a[j]
      /\ \A j \in 1..Len(b) : (a \o b)[Len(a) + j] = b[j]
  BY ConcatParts
<1>2. /\ Len(c \o d) = Len(c) + Len(d) /\ Len(c) \in Nat /\ Len(d) \in Nat
      /\ \A j \in 1..Len(c) : (c \o d)[j] = c[j]
      /\ \A j \in 1..Len(d) : (c \o d)[Len(c) + j] = d[j]
  BY ConcatParts
<1>3. Len(b) = Len(d)
  <2>1. Len(a) + Len(b) = Len(a) + Len(d)
    BY <1>1, <1>2, Zenon
  <2> QED BY <1>1, <1>2, <2>1
<1>4. \A j \in 1..Len(a) : a[j] = c[j]
  BY <1>1, <1>2, Zenon
<1>5. \A j \in 1..Len(b) : b[j] = d[j]
  BY <1>1, <1>2, <1>3, Zenon
<1>6. a = c
  BY <1>4, SeqEqual
<1>7. b = d
  BY <1>3, <1>5, SeqEqual
<1> QED BY <1>6, <1>7

\* The bytes behind the header.
Payload(f) == IF HasPayload(f.op) THEN f.data ELSE <<>>

\* The layout of the headers, field by field.
LEMMA HeaderTable ==
  ASSUME NEW f \in Frame
  PROVE  /\ Len(Header(f)) = 1 + _loqui_get_header_size(f.op)
         /\ Header(f)[1] = f.op /\ Header(f)[2] = f.flags
         /\ f.op \in {1, 2, 5, 6, 8} => Header(f)[4] = Len(f.data)
         /\ f.op = 7 => Header(f)[3] = Len(f.data)
         /\ f.op = 9 => Header(f)[5] = Len(f.data) /\ Header(f)[4] = f.code
         /\ f.op \in {3, 4, 5, 6, 9} => Header(f)[3] = f.seq
         /\ f.op = 1 => Header(f)[3] = Version
         /\ f.op \in {2, 8} => Header(f)[3] = f.code
<1> USE DEF Hello, HelloAck, Ping, Pong, Request, Response, Push, GoAway, Error
<1>1. f.op \in 1..9
  BY DEF Frame, Opcode
<1>2. CASE f.op = 1
  BY <1>2 DEF Header, _loqui_get_header_size
<1>3. CASE f.op \in {2, 8}
  BY <1>3 DEF Header, _loqui_get_header_size
<1>4. CASE f.op \in {3, 4}
  BY <1>4 DEF Header, _loqui_get_header_size
<1>5. CASE f.op \in {5, 6}
  BY <1>5 DEF Header, _loqui_get_header_size
<1>6. CASE f.op = 7
  BY <1>6 DEF Header, _loqui_get_header_size
<1>7. CASE f.op = 9
  BY <1>7 DEF Header, _loqui_get_header_size
<1> QED BY <1>1, <1>2, <1>3, <1>4, <1>5, <1>6, <1>7

\* The part of a frame that a decoder has: its opcode, and then its buffer.
LEMMA OpcodeFirst ==
  ASSUME NEW d \in Decoder
  PROVE  LET A == <<d.opcode>> \o d.buf IN
         /\ A \in Seq(Nat) /\ Len(A) = 1 + Len(d.buf)
         /\ A[1] = d.opcode
         /\ \A i \in 1..Len(d.buf) : A[1 + i] = d.buf[i]
<1> DEFINE o == <<d.opcode>>
           A == o \o d.buf
<1>1. d.buf \in Seq(Nat) /\ o \in Seq(Nat) /\ Len(o) = 1
      /\ o[1] = d.opcode
  BY DEF Decoder
<1> HIDE DEF o
<1>2. 1 \in 1..Len(o)
  BY <1>1
<1>3. /\ A \in Seq(Nat) /\ Len(A) = Len(o) + Len(d.buf)
      /\ \A j \in 1..Len(o) : A[j] = o[j]
      /\ \A j \in 1..Len(d.buf) : A[Len(o) + j] = d.buf[j]
  BY <1>1, ConcatParts
<1> QED BY <1>1, <1>2, <1>3, Zenon DEF o

\* A decoder whose bytes are the beginning of an encoding has its opcode, and
\* once it has the header it has its fields and the size of its payload.
LEMMA HeaderMatch ==
  ASSUME NEW d \in Decoder, d.opcode # 0,
         d.header = _loqui_get_header_size(d.opcode),
         NEW g \in Frame, NEW Y \in Seq(Nat), NEW Z \in Seq(Nat),
         (<<d.opcode>> \o d.buf) \o Y = Encoding(g) \o Z
  PROVE  /\ d.opcode = g.op
         /\ Len(d.buf) >= d.header =>
              /\ \A i \in 1..d.header : d.buf[i] = Header(g)[i + 1]
              /\ loqui_get_data_payload_size(d) = Len(Payload(g))
<1> DEFINE o == <<d.opcode>>
           A == o \o d.buf
           H == Header(g)
           E == H \o Payload(g)
<1>1. d.buf \in Seq(Nat) /\ Len(d.buf) \in Nat /\ o \in Seq(Nat) /\ Len(o) = 1
      /\ o[1] = d.opcode /\ d.opcode \in 0..9 /\ d.header \in Nat
  BY DEF Decoder
<1>2. Payload(g) \in Seq(Nat) /\ H \in Seq(Nat) /\ g.data \in Seq(Nat)
      /\ g.op \in 1..9
  BY HeaderType DEF Frame, Payload, Opcode
<1>3. Encoding(g) = E
  BY DEF Encoding, Payload
<1>4. /\ Len(H) = 1 + _loqui_get_header_size(g.op)
      /\ H[1] = g.op /\ H[2] = g.flags
      /\ g.op \in {1, 2, 5, 6, 8} => H[4] = Len(g.data)
      /\ g.op = 7 => H[3] = Len(g.data)
      /\ g.op = 9 => H[5] = Len(g.data)
  BY HeaderTable
<1> HIDE DEF o, H
<1>5. /\ A \in Seq(Nat) /\ Len(A) = 1 + Len(d.buf)
      /\ A[1] = d.opcode
      /\ \A i \in 1..Len(d.buf) : A[1 + i] = d.buf[i]
  BY OpcodeFirst, Zenon DEF o
<1>6. /\ E \in Seq(Nat) /\ Len(E) = Len(H) + Len(Payload(g))
      /\ \A j \in 1..Len(H) : E[j] = H[j]
  BY <1>2, ConcatParts
<1>7. A \o Y = E \o Z
  BY <1>3 DEF o
<1> HIDE DEF A, E
<1>8. \A j \in 1..Len(A) : (A \o Y)[j] = A[j]
  BY <1>5, ConcatParts
<1>9. \A j \in 1..Len(E) : (E \o Z)[j] = E[j]
  BY <1>6, ConcatParts
<1>10. Len(H) \in Nat /\ Len(Payload(g)) \in Nat /\ Len(H) >= 1
  <2>0. g.op \in Nat
    BY <1>2
  <2>1. _loqui_get_header_size(g.op) \in 0..4
    BY <2>0, HeaderSizes
  <2> QED BY <1>2, <1>4, <2>1
<1>11. d.opcode = g.op
  <2>1. 1 \in 1..Len(A) /\ 1 \in 1..Len(E) /\ 1 \in 1..Len(H)
    BY <1>1, <1>5, <1>6, <1>10
  <2> QED BY <1>4, <1>5, <1>6, <1>7, <1>8, <1>9, <2>1, Zenon
<1>12. ASSUME Len(d.buf) >= d.header
       PROVE  \A i \in 1..d.header : d.buf[i] = H[i + 1]
  <2> SUFFICES ASSUME NEW i \in 1..d.header PROVE d.buf[i] = H[i + 1]
    OBVIOUS
  <2>0. \A m, k \in Nat : m >= k =>
          \A j \in 1..k : j \in 1..m /\ 1 + j \in 1..1 + m /\ 1 + j = j + 1
    OBVIOUS
  <2>1. i \in 1..Len(d.buf) /\ 1 + i \in 1..Len(A) /\ 1 + i = i + 1
    BY <1>1, <1>5, <1>12, <2>0, Zenon
  <2>2. i + 1 \in 1..Len(H)
    BY <1>1, <1>4, <1>11
  <2>3. i + 1 \in 1..Len(E)
    BY <1>6, <1>10, <2>2
  <2>4. E[i + 1] = H[i + 1] /\ A[1 + i] = d.buf[i]
    BY <1>5, <1>6, <2>1, <2>2
  <2>5. (A \o Y)[1 + i] = A[1 + i] /\ (E \o Z)[i + 1] = E[i + 1]
    BY <1>8, <1>9, <2>1, <2>3
  <2> QED BY <1>7, <2>1, <2>4, <2>5, Zenon
<1>13. ASSUME Len(d.buf) >= d.header
       PROVE  loqui_get_data_payload_size(d) = Len(Payload(g))
  <2> USE DEF Hello, HelloAck, Ping, Pong, Request, Response, Push, GoAway, Error
  <2>1. /\ g.op \in {1, 2, 5, 6, 8} => 3 \in 1..d.header
        /\ g.op = 7 => 2 \in 1..d.header
        /\ g.op = 9 => 4 \in 1..d.header
    BY <1>11 DEF _loqui_get_header_size
  <2>2. /\ g.op \in {1, 2, 5, 6, 8} => d.buf[3] = H[3 + 1]
        /\ g.op = 7 => d.buf[2] = H[2 + 1]
        /\ g.op = 9 => d.buf[4] = H[4 + 1]
    BY <1>12, <1>13, <2>1
  <2>3. CASE g.op \in {1, 2, 5, 6, 8}
    BY <1>4, <1>11, <2>2, <2>3 DEF loqui_get_data_payload_size, Payload, HasPayload
  <2>4. CASE g.op = 7
    BY <1>4, <1>11, <2>2, <2>4 DEF loqui_get_data_payload_size, Payload, HasPayload
  <2>5. CASE g.op = 9
    BY <1>4, <1>11, <2>2, <2>5 DEF loqui_get_data_payload_size, Payload, HasPayload
  <2>6. CASE g.op \in {3, 4}
    BY <1>11, <2>6, SMTT(30) DEF loqui_get_data_payload_size, Payload, HasPayload
  <2> QED BY <1>2, <2>3, <2>4, <2>5, <2>6
<1> QED BY <1>11, <1>12, <1>13 DEF H

\* The fields of an event are those of the frame whose header was read.
LEMMA EventFields ==
  ASSUME NEW d \in Decoder, NEW g \in Frame, Proper(g), d.opcode = g.op,
         d.header = _loqui_get_header_size(d.opcode),
         \A i \in 1..d.header : d.buf[i] = Header(g)[i + 1],
         loqui_get_data_payload_size(d) = Len(Payload(g)),
         SubSeq(d.buf, d.header + 1, d.header + Len(Payload(g))) = Payload(g)
  PROVE  Event(d) = g
<1> USE DEF Hello, HelloAck, Ping, Pong, Request, Response, Push, GoAway, Error
<1>1. g.op \in 1..9
  BY DEF Frame, Opcode
<1>2. /\ Header(g)[2] = g.flags
      /\ g.op = 9 => Header(g)[4] = g.code
      /\ g.op \in {3, 4, 5, 6, 9} => Header(g)[3] = g.seq
      /\ g.op = 1 => Header(g)[3] = Version
      /\ g.op \in {2, 8} => Header(g)[3] = g.code
  BY HeaderTable
<1>3. /\ 1 \in 1..d.header
      /\ g.op \in {1, 2, 3, 4, 5, 6, 8, 9} => 2 \in 1..d.header
      /\ g.op = 9 => 3 \in 1..d.header
  BY <1>1 DEF _loqui_get_header_size
<1>4. /\ d.buf[1] = Header(g)[1 + 1]
      /\ g.op \in {1, 2, 3, 4, 5, 6, 8, 9} => d.buf[2] = Header(g)[2 + 1]
      /\ g.op = 9 => d.buf[3] = Header(g)[3 + 1]
  BY <1>3
<1>5. d.buf[1] = g.flags
  BY <1>2, <1>4
<1>6. loqui_get_seq(d) = g.seq
  BY <1>1, <1>2, <1>4 DEF loqui_get_seq, Proper
<1>7. loqui_get_code(d) = g.code
  BY <1>1, <1>2, <1>4 DEF loqui_get_code, Proper, Version
<1>8. Payload(g) = g.data
  BY DEF Payload, HasPayload, Proper
<1>9. g = [op |-> g.op, flags |-> g.flags, seq |-> g.seq, code |-> g.code,
           data |-> g.data]
  BY DEF Frame
<1>10. Event(d) = [op |-> g.op, flags |-> g.flags, seq |-> g.seq,
                   code |-> g.code, data |-> g.data]
  BY <1>5, <1>6, <1>7, <1>8, Zenon DEF Event
<1> QED BY <1>9, <1>10, Zenon

\* A complete frame is the one whose encoding comes first in the stream, and
\* the bytes behind it are left.
LEMMA CompleteMatches ==
  ASSUME NEW d, DOK(d), d.complete, NEW g \in Frame, Proper(g),
         NEW Y \in Seq(Nat), NEW Z \in Seq(Nat),
         Partial(d) \o Y = Encoding(g) \o Z
  PROVE  Event(d) = g /\ Y = Z
<1> DEFINE o == <<d.opcode>>
           A == o \o d.buf
           H == Header(g)
           E == H \o Payload(g)
           n == Len(Payload(g))
<1>1. /\ d \in Decoder /\ d.opcode # 0 /\ d.remaining = 0
      /\ d.header = _loqui_get_header_size(d.opcode)
      /\ Len(d.buf) >= d.header
      /\ Len(d.buf) + d.remaining = d.header + loqui_get_data_payload_size(d)
  BY DEF DOK
<1>2. Partial(d) = A
  BY <1>1 DEF Partial
<1>3. A \o Y = Encoding(g) \o Z
  BY <1>2
<1>4. /\ d.opcode = g.op
      /\ \A i \in 1..d.header : d.buf[i] = H[i + 1]
      /\ loqui_get_data_payload_size(d) = n
  BY <1>1, <1>3, HeaderMatch
<1>5. Encoding(g) = E
  BY DEF Encoding, Payload
<1>6. Payload(g) \in Seq(Nat) /\ H \in Seq(Nat)
  BY HeaderType DEF Frame, Payload
<1>7. d.buf \in Seq(Nat) /\ o \in Seq(Nat) /\ Len(o) = 1 /\ d.header \in Nat
      /\ Len(d.buf) \in Nat /\ n \in Nat
  BY <1>1, <1>6 DEF Decoder
<1>8. Len(H) = 1 + d.header
  BY <1>1, <1>4, HeaderTable
<1> HIDE DEF o, H, n
<1>9. /\ A \in Seq(Nat) /\ Len(A) = 1 + Len(d.buf)
      /\ \A j \in 1..Len(d.buf) : A[1 + j] = d.buf[j]
  BY <1>1, OpcodeFirst, Zenon DEF o
<1>10. /\ E \in Seq(Nat) /\ Len(E) = Len(H) + n
       /\ \A j \in 1..n : E[Len(H) + j] = Payload(g)[j]
  BY <1>6, ConcatParts DEF n
<1>11. Len(d.buf) = d.header + n
  <2>1. Len(d.buf) + 0 = d.header + n
    BY <1>1, <1>4, Zenon
  <2> QED BY <1>7, <2>1
<1>12. Len(A) = Len(E)
  BY <1>7, <1>8, <1>9, <1>10, <1>11
<1>13. A = E /\ Y = Z
  <2> HIDE DEF A, E
  <2> QED BY <1>3, <1>5, <1>9, <1>10, <1>12, SplitAt
<1> HIDE DEF A, E
<1>14. SubSeq(d.buf, d.header + 1, d.header + n) = Payload(g)
  <2> DEFINE s == SubSeq(d.buf, d.header + 1, d.header + n)
  <2>1. \A i \in (d.header + 1)..(d.header + n) : d.buf[i] \in Nat
    <3>1. \A i \in (d.header + 1)..(d.header + n) : i \in 1..Len(d.buf)
      BY <1>7, <1>11
    <3> QED BY <1>7, <3>1, ElementOfSeq
  <2>2. /\ s \in Seq(Nat) /\ Len(s) = n
        /\ \A i \in 1..n : s[i] = d.buf[d.header + i]
    <3>1. d.header + 1 \in Int /\ d.header + n \in Int
      BY <1>7
    <3>2. /\ s \in Seq(Nat)
          /\ Len(s) = IF d.header + 1 <= d.header + n
                      THEN (d.header + n) - (d.header + 1) + 1 ELSE 0
          /\ \A i \in 1..(d.header + n) - (d.header + 1) + 1 :
               s[i] = d.buf[(d.header + 1) + i - 1]
      BY <2>1, <3>1, SubSeqProperties, SMTT(30)
    <3>3. /\ (d.header + n) - (d.header + 1) + 1 = n
          /\ (~(d.header + 1 <= d.header + n) => n = 0)
          /\ \A i \in 1..n : (d.header + 1) + i - 1 = d.header + i
      <4>1. \A h, k \in Nat :
              /\ (h + k) - (h + 1) + 1 = k
              /\ (~(h + 1 <= h + k) => k = 0)
              /\ \A i \in 1..k : (h + 1) + i - 1 = h + i
        OBVIOUS
      <4> QED BY <1>7, <4>1, Zenon
    <3> HIDE DEF s
    <3> QED BY <3>2, <3>3
  <2> HIDE DEF s
  <2>3. ASSUME NEW i \in 1..n PROVE s[i] = Payload(g)[i]
    <3>1. d.header + i \in 1..Len(d.buf) /\ 1 + (d.header + i) = Len(H) + i
      <4>1. \A h, k \in Nat : \A j \in 1..k :
              h + j \in 1..(h + k) /\ 1 + (h + j) = (1 + h) + j
        OBVIOUS
      <4>2. /\ d.header + i \in 1..(d.header + n)
            /\ 1 + (d.header + i) = (1 + d.header) + i
        BY <1>7, <4>1, Zenon
      <4> QED BY <1>8, <1>11, <4>2, Zenon
    <3>2. A[1 + (d.header + i)] = d.buf[d.header + i]
      BY <1>9, <3>1
    <3> QED BY <1>10, <1>13, <2>2, <3>1, <3>2, Zenon
  <2> QED BY <1>6, <2>2, <2>3, SeqEqual DEF n, s
<1>15. Event(d) = g
  BY <1>1, <1>4, <1>14, EventFields DEF n, H
<1> QED BY <1>13, <1>15

\* A frame that is not complete is shorter than its encoding.
LEMMA IncompleteIsShort ==
  ASSUME NEW d, DOK(d), ~d.complete, NEW g \in Frame, NEW Z \in Seq(Nat)
  PROVE  Partial(d) # Encoding(g) \o Z
<1> SUFFICES ASSUME Partial(d) = Encoding(g) \o Z PROVE FALSE
  OBVIOUS
<1> DEFINE o == <<d.opcode>>
           A == o \o d.buf
           H == Header(g)
           E == H \o Payload(g)
           n == Len(Payload(g))
<1>0. Encoding(g) \in Seq(Nat) /\ Encoding(g) # <<>>
  BY EncodingType
<1>1. d.opcode # 0
  <2>1. Encoding(g) \o Z # <<>>
    BY <1>0, ConcatEqualIffEmpty
  <2> QED BY <2>1 DEF Partial
<1>2. /\ d \in Decoder /\ d.header = _loqui_get_header_size(d.opcode)
      /\ d.remaining > 0 =>
           /\ Len(d.buf) >= d.header
           /\ Len(d.buf) + d.remaining = d.header + loqui_get_data_payload_size(d)
      /\ d.remaining = 0 => Len(d.buf) < d.header
  BY <1>1 DEF DOK
<1>3. /\ d.buf \in Seq(Nat) /\ Len(d.buf) \in Nat /\ o \in Seq(Nat) /\ Len(o) = 1
      /\ d.header \in Nat /\ d.remaining \in Nat
  BY <1>2 DEF Decoder
<1>4. A \in Seq(Nat) /\ Len(A) = 1 + Len(d.buf)
  BY <1>2, OpcodeFirst, Zenon
<1>5. Partial(d) = A /\ A \o <<>> = A /\ <<>> \in Seq(Nat)
  <2>1. Partial(d) = A
    BY <1>1 DEF Partial
  <2>2. A \o <<>> = A
    <3> HIDE DEF A
    <3> QED BY <1>4, ConcatEmptySeq
  <2> QED BY <2>1, <2>2
<1>6. A \o <<>> = Encoding(g) \o Z
  BY <1>5
<1>7. /\ d.opcode = g.op
      /\ Len(d.buf) >= d.header => loqui_get_data_payload_size(d) = n
  BY <1>1, <1>2, <1>5, <1>6, HeaderMatch
<1>8. Encoding(g) = E
  BY DEF Encoding, Payload
<1>9. Payload(g) \in Seq(Nat) /\ H \in Seq(Nat) /\ n \in Nat
  BY HeaderType DEF Frame, Payload
<1>10. Len(H) = 1 + d.header
  BY <1>2, <1>7, HeaderTable
<1> HIDE DEF o, H, n, A
<1>11. Len(E) = Len(H) + n
  BY <1>9, ConcatProperties DEF n
<1> HIDE DEF E
<1>12. Len(A) = Len(E) + Len(Z) /\ Len(Z) \in Nat
  <2>1. Len(Encoding(g) \o Z) = Len(Encoding(g)) + Len(Z) /\ Len(Z) \in Nat
    BY <1>0, ConcatProperties, LenProperties
  <2> QED BY <1>5, <1>8, <2>1, Zenon
<1>13. 1 + Len(d.buf) = ((1 + d.header) + n) + Len(Z)
  BY <1>4, <1>10, <1>11, <1>12, Zenon
<1>14. CASE d.remaining = 0
  <2>1. Len(d.buf) < d.header
    BY <1>2, <1>14
  <2>2. \A b, h, k, z \in Nat : b < h => 1 + b # ((1 + h) + k) + z
    OBVIOUS
  <2> QED BY <1>3, <1>9, <1>12, <1>13, <2>1, <2>2, ZenonT(40)
<1>15. CASE d.remaining > 0
  <2>1. Len(d.buf) + d.remaining = d.header + n
    BY <1>2, <1>7, <1>15, Zenon
  <2>2. \A b, m, h, k, z \in Nat :
          m > 0 /\ b + m = h + k => 1 + b # ((1 + h) + k) + z
    OBVIOUS
  <2> QED BY <1>3, <1>9, <1>12, <1>13, <1>15, <2>1, <2>2, Zenon
<1> QED BY <1>3, <1>14, <1>15

-----------------------------------------------------------------------------
(* Frames on their way *)

\* Of the frames of all, those of past have arrived and the bytes on their way
\* are those of the others.
Carried(all, past, bytes) ==
  \E rest \in Seq(Frame) : all = past \o rest /\ Bytes(rest) = bytes

AllProper(frames) == \A i \in 1..Len(frames) : Proper(frames[i])

\* The bytes of a list are bytes.
LEMMA BytesType == \A q \in Seq(Frame) : Bytes(q) \in Seq(Nat)
<1>1. [op |-> 1, flags |-> 0, seq |-> 0, code |-> 0, data |-> <<>>] \in Frame
  BY DEF Frame, Opcode
<1> QED BY <1>1, BytesAppend, Zenon

\* Lists of frames are put together in any order.
LEMMA AssocFrames == \A a, b, c \in Seq(Frame) : (a \o b) \o c = a \o (b \o c)
BY ConcatAssociative

\* At first nothing is on its way.
LEMMA CarriedNothing == Carried(<<>>, <<>>, <<>>)
<1>1. <<>> \in Seq(Frame)
  BY EmptySeq
<1>2. <<>> \o <<>> = <<>>
  BY <1>1, ConcatEmptySeq
<1>3. Bytes(<<>>) = <<>>
  BY BytesAppend
<1> QED BY <1>1, <1>2, <1>3, Zenon DEF Carried

\* A frame that is sent adds its encoding at the end.
LEMMA CarriedSend ==
  ASSUME NEW all \in Seq(Frame), NEW past \in Seq(Frame), NEW bytes,
         Carried(all, past, bytes), NEW f \in Frame
  PROVE  Carried(Append(all, f), past, bytes \o Encoding(f))
<1>1. PICK rest \in Seq(Frame) : all = past \o rest /\ Bytes(rest) = bytes
  BY DEF Carried
<1>2. Append(rest, f) \in Seq(Frame)
  BY AppendProperties
<1>3. past \o Append(rest, f) = Append(past \o rest, f)
  BY ConcatAppend
<1>4. Bytes(Append(rest, f)) = Bytes(rest) \o Encoding(f)
  BY BytesAppend, Zenon
<1> QED BY <1>1, <1>2, <1>3, <1>4, Zenon DEF Carried

\* The bytes of all the frames are those that have arrived and those that have not.
LEMMA CarriedWhole ==
  ASSUME NEW all \in Seq(Frame), NEW past \in Seq(Frame), NEW bytes,
         Carried(all, past, bytes)
  PROVE  Bytes(all) = Bytes(past) \o bytes
<1>1. PICK rest \in Seq(Frame) : all = past \o rest /\ Bytes(rest) = bytes
  BY DEF Carried
<1>2. Bytes(past \o rest) = Bytes(past) \o Bytes(rest)
  BY BytesConcat
<1> QED BY <1>1, <1>2, Zenon

\* A list is its first frame and the others.
LEMMA FirstFrame ==
  ASSUME NEW q \in Seq(Frame), q # <<>>
  PROVE  \E g \in Frame, t \in Seq(Frame) :
           /\ q = <<g>> \o t
           /\ Bytes(q) = Encoding(g) \o Bytes(t)
<1> DEFINE g == Head(q)
           t == Tail(q)
           o == <<g>>
<1>1. /\ g \in Frame /\ t \in Seq(Frame) /\ Len(t) = Len(q) - 1
      /\ \A i \in 1..Len(t) : t[i] = q[i + 1]
  BY HeadTailProperties
<1>2. Len(q) \in Nat /\ Len(q) >= 1 /\ g = q[1]
  BY EmptySeq
<1>3. o \in Seq(Frame) /\ Len(o) = 1 /\ o[1] = g
  BY <1>1
<1> HIDE DEF g, t, o
<1>4. q = o \o t
  <2>1. /\ o \o t \in Seq(Frame) /\ Len(o \o t) = Len(o) + Len(t)
        /\ \A i \in 1..Len(o) + Len(t) :
             (o \o t)[i] = IF i <= Len(o) THEN o[i] ELSE t[i - Len(o)]
    <3>1. o \in Seq(Frame) /\ t \in Seq(Frame)
      BY <1>1, <1>3
    <3> QED BY <3>1, ConcatProperties
  <2>2. Len(o) + Len(t) = Len(q)
    BY <1>1, <1>2, <1>3
  <2>3. ASSUME NEW i \in 1..Len(q) PROVE (o \o t)[i] = q[i]
    <3>1. (o \o t)[i] = IF i <= 1 THEN o[i] ELSE t[i - 1]
      BY <1>3, <2>1, <2>2, Zenon
    <3>2. CASE i = 1
      <4>1. i <= 1
        BY <3>2
      <4> QED BY <1>2, <1>3, <3>1, <3>2, <4>1
    <3>3. CASE i # 1
      <4>1. ~(i <= 1) /\ i - 1 \in 1..Len(t) /\ (i - 1) + 1 = i
        BY <1>1, <1>2, <3>3
      <4> QED BY <1>1, <3>1, <4>1
    <3> QED BY <3>2, <3>3
  <2>4. Len(q) = Len(o \o t) /\ \A i \in 1..Len(q) : q[i] = (o \o t)[i]
    BY <2>1, <2>2, <2>3
  <2> QED BY <2>1, <2>4, SeqEqual
<1>5. Bytes(o) = Encoding(g)
  <2>1. o = Append(<<>>, g) /\ <<>> \in Seq(Frame)
    BY DEF o
  <2>2. Bytes(Append(<<>>, g)) = <<>> \o Encoding(g)
    BY <1>1, <2>1, BytesAppend, Zenon
  <2>3. <<>> \o Encoding(g) = Encoding(g)
    BY <1>1, EncodingType, ConcatEmptySeq
  <2> QED BY <2>1, <2>2, <2>3, Zenon
<1>6. Bytes(o \o t) = Bytes(o) \o Bytes(t)
  BY <1>1, <1>3, BytesConcat
<1>7. Bytes(q) = Encoding(g) \o Bytes(t)
  BY <1>4, <1>5, <1>6, Zenon
<1> QED BY <1>1, <1>4, <1>7, Zenon DEF o

\* A frame that the decoder completes is the next that was sent.
LEMMA CarriedDecode ==
  ASSUME NEW all \in Seq(Frame), NEW past \in Seq(Frame), AllProper(all),
         NEW d, DOK(d), d.complete, NEW Y \in Seq(Nat),
         Carried(all, past, Partial(d) \o Y)
  PROVE  Carried(all, Append(past, Event(d)), Y)
<1>1. PICK rest \in Seq(Frame) : all = past \o rest /\ Bytes(rest) = Partial(d) \o Y
  BY DEF Carried
<1>2. rest # <<>>
  <2>1. d \in Decoder /\ d.opcode # 0
    BY DEF DOK
  <2> DEFINE A == <<d.opcode>> \o d.buf
  <2>2. A \in Seq(Nat) /\ Len(A) = 1 + Len(d.buf) /\ Len(d.buf) \in Nat
    <3>1. Len(d.buf) \in Nat
      BY <2>1 DEF Decoder
    <3> QED BY <2>1, <3>1, OpcodeFirst, Zenon
  <2>3. Partial(d) = A
    BY <2>1 DEF Partial
  <2> HIDE DEF A
  <2>4. A # <<>>
    BY <2>2
  <2>5. A \o Y # <<>>
    BY <2>2, <2>4, ConcatEqualIffEmpty
  <2>6. Bytes(<<>>) = <<>>
    BY BytesAppend
  <2> QED BY <1>1, <2>3, <2>5, <2>6, Zenon
<1>3. PICK g \in Frame, t \in Seq(Frame) :
        rest = <<g>> \o t /\ Bytes(rest) = Encoding(g) \o Bytes(t)
  BY <1>2, FirstFrame
<1>4. <<g>> \in Seq(Frame)
  OBVIOUS
<1>5. all = Append(past, g) \o t
  <2> DEFINE o == <<g>>
  <2>1. Append(past, g) = past \o o
    BY AppendIsConcat
  <2>2. o \in Seq(Frame)
    BY <1>4
  <2> HIDE DEF o
  <2>3. (past \o o) \o t = past \o (o \o t)
    BY <2>2, AssocFrames, ZenonT(40)
  <2>4. rest = o \o t
    BY <1>3 DEF o
  <2> QED BY <1>1, <2>1, <2>3, <2>4, Zenon
<1>6. Proper(g)
  <2>1. /\ Append(past, g) \in Seq(Frame) /\ Len(Append(past, g)) = Len(past) + 1
        /\ Append(past, g)[Len(past) + 1] = g
    BY AppendProperties
  <2> DEFINE a == Append(past, g)
  <2> HIDE DEF a
  <2>2. /\ Len(a \o t) = Len(a) + Len(t)
        /\ \A i \in 1..Len(a) + Len(t) :
             (a \o t)[i] = IF i <= Len(a) THEN a[i] ELSE t[i - Len(a)]
    BY <2>1, ConcatProperties DEF a
  <2>3. Len(past) \in Nat /\ Len(t) \in Nat /\ Len(a) = Len(past) + 1
    BY <2>1, LenProperties DEF a
  <2>4. Len(past) + 1 \in 1..Len(a) + Len(t) /\ Len(past) + 1 <= Len(a)
    BY <2>3
  <2>5. (a \o t)[Len(past) + 1] = a[Len(past) + 1]
    BY <2>2, <2>4
  <2>6. Len(past) + 1 \in 1..Len(a \o t)
    BY <2>2, <2>4
  <2> QED BY <1>5, <2>1, <2>5, <2>6, Zenon DEF a, AllProper
<1>7. Bytes(t) \in Seq(Nat)
  BY BytesType
<1>8. Partial(d) \o Y = Encoding(g) \o Bytes(t)
  BY <1>1, <1>3, Zenon
<1>9. Event(d) = g /\ Y = Bytes(t)
  BY <1>6, <1>7, <1>8, CompleteMatches
<1> QED BY <1>5, <1>9, Zenon DEF Carried

\* When an incomplete frame is all that is left, nothing is.
LEMMA CarriedAll ==
  ASSUME NEW all \in Seq(Frame), NEW past \in Seq(Frame),
         NEW d, DOK(d), ~d.complete, Carried(all, past, Partial(d))
  PROVE  all = past
<1>1. PICK rest \in Seq(Frame) : all = past \o rest /\ Bytes(rest) = Partial(d)
  BY DEF Carried
<1>2. CASE rest = <<>>
  <2>1. past \o <<>> = past
    BY ConcatEmptySeq
  <2> QED BY <1>1, <1>2, <2>1, Zenon
<1>3. CASE rest # <<>>
  <2>1. PICK g \in Frame, t \in Seq(Frame) :
          rest = <<g>> \o t /\ Bytes(rest) = Encoding(g) \o Bytes(t)
    BY <1>3, FirstFrame
  <2>2. Bytes(t) \in Seq(Nat)
    BY BytesType
  <2>3. Partial(d) # Encoding(g) \o Bytes(t)
    BY <2>2, IncompleteIsShort
  <2> QED BY <1>1, <2>1, <2>3, Zenon
<1> QED BY <1>2, <1>3

\* The unsent part of a buffer is bytes.
LEMMA UnsentType ==
  ASSUME NEW b, WOK(b)
  PROVE  Unsent(b) \in Seq(Nat) /\ Len(Unsent(b)) = Len(b.buf) - b.pos
BY TailPart DEF Unsent, WOK, Buffer

\* Writing adds to the unsent part, at its end.
LEMMA WriteAddsUnsent ==
  ASSUME NEW b, WOK(b), NEW bytes \in Seq(Nat)
  PROVE  Unsent(loqui_buffer_write(b, bytes)) = Unsent(b) \o bytes
<1> DEFINE c == loqui_buffer_write(b, bytes)
           q == b.buf
           p == b.pos
           a == q \o bytes
           u == SubSeq(q, p + 1, Len(q))
           v == SubSeq(a, p + 1, Len(a))
<1>1. q \in Seq(Nat) /\ p \in Nat /\ Len(q) \in Nat /\ p <= Len(q)
      /\ Len(bytes) \in Nat
  BY DEF WOK, Buffer
<1>2. c.buf = a /\ c.pos = p
  BY DEF loqui_buffer_write, WOK, Buffer
<1> HIDE DEF q, p
<1>3. /\ a \in Seq(Nat) /\ Len(a) = Len(q) + Len(bytes)
      /\ \A j \in 1..Len(q) : a[j] = q[j]
      /\ \A j \in 1..Len(bytes) : a[Len(q) + j] = bytes[j]
  BY <1>1, ConcatParts
<1> HIDE DEF a
<1>4. /\ u \in Seq(Nat) /\ Len(u) = Len(q) - p
      /\ \A i \in 1..Len(q) - p : u[i] = q[p + i]
  BY <1>1, SubSeqProperties, ElementOfSeq
<1>5. Len(a) \in Nat /\ p <= Len(a)
  BY <1>1, <1>3
<1>6. /\ v \in Seq(Nat) /\ Len(v) = Len(a) - p
      /\ \A i \in 1..Len(a) - p : v[i] = a[p + i]
  BY <1>1, <1>3, <1>5, SubSeqProperties, ElementOfSeq
<1> HIDE DEF u, v
<1>7. /\ u \o bytes \in Seq(Nat) /\ Len(u \o bytes) = Len(u) + Len(bytes)
      /\ \A j \in 1..Len(u) : (u \o bytes)[j] = u[j]
      /\ \A j \in 1..Len(bytes) : (u \o bytes)[Len(u) + j] = bytes[j]
  BY <1>4, ConcatParts
<1>8. Len(v) = Len(u \o bytes)
  BY <1>1, <1>3, <1>4, <1>6, <1>7
<1>9. ASSUME NEW i \in 1..Len(v) PROVE v[i] = (u \o bytes)[i]
  <2>0. i \in Nat /\ i >= 1 /\ i <= Len(a) - p /\ v[i] = a[p + i]
    BY <1>1, <1>5, <1>6
  <2>1. CASE i <= Len(u)
    <3>1. i \in 1..Len(u) /\ i \in 1..Len(q) - p /\ p + i \in 1..Len(q)
      BY <1>1, <1>4, <2>0, <2>1
    <3> QED BY <1>3, <1>4, <1>7, <2>0, <3>1
  <2>2. CASE ~(i <= Len(u))
    <3> DEFINE j == i - Len(u)
    <3>1. j \in 1..Len(bytes) /\ Len(u) + j = i /\ Len(q) + j = p + i
      <4>2. Len(u) = Len(q) - p /\ Len(a) = Len(q) + Len(bytes)
        BY <1>3, <1>4
      <4>3. ~(i <= Len(q) - p) /\ i <= (Len(q) + Len(bytes)) - p
        BY <2>0, <2>2, <4>2, Zenon
      <4>4. /\ i - (Len(q) - p) \in 1..Len(bytes)
            /\ (Len(q) - p) + (i - (Len(q) - p)) = i
            /\ Len(q) + (i - (Len(q) - p)) = p + i
        <5> DEFINE m == Len(q)
                   k == Len(bytes)
        <5>1. m \in Nat /\ k \in Nat /\ p \in Nat /\ i \in Nat /\ p <= m
          BY <1>1, <2>0
        <5>2. ~(i <= m - p) /\ i <= (m + k) - p
          BY <4>3
        <5> HIDE DEF m, k
        <5>3. /\ i - (m - p) \in 1..k
              /\ (m - p) + (i - (m - p)) = i
              /\ m + (i - (m - p)) = p + i
          BY ONLY <5>1, <5>2
        <5> QED BY <5>3 DEF m, k
      <4> QED BY <4>2, <4>4, Zenon
    <3> HIDE DEF j
    <3>2. a[Len(q) + j] = bytes[j] /\ (u \o bytes)[Len(u) + j] = bytes[j]
      BY <1>3, <1>7, <3>1
    <3> QED BY <2>0, <3>1, <3>2, Zenon
  <2> QED BY <2>1, <2>2, Zenon
<1>10. v = u \o bytes
  BY <1>6, <1>7, <1>8, <1>9, SeqEqual
<1>11. Unsent(c) = v /\ Unsent(b) = u
  BY <1>2 DEF Unsent, u, v, p, q
<1> QED BY <1>10, <1>11

\* Enqueueing a frame adds its encoding to the unsent part.
LEMMA AppendAddsUnsent ==
  ASSUME NEW b, WOK(b), NEW f \in Frame
  PROVE  Unsent(loqui_append(b, f)) = Unsent(b) \o Encoding(f)
<1> DEFINE h == loqui_buffer_write(b, Header(f))
<1>1. Header(f) \in Seq(Nat) /\ f.data \in Seq(Nat)
  BY HeaderType DEF Frame
<1>2. WOK(h) /\ Unsent(h) = Unsent(b) \o Header(f)
  BY <1>1, WriteKeepsBuffer, WriteAddsUnsent
<1>3. Unsent(b) \in Seq(Nat)
  BY UnsentType
<1> HIDE DEF h
<1>4. CASE HasPayload(f.op)
  <2>1. loqui_append(b, f) = loqui_buffer_write(h, f.data)
    BY <1>4 DEF loqui_append, h
  <2>2. Unsent(loqui_buffer_write(h, f.data)) = Unsent(h) \o f.data
    BY <1>1, <1>2, WriteAddsUnsent
  <2>3. (Unsent(b) \o Header(f)) \o f.data = Unsent(b) \o (Header(f) \o f.data)
    BY <1>1, <1>3, Assoc, ZenonT(40)
  <2>4. Encoding(f) = Header(f) \o f.data
    BY <1>4 DEF Encoding
  <2> QED BY <1>2, <2>1, <2>2, <2>3, <2>4, Zenon
<1>5. CASE ~HasPayload(f.op)
  <2>1. loqui_append(b, f) = h
    BY <1>5 DEF loqui_append, h
  <2>2. Encoding(f) = Header(f) \o <<>>
    BY <1>5 DEF Encoding
  <2>3. Header(f) \o <<>> = Header(f)
    BY <1>1, ConcatEmptySeq
  <2> QED BY <1>2, <2>1, <2>2, <2>3, Zenon
<1> QED BY <1>4, <1>5

\* Consuming k bytes, with the reset or the compaction that follows, takes them
\* from the front of the unsent part and leaves the rest as it was.
LEMMA ConsumeTakesUnsent ==
  ASSUME NEW b, WOK(b), NEW k \in Nat, k <= Len(b.buf) - b.pos,
         NEW c \in _reset_or_compact_write_buf([b EXCEPT !.pos = @ + k])
  PROVE  SubSeq(b.buf, b.pos + 1, b.pos + k) \o Unsent(c) = Unsent(b)
<1> DEFINE e == [b EXCEPT !.pos = @ + k]
<1>1. WOK(e) /\ e.buf = b.buf /\ e.pos = b.pos + k
  BY SMTT(30) DEF WOK, Buffer
<1>2. b.buf \in Seq(Nat) /\ b.pos \in Nat /\ Len(b.buf) \in Nat
      /\ b.pos + k <= Len(b.buf)
  BY DEF WOK, Buffer
<1>3. Unsent(c) = Unsent(e)
  <2>1. Unsent(e) \in Seq(Nat) /\ Len(Unsent(e)) = Len(e.buf) - e.pos
    BY <1>1, UnsentType
  <2>2. CASE e.pos = Len(e.buf)
    <3>1. c = [buf |-> <<>>, pos |-> 0, alloc |-> Recycled(e.alloc)]
      BY <2>2 DEF _reset_or_compact_write_buf
    <3>2. c.buf = <<>> /\ c.pos = 0
      BY <3>1
    <3>3. Unsent(c) = <<>>
      BY <3>2 DEF Unsent
    <3>4. Unsent(e) = <<>>
      <4> HIDE DEF e
      <4>1. Len(Unsent(e)) = 0
        BY <1>1, <1>2, <2>1, <2>2
      <4> QED BY <2>1, <4>1, EmptySeq
    <3> QED BY <3>3, <3>4
  <2>3. CASE e.pos # Len(e.buf) /\ Compacts(e)
    <3>1. PICK m \in memcpy(e) : c = [buf |-> m, pos |-> 0, alloc |-> e.alloc]
      BY <2>3 DEF _reset_or_compact_write_buf
    <3> HIDE DEF e
    <3>2. m = Unsent(e)
      <4>1. Len(e.buf) - e.pos <= e.pos
        BY <1>1, <2>3, CompactionApart
      <4> QED BY <3>1, <4>1 DEF memcpy
    <3>3. c.buf = m /\ c.pos = 0
      BY <3>1
    <3>4. Unsent(c) = SubSeq(m, 1, Len(m))
      BY <3>3 DEF Unsent
    <3>5. SubSeq(m, 1, Len(m)) = m
      BY <2>1, <3>2, SubSeqFull
    <3> QED BY <3>2, <3>4, <3>5, Zenon
  <2>4. CASE e.pos # Len(e.buf) /\ ~Compacts(e)
    <3>1. c = e
      BY <2>4 DEF _reset_or_compact_write_buf
    <3> QED BY <3>1
  <2> QED BY <2>2, <2>3, <2>4
<1>4. Unsent(e) = SubSeq(b.buf, (b.pos + k) + 1, Len(b.buf))
  BY <1>1 DEF Unsent
<1>5. SubSeq(b.buf, b.pos + 1, b.pos + k)
        \o SubSeq(b.buf, (b.pos + k) + 1, Len(b.buf))
        = SubSeq(b.buf, b.pos + 1, Len(b.buf))
  <2>1. /\ b.pos + 1 \in 1..Len(b.buf) + 1
        /\ b.pos + k \in (b.pos + 1) - 1..Len(b.buf)
        /\ Len(b.buf) \in b.pos + k..Len(b.buf)
    BY <1>2
  <2> QED BY <1>2, <2>1, ConcatAdjacentSubSeq
<1> HIDE DEF e
<1> QED BY <1>3, <1>4, <1>5, Zenon DEF Unsent

-----------------------------------------------------------------------------
(* The streams *)

\* The frames that a side has decoded, and the bytes on the way from a side.
Past(s) == got[s] \o events[s]
Pending(s) ==
  Partial(dec[Peer(s)]) \o chunk[Peer(s)] \o wire[s] \o Unsent(w[s])

\* The frames that s has enqueued are those its peer has decoded and those whose
\* bytes are on their way.
Flow(s) ==
  ~failed[Peer(s)] =>
    /\ ~dec[Peer(s)].complete
    /\ Carried(sent[s], Past(Peer(s)), Pending(s))

Answers(s) == ~failed[s] => Seqs(sent[s], Pong) = Seqs(Past(s), Ping)

\* A call that has returned holds no events back.
Quiet(s) == chunk[s] = <<>> => events[s] = <<>>

Scripted(frames) ==
  \A i \in 1..Len(frames) : Proper(frames[i]) /\ frames[i].op # Pong

\* The inductive invariant of the streams, on top of IInv.
SInv ==
  \A s \in Side : /\ Flow(s) /\ Answers(s) /\ Quiet(s)
                  /\ Scripted(script[s]) /\ AllProper(sent[s])

\* There are two sides, each the peer of the other.
LEMMA Sides ==
  ASSUME NEW s \in Side
  PROVE  /\ Peer(s) \in Side /\ Peer(s) # s /\ Peer(Peer(s)) = s
         /\ \A t \in Side : t = s \/ t = Peer(s)
BY DEF Side, Peer

\* The types of what is on its way.
LEMMA PendingParts ==
  ASSUME IInv, NEW s \in Side
  PROVE  /\ Partial(dec[s]) \in Seq(Nat) /\ chunk[s] \in Seq(Nat)
         /\ wire[s] \in Seq(Nat) /\ Unsent(w[s]) \in Seq(Nat)
         /\ Past(s) \in Seq(Frame) /\ sent[s] \in Seq(Frame)
         /\ got[s] \in Seq(Frame) /\ events[s] \in Seq(Frame)
<1>1. DOK(dec[s]) /\ WOK(w[s]) /\ dec[s] \in Decoder
  BY DEF IInv, DOK
<1>2. Partial(dec[s]) \in Seq(Nat)
  <2>1. <<dec[s].opcode>> \o dec[s].buf \in Seq(Nat)
    BY <1>1, OpcodeFirst, Zenon
  <2> QED BY <2>1 DEF Partial
<1>3. Unsent(w[s]) \in Seq(Nat)
  BY <1>1, UnsentType
<1>4. /\ chunk[s] \in Seq(Nat) /\ wire[s] \in Seq(Nat) /\ got[s] \in Seq(Frame)
      /\ events[s] \in Seq(Frame) /\ sent[s] \in Seq(Frame)
  BY DEF IInv, TypeOK
<1>5. Past(s) \in Seq(Frame)
  BY <1>4, ConcatProperties DEF Past
<1> QED BY <1>2, <1>3, <1>4, <1>5

\* A frame that is added to others, all in order, leaves them so.
LEMMA ProperAppend ==
  ASSUME NEW q \in Seq(Frame), AllProper(q), NEW f \in Frame, Proper(f)
  PROVE  AllProper(Append(q, f))
<1> DEFINE a == Append(q, f)
<1>1. /\ Len(a) = Len(q) + 1 /\ a[Len(q) + 1] = f
      /\ \A i \in 1..Len(q) : a[i] = q[i]
  BY AppendProperties
<1>2. Len(q) \in Nat
  BY LenProperties
<1> HIDE DEF a
<1>3. ASSUME NEW i \in 1..Len(a) PROVE Proper(a[i])
  <2>1. i \in 1..Len(q) \/ i = Len(q) + 1
    BY <1>1, <1>2
  <2> QED BY <1>1, <2>1, Zenon DEF AllProper
<1> QED BY <1>3 DEF AllProper, a

\* What is left of a script.
LEMMA ScriptedTail ==
  ASSUME NEW q \in Seq(Frame), q # <<>>, Scripted(q)
  PROVE  /\ Scripted(Tail(q)) /\ Head(q) \in Frame
         /\ Proper(Head(q)) /\ Head(q).op # Pong
<1>1. /\ Len(Tail(q)) = Len(q) - 1 /\ Head(q) \in Frame
      /\ \A i \in 1..Len(Tail(q)) : Tail(q)[i] = q[i + 1]
  BY HeadTailProperties
<1>2. Len(q) \in Nat /\ Len(q) >= 1 /\ Head(q) = q[1]
  BY EmptySeq
<1>3. 1 \in 1..Len(q) /\ \A i \in 1..(Len(q) - 1) : i + 1 \in 1..Len(q)
  BY <1>2
<1>4. Scripted(Tail(q))
  BY <1>1, <1>3, Zenon DEF Scripted
<1>5. Proper(q[1]) /\ q[1].op # Pong
  BY <1>3, Zenon DEF Scripted
<1> QED BY <1>1, <1>2, <1>4, <1>5, Zenon

\* A stream is left as it was by what does not touch it.
LEMMA FlowKept ==
  ASSUME NEW t \in Side, Flow(t), failed'[Peer(t)] = failed[Peer(t)],
         dec'[Peer(t)].complete = dec[Peer(t)].complete, sent'[t] = sent[t],
         Past(Peer(t))' = Past(Peer(t)), Pending(t)' = Pending(t)
  PROVE  Flow(t)'
BY Zenon DEF Flow

\* Nothing is on its way when the handlers are created.
LEMMA InitSInv == Init => SInv
<1> SUFFICES ASSUME Init, NEW s \in Side
             PROVE  /\ Flow(s) /\ Answers(s) /\ Quiet(s)
                    /\ Scripted(script[s]) /\ AllProper(sent[s])
  BY DEF SInv
<1>1. Peer(s) \in Side
  BY Sides
<1>2. \A t \in Side : /\ w[t] = FreshBuffer /\ wire[t] = <<>> /\ dec[t] = FreshDecoder
                      /\ chunk[t] = <<>> /\ events[t] = <<>> /\ got[t] = <<>>
                      /\ sent[t] = <<>>
  BY DEF Init
<1>3. Partial(FreshDecoder) = <<>> /\ ~FreshDecoder.complete
  BY DEF Partial, FreshDecoder
<1>4. Unsent(FreshBuffer) = <<>>
  BY DEF Unsent, FreshBuffer
<1>5. <<>> \o <<>> = <<>>
  OBVIOUS
<1>6. \A t \in Side : Past(t) = <<>>
  BY <1>2, <1>5, Zenon DEF Past
<1>7. Pending(s) = <<>>
  BY <1>1, <1>2, <1>3, <1>4, <1>5, Zenon DEF Pending
<1>8. Flow(s)
  BY <1>1, <1>2, <1>3, <1>6, <1>7, CarriedNothing, Zenon DEF Flow
<1>9. Answers(s)
  <2>1. Seqs(<<>>, Pong) = <<>> /\ Seqs(<<>>, Ping) = <<>>
    BY SeqsAppend
  <2> QED BY <1>2, <1>6, <2>1, Zenon DEF Answers
<1>10. Quiet(s)
  BY <1>2 DEF Quiet
<1>11. Scripted(script[s])
  <2>1. script \in Scripts /\ script[s] \in Seq(Frame)
    BY ScriptsAssumption DEF Init
  <2>2. \A i \in DOMAIN script[s] : Proper(script[s][i]) /\ script[s][i].op # Pong
    BY <2>1, ScriptsAssumption
  <2>3. DOMAIN script[s] = 1..Len(script[s])
    BY <2>1, LenProperties
  <2> QED BY <2>2, <2>3, Zenon DEF Scripted
<1>12. AllProper(sent[s])
  BY <1>2 DEF AllProper
<1> QED BY <1>8, <1>9, <1>10, <1>11, <1>12

\* Enqueueing a frame puts its encoding behind what is on its way.
LEMMA EnqueueFlow ==
  ASSUME IInv, NEW s \in Side, Flow(s), NEW f \in Frame,
         w'[s] = loqui_append(w[s], f), sent'[s] = Append(sent[s], f),
         wire'[s] = wire[s], failed'[Peer(s)] = failed[Peer(s)],
         dec'[Peer(s)] = dec[Peer(s)], chunk'[Peer(s)] = chunk[Peer(s)],
         Past(Peer(s))' = Past(Peer(s))
  PROVE  Flow(s)'
<1> DEFINE p == Peer(s)
           x == Partial(dec[p]) \o chunk[p] \o wire[s]
<1>0. p \in Side
  BY Sides
<1>1. Unsent(w'[s]) = Unsent(w[s]) \o Encoding(f)
  BY AppendAddsUnsent DEF IInv
<1>2. x \in Seq(Nat) /\ Unsent(w[s]) \in Seq(Nat) /\ Encoding(f) \in Seq(Nat)
  <2>1. Partial(dec[p]) \in Seq(Nat) /\ chunk[p] \in Seq(Nat)
        /\ wire[s] \in Seq(Nat) /\ Unsent(w[s]) \in Seq(Nat)
    BY <1>0, PendingParts
  <2>2. Partial(dec[p]) \o chunk[p] \in Seq(Nat)
    BY <2>1, ConcatParts, Zenon
  <2>3. x \in Seq(Nat)
    BY <2>1, <2>2, ConcatParts, Zenon
  <2> QED BY <2>1, <2>3, EncodingType
<1>3. Pending(s) = x \o Unsent(w[s]) /\ Pending(s)' = x \o Unsent(w'[s])
  BY DEF Pending
<1> HIDE DEF x
<1>4. (x \o Unsent(w[s])) \o Encoding(f) = x \o (Unsent(w[s]) \o Encoding(f))
  BY <1>2, Assoc, ZenonT(40)
<1>5. Pending(s)' = Pending(s) \o Encoding(f)
  BY <1>1, <1>3, <1>4, Zenon
<1>6. ASSUME ~failed[p]
      PROVE  /\ ~dec[p].complete
             /\ Carried(Append(sent[s], f), Past(p), Pending(s) \o Encoding(f))
  <2>1. ~dec[p].complete /\ Carried(sent[s], Past(p), Pending(s))
    BY <1>6, Zenon DEF Flow
  <2>2. sent[s] \in Seq(Frame) /\ Past(p) \in Seq(Frame)
    BY <1>0, PendingParts
  <2> QED BY <2>1, <2>2, CarriedSend
<1> QED BY <1>5, <1>6, Zenon DEF Flow

\* Enqueueing a frame of the script keeps the streams whole.
LEMMA SendKeepsS ==
  ASSUME IInv, SInv, NEW s \in Side, Send(s)
  PROVE  SInv'
<1> DEFINE p == Peer(s)
           n == next_seq(seq[s])
           f == IF TakesSeq(Head(script[s]))
                THEN [Head(script[s]) EXCEPT !.seq = n] ELSE Head(script[s])
<1>0. /\ p \in Side /\ p # s /\ Peer(p) = s
      /\ \A t \in Side : t = s \/ t = p
  BY Sides
<1>1. /\ Flow(s) /\ Answers(s) /\ Quiet(s) /\ Scripted(script[s]) /\ AllProper(sent[s])
      /\ Flow(p) /\ Answers(p) /\ Quiet(p) /\ Scripted(script[p]) /\ AllProper(sent[p])
  BY <1>0 DEF SInv
<1>2. n \in Nat
  BY SizesAssumption DEF IInv, TypeOK, next_seq
<1>3. script[s] \in Seq(Frame) /\ script[s] # <<>>
  BY DEF IInv, TypeOK, Send
<1>4. /\ Scripted(Tail(script[s])) /\ Head(script[s]) \in Frame
      /\ Proper(Head(script[s])) /\ Head(script[s]).op # Pong
  BY <1>1, <1>3, ScriptedTail
<1> HIDE DEF n
<1>5. f \in Frame /\ Proper(f) /\ f.op # Pong
  <2> DEFINE h == Head(script[s])
             e == [h EXCEPT !.seq = n]
  <2>1. h \in Frame /\ Proper(h) /\ h.op # Pong
    BY <1>4
  <2> HIDE DEF h
  <2>2. e \in Frame
    BY <1>2, <2>1, Zenon DEF Frame
  <2>3. e.op = h.op /\ e.code = h.code /\ e.data = h.data /\ e.seq = n
    BY <2>1 DEF Frame
  <2>4. TakesSeq(h) => Proper(e)
    BY <2>1, <2>3 DEF Proper, TakesSeq, Ping, Pong, Request, Response, Push,
                      Hello, HelloAck, GoAway
  <2> HIDE DEF e
  <2>5. f = IF TakesSeq(h) THEN e ELSE h
    BY DEF e, h
  <2> HIDE DEF f
  <2>6. CASE TakesSeq(h)
    BY <2>1, <2>2, <2>3, <2>4, <2>5, <2>6, Zenon
  <2>7. CASE ~TakesSeq(h)
    BY <2>1, <2>5, <2>7, Zenon
  <2> QED BY <2>6, <2>7, Zenon
<1> HIDE DEF f
<1>6. /\ w' = [w EXCEPT ![s] = loqui_append(@, f)]
      /\ sent' = [sent EXCEPT ![s] = Append(@, f)]
      /\ script' = [script EXCEPT ![s] = Tail(@)]
      /\ UNCHANGED <<wire, dec, chunk, events, got, failed>>
  BY DEF Send, f, n
<1>7. /\ w'[s] = loqui_append(w[s], f) /\ w'[p] = w[p]
      /\ sent'[s] = Append(sent[s], f) /\ sent'[p] = sent[p]
      /\ script'[s] = Tail(script[s]) /\ script'[p] = script[p]
  BY <1>0, <1>6 DEF IInv, TypeOK
<1>8. wire' = wire /\ dec' = dec /\ chunk' = chunk /\ events' = events /\ got' = got
      /\ failed' = failed
  BY <1>6
<1>9. Past(s)' = Past(s) /\ Past(p)' = Past(p)
  BY <1>8, Zenon DEF Past
<1>12. Flow(s)'
  BY <1>1, <1>5, <1>7, <1>8, <1>9, EnqueueFlow, Zenon
<1>13. Flow(p)'
  <2>1. Pending(p)' = Pending(p)
    BY <1>0, <1>7, <1>8, Zenon DEF Pending
  <2> QED BY <1>0, <1>1, <1>7, <1>8, <1>9, <2>1, FlowKept, Zenon
<1>14. Answers(s)'
  <2>1. Seqs(Append(sent[s], f), Pong) = Seqs(sent[s], Pong)
    <3>1. sent[s] \in Seq(Frame)
      BY PendingParts
    <3>2. Seqs(sent[s], Pong) \in Seq(Nat)
      BY <3>1, SeqsType
    <3>3. Seqs(Append(sent[s], f), Pong) = Seqs(sent[s], Pong) \o OwnSeq(f, Pong)
      BY <1>5, <3>1, SeqsAppend, Zenon
    <3>4. OwnSeq(f, Pong) = <<>>
      BY <1>5 DEF OwnSeq
    <3>5. Seqs(sent[s], Pong) \o <<>> = Seqs(sent[s], Pong)
      BY <3>2, ConcatEmptySeq, Zenon
    <3> QED BY <3>3, <3>4, <3>5, Zenon
  <2> QED BY <1>1, <1>7, <1>8, <1>9, <2>1, Zenon DEF Answers
<1>15. Answers(p)'
  BY <1>1, <1>7, <1>8, <1>9, Zenon DEF Answers
<1>16. Quiet(s)' /\ Quiet(p)'
  BY <1>1, <1>8, Zenon DEF Quiet
<1>17. Scripted(script'[s]) /\ Scripted(script'[p])
  BY <1>1, <1>4, <1>7, Zenon
<1>18. AllProper(sent'[s]) /\ AllProper(sent'[p])
  <2>1. sent[s] \in Seq(Frame)
    BY PendingParts
  <2>2. AllProper(Append(sent[s], f))
    BY <1>1, <1>5, <2>1, ProperAppend
  <2> QED BY <1>1, <1>7, <2>2, Zenon
<1> HIDE DEF p
<1> QED BY <1>0, <1>12, <1>13, <1>14, <1>15, <1>16, <1>17, <1>18, Zenon DEF SInv

\* A step that moves bytes along a stream and touches nothing else.
LEMMA MoveKeepsS ==
  ASSUME SInv, UNCHANGED <<script, dec, got, sent, failed>>,
         \A t \in Side : /\ Pending(t)' = Pending(t)
                         /\ events'[t] = events[t]
                         /\ Quiet(t)'
  PROVE  SInv'
<1> SUFFICES ASSUME NEW t \in Side
             PROVE  /\ Flow(t)' /\ Answers(t)' /\ Quiet(t)'
                    /\ Scripted(script'[t]) /\ AllProper(sent'[t])
  BY DEF SInv
<1>1. Flow(t) /\ Answers(t) /\ Scripted(script[t]) /\ AllProper(sent[t])
  BY DEF SInv
<1>2. script' = script /\ dec' = dec /\ got' = got /\ sent' = sent /\ failed' = failed
  OBVIOUS
<1>3. Peer(t) \in Side
  BY Sides
<1>4. Past(t)' = Past(t) /\ Past(Peer(t))' = Past(Peer(t))
  BY <1>2, <1>3, Zenon DEF Past
<1>5. Flow(t)'
  BY <1>1, <1>2, <1>4, FlowKept, Zenon
<1>6. Answers(t)'
  BY <1>1, <1>2, <1>4, Zenon DEF Answers
<1> QED BY <1>1, <1>2, <1>5, <1>6, Zenon

\* Sending moves bytes from the buffer to the wire.
LEMMA WriteBytesKeepsS ==
  ASSUME IInv, SInv, NEW s \in Side, WriteBytes(s)
  PROVE  SInv'
<1> DEFINE left == Len(w[s].buf) - w[s].pos
<1>1. WOK(w[s]) /\ left \in Nat
  BY DEF IInv, WOK, Buffer
<1>2. Min({OutMax, left}) \in Nat /\ Min({OutMax, left}) <= left
  BY <1>1, SizesAssumption, MinOfTwo
<1>3. PICK k \in 1..Min({OutMax, left}) :
        /\ wire' = [wire EXCEPT ![s] =
                      @ \o SubSeq(w[s].buf, w[s].pos + 1, w[s].pos + k)]
        /\ \E b \in _reset_or_compact_write_buf([w[s] EXCEPT !.pos = @ + k]) :
             w' = [w EXCEPT ![s] = b]
  BY DEF WriteBytes
<1>4. k \in Nat /\ k <= left
  BY <1>1, <1>2, <1>3
<1>5. PICK b \in _reset_or_compact_write_buf([w[s] EXCEPT !.pos = @ + k]) :
        w' = [w EXCEPT ![s] = b]
  BY <1>3
<1> DEFINE x == SubSeq(w[s].buf, w[s].pos + 1, w[s].pos + k)
<1>6. x \o Unsent(b) = Unsent(w[s])
  BY <1>1, <1>4, <1>5, ConsumeTakesUnsent
<1>7. x \in Seq(Nat)
  <2>1. w[s].buf \in Seq(Nat) /\ w[s].pos \in Nat /\ w[s].pos + k <= Len(w[s].buf)
    BY <1>1, <1>4 DEF WOK, Buffer
  <2> QED BY <1>4, <2>1, MiddlePart
<1>8. Unsent(b) \in Seq(Nat)
  <2>1. WOK(b)
    BY <1>1, <1>4, <1>5, ConsumeKeepsBuffer
  <2> QED BY <2>1, UnsentType
<1>9. wire' = [wire EXCEPT ![s] = wire[s] \o x]
  BY <1>3 DEF IInv, TypeOK
<1> HIDE DEF x
<1>10. UNCHANGED <<script, dec, chunk, events, got, sent, failed>>
  BY DEF WriteBytes
<1>11. ASSUME NEW t \in Side PROVE Pending(t)' = Pending(t)
  <2>1. CASE t = s
    <3> DEFINE y == Partial(dec[Peer(s)]) \o chunk[Peer(s)]
    <3>1. y \in Seq(Nat) /\ wire[s] \in Seq(Nat)
      <4>1. Partial(dec[Peer(s)]) \in Seq(Nat) /\ chunk[Peer(s)] \in Seq(Nat)
            /\ wire[s] \in Seq(Nat)
        BY Sides, PendingParts
      <4> QED BY <4>1, ConcatParts, Zenon
    <3>2. wire'[s] = wire[s] \o x /\ w'[s] = b
      BY <1>5, <1>9 DEF IInv, TypeOK
    <3>3. /\ Pending(s) = (y \o wire[s]) \o Unsent(w[s])
          /\ Pending(s)' = (y \o (wire[s] \o x)) \o Unsent(b)
      BY <1>10, <3>2 DEF Pending
    <3> HIDE DEF y
    <3>4. wire[s] \o x \in Seq(Nat) /\ x \o Unsent(b) \in Seq(Nat)
          /\ y \o wire[s] \in Seq(Nat)
      BY <1>7, <1>8, <3>1, ConcatParts, Zenon
    <3>5. y \o (wire[s] \o x) = (y \o wire[s]) \o x
      BY <1>7, <3>1, Assoc, ZenonT(40)
    <3>6. ((y \o wire[s]) \o x) \o Unsent(b) = (y \o wire[s]) \o (x \o Unsent(b))
      BY <1>7, <1>8, <3>4, Assoc, ZenonT(40)
    <3>7. Pending(s)' = Pending(s)
      BY <1>6, <3>3, <3>5, <3>6, Zenon
    <3> QED BY <2>1, <3>7, Zenon
  <2>2. CASE t # s
    <3>1. wire'[t] = wire[t] /\ w'[t] = w[t]
      BY <1>5, <1>9, <2>2 DEF IInv, TypeOK
    <3> QED BY <1>10, <3>1 DEF Pending
  <2> QED BY <2>1, <2>2
<1>12. \A t \in Side : Quiet(t)' /\ events'[t] = events[t]
  BY <1>10 DEF SInv, Quiet
<1> QED BY <1>10, <1>11, <1>12, MoveKeepsS

\* A sequence cut anywhere is its two parts.
LEMMA CutInTwo ==
  ASSUME NEW t \in Seq(Nat), NEW k \in 0..Len(t)
  PROVE  SubSeq(t, 1, k) \o SubSeq(t, k + 1, Len(t)) = t
<1>1. Len(t) \in Nat /\ 1 \in 1..Len(t) + 1 /\ k \in 1 - 1..Len(t)
      /\ Len(t) \in k..Len(t)
  OBVIOUS
<1>2. SubSeq(t, 1, k) \o SubSeq(t, k + 1, Len(t)) = SubSeq(t, 1, Len(t))
  BY <1>1, ConcatAdjacentSubSeq
<1> QED BY <1>2, SubSeqFull

\* A recv moves bytes from the wire to the chunk.
LEMMA ReceiveKeepsS ==
  ASSUME IInv, SInv, NEW s \in Side, Receive(s)
  PROVE  SInv'
<1> DEFINE p == Peer(s)
<1>0. /\ p \in Side /\ p # s /\ Peer(p) = s
      /\ \A t \in Side : t = s \/ t = p
  BY Sides
<1>1. wire[p] \in Seq(Nat) /\ chunk[s] = <<>> /\ Len(wire[p]) \in Nat
  BY <1>0 DEF IInv, TypeOK, Receive
<1>2. PICK n \in 1..Len(wire[p]) :
        /\ chunk' = [chunk EXCEPT ![s] = SubSeq(wire[p], 1, n)]
        /\ wire' = [wire EXCEPT ![p] = SubSeq(@, n + 1, Len(@))]
  BY DEF Receive
<1> DEFINE x == SubSeq(wire[p], 1, n)
           y == SubSeq(wire[p], n + 1, Len(wire[p]))
<1>3. n \in Nat /\ n <= Len(wire[p])
  BY <1>1, <1>2
<1>4. x \in Seq(Nat) /\ y \in Seq(Nat)
  BY <1>1, <1>3, HeadPart, TailPart
<1>5. x \o y = wire[p]
  <2>1. n \in 0..Len(wire[p])
    BY <1>1, <1>3
  <2> QED BY <1>1, <2>1, CutInTwo, Zenon
<1>6. /\ chunk'[s] = x /\ chunk'[p] = chunk[p]
      /\ wire'[p] = y /\ wire'[s] = wire[s]
  BY <1>0, <1>2 DEF IInv, TypeOK
<1> HIDE DEF x, y
<1>7. UNCHANGED <<script, w, dec, events, got, sent, failed>>
  BY DEF Receive
<1>8. Pending(s)' = Pending(s)
  BY <1>6, <1>7 DEF Pending
<1>9. Pending(p)' = Pending(p)
  <2> DEFINE d == Partial(dec[s])
             u == Unsent(w[p])
  <2>1. d \in Seq(Nat)
    BY PendingParts
  <2>2. Pending(p) = ((d \o <<>>) \o wire[p]) \o u /\ Pending(p)' = ((d \o x) \o y) \o u
    BY <1>0, <1>1, <1>6, <1>7 DEF Pending
  <2> HIDE DEF d, u
  <2>3. d \o <<>> = d
    BY <2>1, ConcatEmptySeq
  <2>4. (d \o x) \o y = d \o (x \o y)
    BY <1>4, <2>1, Assoc, ZenonT(40)
  <2> QED BY <1>5, <2>2, <2>3, <2>4, Zenon
<1>10. Quiet(s) /\ Quiet(p)
  BY <1>0 DEF SInv
<1>11. Quiet(s)' /\ Quiet(p)'
  BY <1>1, <1>6, <1>7, <1>10 DEF Quiet
<1>12. \A t \in Side : Pending(t)' = Pending(t) /\ Quiet(t)' /\ events'[t] = events[t]
  <2> HIDE DEF p
  <2>1. events' = events
    BY <1>7
  <2> QED BY <1>0, <1>8, <1>9, <1>11, <2>1, Zenon
<1> QED BY <1>7, <1>12, MoveKeepsS

\* The bookkeeping of on_bytes_received: the events are with those that the
\* calls returned, or will be.
LEMMA ContinuePast ==
  ASSUME IInv, NEW s \in Side, NEW rest \in Seq(Nat), NEW list \in Seq(Frame),
         Continue(s, rest, list)
  PROVE  /\ chunk'[s] = rest
         /\ Past(s)' = got[s] \o list
         /\ Quiet(s)'
         /\ \A t \in Side : t # s => chunk'[t] = chunk[t] /\ Past(t)' = Past(t)
                                     /\ (Quiet(t) => Quiet(t)')
<1>1. /\ chunk'[s] = rest
      /\ events'[s] = (IF rest = <<>> THEN <<>> ELSE list)
      /\ got'[s] = (IF rest = <<>> THEN got[s] \o list ELSE got[s])
  BY DEF IInv, TypeOK, Continue
<1>2. \A t \in Side : t # s => /\ chunk'[t] = chunk[t] /\ events'[t] = events[t]
                               /\ got'[t] = got[t]
  BY DEF IInv, TypeOK, Continue
<1>3. got[s] \o list \in Seq(Frame)
  BY ConcatProperties DEF IInv, TypeOK
<1>4. (got[s] \o list) \o <<>> = got[s] \o list
  BY <1>3, ConcatEmptySeq
<1>5. Past(s)' = got[s] \o list
  <2>1. CASE rest = <<>>
    BY <1>1, <1>4, <2>1, Zenon DEF Past
  <2>2. CASE rest # <<>>
    BY <1>1, <2>2, Zenon DEF Past
  <2> QED BY <2>1, <2>2, Zenon
<1>6. Quiet(s)'
  BY <1>1, Zenon DEF Quiet
<1>7. \A t \in Side : t # s => chunk'[t] = chunk[t] /\ Past(t)' = Past(t)
                               /\ (Quiet(t) => Quiet(t)')
  BY <1>2, Zenon DEF Past, Quiet
<1> QED BY <1>1, <1>5, <1>6, <1>7, Zenon

\* A call that raises ends the claim about the stream to its side, and leaves
\* the other stream alone.
LEMMA RaiseKeepsS ==
  ASSUME IInv, SInv, NEW s \in Side, NEW d, Raise(s, d)
  PROVE  SInv'
<1> DEFINE p == Peer(s)
<1>0. /\ p \in Side /\ p # s /\ Peer(p) = s
      /\ \A t \in Side : t = s \/ t = p
  BY Sides
<1>1. /\ Flow(s) /\ Answers(p) /\ Quiet(p)
      /\ Scripted(script[s]) /\ AllProper(sent[s])
      /\ Scripted(script[p]) /\ AllProper(sent[p])
  BY <1>0 DEF SInv
<1>2. /\ failed'[s] = TRUE /\ failed'[p] = failed[p]
      /\ dec'[p] = dec[p] /\ chunk'[p] = chunk[p] /\ events'[p] = events[p]
      /\ events'[s] = <<>>
  BY <1>0 DEF IInv, TypeOK, Raise
<1>3. script' = script /\ w' = w /\ wire' = wire /\ got' = got /\ sent' = sent
  BY DEF Raise
<1>4. Past(p)' = Past(p)
  BY <1>2, <1>3, Zenon DEF Past
<1>5. Pending(s)' = Pending(s)
  BY <1>2, <1>3, Zenon DEF Pending
<1>6. Flow(s)'
  BY <1>1, <1>2, <1>3, <1>4, <1>5, FlowKept, Zenon
<1>7. Flow(p)'
  BY <1>0, <1>2, Zenon DEF Flow
<1>8. Answers(s)'
  BY <1>2, Zenon DEF Answers
<1>9. Answers(p)'
  BY <1>1, <1>2, <1>3, <1>4, Zenon DEF Answers
<1>10. Quiet(s)' /\ Quiet(p)'
  BY <1>1, <1>2, Zenon DEF Quiet
<1>11. /\ Scripted(script'[s]) /\ AllProper(sent'[s])
       /\ Scripted(script'[p]) /\ AllProper(sent'[p])
  BY <1>1, <1>3, Zenon
<1> HIDE DEF p
<1> QED BY <1>0, <1>6, <1>7, <1>8, <1>9, <1>10, <1>11, Zenon DEF SInv

\* An incomplete frame takes the whole chunk.
LEMMA NeedsMoreKeepsS ==
  ASSUME IInv, SInv, NEW s \in Side, DecodeNeedsMore(s)
  PROVE  SInv'
<1> DEFINE p == Peer(s)
           r == loqui_decoder_read_data(dec[s], chunk[s])
<1>0. /\ p \in Side /\ p # s /\ Peer(p) = s
      /\ \A t \in Side : t = s \/ t = p
  BY Sides
<1>1. /\ Flow(s) /\ Answers(s) /\ Flow(p) /\ Answers(p) /\ Quiet(p)
      /\ Scripted(script[s]) /\ AllProper(sent[s])
      /\ Scripted(script[p]) /\ AllProper(sent[p])
  BY <1>0 DEF SInv
<1>2. /\ DOK(dec[s]) /\ chunk[s] \in Seq(Nat) /\ chunk[s] # <<>>
      /\ events[s] \in Seq(Frame)
  BY DEF IInv, TypeOK, DecodeNeedsMore
<1>3. /\ r.status = "needs_more"
      /\ dec' = [dec EXCEPT ![s] = r.dec]
      /\ Continue(s, <<>>, events[s])
      /\ UNCHANGED <<script, seq, w, wire, sent, failed>>
  BY DEF DecodeNeedsMore
<1>4. "needs_more" # "error"
  OBVIOUS
<1>5. /\ Partial(r.dec) = Partial(dec[s]) \o SubSeq(chunk[s], 1, r.consumed)
      /\ r.consumed = Len(chunk[s]) /\ ~r.dec.complete
  <2>1. r.status # "error"
    BY <1>3, <1>4, Zenon
  <2> QED BY <1>2, <1>3, <2>1, ReadDataTakes, Zenon
<1> HIDE DEF r
<1>6. SubSeq(chunk[s], 1, Len(chunk[s])) = chunk[s]
  BY <1>2, SubSeqFull
<1>7. Partial(r.dec) = Partial(dec[s]) \o chunk[s]
  BY <1>5, <1>6, Zenon
<1>8. <<>> \in Seq(Nat)
  OBVIOUS
<1>9. /\ chunk'[s] = <<>> /\ Past(s)' = Past(s) /\ Quiet(s)'
      /\ chunk'[p] = chunk[p] /\ Past(p)' = Past(p) /\ Quiet(p)'
  BY <1>0, <1>1, <1>2, <1>3, <1>8, ContinuePast, Zenon DEF Past
<1>10. dec'[s] = r.dec /\ dec'[p] = dec[p]
  BY <1>0, <1>3 DEF IInv, TypeOK
<1>11. script' = script /\ w' = w /\ wire' = wire /\ sent' = sent /\ failed' = failed
  BY <1>3
<1>12. Flow(s)'
  <2>1. Pending(s)' = Pending(s)
    BY <1>9, <1>10, <1>11, Zenon DEF Pending
  <2> QED BY <1>1, <1>9, <1>10, <1>11, <2>1, FlowKept, Zenon
<1>13. Flow(p)'
  <2>1. Partial(dec[s]) \o chunk[s] \in Seq(Nat)
    BY <1>2, PendingParts, ConcatParts, Zenon
  <2>2. (Partial(dec[s]) \o chunk[s]) \o <<>> = Partial(dec[s]) \o chunk[s]
    BY <2>1, ConcatEmptySeq, Zenon
  <2>3. Pending(p)' = Pending(p)
    BY <1>0, <1>7, <1>9, <1>10, <1>11, <2>2, Zenon DEF Pending
  <2> QED BY <1>0, <1>1, <1>5, <1>9, <1>10, <1>11, <2>3, Zenon DEF Flow
<1>14. Answers(s)' /\ Answers(p)'
  BY <1>1, <1>9, <1>11, Zenon DEF Answers
<1>15. /\ Scripted(script'[s]) /\ AllProper(sent'[s])
       /\ Scripted(script'[p]) /\ AllProper(sent'[p])
  BY <1>1, <1>11, Zenon
<1> HIDE DEF p
<1> QED BY <1>0, <1>9, <1>12, <1>13, <1>14, <1>15, Zenon DEF SInv

\* Three parts are put together in any order.
LEMMA AssocParts ==
  ASSUME NEW c \in Seq(Nat), NEW d \in Seq(Nat), NEW v \in Seq(Nat)
  PROVE  (v \o c) \o d = v \o (c \o d)
BY Assoc, ZenonT(40)

\* The pong for a ping, whoever sent it, is a frame that can be sent.
LEMMA PongProper ==
  ASSUME NEW d, DOK(d), d.complete, Event(d).op = Ping
  PROVE  /\ PongFor(Event(d)) \in Frame /\ Proper(PongFor(Event(d)))
         /\ PongFor(Event(d)).op = Pong /\ PongFor(Event(d)).seq = Event(d).seq
<1> DEFINE f == Event(d)
           g == PongFor(f)
<1>1. f \in Frame
  BY EventType
<1>2. d.opcode = 3 /\ d.header \in Nat
  BY DEF Event, Ping, DOK, Decoder
<1>3. f.code = 0
  BY <1>2 DEF Event, loqui_get_code, Hello, HelloAck, GoAway, Error
<1>4. f.data = <<>>
  <2>1. loqui_get_data_payload_size(d) = 0
    BY <1>2 DEF loqui_get_data_payload_size, Request, Response, HelloAck, GoAway,
                Hello, Push, Error
  <2>2. f.data = SubSeq(d.buf, d.header + 1, d.header + 0)
    BY <2>1 DEF Event
  <2>3. d.header + 1 \in Int /\ d.header + 0 \in Int /\ d.header + 0 < d.header + 1
    BY <1>2
  <2> QED BY <2>2, <2>3, SubSeqEmpty
<1> HIDE DEF f
<1>5. /\ g \in Frame /\ g.op = Pong /\ g.seq = f.seq
      /\ g.code = f.code /\ g.data = f.data
  <2>1. g = [f EXCEPT !.op = Pong]
    BY DEF PongFor
  <2>2. Pong \in Opcode
    BY DEF Pong, Opcode
  <2>3. g \in Frame
    BY <1>1, <2>1, <2>2, Zenon DEF Frame
  <2> QED BY <1>1, <2>1, <2>3 DEF Frame
<1> HIDE DEF g
<1>6. Proper(g)
  BY <1>3, <1>4, <1>5 DEF Proper, Ping, Pong, Hello, HelloAck, Push, GoAway,
                          Request, Response
<1> QED BY <1>5, <1>6 DEF f, g

\* A complete frame moves from the stream to the events, and the pong for a
\* ping to the end of the other stream.
LEMMA CompleteKeepsS ==
  ASSUME IInv, SInv, NEW s \in Side, DecodeComplete(s)
  PROVE  SInv'
<1> DEFINE p == Peer(s)
           r == loqui_decoder_read_data(dec[s], chunk[s])
           f == Event(r.dec)
           g == PongFor(f)
           rest == SubSeq(chunk[s], r.consumed + 1, Len(chunk[s]))
<1>0. /\ p \in Side /\ p # s /\ Peer(p) = s
      /\ \A t \in Side : t = s \/ t = p
  BY Sides
<1>1. /\ Flow(s) /\ Answers(s) /\ Flow(p) /\ Answers(p) /\ Quiet(p)
      /\ Scripted(script[s]) /\ AllProper(sent[s])
      /\ Scripted(script[p]) /\ AllProper(sent[p])
  BY <1>0 DEF SInv
<1>2. /\ DOK(dec[s]) /\ chunk[s] \in Seq(Nat) /\ chunk[s] # <<>>
      /\ events[s] \in Seq(Frame)
  BY DEF IInv, TypeOK, DecodeComplete
<1>3. /\ r.status = "complete"
      /\ IF f.op = Ping
         THEN /\ w' = [w EXCEPT ![s] = loqui_append(@, g)]
              /\ sent' = [sent EXCEPT ![s] = Append(@, g)]
         ELSE UNCHANGED <<w, sent>>
      /\ dec' = [dec EXCEPT ![s] = _reset_decode_buf(r.dec)]
      /\ Continue(s, rest, Append(events[s], f))
      /\ UNCHANGED <<script, seq, wire, failed>>
  BY DEF DecodeComplete
<1>4. /\ r.consumed \in 0..Len(chunk[s])
      /\ Partial(r.dec) = Partial(dec[s]) \o SubSeq(chunk[s], 1, r.consumed)
  <2>1. "complete" # "error"
    OBVIOUS
  <2>2. r.status # "error"
    BY <1>3, <2>1, Zenon
  <2> QED BY <1>2, <2>2, ReadDataTakes, Zenon
<1>5. DOK(r.dec) /\ r.dec.complete /\ r.dec \in Decoder
  <2>1. ResultOK(r)
    BY <1>2, ReadDataOK
  <2> QED BY <1>3, <2>1 DEF ResultOK
<1> HIDE DEF r
<1>6. f \in Frame
  BY <1>5, EventType
<1>7. f.op = Ping => g \in Frame /\ Proper(g) /\ g.op = Pong /\ g.seq = f.seq
  BY <1>5, PongProper
<1>8. rest \in Seq(Nat) /\ SubSeq(chunk[s], 1, r.consumed) \in Seq(Nat)
  <2>1. r.consumed \in Nat /\ r.consumed <= Len(chunk[s])
    BY <1>2, <1>4
  <2> QED BY <1>2, <2>1, HeadPart, TailPart
<1>9. SubSeq(chunk[s], 1, r.consumed) \o rest = chunk[s]
  BY <1>2, <1>4, CutInTwo
<1>10. Append(events[s], f) \in Seq(Frame)
  BY <1>2, <1>6, AppendProperties
<1> HIDE DEF f, g, rest
<1>11. /\ chunk'[s] = rest /\ Past(s)' = got[s] \o Append(events[s], f) /\ Quiet(s)'
       /\ chunk'[p] = chunk[p] /\ Past(p)' = Past(p) /\ Quiet(p)'
  BY <1>0, <1>1, <1>3, <1>8, <1>10, ContinuePast, Zenon
<1>12. Past(s)' = Append(Past(s), f)
  <2>1. got[s] \in Seq(Frame)
    BY PendingParts
  <2>2. got[s] \o Append(events[s], f) = Append(got[s] \o events[s], f)
    <3> DEFINE h == got[s]
               e == events[s]
    <3>1. h \in Seq(Frame) /\ e \in Seq(Frame)
      BY <1>2, <2>1
    <3> HIDE DEF h, e
    <3>2. h \o Append(e, f) = Append(h \o e, f)
      BY <1>6, <3>1, ConcatAppend
    <3> QED BY <3>2 DEF h, e
  <2> QED BY <1>11, <2>2, Zenon DEF Past
<1>13. dec'[s] = _reset_decode_buf(r.dec) /\ dec'[p] = dec[p]
  BY <1>0, <1>3 DEF IInv, TypeOK
<1>14. script' = script /\ wire' = wire /\ failed' = failed
  BY <1>3
<1>15. /\ f.op = Ping => w'[s] = loqui_append(w[s], g) /\ sent'[s] = Append(sent[s], g)
       /\ f.op # Ping => w'[s] = w[s] /\ sent'[s] = sent[s]
       /\ w'[p] = w[p] /\ sent'[p] = sent[p]
  BY <1>0, <1>3 DEF IInv, TypeOK
<1>16. Flow(s)'
  <2>1. CASE f.op = Ping
    BY <1>1, <1>7, <1>11, <1>13, <1>14, <1>15, <2>1, EnqueueFlow, Zenon
  <2>2. CASE f.op # Ping
    <3>1. Pending(s)' = Pending(s)
      BY <1>11, <1>13, <1>14, <1>15, <2>2, Zenon DEF Pending
    <3> QED BY <1>1, <1>11, <1>13, <1>14, <1>15, <2>2, <3>1, FlowKept, Zenon
  <2> QED BY <2>1, <2>2, Zenon
<1>17. Flow(p)'
  <2> DEFINE a == Partial(dec[s])
             b == SubSeq(chunk[s], 1, r.consumed)
             c == wire[p]
             u == Unsent(w[p])
             Y == (rest \o c) \o u
  <2>0. a \in Seq(Nat) /\ b \in Seq(Nat) /\ c \in Seq(Nat) /\ u \in Seq(Nat)
    BY <1>0, <1>8, PendingParts
  <2>1. Pending(p) = ((a \o chunk[s]) \o c) \o u
    BY <1>0 DEF Pending
  <2>2. /\ Partial(dec'[s]) = <<>> /\ ~dec'[s].complete
    <3>1. /\ _reset_decode_buf(r.dec).opcode = 0
          /\ _reset_decode_buf(r.dec).complete = FALSE
      BY <1>5 DEF _reset_decode_buf, Decoder
    <3> QED BY <1>13, <3>1, Zenon DEF Partial
  <2>3. Pending(p)' = Y
    <3>1. <<>> \o rest = rest
      BY <1>8, ConcatEmptySeq
    <3> QED BY <1>0, <1>11, <1>14, <1>15, <2>2, <3>1, Zenon DEF Pending
  <2>4. Partial(r.dec) = a \o b /\ b \o rest = chunk[s]
    BY <1>4, <1>9
  <2> HIDE DEF a, b, c, u
  <2>5. rest \o c \in Seq(Nat) /\ a \o b \in Seq(Nat) /\ b \o rest \in Seq(Nat)
    BY <1>8, <2>0, ConcatParts, Zenon
  <2>6. Y \in Seq(Nat)
    BY <2>0, <2>5, ConcatParts, Zenon
  <2>7. ((a \o (b \o rest)) \o c) \o u = (a \o b) \o Y
    <3>1. rest \in Seq(Nat)
      BY <1>8
    <3>2. Y = (rest \o c) \o u
      OBVIOUS
    <3> HIDE DEF Y, p
    <3>3. PICK x : x = a \o b
      OBVIOUS
    <3>4. PICK y : y = rest \o c
      OBVIOUS
    <3>5. x \in Seq(Nat) /\ y \in Seq(Nat)
      BY <2>5, <3>3, <3>4, Zenon
    <3>6. a \o (b \o rest) = x \o rest
      BY <2>0, <3>1, <3>3, AssocParts, Zenon
    <3>7. (x \o rest) \o c = x \o y
      BY <2>0, <3>1, <3>4, <3>5, AssocParts, ZenonT(40)
    <3>8. (x \o y) \o u = x \o (y \o u)
      BY <2>0, <3>5, AssocParts, Zenon
    <3> QED BY <3>2, <3>3, <3>4, <3>6, <3>7, <3>8, Zenon
  <2>8. Pending(p) = Partial(r.dec) \o Y
    BY <2>1, <2>4, <2>7, Zenon
  <2> HIDE DEF Y
  <2>9. ASSUME ~failed[s] PROVE Carried(sent[p], Append(Past(s), f), Y)
    <3>1. Carried(sent[p], Past(s), Partial(r.dec) \o Y)
      BY <1>0, <1>1, <2>8, <2>9, Zenon DEF Flow
    <3>2. sent[p] \in Seq(Frame) /\ Past(s) \in Seq(Frame)
      BY <1>0, PendingParts
    <3>3. Carried(sent[p], Append(Past(s), Event(r.dec)), Y)
      BY <1>1, <1>5, <2>6, <3>1, <3>2, CarriedDecode
    <3> QED BY <3>3 DEF f
  <2> QED BY <1>0, <1>12, <1>14, <1>15, <2>2, <2>3, <2>9, Zenon DEF Flow
<1>18. Answers(s)'
  <2> DEFINE P == Seqs(sent[s], Pong)
             Q == Seqs(Past(s), Ping)
  <2>1. sent[s] \in Seq(Frame) /\ Past(s) \in Seq(Frame)
    BY PendingParts
  <2>2. P \in Seq(Nat) /\ Q \in Seq(Nat)
    BY <2>1, SeqsType
  <2>3. Seqs(Append(Past(s), f), Ping) = Q \o OwnSeq(f, Ping)
    BY <1>6, <2>1, SeqsAppend, Zenon
  <2>4. CASE f.op = Ping
    <3>1. Seqs(Append(sent[s], g), Pong) = P \o OwnSeq(g, Pong)
      BY <1>7, <2>1, <2>4, SeqsAppend, Zenon
    <3>2. OwnSeq(g, Pong) = <<f.seq>> /\ OwnSeq(f, Ping) = <<f.seq>>
      BY <1>7, <2>4 DEF OwnSeq
    <3>3. Seqs(sent'[s], Pong) = P \o <<f.seq>> /\ Seqs(Past(s)', Ping) = Q \o <<f.seq>>
      BY <1>12, <1>15, <2>3, <2>4, <3>1, <3>2, Zenon
    <3> QED BY <1>1, <1>14, <3>3, Zenon DEF Answers
  <2>5. CASE f.op # Ping
    <3>1. OwnSeq(f, Ping) = <<>>
      BY <2>5 DEF OwnSeq
    <3>2. Q \o <<>> = Q
      BY <2>2, ConcatEmptySeq, Zenon
    <3>3. Seqs(sent'[s], Pong) = P /\ Seqs(Past(s)', Ping) = Q
      BY <1>12, <1>15, <2>3, <2>5, <3>1, <3>2, Zenon
    <3> QED BY <1>1, <1>14, <3>3, Zenon DEF Answers
  <2> QED BY <2>4, <2>5, Zenon
<1>19. Answers(p)'
  BY <1>1, <1>11, <1>14, <1>15, Zenon DEF Answers
<1>20. AllProper(sent'[s]) /\ AllProper(sent'[p])
  <2>1. CASE f.op = Ping
    <3>1. sent[s] \in Seq(Frame)
      BY PendingParts
    <3>2. AllProper(Append(sent[s], g))
      BY <1>1, <1>7, <2>1, <3>1, ProperAppend
    <3> QED BY <1>1, <1>15, <2>1, <3>2, Zenon
  <2>2. CASE f.op # Ping
    BY <1>1, <1>15, <2>2, Zenon
  <2> QED BY <2>1, <2>2, Zenon
<1>21. Scripted(script'[s]) /\ Scripted(script'[p])
  BY <1>1, <1>14, Zenon
<1> HIDE DEF p
<1> QED BY <1>0, <1>11, <1>16, <1>17, <1>18, <1>19, <1>20, <1>21, Zenon DEF SInv

\* A step that changes nothing leaves the streams as they are.
LEMMA StutterKeepsS ==
  ASSUME SInv, UNCHANGED vars
  PROVE  SInv'
<1>1. /\ script' = script /\ w' = w /\ wire' = wire /\ dec' = dec /\ chunk' = chunk
      /\ events' = events /\ got' = got /\ sent' = sent /\ failed' = failed
  BY DEF vars
<1>2. \A t \in Side : Pending(t)' = Pending(t) /\ events'[t] = events[t] /\ Quiet(t)'
  BY <1>1 DEF SInv, Pending, Quiet
<1> QED BY <1>1, <1>2, MoveKeepsS

\* Every step keeps the streams whole.
LEMMA NextKeepsS == IInv /\ SInv /\ [Next]_vars => SInv'
<1> SUFFICES ASSUME IInv, SInv, [Next]_vars PROVE SInv'
  OBVIOUS
<1>1. ASSUME NEW s \in Side, Send(s) PROVE SInv'
  BY <1>1, SendKeepsS
<1>2. ASSUME NEW s \in Side, WriteBytes(s) PROVE SInv'
  BY <1>2, WriteBytesKeepsS
<1>3. ASSUME NEW s \in Side, Receive(s) PROVE SInv'
  BY <1>3, ReceiveKeepsS
<1>4. ASSUME NEW s \in Side, DecodeError(s) PROVE SInv'
  <2>1. \E d : Raise(s, d)
    BY <1>4 DEF DecodeError
  <2> QED BY <2>1, RaiseKeepsS
<1>5. ASSUME NEW s \in Side, DecodeNeedsMore(s) PROVE SInv'
  BY <1>5, NeedsMoreKeepsS
<1>6. ASSUME NEW s \in Side, DecodeComplete(s) PROVE SInv'
  BY <1>6, CompleteKeepsS
<1>7. ASSUME NEW s \in Side, DecodeUnpackable(s) PROVE SInv'
  <2>1. \E d : Raise(s, d)
    BY <1>7 DEF DecodeUnpackable
  <2> QED BY <2>1, RaiseKeepsS
<1>8. CASE UNCHANGED vars
  BY <1>8, StutterKeepsS
<1>9. CASE Done
  BY <1>9, StutterKeepsS DEF Done
<1> QED BY <1>1, <1>2, <1>3, <1>4, <1>5, <1>6, <1>7, <1>8, <1>9, Zenon
        DEF Next, Decode

\* The streams of two handlers that face each other stay whole.
THEOREM SInvHolds == Spec => []SInv
BY InitSInv, NextKeepsS, IInvHolds, PTL DEF Spec

\* Between two handlers no byte and no frame is lost, repeated, reordered or
\* misread, for all sizes and conversations and however the bytes are cut, until
\* a call of on_bytes_received raises (stream_handler.pyx:333, decoder.h:212).
THEOREM StreamHolds == Spec => []StreamIsWhole
<1>1. IInv /\ SInv => StreamIsWhole
  <2> SUFFICES ASSUME IInv, SInv, NEW s \in Side, ~failed[Peer(s)]
               PROVE  Bytes(sent[s]) =
                        Bytes(got[Peer(s)] \o events[Peer(s)]) \o Partial(dec[Peer(s)])
                          \o chunk[Peer(s)] \o wire[s] \o Unsent(w[s])
    BY DEF StreamIsWhole
  <2> DEFINE p == Peer(s)
             a == Bytes(Past(p))
             b == Partial(dec[p])
             c == chunk[p]
             d == wire[s]
             u == Unsent(w[s])
  <2>0. p \in Side
    BY Sides
  <2>1. /\ b \in Seq(Nat) /\ c \in Seq(Nat) /\ d \in Seq(Nat) /\ u \in Seq(Nat)
        /\ sent[s] \in Seq(Frame) /\ Past(p) \in Seq(Frame)
    BY <2>0, PendingParts
  <2>2. a \in Seq(Nat)
    BY <2>1, BytesType
  <2>3. Carried(sent[s], Past(p), Pending(s))
    BY Zenon DEF SInv, Flow
  <2>4. Bytes(sent[s]) = a \o Pending(s)
    BY <2>1, <2>3, CarriedWhole
  <2>5. Pending(s) = ((b \o c) \o d) \o u
    BY DEF Pending
  <2> HIDE DEF a, b, c, d, u
  <2>6. b \o c \in Seq(Nat)
    BY <2>1, ConcatParts, Zenon
  <2>7. (b \o c) \o d \in Seq(Nat)
    BY <2>1, <2>6, ConcatParts, Zenon
  <2>8. a \o (((b \o c) \o d) \o u) = (a \o ((b \o c) \o d)) \o u
    BY <2>1, <2>2, <2>7, Assoc, ZenonT(40)
  <2>9. a \o ((b \o c) \o d) = (a \o (b \o c)) \o d
    BY <2>1, <2>2, <2>6, Assoc, ZenonT(40)
  <2>10. a \o (b \o c) = (a \o b) \o c
    BY <2>1, <2>2, Assoc, ZenonT(40)
  <2>11. Bytes(sent[s]) = (((a \o b) \o c) \o d) \o u
    BY <2>4, <2>5, <2>8, <2>9, <2>10, Zenon
  <2> QED BY <2>11 DEF a, b, c, d, u, Past
<1> QED BY <1>1, IInvHolds, SInvHolds, PTL

\* When nothing moves any more every frame has been delivered, and every ping
\* that was decoded has its pong, in order, for all conversations and however
\* the bytes are cut (stream_handler.pyx:401).
THEOREM ExchangeHolds == Spec => []ExchangeIsComplete
<1>1. IInv /\ SInv => ExchangeIsComplete
  <2> SUFFICES ASSUME IInv, SInv PROVE ExchangeIsComplete
    OBVIOUS
  <2>1. PingsAreAnswered
    BY Zenon DEF SInv, Answers, Past, PingsAreAnswered
  <2>2. ASSUME Idle, NEW s \in Side, ~failed[Peer(s)]
        PROVE  got[Peer(s)] = sent[s]
    <3> DEFINE p == Peer(s)
    <3>0. p \in Side
      BY Sides
    <3>1. /\ Partial(dec[p]) \in Seq(Nat) /\ got[p] \in Seq(Frame)
          /\ sent[s] \in Seq(Frame) /\ Past(p) \in Seq(Frame)
      BY <3>0, PendingParts
    <3>2. ~dec[p].complete /\ Carried(sent[s], Past(p), Pending(s)) /\ Quiet(p)
      BY <2>2, <3>0, Zenon DEF SInv, Flow
    <3>3. chunk[p] = <<>> /\ wire[s] = <<>> /\ w[s].pos = Len(w[s].buf)
      BY <2>2, <3>0 DEF Idle
    <3>4. Unsent(w[s]) = <<>>
      <4>1. /\ Unsent(w[s]) \in Seq(Nat)
            /\ Len(Unsent(w[s])) = Len(w[s].buf) - w[s].pos
        BY UnsentType DEF IInv
      <4>2. Len(w[s].buf) \in Nat
        BY DEF IInv, WOK, Buffer
      <4>3. Len(Unsent(w[s])) = 0
        BY <3>3, <4>1, <4>2
      <4> QED BY <4>1, <4>3, EmptySeq
    <3>5. Partial(dec[p]) \o <<>> = Partial(dec[p])
      BY <3>1, ConcatEmptySeq, Zenon
    <3>6. Pending(s) = Partial(dec[p])
      BY <3>3, <3>4, <3>5, Zenon DEF Pending
    <3>7. DOK(dec[p])
      BY <3>0 DEF IInv
    <3>8. sent[s] = Past(p)
      <4>1. Carried(sent[s], Past(p), Partial(dec[p]))
        BY <3>2, <3>6, Zenon
      <4> QED BY <3>1, <3>2, <3>7, <4>1, CarriedAll
    <3>9. events[p] = <<>>
      BY <3>2, <3>3, Zenon DEF Quiet
    <3>10. got[p] \o <<>> = got[p]
      BY <3>1, ConcatEmptySeq, Zenon
    <3> QED BY <3>8, <3>9, <3>10, Zenon DEF Past
  <2>3. IdleMeansDelivered
    BY <2>2, Zenon DEF IdleMeansDelivered
  <2> QED BY <2>1, <2>3 DEF ExchangeIsComplete
<1> QED BY <1>1, IInvHolds, SInvHolds, PTL

=============================================================================
