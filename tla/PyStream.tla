------------------------------ MODULE PyStream ------------------------------
(***************************************************************************)
(* The byte streams under a Python session: LoquiStreamHandler             *)
(* (src/py/loqui/stream_handler.pyx) over the C buffer, encoder and        *)
(* decoder (src/c).  Two handlers face each other over a TCP connection    *)
(* that cuts the bytes anywhere.                                           *)
(*                                                                         *)
(* A byte is a number, and every field of a frame takes one byte whatever  *)
(* its width in C, so that a chunk can end inside a header, between header *)
(* and payload, or inside a payload.  The separator "|" of a hello is the  *)
(* byte Bar.  malloc and realloc succeed.                                  *)
(*                                                                         *)
(* on_bytes_received runs to its end before anything else happens in its   *)
(* process (one thread, and the loop never yields): one Receive and one    *)
(* DecodeStep for each round of the loop, with chunk[s] the bytes left.    *)
(***************************************************************************)
EXTENDS Integers, Sequences, SequencesExt, FiniteSetsExt

CONSTANTS
  Scripts,       \* what each side sends: functions from Side to Seq(Frame)
  InitialSize,   \* INITIAL_BUFFER_SIZE
  BigSize,       \* BIG_BUF_SIZE
  OutMax,        \* OUTBUF_MAX, the most that one send is given
  DataSizeMax,   \* LOQUI_DATA_SIZE_MAX
  SeqMax         \* SEQ_MAX

Side == {"client", "server"}
Peer(s) == IF s = "client" THEN "server" ELSE "client"

Hello == 1
HelloAck == 2
Ping == 3
Pong == 4
Request == 5
Response == 6
Push == 7
GoAway == 8
Error == 9
Opcode == 1..9
Version == 1
Bar == 124

\* A frame: code is the code, the version or the ping interval, by opcode.
Frame == [op: Opcode, flags: Nat, seq: Nat, code: Nat, data: Seq(Nat)]

\* What the send_ functions can be given: seq and code are 0, and data is empty,
\* in the frames that have none, and a hello has the one version.
Proper(f) ==
  /\ f.op \in {Hello, HelloAck, Push, GoAway} => f.seq = 0
  /\ f.op \in {Ping, Pong, Request, Response, Push} => f.code = 0
  /\ f.op = Hello => f.code = Version
  /\ f.op \in {Ping, Pong} => f.data = <<>>

ASSUME SizesAssumption ==
  /\ InitialSize \in Nat /\ BigSize \in Nat /\ DataSizeMax \in Nat
  /\ OutMax \in Nat \ {0} /\ SeqMax \in Nat \ {0}
\* Only the stream handler itself calls send_pong.
ASSUME ScriptsAssumption ==
  /\ Scripts \subseteq [Side -> Seq(Frame)]
  /\ \A x \in Scripts, s \in Side : \A i \in DOMAIN x[s] :
       Proper(x[s][i]) /\ x[s][i].op # Pong

VARIABLES
  script,  \* [Side -> Seq(Frame)]: what the session has still to send
  seq,     \* self.seq
  w,       \* write_buffer and write_buffer_position
  wire,    \* [Side -> Seq(Nat)]: bytes from s that its peer has not read
  dec,     \* decode_buffer
  chunk,   \* the rest of the data of the on_bytes_received call under way
  events,  \* received_payloads of that call
  got,     \* history: the events that the calls so far have returned
  sent,    \* history: the frames put in the write buffer
  failed   \* history: a call of on_bytes_received has raised

vars == <<script, seq, w, wire, dec, chunk, events, got, sent, failed>>

-----------------------------------------------------------------------------
(* The C buffer and the encoder *)

\* A loqui_buffer_t is its first length bytes and its allocated_size.
loqui_buffer_write(b, bytes) ==
  LET length == Len(b.buf) + Len(bytes)
  IN  [b EXCEPT !.buf = @ \o bytes,
                !.alloc = IF length > @ THEN length * 2 ELSE @]

loqui_buffer_ensure_size(b, size) ==
  [b EXCEPT !.alloc = IF size > @ THEN size ELSE @]

\* The bytes before the payload, as the nine loqui_append functions lay them.
Header(f) ==
  CASE f.op = Hello -> <<Hello, f.flags, Version, Len(f.data)>>
    [] f.op \in {HelloAck, GoAway} -> <<f.op, f.flags, f.code, Len(f.data)>>
    [] f.op \in {Ping, Pong} -> <<f.op, f.flags, f.seq>>
    [] f.op \in {Request, Response} -> <<f.op, f.flags, f.seq, Len(f.data)>>
    [] f.op = Push -> <<Push, f.flags, Len(f.data)>>
    [] f.op = Error -> <<Error, f.flags, f.seq, f.code, Len(f.data)>>

HasPayload(op) == op \notin {Ping, Pong}

\* Header and payload are two writes: each may grow the buffer.
loqui_append(b, f) ==
  LET h == loqui_buffer_write(b, Header(f))
  IN  IF HasPayload(f.op) THEN loqui_buffer_write(h, f.data) ELSE h

Encoding(f) == Header(f) \o (IF HasPayload(f.op) THEN f.data ELSE <<>>)

-----------------------------------------------------------------------------
(* The write buffer *)

FreshBuffer == [buf |-> <<>>, pos |-> 0, alloc |-> InitialSize]

\* _free_big_buffer, then _reset_buffer
Recycled(alloc) == IF alloc >= BigSize THEN InitialSize ELSE alloc

Unsent(b) == SubSeq(b.buf, b.pos + 1, Len(b.buf))

\* Mutant: the test that keeps the copied regions apart is off by a factor.
CompactsEarly(b) == Len(b.buf) > b.pos /\ b.pos > b.alloc \div 4

Compacts(b) == Len(b.buf) > b.pos /\ b.pos > b.alloc \div 2

\* memcpy is only defined when the two regions are apart.
memcpy(b) ==
  IF Len(b.buf) - b.pos <= b.pos THEN {Unsent(b)}
  ELSE {Unsent(b), [i \in 1..(Len(b.buf) - b.pos) |-> 0]}

\* Mutant: a compaction that forgets to reset the position.
_reset_or_compact_keeps_pos(b) ==
  IF b.pos = Len(b.buf)
  THEN {[buf |-> <<>>, pos |-> 0, alloc |-> Recycled(b.alloc)]}
  ELSE IF Compacts(b)
       THEN {[buf |-> m, pos |-> b.pos, alloc |-> b.alloc] : m \in memcpy(b)}
       ELSE {b}

_reset_or_compact_write_buf(b) ==
  IF b.pos = Len(b.buf)
  THEN {[buf |-> <<>>, pos |-> 0, alloc |-> Recycled(b.alloc)]}
  ELSE IF Compacts(b)
       THEN {[buf |-> m, pos |-> 0, alloc |-> b.alloc] : m \in memcpy(b)}
       ELSE {b}

-----------------------------------------------------------------------------
(* The decoder *)

\* Header bytes after the opcode; 0 for an opcode that does not exist.
_loqui_get_header_size(op) ==
  IF op \in {Hello, HelloAck, Request, Response, GoAway} THEN 3
  ELSE IF op = Error THEN 4
  ELSE IF op \in {Ping, Pong, Push} THEN 2
  ELSE 0

loqui_get_data_payload_size(d) ==
  IF d.opcode \in {Request, Response, HelloAck, GoAway, Hello} THEN d.buf[3]
  ELSE IF d.opcode = Push THEN d.buf[2]
  ELSE IF d.opcode = Error THEN d.buf[4]
  ELSE 0

loqui_get_seq(d) ==
  IF d.opcode \in {Request, Response, Ping, Pong, Error} THEN d.buf[2] ELSE 0

\* loqui_get_version, loqui_get_code and loqui_get_ping_interval
loqui_get_code(d) ==
  IF d.opcode \in {Hello, HelloAck, GoAway} THEN d.buf[2]
  ELSE IF d.opcode = Error THEN d.buf[3]
  ELSE 0

\* loqui_decoder_reset, _free_big_buffer and _reset_buffer
_reset_decode_buf(d) ==
  [d EXCEPT !.opcode = 0, !.remaining = 0, !.complete = FALSE,
            !.buf = <<>>, !.alloc = Recycled(@)]

Result(status, d, consumed) ==
  [status |-> status, dec |-> d, consumed |-> consumed]

\* Mutant: what is left of the payload is not counted down.
ReadPayloadUncounted(d, data, before) ==
  LET n == Min({d.remaining, Len(data)})
      e == loqui_buffer_write(d, SubSeq(data, 1, n))
  IN  IF e.remaining = n
      THEN Result("complete", [e EXCEPT !.complete = TRUE], before + n)
      ELSE Result("needs_more", e, before + n)

ReadPayload(d, data, before) ==
  LET n == Min({d.remaining, Len(data)})
      e == [loqui_buffer_write(d, SubSeq(data, 1, n))
              EXCEPT !.remaining = @ - n]
  IN  IF e.remaining = 0
      THEN Result("complete", [e EXCEPT !.complete = TRUE], before + n)
      ELSE Result("needs_more", e, before + n)

loqui_read_append_data(d, data, before) ==
  IF Len(d.buf) >= d.header
  THEN ReadPayload(d, data, before)
  ELSE LET n == Min({d.header - Len(d.buf), Len(data)})
           e == loqui_buffer_write(d, SubSeq(data, 1, n))
           size == loqui_get_data_payload_size(e)
       IN  IF Len(e.buf) < e.header
           THEN Result("needs_more", e, before + n)
           ELSE IF size > DataSizeMax
           THEN Result("error", [e EXCEPT !.remaining = size], before + n)
           ELSE ReadPayload(
                  [loqui_buffer_ensure_size(e, e.header + size)
                     EXCEPT !.remaining = size],
                  SubSeq(data, n + 1, Len(data)), before + n)

loqui_read_new_data(d, data) ==
  LET header == _loqui_get_header_size(data[1])
      e == [d EXCEPT !.buf = <<>>, !.remaining = 0,
                     !.opcode = data[1], !.header = header]
  IN  IF header = 0 THEN Result("error", d, 0)
      ELSE IF Len(data) > 1
           THEN loqui_read_append_data(e, Tail(data), 1)
           ELSE Result("needs_more", e, 1)

loqui_decoder_read_data(d, data) ==
  IF d.complete THEN Result("complete", d, 0)
  ELSE IF d.opcode = 0 THEN loqui_read_new_data(d, data)
  ELSE loqui_read_append_data(d, data, 0)

\* The opcode object that _consume_decode_buffer makes of a complete frame.
Event(d) ==
  [op |-> d.opcode, flags |-> d.buf[1], seq |-> loqui_get_seq(d),
   code |-> loqui_get_code(d),
   data |-> SubSeq(d.buf, d.header + 1,
                   d.header + loqui_get_data_payload_size(d))]

\* payload.split(b'|') must give two parts; an empty payload is None.
Unpacks(f) ==
  f.op \in {Hello, HelloAck} => Len(SelectSeq(f.data, LAMBDA b: b = Bar)) = 1

-----------------------------------------------------------------------------
(* The handlers *)

FreshDecoder ==
  [buf |-> <<>>, alloc |-> InitialSize, opcode |-> 0, remaining |-> 0,
   header |-> 0, complete |-> FALSE]

Init ==
  /\ script \in Scripts
  /\ seq = [s \in Side |-> 0]
  /\ w = [s \in Side |-> FreshBuffer]
  /\ wire = [s \in Side |-> <<>>]
  /\ dec = [s \in Side |-> FreshDecoder]
  /\ chunk = [s \in Side |-> <<>>]
  /\ events = [s \in Side |-> <<>>]
  /\ got = [s \in Side |-> <<>>]
  /\ sent = [s \in Side |-> <<>>]
  /\ failed = [s \in Side |-> FALSE]

\* Mutant: the overflow check is left out.
next_seq_unbounded(n) == n + 1

next_seq(n) == IF n + 1 >= SeqMax THEN 0 ELSE n + 1

TakesSeq(f) == f.op \in {Ping, Request}

\* The nine send_ functions: ping and request draw a sequence number.
Send(s) ==
  /\ chunk[s] = <<>>
  /\ script[s] # <<>>
  /\ LET n == next_seq(seq[s])
         f == IF TakesSeq(Head(script[s]))
              THEN [Head(script[s]) EXCEPT !.seq = n] ELSE Head(script[s])
     IN  /\ seq' = [seq EXCEPT ![s] = IF TakesSeq(f) THEN n ELSE @]
         /\ w' = [w EXCEPT ![s] = loqui_append(@, f)]
         /\ sent' = [sent EXCEPT ![s] = Append(@, f)]
  /\ script' = [script EXCEPT ![s] = Tail(@)]
  /\ UNCHANGED <<wire, dec, chunk, events, got, failed>>

\* write_buffer_get_bytes without consuming, a send that takes k of the
\* bytes, write_buffer_consume_bytes(k).
WriteBytes(s) ==
  /\ chunk[s] = <<>>
  /\ \E k \in 1..Min({OutMax, Len(w[s].buf) - w[s].pos}) :
       /\ wire' = [wire EXCEPT ![s] =
                     @ \o SubSeq(w[s].buf, w[s].pos + 1, w[s].pos + k)]
       /\ \E b \in _reset_or_compact_write_buf([w[s] EXCEPT !.pos = @ + k]) :
            w' = [w EXCEPT ![s] = b]
  /\ UNCHANGED <<script, seq, dec, chunk, events, got, sent, failed>>

\* on_bytes_received is called with the bytes that recv returned.
Receive(s) ==
  /\ chunk[s] = <<>>
  /\ \E n \in 1..Len(wire[Peer(s)]) :
       /\ chunk' = [chunk EXCEPT ![s] = SubSeq(wire[Peer(s)], 1, n)]
       /\ wire' = [wire EXCEPT ![Peer(s)] = SubSeq(@, n + 1, Len(@))]
  /\ UNCHANGED <<script, seq, w, dec, events, got, sent, failed>>

\* on_bytes_received raises: the events that it had are gone, and so is the
\* rest of the data.
Raise(s, d) ==
  /\ failed' = [failed EXCEPT ![s] = TRUE]
  /\ dec' = [dec EXCEPT ![s] = d]
  /\ chunk' = [chunk EXCEPT ![s] = <<>>]
  /\ events' = [events EXCEPT ![s] = <<>>]
  /\ UNCHANGED <<script, seq, w, wire, got, sent>>

\* The loop goes on with rest, or returns when nothing is left.
Continue(s, rest, list) ==
  /\ chunk' = [chunk EXCEPT ![s] = rest]
  /\ events' = [events EXCEPT ![s] = IF rest = <<>> THEN <<>> ELSE list]
  /\ got' = [got EXCEPT ![s] = IF rest = <<>> THEN @ \o list ELSE @]

DecodeError(s) ==
  /\ chunk[s] # <<>>
  /\ LET r == loqui_decoder_read_data(dec[s], chunk[s])
     IN  r.status = "error" /\ Raise(s, _reset_decode_buf(r.dec))

DecodeNeedsMore(s) ==
  /\ chunk[s] # <<>>
  /\ LET r == loqui_decoder_read_data(dec[s], chunk[s])
     IN  /\ r.status = "needs_more"
         /\ dec' = [dec EXCEPT ![s] = r.dec]
  /\ Continue(s, <<>>, events[s])
  /\ UNCHANGED <<script, seq, w, wire, sent, failed>>

PongFor(f) == [f EXCEPT !.op = Pong]

\* Mutant: a ping is consumed without its pong.
DecodeCompleteSilently(s) ==
  /\ chunk[s] # <<>>
  /\ LET r == loqui_decoder_read_data(dec[s], chunk[s])
         f == Event(r.dec)
     IN  /\ r.status = "complete"
         /\ Unpacks(f)
         /\ dec' = [dec EXCEPT ![s] = _reset_decode_buf(r.dec)]
         /\ Continue(s, SubSeq(chunk[s], r.consumed + 1, Len(chunk[s])),
                     Append(events[s], f))
  /\ UNCHANGED <<script, seq, w, sent, wire, failed>>

\* _consume_decode_buffer: a ping is answered on the spot.
DecodeComplete(s) ==
  /\ chunk[s] # <<>>
  /\ LET r == loqui_decoder_read_data(dec[s], chunk[s])
         f == Event(r.dec)
     IN  /\ r.status = "complete"
         /\ Unpacks(f)
         /\ IF f.op = Ping
            THEN /\ w' = [w EXCEPT ![s] = loqui_append(@, PongFor(f))]
                 /\ sent' = [sent EXCEPT ![s] = Append(@, PongFor(f))]
            ELSE UNCHANGED <<w, sent>>
         /\ dec' = [dec EXCEPT ![s] = _reset_decode_buf(r.dec)]
         /\ Continue(s, SubSeq(chunk[s], r.consumed + 1, Len(chunk[s])),
                     Append(events[s], f))
  /\ UNCHANGED <<script, seq, wire, failed>>

\* The payload of a hello does not split: the exception leaves before the
\* decode buffer is reset, and every later call meets the same frame.
DecodeUnpackable(s) ==
  /\ chunk[s] # <<>>
  /\ LET r == loqui_decoder_read_data(dec[s], chunk[s])
     IN  /\ r.status = "complete"
         /\ ~Unpacks(Event(r.dec))
         /\ Raise(s, r.dec)

Decode(s) ==
  \/ DecodeError(s)
  \/ DecodeNeedsMore(s)
  \/ DecodeComplete(s)
  \/ DecodeUnpackable(s)

\* Nothing is left to do.
Idle ==
  \A s \in Side : /\ script[s] = <<>> /\ chunk[s] = <<>> /\ wire[s] = <<>>
                  /\ w[s].pos = Len(w[s].buf)

Done == Idle /\ UNCHANGED vars

Next ==
  \/ \E s \in Side : Send(s) \/ WriteBytes(s) \/ Receive(s) \/ Decode(s)
  \/ Done

Spec == Init /\ [][Next]_vars

-----------------------------------------------------------------------------
(* Properties *)

Buffer == [buf: Seq(Nat), pos: Nat, alloc: Nat]
Decoder == [buf: Seq(Nat), alloc: Nat, opcode: 0..9, remaining: Nat,
            header: Nat, complete: BOOLEAN]

TypeOK ==
  /\ script \in [Side -> Seq(Frame)]
  /\ seq \in [Side -> 0..(SeqMax - 1)]
  /\ w \in [Side -> Buffer]
  /\ wire \in [Side -> Seq(Nat)]
  /\ dec \in [Side -> Decoder]
  /\ chunk \in [Side -> Seq(Nat)]
  /\ events \in [Side -> Seq(Frame)]
  /\ got \in [Side -> Seq(Frame)]
  /\ sent \in [Side -> Seq(Frame)]
  /\ failed \in [Side -> BOOLEAN]

\* The position never passes the end of the data, the data never the end of
\* the allocation, and a compaction, after whatever part of the data a send
\* takes, is a memcpy between regions that do not overlap
\* (stream_handler.pyx:471).
WriteBufferInBounds ==
  \A s \in Side :
    /\ w[s].pos <= Len(w[s].buf)
    /\ Len(w[s].buf) <= w[s].alloc
    /\ \A k \in 0..(Len(w[s].buf) - w[s].pos) :
         LET b == [w[s] EXCEPT !.pos = @ + k]
         IN  Compacts(b) => Len(b.buf) - b.pos <= b.pos

\* The decoder only reads fields that it has: a complete frame, and one whose
\* payload is awaited, holds its header, and the rest of the payload fits in
\* the allocation that was made for it (decoder.h:148).
DecoderInBounds ==
  \A s \in Side : LET d == dec[s] IN
    /\ Len(d.buf) + d.remaining <= d.alloc
    /\ d.opcode # 0 => d.header = _loqui_get_header_size(d.opcode)
    /\ d.opcode = 0 => d.buf = <<>> /\ ~d.complete
    /\ d.remaining > 0 \/ d.complete =>
         /\ d.opcode # 0
         /\ Len(d.buf) >= d.header
         /\ Len(d.buf) + d.remaining
              = d.header + loqui_get_data_payload_size(d)
    /\ d.complete => d.remaining = 0
    /\ ~d.complete /\ d.remaining = 0 /\ d.opcode # 0 => Len(d.buf) < d.header

\* The bytes of a frame that the decoder has so far.
Partial(d) == IF d.opcode = 0 THEN <<>> ELSE <<d.opcode>> \o d.buf

Bytes(frames) == FlattenSeq([i \in DOMAIN frames |-> Encoding(frames[i])])

\* Nothing is lost, repeated, reordered or misread between two handlers,
\* wherever the chunks are cut and whenever the write buffer grows, shrinks
\* or is compacted: what one side has enqueued is what the other has decoded,
\* and then the bytes on their way, until a call of on_bytes_received raises.
StreamIsWhole ==
  \A s \in Side : LET p == Peer(s) IN
    ~failed[p] =>
      Bytes(sent[s]) = Bytes(got[p] \o events[p]) \o Partial(dec[p])
                         \o chunk[p] \o wire[s] \o Unsent(w[s])

\* When nothing moves any more everything has arrived: no frame waits in a
\* decoder for bytes that are not to come, and none is left behind by a call
\* that returned early.  A state that is not Idle has a next step.
IdleMeansDelivered ==
  Idle => \A s \in Side : failed[Peer(s)] \/ got[Peer(s)] = sent[s]

\* The sequence numbers of the frames with this opcode.
Seqs(frames, op) ==
  FlattenSeq([i \in DOMAIN frames |->
                IF frames[i].op = op THEN <<frames[i].seq>> ELSE <<>>])

\* The pongs that a side enqueues are those of the pings that it has decoded,
\* in their order and with their sequence numbers, whatever else it sends
\* meanwhile (stream_handler.pyx:401).
PingsAreAnswered ==
  \A s \in Side :
    ~failed[s] => Seqs(sent[s], Pong) = Seqs(got[s] \o events[s], Ping)

\* When nothing is on its way any more, every frame has been delivered, and
\* before that every ping that was decoded has its pong.
ExchangeIsComplete == IdleMeansDelivered /\ PingsAreAnswered

=============================================================================
