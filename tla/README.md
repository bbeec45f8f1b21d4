# A TLA+ verification project for Loqui

Loqui is an RPC protocol over one TCP connection per client: after an HTTP
upgrade and a `Hello`/`HelloAck` handshake, requests, responses, pushes and
pings are multiplexed as frames that carry a 32-bit sequence id. The repository
implements it four times: in Rust, Go, Elixir and Python (Cython on top of a C
encoder and decoder). This project models those implementations, checks the
models with TLC on small instances, and proves the most important results with
TLAPS for every instance.

## 1. Inventory

| component | state it keeps | operations | talks to | what is hard | what makes it correct |
|---|---|---|---|---|---|
| Rust event loop (`connection.rs`, `event_handler.rs`, `framed_io.rs`, `sender.rs`, `id_sequence.rs`) | `pong_received`, id sequence, own event queue, the frame being written | `handle_event` for each event, `Writer::write`, `Writer::close` | the socket, the ping timer, the handler, spawned tasks | it awaits its writes, so it neither reads nor pings meanwhile; close in the middle of anything | each ping is decided, the close of one end reaches the other |
| Rust client (`client.rs`, `connection_handler.rs`, `waiter.rs`) | waiters by id, one oneshot channel and one deadline per call | `request`, `push`, replies, sweep at each ping | event loop (queue), callers (oneshot) | late replies, deadlines, dropped senders, callers that give up | a call returns once, with its own answer or a failure |
| Rust server (`loqui_server`) | spawned handler futures | `handle_request`, `handle_push` | event loop (`response_complete`) | answers complete in any order, handlers panic | each request runs once |
| Rust `select_break` | two flags | `poll_next` | three streams | fairness of nested adapters | bounded wait |
| Rust handshake (`connection.rs` `negotiate`, both `connection_handler.rs`, `Client::start_connect`, `await_ready`, `encoding`) | stage, deadline, ready channel, encoding cell, ready flag, queue of waiters | upgrade, handshake, ready task | both ends, callers | three tasks against one deadline, two-step publication | both ends agree, callers are told the truth and always told |
| Rust codec (`loqui_protocol`) | read buffer | `decode`, `encode` | socket | chunking | one frame in, one frame out |
| Go `Conn` (`conn.go`, `request.go`, `writechan.go`) | map of pooled requests under a mutex, channels, flags | `RequestTimeout`, `Push`, read, write and ping loops, `completeRequest`, `terminate` | goroutines by channels | unlocked reads, pooled objects, sends under a lock | each call gets its own answer, nothing blocks for ever |
| Go server (`conn.go` `Serve` and handlers, `workerpool.go`, `server.go`) | the pool's channel and its workers, `serving`, the map of connections | `handleHello`, `handleRequest`, `put`, `run` with its recovery, `Serve`, `Stop` | read loop and workers by an unbuffered channel, `writeCh` | panicking handlers, a channel that is closed under its sender, workers that outlive the write loop | each request is answered once, `Serve` returns |
| Go `Client`, `Backoff` | current connection, backoff state | dial, retry, clear | `Conn` | a connection that dies between two uses | one live connection, retries end |
| Elixir client (`client.ex`) | sequence, packets, waiters, go-away flag | call, cast, flush, ping, tcp events | one GenServer process, callers | state that changes shape after a go away | waiters are answered once |
| Elixir server (`ranch_protocol.ex`) | monitors of the workers, sequence, ping flag, codec | handler loop, flush, DOWN, go away | workers, socket | workers that die, responses that overtake other messages, silence | each request is answered once, the process ends with its connection |
| Python session, both ends (`socket_session.pyx`, `socket_watcher.pyx`) | inflight table, send queue, closing flags, last ping | send, receive, requests of the peer, ping loop, close | greenlets, handlers, stream handler | one table for two id spaces, wake-ups, draining | calls end, requests are answered, close sends what it promised |
| C decoder and buffer, Python stream handler | decode buffer, partial header, write buffer | append, consume, reset, compact | session | chunk boundaries, sizes at their limits | the frames out are the frames in |
| Go and Elixir protocol parsers | read buffer | parse | connection | unknown opcodes | same |

Section 7 says what is not modelled, and why.

## 2. Modules

| module | models | state and actions |
|---|---|---|
| `LoquiRpc` | what every client promises (abstract) | calls opened, executed, returned; `Make`, `Execute`, `Reply` with the call's own answer, `Fail`, `Refuse` |
| `RustConnection` | the two running event loops of a Rust connection | `phase`, `outbox`, `net`, `selfRx`, ids, waiters, oneshots and spawned tasks; one action per event of `event_handler.rs`, `WriteFrame` for the awaited write, the callers' `Await` |
| `SelectBreak` | the two nested `select_break` adapters | the flag of each adapter, which streams are ready or over; `HandOut`, `GiveNone` are one `poll_next` of the outer adapter |
| `RustHandshake` | from TCP connect to two running loops | stage of each connection task, which end is foreign, deadlines, the ready channel and task, encoding cell, callers of `await_ready` |
| `GoConn` | the loops, `Close` and `Terminate` of `conn.go`, and a client's calls | one program counter per goroutine, the mutex, the map, the request pool, `writeCh`, the flags read without the mutex |
| `GoServe` | the server's end: handlers of the read loop, `Serve`, `workerpool.go`, `serveConn` and `Stop`; extends `GoConn` to the whole connection | how far `serveConn` is, the context in `put`, each worker, what the client sent and got |
| `ExClient` | `Loqui.Client` | the process state, one action per callback and message; any order of the mailbox |
| `ExServer` | `Loqui.RanchProtocol`; extends `ExClient` to a client and a server over one connection | the process of the connection with its monitors and ping flag, a worker per request, the part of the mailbox whose order matters; one action per message of `handler_loop` |
| `PyStream` | `stream_handler.pyx` over `src/c` | write buffer with its position and allocation, decode buffer with its phase, bytes on the wire; one action per send, write, chunk and round of the decode loop |
| `PySession` | either end of `socket_session.pyx` with `socket_watcher.pyx` | session flags, inflight table, frames to send, the watcher's flags, queued switches; an action is what a greenlet does between two waits |

The `MC` modules give the constants their values, `*_proofs` hold the theorems.
`PROJECT.json` maps each definition to the lines it stands for.

How they fit: `RustHandshake` ends where `RustConnection` begins;
`SelectBreak` justifies the fairness that `RustConnection` assumes of the three
streams of a loop; `RustConnection` implements `LoquiRpc`
(`ImplementsRpc`, by a refinement mapping at the end of the module).
`PySession` treats a frame as a unit because `PyStream` shows that frames
survive any cutting of the bytes. `ExServer` composes the Elixir client and
server. The other ends of `GoConn`, `GoServe` and `PySession` are abstract
peers of any implementation: a server answers what it reads, in any order, and
may go away, close or fall silent where a scenario says so; a client sends the
frames of its scenario, protocol errors among them.

### Abstractions

- Payloads are the call they belong to; encodings are model values. Only
  `PyStream` has bytes; there each header field takes one byte, so that every
  place where a chunk can end exists, and byte order is left out.
- Timers fire at any moment they are armed. Where a property needs that they do
  fire, the fairness says so.
- A Rust event handler, an Elixir callback and the code of a greenlet between
  two waits are atomic, since nothing else touches their state meanwhile. Go
  goroutines are split at every channel operation, lock and unlocked read.
- Errors of the socket are possible wherever the code handles one.
- In `PySession` a client's ping has number 0, apart from those of its
  requests: the loop has one ping at a time, and the client's counter gives
  distinct numbers to both kinds. On a server the peer's requests have numbers
  of the peer's own, and a ping may meet one of them (`Meets`). Python 2 and 3 differ in
  `_cleanup_inflight_requests` (`.values()` is a list or a view); a scenario
  says which one runs. A push handler does not wait, and neither end is sent
  pushes there that the decoder accepts. A push that it refuses for its size
  (`oversized`) comes in two pieces, its header and the rest, in one chunk or in
  two. The decoder gives it up at the end of the header, is reset, and takes what
  follows for frames: from then on a chunk may be what was sent, nothing, or one
  frame that nobody sent, with any number and any opcode that the end handles but
  a push. That bound, one misread frame a chunk, is `Decodes`.
- A codec in `ExClient` is the default one (a payload of before the HelloAck)
  or the one agreed on; a scenario says whether they differ, and whether there
  is one at all. Which terms a codec can represent is left to the scenario as
  well: in those with odd payloads, responses or reasons, each of them may make
  `encode` raise in the process that calls it.
- `GoServe` keeps of a context its frame, since payloads and compression change
  nothing in the control, and of a `Hello` whether it is acceptable. A worker
  that restarts after a panic is the same worker again.

## 3. What the runs check

| run | expects | bounds | shows |
|---|---|---|---|
| `rust_safety` | pass | 2 requests, 1 ping of each side (3 ids a side), 1 frame per direction, handlers that fail or panic | replies go to their own calls, each waiting call has exactly one sender behind it, a pong can only answer the ping that is out, `LoquiRpc` is implemented; the inductive invariant holds |
| `rust_live` | pass | 1 request, 1 push, 1 ping of each side, 1 frame per direction, failing handlers, no deadlines needed | a call returns unless both ends await a write into a full socket for ever (which this instance reaches); the close of one end reaches the other, also across full buffers, and no request or push is executed twice |
| `rust_blocked` | violation | 2 requests, 1 ping, 1 frame per direction | see the findings |
| `select_break` | pass | none: the state is finite | a ready stream waits for at most 3 other events (a ping for 1), and the loop ends when the socket does |
| `handshake` | pass | 2 encodings in 4 configurations, one end foreign or none, 2 callers, room for 1 waiting caller, intervals that round to zero or exceed the field | the ends agree, nothing is lost at the upgrade, what callers are told is true, `await_ready` returns |
| `go_calls` | pass | 2 calls, 2 pooled objects, ids modulo 4, `writeCh` of 2, 8 scenarios of a client; up to 3 frames after the hello, 1 or 2 workers, 10 scenarios of a server | map, calls and pool are consistent, a call without a timeout gets its own answer, calls return, an idle connection closes its socket; on the server a request is in one place until it is answered, is answered although handlers panic, nothing is put into a closed pool, and `Serve` returns |
| `go_crosstalk`, `go_terminate` | violation | 2 calls that may time out; 1 call and a server that closes | see the findings |
| `ex_client` | pass | 2 requests, a ping, a push, a close, ids up to 5, 14 scenarios | replies reach their callers, each request is answered at most once, monitors match workers, no clause is missing for what arrives and callbacks raise only of the codec or of a socket that is gone, waiters are told of a GoAway if nobody pings, silence is noticed by both ends |
| `ex_reset` | violation | 2 requests, 1 keepalive ping, a GoAway | see the findings |
| `py_stream` | pass | up to 3 frames a side, 7 conversations with every opcode, buffers of 4 to 20, sends of 5, payloads up to 3 | no buffer is overrun, nothing is lost, duplicated or misread, pings are answered |
| `py_session` | pass | 2 calls or requests of the peer, 2 frames in the socket, 9 scenarios of a client and 7 of a server, Python 2 and 3, a decoder error at either end | answers find their own callers, but for a frame misread after a decoder error, no wake-up is lost, the loop never sends nothing, draining abandons nobody who had registered before, a ping timeout means that the peer was silent, calls return unless they came in after the end, requests are answered, a close ends |

Why the bounds are enough for what they are meant to show: the hazards in
`PROJECT.json` need two calls (one that takes what belongs to the other), one
ping of each side, and a buffer that can be full; each instance has that.
One worker makes the read loop wait in `put`, two let answers overtake each
other.
Scenarios exist because all the ways to end a connection together with all calls
are out of TLC's reach; each of them holds the events whose interleaving
matters. Sequence ids are drawn from a small modulus, and their restart is
reached where the code has a special case for it (`ex_client`, `py_stream`); in
`rust_safety` the counter passes its end without using an id twice, and
`go_calls` draws at most 3 of its 4 ids and does not reach it.
`PyStream`'s sizes make a frame fit, fill and exceed the buffers, and payload
bytes that look like opcodes make every misalignment visible.

Deadlock is not checked where a connection that has ended, or has nothing left
to do, may stop (`CHECK_DEADLOCK FALSE`). `PyStream` has an action for that end
state, and is checked.

## 4. Fairness

- Rust: tokio polls a task again once it is woken, so each loop takes its
  events, each write that the socket can take is done, and spawned handlers
  finish. That no stream of a loop starves is not assumed of tokio: it is what
  `SelectBreak` shows. Deadlines and pings are fair only in `TimerSpec` and in
  the handshake.
- Go: a runnable goroutine runs (one condition each), timers of calls fire, and
  a handler returns or panics. A goroutine that
  waits for a mutex or a channel has no fairness of its own: weak fairness of a
  step that is not enabled for ever promises nothing.
- Elixir: messages in the mailbox are handled, scheduled messages arrive, and a
  worker returns or exits.
- Python: the hub runs its callbacks and reports ready sockets, timers expire.
  The hub runs queued callbacks before it looks at sockets and timers, which is
  a guard of those actions. A request handler of the application responds in
  the end. A peer that listens answers what it has read; it need not read.
- Abstract peers read and answer unless their scenario lets them fall silent; no
  client is obliged to send.

## 5. Proofs

`RustConnection_proofs`, for any number of requests, pushes and pings and any
buffer size, from the named assumptions on the constants:

- `TypeCorrect` (types) and `ExecutedOnce` (nothing is executed twice) need no
  more than those; the second rests on `InOnePlace` (a request is in one place
  on its way at a time).
- `Invariance`: `Spec => []IInv`, if `IdsDoNotWrap` (fewer ids are drawn than
  there are; the runs draw each id once as well). `AnswerIsOwn` alone is not
  inductive: that a reply reaches its own caller rests on `IdsAreFresh` (every
  id in use is below the counter), `FramesCarryTheirOwn` (frames, tasks and
  queued events carry the id that their call drew), `WaitersOwnTheirIds` (the
  waiter under an id is the call that drew it) and `RepliesAreOwn`. One lemma
  per conjunct, one step per action. `AnswersAreOwn` follows from it.
- `Refinement`: `Spec => ImplementsRpc`, step by step under the same invariant.

`RustConnection_calls_proofs`, whatever the ids do: `SenderIsHeldOnce` (exactly
one sender stands behind each call that waits: in the queue, in the waiters or
in a channel that is still open) and `PongIsTheAnswer` (a pong on its way can
only answer the ping that is out). The first needs that queue and waiters never
hold the same call; the second that a ping and its pong are in one place.

`RustHandshake_proofs`: `EncodingIsAgreed` and `HandshakeIsSound`, for any
encodings, callers and queue. The invariant adds to `HandshakeInv` what each
stage of either task implies about the other end, the ready channel and the
encoding cell, whose publication takes two steps.

`SelectBreak_proofs`: `WaitIsBounded`, from the invariant `TurnsLeft`: what a
stream has waited plus what can still go ahead of it never exceeds its limit.

`GoServe_proofs`, for any calls, pool, scripts and workers:

- `TypesAreKept`, without further assumptions.
- `MapIsExact` (`ConnInv`), if ids do not wrap: map, calls and pool agree at
  every point between two unlocked steps. `MapInv` ties the program counter of
  each call to the entry it has in the map and to the object it has taken.
- `PatientCallsGetTheirAnswer` (`PatientAnswerIsOwn`), if ids do not wrap. What
  the finding `go_crosstalk` breaks holds of calls without a timeout:
  `PatientInv` follows an answer from the socket to the channel of the object,
  and shows that nobody puts that object back meanwhile.
- `NoRequestIsLost` (`RequestsConserved`), if `ScriptsAreSound` (a client uses
  an id once): a request of the peer is in exactly one place (the socket, the
  read loop, the pool's channel, a worker, `writeCh`, or answered). `ServeInv`
  has a part for the orderly end of the loops, one for the channels between
  them, and `OnePlace`.

`ExServer_proofs`, for client and server together and any calls, surroundings
and sequence ids:

- `TypesAreKept` and `RequestsAreAnsweredOnce` (`AnsweredOnce`), without further
  assumptions. The invariant `JobInv` follows each request: until it has a
  worker it is in one place (`Asking`); then the worker says one thing and goes,
  and a response in the mailbox excludes a crash and an answer already sent
  (`Answering`); `monitor_refs` knows the workers whose `:DOWN` is due
  (`Watching`); and nothing is on its way for nobody (`Sound`). That
  `flush_responses` takes every response out of the mailbox at once, while the
  `:DOWN` messages stay in order, is `ResponsesFacts`.
- `BooksAreKept` (`BooksInv`), `AnswersReachTheirCallers` (`AnswerIsOwn`) and
  `ProcessesDoNotCrash` (`NeverCrashes`), if `IdsSuffice`: requests, pings of
  callers and keepalive pings together are fewer than the ids, so that
  `next_sequence` does not come round to an id that is in use. Nothing in the
  code prevents that, but it takes 2^32 draws on one connection. `ClientBooks`
  adds to `JobInv` that the next id is new (`IdsAreNew`) and that an id stays
  its caller's while a frame of the request is alive anywhere between the packet
  buffer and the response (`Live`, `Held`), while what a pong can take out of
  `waiters` is never a request (`Echo`). As the properties do, it leaves out what
  follows a ping after a GoAway (`reset`), which the run `ex_reset` is about. A
  server that crashes on a connection that works has a term in its mailbox that
  its codec cannot represent, or was sent one encoded otherwise; such
  a term does end the connection, with the requests of all others (section 6).

`PyStream_proofs`, for all buffer sizes, conversations and ways to cut the
bytes: `IInvHolds`, and from it `TypesHold`, `WriteBufferSafe` (the position,
length and allocation of the write buffer stay in order, and no compaction
copies between overlapping regions) and `DecoderSafe` (the decoder reads fields
that it has and writes within its allocation). The invariant is the type
invariant with one predicate per buffer (`WOK`, `DOK`): what the decoder has
counted so far is what the phase it is in allows.

Above it stand `StreamHolds` (`StreamIsWhole`) and `ExchangeHolds`
(`ExchangeIsComplete`): until a call raises, no byte is lost, repeated or moved
between the sender's buffer and the receiver's events, and once nothing is left
to do every frame was decoded and every ping answered. The invariant is `SInv`,
for each side:

- `Flow`: what the side sent is the frames its peer decoded, followed by some
  frames whose encoding is exactly the bytes still under way: what the decoder
  holds of a frame (`Partial`), the rest of the chunk, the wire and the unsent
  part of the write buffer, in this order. `CompleteMatches` shows that a frame
  the decoder calls complete is the first of those, `IncompleteIsShort` that it
  holds less than that one otherwise.
- `Answers`: the pongs in the stream are the pings decoded, in order.
- `Quiet`, `Scripted` and `AllProper`: no event is kept once a chunk is used up,
  and the frames still to send, like those sent, have the form assumed below.

It assumes of a conversation (`ScriptsAssumption`) what the `send_` functions
enforce by their parameters, that a frame has only the fields of its opcode
(`Proper`), and that only the handler itself sends pongs
(`stream_handler.pyx:401`). What concatenations over a whole stream do (`FlattenAppend`,
`BytesConcat`, `SeqsAppend`) is proved from the least counterexample, with
`WFMin` on the numbers below `<`: the theorems that take a predicate as a
parameter cannot be instantiated, those about a set can.

`PySession_proofs`, for a client or a server, any calls, scenarios and room in
the socket: `SessionHolds`, `AnswerIsOwnHolds`, `WatcherHolds`, `DrainedHolds`
and `TimeoutHolds`, the five invariants of the run. They share one inductive
invariant, `IInv`:

- `Good` is about the session, its calls, the queued switches, the input, the
  kernel and the peer. While the socket is open, every request frame on its way
  has the number that the table holds for its call, in the client's output, at
  the peer and in the answers that come back (`ClientTable`, `ClientFrames`); on
  a server a request that comes is in one place with the number that the peer
  gave it, the ping or its pong is in one place, and whatever lost its entry met
  something with its number (`ServerTable`, `ServerFrames`). `Books` bounds the
  counters by the calls: no number without a call that drew it, at most one
  switch more than calls that asked for one (two once the socket is closed).
- `Watched` strengthens `WatcherInv` by the flags that `continue` leaves set:
  each of them keeps the write watcher started.
- `Ended` says what draining leaves behind: nobody who was in the table, and
  whoever waits or was terminated since is in `late`.

What the decoder makes of a stream it has lost step with is in `Good` as well.
What the kernel holds was sent by the peer, before `misread` and after; a frame
that nobody sent exists only within the turn that decodes it, on a session that
shuts down. It can answer a call or, on a server, take the entry of a request,
which is then among those that met something with their number (`shared`).
`AnswerIsOwn` therefore says of every answer that it is the call's own, or that of
such a frame after a decoder error.

`Good` takes its parts as arguments, because a turn of the run loop goes through
states that no step ends in: after each event of a chunk, after the chunk, after
the write. `HandleEvent` keeps it for each kind of event (`ClientEvent`,
`ServerEvent`), and a whole chunk by the least event that would not
(`UpTo`, `ClientHandled`, `ServerHandled`). The attempt to prove `WatcherInv`
showed that the model had not let a full socket interrupt a turn which had read
data; the code does (`socket_session.pyx:462`), and so does `Again` now.

Every inductive invariant was checked by TLC on the instance of its run before
it was proved, and the instances satisfy the assumptions.

Every invariant that a passing run checks is stated by a theorem. Only
model-checked is what is temporal beyond invariance and refinement: liveness
under fairness is out of this prover's reach.

## 6. Findings

Each has a run that TLC finishes with the counterexample.

- `rust_blocked`: a loop awaits the write of a frame before it polls anything,
  so two ends that write into full buffers wait for each other, and the
  unanswered ping that should end this is never noticed.
- `go_crosstalk`: `completeRequest` sends on a pooled request's channel after the
  unlock; a call that timed out meanwhile has put the object back, and the next
  call that takes it is given the other's answer.
- `go_terminate`: `terminate` sends to every call with the mutex held; one that
  already has its answer waits for that mutex, and the socket is never closed.
- `ex_reset`: a ping after a GoAway turns the sequence `:go_away` into a number,
  and the scheduled close then matches no clause.

Met while modelling, without a run of their own (the model has the step in each
case, and a property leaves it out with a comment where it would break one):

- Rust: a waiter reports a closed connection as a timeout.
- Go: `Handshake` returns nil after an early close (`conn.go:305`); `Terminate`
  can lose its GoAway to the closed `terminateCh` or the closed socket
  (`conn.go:166`); two terminating goroutines can close `terminateCh` twice; a
  push between the HelloAck and `c.serving = true` ends the connection
  (`conn.go:515`); a request with sequence 0 counts as a push and is not
  answered (`requestcontext.go:44`); a request is served without any Hello;
  once the write loop has gone, enough answers fill `writeCh`, block the
  workers, the read loop and `Serve` for ever. `flags & FlagCompressed` of no
  flags is no flag: compressed payloads are never announced (not modelled).
- Elixir client: the pong of a caller's ping is dropped while a keepalive is out
  (`client.ex:464`); a request before the HelloAck is encoded with the default
  codec, and the server crashes if another one was agreed on; a payload that the
  codec cannot represent ends the client's process with all its callers
  (`client.ex:349`), a response that it cannot represent, or the reason of a
  handler's crash (`send_error`, any term: an exception arrives as its struct),
  the server's, with the requests of all others (`ranch_protocol.ex:158`, `:287`).
  `OddInMailbox` leaves this case out of `NeverCrashes`.
- Elixir server: a socket error crashes the process without `loqui_terminate`;
  after a refused hello `goaway` closes and so does the caller, and
  `loqui_terminate` runs twice; its own goaway closes at once, so that waiting
  callers exit instead of being told.
- Python: `send_request` does not look at the session again once the ready event
  has woken it, so a caller that waited for the hello can register with a session
  that has drained and is gone (`socket_session.pyx:176`, although `:476` calls
  it "safe to terminate the socket"); he waits for ever, or until somebody calls
  `terminate`. `s.late` leaves these callers out of `DrainedMeansAnswered` and
  `CallsReturn`. After a decoder error (`:250`) the session drains and reads on
  with a decoder that was reset amid a frame: payload of the refused frame can be
  decoded as a response or a pong with a waiting request's number, whose caller
  is given it as the answer ("a response for a request we've made", `:323`).
  `s.misread` leaves this case out of `AnswerIsOwn`.
- Python: `close` does not wake the loop for its goaway (`socket_session.pyx:113`);
  `continue` skips `reset` (`:429`); in Python 3 nobody is told of the end of a session (`:135`); the sequence 0 after the wrap is
  taken for an exception (`stream_handler.pyx:94`); the encoder takes payloads
  that the decoder refuses (`decoder.h:142`).
- Python server: pings and the peer's requests share `_inflight_requests`. A
  request with the number of the ping that is out replaces it, and the session
  is closed for a ping timeout although the peer answered; a pong can pop the
  request, at which the run loop dies of an AttributeError, or its answer finds
  no entry. `close(reason=...)` passes an int where bytes are declared, so a
  hello without a common encoding ends in a TypeError instead of a goaway; a
  hello on a session that is closing raises too. `send_response` is refused
  once the session shuts down, so that requests in flight hold it up until the
  close times out.

## 7. Not modelled

- Examples, benches and configuration records have no logic of their own.
- The C files in `src/py/loqui` are what Cython generates from the `.pyx` files
  next to them. The models are translated from the `.pyx` sources, and so is
  the map: a line of generated C is reference counting and calls into the
  Python runtime around one step of its source, which no definition stands for.
  They are nearly all the C of the repository; of the C that was written by
  hand, `decoder.h`, `encoder.h` and `buffer.h` are modelled in `PyStream`.
- Byte order (`sysdep.h`), flags and the compression that they announce, TLS and
  logging.
- The codecs of Rust, Go and Elixir keep no state between frames apart from the
  bytes that are not parsed yet; the one codec with a state of its own, the C
  decoder, is modelled.
- The Go and Python clients above a connection (`client.go`, `client.pyx`, the
  backoffs): they dial, keep the current connection and retry. In Go only the
  goroutine that clears a dead connection retries, the cleared one is not
  closed, a retry may execute a request twice, and the backoff is used without
  a lock; in Python `await_ready` may return on a closed session, and
  `send_request_async` passes an argument too many. They are next in line.

## 8. Plan

Done, in this order: `LoquiRpc`, `RustConnection`, its proofs, `SelectBreak`,
`RustHandshake`, `GoConn`, `ExClient`, `PyStream`, its proofs, `PySession`, its
server end, `ExServer`, `GoServe`; the proofs of `RustHandshake`, of the calls of
`RustConnection`, of `GoServe`, of `ExServer` and of `PySession`, and that the
streams of `PyStream` are whole.

Next: the Go and Python clients with their retries and backoff.
