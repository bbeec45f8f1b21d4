----------------------------- MODULE PySession -----------------------------
(***************************************************************************)
(* A Python LoquiSocketSession (src/py/loqui/socket_session.pyx), as       *)
(* client or as server, with its SocketWatcher                             *)
(* (src/py/loqui/socket_watcher.pyx): greenlets of callers, of handlers    *)
(* that answer late, the ping loop, the close timeout and the run loop,    *)
(* which sleeps in the watcher until a socket event or a requested switch  *)
(* wakes it.                                                               *)
(*                                                                         *)
(* Frames stand for their bytes (PyStream has those).  A greenlet runs     *)
(* until it waits, so an action is what happens between two waits; the     *)
(* handlers of requests and pushes do not wait.  The ping loop sends no    *)
(* second ping before the first is answered, so the number of a ping       *)
(* matters only if a request may have it: all others are Keepalive.  The   *)
(* peer is abstract, says hello first and numbers its requests from 1; it  *)
(* may send a push that is too large for the decoder, after which bytes of *)
(* payload can be taken for frames, at most one a chunk: see Decodes.      *)
(***************************************************************************)
EXTENDS Integers, Sequences, SequencesExt, FiniteSets, FiniteSetsExt, Functions

CONSTANTS
  Call,        \* the calls that may be made
  Scenarios,   \* what a run contains: [role, python, requests, defers, pushes,
               \* ends, peer]; defers: on_request leaves the answer for later
  TxCap        \* frames that the socket takes before it blocks

NoCall == "no call"
Garbled == "garbled"  \* what a misread frame belongs to

ASSUME PySessionAssumption ==
  /\ IsFiniteSet(Call) /\ NoCall \notin Call /\ Garbled \notin Call
  /\ TxCap \in Nat \ {0}
  /\ \A x \in Scenarios :
       /\ x.role \in {"client", "server"} /\ x.python \in {2, 3}
       /\ x.requests \subseteq Call /\ x.pushes \subseteq Call \ x.requests
       /\ x.defers \subseteq x.requests
       /\ x.ends \subseteq {"close", "terminate"}
       /\ x.peer \subseteq
            {"ping", "goaway", "close", "mute", "error", "unknown_encoder",
             "oversized"}

VARIABLES
  scenario,
  s,        \* the session: see Session below
  watcher,  \* read, write: sock_read_ready, sock_write_ready;
            \* blocked: sock_write_blocked; switching: is_switching
  writing,  \* sock_write_watcher is started
  loop,     \* the run loop: "wait" or "done"
  switches, \* _request_switch callbacks that the hub has still to run
  pinger,   \* the ping loop: "wait" or "done"
  call,     \* [Call -> CallState]
  rx, eof,  \* what the kernel holds for recv, and whether the stream ends
  tx,       \* what the kernel took from send and the peer has not read
  peer,     \* the peer: [todo, num, muted, left]
  drained   \* history: the run loop ended because the session was drained

vars == <<scenario, s, watcher, writing, loop, switches, pinger, call,
          rx, eof, tx, peer, drained>>

Keepalive == 0
Frame(op, n, c) == [op |-> op, seq |-> n, call |-> c]

Session ==
  [sock: BOOLEAN,       \* _sock is not None
   shutting: BOOLEAN,   \* _shutting_down
   ready: BOOLEAN,      \* _is_ready, and an encoder is chosen
   timer: {"none", "armed", "done"},  \* the _close_timeout greenlet
   seq: 0..Cardinality(Call),
   ping: 0..Cardinality(Call),  \* the number of the last ping
   ponged: BOOLEAN,     \* its ping_result is ready
   inflight: UNION {[D -> Call \cup {NoCall, Garbled}] :  \* _inflight_requests:
                      D \in SUBSET (0..Cardinality(Call))},  \* calls, NoCall the ping
   out: Seq([op: {"hello", "hello_ack", "ping", "pong", "request", "response",
                  "push", "goaway"},
             seq: 0..Cardinality(Call), call: Call \cup {NoCall, Garbled}]),
   heard: BOOLEAN,      \* history: the pong of the last ping was handled
   wronged: BOOLEAN,    \* history: closed for a ping although it was heard
   shared: SUBSET Call, \* history: requests met a ping, or a misread frame, in
                        \* _inflight_requests
   misread: BOOLEAN,    \* history: the decoder failed amid a frame
   late: SUBSET Call]   \* history: requests came in after _cleanup_socket

\* Where a call is, and whose answer it got.
CallState ==
  ({"idle", "await_ready", "waiting", "sent", "terminated", "refused",
    "coming", "deferred", "responded", "dropped"} \X {NoCall})
    \cup ({"answered", "error"} \X (Call \cup {Garbled}))
At(place) == <<place, NoCall>>

\* _ready_event and _shutdown_event are set by close and _cleanup_socket, the
\* first one also when the session becomes ready.
IsClient == scenario.role = "client"
ReadyEvent == s.ready \/ s.shutting \/ ~s.sock
ShutdownEvent == s.shutting \/ ~s.sock
Defunct == ~s.sock \/ s.shutting

-----------------------------------------------------------------------------
(* Parts of the operations: functions from a session to a session *)

\* Mutant: the test of the blocked flag is inverted.
ResumesInverted(t, f) == t.sock /\ t.out # <<>> /\ f.blocked /\ ~f.switching

\* _resume_sending and request_switch: is a callback queued?
Resumes(t, f) == t.sock /\ t.out # <<>> /\ ~f.blocked /\ ~f.switching
Resumed(t, f) == IF Resumes(t, f) THEN 1 ELSE 0

Enqueue(t, f) == [t EXCEPT !.out = Append(@, f)]

\* Mutant: no greenlet waits for the close.
CloseUntimed(t, announce) ==
  IF t.shutting THEN t
  ELSE [t EXCEPT !.shutting = TRUE,
                 !.out = IF announce /\ t.sock
                         THEN Append(@, Frame("goaway", 0, NoCall)) ELSE @]

Close(t, announce) ==
  IF t.shutting THEN t
  ELSE [t EXCEPT !.shutting = TRUE, !.timer = "armed",
                 !.out = IF announce /\ t.sock
                         THEN Append(@, Frame("goaway", 0, NoCall)) ELSE @]

Put(inflight, n, c) ==
  [m \in DOMAIN inflight \cup {n} |-> IF m = n THEN c ELSE inflight[m]]

Forget(inflight, n) == Restrict(inflight, DOMAIN inflight \ {n})

\* Mutant: one number for all.
NextSeqStuck(n) == n

\* The stream handler's next_seq, without the wrap.
NextSeq(n) == n + 1

\* A request and a ping with one number: the later takes the entry.
Meets(t, n, c) ==
  IF n \in DOMAIN t.inflight THEN t.shared \cup ({c, t.inflight[n]} \cap Call)
  ELSE t.shared

\* send_ping, by the ping loop
SendPing(t) ==
  LET n == IF IsClient \/ t.seq = Cardinality(Call) THEN Keepalive
           ELSE NextSeq(t.seq)
  IN  Enqueue([t EXCEPT !.seq = IF n = Keepalive THEN @ ELSE n, !.ping = n,
                        !.ponged = FALSE, !.heard = FALSE,
                        !.inflight = Put(@, n, NoCall),
                        !.shared = Meets(t, n, NoCall)],
              Frame("ping", n, NoCall))

\* Everything that an event changes: the session, the calls, and whether the
\* handler raised, which ends the run loop without _cleanup_socket.
After(t, cs) == [session |-> t, calls |-> cs, raised |-> FALSE]
Raise(t, cs) == [After(t, cs) EXCEPT !.raised = TRUE]

\* Mutant: whoever waits longest gets the answer.
PopOldest(b, n, result) ==
  LET i == b.session.inflight
      k == Min(DOMAIN i)
  IN  IF DOMAIN i = {} THEN b
      ELSE After([b.session EXCEPT !.inflight = Forget(i, k)],
                 IF i[k] = NoCall THEN b.calls
                 ELSE [b.calls EXCEPT ![i[k]] = result])

\* _handle_response and _handle_error pop by sequence number, and set the result
\* of what they find.
PopInflight(b, n, result) ==
  LET i == b.session.inflight
      u == [b.session EXCEPT !.inflight = Forget(i, n)]
  IN  IF n \notin DOMAIN i THEN b
      ELSE IF i[n] = NoCall THEN After([u EXCEPT !.ponged = TRUE], b.calls)
      ELSE After(u, [b.calls EXCEPT ![i[n]] = result])

\* Mutant: only a pong with the number issued last counts.
HandlePongOfLatest(t, cs, n) ==
  IF n \notin DOMAIN t.inflight \/ n # t.seq
  THEN After([t EXCEPT !.heard = (@ \/ n = t.ping)], cs)
  ELSE After([t EXCEPT !.inflight = Forget(@, n), !.heard = (@ \/ n = t.ping),
                       !.ponged = TRUE], cs)

\* _handle_pong: what it pops may be a Request of the peer, which has no set(),
\* or, if the pong was misread, the result of a request.
HandlePong(t, cs, n) ==
  LET u == [t EXCEPT !.inflight = Forget(@, n), !.heard = (@ \/ n = t.ping)]
  IN  IF n \notin DOMAIN t.inflight THEN After(u, cs)
      ELSE IF t.inflight[n] = NoCall THEN After([u EXCEPT !.ponged = TRUE], cs)
      ELSE IF IsClient
      THEN After(u, [cs EXCEPT ![t.inflight[n]] = <<"answered", Garbled>>])
      ELSE Raise([u EXCEPT !.shared = @ \cup ({t.inflight[n]} \cap Call)], cs)

\* send_response: nothing once the session shuts down, nor for a number that
\* is not in the table; whose entry it is, is not looked at.
Respond(t, cs, n, c) ==
  IF ~t.sock \/ t.shutting \/ n \notin DOMAIN t.inflight
  THEN After(t, [cs EXCEPT ![c] = At("dropped")])
  ELSE After(Enqueue([t EXCEPT !.inflight = Forget(@, n)],
                     Frame("response", n, c)),
             [cs EXCEPT ![c] = At("responded")])

\* Mutant: the request enters the table after its handler has returned.
HandleRequestLate(t, cs, n, c) ==
  LET u == [t EXCEPT !.shared = Meets(t, n, c)]
  IN  IF c \in scenario.defers
      THEN After([u EXCEPT !.inflight = Put(@, n, c)],
                 [cs EXCEPT ![c] = At("deferred")])
      ELSE Respond(u, cs, n, c)

\* _handle_request: it raises if the hello was lost.  A misread one comes on a
\* session that shuts down, so it is not answered whatever the handler does.
HandleRequest(t, cs, n, c) ==
  LET u == [t EXCEPT !.inflight = Put(@, n, c), !.shared = Meets(t, n, c)]
  IN  IF ~t.ready THEN Raise(t, cs)
      ELSE IF c = Garbled THEN After(u, cs)
      ELSE IF c \in scenario.defers
      THEN After(u, [cs EXCEPT ![c] = At("deferred")])
      ELSE Respond(u, cs, n, c)

\* _handle_hello: the hello_ack of a session that shuts down raises, and so
\* does close(reason=...), which is given a number where bytes are declared.
HandleHello(t, cs, known) ==
  IF ~known \/ t.shutting THEN Raise(t, cs)
  ELSE After(Enqueue([t EXCEPT !.ready = TRUE], Frame("hello_ack", 0, NoCall)),
             cs)

\* _handle_client_events and _handle_server_events, one event
HandleEvent(b, f) ==
  LET t == b.session
      cs == b.calls
  IN  IF b.raised THEN b
      ELSE CASE f.op = "response" ->
                  PopInflight(b, f.seq, <<"answered", f.call>>)
             [] f.op = "error" -> PopInflight(b, f.seq, <<"error", f.call>>)
             [] f.op = "pong" -> HandlePong(t, cs, f.seq)
             [] f.op = "goaway" -> After(Close(t, FALSE), cs)
             [] f.op = "hello_ack" -> After([t EXCEPT !.ready = TRUE], cs)
             [] f.op = "unknown_encoder" ->
                  IF IsClient THEN After(Close(t, TRUE), cs)
                  ELSE HandleHello(t, cs, FALSE)
             [] f.op = "hello" -> HandleHello(t, cs, TRUE)
             [] f.op = "request" -> HandleRequest(t, cs, f.seq, f.call)
             [] f.op = "undecodable" -> Raise(t, cs)
             [] f.op \in {"ping", "rest"} -> b

Pongs(frames) ==
  LET pongs[n \in 0..Len(frames)] ==
        IF n = 0 THEN <<>>
        ELSE pongs[n - 1] \o IF frames[n].op # "ping" THEN <<>>
                             ELSE <<[frames[n] EXCEPT !.op = "pong"]>>
  IN  pongs[Len(frames)]

\* What a chunk may be decoded as.  Once the decoder has given up a frame for its
\* size, it takes the bytes after the header for frames: it fails again or waits
\* for more, is back in step, or finds a frame that nobody sent, whose payload
\* may be such that it raises.
Garbles ==
  [op: {"ping", "pong", "goaway", "undecodable"}
         \cup IF IsClient THEN {"response", "error", "hello_ack"} ELSE {"request"},
   seq: 0..Cardinality(Call), call: {Garbled}]

Decodes(frames) ==
  {frames} \cup IF s.misread THEN {<<>>} \cup {<<f>> : f \in Garbles} ELSE {}

TooLarge(frames) == {i \in DOMAIN frames : frames[i].op = "oversized"}

\* A LoquiDecoderError: the events of the chunk are lost, but for the pongs.
DecoderFails(frames) ==
  LET pongs == Pongs(SubSeq(frames, 1, Min(TooLarge(frames)) - 1))
  IN  After(Close([s EXCEPT !.misread = TRUE, !.out = @ \o pongs], TRUE), call)

\* _handle_data_received: the stream handler answers the pings of the chunk
\* while it decodes, then the events are handled.
Handled(frames) ==
  LET after[n \in 0..Len(frames)] ==
        IF n = 0 THEN After([s EXCEPT !.out = @ \o Pongs(frames)], call)
        ELSE HandleEvent(after[n - 1], frames[n])
  IN  IF TooLarge(frames) = {} THEN after[Len(frames)] ELSE DecoderFails(frames)

\* Each response that a handler returned has asked for a switch of its own.
Replies(frames, cs) ==
  Cardinality({i \in DOMAIN frames : /\ frames[i].op = "request"
                                     /\ frames[i].call \in Call
                                     /\ cs[frames[i].call] = At("responded")})

\* How often a chunk calls _resume_sending: never if no event came of it.
Asks(frames, cs) ==
  IF frames = <<>> \/ TooLarge(frames) # {} THEN 0 ELSE 1 + Replies(frames, cs)

\* _cleanup_inflight_requests takes values() before it clears the table.  In
\* Python 2 that is a list; in Python 3 it is a view, which is then empty, and
\* nobody is told.  The entries of a server are the peer's requests: they just
\* go.
Terminated(t, cs) ==
  [c \in Call |->
     IF IsClient /\ scenario.python = 2 /\ c \in Range(t.inflight)
     THEN At("terminated")
     ELSE cs[c]]

\* _cleanup_socket
CleanedUp(t) == [t EXCEPT !.sock = FALSE, !.inflight = <<>>]

-----------------------------------------------------------------------------
Quiet == [read |-> FALSE, write |-> FALSE, blocked |-> FALSE,
          switching |-> FALSE]

\* After __cinit__ and the first turn of the two greenlets that it spawns: a
\* client has enqueued its hello, both have a ping, the run loop waits.
Init ==
  /\ scenario \in Scenarios
  /\ s = SendPing(
       [sock |-> TRUE, shutting |-> FALSE, ready |-> FALSE, timer |-> "none",
        seq |-> 0, ping |-> Keepalive, ponged |-> TRUE, inflight |-> <<>>,
        heard |-> FALSE, wronged |-> FALSE, shared |-> {},
        misread |-> FALSE, late |-> {},
        out |-> IF IsClient THEN <<Frame("hello", 0, NoCall)>> ELSE <<>>])
  /\ watcher = Quiet
  /\ writing = TRUE
  /\ loop = "wait"
  /\ switches = 1
  /\ pinger = "wait"
  /\ call = [c \in Call |-> At("idle")]
  /\ rx = IF IsClient THEN <<>>
          ELSE <<Frame(IF "unknown_encoder" \in scenario.peer
                       THEN "unknown_encoder" ELSE "hello", 0, NoCall)>>
  /\ eof = FALSE /\ tx = <<>>
  /\ peer = [todo |-> {}, num |-> [c \in Call |-> 0], muted |-> FALSE,
             left |-> IF IsClient THEN scenario.peer \ {"oversized"}
                      ELSE scenario.peer]
  /\ drained = FALSE

-----------------------------------------------------------------------------
(* Callers *)

Register(c) ==
  LET n == NextSeq(s.seq)
      t == Enqueue([s EXCEPT !.seq = n, !.inflight = Put(@, n, c),
                             !.late = IF s.sock THEN @ ELSE @ \cup {c}],
                   Frame("request", n, c))
  IN  /\ s' = t
      /\ call' = [call EXCEPT ![c] = At("waiting")]
      /\ switches' = switches + Resumed(t, watcher)

SendPush(c) ==
  LET t == Enqueue(s, Frame("push", 0, c))
  IN  /\ s' = t
      /\ call' = [call EXCEPT ![c] = At("sent")]
      /\ switches' = switches + Resumed(t, watcher)

Refuse(c) == call' = [call EXCEPT ![c] = At("refused")] /\ UNCHANGED <<s, switches>>

Proceed(c) == IF c \in scenario.requests THEN Register(c) ELSE SendPush(c)

\* send_request and send_push up to their first wait: _encode_data waits for
\* the ready event, and the result of a request is waited for.
CallStart(c) ==
  /\ call[c] = At("idle")
  /\ c \in scenario.pushes \/ (IsClient /\ c \in scenario.requests)
  /\ \/ Defunct /\ Refuse(c)
     \/ ~Defunct /\ s.ready /\ Proceed(c)
     \/ ~Defunct /\ ~s.ready /\ call' = [call EXCEPT ![c] = At("await_ready")]
        /\ UNCHANGED <<s, switches>>
  /\ UNCHANGED <<scenario, watcher, writing, loop, pinger, rx, eof, tx, peer,
                 drained>>

\* The ready event is set: there is an encoder, or NoEncoderAvailable.
\* Whether the session is still open is not looked at again.
CallReady(c) ==
  /\ call[c] = At("await_ready")
  /\ ReadyEvent
  /\ IF s.ready THEN Proceed(c) ELSE Refuse(c)
  /\ UNCHANGED <<scenario, watcher, writing, loop, pinger, rx, eof, tx, peer,
                 drained>>

\* send_response, by a greenlet that the request handler left the answer to
HandlerResponds(c) ==
  /\ call[c] = At("deferred")
  /\ LET b == Respond(s, call, peer.num[c], c)
     IN  /\ s' = b.session
         /\ call' = b.calls
         /\ switches' =
              switches + IF b.calls[c] = At("responded")
                         THEN Resumed(b.session, watcher) ELSE 0
  /\ UNCHANGED <<scenario, watcher, writing, loop, pinger, rx, eof, tx, peer,
                 drained>>

\* close(): the goaway is enqueued, and the run loop is not woken.
UserCloses ==
  /\ "close" \in scenario.ends
  /\ ~s.shutting
  /\ s' = Close(s, TRUE)
  /\ UNCHANGED <<scenario, watcher, writing, loop, switches, pinger, call, rx,
                 eof, tx, peer, drained>>

\* _cleanup_socket, from a greenlet other than the run loop
CleanUp(t) ==
  /\ s' = CleanedUp(t)
  /\ call' = Terminated(t, call)
  /\ switches' = switches + IF t.sock /\ ~watcher.switching THEN 1 ELSE 0
  /\ UNCHANGED <<scenario, watcher, writing, loop, rx, eof, tx, peer, drained>>

\* terminate(), which also finds who came in after an earlier _cleanup_socket
UserTerminates ==
  /\ "terminate" \in scenario.ends
  /\ CleanUp(s)
  /\ UNCHANGED pinger

-----------------------------------------------------------------------------
(* Timers; the hub runs the callbacks that are queued before it looks at    *)
(* timers and sockets.                                                      *)

\* _close_timeout
CloseTimeout ==
  /\ s.timer = "armed"
  /\ switches = 0
  /\ IF s.sock THEN CleanUp([s EXCEPT !.timer = "done"])
     ELSE /\ s' = [s EXCEPT !.timer = "done"]
          /\ UNCHANGED <<scenario, watcher, writing, loop, switches, call, rx,
                         eof, tx, peer, drained>>
  /\ UNCHANGED pinger

\* Mutant: an unanswered ping is no reason to close.
PingTickPatient ==
  /\ pinger = "wait"
  /\ switches = 0
  /\ ShutdownEvent
  /\ pinger' = "done"
  /\ UNCHANGED <<scenario, s, switches, watcher, writing, loop, call, rx, eof,
                 tx, peer, drained>>

\* _ping_loop, from one wait to the next
PingTick ==
  /\ pinger = "wait"
  /\ switches = 0
  /\ \/ /\ ShutdownEvent
        /\ pinger' = "done"
        /\ UNCHANGED <<s, switches>>
     \/ /\ ~ShutdownEvent /\ ~s.ponged
        /\ s' = [Close(s, TRUE) EXCEPT !.wronged = s.heard]
        /\ pinger' = "done"
        /\ UNCHANGED switches
     \/ /\ ~ShutdownEvent /\ s.ponged
        /\ s' = SendPing(s)
        /\ switches' = switches + Resumed(s', watcher)
        /\ UNCHANGED pinger
  /\ UNCHANGED <<scenario, watcher, writing, loop, call, rx, eof, tx, peer,
                 drained>>

-----------------------------------------------------------------------------
(* The run loop, from wait() to wait(), with the watcher's flags f           *)

\* `continue`: back to the top of the loop without reset().
Again(t, cs, f, k) ==
  /\ s' = t
  /\ call' = cs
  /\ watcher' = f
  /\ switches' = k
  /\ writing' = (writing \/ t.out # <<>>)
  /\ UNCHANGED <<loop, tx, drained>>

\* _cleanup_socket(), which asks for one more switch, and the loop is left.
Ends(t, cs, f, k) ==
  /\ s' = CleanedUp(t)
  /\ call' = Terminated(t, cs)
  /\ switches' = k + IF f.switching THEN 0 ELSE 1
  /\ writing' = FALSE
  /\ loop' = "done"

\* An exception leaves the loop: the watchers stop, the socket stays open.
Dies(b, f, k) ==
  /\ s' = b.session
  /\ call' = b.calls
  /\ watcher' = f
  /\ switches' = k
  /\ writing' = FALSE
  /\ loop' = "done"
  /\ UNCHANGED <<tx, drained>>

\* Mutant: requests in flight do not keep the session open.
IsDrainedOfBytes(t) == t.shutting /\ t.out = <<>>

IsDrained(t) == t.shutting /\ t.out = <<>> /\ t.inflight = <<>>

\* The end of an iteration: leave when drained, else reset() and wait again.
Finish(t, cs, f, k, writes) ==
  /\ watcher' = [Quiet EXCEPT !.blocked = f.blocked]
  /\ IF IsDrained(t) THEN Ends(t, cs, f, k) /\ drained' = TRUE
     ELSE
       /\ s' = t
       /\ call' = cs
       /\ switches' = k
       /\ writing' = (writes \/ t.out # <<>>)
       /\ UNCHANGED <<loop, drained>>

\* sock_write_watcher.stop() when everything is written
StillWriting(rest) == writing /\ rest # <<>>

\* The writing half of an iteration.
Write(t, cs, f, k) ==
  LET should == f.write \/ (~f.blocked /\ t.out # <<>>)
      n == Min({Len(t.out), TxCap - Len(tx)})
      rest == SubSeq(t.out, n + 1, Len(t.out))
  IN  \/ ~should /\ Finish(t, cs, f, k, writing) /\ UNCHANGED tx
      \/ /\ should /\ n = 0
         /\ Again(t, cs, [f EXCEPT !.blocked = TRUE], k)
      \/ /\ should /\ n > 0
         /\ tx' = tx \o SubSeq(t.out, 1, n)
         /\ Finish([t EXCEPT !.out = rest], cs,
                   [f EXCEPT !.blocked = (rest # <<>>)], k,
                   StillWriting(rest))
      \/ /\ should /\ eof
         /\ Ends(Close(t, TRUE), cs, f, k)
         /\ watcher' = f
         /\ UNCHANGED <<tx, drained>>

\* The reading half: data, the end of the stream, or EAGAIN.
Iterate(f, k) ==
  IF ~s.sock
  THEN /\ loop' = "done" /\ watcher' = f /\ switches' = k /\ writing' = FALSE
       /\ UNCHANGED <<s, call, rx, tx, drained>>
  ELSE \/ ~f.read /\ Write(s, call, f, k) /\ UNCHANGED rx
       \/ /\ f.read /\ rx # <<>>
          /\ \E frames \in Decodes(rx) : \E b \in {Handled(frames)} :
               IF b.raised THEN Dies(b, f, k)
               ELSE Write(b.session, b.calls, f,
                          k + Asks(frames, b.calls) * Resumed(b.session, f))
          /\ rx' = <<>>
       \/ /\ f.read /\ rx = <<>> /\ eof
          /\ Ends(Close(s, TRUE), call, f, k)
          /\ watcher' = f
          /\ UNCHANGED <<rx, tx, drained>>
       \/ /\ f.read /\ rx = <<>> /\ ~eof
          /\ Again(s, call, f, k)
          /\ UNCHANGED rx

\* mark_ready: libev reports a socket that can be read, or written to.
ReadReady ==
  /\ loop = "wait" /\ s.sock /\ switches = 0
  /\ rx # <<>> \/ eof
  /\ Iterate([watcher EXCEPT !.read = TRUE], switches)
  /\ UNCHANGED <<scenario, pinger, eof, peer>>

WriteReady ==
  /\ loop = "wait" /\ s.sock /\ switches = 0
  /\ writing
  /\ Len(tx) < TxCap
  /\ Iterate([watcher EXCEPT !.write = TRUE], switches)
  /\ UNCHANGED <<scenario, pinger, eof, peer>>

\* _request_switch
Switch ==
  /\ switches > 0
  /\ IF loop = "done" \/ watcher.switching
     THEN /\ switches' = switches - 1
          /\ watcher' = [watcher EXCEPT !.switching = TRUE]
          /\ UNCHANGED <<s, writing, loop, call, rx, tx, drained>>
     ELSE Iterate([watcher EXCEPT !.switching = TRUE], switches - 1)
  /\ UNCHANGED <<scenario, pinger, eof, peer>>

-----------------------------------------------------------------------------
(* The peer *)

Peer(m, answer) ==
  /\ rx' = rx \o answer
  /\ peer' = m
  /\ UNCHANGED <<scenario, s, watcher, writing, loop, switches, pinger, eof,
                 drained>>

\* It does nothing else before it has sent all of a frame.
Listens == ~eof /\ ~peer.muted /\ "rest" \notin peer.left

PeerReads ==
  /\ Listens
  /\ tx # <<>>
  /\ tx' = Tail(tx)
  /\ LET f == Head(tx)
     IN  CASE f.op = "hello" ->
                Peer([peer EXCEPT !.left = @ \cup (scenario.peer \cap {"oversized"})],
                     <<Frame(IF "unknown_encoder" \in peer.left
                             THEN "unknown_encoder" ELSE "hello_ack",
                             0, NoCall)>>)
           [] f.op = "ping" -> Peer(peer, <<[f EXCEPT !.op = "pong"]>>)
           [] f.op = "request" -> Peer([peer EXCEPT !.todo = @ \cup {f}], <<>>)
           [] f.op \notin {"hello", "ping", "request"} -> Peer(peer, <<>>)
  /\ UNCHANGED call

\* A server answers.
PeerAnswers ==
  /\ Listens
  /\ \E f \in peer.todo :
       \E op \in {"response"} \cup (peer.left \cap {"error"}) :
         Peer([peer EXCEPT !.todo = @ \ {f}], <<[f EXCEPT !.op = op]>>)
  /\ UNCHANGED <<tx, call>>

\* A client sends a request.
PeerRequests(c) ==
  /\ Listens
  /\ ~IsClient /\ c \in scenario.requests
  /\ call[c] = At("idle")
  /\ LET n == 1 + Cardinality({d \in Call : peer.num[d] # 0})
     IN  Peer([peer EXCEPT !.num[c] = n], <<Frame("request", n, c)>>)
  /\ call' = [call EXCEPT ![c] = At("coming")]
  /\ UNCHANGED tx

\* A ping, a goaway or, after its hello_ack, the beginning of a push that is too
\* large, once.
PeerSpeaks ==
  /\ Listens
  /\ \E op \in peer.left \cap {"ping", "goaway", "oversized"} :
       Peer([peer EXCEPT !.left = (@ \ {op}) \cup IF op = "oversized" THEN {"rest"}
                                                  ELSE {}],
            <<Frame(op, 0, NoCall)>>)
  /\ UNCHANGED <<tx, call>>

\* The other bytes of that push.
PeerGoesOn ==
  /\ ~eof
  /\ "rest" \in peer.left
  /\ Peer([peer EXCEPT !.left = @ \ {"rest"}], <<Frame("rest", 0, NoCall)>>)
  /\ UNCHANGED <<tx, call>>

\* It stops reading and answering for good.
PeerMutes ==
  /\ Listens
  /\ "mute" \in peer.left
  /\ Peer([peer EXCEPT !.muted = TRUE], <<>>)
  /\ UNCHANGED <<tx, call>>

\* It closes the connection: what it has not read is gone.
PeerCloses ==
  /\ ~eof
  /\ "close" \in peer.left
  /\ eof' = TRUE
  /\ tx' = <<>>
  /\ UNCHANGED <<scenario, s, watcher, writing, loop, switches, pinger, call,
                 rx, peer, drained>>

-----------------------------------------------------------------------------
Hub == ReadReady \/ WriteReady \/ Switch
Timers == CloseTimeout \/ PingTick

Next ==
  \/ \E c \in Call : CallStart(c) \/ CallReady(c) \/ HandlerResponds(c)
  \/ UserCloses \/ UserTerminates
  \/ Timers
  \/ Hub
  \/ PeerReads \/ PeerAnswers \/ PeerSpeaks \/ PeerGoesOn \/ PeerMutes \/ PeerCloses
  \/ \E c \in Call : PeerRequests(c)

Spec == Init /\ [][Next]_vars

\* The hub goes on running callbacks and reporting ready sockets, timers
\* expire, a server that listens answers what it has read, and whoever was left
\* the answer to a request calls send_response, as the comment at
\* socket_session.pyx:314 demands.  The peer need not read: one that does not
\* is found out by the ping loop.
FairSpec ==
  /\ Spec
  /\ WF_vars(Hub) /\ WF_vars(Timers) /\ WF_vars(PeerAnswers)
  /\ \A c \in Call : WF_vars(HandlerResponds(c))

-----------------------------------------------------------------------------
(* Properties *)

TypeOK ==
  /\ scenario \in Scenarios
  /\ s \in Session
  /\ watcher \in [read: BOOLEAN, write: BOOLEAN, blocked: BOOLEAN,
                  switching: BOOLEAN]
  /\ writing \in BOOLEAN /\ eof \in BOOLEAN /\ drained \in BOOLEAN
  /\ loop \in {"wait", "done"} /\ pinger \in {"wait", "done"}
  /\ switches \in 0..(Cardinality(Call) + 4)
  /\ call \in [Call -> CallState]
  /\ Len(tx) <= TxCap

\* A request gets the response, or the error, that the server gave to it,
\* whatever other responses and pongs come before (socket_session.pyx:320); a
\* frame that nobody sent is its answer only after a decoder error.
AnswerIsOwn ==
  \A c \in Call : call[c][1] \in {"answered", "error"} =>
                   call[c][2] = c \/ (call[c][2] = Garbled /\ s.misread)

\* On an open session a client's caller that waits is in _inflight_requests,
\* once, so that its answer finds it and _cleanup_socket tells it of the end;
\* a server has there the requests whose answer is still due and, until it
\* shuts down, no other: an entry left behind would keep it from draining.  Only
\* a request that met a ping with its number, or a misread frame, may have lost
\* its entry.  Once the socket is gone, who still waits came in afterwards.
InflightIsDue ==
  \A c \in Call :
    LET there == Cardinality({n \in DOMAIN s.inflight : s.inflight[n] = c}) = 1
    IN  IF ~s.sock
        THEN IsClient /\ scenario.python = 2 /\ call[c] = At("waiting") => c \in s.late
        ELSE IF IsClient THEN there <=> call[c] = At("waiting")
        ELSE /\ call[c] = At("deferred") => there \/ c \in s.shared
             /\ ~s.shutting /\ there => call[c] = At("deferred")

\* The two together: the state is well typed and the table is the callers'.
SessionInv == TypeOK /\ InflightIsDue

\* While the write watcher is started, or has reported, there are bytes to
\* write: write_buffer_get_bytes would otherwise give None to send
\* (socket_session.pyx:449), and the run loop would die of a TypeError.
WatcherMeansBytes ==
  s.sock /\ loop = "wait" /\ (writing \/ watcher.write) => s.out # <<>>

\* Bytes are never forgotten while the run loop sleeps: a switch is on its
\* way or the write watcher is started.  Only close() enqueues without waking
\* the loop (socket_session.pyx:113).
BytesAreNoticed ==
  s.sock /\ loop = "wait" /\ (\E i \in DOMAIN s.out : s.out[i].op # "goaway")
    => switches > 0 \/ writing

\* The write watcher, the pending switches and the write buffer agree whenever
\* the run loop sleeps, in both directions.
WatcherInv == WatcherMeansBytes /\ BytesAreNoticed

\* A session that ends because it is drained owes no answer to a request that
\* was made before: no caller is told ConnectionTerminated or left to wait, and no
\* request that was taken in is still to be answered, unless it met a ping or a
\* misread frame (socket_session.pyx:475).
DrainedMeansAnswered ==
  drained => \A c \in Call :
    /\ call[c] \in {At("terminated"), At("waiting")} => c \in s.late
    /\ call[c] = At("deferred") => c \in s.shared

\* A session is closed for an unanswered ping only if the pong has not come,
\* unless the ping met a request with its number in the one table that pings
\* and the peer's requests share (socket_session.pyx:311, 336, 392).
TimeoutMeansSilence == s.wronged => s.shared # {}

\* Whoever waits is answered or told that the session has ended, also when the
\* server falls silent, goes away or closes.  Who came in after _cleanup_socket
\* may wait for ever (socket_session.pyx:176), and in Python 3 everybody may: see
\* Terminated.
CallsReturn ==
  \A c \in Call :
    (scenario.python = 2 /\ call[c] = At("waiting") /\ c \notin s.late)
      ~> call[c] # At("waiting")

\* close() ends the session: by draining, or by its timeout.
CloseEnds == s.shutting ~> ~s.sock

\* A server that stays open answers every request that reaches it, at once or
\* when the handler's greenlet gets to it, unless the request met a ping.
RequestsAreAnswered ==
  \A c \in Call :
    call[c] = At("coming") ~>
      call[c] = At("responded") \/ Defunct \/ c \in s.shared
=============================================================================
