--------------------------- MODULE RustConnection ---------------------------
(***************************************************************************)
(* The running half of a Rust Loqui connection: the client's public calls  *)
(* (Client::request, Client::push), the event loop that both ends run once *)
(* the handshake is over (connection.rs `run`, event_handler.rs), the      *)
(* waiters of the client's ConnectionHandler, the handler tasks the        *)
(* server's ConnectionHandler spawns, and the TCP socket between the two.  *)
(*                                                                         *)
(* A side's loop handles one event at a time, taken from one of three      *)
(* streams: the socket, its own event queue and the ping timer.  The event *)
(* may produce one frame; the loop then awaits the write of that frame and *)
(* handles nothing else until the socket has taken it.                     *)
(***************************************************************************)
EXTENDS Naturals, Sequences

CONSTANTS
    Req,            \* the calls of Client::request
    Push,           \* the calls of Client::push
    None,           \* no request, no push
    IdModulus,      \* sequence ids are counted modulo this (2^32 in the code)
    MaxIds,         \* bound: ids a side draws in all
    MaxPingIds,     \* bound: a side starts no ping once it drew this many ids
    NetCap,         \* frames the socket buffers of one direction hold
    HandlerMayFail, \* the future of a request may resolve to Err (the Handler
                    \* trait allows it, loqui_server's own handler never does)
    HandlerMayPanic \* a spawned handler task may panic and vanish

ASSUME NoneAssumption == None \notin Req \cup Push
ASSUME DisjointAssumption == Req \cap Push = {}
ASSUME IdAssumption ==
    /\ IdModulus \in Nat \ {0, 1}
    /\ MaxIds \in Nat
    /\ MaxPingIds \in Nat
ASSUME NetCapAssumption == NetCap \in Nat \ {0}
ASSUME HandlerAssumption == HandlerMayFail \in BOOLEAN /\ HandlerMayPanic \in BOOLEAN

VARIABLES
    phase,          \* phase[s]: what s's run loop is doing
    outbox,         \* outbox[s]: the frame s's loop is writing
    net,            \* net[s]: the frames on the socket towards s
    selfRx,         \* selfRx[s]: s's own event queue (self_rx)
    pong_received,  \* EventHandler.pong_received of each side
    idNext,         \* IdSequence.next of each side
    idsDrawn,       \* history: how many ids each side has drawn
    owner,          \* history: the request the client last gave an id to
    waiters,        \* ConnectionHandler.waiters of the client, by id
    tx,             \* tx[r]: the oneshot channel of r's ResponseWaiter
    expired,        \* the requests whose deadline is past
    result,         \* result[r]: what request(r) returned to its caller
    pushed,         \* the pushes that were made
    tasks,          \* the handler futures spawned by the server
    runs            \* runs[b]: how often the server ran b's handler

loopVars == <<phase, outbox, net, selfRx>>
idVars == <<idNext, idsDrawn, owner>>
callVars == <<waiters, tx, expired, result>>
serverVars == <<tasks, runs>>
vars == <<loopVars, pong_received, idVars, callVars, pushed, serverVars>>

Side == {"client", "server"}
Peer(s) == IF s = "client" THEN "server" ELSE "client"
Id == 0 .. IdModulus - 1
Body == Req \cup Push \cup {None}

(* Frames, and the events of a side's own queue, reduced to opcode, sequence *)
(* id and whose payload they carry: a Response with of = r carries what the  *)
(* handler computed for the request r.                                       *)
Msg == [op : {"Request", "Response", "Error"}, seq : Id, of : Req]
    \cup [op : {"Push"}, seq : Id, of : Push]
    \cup [op : {"Ping", "Pong", "GoAway", "Close", "Nothing"}, seq : Id, of : {None}]
Frame(op, seq, of) == [op |-> op, seq |-> seq, of |-> of]
Nothing == Frame("Nothing", 0, None)
Queues == [Side -> Seq(Msg)]

(* What a call gets: the state of its oneshot channel and, once it returned, *)
(* its result.                                                               *)
Kind == {"unused", "open", "dropped", "ok", "error",
         "RequestTimeout", "ConnectionClosed", "cancelled"}
Outcome == [kind : Kind, of : Req \cup {None}]
Is(kind) == [kind |-> kind, of |-> None]

TypeOK ==
    /\ phase \in [Side -> {"running", "writing", "closing", "closed"}]
    /\ outbox \in [Side -> Msg]
    /\ net \in Queues
    /\ selfRx \in Queues
    /\ pong_received \in [Side -> BOOLEAN]
    /\ idNext \in [Side -> Id]
    /\ idsDrawn \in [Side -> Nat]
    /\ owner \in [Id -> Req \cup {None}]
    /\ waiters \in [Id -> Req \cup {None}]
    /\ tx \in [Req -> Outcome]
    /\ expired \subseteq Req
    /\ result \in [Req -> Outcome]
    /\ pushed \subseteq Push
    /\ tasks \subseteq [seq : Id, of : Req]
    /\ runs \in [Req \cup Push -> Nat]

Init ==
    /\ phase = [s \in Side |-> "running"]
    /\ outbox = [s \in Side |-> Nothing]
    /\ net = [s \in Side |-> <<>>]
    /\ selfRx = [s \in Side |-> <<>>]
    /\ pong_received = [s \in Side |-> TRUE]
    /\ idNext = [s \in Side |-> 1]
    /\ idsDrawn = [s \in Side |-> 0]
    /\ owner = [i \in Id |-> None]
    /\ waiters = [i \in Id |-> None]
    /\ tx = [r \in Req |-> Is("unused")]
    /\ expired = {}
    /\ result = [r \in Req |-> Is("unused")]
    /\ pushed = {}
    /\ tasks = {}
    /\ runs = [b \in Req \cup Push |-> 0]
-----------------------------------------------------------------------------
(* Helpers of the event loop.                                              *)

(* Mutants of IdSequence::next: the id is peeked at and stays in use; a ping *)
(* borrows the id of the next request.                                       *)
DrawIdPeeks(s, of) ==
    /\ idsDrawn[s] < MaxIds
    /\ idsDrawn' = [idsDrawn EXCEPT ![s] = @ + 1]
    /\ owner' = IF s = "client" THEN [owner EXCEPT ![idNext[s]] = of] ELSE owner
    /\ UNCHANGED idNext

DrawIdBorrows(s, of) ==
    /\ idsDrawn[s] < MaxIds
    /\ idNext' = [idNext EXCEPT ![s] = IF of = None THEN @ ELSE (@ + 1) % IdModulus]
    /\ idsDrawn' = [idsDrawn EXCEPT ![s] = @ + 1]
    /\ owner' = IF s = "client" THEN [owner EXCEPT ![idNext[s]] = of] ELSE owner

(* IdSequence::next: the id handed out is idNext[s]; of is what it is for. *)
DrawId(s, of) ==
    /\ idsDrawn[s] < MaxIds
    /\ idNext' = [idNext EXCEPT ![s] =
                    IF idNext[s] + 1 = IdModulus THEN 0 ELSE idNext[s] + 1]
    /\ idsDrawn' = [idsDrawn EXCEPT ![s] = idsDrawn[s] + 1]
    /\ owner' = IF s = "client" THEN [owner EXCEPT ![idNext[s]] = of] ELSE owner

(* The senders of these requests' oneshot channels go out of scope. *)
Dropped(rs) ==
    [r \in Req |-> IF r \in rs /\ tx[r].kind = "open" THEN Is("dropped") ELSE tx[r]]

Registered == {waiters[i] : i \in Id} \ {None}
Queued == {selfRx["client"][k].of : k \in DOMAIN selfRx["client"]} \cap Req

(* The loop hands f to the writer and awaits it. *)
Emit(s, f) ==
    /\ phase' = [phase EXCEPT ![s] = "writing"]
    /\ outbox' = [outbox EXCEPT ![s] = f]

(* Mutant of Stop: the receiver of the queue outlives the loop. *)
StopKeepsQueue(s) ==
    /\ phase' = [phase EXCEPT ![s] = "closed"]
    /\ outbox' = [outbox EXCEPT ![s] = Nothing]
    /\ IF s = "client"
       THEN /\ waiters' = [i \in Id |-> None]
            /\ tx' = Dropped(Registered)
       ELSE UNCHANGED <<waiters, tx>>
    /\ UNCHANGED selfRx

(* `run` returns: the socket, the event queue and, on the client, the       *)
(* waiters are dropped with everything that is in them.                     *)
Stop(s) ==
    /\ phase' = [phase EXCEPT ![s] = "closed"]
    /\ outbox' = [outbox EXCEPT ![s] = Nothing]
    /\ selfRx' = [selfRx EXCEPT ![s] = <<>>]
    /\ IF s = "client"
       THEN /\ waiters' = [i \in Id |-> None]
            /\ tx' = Dropped(Registered \cup Queued)
       ELSE UNCHANGED <<waiters, tx>>

(* handle_event returned Err: Writer::close.  The server (SEND_GO_AWAY) has *)
(* a GoAway to write before it returns, the client returns at once.         *)
(* queue is what the event has left of s's own queue.                       *)
CloseConn(s, queue) ==
    IF s = "server"
    THEN /\ phase' = [phase EXCEPT ![s] = "closing"]
         /\ outbox' = [outbox EXCEPT ![s] = Frame("GoAway", 0, None)]
         /\ selfRx' = [selfRx EXCEPT ![s] = queue]
         /\ UNCHANGED <<waiters, tx>>
    ELSE Stop(s)

(* ResponseWaiter::notify. *)
Notify(r, o) == tx' = [tx EXCEPT ![r] = o]
-----------------------------------------------------------------------------
(* The public calls of the client, and of a Connection.                    *)

(* Client::request up to its await.  The handshake is over, so the client   *)
(* is ready; a connection that closed between the check and the send gives  *)
(* the same error as the check.                                             *)
Request(r) ==
    /\ tx[r].kind = "unused"
    /\ result[r].kind = "unused"
    /\ IF phase["client"] = "closed"
       THEN /\ result' = [result EXCEPT ![r] = Is("ConnectionClosed")]
            /\ UNCHANGED <<selfRx, tx>>
       ELSE /\ selfRx' = [selfRx EXCEPT !["client"] = Append(@, Frame("Request", 0, r))]
            /\ tx' = [tx EXCEPT ![r] = Is("open")]
            /\ UNCHANGED result
    /\ UNCHANGED <<phase, outbox, net, pong_received, idVars, waiters, expired, pushed, serverVars>>

(* The awaitable of the request resolves: the channel is polled before the  *)
(* timer, and a dropped sender is turned into the same RequestTimeout.      *)
Await(r) ==
    /\ result[r].kind = "unused"
    /\ \/ /\ tx[r].kind \in {"ok", "error", "RequestTimeout"}
          /\ result' = [result EXCEPT ![r] = tx[r]]
       \/ /\ \/ tx[r].kind = "dropped"
             \/ tx[r].kind = "open" /\ r \in expired
          /\ result' = [result EXCEPT ![r] = Is("RequestTimeout")]
    /\ UNCHANGED <<loopVars, pong_received, idVars, waiters, tx, expired, pushed, serverVars>>

(* The caller drops the future of its request before it resolves. *)
Abandon(r) ==
    /\ tx[r].kind # "unused"
    /\ result[r].kind = "unused"
    /\ result' = [result EXCEPT ![r] = Is("cancelled")]
    /\ UNCHANGED <<loopVars, pong_received, idVars, waiters, tx, expired, pushed, serverVars>>

(* The deadline that ResponseWaiter::new set for r passes. *)
DeadlinePasses(r) ==
    /\ tx[r].kind # "unused"
    /\ r \notin expired
    /\ expired' = expired \cup {r}
    /\ UNCHANGED <<loopVars, pong_received, idVars, waiters, tx, result, pushed, serverVars>>

(* Client::push; a push has no waiter.  Each push of the model is made once; *)
(* on a closed connection it returns ConnectionClosed and leaves no trace.   *)
PushCall(p) ==
    /\ p \notin pushed
    /\ pushed' = pushed \cup {p}
    /\ selfRx' = IF phase["client"] = "closed" THEN selfRx
                 ELSE [selfRx EXCEPT !["client"] = Append(@, Frame("Push", 0, p))]
    /\ UNCHANGED <<phase, outbox, net, pong_received, idVars, callVars, serverVars>>

(* Connection::close: an event like any other, behind those already queued. *)
Close(s) ==
    /\ phase[s] # "closed"
    /\ \A k \in DOMAIN selfRx[s] : selfRx[s][k].op # "Close"
    /\ selfRx' = [selfRx EXCEPT ![s] = Append(@, Frame("Close", 0, None))]
    /\ UNCHANGED <<phase, outbox, net, pong_received, idVars, callVars, pushed, serverVars>>
-----------------------------------------------------------------------------
(* The event loop: events of the ping timer and of the own queue.          *)

(* Mutant of SendPing: the flag is not lowered. *)
SendPingForgets(s) ==
    /\ phase[s] = "running"
    /\ pong_received[s]
    /\ idsDrawn[s] < MaxPingIds
    /\ DrawId(s, None)
    /\ Emit(s, Frame("Ping", idNext[s], None))
    /\ UNCHANGED <<net, selfRx, pong_received, callVars, pushed, serverVars>>

(* Event::Ping.  A ping is sent unless the last one is still unanswered. *)
SendPing(s) ==
    /\ phase[s] = "running"
    /\ pong_received[s]
    /\ idsDrawn[s] < MaxPingIds
    /\ DrawId(s, None)
    /\ pong_received' = [pong_received EXCEPT ![s] = FALSE]
    /\ Emit(s, Frame("Ping", idNext[s], None))
    /\ UNCHANGED <<net, selfRx, callVars, pushed, serverVars>>

PingTimeout(s) ==
    /\ phase[s] = "running"
    /\ ~pong_received[s]
    /\ CloseConn(s, selfRx[s])
    /\ UNCHANGED <<net, pong_received, idVars, expired, result, pushed, serverVars>>

(* Takes the oldest event off s's own queue, if it is one of these. *)
TakeEvent(s, ops) ==
    /\ phase[s] = "running"
    /\ selfRx[s] # <<>>
    /\ Head(selfRx[s]).op \in ops
    /\ selfRx' = [selfRx EXCEPT ![s] = Tail(@)]

(* handle_internal_event for a request: the id is drawn first, then a       *)
(* request that is already late is answered with RequestTimeout and the     *)
(* others are registered and sent.  An id that is still registered loses    *)
(* its former waiter to the new one.                                        *)
SendRequest ==
    /\ TakeEvent("client", {"Request"})
    /\ LET r == Head(selfRx["client"]).of
           i == idNext["client"]
       IN  /\ DrawId("client", r)
           /\ \/ /\ r \in expired
                 /\ Notify(r, Is("RequestTimeout"))
                 /\ UNCHANGED <<phase, outbox, waiters>>
              \/ /\ r \notin expired
                 /\ waiters' = [waiters EXCEPT ![i] = r]
                 /\ tx' = Dropped({waiters[i]})
                 /\ Emit("client", Frame("Request", i, r))
    /\ UNCHANGED <<net, pong_received, expired, result, pushed, serverVars>>

SendPush ==
    /\ TakeEvent("client", {"Push"})
    /\ Emit("client", Frame("Push", 0, Head(selfRx["client"]).of))
    /\ UNCHANGED <<net, pong_received, idVars, callVars, pushed, serverVars>>

(* Event::ResponseComplete: the Response, or the Error, goes out. *)
ResponseComplete ==
    /\ TakeEvent("server", {"Response", "Error"})
    /\ Emit("server", Head(selfRx["server"]))
    /\ UNCHANGED <<net, pong_received, idVars, callVars, pushed, serverVars>>

(* Event::Close; what is queued behind it is dropped when `run` returns. *)
CloseRequested(s) ==
    /\ phase[s] = "running"
    /\ selfRx[s] # <<>>
    /\ Head(selfRx[s]).op = "Close"
    /\ CloseConn(s, Tail(selfRx[s]))
    /\ UNCHANGED <<net, pong_received, idVars, expired, result, pushed, serverVars>>
-----------------------------------------------------------------------------
(* The event loop: frames off the socket.                                  *)

TakeFrame(s, ops) ==
    /\ phase[s] = "running"
    /\ net[s] # <<>>
    /\ Head(net[s]).op \in ops
    /\ net' = [net EXCEPT ![s] = Tail(@)]

(* handle_ping_frame.  The client also sweeps the waiters that are late. *)
ReceivePing(s) ==
    /\ TakeFrame(s, {"Ping"})
    /\ Emit(s, Frame("Pong", Head(net[s]).seq, None))
    /\ IF s = "client"
       THEN /\ waiters' = [i \in Id |-> IF waiters[i] \in expired THEN None ELSE waiters[i]]
            /\ tx' = Dropped(Registered \cap expired)
       ELSE UNCHANGED <<waiters, tx>>
    /\ UNCHANGED <<selfRx, pong_received, idVars, expired, result, pushed, serverVars>>

(* handle_pong_frame: whichever ping it answers. *)
ReceivePong(s) ==
    /\ TakeFrame(s, {"Pong"})
    /\ pong_received' = [pong_received EXCEPT ![s] = TRUE]
    /\ UNCHANGED <<phase, outbox, selfRx, idVars, callVars, pushed, serverVars>>

(* Mutants of ReceiveReply: the waiter is looked up and not removed; replies *)
(* are taken to come in the order of the requests.                           *)
ReceiveReplyKeepsWaiter ==
    /\ TakeFrame("client", {"Response", "Error"})
    /\ LET f == Head(net["client"])
           r == waiters[f.seq]
       IN  IF r = None THEN UNCHANGED tx
           ELSE Notify(r, [kind |-> IF f.op = "Response" THEN "ok" ELSE "error", of |-> f.of])
    /\ UNCHANGED <<phase, outbox, selfRx, pong_received, idVars, waiters, expired, result, pushed, serverVars>>

ReceiveReplyInOrder ==
    /\ TakeFrame("client", {"Response", "Error"})
    /\ LET f == Head(net["client"])
           Held == {i \in Id : waiters[i] # None}
       IN  IF Held = {} THEN UNCHANGED <<waiters, tx>>
           ELSE LET i == CHOOSE i \in Held : \A j \in Held : i <= j
                IN  /\ waiters' = [waiters EXCEPT ![i] = None]
                    /\ Notify(waiters[i], [kind |-> IF f.op = "Response" THEN "ok" ELSE "error",
                                           of |-> f.of])
    /\ UNCHANGED <<phase, outbox, selfRx, pong_received, idVars, expired, result, pushed, serverVars>>

(* handle_response and handle_error: the waiter registered under the id is  *)
(* removed and told; a reply that nobody waits for is ignored.              *)
ReceiveReply ==
    /\ TakeFrame("client", {"Response", "Error"})
    /\ LET f == Head(net["client"])
           r == waiters[f.seq]
       IN  IF r = None
           THEN UNCHANGED <<waiters, tx>>
           ELSE /\ waiters' = [waiters EXCEPT ![f.seq] = None]
                /\ Notify(r, [kind |-> IF f.op = "Response" THEN "ok" ELSE "error",
                              of |-> f.of])
    /\ UNCHANGED <<phase, outbox, selfRx, pong_received, idVars, expired, result, pushed, serverVars>>

ReceiveGoAway ==
    /\ TakeFrame("client", {"GoAway"})
    /\ CloseConn("client", selfRx["client"])
    /\ UNCHANGED <<pong_received, idVars, expired, result, pushed, serverVars>>

(* The server's handler is spawned for a request, or for a push. *)
ReceiveRequest ==
    /\ TakeFrame("server", {"Request"})
    /\ LET f == Head(net["server"])
       IN  /\ tasks' = tasks \cup {[seq |-> f.seq, of |-> f.of]}
           /\ runs' = [runs EXCEPT ![f.of] = @ + 1]
    /\ UNCHANGED <<phase, outbox, selfRx, pong_received, idVars, callVars, pushed>>

ReceivePush ==
    /\ TakeFrame("server", {"Push"})
    /\ runs' = [runs EXCEPT ![Head(net["server"]).of] = @ + 1]
    /\ UNCHANGED <<phase, outbox, selfRx, pong_received, idVars, callVars, pushed, tasks>>

(* Mutant of ReadEof: the end of the socket leaves the other streams going. *)
ReadEofIgnored(s) ==
    /\ phase[s] = "running"
    /\ net[s] = <<>>
    /\ phase[Peer(s)] = "closed"
    /\ UNCHANGED vars

(* The socket ended: select_break ends with it. *)
ReadEof(s) ==
    /\ phase[s] = "running"
    /\ net[s] = <<>>
    /\ phase[Peer(s)] = "closed"
    /\ Stop(s)
    /\ UNCHANGED <<net, pong_received, idVars, expired, result, pushed, serverVars>>
-----------------------------------------------------------------------------
(* The writer, the socket and the handler tasks.                           *)

(* Mutant of WriteFrame: the frame is sent again after it was taken. *)
WriteFrameRetries(s) ==
    /\ phase[s] = "writing"
    /\ phase[Peer(s)] # "closed"
    /\ Len(net[Peer(s)]) < NetCap
    /\ net' = [net EXCEPT ![Peer(s)] = Append(@, outbox[s])]
    /\ UNCHANGED <<phase, outbox, selfRx, pong_received, idVars, callVars, pushed, serverVars>>

(* The socket takes the frame when its buffers have room.  What is written  *)
(* to a peer that is gone is lost.                                          *)
WriteFrame(s) ==
    /\ phase[s] = "writing"
    /\ \/ /\ phase[Peer(s)] = "closed"
          /\ UNCHANGED net
       \/ /\ phase[Peer(s)] # "closed"
          /\ Len(net[Peer(s)]) < NetCap
          /\ net' = [net EXCEPT ![Peer(s)] = Append(@, outbox[s])]
    /\ phase' = [phase EXCEPT ![s] = "running"]
    /\ outbox' = [outbox EXCEPT ![s] = Nothing]
    /\ UNCHANGED <<selfRx, pong_received, idVars, callVars, pushed, serverVars>>

(* Writer::close has written the GoAway. *)
GoAwayWritten ==
    /\ phase["server"] = "closing"
    /\ \/ /\ phase["client"] = "closed"
          /\ UNCHANGED net
       \/ /\ phase["client"] # "closed"
          /\ Len(net["client"]) < NetCap
          /\ net' = [net EXCEPT !["client"] = Append(@, outbox["server"])]
    /\ Stop("server")
    /\ UNCHANGED <<pong_received, idVars, expired, result, pushed, serverVars>>

(* A read or a write fails, or a frame does not decode: `run` returns the   *)
(* error and no GoAway is sent.                                             *)
SocketError(s) ==
    /\ phase[s] # "closed"
    /\ Stop(s)
    /\ UNCHANGED <<net, pong_received, idVars, expired, result, pushed, serverVars>>

(* A handler future resolves; response_complete fails silently once the     *)
(* server's loop is gone.                                                   *)
HandlerReturns(t) ==
    /\ t \in tasks
    /\ tasks' = tasks \ {t}
    /\ \/ phase["server"] = "closed" /\ UNCHANGED selfRx
       \/ /\ phase["server"] # "closed"
          /\ \E op \in {"Response"} \cup (IF HandlerMayFail THEN {"Error"} ELSE {}) :
                selfRx' = [selfRx EXCEPT !["server"] = Append(@, Frame(op, t.seq, t.of))]
    /\ UNCHANGED <<phase, outbox, net, pong_received, idVars, callVars, pushed, runs>>

(* A handler that panics takes its spawned task with it: nobody answers. *)
HandlerPanics(t) ==
    /\ HandlerMayPanic
    /\ t \in tasks
    /\ tasks' = tasks \ {t}
    /\ UNCHANGED <<loopVars, pong_received, idVars, callVars, pushed, runs>>
-----------------------------------------------------------------------------
ClientCalls ==
    \/ \E r \in Req : Request(r) \/ Await(r) \/ Abandon(r) \/ DeadlinePasses(r)
    \/ \E p \in Push : PushCall(p)

OwnEvents ==
    \/ SendRequest \/ SendPush \/ ResponseComplete
    \/ \E s \in Side : SendPing(s) \/ PingTimeout(s) \/ Close(s) \/ CloseRequested(s)

Frames ==
    \/ ReceiveReply \/ ReceiveGoAway \/ ReceiveRequest \/ ReceivePush
    \/ \E s \in Side : ReceivePing(s) \/ ReceivePong(s)

Socket ==
    \/ GoAwayWritten
    \/ \E s \in Side : ReadEof(s) \/ WriteFrame(s) \/ SocketError(s)

Handlers == \E t \in tasks : HandlerReturns(t) \/ HandlerPanics(t)

Next == ClientCalls \/ OwnEvents \/ Frames \/ Socket \/ Handlers

Spec == Init /\ [][Next]_vars
(* The scheduler polls every task that can move, and select_break takes its *)
(* turns between the streams of a loop (SelectBreak.tla), so a queue, a     *)
(* socket and a write that can move do.  Nothing is assumed of the timers,  *)
(* of Close, of socket errors or of callers that give up.                   *)
Fairness ==
    /\ \A r \in Req : WF_vars(Await(r))
    /\ WF_vars(SendRequest \/ SendPush \/ CloseRequested("client"))
    /\ WF_vars(ResponseComplete \/ CloseRequested("server"))
    /\ WF_vars(ReceiveReply \/ ReceiveGoAway \/ ReceivePing("client") \/ ReceivePong("client"))
    /\ WF_vars(ReceiveRequest \/ ReceivePush \/ ReceivePing("server") \/ ReceivePong("server"))
    /\ \A s \in Side : WF_vars(ReadEof(s)) /\ WF_vars(WriteFrame(s))
    /\ WF_vars(GoAwayWritten)
    /\ \A t \in [seq : Id, of : Req] : WF_vars(HandlerReturns(t))

FairSpec == Spec /\ Fairness
-----------------------------------------------------------------------------
(* Safety.                                                                 *)

(* A reply that reaches a caller is the one the server made for that call,  *)
(* although replies are matched by an id that pings share and that the      *)
(* deadlines, the sweep and late replies leave in use (handle_response).    *)
AnswerIsOwn ==
    \A r \in Req : result[r].kind \in {"ok", "error"} => result[r].of = r

(* The server runs the handler of a request or of a push at most once. *)
NoDoubleExecution == \A b \in Req \cup Push : runs[b] <= 1

(* While a call waits, exactly one place holds the sender of its channel: a  *)
(* queued event or one entry of the waiters.  So a call is never left to its *)
(* deadline by a loop that has returned.                                     *)
Holders(r) ==
    ({"queue"} \X {k \in DOMAIN selfRx["client"] : selfRx["client"][k].of = r})
        \cup ({"waiter"} \X {i \in Id : waiters[i] = r})

SenderHeldOnce ==
    \A r \in Req :
        /\ tx[r].kind = "open" => \E h \in Holders(r) : Holders(r) = {h}
        /\ tx[r].kind # "open" => Holders(r) = {}

(* The pings of s that are under way, and the pongs that answer them. *)
InFlight(s) ==
    ({"ping"} \X {k \in DOMAIN net[Peer(s)] : net[Peer(s)][k].op = "Ping"})
        \cup ({"pong"} \X {k \in DOMAIN net[s] : net[s][k].op = "Pong"})
        \cup (IF outbox[s].op = "Ping" THEN {<<"ping", 0>>} ELSE {})
        \cup (IF outbox[Peer(s)].op = "Pong" THEN {<<"pong", 0>>} ELSE {})

(* handle_pong_frame does not look at the sequence id: that is sound because *)
(* as long as both ends live, one ping or its pong is under way exactly      *)
(* while pong_received is false.                                             *)
PongAnswersThePing ==
    \A s \in Side :
        (phase[s] # "closed" /\ phase[Peer(s)] # "closed") =>
            IF pong_received[s] THEN InFlight(s) = {}
            ELSE \E x \in InFlight(s) : InFlight(s) = {x}

(* The calls, seen as the calls of LoquiRpc. *)
rpcOpened == {r \in Req : tx[r].kind # "unused" \/ result[r].kind # "unused"}
rpcExecuted == {r \in Req : runs[r] > 0}
rpcReturned ==
    [r \in Req |->
        CASE result[r].kind = "unused" -> <<"open", None>>
          [] result[r].kind \in {"ok", "error"} -> <<"answer", result[r].of>>
          [] OTHER -> <<"failure", None>>]

Rpc == INSTANCE LoquiRpc WITH opened <- rpcOpened, executed <- rpcExecuted,
                              returned <- rpcReturned

(* The connection implements LoquiRpc: one execution at most, one return per *)
(* call, and never with another call's answer.                               *)
ImplementsRpc == Rpc!RpcSpec
-----------------------------------------------------------------------------
(* The inductive invariant behind the theorems of RustConnection_proofs.   *)

(* The theorems about the ids hold while the client draws each id once. An  *)
(* id the client has not drawn yet belongs to no request.                   *)
IdsDoNotWrap == MaxIds <= IdModulus

Drawn(i) == IF i = 0 THEN idsDrawn["client"] >= IdModulus ELSE i <= idsDrawn["client"]

IdsAreFresh ==
    /\ idsDrawn["client"] <= MaxIds
    /\ idsDrawn["client"] < IdModulus =>
         idNext["client"] = IF idsDrawn["client"] + 1 = IdModulus THEN 0
                            ELSE idsDrawn["client"] + 1
    /\ \A i \in Id : ~Drawn(i) => owner[i] = None

(* m, if it is a frame of a request or a reply to one, carries the payload  *)
(* of the request its id was drawn for; a reply exists once it was executed. *)
Carries(m, own, run) ==
    /\ m.op \in {"Request", "Response", "Error"} => m.of \in Req /\ own[m.seq] = m.of
    /\ m.op \in {"Response", "Error"} => run[m.of] > 0
    /\ m.op = "Push" => m.of \in Push

AllCarry(q, own, run) == \A k \in 1 .. Len(q) : Carries(q[k], own, run)

(* The requests of the client's own queue have no id yet. *)
Known(m) == (m.op = "Request" => m.of \in Req) /\ (m.op = "Push" => m.of \in Push)
AllKnown(q) == \A k \in 1 .. Len(q) : Known(q[k])

OutboxesCarry(out, own, run) == \A s \in Side : Carries(out[s], own, run)
SocketsCarry(n, own, run) == \A s \in Side : AllCarry(n[s], own, run)
QueuesCarry(q, own, run) == AllCarry(q["server"], own, run) /\ AllKnown(q["client"])
TasksCarry(ts, own, run) == \A t \in ts : own[t.seq] = t.of /\ run[t.of] > 0

FramesCarryTheirOwn ==
    /\ OutboxesCarry(outbox, owner, runs)
    /\ SocketsCarry(net, owner, runs)
    /\ QueuesCarry(selfRx, owner, runs)
    /\ TasksCarry(tasks, owner, runs)

WaitersOwnTheirIds ==
    \A i \in Id : waiters[i] # None => owner[i] = waiters[i] /\ tx[waiters[i]].kind # "unused"

RepliesAreOwn ==
    \A r \in Req :
        /\ tx[r].kind \in {"ok", "error"} => tx[r].of = r /\ runs[r] > 0
        /\ result[r].kind \in {"ok", "error"} => result[r].of = r

(* Where the request or the push b is before the server has run it: it is   *)
(* in one place at a time, and in none once its handler was started.        *)
Outgoing(m, b) == m.op \in {"Request", "Push"} /\ m.of = b
In(q, b) == \E k \in 1 .. Len(q) : Outgoing(q[k], b)
OneOf(q, b) == \A j, k \in 1 .. Len(q) : Outgoing(q[j], b) /\ Outgoing(q[k], b) => j = k
Made(b) == IF b \in Req THEN tx[b].kind # "unused" ELSE b \in pushed

Place(b) ==
    /\ ~Made(b) => /\ ~In(selfRx["client"], b) /\ ~Outgoing(outbox["client"], b)
                   /\ ~In(net["server"], b) /\ runs[b] = 0
    /\ In(selfRx["client"], b) => /\ ~Outgoing(outbox["client"], b)
                                  /\ ~In(net["server"], b) /\ runs[b] = 0
    /\ Outgoing(outbox["client"], b) => ~In(net["server"], b) /\ runs[b] = 0
    /\ In(net["server"], b) => runs[b] = 0
    /\ OneOf(selfRx["client"], b)
    /\ OneOf(net["server"], b)
    /\ runs[b] <= 1

InOnePlace == \A b \in Req \cup Push : Place(b)

IInv ==
    /\ TypeOK
    /\ IdsAreFresh
    /\ FramesCarryTheirOwn
    /\ WaitersOwnTheirIds
    /\ RepliesAreOwn
    /\ InOnePlace
-----------------------------------------------------------------------------
(* Liveness.                                                               *)

(* Both loops await a write that only a read of the other could unblock.    *)
WritesBlocked ==
    \A s \in Side : phase[s] \in {"writing", "closing"} /\ Len(net[Peer(s)]) = NetCap

(* Calls return without any help from their deadlines: each is answered, or *)
(* the connection closes under it.  The one thing that can leave a call to  *)
(* its deadline is that both ends await a write into a full socket, for     *)
(* ever: a socket error that ends the wait also ends the call.              *)
CallsReturn ==
    <>[]WritesBlocked \/ \A r \in Req : tx[r].kind # "unused" ~> result[r].kind # "unused"

(* When one end is gone the other end notices, and closes too. *)
CloseIsShared == \A s \in Side : phase[s] = "closed" ~> phase[Peer(s)] = "closed"

(* "PingTimeout is sent when connection does not receive a pong within ping  *)
(* interval": with a timer that goes on ticking, a ping is answered or its   *)
(* connection ends.                                                          *)
PingIsDecided ==
    \A s \in Side : ~pong_received[s] ~> (pong_received[s] \/ phase[s] = "closed")

TimerSpec == FairSpec /\ \A s \in Side : WF_vars(PingTimeout(s))
=============================================================================
