------------------------------- MODULE GoServe -------------------------------
(***************************************************************************)
(* The server's end of a Go connection: the handlers of the read loop that *)
(* only a server has, Serve with its pool of workers (conn.go,             *)
(* workerpool.go) and the Server that keeps the connection in its map      *)
(* (server.go), with any Loqui client at the other end.  It composes these *)
(* with GoConn's loops and calls to the specification of a connection.     *)
(***************************************************************************)
EXTENDS GoConn

VARIABLES
    serve,      \* how far serveConn has come
    putting,    \* the context that the read loop sends on the pool's channel
    worker,     \* worker[w]: the goroutine w in workerPool.run
    client      \* the other end: what it has to send, and what it has got

serveVars == <<serve, putting, worker, client>>
vars == <<scenario, connVars, serveVars>>

Serving == {"register", "start", "started", "serving", "delete", "returned"}
NoContext == Plain("Push")

ServeTypeOK ==
    /\ serve \in Serving
    /\ putting \in Seq(Msg) /\ Len(putting) <= 1
    /\ worker \in [Worker -> [at : {"none", "idle", "handle", "write"}, ctx : Msg]]
    /\ client \in [todo : Seq(Msg), acked : BOOLEAN, sent : SUBSET SeqId,
                   answers : [SeqId -> Nat]]

Init ==
    /\ ConnInit
    /\ serve = IF IsClient THEN "returned" ELSE "register"
    /\ putting = <<>>
    /\ worker = [w \in Worker |-> [at |-> "none", ctx |-> NoContext]]
    /\ client = [todo |-> scenario.script, acked |-> FALSE, sent |-> {},
                 answers |-> [s \in SeqId |-> 0]]
-----------------------------------------------------------------------------
(* serveConn and Serve.  Stop calls Close with the server's mutex held.     *)

StopRuns == go["closer"] \in {"close", "closeSet", "goAway"}

ServeGoes(from, to) == serve = from /\ serve' = to /\ UNCHANGED <<connVars, putting, client>>

ServeRegister == ~StopRuns /\ ServeGoes("register", "start") /\ UNCHANGED worker

(* wp.start *)
ServeStart ==
    /\ ServeGoes("start", "started")
    /\ worker' = [w \in Worker |-> IF w \in scenario.workers THEN [worker[w] EXCEPT !.at = "idle"]
                                   ELSE worker[w]]

(* c.serving = true *)
ServeWaits == ServeGoes("started", "serving") /\ UNCHANGED worker

(* <-c.readErrCh, c.serving = false and wp.stop, which closes the channel. *)
ServeEnds == readErrCh /\ ServeGoes("serving", "delete") /\ UNCHANGED worker

ServeUnregister == ~StopRuns /\ ServeGoes("delete", "returned") /\ UNCHANGED worker

ServeStep == ServeRegister \/ ServeStart \/ ServeWaits \/ ServeEnds \/ ServeUnregister

(* Stop finds the connection in the map. *)
Registered == IsClient \/ serve \notin {"register", "returned"}
-----------------------------------------------------------------------------
(* The handlers of the read loop.                                          *)

(* handleHello and sendHelloAck.  A "BadHello" has no encoding in common with  *)
(* the server, or a newer version.                                           *)
ReadHello ==
    /\ TakeFrame("Hello")
    /\ \/ ready /\ Goto("read", "close") /\ UNCHANGED <<ready, writeCh>>
       \/ ~ready /\ Enqueue(Plain("HelloAck")) /\ ready' = TRUE /\ UNCHANGED go
    /\ UNCHANGED <<seq, reqs, mu, flagVars, pongCh, flushing, sock, response, callVars, todo, pings,
                   shake, serveVars>>

(* What the server does not take: Terminate. *)
ReadInvalid ==
    /\ \/ TakeFrame("BadHello") \/ TakeFrame("HelloAck") \/ TakeFrame("Response")
       \/ TakeFrame("Push") /\ serve # "serving"
    /\ Goto("read", "close")
    /\ UNCHANGED <<seq, reqs, mu, flagVars, ready, pongCh, writeCh, flushing, sock, response,
                   callVars, todo, pings, shake, serveVars>>

(* handleError: there is no request to complete. *)
ReadErrorFrame ==
    /\ TakeFrame("Error")
    /\ mu = "free"
    /\ UNCHANGED <<seq, reqs, mu, flagVars, ready, pongCh, writeCh, flushing, sock, response,
                   callVars, go, todo, pings, shake, serveVars>>

(* handleRequest and handlePush up to the send of workerPool.put.  Neither asks *)
(* whether there was a Hello.                                                 *)
ReadWork ==
    /\ TakeFrame("Request") \/ (TakeFrame("Push") /\ serve = "serving")
    /\ putting' = <<Head(fromPeer)>>
    /\ Goto("read", "put")
    /\ UNCHANGED <<seq, reqs, mu, flagVars, ready, pongCh, writeCh, flushing, sock, response,
                   callVars, todo, pings, shake, serve, worker, client>>

(* wp <- ctx meets a worker's range.  (On a closed channel it would panic; see *)
(* RequestsConserved.)                                                        *)
Put ==
    /\ go["read"] = "put"
    /\ \E w \in Worker :
        /\ worker[w].at = "idle"
        /\ worker' = [worker EXCEPT ![w] = [at |-> "handle", ctx |-> Head(putting)]]
    /\ putting' = <<>>
    /\ Goto("read", "run")
    /\ UNCHANGED <<seq, reqs, mu, flagVars, ready, pongCh, writeCh, flushing, sock, response,
                   callVars, todo, pings, shake, peerVars, serve, client>>

ServerReadStep == ReadHello \/ ReadInvalid \/ ReadErrorFrame \/ ReadWork \/ Put
-----------------------------------------------------------------------------
(* workerPool.run                                                          *)

workerRest == <<seq, reqs, mu, flagVars, ready, pongCh, flushing, sock, response, callVars, go,
                todo, pings, shake, peerVars, serve, putting, client>>

WorkerGoes(w, at, ctx) ==
    /\ worker[w].at = "handle"
    /\ worker' = [worker EXCEPT ![w] = [at |-> at, ctx |-> ctx]]
    /\ UNCHANGED <<workerRest, writeCh>>

(* ServeRequest returns.  IsPush goes by the sequence id. *)
WorkerReturns(w) ==
    IF worker[w].ctx.seq = 0 THEN WorkerGoes(w, "idle", NoContext)
    ELSE WorkerGoes(w, "write", Frame("Response", worker[w].ctx.seq, None))

(* Mutant of WorkerPanics: seq is assigned after ServeRequest. *)
WorkerPanicsNoSeq(w) ==
    scenario.panics /\ WorkerGoes(w, "write", Frame("Error", 0, None))

(* Mutant of WorkerPanics: the goroutine is not restarted. *)
WorkerPanicsForGood(w) ==
    /\ scenario.panics /\ worker[w].at = "handle"
    /\ Enqueue(Frame("Error", worker[w].ctx.seq, None))
    /\ worker' = [worker EXCEPT ![w] = [at |-> "none", ctx |-> NoContext]]
    /\ UNCHANGED workerRest

(* ServeRequest panics: an Error for the last seq, and another goroutine. *)
WorkerPanics(w) ==
    scenario.panics /\ WorkerGoes(w, "write", Frame("Error", worker[w].ctx.seq, None))

WorkerWrites(w) ==
    /\ worker[w].at = "write"
    /\ Enqueue(worker[w].ctx)
    /\ worker' = [worker EXCEPT ![w] = [at |-> "idle", ctx |-> NoContext]]
    /\ UNCHANGED workerRest

(* The channel was closed. *)
WorkerExits(w) ==
    /\ worker[w].at = "idle" /\ serve \in {"delete", "returned"}
    /\ worker' = [worker EXCEPT ![w].at = "none"]
    /\ UNCHANGED <<workerRest, writeCh>>

WorkerStep(w) == WorkerReturns(w) \/ WorkerPanics(w) \/ WorkerWrites(w) \/ WorkerExits(w)
-----------------------------------------------------------------------------
(* The client at the other end.  Once it has said hello, its requests and  *)
(* pushes wait for the HelloAck.                                           *)
ClientSends ==
    /\ ~peer.closed /\ client.todo # <<>>
    /\ LET m == Head(client.todo)
       IN  /\ m.op \in {"Request", "Push"} =>
                client.acked \/ ~\E i \in 1 .. Len(scenario.script) - Len(client.todo) :
                                    scenario.script[i].op = "Hello"
           /\ fromPeer' = Append(fromPeer, m)
           /\ client' = [client EXCEPT !.todo = Tail(@),
                                       !.sent = IF m.op = "Request" THEN @ \cup {m.seq} ELSE @]
    /\ UNCHANGED <<toPeer, peer, localVars, serve, putting, worker>>

ClientReads ==
    /\ ~peer.closed /\ toPeer # <<>>
    /\ LET m == Head(toPeer)
       IN  /\ fromPeer' = IF m.op = "Ping" THEN Append(fromPeer, Frame("Pong", m.seq, None))
                          ELSE fromPeer
           /\ client' = CASE m.op = "HelloAck" -> [client EXCEPT !.acked = TRUE]
                          [] m.op \in {"Response", "Error"} -> [client EXCEPT !.answers[m.seq] = @ + 1]
                          [] OTHER -> client
    /\ toPeer' = Tail(toPeer)
    /\ UNCHANGED <<peer, localVars, serve, putting, worker>>
-----------------------------------------------------------------------------
(* Steps of a process that has not died: of GoConn, and of this module.     *)
OfConn(A) == ~panicked /\ A /\ UNCHANGED <<scenario, serveVars>>
OfServe(A) == ~panicked /\ ~IsClient /\ A /\ UNCHANGED scenario

Shake == ShakeSend \/ ShakeReturn
UserStep(g) == UserCalls(g) /\ (g = "closer" => Registered)
Reader ==
    \/ OfConn((IsClient /\ ClientReadStep) \/ AnyReadStep \/ TerminateStep("read"))
    \/ OfServe(ServerReadStep)
Pinger == OfConn(PingStep \/ TerminateStep("ping"))
Caller(r) == OfConn(CallStep(r) \/ TimerFires(r))

Next ==
    \/ Reader \/ Pinger \/ OfConn(WriteStep) \/ OfConn(Shake)
    \/ \E r \in Req : Caller(r)
    \/ \E g \in {"user", "closer"} : OfConn(UserStep(g)) \/ OfConn(TerminateStep(g))
    \/ OfConn(PeerStep) \/ OfConn(IsClient /\ ServerPeerStep)
    \/ OfServe(ServeStep) \/ OfServe(ClientSends) \/ OfServe(ClientReads)
    \/ \E w \in Worker : OfServe(WorkerStep(w))

Spec == Init /\ [][Next]_vars

(* Every goroutine that can go on does; a timer that runs fires; a handler    *)
(* returns or panics; the other end reads, and a server answers.             *)
FairSpec ==
    /\ Spec
    /\ WF_vars(Reader) /\ WF_vars(Pinger) /\ WF_vars(OfConn(WriteStep)) /\ WF_vars(OfConn(Shake))
    /\ \A r \in Req : WF_vars(Caller(r))
    /\ \A g \in {"user", "closer"} : WF_vars(OfConn(TerminateStep(g)))
    /\ WF_vars(OfConn(IsClient /\ (PeerReads \/ PeerAnswers)))
    /\ WF_vars(OfServe(ServeStep)) /\ WF_vars(OfServe(ClientReads))
    /\ \A w \in Worker : WF_vars(OfServe(WorkerStep(w)))
-----------------------------------------------------------------------------
(* Where the request s is: on its way to a worker, with one, or on the way    *)
(* back as its answer.                                                       *)
IsOf(m, s) == m.seq = s /\ m.op \in {"Request", "Response", "Error"}
At(q, s) == {k \in DOMAIN q : IsOf(q[k], s)}

Occurrences(s) ==
    ({"fromPeer"} \X At(fromPeer, s)) \cup ({"putting"} \X At(putting, s))
        \cup ({"worker"} \X {w \in Worker : IsOf(worker[w].ctx, s)})
        \cup ({"writeCh"} \X At(writeCh, s)) \cup ({"flushing"} \X At(flushing, s))
        \cup ({"toPeer"} \X At(toPeer, s)) \cup ({"answered"} \X (1 .. client.answers[s]))

(* A request is in one place at a time, from the client through the pool and  *)
(* back, whatever the workers do: it is never answered twice, and lost only   *)
(* with the connection.  Sequence 0 is that of a push, which nobody answers.  *)
(* Nothing is put into a pool that is closed.                                *)
RequestsConserved ==
    /\ \A s \in client.sent \ {0} :
        /\ \A x, y \in Occurrences(s) : x = y
        /\ Occurrences(s) = {} => terminated \/ peer.closed
    /\ putting # <<>> => serve \notin {"delete", "returned"}

(* A request that reached the server is answered unless the connection ends,  *)
(* even if handlers panic.                                                   *)
RequestsAreAnswered ==
    LET due == {s \in client.sent \ {0} : client.answers[s] = 0}
    IN  (due # {}) ~> (due = {} \/ terminated)

(* However the connection ends, Serve returns and the server forgets it,      *)
(* unless the workers stay blocked on a write channel that nobody empties.   *)
ServeReturns ==
    <>[](Len(writeCh) = WriteCap) \/ (terminated ~> (serve = "returned" \/ panicked))

(* The connection's state is well typed, and the map of a client holds the     *)
(* objects of its calls (MapMatchesCalls).                                    *)
ConnInv == TypeOK /\ ServeTypeOK /\ MapMatchesCalls
=============================================================================
