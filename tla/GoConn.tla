-------------------------------- MODULE GoConn --------------------------------
(***************************************************************************)
(* A Go connection (conn.go): the read, write and ping loops of either end, *)
(* the goroutines of a client that call Handshake and RequestTimeout, and a *)
(* user who closes or terminates the connection, around one mutex, the map *)
(* of pooled requests, unbuffered channels and flags that are read and     *)
(* written without the mutex.  The other end of a client's connection is   *)
(* any Loqui server.  GoServe adds what only the server's end has.         *)
(*                                                                         *)
(* A send on the unbuffered channel of a pooled request is one step with   *)
(* the receive; a critical section that only looks at the map, or changes  *)
(* one entry, is one step that needs the mutex to be free.                 *)
(***************************************************************************)
EXTENDS Naturals, Sequences

CONSTANTS
    Req,            \* the calls of RequestTimeout, each in a goroutine
    Obj,            \* the *request objects of requestPool
    None,
    SeqModulus,     \* sequence ids are counted modulo this (2^32 in the code)
    WriteCap,       \* capacity of writeCh (1000 in the code)
    Worker,         \* the goroutines of a server's workerPool
    Scenarios       \* the surroundings a connection may have, see Surroundings

ASSUME NoneAssumption == None \notin Req \cup Obj
ASSUME SizeAssumption == SeqModulus \in Nat \ {0, 1} /\ WriteCap \in Nat \ {0}

SeqId == 0 .. SeqModulus - 1
Msg == [op : {"Hello", "BadHello", "HelloAck", "BadAck", "Request", "Response", "Error", "Push",
              "Ping", "Pong", "GoAway"},
        seq : SeqId, of : Req \cup {None}]
Frame(op, s, of) == [op |-> op, seq |-> s, of |-> of]
Plain(op) == Frame(op, 0, None)

(* Which end it is; the calls, and which of them are of Push; whether their timers, and the one  *)
(* of Handshake, may fire; who may end the connection ("user": Terminate;     *)
(* "closer": Close, or a server's Stop; "peer": the other end; "silence": a   *)
(* pong that is late); bounds on the pings that the ping loop and the other   *)
(* end start; and, for a server, what its client sends, the workers that     *)
(* Serve starts, and whether the handler may panic.                          *)
Surroundings == [role : {"client", "server"}, calls : SUBSET Req, pushes : SUBSET Req, timeouts : BOOLEAN,
                 closers : SUBSET {"user", "closer", "peer", "silence"},
                 pings : Nat, peerPings : Nat,
                 script : Seq(Msg), workers : SUBSET Worker, panics : BOOLEAN]
ASSUME ScenarioAssumption == Scenarios \subseteq Surroundings

VARIABLES
    scenario,       \* the surroundings; they do not change
    seq,            \* Conn.seq
    reqs,           \* Conn.reqs, by sequence id
    mu,             \* the goroutine that holds Conn.mu, or "free"
    localClosed, remoteClosed, terminated,   \* flags of Conn
    terminateCh,    \* "open" or "closed"
    readErrCh,      \* the read loop has failed: the channel holds the error
    panicked,       \* the process has died of a second close(terminateCh)
    ready,          \* Conn.ready, and readyCh closed
    pongCh,         \* how many pongs the channel holds (capacity 1)
    writeCh,        \* the frames in writeCh
    flushing,       \* the frames the write loop took and has not flushed yet
    sock,           \* the socket of this end: "open" or "closed"
    pool,           \* the objects in requestPool
    response,       \* response[o]: the call whose answer o.response holds
    call,           \* call[r]: how far the goroutine of r has come
    held,           \* held[r]: r's request object
    mySeq,          \* mySeq[r]: req.seq of that object
    result,         \* result[r]: what the call returned
    go,             \* go[g]: how far the goroutine g has come
    todo,           \* todo[g]: whom g still has to send to on a request channel
    pings,          \* how many pings were started
    shake,          \* how far Handshake has come
    toPeer,         \* frames on the socket to the server
    fromPeer,       \* frames on the socket from the server
    peer            \* the other end: its open requests, and what it has done

flagVars == <<localClosed, remoteClosed, terminated, terminateCh, readErrCh, panicked>>
callVars == <<call, held, mySeq, result, pool>>
peerVars == <<toPeer, fromPeer, peer>>
connVars == <<seq, reqs, mu, flagVars, ready, pongCh, writeCh, flushing, sock, response,
          callVars, go, todo, pings, shake, peerVars>>

(* The goroutines that can end up in Terminate or terminate, and where.      *)
(* "closer" is a goroutine that calls Close, "user" one that calls Terminate. *)
Terminator == {"read", "ping", "user", "closer"}
Goroutine == Terminator \cup {"write"}
GoState == {"run", "put", "complete", "afterSend", "count", "interval", "close", "closeSet",
            "goAway", "check", "closeCh", "lock", "sweep", "done"}

TypeOK ==
    /\ scenario \in Scenarios
    /\ seq \in SeqId
    /\ reqs \in [SeqId -> Obj \cup {None}]
    /\ mu \in Terminator \cup {"free"}
    /\ {localClosed, remoteClosed, terminated, readErrCh, panicked, ready} \subseteq BOOLEAN
    /\ terminateCh \in {"open", "closed"}
    /\ pongCh \in 0 .. 1
    /\ writeCh \in Seq(Msg) /\ Len(writeCh) <= WriteCap
    /\ flushing \in Seq(Msg)
    /\ sock \in {"open", "closed"}
    /\ pool \subseteq Obj
    /\ response \in [Obj -> Req \cup {None}]
    /\ call \in [Req -> {"idle", "push", "acquire", "register", "write", "select", "release", "done"}]
    /\ held \in [Req -> Obj \cup {None}]
    /\ mySeq \in [Req -> SeqId]
    /\ result \in [Req -> [kind : {"none", "ok", "EOF", "ErrTimeout", "ErrNotReady"},
                           of : Req \cup {None}]]
    /\ go \in [Goroutine -> GoState]
    /\ todo \in [Terminator -> Seq(Obj)]
    /\ pings \in 0 .. scenario.pings
    /\ shake \in {"start", "wait", "nil"}
    /\ toPeer \in Seq(Msg)
    /\ fromPeer \in Seq(Msg)
    /\ peer \in [open : SUBSET Msg, goneAway : BOOLEAN, pinged : 0 .. scenario.peerPings, closed : BOOLEAN]

ConnInit ==
    /\ scenario \in Scenarios
    /\ seq = 0
    /\ reqs = [s \in SeqId |-> None]
    /\ mu = "free"
    /\ localClosed = FALSE /\ remoteClosed = FALSE /\ terminated = FALSE
    /\ terminateCh = "open" /\ readErrCh = FALSE /\ panicked = FALSE
    /\ ready = FALSE
    /\ pongCh = 0
    /\ writeCh = <<>>
    /\ flushing = <<>>
    /\ sock = "open"
    /\ pool = Obj
    /\ response = [o \in Obj |-> None]
    /\ call = [r \in Req |-> "idle"]
    /\ held = [r \in Req |-> None]
    /\ mySeq = [r \in Req |-> 0]
    /\ result = [r \in Req |-> [kind |-> "none", of |-> None]]
    /\ go = [g \in Goroutine |-> "run"]
    /\ todo = [g \in Terminator |-> <<>>]
    /\ pings = 0
    /\ shake = "start"
    /\ toPeer = <<>>
    /\ fromPeer = <<>>
    /\ peer = [open |-> {}, goneAway |-> FALSE, pinged |-> 0, closed |-> FALSE]
-----------------------------------------------------------------------------
(* Helpers.                                                                *)

(* writeCh <- b: blocks while the channel is full. *)
Enqueue(m) == Len(writeCh) < WriteCap /\ writeCh' = Append(writeCh, m)

IsClient == scenario.role = "client"

Goto(g, state) == go' = [go EXCEPT ![g] = state]

(* nextSeq: the incremented value is the id. *)
NextSeq == (seq + 1) % SeqModulus

(* The orders in which `range` may go through a map. *)
Orders(S) ==
    {q \in UNION {[1 .. n -> S] : n \in 0 .. SeqModulus} :
        /\ \A x \in S : \E k \in DOMAIN q : q[k] = x
        /\ \A j, k \in DOMAIN q : q[j] = q[k] => j = k}
-----------------------------------------------------------------------------
(* Handshake, which gives its caller nil whatever ended its wait.          *)
ShakeSend ==
    /\ IsClient
    /\ shake = "start"
    /\ Enqueue(Plain("Hello"))
    /\ shake' = "wait"
    /\ UNCHANGED <<seq, reqs, mu, flagVars, ready, pongCh, flushing, sock, response, callVars,
                   go, todo, pings, peerVars>>

ShakeReturn ==
    /\ shake = "wait"
    /\ ready \/ terminateCh = "closed" \/ scenario.timeouts
    /\ shake' = "nil"
    /\ UNCHANGED <<seq, reqs, mu, flagVars, ready, pongCh, writeCh, flushing, sock, response,
                   callVars, go, todo, pings, peerVars>>
-----------------------------------------------------------------------------
(* RequestTimeout and Push.                                                *)

Outcome(kind, of) == [kind |-> kind, of |-> of]

(* The checks of RequestTimeout and Push, made without the mutex. *)
Start(r) ==
    /\ r \in scenario.calls
    /\ call[r] = "idle"
    /\ shake = "nil"
    /\ LET err == IF localClosed \/ remoteClosed THEN "EOF"
                  ELSE IF ~ready THEN "ErrNotReady" ELSE "none"
           first == IF r \in scenario.pushes THEN "push" ELSE "acquire"
       IN  /\ call' = [call EXCEPT ![r] = IF err = "none" THEN first ELSE "done"]
           /\ result' = [result EXCEPT ![r] = Outcome(err, None)]
    /\ UNCHANGED <<seq, reqs, mu, flagVars, ready, pongCh, writeCh, flushing, sock, response, held,
                   mySeq, pool, go, todo, pings, shake, peerVars>>

WritePush(r) ==
    /\ call[r] = "push"
    /\ Enqueue(Frame("Push", 0, r))
    /\ call' = [call EXCEPT ![r] = "done"]
    /\ UNCHANGED <<seq, reqs, mu, flagVars, ready, pongCh, flushing, sock, response, held, mySeq,
                   result, pool, go, todo, pings, shake, peerVars>>

(* acquireRequest: an object of the pool and an id, then, with the mutex, the *)
(* entry of the map.                                                         *)
Acquire(r) ==
    /\ call[r] = "acquire"
    /\ \E o \in pool : held' = [held EXCEPT ![r] = o] /\ pool' = pool \ {o}
    /\ seq' = NextSeq
    /\ mySeq' = [mySeq EXCEPT ![r] = NextSeq]
    /\ call' = [call EXCEPT ![r] = "register"]
    /\ UNCHANGED <<reqs, mu, flagVars, ready, pongCh, writeCh, flushing, sock, response, result, go,
                   todo, pings, shake, peerVars>>

Register(r) ==
    /\ call[r] = "register"
    /\ mu = "free"
    /\ reqs' = [reqs EXCEPT ![mySeq[r]] = held[r]]
    /\ call' = [call EXCEPT ![r] = "write"]
    /\ UNCHANGED <<seq, mu, flagVars, ready, pongCh, writeCh, flushing, sock, response, held, mySeq,
                   result, pool, go, todo, pings, shake, peerVars>>

WriteRequest(r) ==
    /\ call[r] = "write"
    /\ Enqueue(Frame("Request", mySeq[r], r))
    /\ call' = [call EXCEPT ![r] = "select"]
    /\ UNCHANGED <<seq, reqs, mu, flagVars, ready, pongCh, flushing, sock, response, held, mySeq,
                   result, pool, go, todo, pings, shake, peerVars>>

(* req.c <- err of completeRequest, or of terminate, meets r's select. *)
Receive(r, g) ==
    /\ call[r] = "select"
    /\ todo[g] # <<>>
    /\ Head(todo[g]) = held[r]
    /\ result' = [result EXCEPT ![r] = IF go[g] = "complete" THEN Outcome("ok", response[held[r]])
                                       ELSE Outcome("EOF", None)]
    /\ call' = [call EXCEPT ![r] = "release"]
    /\ todo' = [todo EXCEPT ![g] = Tail(@)]
    /\ Goto(g, IF go[g] = "complete" THEN "afterSend" ELSE "sweep")
    /\ UNCHANGED <<seq, reqs, mu, flagVars, ready, pongCh, writeCh, flushing, sock, response, held,
                   mySeq, pool, pings, shake, peerVars>>

TimerFires(r) ==
    /\ scenario.timeouts
    /\ call[r] = "select"
    /\ result' = [result EXCEPT ![r] = Outcome("ErrTimeout", None)]
    /\ call' = [call EXCEPT ![r] = "release"]
    /\ UNCHANGED <<seq, reqs, mu, flagVars, ready, pongCh, writeCh, flushing, sock, response, held,
                   mySeq, pool, go, todo, pings, shake, peerVars>>

(* Mutant of Release: the object goes back to the pool, its entry stays. *)
ReleaseKeepsEntry(r) ==
    /\ call[r] = "release"
    /\ mu = "free"
    /\ pool' = pool \cup {held[r]}
    /\ held' = [held EXCEPT ![r] = None]
    /\ call' = [call EXCEPT ![r] = "done"]
    /\ UNCHANGED <<seq, reqs, mu, flagVars, ready, pongCh, writeCh, flushing, sock, response, mySeq,
                   result, go, todo, pings, shake, peerVars>>

(* releaseRequest. *)
Release(r) ==
    /\ call[r] = "release"
    /\ mu = "free"
    /\ reqs' = [reqs EXCEPT ![mySeq[r]] = None]
    /\ pool' = pool \cup {held[r]}
    /\ held' = [held EXCEPT ![r] = None]
    /\ call' = [call EXCEPT ![r] = "done"]
    /\ UNCHANGED <<seq, mu, flagVars, ready, pongCh, writeCh, flushing, sock, response, mySeq,
                   result, go, todo, pings, shake, peerVars>>
-----------------------------------------------------------------------------
(* The read loop.                                                          *)

(* The next frame, if its opcode is op, is taken; the reader is buffered, so   *)
(* frames can still be taken once the socket is closed.                      *)
TakeFrame(op) ==
    /\ go["read"] = "run"
    /\ fromPeer # <<>>
    /\ Head(fromPeer).op = op
    /\ fromPeer' = Tail(fromPeer)
    /\ UNCHANGED <<toPeer, peer>>

(* handleHelloAck: a second one is an invalid operation. *)
ReadHelloAck ==
    /\ TakeFrame("HelloAck")
    /\ ready' = TRUE
    /\ Goto("read", IF ready THEN "close" ELSE "run")
    /\ UNCHANGED <<seq, reqs, mu, flagVars, pongCh, writeCh, flushing, sock, response, callVars,
                   todo, pings, shake>>

(* A HelloAck whose encoding or compression was not offered ("BadAck"), or a  *)
(* push while nobody serves: Terminate.  (So does what only a client sends.)  *)
ReadRefused ==
    /\ TakeFrame("BadAck") \/ TakeFrame("Push")
    /\ Goto("read", "close")
    /\ UNCHANGED <<seq, reqs, mu, flagVars, ready, pongCh, writeCh, flushing, sock, response,
                   callVars, todo, pings, shake>>

(* Mutant of ReadResponse: the path that found the request does not unlock. *)
ReadResponseNoUnlock ==
    /\ TakeFrame("Response")
    /\ mu = "free"
    /\ LET o == reqs[Head(fromPeer).seq]
       IN  IF o = None
           THEN UNCHANGED <<mu, response, todo, go>>
           ELSE /\ response' = [response EXCEPT ![o] = Head(fromPeer).of]
                /\ todo' = [todo EXCEPT !["read"] = <<o>>]
                /\ mu' = "read"
                /\ Goto("read", "complete")
    /\ UNCHANGED <<seq, reqs, flagVars, ready, pongCh, writeCh, flushing, sock, callVars, pings,
                   shake>>

(* Mutant of ReadResponse: answers are taken to come in the order of requests. *)
ReadResponseInOrder ==
    /\ TakeFrame("Response")
    /\ mu = "free"
    /\ LET open == {s \in SeqId : reqs[s] # None}
           o == reqs[CHOOSE s \in open : \A t \in open : s <= t]
       IN  /\ open # {}
           /\ response' = [response EXCEPT ![o] = Head(fromPeer).of]
           /\ todo' = [todo EXCEPT !["read"] = <<o>>]
           /\ Goto("read", "complete")
    /\ UNCHANGED <<seq, reqs, mu, flagVars, ready, pongCh, writeCh, flushing, sock, callVars,
                   pings, shake>>

(* handleResponse and handleError (an answer is either frame): completeRequest *)
(* up to its send.  The lookup has the mutex, the rest does not. *)
ReadResponse ==
    /\ TakeFrame("Response")
    /\ mu = "free"
    /\ LET o == reqs[Head(fromPeer).seq]
       IN  IF o = None
           THEN UNCHANGED <<response, todo, go>>
           ELSE /\ response' = [response EXCEPT ![o] = Head(fromPeer).of]
                /\ todo' = [todo EXCEPT !["read"] = <<o>>]
                /\ Goto("read", "complete")
    /\ UNCHANGED <<seq, reqs, mu, flagVars, ready, pongCh, writeCh, flushing, sock, callVars,
                   pings, shake>>

ReadPing ==
    /\ TakeFrame("Ping")
    /\ Enqueue(Frame("Pong", Head(fromPeer).seq, None))
    /\ UNCHANGED <<seq, reqs, mu, flagVars, ready, pongCh, flushing, sock, response, callVars,
                   go, todo, pings, shake>>

(* pongCh <- seq: blocks while the last pong was not looked at. *)
ReadPong ==
    /\ TakeFrame("Pong")
    /\ pongCh = 0
    /\ pongCh' = 1
    /\ UNCHANGED <<seq, reqs, mu, flagVars, ready, writeCh, flushing, sock, response, callVars,
                   go, todo, pings, shake>>

ReadGoAway ==
    /\ TakeFrame("GoAway")
    /\ remoteClosed' = TRUE
    /\ Goto("read", IF localClosed THEN "close" ELSE "run")
    /\ UNCHANGED <<seq, reqs, mu, localClosed, terminated, terminateCh, readErrCh, panicked, ready,
                   pongCh, writeCh, flushing, sock, response, callVars, todo, pings, shake>>

(* Mutant of ReadError: the error is not sent on readErrCh. *)
ReadErrorUnreported ==
    /\ go["read"] = "run"
    /\ sock = "closed" \/ (peer.closed /\ fromPeer = <<>>)
    /\ Goto("read", "check")
    /\ UNCHANGED <<seq, reqs, mu, flagVars, ready, pongCh, writeCh, flushing, sock, response,
                   callVars, todo, pings, shake, peerVars>>

(* The socket ended, or was closed by terminate. *)
ReadError ==
    /\ go["read"] = "run"
    /\ sock = "closed" \/ (peer.closed /\ fromPeer = <<>>)
    /\ readErrCh' = TRUE
    /\ Goto("read", "check")
    /\ UNCHANGED <<seq, reqs, mu, localClosed, remoteClosed, terminated, terminateCh, panicked,
                   ready, pongCh, writeCh, flushing, sock, response, callVars, todo, pings, shake,
                   peerVars>>

(* The end of completeRequest: the last call of a connection whose other end *)
(* has said GoAway terminates it.                                            *)
AfterSend ==
    /\ go["read"] = "afterSend"
    /\ Goto("read", IF remoteClosed THEN "count" ELSE "run")
    /\ UNCHANGED <<seq, reqs, mu, flagVars, ready, pongCh, writeCh, flushing, sock, response,
                   callVars, todo, pings, shake, peerVars>>

CountRequests ==
    /\ go["read"] = "count"
    /\ mu = "free"
    /\ Goto("read", IF \A s \in SeqId : reqs[s] = None THEN "close" ELSE "run")
    /\ UNCHANGED <<seq, reqs, mu, flagVars, ready, pongCh, writeCh, flushing, sock, response,
                   callVars, todo, pings, shake, peerVars>>
-----------------------------------------------------------------------------
(* The ping loop.                                                          *)

PingStart ==
    /\ go["ping"] = "run"
    /\ ready
    /\ pings < scenario.pings
    /\ Enqueue(Frame("Ping", NextSeq, None))
    /\ seq' = NextSeq
    /\ pings' = pings + 1
    /\ Goto("ping", "interval")
    /\ UNCHANGED <<reqs, mu, flagVars, ready, pongCh, flushing, sock, response, callVars, todo,
                   shake, peerVars>>

(* The interval is over: a pong is there, or the connection is terminated. *)
PingInterval ==
    /\ go["ping"] = "interval"
    /\ pongCh = 1 \/ "silence" \in scenario.closers
    /\ Goto("ping", IF pongCh = 1 THEN "run" ELSE "close")
    /\ pongCh' = 0
    /\ UNCHANGED <<seq, reqs, mu, flagVars, ready, writeCh, flushing, sock, response, callVars, todo,
                   pings, shake, peerVars>>

PingExit ==
    /\ terminateCh = "closed"
    /\ go["ping"] = "interval" \/ (go["ping"] = "run" /\ pings = 0)
    /\ Goto("ping", "done")
    /\ UNCHANGED <<seq, reqs, mu, flagVars, ready, pongCh, writeCh, flushing, sock, response,
                   callVars, todo, pings, shake, peerVars>>
-----------------------------------------------------------------------------
(* Close and Terminate.  None of the flags is read or written under the    *)
(* mutex, so each test and the assignment after it are two steps.          *)

(* What a goroutine does after it has terminated the connection. *)
AfterTerminate(g) == IF g = "read" /\ ~readErrCh THEN "run" ELSE "done"

UserCalls(g) ==
    /\ g \in {"user", "closer"} \cap scenario.closers
    /\ go[g] = "run"
    /\ Goto(g, "close")
    /\ UNCHANGED <<seq, reqs, mu, flagVars, ready, pongCh, writeCh, flushing, sock, response,
                   callVars, todo, pings, shake, peerVars>>

(* Where Close returns to: Terminate goes on with terminate. *)
AfterClose(g) == IF g = "closer" THEN "done" ELSE "check"

CloseCheck(g) ==
    /\ go[g] = "close"
    /\ Goto(g, IF localClosed THEN AfterClose(g) ELSE "closeSet")
    /\ UNCHANGED <<seq, reqs, mu, flagVars, ready, pongCh, writeCh, flushing, sock, response,
                   callVars, todo, pings, shake, peerVars>>

CloseSet(g) ==
    /\ go[g] = "closeSet"
    /\ localClosed' = TRUE
    /\ Goto(g, "goAway")
    /\ UNCHANGED <<seq, reqs, mu, remoteClosed, terminated, terminateCh, readErrCh, panicked, ready,
                   pongCh, writeCh, flushing, sock, response, callVars, todo, pings, shake, peerVars>>

WriteGoAway(g) ==
    /\ go[g] = "goAway"
    /\ Enqueue(Plain("GoAway"))
    /\ Goto(g, AfterClose(g))
    /\ UNCHANGED <<seq, reqs, mu, flagVars, ready, pongCh, flushing, sock, response, callVars, todo,
                   pings, shake, peerVars>>

(* Mutant of TermCheck: the flag that Close has just set is tested. *)
TermCheckLocal(g) ==
    /\ go[g] = "check"
    /\ Goto(g, IF localClosed THEN AfterTerminate(g) ELSE "closeCh")
    /\ UNCHANGED <<seq, reqs, mu, flagVars, ready, pongCh, writeCh, flushing, sock, response,
                   callVars, todo, pings, shake, peerVars>>

(* terminate: its test of c.terminated, then the assignments and the close of *)
(* terminateCh (a second one panics), the mutex, the sends, the socket.      *)
TermCheck(g) ==
    /\ go[g] = "check"
    /\ Goto(g, IF terminated THEN AfterTerminate(g) ELSE "closeCh")
    /\ UNCHANGED <<seq, reqs, mu, flagVars, ready, pongCh, writeCh, flushing, sock, response,
                   callVars, todo, pings, shake, peerVars>>

CloseCh(g) ==
    /\ go[g] = "closeCh"
    /\ localClosed' = TRUE /\ remoteClosed' = TRUE /\ terminated' = TRUE
    /\ terminateCh' = "closed"
    /\ panicked' = (terminateCh = "closed")
    /\ Goto(g, "lock")
    /\ UNCHANGED <<seq, reqs, mu, readErrCh, ready, pongCh, writeCh, flushing, sock, response,
                   callVars, todo, pings, shake, peerVars>>

Lock(g) ==
    /\ go[g] = "lock"
    /\ mu = "free"
    /\ mu' = g
    /\ \E q \in Orders({reqs[s] : s \in SeqId} \ {None}) : todo' = [todo EXCEPT ![g] = q]
    /\ Goto(g, "sweep")
    /\ UNCHANGED <<seq, reqs, flagVars, ready, pongCh, writeCh, flushing, sock, response, callVars,
                   pings, shake, peerVars>>

SweepEnds(g) ==
    /\ go[g] = "sweep"
    /\ todo[g] = <<>>
    /\ mu' = "free"
    /\ sock' = "closed"
    /\ Goto(g, AfterTerminate(g))
    /\ UNCHANGED <<seq, reqs, flagVars, ready, pongCh, writeCh, flushing, response, callVars, todo,
                   pings, shake, peerVars>>

TerminateStep(g) ==
    \/ CloseCheck(g) \/ CloseSet(g) \/ WriteGoAway(g)
    \/ TermCheck(g) \/ CloseCh(g) \/ Lock(g) \/ SweepEnds(g)
-----------------------------------------------------------------------------
(* The write loop: what is in the channel is taken, then flushed.  When      *)
(* frames and a closed terminateCh are both there, select picks either.      *)
WriteTake ==
    /\ go["write"] = "run"
    /\ flushing = <<>>
    /\ writeCh # <<>>
    /\ flushing' = writeCh
    /\ writeCh' = <<>>
    /\ UNCHANGED <<seq, reqs, mu, flagVars, ready, pongCh, sock, response, callVars, go, todo, pings,
                   shake, peerVars>>

WriteFlush ==
    /\ flushing # <<>>
    /\ flushing' = <<>>
    /\ toPeer' = IF sock = "open" /\ ~peer.closed THEN toPeer \o flushing ELSE toPeer
    /\ UNCHANGED <<seq, reqs, mu, flagVars, ready, pongCh, writeCh, sock, response, callVars, go,
                   todo, pings, shake, fromPeer, peer>>

WriteExit ==
    /\ go["write"] = "run"
    /\ flushing = <<>>
    /\ terminateCh = "closed"
    /\ Goto("write", "done")
    /\ UNCHANGED <<seq, reqs, mu, flagVars, ready, pongCh, writeCh, flushing, sock, response,
                   callVars, todo, pings, shake, peerVars>>
-----------------------------------------------------------------------------
(* The other end: a server, unless this is one.                            *)

localVars == <<seq, reqs, mu, flagVars, ready, pongCh, writeCh, flushing, sock, response, callVars,
               go, todo, pings, shake>>

Replies(m) ==
    CASE m.op = "Hello" -> {<<Plain("HelloAck")>>}
                             \cup (IF "peer" \in scenario.closers THEN {<<Plain("BadAck")>>} ELSE {})
      [] m.op = "Ping"  -> {<<Frame("Pong", m.seq, None)>>}
      [] OTHER          -> {<<>>}

PeerReads ==
    /\ toPeer # <<>> /\ ~peer.closed
    /\ \E q \in Replies(Head(toPeer)) : fromPeer' = fromPeer \o q
    /\ toPeer' = Tail(toPeer)
    /\ peer' = IF Head(toPeer).op = "Request" THEN [peer EXCEPT !.open = @ \cup {Head(toPeer)}]
               ELSE peer
    /\ UNCHANGED localVars

PeerAnswers ==
    /\ ~peer.closed
    /\ \E m \in peer.open :
        /\ fromPeer' = Append(fromPeer, Frame("Response", m.seq, m.of))
        /\ peer' = [peer EXCEPT !.open = @ \ {m}]
    /\ UNCHANGED <<toPeer, localVars>>

PeerPings ==
    /\ ~peer.closed /\ peer.pinged < scenario.peerPings
    /\ fromPeer' = Append(fromPeer, Frame("Ping", 1, None))
    /\ peer' = [peer EXCEPT !.pinged = @ + 1]
    /\ UNCHANGED <<toPeer, localVars>>

(* It says GoAway, or pushes; either once. *)
PeerGoesAway ==
    /\ "peer" \in scenario.closers /\ ~peer.closed /\ ~peer.goneAway
    /\ \E op \in {"GoAway", "Push"} : fromPeer' = Append(fromPeer, Plain(op))
    /\ peer' = [peer EXCEPT !.goneAway = TRUE]
    /\ UNCHANGED <<toPeer, localVars>>

PeerCloses ==
    /\ "peer" \in scenario.closers /\ ~peer.closed
    /\ peer' = [peer EXCEPT !.closed = TRUE]
    /\ UNCHANGED <<toPeer, fromPeer, localVars>>
-----------------------------------------------------------------------------
CallStep(r) ==
    \/ Start(r) \/ WritePush(r) \/ Acquire(r) \/ Register(r) \/ WriteRequest(r) \/ Release(r)
    \/ \E g \in Terminator : Receive(r, g)

ClientReadStep ==
    \/ ReadHelloAck \/ ReadRefused \/ ReadResponse \/ AfterSend \/ CountRequests

AnyReadStep == ReadPing \/ ReadPong \/ ReadGoAway \/ ReadError

PingStep == PingStart \/ PingInterval \/ PingExit
WriteStep == WriteTake \/ WriteFlush \/ WriteExit
PeerStep == PeerPings \/ PeerCloses
ServerPeerStep == PeerReads \/ PeerAnswers \/ PeerGoesAway
-----------------------------------------------------------------------------
(* An answer that RequestTimeout returns is the server's answer to that very  *)
(* call: the map, the ids and the pooled objects never mix two calls up.     *)
AnswerIsOwn == \A r \in Req : result[r].kind = "ok" => result[r].of = r

(* AnswerIsOwn where no timer fires and nobody ends the connection. *)
PatientAnswerIsOwn == (~scenario.timeouts /\ scenario.closers = {}) => AnswerIsOwn

(* The map holds the objects of the calls between acquireRequest and          *)
(* releaseRequest, each under the id of its call, and nothing else; no two   *)
(* calls hold one object, and none that is held is in the pool.              *)
MapMatchesCalls ==
    /\ \A r \in Req : call[r] \in {"write", "select", "release"} => reqs[mySeq[r]] = held[r]
    /\ \A s \in SeqId : reqs[s] # None =>
        \E r \in Req : held[r] = reqs[s] /\ mySeq[r] = s
    /\ \A r \in Req : held[r] # None =>
        held[r] \notin pool /\ \A q \in Req \ {r} : held[q] # held[r]

(* Every call of RequestTimeout or Push returns while nobody ends the connection, even *)
(* if the read loop is stuck in a send to a call that has timed out.          *)
CallsReturn ==
    LET open == {r \in Req : call[r] \notin {"idle", "done"}}
    IN  (scenario.closers = {} /\ open # {}) ~> (open = {})

Terminating == \E g \in Terminator \ {"closer"} : go[g] \in {"close", "check"}

(* Terminate, and the read loop whose socket fails, get the connection        *)
(* closed: whoever begins either, the socket is closed in the end (if need    *)
(* be because the process has died).                                         *)
TerminateDisconnects == Terminating ~> (sock = "closed" \/ panicked)

(* TerminateDisconnects for a connection without calls. *)
IdleTerminateDisconnects ==
    (scenario.calls = {} /\ Terminating) ~> (sock = "closed" \/ panicked)
=============================================================================
