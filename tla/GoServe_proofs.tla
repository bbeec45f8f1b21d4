---------------------------- MODULE GoServe_proofs ----------------------------
(***************************************************************************)
(* Proofs about a Go connection, either end of it: the map of a client     *)
(* holds the objects of its calls, the answer of a patient call is its     *)
(* own, and a server neither loses nor repeats a request.  They are for    *)
(* any surroundings, any number of calls, objects and workers.             *)
(***************************************************************************)
EXTENDS GoServe, Integers, FiniteSetTheorems, SequenceTheorems, TLAPS

(* Fewer ids are drawn than there are: in the code, fewer than 2^32 calls and *)
(* pings on one connection.                                                  *)
IdsDoNotWrap ==
    /\ IsFiniteSet(Req)
    /\ \A sc \in Scenarios : Cardinality(Req) + sc.pings < SeqModulus

(* The client of a server numbers its requests apart.  A push has no sequence *)
(* in its frame, and a client sends no answers.                              *)
ScriptsAreSound ==
    \A sc \in Scenarios : \A j \in 1 .. Len(sc.script) :
        /\ sc.script[j].op \in {"Response", "Error", "Push"} => sc.script[j].seq = 0
        /\ sc.script[j].op = "Request" /\ sc.script[j].seq # 0 =>
             \A k \in 1 .. Len(sc.script) :
                sc.script[k].op = "Request" /\ sc.script[k].seq = sc.script[j].seq => j = k

Hits(q, M) == \E k \in 1 .. Len(q) : q[k] \in M
Once(q, M) == \A j, k \in 1 .. Len(q) : q[j] \in M /\ q[k] \in M => j = k

(* What this end has written and the other one has not read. *)
Out == (toPeer \o flushing) \o writeCh
-----------------------------------------------------------------------------
(* The ids and objects of the calls.                                       *)

InMap == {"write", "select", "release"}

HasId == {r \in Req : mySeq[r] # 0}

IdsAreFresh ==
    /\ seq = Cardinality(HasId) + pings
    /\ \A r \in Req : /\ mySeq[r] <= seq
                      /\ call[r] \in {"idle", "push", "acquire"} => mySeq[r] = 0
                      /\ held[r] # None => mySeq[r] # 0
    /\ \A r, q \in Req : mySeq[r] # 0 /\ mySeq[r] = mySeq[q] => r = q

ObjectsAreHeld ==
    /\ \A r \in Req : held[r] # None <=> call[r] \in InMap \cup {"register"}
    /\ \A r \in Req : held[r] # None => held[r] \notin pool
    /\ \A r, q \in Req : held[r] # None /\ held[r] = held[q] => r = q

MapIsKept ==
    /\ \A r \in Req : call[r] \in InMap => reqs[mySeq[r]] = held[r]
    /\ \A s \in SeqId : reqs[s] # None =>
        \E r \in Req : call[r] \in InMap /\ held[r] = reqs[s] /\ mySeq[r] = s

MapInv == TypeOK /\ IdsAreFresh /\ ObjectsAreHeld /\ MapIsKept
-----------------------------------------------------------------------------
(* A client whose calls wait and whose connection nobody ends.             *)

Patient == IsClient /\ ~scenario.timeouts /\ scenario.closers = {}

Hellos == {m \in Msg : m.op = "Hello"}
Acks == {m \in Msg : m.op = "HelloAck"}
Asks(r) == {m \in Msg : m.op = "Request" /\ m.of = r}
Answers(r) == {m \in Msg : m.op = "Response" /\ m.of = r}
Completing(r) == go["read"] = "complete" /\ todo["read"] = <<held[r]>>
Open(r) == \E m \in peer.open : m.of = r

(* What must not be there: a request or an answer under another id than s, or  *)
(* of no call, and what would make the read loop end the connection.          *)
Stray(op, r, s) == {m \in Msg : m.op = op /\ m.of = r /\ m.seq # s}
Nobodys(op) == {m \in Msg : m.op = op /\ m.of \notin Req}
Disturbing == {m \in Msg : m.op \notin {"HelloAck", "Response", "Ping", "Pong"}}

(* Nobody has begun to end the connection, and nothing has come that would.   *)
Undisturbed ==
    /\ sock = "open" /\ ~peer.closed /\ terminateCh = "open" /\ ~remoteClosed
    /\ go["read"] \in {"run", "complete", "afterSend"}
    /\ go["ping"] \in {"run", "interval"}
    /\ go["user"] = "run" /\ go["closer"] = "run"
    /\ \A g \in Terminator : todo[g] # <<>> => g = "read" /\ go[g] = "complete"
    /\ go["read"] = "complete" => \E r \in Req : Completing(r)
    /\ ~Hits(fromPeer, Disturbing)

(* One Hello, and one answer to it. *)
OneHello ==
    /\ Once(Out, Hellos) /\ Once(fromPeer, Acks)
    /\ shake = "start" => ~Hits(Out, Hellos) /\ ~Hits(fromPeer, Acks) /\ ~ready
    /\ ~(Hits(Out, Hellos) /\ Hits(fromPeer, Acks))
    /\ ~(Hits(Out, Hellos) /\ ready) /\ ~(Hits(fromPeer, Acks) /\ ready)

(* A request is in one place on its way to the other end and back, under the  *)
(* id of its call, and its caller waits for it.                              *)
OneAsk(r) ==
    /\ Once(Out, Asks(r)) /\ ~Hits(Out, Stray("Request", r, mySeq[r]))
    /\ Once(fromPeer, Answers(r)) /\ ~Hits(fromPeer, Stray("Response", r, mySeq[r]))
    /\ \A m \in peer.open : m.of = r => m.op = "Request" /\ m.seq = mySeq[r]
    /\ Completing(r) => response[held[r]] = r
    /\ Hits(Out, Asks(r)) \/ Open(r) \/ Hits(fromPeer, Answers(r)) \/ Completing(r) =>
         call[r] = "select"
    /\ ~(Hits(Out, Asks(r)) /\ Open(r)) /\ ~(Hits(Out, Asks(r)) /\ Hits(fromPeer, Answers(r)))
    /\ ~(Hits(Out, Asks(r)) /\ Completing(r)) /\ ~(Open(r) /\ Hits(fromPeer, Answers(r)))
    /\ ~(Open(r) /\ Completing(r)) /\ ~(Hits(fromPeer, Answers(r)) /\ Completing(r))

(* Every answer is to a call, and every call has its own. *)
AsksAreOwn ==
    /\ ~Hits(Out, Nobodys("Request")) /\ ~Hits(fromPeer, Nobodys("Response"))
    /\ \A m \in peer.open : m.of \in Req
    /\ \A r \in Req : OneAsk(r)
    /\ AnswerIsOwn

PatientInv ==
    /\ ~IsClient => shake = "start" /\ \A r \in Req : call[r] = "idle" /\ result[r].kind = "none"
    /\ Patient => Undisturbed /\ OneHello /\ AsksAreOwn
-----------------------------------------------------------------------------
(* A server, and the requests of its client.                               *)

For(s) == {m \in Msg : IsOf(m, s)}
Asked(s) == Hits(client.todo, For(s))
Coming(s) == Hits(fromPeer, For(s))
Handing(s) == Hits(putting, For(s))
Working(s) == \E w \in Worker : IsOf(worker[w].ctx, s)
Going(s) == Hits(Out, For(s))
Answered(s) == client.answers[s] # 0

OnePlace(s) ==
    /\ Once(client.todo, For(s)) /\ Once(fromPeer, For(s)) /\ Once(Out, For(s))
    /\ \A v, w \in Worker : IsOf(worker[v].ctx, s) /\ IsOf(worker[w].ctx, s) => v = w
    /\ client.answers[s] <= 1
    /\ Asked(s) => ~Coming(s) /\ ~Handing(s) /\ ~Working(s) /\ ~Going(s) /\ ~Answered(s)
    /\ Coming(s) => ~Handing(s) /\ ~Working(s) /\ ~Going(s) /\ ~Answered(s)
    /\ Handing(s) => ~Working(s) /\ ~Going(s) /\ ~Answered(s)
    /\ Working(s) => ~Going(s) /\ ~Answered(s)
    /\ Going(s) => ~Answered(s)
    /\ s \notin client.sent => ~Coming(s) /\ ~Handing(s) /\ ~Working(s) /\ ~Going(s) /\ ~Answered(s)
    /\ s \in client.sent /\ ~terminated /\ ~peer.closed =>
         Coming(s) \/ Handing(s) \/ Working(s) \/ Going(s) \/ Answered(s)

(* Requests ask, answers answer, and only work that is held is done. *)
Odd == {m \in Msg : m.op \in {"Response", "Error", "Push"} /\ m.seq # 0}
IsWork(m) == m.op = "Request" \/ (m.op = "Push" /\ m.seq = 0)
Requests == {m \in Msg : m.op = "Request"}

Plumbing ==
    /\ ~Hits(client.todo, Odd) /\ ~Hits(fromPeer, Odd) /\ ~Hits(Out, Requests)
    /\ \A k \in 1 .. Len(putting) : IsWork(putting[k])
    /\ \A w \in Worker :
        /\ worker[w].at \in {"none", "idle"} => worker[w].ctx = NoContext
        /\ worker[w].at = "handle" => IsWork(worker[w].ctx)
        /\ worker[w].at = "write" => worker[w].ctx.op \in {"Response", "Error"}
        /\ serve \in {"register", "start"} => worker[w].at = "none"

(* The end of a server's connection, as far as the read loop and Serve see it. *)
Ending ==
    /\ sock = "closed" => terminated
    /\ \A g \in Terminator : go[g] \in {"lock", "sweep"} => terminated
    /\ putting # <<>> => go["read"] = "put"
    /\ readErrCh => go["read"] \in {"check", "closeCh", "lock", "sweep", "done"}
    /\ serve \in {"delete", "returned"} => readErrCh

ServeInv ==
    /\ IsClient => putting = <<>> /\ client.sent = {}
    /\ ~IsClient => Ending /\ Plumbing /\ \A s \in SeqId \ {0} : OnePlace(s)
-----------------------------------------------------------------------------
(* Sequences of frames.                                                    *)

(* The frames that are built are frames. *)
LEMMA FramesBuilt ==
    ASSUME NEW op \in {"Hello", "BadHello", "HelloAck", "BadAck", "Request", "Response", "Error",
                       "Push", "Ping", "Pong", "GoAway"}
    PROVE  /\ Plain(op) \in Msg /\ Plain(op) = [op |-> op, seq |-> 0, of |-> None]
           /\ \A s \in SeqId, b \in Req \cup {None} :
                /\ Frame(op, s, b) \in Msg
                /\ Frame(op, s, b) = [op |-> op, seq |-> s, of |-> b]
BY SizeAssumption DEF Plain, Frame, Msg, SeqId

(* nextSeq stays among the ids. *)
LEMMA NextSeqType == ASSUME seq \in SeqId PROVE NextSeq \in SeqId
BY SizeAssumption DEF NextSeq, SeqId

(* A channel, or a socket, that gains or loses a frame. *)
LEMMA QueueTypes ==
    /\ <<>> \in Seq(Msg)
    /\ \A q \in Seq(Msg), m \in Msg : Append(q, m) \in Seq(Msg) /\ Len(Append(q, m)) = Len(q) + 1
    /\ \A q \in Seq(Msg) : q # <<>> => /\ Head(q) \in Msg /\ Tail(q) \in Seq(Msg)
                                       /\ Len(Tail(q)) = Len(q) - 1
    /\ \A p, q \in Seq(Msg) : p \o q \in Seq(Msg) /\ Len(p \o q) = Len(p) + Len(q)
    /\ \A q \in Seq(Msg) : Len(q) \in Nat
OBVIOUS

(* writeCh takes a frame. *)
LEMMA EnqueueType ==
    ASSUME TypeOK, NEW m \in Msg, Enqueue(m)
    PROVE  writeCh' \in Seq(Msg) /\ Len(writeCh') <= WriteCap
BY QueueTypes, SizeAssumption DEF Enqueue, TypeOK

(* The sweep of terminate goes over objects. *)
LEMMA OrdersType ==
    ASSUME reqs \in [SeqId -> Obj \cup {None}], NEW q \in Orders({reqs[s] : s \in SeqId} \ {None})
    PROVE  q \in Seq(Obj)
<1>1. PICK n \in 0 .. SeqModulus : q \in [1 .. n -> {reqs[s] : s \in SeqId} \ {None}]
    BY DEF Orders
<1>2. n \in Nat
    BY <1>1, SizeAssumption
<1>3. q \in [1 .. n -> Obj]
    BY <1>1
<1> QED
    BY <1>2, <1>3, SeqDef

(* A call that has an id has an object: what Release gives back is one. *)
CallsHold == \A r \in Req : call[r] \in InMap \cup {"register"} => held[r] # None

(* Steps of the calls keep the types. *)
LEMMA CallType ==
    ASSUME TypeOK, CallsHold, UNCHANGED scenario, NEW r \in Req, CallStep(r) \/ TimerFires(r)
    PROVE  TypeOK' /\ CallsHold'
<1> USE DEF flagVars, callVars, peerVars
<1>0. CallsHold'
    BY NoneAssumption
       DEF CallStep, Start, WritePush, Acquire, Register, WriteRequest, Release, Receive, TimerFires,
           CallsHold, InMap, TypeOK
<1> SUFFICES TypeOK'
    BY <1>0
<1>1. CASE Start(r)
    BY <1>1 DEF Start, TypeOK, Outcome
<1>2. CASE WritePush(r)
    <2>1. Frame("Push", 0, r) \in Msg
        BY FramesBuilt, SizeAssumption DEF SeqId
    <2> QED
        BY <1>2, <2>1, EnqueueType DEF WritePush, TypeOK
<1>3. CASE Acquire(r)
    BY <1>3, NextSeqType DEF Acquire, TypeOK
<1>4. CASE Register(r)
    BY <1>4 DEF Register, TypeOK
<1>5. CASE WriteRequest(r)
    <2>1. Frame("Request", mySeq[r], r) \in Msg
        BY FramesBuilt DEF TypeOK
    <2> QED
        BY <1>5, <2>1, EnqueueType DEF WriteRequest, TypeOK
<1>6. CASE Release(r)
    BY <1>6 DEF Release, TypeOK, CallsHold, InMap
<1>7. ASSUME NEW g \in Terminator, Receive(r, g) PROVE TypeOK'
    BY <1>7 DEF Receive, TypeOK, Goto, Outcome, Goroutine, GoState
<1>8. CASE TimerFires(r)
    BY <1>8 DEF TimerFires, TypeOK, Outcome
<1> QED
    BY <1>1, <1>2, <1>3, <1>4, <1>5, <1>6, <1>7, <1>8 DEF CallStep

(* Steps of the read loop that both ends, or only a client, take. *)
LEMMA ReadType ==
    ASSUME TypeOK, UNCHANGED scenario, ClientReadStep \/ AnyReadStep
    PROVE  TypeOK'
<1> USE DEF flagVars, callVars, peerVars
<1>0. ASSUME NEW op, TakeFrame(op)
      PROVE  /\ fromPeer' \in Seq(Msg) /\ UNCHANGED <<toPeer, peer>>
             /\ Head(fromPeer) \in Msg /\ Head(fromPeer).seq \in SeqId
             /\ Head(fromPeer).of \in Req \cup {None}
    BY <1>0, QueueTypes DEF TakeFrame, TypeOK, Msg
<1>1. CASE ReadHelloAck
    BY <1>0, <1>1 DEF ReadHelloAck, TypeOK, Goto, Goroutine, Terminator, GoState
<1>2. CASE ReadRefused
    BY <1>0, <1>2 DEF ReadRefused, TypeOK, Goto, Goroutine, Terminator, GoState
<1>3. CASE ReadResponse
    <2> DEFINE o == reqs[Head(fromPeer).seq]
    <2>1. o \in Obj \cup {None} /\ (o # None => <<o>> \in Seq(Obj))
        BY <1>0, <1>3 DEF ReadResponse, TypeOK
    <2> HIDE DEF o
    <2>2. CASE o = None
        BY <1>0, <1>3, <2>2 DEF ReadResponse, TypeOK, o
    <2>3. CASE o # None
        <3>1. /\ response' = [response EXCEPT ![o] = Head(fromPeer).of]
              /\ todo' = [todo EXCEPT !["read"] = <<o>>]
              /\ go' = [go EXCEPT !["read"] = "complete"]
            BY <1>3, <2>3 DEF ReadResponse, Goto, o
        <3> QED
            BY <1>0, <1>3, <2>1, <2>3, <3>1 DEF ReadResponse, TypeOK, Goroutine, Terminator, GoState
    <2> QED
        BY <2>2, <2>3
<1>4. CASE AfterSend
    BY <1>4 DEF AfterSend, TypeOK, Goto, Goroutine, Terminator, GoState
<1>5. CASE CountRequests
    BY <1>5 DEF CountRequests, TypeOK, Goto, Goroutine, Terminator, GoState
<1>6. CASE ReadPing
    <2>1. Frame("Pong", Head(fromPeer).seq, None) \in Msg
        BY <1>0, <1>6, FramesBuilt DEF ReadPing
    <2> QED
        BY <1>0, <1>6, <2>1, EnqueueType DEF ReadPing, TypeOK
<1>7. CASE ReadPong
    BY <1>0, <1>7 DEF ReadPong, TypeOK
<1>8. CASE ReadGoAway
    BY <1>0, <1>8 DEF ReadGoAway, TypeOK, Goto, Goroutine, Terminator, GoState
<1>9. CASE ReadError
    BY <1>9 DEF ReadError, TypeOK, Goto, Goroutine, Terminator, GoState
<1> QED
    BY <1>1, <1>2, <1>3, <1>4, <1>5, <1>6, <1>7, <1>8, <1>9 DEF ClientReadStep, AnyReadStep

(* Steps of Close and Terminate. *)
LEMMA TerminateType ==
    ASSUME TypeOK, UNCHANGED scenario, NEW g \in Terminator, TerminateStep(g) \/ UserCalls(g)
    PROVE  TypeOK'
<1> USE DEF flagVars, callVars, peerVars
<1>1. CASE UserCalls(g) \/ CloseCheck(g) \/ CloseSet(g)
    BY <1>1 DEF UserCalls, CloseCheck, CloseSet, TypeOK, Goto, Goroutine, GoState, AfterClose
<1>2. CASE WriteGoAway(g)
    BY <1>2, FramesBuilt, EnqueueType DEF WriteGoAway, TypeOK, Goto, Goroutine, GoState, AfterClose
<1>3. CASE TermCheck(g)
    BY <1>3 DEF TermCheck, TypeOK, Goto, Goroutine, GoState, AfterTerminate
<1>4. CASE CloseCh(g)
    BY <1>4 DEF CloseCh, TypeOK, Goto, Goroutine, GoState
<1>5. CASE Lock(g)
    <2>1. PICK q \in Orders({reqs[s] : s \in SeqId} \ {None}) : todo' = [todo EXCEPT ![g] = q]
        BY <1>5 DEF Lock
    <2>2. q \in Seq(Obj)
        BY OrdersType DEF TypeOK
    <2> QED
        BY <1>5, <2>1, <2>2 DEF Lock, TypeOK, Goto, Goroutine, GoState
<1>6. CASE SweepEnds(g)
    BY <1>6 DEF SweepEnds, TypeOK, Goto, Goroutine, GoState, AfterTerminate
<1> QED
    BY <1>1, <1>2, <1>3, <1>4, <1>5, <1>6 DEF TerminateStep

(* Steps of the other loops, of Handshake and of the other end. *)
LEMMA LoopType ==
    ASSUME TypeOK, UNCHANGED scenario, PingStep \/ WriteStep \/ Shake
    PROVE  TypeOK'
<1> USE DEF flagVars, callVars, peerVars
<1>0. scenario \in Surroundings
    BY ScenarioAssumption DEF TypeOK
<1>1. CASE PingStart
    <2>1. Frame("Ping", NextSeq, None) \in Msg
        BY NextSeqType, FramesBuilt DEF TypeOK
    <2>2. pings' \in 0 .. scenario.pings
        BY <1>0, <1>1 DEF PingStart, TypeOK, Surroundings
    <2> QED
        BY <1>1, <2>1, <2>2, NextSeqType, EnqueueType
           DEF PingStart, TypeOK, Goto, Goroutine, Terminator, GoState
<1>2. CASE PingInterval \/ PingExit
    BY <1>2 DEF PingInterval, PingExit, TypeOK, Goto, Goroutine, Terminator, GoState
<1>3. CASE WriteTake
    BY <1>3, QueueTypes, SizeAssumption DEF WriteTake, TypeOK
<1>4. CASE WriteFlush
    BY <1>4, QueueTypes DEF WriteFlush, TypeOK
<1>5. CASE WriteExit
    BY <1>5 DEF WriteExit, TypeOK, Goto, Goroutine, Terminator, GoState
<1>6. CASE Shake
    BY <1>6, FramesBuilt, EnqueueType DEF Shake, ShakeSend, ShakeReturn, TypeOK
<1> QED
    BY <1>1, <1>2, <1>3, <1>4, <1>5, <1>6 DEF PingStep, WriteStep

(* Steps of the other end. *)
LEMMA PeerType ==
    ASSUME TypeOK, UNCHANGED scenario, PeerStep \/ ServerPeerStep
    PROVE  TypeOK'
<1> USE DEF localVars, flagVars, callVars, peerVars
<1> DEFINE Peers == [open : SUBSET Msg, goneAway : BOOLEAN, pinged : 0 .. scenario.peerPings,
                     closed : BOOLEAN]
<1>0. scenario \in Surroundings /\ peer \in Peers
    BY ScenarioAssumption DEF TypeOK
<1>1. toPeer' \in Seq(Msg) /\ fromPeer' \in Seq(Msg) /\ peer' \in Peers
    <2>1. CASE PeerPings
        <3>1. Frame("Ping", 1, None) \in Msg
            BY FramesBuilt, SizeAssumption DEF SeqId
        <3>2. peer.pinged + 1 \in 0 .. scenario.peerPings
            BY <1>0, <2>1 DEF PeerPings, Surroundings
        <3> QED
            BY <1>0, <2>1, <3>1, <3>2, QueueTypes DEF PeerPings, TypeOK
    <2>2. CASE PeerCloses
        BY <1>0, <2>2 DEF PeerCloses, TypeOK
    <2>3. CASE PeerReads
        <3>1. Head(toPeer) \in Msg /\ Tail(toPeer) \in Seq(Msg) /\ Head(toPeer).seq \in SeqId
            BY <2>3, QueueTypes DEF PeerReads, TypeOK, Msg
        <3>2. Replies(Head(toPeer)) \subseteq Seq(Msg)
            <4>1. \A m \in Msg : <<m>> \in Seq(Msg)
                OBVIOUS
            <4>2. /\ Plain("HelloAck") \in Msg /\ Plain("BadAck") \in Msg
                  /\ Frame("Pong", Head(toPeer).seq, None) \in Msg
                BY <3>1, FramesBuilt
            <4> QED
                BY <4>1, <4>2, QueueTypes DEF Replies
        <3>3. fromPeer' \in Seq(Msg)
            BY <2>3, <3>2, QueueTypes DEF PeerReads, TypeOK
        <3>4. peer' \in Peers
            <4>1. peer.open \cup {Head(toPeer)} \in SUBSET Msg
                BY <1>0, <3>1
            <4> QED
                BY <1>0, <2>3, <4>1 DEF PeerReads
        <3> QED
            BY <2>3, <3>1, <3>3, <3>4 DEF PeerReads
    <2>4. CASE PeerAnswers
        <3>1. PICK m \in peer.open : /\ fromPeer' = Append(fromPeer, Frame("Response", m.seq, m.of))
                                     /\ peer' = [peer EXCEPT !.open = @ \ {m}]
            BY <2>4 DEF PeerAnswers
        <3>2. m \in Msg /\ m.seq \in SeqId /\ m.of \in Req \cup {None}
            BY <1>0 DEF Msg
        <3> QED
            BY <1>0, <2>4, <3>1, <3>2, FramesBuilt, QueueTypes DEF PeerAnswers, TypeOK
    <2>5. CASE PeerGoesAway
        <3>1. PICK op \in {"GoAway", "Push"} : fromPeer' = Append(fromPeer, Plain(op))
            BY <2>5 DEF PeerGoesAway
        <3>2. Plain(op) \in Msg
            BY FramesBuilt
        <3> QED
            BY <1>0, <2>5, <3>1, <3>2, QueueTypes DEF PeerGoesAway, TypeOK
    <2> QED
        BY <2>1, <2>2, <2>3, <2>4, <2>5 DEF PeerStep, ServerPeerStep
<1>2. UNCHANGED localVars
    BY DEF PeerStep, ServerPeerStep, PeerPings, PeerCloses, PeerReads, PeerAnswers, PeerGoesAway
<1> QED
    BY <1>1, <1>2 DEF TypeOK

(* What Put hands over is there. *)
PutHolds == go["read"] = "put" => putting # <<>>

(* Steps of a server. *)
LEMMA ServerType ==
    ASSUME TypeOK, ServeTypeOK, PutHolds, UNCHANGED scenario,
           \/ ServerReadStep \/ ServeStep \/ ClientSends \/ ClientReads
           \/ \E w \in Worker : WorkerStep(w)
    PROVE  TypeOK' /\ ServeTypeOK' /\ UNCHANGED <<call, held>>
<1> USE DEF localVars, flagVars, callVars, peerVars, serveVars, connVars, workerRest
<1> DEFINE Workers == [Worker -> [at : {"none", "idle", "handle", "write"}, ctx : Msg]]
<1>0. ASSUME NEW op, TakeFrame(op)
      PROVE  /\ fromPeer' \in Seq(Msg) /\ UNCHANGED <<toPeer, peer>>
             /\ Head(fromPeer) \in Msg /\ <<Head(fromPeer)>> \in Seq(Msg)
             /\ Len(<<Head(fromPeer)>>) <= 1
    <2>1. \A m \in Msg : <<m>> \in Seq(Msg) /\ Len(<<m>>) <= 1
        OBVIOUS
    <2> QED
        BY <1>0, <2>1, QueueTypes DEF TakeFrame, TypeOK
<1>1. CASE ReadHello
    BY <1>0, <1>1, FramesBuilt, EnqueueType
       DEF ReadHello, TypeOK, ServeTypeOK, Goto, Goroutine, Terminator, GoState
<1>2. CASE ReadInvalid
    BY <1>0, <1>2 DEF ReadInvalid, TypeOK, ServeTypeOK, Goto, Goroutine, Terminator, GoState
<1>3. CASE ReadErrorFrame
    BY <1>0, <1>3 DEF ReadErrorFrame, TypeOK, ServeTypeOK
<1>4. CASE ReadWork
    BY <1>0, <1>4 DEF ReadWork, TypeOK, ServeTypeOK, Goto, Goroutine, Terminator, GoState
<1>5. CASE Put
    <2>1. TypeOK'
        BY <1>5 DEF Put, TypeOK, Goto, Goroutine, Terminator, GoState
    <2>2. Head(putting) \in Msg
        BY <1>5, QueueTypes DEF Put, ServeTypeOK, PutHolds
    <2>3. worker' \in Workers
        <3>1. PICK w \in Worker : worker' = [worker EXCEPT ![w] = [at |-> "handle", ctx |-> Head(putting)]]
            BY <1>5 DEF Put
        <3> QED
            BY <2>2, <3>1 DEF ServeTypeOK
    <2>4. putting' \in Seq(Msg) /\ Len(putting') <= 1
        BY <1>5 DEF Put
    <2> QED
        BY <1>5, <2>1, <2>3, <2>4 DEF Put, ServeTypeOK
<1>6. CASE ServeStep
    <2>1. TypeOK' /\ UNCHANGED <<call, held, putting, client>> /\ serve' \in Serving
        BY <1>6 DEF ServeStep, ServeRegister, ServeStart, ServeWaits, ServeEnds, ServeUnregister,
                    ServeGoes, TypeOK, Serving
    <2>2. worker' \in Workers
        <3>1. CASE ServeStart
            <4>1. \A w \in Worker : [worker[w] EXCEPT !.at = "idle"] \in
                                        [at : {"none", "idle", "handle", "write"}, ctx : Msg]
                BY DEF ServeTypeOK
            <4> QED
                BY <3>1, <4>1 DEF ServeStart, ServeTypeOK
        <3>2. CASE UNCHANGED worker
            BY <3>2 DEF ServeTypeOK
        <3> QED
            BY <1>6, <3>1, <3>2 DEF ServeStep, ServeRegister, ServeWaits, ServeEnds, ServeUnregister
    <2> QED
        BY <2>1, <2>2 DEF ServeTypeOK
<1>7. CASE ClientSends
    <2> DEFINE m == Head(client.todo)
    <2>1. client.todo \in Seq(Msg) /\ m \in Msg /\ Tail(client.todo) \in Seq(Msg) /\ m.seq \in SeqId
        BY <1>7, QueueTypes DEF ClientSends, ServeTypeOK, Msg
    <2>2. /\ fromPeer' = Append(fromPeer, m)
          /\ client' = [client EXCEPT !.todo = Tail(@),
                                      !.sent = IF m.op = "Request" THEN @ \cup {m.seq} ELSE @]
        BY <1>7 DEF ClientSends
    <2> HIDE DEF m
    <2>3. TypeOK'
        BY <1>7, <2>1, <2>2, QueueTypes DEF ClientSends, TypeOK
    <2>4. (IF m.op = "Request" THEN client.sent \cup {m.seq} ELSE client.sent) \in SUBSET SeqId
        BY <2>1 DEF ServeTypeOK
    <2>5. client' \in [todo : Seq(Msg), acked : BOOLEAN, sent : SUBSET SeqId, answers : [SeqId -> Nat]]
        BY <2>1, <2>2, <2>4 DEF ServeTypeOK
    <2> QED
        BY <1>7, <2>3, <2>5 DEF ClientSends, ServeTypeOK
<1>8. CASE ClientReads
    <2> DEFINE m == Head(toPeer)
               Clients == [todo : Seq(Msg), acked : BOOLEAN, sent : SUBSET SeqId, answers : [SeqId -> Nat]]
    <2>1. m \in Msg /\ Tail(toPeer) \in Seq(Msg) /\ m.seq \in SeqId /\ client \in Clients
        BY <1>8, QueueTypes DEF ClientReads, TypeOK, ServeTypeOK, Msg
    <2>2. Frame("Pong", m.seq, None) \in Msg
        BY <2>1, FramesBuilt
    <2>3. TypeOK'
        BY <1>8, <2>1, <2>2, QueueTypes DEF ClientReads, TypeOK
    <2>4. [client EXCEPT !.acked = TRUE] \in Clients
        BY <2>1
    <2>5. [client EXCEPT !.answers[m.seq] = @ + 1] \in Clients
        <3>1. [client.answers EXCEPT ![m.seq] = client.answers[m.seq] + 1] \in [SeqId -> Nat]
            BY <2>1
        <3> QED
            BY <2>1, <3>1
    <2>6. client' \in Clients
        BY <1>8, <2>1, <2>4, <2>5 DEF ClientReads
    <2> QED
        BY <1>8, <2>3, <2>6 DEF ClientReads, ServeTypeOK
<1>9. ASSUME NEW w \in Worker, WorkerStep(w) PROVE TypeOK' /\ ServeTypeOK' /\ UNCHANGED <<call, held>>
    <2>1. /\ worker[w].ctx \in Msg /\ worker[w].ctx.seq \in SeqId
          /\ NoContext \in Msg
        BY FramesBuilt DEF ServeTypeOK, NoContext, Msg
    <2>2. Frame("Response", worker[w].ctx.seq, None) \in Msg /\ Frame("Error", worker[w].ctx.seq, None) \in Msg
        BY <2>1, FramesBuilt
    <2>3. ASSUME NEW at \in {"idle", "write"}, NEW ctx \in Msg, WorkerGoes(w, at, ctx)
          PROVE  TypeOK' /\ ServeTypeOK' /\ UNCHANGED <<call, held>>
        BY <2>3 DEF WorkerGoes, TypeOK, ServeTypeOK
    <2>4. CASE WorkerReturns(w) \/ WorkerPanics(w)
        BY <2>1, <2>2, <2>3, <2>4 DEF WorkerReturns, WorkerPanics
    <2>5. CASE WorkerWrites(w)
        BY <2>1, <2>5, EnqueueType DEF WorkerWrites, TypeOK, ServeTypeOK
    <2>6. CASE WorkerExits(w)
        <3>1. [worker[w] EXCEPT !.at = "none"] \in [at : {"none", "idle", "handle", "write"}, ctx : Msg]
            BY DEF ServeTypeOK
        <3>2. worker' = [worker EXCEPT ![w] = [worker[w] EXCEPT !.at = "none"]]
            BY <2>6 DEF WorkerExits
        <3>3. worker' \in Workers
            BY <3>1, <3>2 DEF ServeTypeOK
        <3> QED
            BY <2>6, <3>3 DEF WorkerExits, TypeOK, ServeTypeOK
    <2> QED
        BY <1>9, <2>4, <2>5, <2>6 DEF WorkerStep
<1> QED
    BY <1>1, <1>2, <1>3, <1>4, <1>5, <1>6, <1>7, <1>8, <1>9 DEF ServerReadStep

(* The steps of a connection, sorted. *)
LEMMA StepCases ==
    ASSUME [Next]_vars
    PROVE  \/ UNCHANGED vars
           \/ /\ UNCHANGED <<scenario, serveVars>>
              /\ \/ \E r \in Req : CallStep(r) \/ TimerFires(r)
                 \/ (IsClient /\ ClientReadStep) \/ AnyReadStep
                 \/ \E g \in Terminator : TerminateStep(g) \/ UserCalls(g)
                 \/ PingStep \/ WriteStep \/ Shake
                 \/ PeerStep \/ (IsClient /\ ServerPeerStep)
           \/ /\ ~IsClient /\ UNCHANGED scenario
              /\ \/ ServerReadStep \/ ServeStep \/ ClientSends \/ ClientReads
                 \/ \E w \in Worker : WorkerStep(w)
<1>1. CASE Reader
    BY <1>1 DEF Reader, OfConn, OfServe, Terminator
<1>2. CASE Pinger
    BY <1>2 DEF Pinger, OfConn, Terminator
<1>3. CASE \E r \in Req : Caller(r)
    BY <1>3 DEF Caller, OfConn
<1>4. CASE \E g \in {"user", "closer"} : OfConn(UserStep(g)) \/ OfConn(TerminateStep(g))
    BY <1>4 DEF UserStep, OfConn, Terminator
<1>5. CASE OfConn(WriteStep) \/ OfConn(Shake) \/ OfConn(PeerStep) \/ OfConn(IsClient /\ ServerPeerStep)
    BY <1>5 DEF OfConn
<1>6. CASE \/ OfServe(ServeStep) \/ OfServe(ClientSends) \/ OfServe(ClientReads)
           \/ \E w \in Worker : OfServe(WorkerStep(w))
    BY <1>6 DEF OfServe
<1> QED
    BY <1>1, <1>2, <1>3, <1>4, <1>5, <1>6 DEF Next

(* Types, with what they rest on. *)
TypeInv == TypeOK /\ ServeTypeOK /\ CallsHold /\ PutHolds

LEMMA PutStep == TypeInv /\ [Next]_vars => PutHolds'
<1> SUFFICES ASSUME TypeInv, [Next]_vars PROVE PutHolds'
    OBVIOUS
<1> USE DEF localVars, flagVars, callVars, peerVars, serveVars, connVars, workerRest, Goto
<1>0. PutHolds /\ go \in [Goroutine -> GoState] /\ "read" \in Goroutine
    BY DEF TypeInv, TypeOK, Goroutine, Terminator
<1>1. CASE UNCHANGED vars
    BY <1>0, <1>1 DEF vars, PutHolds
<1>2. CASE UNCHANGED serveVars /\ \E r \in Req : CallStep(r) \/ TimerFires(r)
    BY <1>0, <1>2 DEF PutHolds, CallStep, Start, WritePush, Acquire, Register, WriteRequest, Release,
                      Receive, TimerFires
<1>3. CASE UNCHANGED serveVars /\ (ClientReadStep \/ AnyReadStep)
    BY <1>0, <1>3 DEF PutHolds, ClientReadStep, AnyReadStep, ReadHelloAck, ReadRefused, ReadResponse,
                      AfterSend, CountRequests, ReadPing, ReadPong, ReadGoAway, ReadError
<1>4. CASE UNCHANGED serveVars /\ \E g \in Terminator : TerminateStep(g) \/ UserCalls(g)
    BY <1>0, <1>4 DEF PutHolds, TerminateStep, UserCalls, CloseCheck, CloseSet, WriteGoAway, TermCheck,
                      CloseCh, Lock, SweepEnds, AfterClose, AfterTerminate
<1>5. CASE UNCHANGED serveVars /\ (PingStep \/ WriteStep \/ Shake)
    BY <1>0, <1>5 DEF PutHolds, PingStep, WriteStep, Shake, PingStart, PingInterval, PingExit,
                      WriteTake, WriteFlush, WriteExit, ShakeSend, ShakeReturn
<1>6. CASE UNCHANGED serveVars /\ (PeerStep \/ ServerPeerStep)
    BY <1>0, <1>6 DEF PutHolds, PeerStep, ServerPeerStep, PeerPings, PeerCloses, PeerReads,
                      PeerAnswers, PeerGoesAway
<1>7. CASE ServerReadStep
    <2>1. \A m : <<m>> # <<>>
        OBVIOUS
    <2> QED
        BY <1>0, <1>7, <2>1 DEF PutHolds, ServerReadStep, ReadHello, ReadInvalid, ReadErrorFrame,
                                ReadWork, Put
<1>8. CASE ServeStep \/ ClientSends \/ ClientReads \/ \E w \in Worker : WorkerStep(w)
    BY <1>0, <1>8 DEF PutHolds, ServeStep, ServeRegister, ServeStart, ServeWaits, ServeEnds,
                      ServeUnregister, ServeGoes, ClientSends, ClientReads, WorkerStep, WorkerReturns,
                      WorkerPanics, WorkerGoes, WorkerWrites, WorkerExits
<1> QED
    BY <1>1, <1>2, <1>3, <1>4, <1>5, <1>6, <1>7, <1>8, StepCases

LEMMA TypeStep == TypeInv /\ [Next]_vars => TypeInv'
<1> SUFFICES ASSUME TypeInv, [Next]_vars PROVE TypeInv'
    OBVIOUS
<1> USE DEF TypeInv
<1>0. PutHolds'
    BY PutStep
<1>1. CASE UNCHANGED vars
    BY <1>1 DEF vars, connVars, flagVars, callVars, peerVars, serveVars, TypeOK, ServeTypeOK,
                CallsHold, PutHolds
<1>2. CASE UNCHANGED <<scenario, serveVars>> /\ \E r \in Req : CallStep(r) \/ TimerFires(r)
    BY <1>0, <1>2, CallType DEF ServeTypeOK, serveVars
<1>3. CASE UNCHANGED <<scenario, serveVars>> /\ (ClientReadStep \/ AnyReadStep)
    <2>1. UNCHANGED callVars
        BY <1>3 DEF ClientReadStep, AnyReadStep, ReadHelloAck, ReadRefused, ReadResponse,
                    AfterSend, CountRequests, ReadPing, ReadPong, ReadGoAway, ReadError
    <2> QED
        BY <1>0, <1>3, <2>1, ReadType DEF ServeTypeOK, serveVars, CallsHold, callVars
<1>4. CASE /\ UNCHANGED <<scenario, serveVars>>
           /\ \E g \in Terminator : TerminateStep(g) \/ UserCalls(g)
    <2>1. UNCHANGED callVars
        BY <1>4 DEF TerminateStep, UserCalls, CloseCheck, CloseSet, WriteGoAway, TermCheck,
                    CloseCh, Lock, SweepEnds
    <2> QED
        BY <1>0, <1>4, <2>1, TerminateType DEF ServeTypeOK, serveVars, CallsHold, callVars
<1>5. CASE UNCHANGED <<scenario, serveVars>> /\ (PingStep \/ WriteStep \/ Shake)
    <2>1. UNCHANGED callVars
        BY <1>5 DEF PingStep, WriteStep, Shake, PingStart, PingInterval, PingExit,
                    WriteTake, WriteFlush, WriteExit, ShakeSend, ShakeReturn
    <2> QED
        BY <1>0, <1>5, <2>1, LoopType DEF ServeTypeOK, serveVars, CallsHold, callVars
<1>6. CASE UNCHANGED <<scenario, serveVars>> /\ (PeerStep \/ ServerPeerStep)
    <2>1. UNCHANGED callVars
        BY <1>6 DEF PeerStep, ServerPeerStep, PeerPings, PeerCloses, PeerReads, PeerAnswers,
                    PeerGoesAway, localVars
    <2> QED
        BY <1>0, <1>6, <2>1, PeerType DEF ServeTypeOK, serveVars, CallsHold, callVars
<1>7. CASE /\ UNCHANGED scenario
           /\ \/ ServerReadStep \/ ServeStep \/ ClientSends \/ ClientReads
              \/ \E w \in Worker : WorkerStep(w)
    BY <1>0, <1>7, ServerType DEF CallsHold
<1> QED
    BY <1>1, <1>2, <1>3, <1>4, <1>5, <1>6, <1>7, StepCases

LEMMA InitType == Init => TypeInv
<1> SUFFICES ASSUME Init PROVE TypeInv
    OBVIOUS
<1>0. scenario \in Surroundings /\ 0 \in SeqId
    BY ScenarioAssumption, SizeAssumption DEF Init, ConnInit, SeqId
<1>1. TypeOK
    <2>1. <<>> \in Seq(Msg) /\ Len(<<>>) = 0 /\ <<>> \in Seq(Obj)
        OBVIOUS
    <2>2. /\ pings \in 0 .. scenario.pings
          /\ peer \in [open : SUBSET Msg, goneAway : BOOLEAN, pinged : 0 .. scenario.peerPings,
                       closed : BOOLEAN]
        BY <1>0 DEF Init, ConnInit, Surroundings
    <2>3. /\ go \in [Goroutine -> GoState] /\ todo \in [Terminator -> Seq(Obj)]
          /\ writeCh \in Seq(Msg) /\ Len(writeCh) <= WriteCap
        BY <2>1, SizeAssumption DEF Init, ConnInit, GoState
    <2>4. {localClosed, remoteClosed, terminated, readErrCh, panicked, ready} \subseteq BOOLEAN
        BY Zenon DEF Init, ConnInit
    <2>5. /\ reqs \in [SeqId -> Obj \cup {None}] /\ response \in [Obj -> Req \cup {None}]
          /\ held \in [Req -> Obj \cup {None}] /\ mySeq \in [Req -> SeqId]
          /\ result \in [Req -> [kind : {"none", "ok", "EOF", "ErrTimeout", "ErrNotReady"},
                                 of : Req \cup {None}]]
        BY <1>0 DEF Init, ConnInit
    <2> QED
        BY <1>0, <2>1, <2>2, <2>3, <2>4, <2>5 DEF Init, ConnInit, TypeOK
<1>2. CallsHold /\ PutHolds
    BY DEF Init, ConnInit, CallsHold, PutHolds, InMap, Goroutine, Terminator
<1>3. ServeTypeOK
    BY <1>0, FramesBuilt DEF Init, ServeTypeOK, Serving, Surroundings, NoContext
<1> QED
    BY <1>1, <1>2, <1>3 DEF TypeInv
-----------------------------------------------------------------------------
(* The map of the calls.                                                   *)

mapVars == <<seq, mySeq, call, held, pool, reqs, pings>>

LEMMA MapUntouched ==
    ASSUME MapInv, TypeOK', UNCHANGED mapVars
    PROVE  MapInv'
BY DEF MapInv, IdsAreFresh, HasId, ObjectsAreHeld, MapIsKept, mapVars

(* An id is left: the next one is new. *)
LEMMA IdIsLeft ==
    ASSUME IdsDoNotWrap, TypeOK, IdsAreFresh,
           \/ pings < scenario.pings
           \/ \E r \in Req : mySeq[r] = 0
    PROVE  NextSeq = seq + 1 /\ seq + 1 \in SeqId /\ seq \in Nat
<1>1. /\ HasId \subseteq Req /\ Cardinality(HasId) \in Nat /\ Cardinality(Req) \in Nat
      /\ Cardinality(HasId) <= Cardinality(Req)
      /\ Cardinality(HasId) = Cardinality(Req) => HasId = Req
    <2>1. HasId \subseteq Req
        BY DEF HasId
    <2> QED
        BY <2>1, FS_Subset, FS_CardinalityType DEF IdsDoNotWrap
<1>2. scenario.pings \in Nat /\ pings \in 0 .. scenario.pings
    BY ScenarioAssumption DEF TypeOK, Surroundings
<1>3. Cardinality(Req) + scenario.pings < SeqModulus /\ seq = Cardinality(HasId) + pings
    BY DEF TypeOK, IdsDoNotWrap, IdsAreFresh
<1>4. seq + 1 < SeqModulus
    <2>1. CASE pings < scenario.pings
        BY <1>1, <1>2, <1>3, <2>1, SizeAssumption
    <2>2. CASE \E r \in Req : mySeq[r] = 0
        <3>1. HasId # Req
            BY <2>2 DEF HasId
        <3> QED
            BY <1>1, <1>2, <1>3, <3>1, SizeAssumption
    <2> QED
        BY <2>1, <2>2
<1>5. seq \in Nat
    BY SizeAssumption DEF TypeOK, SeqId
<1> QED
    BY <1>4, <1>5, SizeAssumption DEF NextSeq, SeqId

(* acquireRequest draws an id that no call has. *)
LEMMA AcquireMap ==
    ASSUME IdsDoNotWrap, MapInv, TypeOK', NEW r \in Req, Acquire(r)
    PROVE  MapInv'
<1>1. /\ call[r] = "acquire" /\ mySeq[r] = 0 /\ held[r] = None
      /\ call \in [Req -> {"idle", "push", "acquire", "register", "write", "select", "release", "done"}]
      /\ held \in [Req -> Obj \cup {None}] /\ mySeq \in [Req -> SeqId] /\ pool \subseteq Obj
    BY DEF Acquire, MapInv, TypeOK, IdsAreFresh, ObjectsAreHeld, InMap
<1>2. NextSeq = seq + 1 /\ seq + 1 \in SeqId /\ seq \in Nat
    BY <1>1, IdIsLeft DEF MapInv
<1>3. PICK o \in pool : held' = [held EXCEPT ![r] = o] /\ pool' = pool \ {o}
    BY DEF Acquire
<1>4. /\ seq' = seq + 1 /\ mySeq' = [mySeq EXCEPT ![r] = seq + 1]
      /\ call' = [call EXCEPT ![r] = "register"] /\ UNCHANGED <<reqs, pings>>
    BY <1>2 DEF Acquire
<1>5. \A q \in Req : q # r => /\ mySeq'[q] = mySeq[q] /\ call'[q] = call[q] /\ held'[q] = held[q]
    BY <1>1, <1>3, <1>4
<1>6. mySeq'[r] = seq + 1 /\ call'[r] = "register" /\ held'[r] = o /\ o # None
    BY <1>1, <1>3, <1>4, NoneAssumption
<1>7. IdsAreFresh'
    <2>1. HasId' = HasId \cup {r} /\ r \notin HasId /\ HasId \subseteq Req
        BY <1>1, <1>2, <1>5, <1>6 DEF HasId
    <2>2. IsFiniteSet(HasId)
        BY <2>1, FS_Subset DEF IdsDoNotWrap
    <2>3. Cardinality(HasId') = Cardinality(HasId) + 1 /\ Cardinality(HasId) \in Nat
        BY <2>1, <2>2, FS_AddElement, FS_CardinalityType
    <2>4. seq = Cardinality(HasId) + pings
        BY DEF MapInv, IdsAreFresh
    <2>4a. pings \in Nat
        BY ScenarioAssumption DEF MapInv, TypeOK, Surroundings
    <2>5. seq' = Cardinality(HasId') + pings'
        BY <1>4, <2>3, <2>4, <2>4a
    <2>6. \A q \in Req : mySeq[q] <= seq /\ mySeq[q] \in Nat
        BY <1>1, SizeAssumption DEF MapInv, IdsAreFresh, SeqId
    <2>7. \A q \in Req : /\ mySeq'[q] <= seq'
                         /\ call'[q] \in {"idle", "push", "acquire"} => mySeq'[q] = 0
                         /\ held'[q] # None => mySeq'[q] # 0
        BY <1>2, <1>4, <1>5, <1>6, <2>6 DEF MapInv, IdsAreFresh
    <2>8. \A p, q \in Req : mySeq'[p] # 0 /\ mySeq'[p] = mySeq'[q] => p = q
        BY <1>2, <1>5, <1>6, <2>6 DEF MapInv, IdsAreFresh
    <2> QED
        BY <2>5, <2>7, <2>8 DEF IdsAreFresh
<1>8. ObjectsAreHeld'
    BY <1>3, <1>5, <1>6 DEF MapInv, ObjectsAreHeld, InMap
<1>9. MapIsKept'
    BY <1>1, <1>4, <1>5, <1>6 DEF MapInv, MapIsKept, InMap
<1> QED
    BY <1>7, <1>8, <1>9 DEF MapInv

(* The ping loop draws one that stays nobody's. *)
LEMMA PingStartMap ==
    ASSUME IdsDoNotWrap, MapInv, TypeOK', PingStart
    PROVE  MapInv'
<1>1. NextSeq = seq + 1 /\ seq + 1 \in SeqId /\ seq \in Nat
    BY IdIsLeft DEF MapInv, PingStart
<1>2. seq' = seq + 1 /\ pings' = pings + 1 /\ UNCHANGED <<mySeq, call, held, pool, reqs>>
    BY <1>1 DEF PingStart, callVars
<1>3. HasId' = HasId /\ HasId \subseteq Req
    BY <1>2 DEF HasId
<1>4. Cardinality(HasId) \in Nat
    BY <1>3, FS_Subset, FS_CardinalityType DEF IdsDoNotWrap
<1>5. pings \in Nat /\ \A r \in Req : mySeq[r] \in Nat
    BY ScenarioAssumption, SizeAssumption DEF MapInv, TypeOK, Surroundings, SeqId
<1>6. IdsAreFresh'
    BY <1>1, <1>2, <1>3, <1>4, <1>5 DEF MapInv, IdsAreFresh
<1> QED
    BY <1>2, <1>6 DEF MapInv, ObjectsAreHeld, MapIsKept

(* The other steps of a call. *)
LEMMA CallMap ==
    ASSUME IdsDoNotWrap, MapInv, TypeOK', NEW r \in Req, CallStep(r) \/ TimerFires(r)
    PROVE  MapInv'
<1>0. /\ call \in [Req -> {"idle", "push", "acquire", "register", "write", "select", "release", "done"}]
      /\ held \in [Req -> Obj \cup {None}] /\ mySeq \in [Req -> SeqId]
      /\ reqs \in [SeqId -> Obj \cup {None}]
    BY DEF MapInv, TypeOK
<1>1. ASSUME NEW to, UNCHANGED <<seq, mySeq, held, pool, reqs, pings>>,
             call' = [call EXCEPT ![r] = to],
             \/ call[r] = "idle" /\ to \in {"push", "acquire", "done"}
             \/ call[r] = "push" /\ to = "done"
             \/ call[r] \in InMap /\ to \in InMap
      PROVE  MapInv'
    <2>1. IdsAreFresh'
        BY <1>0, <1>1 DEF MapInv, IdsAreFresh, HasId, InMap
    <2>2. ObjectsAreHeld'
        BY <1>0, <1>1 DEF MapInv, ObjectsAreHeld, InMap
    <2>3. MapIsKept'
        BY <1>0, <1>1 DEF MapInv, MapIsKept, InMap
    <2> QED
        BY <2>1, <2>2, <2>3 DEF MapInv
<1>2. CASE Start(r)
    BY <1>1, <1>2 DEF Start
<1>3. CASE WritePush(r)
    BY <1>1, <1>3 DEF WritePush
<1>4. CASE WriteRequest(r)
    BY <1>1, <1>4 DEF WriteRequest, InMap
<1>5. CASE TimerFires(r) \/ \E g \in Terminator : Receive(r, g)
    BY <1>1, <1>5 DEF TimerFires, Receive, InMap
<1>6. CASE Register(r)
    <2>1. /\ call[r] = "register" /\ reqs' = [reqs EXCEPT ![mySeq[r]] = held[r]]
          /\ call' = [call EXCEPT ![r] = "write"] /\ UNCHANGED <<seq, mySeq, held, pool, pings>>
          /\ held[r] # None /\ mySeq[r] # 0
        BY <1>6 DEF Register, MapInv, ObjectsAreHeld, IdsAreFresh
    <2>2. \A q \in Req : q # r => mySeq[q] # mySeq[r] /\ call'[q] = call[q]
        BY <1>0, <2>1 DEF MapInv, IdsAreFresh
    <2>3. IdsAreFresh' /\ ObjectsAreHeld'
        BY <1>0, <2>1 DEF MapInv, IdsAreFresh, HasId, ObjectsAreHeld, InMap
    <2>4. \A q \in Req : call'[q] \in InMap => reqs'[mySeq[q]] = held[q]
        BY <1>0, <2>1, <2>2 DEF MapInv, MapIsKept
    <2>5. ASSUME NEW s \in SeqId, reqs'[s] # None
          PROVE  \E q \in Req : call'[q] \in InMap /\ held[q] = reqs'[s] /\ mySeq[q] = s
        <3>1. CASE s = mySeq[r]
            BY <1>0, <2>1, <3>1 DEF InMap
        <3>2. CASE s # mySeq[r]
            BY <1>0, <2>1, <2>2, <2>5, <3>2 DEF MapInv, MapIsKept
        <3> QED
            BY <3>1, <3>2
    <2> QED
        BY <2>1, <2>3, <2>4, <2>5 DEF MapInv, MapIsKept
<1>7. CASE Release(r)
    <2>1. /\ call[r] = "release" /\ reqs' = [reqs EXCEPT ![mySeq[r]] = None]
          /\ pool' = pool \cup {held[r]} /\ held' = [held EXCEPT ![r] = None]
          /\ call' = [call EXCEPT ![r] = "done"] /\ UNCHANGED <<seq, mySeq, pings>>
          /\ held[r] # None /\ mySeq[r] # 0
        BY <1>7 DEF Release, MapInv, ObjectsAreHeld, IdsAreFresh, InMap
    <2>2. \A q \in Req : q # r => /\ mySeq[q] # mySeq[r] /\ call'[q] = call[q] /\ held'[q] = held[q]
                                  /\ held[q] # held[r]
        BY <1>0, <2>1 DEF MapInv, IdsAreFresh, ObjectsAreHeld
    <2>3. held'[r] = None /\ call'[r] = "done"
        BY <1>0, <2>1
    <2>4. IdsAreFresh'
        BY <2>1, <2>2, <2>3 DEF MapInv, IdsAreFresh, HasId
    <2>5. ObjectsAreHeld'
        BY <2>1, <2>2, <2>3 DEF MapInv, ObjectsAreHeld, InMap
    <2>6. \A q \in Req : call'[q] \in InMap => reqs'[mySeq[q]] = held'[q]
        BY <1>0, <2>1, <2>2, <2>3 DEF MapInv, MapIsKept, InMap
    <2>7. ASSUME NEW s \in SeqId, reqs'[s] # None
          PROVE  \E q \in Req : call'[q] \in InMap /\ held'[q] = reqs'[s] /\ mySeq[q] = s
        BY <1>0, <2>1, <2>2, <2>3, <2>7 DEF MapInv, MapIsKept
    <2> QED
        BY <2>1, <2>4, <2>5, <2>6, <2>7 DEF MapInv, MapIsKept
<1> QED
    BY <1>2, <1>3, <1>4, <1>5, <1>6, <1>7, AcquireMap DEF CallStep

(* Only the calls and the ping loop touch the map, the objects and the ids. *)
LEMMA MapStep ==
    ASSUME IdsDoNotWrap, TypeInv, MapInv, [Next]_vars
    PROVE  MapInv'
<1> USE DEF flagVars, callVars, peerVars, connVars, localVars, workerRest, mapVars
<1>0. TypeOK'
    BY TypeStep DEF TypeInv
<1>1. CASE UNCHANGED vars
    BY <1>0, <1>1, MapUntouched DEF vars
<1>2. CASE \E r \in Req : CallStep(r) \/ TimerFires(r)
    BY <1>0, <1>2, CallMap
<1>3. CASE ClientReadStep \/ AnyReadStep
    BY <1>0, <1>3, MapUntouched
       DEF ClientReadStep, AnyReadStep, ReadHelloAck, ReadRefused, ReadResponse,
           AfterSend, CountRequests, ReadPing, ReadPong, ReadGoAway, ReadError
<1>4. CASE \E g \in Terminator : TerminateStep(g) \/ UserCalls(g)
    BY <1>0, <1>4, MapUntouched
       DEF TerminateStep, UserCalls, CloseCheck, CloseSet, WriteGoAway, TermCheck, CloseCh, Lock,
           SweepEnds
<1>5. CASE PingStep \/ WriteStep \/ Shake
    BY <1>0, <1>5, MapUntouched, PingStartMap
       DEF PingStep, WriteStep, Shake, PingInterval, PingExit, WriteTake, WriteFlush, WriteExit,
           ShakeSend, ShakeReturn
<1>6. CASE PeerStep \/ ServerPeerStep
    BY <1>0, <1>6, MapUntouched
       DEF PeerStep, ServerPeerStep, PeerPings, PeerCloses, PeerReads, PeerAnswers, PeerGoesAway
<1>7. CASE ServerReadStep
    BY <1>0, <1>7, MapUntouched
       DEF ServerReadStep, ReadHello, ReadInvalid, ReadErrorFrame, ReadWork, Put
<1>8. CASE ServeStep \/ ClientSends \/ ClientReads \/ \E w \in Worker : WorkerStep(w)
    BY <1>0, <1>8, MapUntouched
       DEF ServeStep, ServeRegister, ServeStart, ServeWaits, ServeEnds, ServeUnregister, ServeGoes,
           ClientSends, ClientReads, WorkerStep, WorkerReturns, WorkerPanics, WorkerGoes,
           WorkerWrites, WorkerExits
<1> QED
    BY <1>1, <1>2, <1>3, <1>4, <1>5, <1>6, <1>7, <1>8, StepCases

LEMMA InitMap == Init => MapInv
<1> SUFFICES ASSUME Init PROVE MapInv
    OBVIOUS
<1>1. HasId = {} /\ seq = 0 /\ pings = 0
    BY DEF HasId, Init, ConnInit
<1>2. IdsAreFresh
    BY <1>1, FS_EmptySet DEF IdsAreFresh, Init, ConnInit
<1>3. ObjectsAreHeld /\ MapIsKept
    BY DEF ObjectsAreHeld, MapIsKept, InMap, Init, ConnInit
<1> QED
    BY <1>2, <1>3, InitType DEF MapInv, TypeInv

(* The variables of both ends keep their types, whatever happens: releaseRequest *)
(* gives back an object, workerPool.put has a context to hand over.             *)
THEOREM TypesAreKept == Spec => [](TypeOK /\ ServeTypeOK)
<1>1. TypeInv => TypeOK /\ ServeTypeOK
    BY DEF TypeInv
<1> QED
    BY <1>1, InitType, TypeStep, PTL DEF Spec

(* Conn.reqs holds the objects of the calls between acquireRequest and         *)
(* releaseRequest, each under its own id, however the calls, the ping loop and *)
(* the goroutines that end the connection interleave; an object has one user.  *)
THEOREM MapIsExact == ASSUME IdsDoNotWrap PROVE Spec => []ConnInv
<1>1. TypeInv /\ MapInv => ConnInv
    BY DEF TypeInv, MapInv, ConnInv, MapMatchesCalls, MapIsKept, ObjectsAreHeld, InMap
<1>2. Init => TypeInv /\ MapInv
    BY InitType, InitMap
<1>3. TypeInv /\ MapInv /\ [Next]_vars => (TypeInv /\ MapInv)'
    BY TypeStep, MapStep
<1> QED
    BY <1>1, <1>2, <1>3, PTL DEF Spec
-----------------------------------------------------------------------------
(* Where frames of a kind are in a queue.                                  *)

(* A queue that gains a frame. *)
LEMMA HitsAppend ==
    ASSUME NEW q \in Seq(Msg), NEW m \in Msg, NEW M
    PROVE  /\ Hits(Append(q, m), M) <=> Hits(q, M) \/ m \in M
           /\ Once(q, M) /\ ~(Hits(q, M) /\ m \in M) => Once(Append(q, m), M)
<1> DEFINE a == Append(q, m)
<1>1. /\ Len(q) \in Nat /\ Len(a) = Len(q) + 1 /\ a[Len(q) + 1] = m
      /\ \A k \in 1 .. Len(q) : a[k] = q[k]
    OBVIOUS
<1> HIDE DEF a
<1>2. /\ \A k \in 1 .. Len(a) : k \in 1 .. Len(q) \/ k = Len(q) + 1
      /\ Len(q) + 1 \in 1 .. Len(a) /\ \A k \in 1 .. Len(q) : k \in 1 .. Len(a)
    BY <1>1
<1>3. Hits(a, M) <=> Hits(q, M) \/ m \in M
    BY <1>1, <1>2 DEF Hits
<1>4. ASSUME Once(q, M), ~(Hits(q, M) /\ m \in M),
             NEW j \in 1 .. Len(a), NEW k \in 1 .. Len(a), a[j] \in M, a[k] \in M
      PROVE  j = k
    <2>1. CASE j \in 1 .. Len(q) /\ k \in 1 .. Len(q)
        BY <1>1, <1>4, <2>1 DEF Once
    <2>2. CASE j = Len(q) + 1 \/ k = Len(q) + 1
        BY <1>1, <1>2, <1>4, <2>2 DEF Hits
    <2> QED
        BY <1>2, <2>1, <2>2
<1> QED
    BY <1>3, <1>4 DEF a, Once

(* A queue that loses its oldest frame. *)
LEMMA HitsTail ==
    ASSUME NEW q \in Seq(Msg), q # <<>>, NEW M
    PROVE  /\ Hits(q, M) <=> Head(q) \in M \/ Hits(Tail(q), M)
           /\ Once(q, M) => Once(Tail(q), M)
           /\ Once(q, M) /\ Head(q) \in M => ~Hits(Tail(q), M)
<1> DEFINE t == Tail(q)
<1>1. /\ Len(q) \in Nat /\ Len(q) > 0 /\ Len(t) = Len(q) - 1 /\ Head(q) = q[1]
      /\ \A k \in 1 .. Len(t) : t[k] = q[k + 1]
    OBVIOUS
<1> HIDE DEF t
<1>2. /\ \A k \in 1 .. Len(t) : k + 1 \in 1 .. Len(q) /\ k + 1 # 1
      /\ \A k \in 1 .. Len(q) : k = 1 \/ (k - 1 \in 1 .. Len(t) /\ t[k - 1] = q[k])
      /\ 1 \in 1 .. Len(q)
    BY <1>1
<1>3. Hits(q, M) <=> Head(q) \in M \/ Hits(t, M)
    BY <1>1, <1>2 DEF Hits
<1>4. ASSUME Once(q, M), NEW j \in 1 .. Len(t), NEW k \in 1 .. Len(t), t[j] \in M, t[k] \in M
      PROVE  j = k
    <2>1. j + 1 = k + 1
        BY <1>1, <1>2, <1>4 DEF Once
    <2> QED
        BY <2>1
<1>5. Once(q, M) /\ Head(q) \in M => ~Hits(t, M)
    BY <1>1, <1>2 DEF Hits, Once
<1> QED
    BY <1>3, <1>4, <1>5 DEF t, Once

(* Two queues behind each other. *)
LEMMA HitsConcat ==
    ASSUME NEW p \in Seq(Msg), NEW q \in Seq(Msg), NEW M
    PROVE  /\ Hits(p \o q, M) <=> Hits(p, M) \/ Hits(q, M)
           /\ Once(p \o q, M) => Once(p, M) /\ Once(q, M) /\ ~(Hits(p, M) /\ Hits(q, M))
           /\ Once(p, M) /\ Once(q, M) /\ ~(Hits(p, M) /\ Hits(q, M)) => Once(p \o q, M)
<1> DEFINE c == p \o q
<1>1. /\ Len(p) \in Nat /\ Len(q) \in Nat /\ Len(c) = Len(p) + Len(q)
      /\ \A k \in 1 .. Len(p) : c[k] = p[k]
      /\ \A k \in 1 .. Len(q) : c[Len(p) + k] = q[k]
    BY ConcatProperties
<1> HIDE DEF c
<1>2. /\ \A k \in 1 .. Len(p) : k \in 1 .. Len(c)
      /\ \A k \in 1 .. Len(q) : Len(p) + k \in 1 .. Len(c) /\ Len(p) + k \notin 1 .. Len(p)
      /\ \A k \in 1 .. Len(c) : \/ k \in 1 .. Len(p)
                                \/ k - Len(p) \in 1 .. Len(q) /\ c[k] = q[k - Len(p)]
    BY <1>1
<1>3. Hits(c, M) <=> Hits(p, M) \/ Hits(q, M)
    BY <1>1, <1>2 DEF Hits
<1>4. ASSUME Once(c, M) PROVE Once(p, M) /\ Once(q, M) /\ ~(Hits(p, M) /\ Hits(q, M))
    <2>1. Once(p, M)
        BY <1>1, <1>2, <1>4 DEF Once
    <2>2. ASSUME NEW j \in 1 .. Len(q), NEW k \in 1 .. Len(q), q[j] \in M, q[k] \in M PROVE j = k
        <3>1. Len(p) + j = Len(p) + k
            BY <1>1, <1>2, <1>4, <2>2 DEF Once
        <3> QED
            BY <1>1, <3>1
    <2>3. ~(Hits(p, M) /\ Hits(q, M))
        BY <1>1, <1>2, <1>4 DEF Once, Hits
    <2> QED
        BY <2>1, <2>2, <2>3 DEF Once
<1>5. ASSUME Once(p, M), Once(q, M), ~(Hits(p, M) /\ Hits(q, M)),
             NEW j \in 1 .. Len(c), NEW k \in 1 .. Len(c), c[j] \in M, c[k] \in M
      PROVE  j = k
    <2>1. CASE j \in 1 .. Len(p) /\ k \in 1 .. Len(p)
        BY <1>1, <1>5, <2>1 DEF Once
    <2>2. CASE j \notin 1 .. Len(p) /\ k \notin 1 .. Len(p)
        <3>1. j - Len(p) = k - Len(p)
            BY <1>2, <1>5, <2>2 DEF Once
        <3> QED
            BY <1>1, <3>1
    <2>3. CASE ~(j \in 1 .. Len(p) <=> k \in 1 .. Len(p))
        BY <1>1, <1>2, <1>5, <2>3 DEF Hits
    <2> QED
        BY <2>1, <2>2, <2>3
<1> QED
    BY <1>3, <1>4, <1>5 DEF c, Once

LEMMA HitsEmpty == \A M : ~Hits(<<>>, M) /\ Once(<<>>, M)
BY DEF Hits, Once

(* What the loops do to the frames on their way out. *)
LEMMA OutType ==
    ASSUME TypeOK
    PROVE  /\ Out \in Seq(Msg) /\ toPeer \o flushing \in Seq(Msg)
           /\ toPeer \in Seq(Msg) /\ flushing \in Seq(Msg) /\ writeCh \in Seq(Msg)
BY QueueTypes DEF TypeOK, Out

LEMMA OutEnqueue ==
    ASSUME TypeOK, NEW m \in Msg, Enqueue(m), UNCHANGED <<toPeer, flushing>>
    PROVE  Out' = Append(Out, m)
<1> DEFINE t == toPeer \o flushing
<1>1. Out = t \o writeCh /\ Out' = t \o Append(writeCh, m)
    BY DEF Out, Enqueue
<1>2. t \in Seq(Msg) /\ writeCh \in Seq(Msg) /\ <<m>> \in Seq(Msg)
    BY OutType
<1> HIDE DEF t
<1>3. Append(writeCh, m) = writeCh \o <<m>> /\ Append(t \o writeCh, m) = (t \o writeCh) \o <<m>>
    BY <1>2, AppendIsConcat, ConcatProperties
<1>4. (t \o writeCh) \o <<m>> = t \o (writeCh \o <<m>>)
    BY <1>2, ConcatAssociative
<1> QED
    BY <1>1, <1>3, <1>4

LEMMA OutTake == ASSUME TypeOK, WriteTake PROVE Out' = Out
<1>1. /\ toPeer \in Seq(Msg) /\ writeCh \in Seq(Msg) /\ toPeer \o writeCh \in Seq(Msg)
      /\ flushing = <<>>
    BY QueueTypes DEF TypeOK, WriteTake
<1>2. /\ toPeer \o <<>> = toPeer
      /\ (toPeer \o writeCh) \o <<>> = toPeer \o writeCh
    BY <1>1, ConcatEmptySeq
<1> QED
    BY <1>1, <1>2 DEF Out, WriteTake, peerVars

LEMMA OutFlush ==
    ASSUME TypeOK, WriteFlush
    PROVE  /\ sock = "open" /\ ~peer.closed => Out' = Out
           /\ ~(sock = "open" /\ ~peer.closed) => Out' = toPeer \o writeCh
<1>1. /\ toPeer \in Seq(Msg) /\ flushing \in Seq(Msg) /\ toPeer \o flushing \in Seq(Msg)
    BY OutType
<1>2. toPeer \o <<>> = toPeer /\ (toPeer \o flushing) \o <<>> = toPeer \o flushing
    BY <1>1, ConcatEmptySeq
<1> QED
    BY <1>1, <1>2 DEF Out, WriteFlush

LEMMA OutRead ==
    ASSUME TypeOK, toPeer # <<>>, toPeer' = Tail(toPeer), UNCHANGED <<flushing, writeCh>>
    PROVE  Out # <<>> /\ Out' = Tail(Out) /\ Head(Out) = Head(toPeer)
<1>1. \A p, q \in Seq(Msg) : p # <<>> => p \o q # <<>> /\ Tail(p \o q) = Tail(p) \o q /\ Head(p \o q) = Head(p)
    <2> SUFFICES ASSUME NEW p \in Seq(Msg), NEW q \in Seq(Msg), p # <<>>
                 PROVE  p \o q # <<>> /\ Tail(p \o q) = Tail(p) \o q /\ Head(p \o q) = Head(p)
        OBVIOUS
    <2> DEFINE c == p \o q
               d == Tail(p) \o q
    <2>1. Len(p) \in Nat /\ Len(p) > 0 /\ Len(q) \in Nat /\ Tail(p) \in Seq(Msg)
          /\ Len(Tail(p)) = Len(p) - 1
        OBVIOUS
    <2>2. /\ c \in Seq(Msg) /\ Len(c) = Len(p) + Len(q)
          /\ \A k \in 1 .. Len(p) + Len(q) : c[k] = IF k <= Len(p) THEN p[k] ELSE q[k - Len(p)]
        BY ConcatProperties
    <2>3. /\ d \in Seq(Msg) /\ Len(d) = Len(p) - 1 + Len(q)
          /\ \A k \in 1 .. Len(p) - 1 + Len(q) :
                d[k] = IF k <= Len(p) - 1 THEN Tail(p)[k] ELSE q[k - (Len(p) - 1)]
        BY <2>1, ConcatProperties
    <2>4. \A k \in 1 .. Len(p) - 1 : Tail(p)[k] = p[k + 1]
        BY <2>1, HeadTailProperties
    <2> HIDE DEF c, d
    <2>5. c # <<>> /\ Head(c) = c[1] /\ Head(p) = p[1]
        BY <2>1, <2>2
    <2>6. Tail(c) \in Seq(Msg) /\ Len(Tail(c)) = Len(d) /\ \A k \in 1 .. Len(d) : Tail(c)[k] = c[k + 1]
        BY <2>1, <2>2, <2>3, <2>5, HeadTailProperties
    <2>7. ASSUME NEW k \in 1 .. Len(d) PROVE Tail(c)[k] = d[k]
        <3>1. Tail(c)[k] = c[k + 1] /\ k + 1 \in 1 .. Len(p) + Len(q)
            BY <2>1, <2>3, <2>6
        <3>2. CASE k <= Len(p) - 1
            <4>1. c[k + 1] = p[k + 1] /\ d[k] = Tail(p)[k] /\ Tail(p)[k] = p[k + 1]
                BY <2>1, <2>2, <2>3, <2>4, <3>1, <3>2
            <4> QED
                BY <3>1, <4>1
        <3>3. CASE ~(k <= Len(p) - 1)
            <4>1. c[k + 1] = q[k + 1 - Len(p)] /\ d[k] = q[k - (Len(p) - 1)]
                BY <2>1, <2>2, <2>3, <3>1, <3>3
            <4>2. k + 1 - Len(p) = k - (Len(p) - 1)
                BY <2>1
            <4> QED
                BY <3>1, <4>1, <4>2
        <3> QED
            BY <3>2, <3>3
    <2>8. Tail(c) = d
        BY <2>3, <2>6, <2>7, SeqEqual
    <2> QED
        BY <2>1, <2>2, <2>5, <2>8 DEF c, d
<1>2. /\ toPeer \in Seq(Msg) /\ flushing \in Seq(Msg) /\ writeCh \in Seq(Msg)
      /\ toPeer \o flushing \in Seq(Msg)
    BY OutType
<1>3. /\ toPeer \o flushing # <<>> /\ Tail(toPeer \o flushing) = Tail(toPeer) \o flushing
      /\ Head(toPeer \o flushing) = Head(toPeer)
    BY <1>1, <1>2
<1>4. /\ Out # <<>> /\ Tail(Out) = Tail(toPeer \o flushing) \o writeCh
      /\ Head(Out) = Head(toPeer \o flushing)
    BY <1>1, <1>2, <1>3 DEF Out
<1> QED
    BY <1>3, <1>4 DEF Out
-----------------------------------------------------------------------------
(* Patient calls.                                                          *)

(* p holds no more frames of a kind than q. *)
Fewer(p, q, M) == (Hits(p, M) => Hits(q, M)) /\ (Once(q, M) => Once(p, M))

LEMMA FewerFacts ==
    ASSUME NEW q \in Seq(Msg), NEW M
    PROVE  /\ Fewer(q, q, M)
           /\ q # <<>> => Fewer(Tail(q), q, M)
           /\ \A m \in Msg : m \notin M => Fewer(Append(q, m), q, M)
BY HitsTail, HitsAppend DEF Fewer

(* The frames of a step are of the kinds they look like. *)
LEMMA Kinds ==
    ASSUME NEW m \in Msg
    PROVE  /\ m \in Hellos <=> m.op = "Hello"
           /\ m \in Acks <=> m.op = "HelloAck"
           /\ m \in Disturbing <=> m.op \notin {"HelloAck", "Response", "Ping", "Pong"}
           /\ \A op : m \in Nobodys(op) <=> m.op = op /\ m.of \notin Req
           /\ \A r : m \in Asks(r) <=> m.op = "Request" /\ m.of = r
           /\ \A r : m \in Answers(r) <=> m.op = "Response" /\ m.of = r
           /\ \A op, r, s : m \in Stray(op, r, s) <=> m.op = op /\ m.of = r /\ m.seq # s
BY DEF Hellos, Acks, Disturbing, Nobodys, Asks, Answers, Stray

(* A kind that is not there at all has no stray frame there. *)
LEMMA NoStray ==
    ASSUME NEW q \in Seq(Msg), NEW r, NEW s
    PROVE  /\ ~Hits(q, Asks(r)) => ~Hits(q, Stray("Request", r, s))
           /\ ~Hits(q, Answers(r)) => ~Hits(q, Stray("Response", r, s))
BY DEF Hits, Asks, Answers, Stray

(* The call r is left alone by a step. *)
LeftAlone(r) ==
    /\ Fewer(Out', Out, Asks(r)) /\ Fewer(fromPeer', fromPeer, Answers(r))
    /\ Fewer(Out', Out, Stray("Request", r, mySeq[r]))
    /\ Fewer(fromPeer', fromPeer, Stray("Response", r, mySeq[r]))
    /\ \A m \in Msg : m.of = r /\ m \in peer'.open => m \in peer.open
    /\ mySeq'[r] = mySeq[r] /\ held'[r] = held[r]
    /\ Completing(r)' => Completing(r) /\ response'[held[r]] = response[held[r]]
    /\ call[r] = "select" => call'[r] = "select"

LEMMA AskKept ==
    ASSUME NEW r \in Req, OneAsk(r), LeftAlone(r), peer'.open \subseteq Msg
    PROVE  OneAsk(r)'
<1>1. Open(r)' => Open(r)
    BY DEF Open, LeftAlone
<1>2. \A m \in peer'.open : m.of = r => m.op = "Request" /\ m.seq = mySeq'[r]
    BY DEF LeftAlone, OneAsk
<1>3. ~Hits(Out', Stray("Request", r, mySeq'[r])) /\ ~Hits(fromPeer', Stray("Response", r, mySeq'[r]))
    BY DEF LeftAlone, Fewer, OneAsk
<1>4. Completing(r)' => response'[held'[r]] = r /\ Completing(r)
    BY DEF LeftAlone, OneAsk
<1>5. /\ Once(Out', Asks(r)) /\ Once(fromPeer', Answers(r))
      /\ Hits(Out', Asks(r)) => Hits(Out, Asks(r))
      /\ Hits(fromPeer', Answers(r)) => Hits(fromPeer, Answers(r))
    BY DEF LeftAlone, Fewer, OneAsk
<1>6. call[r] = "select" => call'[r] = "select"
    BY DEF LeftAlone
<1> QED
    BY <1>1, <1>2, <1>3, <1>4, <1>5, <1>6 DEF OneAsk

(* A step that neither brings nor takes a Hello, a request or an answer. *)
NoneOf(p, q, ops) == \A M \in SUBSET {m \in Msg : m.op \notin ops} : Fewer(p, q, M)

LEMMA NoneOfFacts ==
    ASSUME NEW q \in Seq(Msg), NEW ops
    PROVE  /\ NoneOf(q, q, ops)
           /\ q # <<>> => NoneOf(Tail(q), q, ops)
           /\ \A m \in Msg : m.op \in ops => NoneOf(Append(q, m), q, ops)
<1> SUFFICES ASSUME NEW M \in SUBSET {m \in Msg : m.op \notin ops}
             PROVE  /\ Fewer(q, q, M)
                    /\ q # <<>> => Fewer(Tail(q), q, M)
                    /\ \A m \in Msg : m.op \in ops => Fewer(Append(q, m), q, M)
    BY DEF NoneOf
<1>1. \A m \in Msg : m.op \in ops => m \notin M
    OBVIOUS
<1> QED
    BY <1>1, FewerFacts

OutOther == {"HelloAck", "BadAck", "Response", "Error", "Push", "Ping", "Pong", "GoAway"}
InOther == {"Ping", "Pong"}

LEMMA QuietKinds ==
    /\ NoneOf(Out', Out, OutOther) =>
         /\ Fewer(Out', Out, Hellos) /\ Fewer(Out', Out, Nobodys("Request"))
         /\ \A r, s : Fewer(Out', Out, Asks(r)) /\ Fewer(Out', Out, Stray("Request", r, s))
    /\ NoneOf(fromPeer', fromPeer, InOther) =>
         /\ Fewer(fromPeer', fromPeer, Acks) /\ Fewer(fromPeer', fromPeer, Nobodys("Response"))
         /\ Fewer(fromPeer', fromPeer, Disturbing)
         /\ \A r, s : /\ Fewer(fromPeer', fromPeer, Answers(r))
                      /\ Fewer(fromPeer', fromPeer, Stray("Response", r, s))
<1>1. \A r, s : /\ Hellos \in SUBSET {m \in Msg : m.op \notin OutOther}
                /\ Nobodys("Request") \in SUBSET {m \in Msg : m.op \notin OutOther}
                /\ Asks(r) \in SUBSET {m \in Msg : m.op \notin OutOther}
                /\ Stray("Request", r, s) \in SUBSET {m \in Msg : m.op \notin OutOther}
    BY DEF OutOther, Hellos, Nobodys, Asks, Stray
<1>2. \A r, s : /\ Acks \in SUBSET {m \in Msg : m.op \notin InOther}
                /\ Nobodys("Response") \in SUBSET {m \in Msg : m.op \notin InOther}
                /\ Disturbing \in SUBSET {m \in Msg : m.op \notin InOther}
                /\ Answers(r) \in SUBSET {m \in Msg : m.op \notin InOther}
                /\ Stray("Response", r, s) \in SUBSET {m \in Msg : m.op \notin InOther}
    BY DEF InOther, Acks, Nobodys, Disturbing, Answers, Stray
<1> QED
    BY <1>1, <1>2 DEF NoneOf

Calm == Undisturbed /\ OneHello /\ AsksAreOwn

Quietly ==
    /\ peer'.open = peer.open /\ peer'.closed = peer.closed
    /\ mySeq' = mySeq /\ held' = held /\ response' = response /\ todo' = todo /\ sock' = sock
    /\ terminateCh' = terminateCh /\ (remoteClosed' <=> remoteClosed) /\ (ready' <=> ready)
    /\ go'["read"] = go["read"] \/ (go["read"] = "afterSend" /\ go'["read"] = "run")
    /\ go'["ping"] \in {"run", "interval"}
    /\ go'["user"] = go["user"] /\ go'["closer"] = go["closer"]
    /\ shake' = "start" => shake = "start"
    /\ \A r \in Req : call[r] = "select" => call'[r] = "select"
    /\ \A r \in Req : result'[r].kind = "ok" => result'[r] = result[r]

LEMMA QuietStep ==
    ASSUME Calm, TypeOK', NoneOf(Out', Out, OutOther), NoneOf(fromPeer', fromPeer, InOther), Quietly
    PROVE  Calm'
<1> USE DEF Quietly
<1>1. /\ go'["read"] = "complete" <=> go["read"] = "complete"
      /\ go["read"] \in {"run", "complete", "afterSend"} => go'["read"] \in {"run", "complete", "afterSend"}
    OBVIOUS
<1>2. \A r : Completing(r)' <=> Completing(r)
    BY <1>1 DEF Completing
<1>3. peer'.open \subseteq Msg
    BY DEF TypeOK
<1>4. Undisturbed'
    <2>1. ~Hits(fromPeer', Disturbing)
        BY QuietKinds DEF Fewer, Calm, Undisturbed
    <2>2. \A g \in Terminator : todo'[g] # <<>> => g = "read" /\ go'[g] = "complete"
        BY <1>1 DEF Calm, Undisturbed
    <2>3. /\ sock' = "open" /\ ~peer'.closed /\ terminateCh' = "open" /\ ~remoteClosed'
          /\ go'["read"] \in {"run", "complete", "afterSend"}
          /\ go'["user"] = "run" /\ go'["closer"] = "run"
        BY <1>1 DEF Calm, Undisturbed
    <2>4. go'["read"] = "complete" => \E r \in Req : Completing(r)'
        BY <1>1, <1>2 DEF Calm, Undisturbed
    <2> QED
        BY <2>1, <2>2, <2>3, <2>4 DEF Undisturbed
<1>5. OneHello'
    <2>1. /\ Hits(Out', Hellos) => Hits(Out, Hellos)
          /\ Hits(fromPeer', Acks) => Hits(fromPeer, Acks)
          /\ Once(Out', Hellos) /\ Once(fromPeer', Acks)
        BY QuietKinds DEF Fewer, Calm, OneHello
    <2> QED
        BY <2>1 DEF Calm, OneHello
<1>6. \A r \in Req : OneAsk(r)'
    <2> SUFFICES ASSUME NEW r \in Req PROVE OneAsk(r)'
        OBVIOUS
    <2>1. LeftAlone(r)
        BY <1>2, QuietKinds DEF LeftAlone
    <2>2. OneAsk(r)
        BY DEF Calm, AsksAreOwn
    <2> QED
        BY <1>3, <2>1, <2>2, AskKept
<1>7. /\ ~Hits(Out', Nobodys("Request")) /\ ~Hits(fromPeer', Nobodys("Response"))
      /\ \A m \in peer'.open : m.of \in Req
    BY QuietKinds DEF Fewer, Calm, AsksAreOwn
<1>8. AnswerIsOwn'
    BY DEF Calm, AsksAreOwn, AnswerIsOwn
<1> QED
    BY <1>4, <1>5, <1>6, <1>7, <1>8 DEF Calm, AsksAreOwn

(* The steps of the loops, of Handshake and of the other end's pings. *)
LEMMA LoopCalm ==
    ASSUME Patient, Calm, TypeOK, TypeOK', PingStep \/ WriteStep \/ ShakeReturn \/ PeerStep
    PROVE  Calm'
<1> USE DEF flagVars, callVars, peerVars, localVars
<1>0. /\ fromPeer \in Seq(Msg) /\ Out \in Seq(Msg) /\ go \in [Goroutine -> GoState]
      /\ {"read", "ping", "write", "user", "closer"} \subseteq Goroutine
    BY OutType DEF TypeOK, Goroutine, Terminator
<1>1. CASE PingStart
    <2>1. Out' = Append(Out, Frame("Ping", NextSeq, None)) /\ Frame("Ping", NextSeq, None) \in Msg
        BY <1>1, OutEnqueue, FramesBuilt, NextSeqType DEF PingStart, TypeOK
    <2>2. NoneOf(Out', Out, OutOther)
        BY <1>0, <2>1, NoneOfFacts DEF Frame, OutOther
    <2>3. NoneOf(fromPeer', fromPeer, InOther)
        BY <1>0, <1>1, NoneOfFacts DEF PingStart
    <2>4. Quietly
        BY <1>0, <1>1 DEF Quietly, PingStart, Goto
    <2> QED
        BY <2>2, <2>3, <2>4, QuietStep
<1>2. CASE PingInterval
    <2>1. Out' = Out /\ fromPeer' = fromPeer
        BY <1>2 DEF PingInterval, Out
    <2>2. NoneOf(Out', Out, OutOther) /\ NoneOf(fromPeer', fromPeer, InOther)
        BY <1>0, <2>1, NoneOfFacts
    <2>3. go' = [go EXCEPT !["ping"] = "run"]
        BY <1>2 DEF PingInterval, Goto, Patient
    <2>4. Quietly
        BY <1>0, <1>2, <2>3 DEF Quietly, PingInterval
    <2> QED
        BY <2>2, <2>4, QuietStep
<1>3. CASE PingExit \/ WriteExit
    BY <1>3 DEF PingExit, WriteExit, Calm, Undisturbed
<1>4. CASE WriteTake \/ WriteFlush
    <2>1. Out' = Out /\ fromPeer' = fromPeer
        BY <1>4, OutTake, OutFlush DEF WriteTake, WriteFlush, Calm, Undisturbed
    <2>2. NoneOf(Out', Out, OutOther) /\ NoneOf(fromPeer', fromPeer, InOther)
        BY <1>0, <2>1, NoneOfFacts
    <2>3. Quietly
        BY <1>4 DEF Quietly, WriteTake, WriteFlush, Calm, Undisturbed
    <2> QED
        BY <2>2, <2>3, QuietStep
<1>5. CASE ShakeReturn
    <2>1. Out' = Out /\ fromPeer' = fromPeer
        BY <1>5 DEF ShakeReturn, Out
    <2>2. NoneOf(Out', Out, OutOther) /\ NoneOf(fromPeer', fromPeer, InOther)
        BY <1>0, <2>1, NoneOfFacts
    <2>3. Quietly
        BY <1>5 DEF Quietly, ShakeReturn, Calm, Undisturbed
    <2> QED
        BY <2>2, <2>3, QuietStep
<1>6. CASE PeerPings
    <2>0. Frame("Ping", 1, None) \in Msg
        BY FramesBuilt, SizeAssumption DEF SeqId
    <2>1. Out' = Out /\ fromPeer' = Append(fromPeer, Frame("Ping", 1, None))
        BY <1>6 DEF PeerPings, Out
    <2>2. NoneOf(Out', Out, OutOther)
        BY <1>0, <2>1, NoneOfFacts
    <2>3. NoneOf(fromPeer', fromPeer, InOther)
        BY <1>0, <2>0, <2>1, NoneOfFacts DEF Frame, InOther
    <2>4. Quietly
        BY <1>6 DEF Quietly, PeerPings, Calm, Undisturbed, TypeOK
    <2> QED
        BY <2>2, <2>3, <2>4, QuietStep
<1>7. CASE PeerCloses
    BY <1>7 DEF PeerCloses, Patient
<1> QED
    BY <1>1, <1>2, <1>3, <1>4, <1>5, <1>6, <1>7 DEF PingStep, WriteStep, PeerStep

(* A call whose places are all empty is in order, whatever its id. *)
Nowhere(r) == ~Hits(Out, Asks(r)) /\ ~Open(r) /\ ~Hits(fromPeer, Answers(r)) /\ ~Completing(r)

NowhereIsSafe == \A r \in Req : TypeOK /\ Nowhere(r) => OneAsk(r)

LEMMA NowhereIsOne == NowhereIsSafe /\ NowhereIsSafe'
<1>1. NowhereIsSafe
    <2> SUFFICES ASSUME NEW r \in Req, TypeOK, Nowhere(r) PROVE OneAsk(r)
        BY DEF NowhereIsSafe
    <2>1. Out \in Seq(Msg) /\ fromPeer \in Seq(Msg)
        BY OutType DEF TypeOK
    <2>2. Once(Out, Asks(r)) /\ Once(fromPeer, Answers(r))
        BY DEF Nowhere, Hits, Once
    <2>3. /\ ~Hits(Out, Stray("Request", r, mySeq[r]))
          /\ ~Hits(fromPeer, Stray("Response", r, mySeq[r]))
        BY <2>1, NoStray DEF Nowhere
    <2>4. \A m \in peer.open : m.of # r
        BY DEF Nowhere, Open
    <2> QED
        BY <2>2, <2>3, <2>4 DEF OneAsk, Nowhere
<1> QED
    BY <1>1, PTL

(* An object that is held has one holder, and the read loop completes the     *)
(* call of that one only.                                                    *)
LEMMA CompletesOne ==
    ASSUME MapInv, Calm, NEW r \in Req
    PROVE  /\ Completing(r) => call[r] = "select" /\ held[r] # None
           /\ \A q \in Req : Completing(r) /\ Completing(q) => q = r
<1>1. \A q \in Req : Completing(q) => call[q] = "select" /\ held[q] # None
    BY DEF Calm, AsksAreOwn, OneAsk, MapInv, ObjectsAreHeld, InMap
<1>2. ASSUME NEW q \in Req, Completing(r), Completing(q) PROVE q = r
    <2>1. held[q] = held[r]
        BY <1>2 DEF Completing
    <2> QED
        BY <1>1, <1>2, <2>1 DEF MapInv, ObjectsAreHeld
<1> QED
    BY <1>1, <1>2

(* The steps of a call that are quiet. *)
LEMMA QuietCall ==
    ASSUME Patient, Calm, TypeOK, TypeOK', NEW r \in Req, Start(r) \/ WritePush(r) \/ Register(r)
    PROVE  Calm'
<1> USE DEF flagVars, callVars, peerVars
<1>0. /\ fromPeer \in Seq(Msg) /\ Out \in Seq(Msg) /\ fromPeer' = fromPeer
      /\ call \in [Req -> {"idle", "push", "acquire", "register", "write", "select", "release", "done"}]
      /\ result \in [Req -> [kind : {"none", "ok", "EOF", "ErrTimeout", "ErrNotReady"},
                             of : Req \cup {None}]]
    BY OutType DEF TypeOK, Start, WritePush, Register
<1>1. NoneOf(fromPeer', fromPeer, InOther)
    BY <1>0, NoneOfFacts
<1>2. NoneOf(Out', Out, OutOther)
    <2>1. CASE WritePush(r)
        <3>1. Frame("Push", 0, r) \in Msg
            BY FramesBuilt, SizeAssumption DEF SeqId
        <3>2. Out' = Append(Out, Frame("Push", 0, r))
            BY <2>1, <3>1, OutEnqueue DEF WritePush
        <3> QED
            BY <1>0, <3>1, <3>2, NoneOfFacts DEF Frame, OutOther
    <2>2. CASE ~WritePush(r)
        <3>1. Out' = Out
            BY <2>2 DEF Start, Register, Out
        <3> QED
            BY <1>0, <3>1, NoneOfFacts
    <2> QED
        BY <2>1, <2>2
<1>3. Quietly
    <2>1. /\ \A q \in Req : call[q] = "select" => call'[q] = "select"
          /\ \A q \in Req : result'[q].kind = "ok" => result'[q] = result[q]
        BY <1>0 DEF Start, WritePush, Register, Outcome
    <2> QED
        BY <2>1 DEF Quietly, Start, WritePush, Register, Calm, Undisturbed
<1> QED
    BY <1>1, <1>2, <1>3, QuietStep

(* The steps that concern the object of a call. *)
LEMMA ObjectCall ==
    ASSUME Patient, MapInv, Calm, TypeOK', NEW r \in Req, Acquire(r) \/ Release(r)
    PROVE  Calm'
<1> USE DEF flagVars, callVars, peerVars
<1>0. /\ fromPeer' = fromPeer /\ Out' = Out /\ Out \in Seq(Msg) /\ fromPeer \in Seq(Msg)
      /\ UNCHANGED <<peer, todo, go, response, result, sock, terminateCh, remoteClosed, ready, shake>>
      /\ call \in [Req -> {"idle", "push", "acquire", "register", "write", "select", "release", "done"}]
      /\ held \in [Req -> Obj \cup {None}] /\ mySeq \in [Req -> SeqId]
      /\ peer.open \subseteq Msg
    BY OutType DEF MapInv, TypeOK, Acquire, Release, Out
<1>1. call[r] # "select" /\ call'[r] # "select"
    BY <1>0 DEF Acquire, Release
<1>2. \A q \in Req : q # r => held'[q] = held[q] /\ mySeq'[q] = mySeq[q] /\ call'[q] = call[q]
    BY <1>0 DEF Acquire, Release
<1>3. ~Completing(r)'
    <2> SUFFICES ASSUME Completing(r)' PROVE FALSE
        OBVIOUS
    <2>1. go["read"] = "complete" /\ todo["read"] = <<held'[r]>>
        BY <1>0 DEF Completing
    <2>2. PICK q \in Req : Completing(q)
        BY <2>1 DEF Calm, Undisturbed
    <2>3. held'[r] = held[q] /\ call[q] = "select" /\ held[q] # None
        BY <2>1, <2>2, CompletesOne DEF Completing
    <2>4. held'[r] \in pool \/ held'[r] = None
        BY <1>0 DEF Acquire, Release
    <2> QED
        BY <2>3, <2>4 DEF MapInv, ObjectsAreHeld
<1>4. Nowhere(r)'
    <2>1. Nowhere(r)
        BY <1>1 DEF Calm, AsksAreOwn, OneAsk, Nowhere
    <2> QED
        BY <1>0, <1>3, <2>1 DEF Nowhere, Open
<1>5. \A q \in Req : OneAsk(q)'
    <2> SUFFICES ASSUME NEW q \in Req, q # r PROVE OneAsk(q)'
        BY <1>4, NowhereIsOne DEF NowhereIsSafe
    <2>1. Completing(q)' <=> Completing(q)
        BY <1>0, <1>2 DEF Completing
    <2>2. LeftAlone(q)
        BY <1>0, <1>2, <2>1, FewerFacts DEF LeftAlone
    <2> QED
        BY <1>0, <2>2, AskKept DEF Calm, AsksAreOwn
<1>6. go["read"] = "complete" => \E q \in Req : Completing(q)'
    <2> SUFFICES ASSUME go["read"] = "complete" PROVE \E q \in Req : Completing(q)'
        OBVIOUS
    <2>1. PICK q \in Req : Completing(q)
        BY DEF Calm, Undisturbed
    <2>2. q # r
        BY <1>1, <2>1, CompletesOne
    <2> QED
        BY <1>0, <1>2, <2>1, <2>2 DEF Completing
<1>7. Undisturbed' /\ OneHello'
    BY <1>0, <1>6 DEF Calm, Undisturbed, OneHello
<1> QED
    BY <1>0, <1>5, <1>7 DEF Calm, AsksAreOwn, AnswerIsOwn

(* The request goes out. *)
LEMMA WriteRequestCalm ==
    ASSUME Patient, MapInv, Calm, TypeOK', NEW r \in Req, WriteRequest(r)
    PROVE  Calm'
<1> USE DEF flagVars, callVars, peerVars
<1> DEFINE f == Frame("Request", mySeq[r], r)
<1>0. /\ UNCHANGED <<fromPeer, peer, todo, go, response, result, sock, terminateCh, remoteClosed, ready,
                     shake, mySeq, held>>
      /\ call[r] = "write" /\ call' = [call EXCEPT ![r] = "select"]
      /\ call \in [Req -> {"idle", "push", "acquire", "register", "write", "select", "release", "done"}]
      /\ Out \in Seq(Msg) /\ fromPeer \in Seq(Msg) /\ peer.open \subseteq Msg
    BY OutType DEF MapInv, TypeOK, WriteRequest
<1>1. /\ f \in Msg /\ f.op = "Request" /\ f.seq = mySeq[r] /\ f.of = r
      /\ Out' = Append(Out, f)
    BY OutEnqueue, FramesBuilt DEF MapInv, TypeOK, WriteRequest, Frame
<1> HIDE DEF f
<1>2. /\ f \notin Hellos /\ f \notin Nobodys("Request") /\ f \notin Stray("Request", r, mySeq[r])
      /\ f \in Asks(r) /\ \A q : q # r => f \notin Asks(q) /\ f \notin Stray("Request", q, mySeq[q])
    BY <1>1, Kinds
<1>3. \A q : Completing(q)' <=> Completing(q)
    BY <1>0 DEF Completing
<1>4. OneAsk(r)'
    <2>1. Nowhere(r) /\ OneAsk(r)
        BY <1>0 DEF Calm, AsksAreOwn, OneAsk, Nowhere
    <2>2. Hits(Out', Asks(r)) /\ Once(Out', Asks(r)) /\ ~Hits(Out', Stray("Request", r, mySeq'[r]))
        BY <1>0, <1>1, <1>2, <2>1, HitsAppend DEF Nowhere, OneAsk
    <2>3. ~Open(r)' /\ ~Completing(r)' /\ ~Hits(fromPeer', Answers(r)) /\ call'[r] = "select"
        BY <1>0, <1>3, <2>1 DEF Nowhere, Open
    <2> QED
        BY <1>0, <2>1, <2>2, <2>3 DEF OneAsk
<1>5. \A q \in Req : OneAsk(q)'
    <2> SUFFICES ASSUME NEW q \in Req, q # r PROVE OneAsk(q)'
        BY <1>4
    <2>1. Fewer(Out', Out, Asks(q)) /\ Fewer(Out', Out, Stray("Request", q, mySeq[q]))
        BY <1>0, <1>1, <1>2, FewerFacts
    <2>2. Fewer(fromPeer', fromPeer, Answers(q)) /\ Fewer(fromPeer', fromPeer, Stray("Response", q, mySeq[q]))
        BY <1>0, FewerFacts
    <2>3. LeftAlone(q)
        BY <1>0, <1>3, <2>1, <2>2 DEF LeftAlone
    <2> QED
        BY <1>0, <2>3, AskKept DEF Calm, AsksAreOwn
<1>6. Fewer(Out', Out, Hellos) /\ Fewer(Out', Out, Nobodys("Request"))
    BY <1>0, <1>1, <1>2, FewerFacts
<1>7. Undisturbed'
    BY <1>0, <1>3 DEF Calm, Undisturbed
<1>8. OneHello'
    BY <1>0, <1>6 DEF Calm, OneHello, Fewer
<1> QED
    BY <1>0, <1>5, <1>6, <1>7, <1>8 DEF Calm, AsksAreOwn, AnswerIsOwn, Fewer

(* The answer that the read loop holds meets the call. *)
LEMMA ReceiveCalm ==
    ASSUME Patient, MapInv, Calm, TypeOK', NEW r \in Req, NEW g \in Terminator, Receive(r, g)
    PROVE  Calm'
<1> USE DEF flagVars, callVars, peerVars
<1>0. /\ UNCHANGED <<fromPeer, peer, response, sock, terminateCh, remoteClosed, ready, shake, mySeq, held>>
      /\ call[r] = "select" /\ call' = [call EXCEPT ![r] = "release"]
      /\ call \in [Req -> {"idle", "push", "acquire", "register", "write", "select", "release", "done"}]
      /\ todo \in [Terminator -> Seq(Obj)] /\ go \in [Goroutine -> GoState]
      /\ result \in [Req -> [kind : {"none", "ok", "EOF", "ErrTimeout", "ErrNotReady"},
                             of : Req \cup {None}]]
      /\ Out' = Out /\ Out \in Seq(Msg) /\ fromPeer \in Seq(Msg) /\ peer.open \subseteq Msg
      /\ {"read", "ping", "user", "closer"} \subseteq Goroutine /\ Terminator \subseteq Goroutine
    BY OutType DEF MapInv, TypeOK, Receive, Out, Goroutine, Terminator
<1>1. g = "read" /\ go["read"] = "complete"
    BY DEF Receive, Calm, Undisturbed
<1>2. Completing(r)
    <2>1. PICK q \in Req : Completing(q)
        BY <1>1 DEF Calm, Undisturbed
    <2>2. held[q] = held[r]
        BY <1>1, <2>1 DEF Completing, Receive
    <2>3. held[r] # None
        BY <1>0 DEF MapInv, ObjectsAreHeld, InMap
    <2>4. q = r
        BY <2>2, <2>3 DEF MapInv, ObjectsAreHeld
    <2> QED
        BY <2>1, <2>4
<1>3. OneAsk(r)
    BY DEF Calm, AsksAreOwn
<1>4. /\ result' = [result EXCEPT ![r] = Outcome("ok", r)]
      /\ go' = [go EXCEPT !["read"] = "afterSend"]
      /\ todo' = [todo EXCEPT !["read"] = <<>>]
    <2>1. response[held[r]] = r
        BY <1>2, <1>3 DEF OneAsk
    <2>2. Tail(todo["read"]) = <<>>
        BY <1>2 DEF Completing
    <2> QED
        BY <1>1, <2>1, <2>2 DEF Receive, Goto
<1>5. \A q : ~Completing(q)'
    BY <1>0, <1>4 DEF Completing
<1>6. Nowhere(r)'
    BY <1>0, <1>2, <1>3, <1>5 DEF OneAsk, Nowhere, Open
<1>7. \A q \in Req : OneAsk(q)'
    <2> SUFFICES ASSUME NEW q \in Req, q # r PROVE OneAsk(q)'
        BY <1>6, NowhereIsOne DEF NowhereIsSafe
    <2>1. LeftAlone(q)
        BY <1>0, <1>5, FewerFacts DEF LeftAlone
    <2> QED
        BY <1>0, <2>1, AskKept DEF Calm, AsksAreOwn
<1>8. Undisturbed'
    <2>1. /\ go'["read"] = "afterSend" /\ go'["ping"] = go["ping"]
          /\ go'["user"] = go["user"] /\ go'["closer"] = go["closer"]
        BY <1>0, <1>4
    <2>2. \A h \in Terminator : todo'[h] = <<>>
        BY <1>0, <1>4 DEF Calm, Undisturbed
    <2> QED
        BY <1>0, <2>1, <2>2 DEF Calm, Undisturbed
<1>9. OneHello'
    BY <1>0 DEF Calm, OneHello
<1>10. AnswerIsOwn'
    BY <1>0, <1>4 DEF Calm, AsksAreOwn, AnswerIsOwn, Outcome
<1> QED
    BY <1>0, <1>7, <1>8, <1>9, <1>10 DEF Calm, AsksAreOwn

(* Every step of a call, when no timer runs. *)
LEMMA CallCalm ==
    ASSUME Patient, MapInv, Calm, TypeOK', NEW r \in Req, CallStep(r) \/ TimerFires(r)
    PROVE  Calm'
<1>1. TypeOK /\ ~TimerFires(r)
    BY DEF MapInv, Patient, TimerFires
<1> QED
    BY <1>1, QuietCall, ObjectCall, WriteRequestCalm, ReceiveCalm DEF CallStep

(* An answer comes to its call: the map has the call's object under the id. *)
LEMMA ReadResponseCalm ==
    ASSUME Patient, MapInv, Calm, TypeOK', ReadResponse
    PROVE  Calm'
<1> USE DEF flagVars, callVars, peerVars
<1> DEFINE m == Head(fromPeer)
<1>0. /\ UNCHANGED <<peer, sock, terminateCh, remoteClosed, ready, shake, mySeq, held, call, result>>
      /\ go["read"] = "run" /\ fromPeer # <<>> /\ m.op = "Response" /\ fromPeer' = Tail(fromPeer)
      /\ todo \in [Terminator -> Seq(Obj)] /\ go \in [Goroutine -> GoState]
      /\ response \in [Obj -> Req \cup {None}] /\ held \in [Req -> Obj \cup {None}]
      /\ Out' = Out /\ Out \in Seq(Msg) /\ fromPeer \in Seq(Msg) /\ peer.open \subseteq Msg
      /\ {"read", "ping", "user", "closer"} \subseteq Goroutine /\ Terminator \subseteq Goroutine
      /\ "read" \in Terminator
    BY OutType DEF MapInv, TypeOK, ReadResponse, TakeFrame, Out, Goroutine, Terminator
<1>1. m \in Msg
    BY <1>0, QueueTypes
<1>2. PICK r \in Req : r = m.of
    <2>1. m \notin Nobodys("Response")
        BY <1>0, HitsTail DEF Calm, AsksAreOwn
    <2> QED
        BY <1>0, <1>1, <2>1, Kinds
<1>3. OneAsk(r)
    BY <1>2 DEF Calm, AsksAreOwn
<1>4. m \in Answers(r) /\ Hits(fromPeer, Answers(r)) /\ ~Hits(Tail(fromPeer), Answers(r))
    <2>1. m \in Answers(r)
        BY <1>0, <1>1, <1>2, Kinds
    <2> QED
        BY <1>0, <1>3, <2>1, HitsTail DEF OneAsk
<1>5. call[r] = "select" /\ m.seq = mySeq[r]
    <2>1. m \notin Stray("Response", r, mySeq[r])
        BY <1>0, <1>3, HitsTail DEF OneAsk
    <2> QED
        BY <1>0, <1>1, <1>2, <1>3, <1>4, <2>1, Kinds DEF OneAsk
<1>6. held[r] # None /\ reqs[m.seq] = held[r]
    BY <1>2, <1>5 DEF MapInv, ObjectsAreHeld, MapIsKept, InMap
<1>7. /\ response' = [response EXCEPT ![held[r]] = r]
      /\ todo' = [todo EXCEPT !["read"] = <<held[r]>>]
      /\ go' = [go EXCEPT !["read"] = "complete"]
    BY <1>2, <1>6 DEF ReadResponse, Goto
<1> HIDE DEF m
<1>8. \A q \in Req : ~Completing(q)
    BY <1>0 DEF Completing
<1>9. Completing(r)' /\ response'[held[r]] = r
    BY <1>0, <1>2, <1>6, <1>7 DEF Completing
<1>10. \A q \in Req : Completing(q)' => q = r
    <2> SUFFICES ASSUME NEW q \in Req, Completing(q)' PROVE q = r
        OBVIOUS
    <2>1. <<held[q]>> = <<held[r]>>
        BY <1>0, <1>7 DEF Completing
    <2>2. held[q] = held[r]
        BY <2>1
    <2> QED
        BY <1>2, <1>6, <2>2 DEF MapInv, ObjectsAreHeld
<1>11. OneAsk(r)'
    <2>1. ~Hits(Out', Asks(r)) /\ ~Open(r)' /\ ~Hits(fromPeer', Answers(r))
        BY <1>0, <1>3, <1>4 DEF OneAsk, Open
    <2>2. Once(Out', Asks(r)) /\ Once(fromPeer', Answers(r))
        BY <2>1 DEF Hits, Once
    <2>3. /\ ~Hits(Out', Stray("Request", r, mySeq'[r]))
          /\ ~Hits(fromPeer', Stray("Response", r, mySeq'[r]))
        BY <1>0, <1>3, HitsTail DEF OneAsk
    <2>4. \A p \in peer'.open : p.of # r
        BY <2>1 DEF Open
    <2> QED
        BY <1>0, <1>5, <1>9, <2>1, <2>2, <2>3, <2>4 DEF OneAsk
<1>12. \A q \in Req : OneAsk(q)'
    <2> SUFFICES ASSUME NEW q \in Req, q # r PROVE OneAsk(q)'
        BY <1>11
    <2>1. LeftAlone(q)
        BY <1>0, <1>10, FewerFacts DEF LeftAlone
    <2> QED
        BY <1>0, <2>1, AskKept DEF Calm, AsksAreOwn
<1>13. Undisturbed'
    <2>1. /\ go'["read"] = "complete" /\ go'["ping"] = go["ping"]
          /\ go'["user"] = go["user"] /\ go'["closer"] = go["closer"]
        BY <1>0, <1>7
    <2>2. \A h \in Terminator : todo'[h] # <<>> => h = "read"
        BY <1>0, <1>7 DEF Calm, Undisturbed
    <2>3. ~Hits(fromPeer', Disturbing)
        BY <1>0, HitsTail DEF Calm, Undisturbed
    <2> QED
        BY <1>0, <1>2, <1>9, <2>1, <2>2, <2>3 DEF Calm, Undisturbed
<1>14. OneHello'
    <2>1. Fewer(fromPeer', fromPeer, Acks)
        BY <1>0, FewerFacts
    <2> QED
        BY <1>0, <2>1 DEF Calm, OneHello, Fewer
<1>15. ~Hits(fromPeer', Nobodys("Response"))
    BY <1>0, HitsTail DEF Calm, AsksAreOwn
<1> QED
    BY <1>0, <1>12, <1>13, <1>14, <1>15 DEF Calm, AsksAreOwn, AnswerIsOwn

(* Everything else that the read loop takes. *)
LEMMA ReadCalm ==
    ASSUME Patient, MapInv, Calm, TypeOK', ClientReadStep \/ AnyReadStep
    PROVE  Calm'
<1> USE DEF flagVars, callVars, peerVars
<1>0. /\ fromPeer \in Seq(Msg) /\ Out \in Seq(Msg) /\ go \in [Goroutine -> GoState] /\ TypeOK
      /\ {"read", "ping", "write", "user", "closer"} \subseteq Goroutine
    BY OutType DEF MapInv, TypeOK, Goroutine, Terminator
<1>1. ASSUME NEW op, TakeFrame(op)
      PROVE  /\ fromPeer # <<>> /\ Head(fromPeer) \in Msg /\ Head(fromPeer).op = op
             /\ op \in {"HelloAck", "Response", "Ping", "Pong"} /\ go["read"] = "run"
             /\ fromPeer' = Tail(fromPeer) /\ UNCHANGED <<toPeer, peer>>
    <2>1. fromPeer # <<>> /\ Head(fromPeer) \in Msg /\ Head(fromPeer).op = op
        BY <1>0, <1>1, QueueTypes DEF TakeFrame
    <2>2. Head(fromPeer) \notin Disturbing
        BY <1>0, <2>1, HitsTail DEF Calm, Undisturbed
    <2> QED
        BY <1>1, <2>1, <2>2, Kinds DEF TakeFrame
<1>2. CASE ReadHelloAck
    <2>1. /\ UNCHANGED <<peer, sock, terminateCh, remoteClosed, shake, mySeq, held, call, result,
                         response, todo>>
          /\ ready' /\ Out' = Out /\ fromPeer' = Tail(fromPeer) /\ fromPeer # <<>>
          /\ go["read"] = "run"
        BY <1>1, <1>2 DEF ReadHelloAck, Out
    <2>2. Head(fromPeer) \in Acks
        BY <1>1, <1>2, Kinds DEF ReadHelloAck
    <2>3. /\ Hits(fromPeer, Acks) /\ ~Hits(fromPeer', Acks) /\ Once(fromPeer', Acks)
          /\ ~Hits(Out, Hellos) /\ ~ready /\ shake # "start"
        BY <1>0, <2>1, <2>2, HitsTail DEF Calm, OneHello
    <2>4. go' = [go EXCEPT !["read"] = "run"]
        BY <1>2, <2>3 DEF ReadHelloAck, Goto
    <2>5. go' = go
        BY <1>0, <2>1, <2>4
    <2>6. \A q \in Req : OneAsk(q)'
        <3> SUFFICES ASSUME NEW q \in Req PROVE OneAsk(q)'
            OBVIOUS
        <3>1. Completing(q)' <=> Completing(q)
            BY <2>1, <2>5 DEF Completing
        <3>2. LeftAlone(q)
            BY <1>0, <2>1, <3>1, FewerFacts DEF LeftAlone
        <3>3. peer'.open \subseteq Msg
            BY DEF TypeOK
        <3> QED
            BY <3>2, <3>3, AskKept DEF Calm, AsksAreOwn
    <2>7. Undisturbed'
        BY <1>0, <2>1, <2>5, HitsTail DEF Calm, Undisturbed
    <2>8. OneHello'
        BY <2>1, <2>3 DEF Calm, OneHello
    <2>9. ~Hits(fromPeer', Nobodys("Response"))
        BY <1>0, <2>1, HitsTail DEF Calm, AsksAreOwn
    <2> QED
        BY <2>1, <2>6, <2>7, <2>8, <2>9 DEF Calm, AsksAreOwn, AnswerIsOwn
<1>3. CASE ReadRefused \/ CountRequests \/ ReadGoAway \/ ReadError
    <2>1. ~ReadRefused /\ ~ReadGoAway
        BY <1>1 DEF ReadRefused, ReadGoAway
    <2> QED
        BY <1>3, <2>1 DEF CountRequests, ReadError, Calm, Undisturbed
<1>4. CASE AfterSend
    <2>1. Out' = Out /\ fromPeer' = fromPeer
        BY <1>4 DEF AfterSend, Out
    <2>2. NoneOf(Out', Out, OutOther) /\ NoneOf(fromPeer', fromPeer, InOther)
        BY <1>0, <2>1, NoneOfFacts
    <2>3. go' = [go EXCEPT !["read"] = "run"]
        BY <1>4 DEF AfterSend, Goto, Calm, Undisturbed
    <2>4. Quietly
        BY <1>0, <1>4, <2>3 DEF Quietly, AfterSend, Calm, Undisturbed
    <2> QED
        BY <2>2, <2>4, QuietStep
<1>5. CASE ReadPing
    <2>1. TakeFrame("Ping") /\ Enqueue(Frame("Pong", Head(fromPeer).seq, None))
        BY <1>5 DEF ReadPing
    <2>2. Frame("Pong", Head(fromPeer).seq, None) \in Msg
        BY <1>1, <2>1, FramesBuilt DEF Msg
    <2>3. Out' = Append(Out, Frame("Pong", Head(fromPeer).seq, None)) /\ fromPeer' = Tail(fromPeer)
        BY <1>0, <1>1, <1>5, <2>1, <2>2, OutEnqueue DEF ReadPing
    <2>4. NoneOf(fromPeer', fromPeer, InOther)
        BY <1>0, <1>1, <2>1, <2>3, NoneOfFacts
    <2>5. NoneOf(Out', Out, OutOther)
        BY <1>0, <2>2, <2>3, NoneOfFacts DEF Frame, OutOther
    <2>6. Quietly
        BY <1>1, <1>5, <2>1 DEF Quietly, ReadPing, Calm, Undisturbed
    <2> QED
        BY <2>4, <2>5, <2>6, QuietStep
<1>6. CASE ReadPong
    <2>1. Out' = Out /\ fromPeer' = Tail(fromPeer) /\ fromPeer # <<>> /\ peer' = peer
        BY <1>1, <1>6 DEF ReadPong, Out
    <2>2. NoneOf(Out', Out, OutOther) /\ NoneOf(fromPeer', fromPeer, InOther)
        BY <1>0, <2>1, NoneOfFacts
    <2>3. Quietly
        BY <1>6, <2>1 DEF Quietly, ReadPong, Calm, Undisturbed
    <2> QED
        BY <2>2, <2>3, QuietStep
<1> QED
    BY <1>2, <1>3, <1>4, <1>5, <1>6, ReadResponseCalm DEF ClientReadStep, AnyReadStep

(* A step that moves the handshake on and leaves the calls alone. *)
Shakes ==
    /\ peer' = peer /\ sock' = sock /\ terminateCh' = terminateCh /\ (remoteClosed' <=> remoteClosed)
    /\ (ready' <=> ready) /\ mySeq' = mySeq /\ held' = held /\ call' = call /\ result' = result
    /\ response' = response /\ todo' = todo /\ go' = go
    /\ NoneOf(Out', Out, {"Hello"}) /\ NoneOf(fromPeer', fromPeer, {"HelloAck"})

LEMMA ShakesCalm ==
    ASSUME Calm, TypeOK', Shakes, OneHello'
    PROVE  Calm'
<1> USE DEF Shakes
<1>1. \A r, s : /\ Asks(r) \in SUBSET {m \in Msg : m.op \notin {"Hello"}}
                /\ Stray("Request", r, s) \in SUBSET {m \in Msg : m.op \notin {"Hello"}}
                /\ Nobodys("Request") \in SUBSET {m \in Msg : m.op \notin {"Hello"}}
                /\ Answers(r) \in SUBSET {m \in Msg : m.op \notin {"HelloAck"}}
                /\ Stray("Response", r, s) \in SUBSET {m \in Msg : m.op \notin {"HelloAck"}}
                /\ Nobodys("Response") \in SUBSET {m \in Msg : m.op \notin {"HelloAck"}}
                /\ Disturbing \in SUBSET {m \in Msg : m.op \notin {"HelloAck"}}
    BY DEF Asks, Stray, Nobodys, Answers, Disturbing
<1>2. /\ Fewer(Out', Out, Nobodys("Request")) /\ Fewer(fromPeer', fromPeer, Nobodys("Response"))
      /\ Fewer(fromPeer', fromPeer, Disturbing)
      /\ \A r, s : /\ Fewer(Out', Out, Asks(r)) /\ Fewer(Out', Out, Stray("Request", r, s))
                   /\ Fewer(fromPeer', fromPeer, Answers(r))
                   /\ Fewer(fromPeer', fromPeer, Stray("Response", r, s))
    BY <1>1 DEF NoneOf
<1>3. \A r : Completing(r)' <=> Completing(r)
    BY DEF Completing
<1>4. \A r \in Req : OneAsk(r)'
    <2> SUFFICES ASSUME NEW r \in Req PROVE OneAsk(r)'
        OBVIOUS
    <2>1. LeftAlone(r)
        BY <1>2, <1>3 DEF LeftAlone
    <2>2. peer'.open \subseteq Msg
        BY DEF TypeOK
    <2> QED
        BY <2>1, <2>2, AskKept DEF Calm, AsksAreOwn
<1>5. Undisturbed'
    BY <1>2, <1>3 DEF Calm, Undisturbed, Fewer
<1> QED
    BY <1>2, <1>4, <1>5 DEF Calm, AsksAreOwn, AnswerIsOwn, Fewer

(* Handshake says Hello. *)
LEMMA ShakeSendCalm ==
    ASSUME TypeOK, Calm, TypeOK', ShakeSend
    PROVE  Calm'
<1> USE DEF flagVars, callVars, peerVars
<1> DEFINE h == Plain("Hello")
<1>1. h \in Msg /\ h.op = "Hello" /\ Out' = Append(Out, h) /\ Out \in Seq(Msg) /\ fromPeer \in Seq(Msg)
    BY FramesBuilt, OutEnqueue, OutType DEF ShakeSend, TypeOK
<1> HIDE DEF h
<1>2. Shakes
    BY <1>1, NoneOfFacts DEF Shakes, ShakeSend
<1>3. Once(Out', Hellos)
    BY <1>1, HitsAppend DEF Calm, OneHello, ShakeSend
<1>4. OneHello'
    BY <1>3 DEF Calm, OneHello, ShakeSend
<1> QED
    BY <1>2, <1>4, ShakesCalm

(* The server takes a request. *)
LEMMA PeerTakesRequest ==
    ASSUME Patient, MapInv, Calm, TypeOK', PeerReads, Head(toPeer).op = "Request"
    PROVE  Calm'
<1> USE DEF flagVars, callVars, localVars
<1> DEFINE m == Head(toPeer)
<1>0. /\ UNCHANGED <<sock, terminateCh, remoteClosed, ready, shake, mySeq, held, call, result, response,
                     todo, go>>
      /\ Out \in Seq(Msg) /\ fromPeer \in Seq(Msg) /\ peer.open \subseteq Msg
      /\ peer' = [peer EXCEPT !.open = @ \cup {m}]
      /\ peer \in [open : SUBSET Msg, goneAway : BOOLEAN, pinged : 0 .. scenario.peerPings,
                   closed : BOOLEAN]
    BY OutType DEF MapInv, TypeOK, PeerReads
<1>1. Out # <<>> /\ Out' = Tail(Out) /\ Head(Out) = m /\ m \in Msg
    BY OutRead, QueueTypes DEF PeerReads, MapInv, TypeOK
<1>2. fromPeer' = fromPeer
    <2>1. PICK q \in Replies(m) : fromPeer' = fromPeer \o q
        BY DEF PeerReads
    <2>2. q = <<>>
        BY DEF Replies
    <2> QED
        BY <1>0, <2>1, <2>2, ConcatEmptySeq
<1>3. PICK r \in Req : r = m.of
    <2>1. m \notin Nobodys("Request")
        BY <1>0, <1>1, HitsTail DEF Calm, AsksAreOwn
    <2> QED
        BY <1>1, <2>1, Kinds
<1>4. OneAsk(r)
    BY DEF Calm, AsksAreOwn
<1>5. m \in Asks(r) /\ Hits(Out, Asks(r)) /\ ~Hits(Out', Asks(r))
    <2>1. m \in Asks(r)
        BY <1>1, <1>3, Kinds
    <2> QED
        BY <1>0, <1>1, <1>4, <2>1, HitsTail DEF OneAsk
<1>6. m.seq = mySeq[r] /\ call[r] = "select"
    <2>1. m \notin Stray("Request", r, mySeq[r])
        BY <1>0, <1>1, <1>4, HitsTail DEF OneAsk
    <2> QED
        BY <1>1, <1>3, <1>4, <1>5, <2>1, Kinds DEF OneAsk
<1>7. peer'.open = peer.open \cup {m} /\ peer'.closed = peer.closed
    BY <1>0
<1> HIDE DEF m
<1>8. \A q : Completing(q)' <=> Completing(q)
    BY <1>0 DEF Completing
<1>9. OneAsk(r)'
    <2>1. ~Hits(Out', Asks(r)) /\ Open(r)' /\ ~Hits(fromPeer', Answers(r)) /\ ~Completing(r)'
        BY <1>2, <1>3, <1>4, <1>5, <1>7, <1>8 DEF OneAsk, Open
    <2>2. Once(Out', Asks(r)) /\ Once(fromPeer', Answers(r))
        BY <2>1 DEF Hits, Once
    <2>3. /\ ~Hits(Out', Stray("Request", r, mySeq'[r]))
          /\ ~Hits(fromPeer', Stray("Response", r, mySeq'[r]))
        BY <1>0, <1>1, <1>2, <1>4, HitsTail DEF OneAsk
    <2>4. \A p \in peer'.open : p.of = r => p.op = "Request" /\ p.seq = mySeq'[r]
        BY <1>0, <1>4, <1>6, <1>7 DEF OneAsk, m
    <2> QED
        BY <1>0, <1>6, <2>1, <2>2, <2>3, <2>4 DEF OneAsk
<1>10. \A q \in Req : OneAsk(q)'
    <2> SUFFICES ASSUME NEW q \in Req, q # r PROVE OneAsk(q)'
        BY <1>9
    <2>1. LeftAlone(q)
        BY <1>0, <1>1, <1>2, <1>3, <1>7, <1>8, FewerFacts DEF LeftAlone
    <2>2. peer'.open \subseteq Msg
        BY DEF TypeOK
    <2> QED
        BY <2>1, <2>2, AskKept DEF Calm, AsksAreOwn
<1>11. Undisturbed'
    BY <1>0, <1>2, <1>7, <1>8 DEF Calm, Undisturbed
<1>12. OneHello' /\ ~Hits(Out', Nobodys("Request"))
    <2>1. Fewer(Out', Out, Hellos) /\ Fewer(Out', Out, Nobodys("Request"))
        BY <1>0, <1>1, FewerFacts
    <2> QED
        BY <1>0, <1>2, <2>1 DEF Calm, OneHello, AsksAreOwn, Fewer
<1> QED
    BY <1>0, <1>2, <1>3, <1>7, <1>10, <1>11, <1>12 DEF Calm, AsksAreOwn, AnswerIsOwn

(* The server answers a request that is open. *)
LEMMA PeerAnswersCalm ==
    ASSUME Patient, MapInv, Calm, TypeOK', PeerAnswers
    PROVE  Calm'
<1> USE DEF flagVars, callVars, localVars
<1>0. /\ UNCHANGED <<sock, terminateCh, remoteClosed, ready, shake, mySeq, held, call, result, response,
                     todo, go>>
      /\ Out' = Out /\ Out \in Seq(Msg) /\ fromPeer \in Seq(Msg) /\ peer.open \subseteq Msg
      /\ peer \in [open : SUBSET Msg, goneAway : BOOLEAN, pinged : 0 .. scenario.peerPings,
                   closed : BOOLEAN]
    BY OutType DEF MapInv, TypeOK, PeerAnswers, Out
<1>1. PICK m \in peer.open :
        /\ fromPeer' = Append(fromPeer, Frame("Response", m.seq, m.of))
        /\ peer' = [peer EXCEPT !.open = @ \ {m}]
    BY DEF PeerAnswers
<1>2. m \in Msg /\ m.seq \in SeqId /\ m.of \in Req
    BY <1>0 DEF Calm, AsksAreOwn, Msg
<1> DEFINE r == m.of
           f == Frame("Response", m.seq, r)
<1>3. OneAsk(r) /\ m.op = "Request" /\ m.seq = mySeq[r] /\ Open(r) /\ call[r] = "select"
    BY <1>2 DEF Calm, AsksAreOwn, OneAsk, Open
<1>4. f \in Msg /\ f.op = "Response" /\ f.of = r /\ f.seq = mySeq[r]
    BY <1>2, <1>3, FramesBuilt
<1>5. fromPeer' = Append(fromPeer, f)
      /\ peer'.open = peer.open \ {m} /\ peer'.closed = peer.closed
    BY <1>0, <1>1
<1>6. \A p \in peer.open : p.of = r => p = m
    <2> SUFFICES ASSUME NEW p \in peer.open, p.of = r PROVE p = m
        OBVIOUS
    <2>1. p.op = m.op /\ p.seq = m.seq /\ p.of = m.of /\ p \in Msg
        BY <1>0, <1>3 DEF OneAsk
    <2> QED
        BY <1>2, <2>1 DEF Msg
<1>7. r \in Req
    BY <1>2
<1> HIDE DEF r, f
<1>8. /\ f \in Answers(r) /\ f \notin Acks /\ f \notin Disturbing /\ f \notin Nobodys("Response")
      /\ f \notin Stray("Response", r, mySeq[r])
      /\ \A q : q # r => f \notin Answers(q) /\ f \notin Stray("Response", q, mySeq[q])
    BY <1>4, <1>7, Kinds
<1>9. \A q : Completing(q)' <=> Completing(q)
    BY <1>0 DEF Completing
<1>10. OneAsk(r)'
    <2>1. ~Hits(Out, Asks(r)) /\ ~Hits(fromPeer, Answers(r)) /\ ~Completing(r)
        BY <1>3 DEF OneAsk
    <2>2. Hits(fromPeer', Answers(r)) /\ Once(fromPeer', Answers(r))
        BY <1>0, <1>3, <1>4, <1>5, <1>8, <2>1, HitsAppend DEF OneAsk
    <2>3. /\ ~Hits(Out', Stray("Request", r, mySeq'[r]))
          /\ ~Hits(fromPeer', Stray("Response", r, mySeq'[r]))
        BY <1>0, <1>3, <1>4, <1>5, <1>8, HitsAppend DEF OneAsk
    <2>4. ~Open(r)' /\ \A p \in peer'.open : p.of # r
        BY <1>5, <1>6 DEF Open
    <2>5. Once(Out', Asks(r))
        BY <1>0, <1>3 DEF OneAsk
    <2> QED
        BY <1>0, <1>3, <1>9, <2>1, <2>2, <2>3, <2>4, <2>5 DEF OneAsk
<1>11. \A q \in Req : OneAsk(q)'
    <2> SUFFICES ASSUME NEW q \in Req, q # r PROVE OneAsk(q)'
        BY <1>10
    <2>1. Fewer(fromPeer', fromPeer, Answers(q)) /\ Fewer(fromPeer', fromPeer, Stray("Response", q, mySeq[q]))
        BY <1>0, <1>4, <1>5, <1>8, FewerFacts
    <2>2. LeftAlone(q)
        BY <1>0, <1>5, <1>9, <2>1, FewerFacts DEF LeftAlone
    <2>3. peer'.open \subseteq Msg
        BY DEF TypeOK
    <2> QED
        BY <2>2, <2>3, AskKept DEF Calm, AsksAreOwn
<1>12. /\ Fewer(fromPeer', fromPeer, Acks) /\ Fewer(fromPeer', fromPeer, Disturbing)
       /\ Fewer(fromPeer', fromPeer, Nobodys("Response"))
    BY <1>0, <1>4, <1>5, <1>8, FewerFacts
<1>13. Undisturbed' /\ OneHello'
    BY <1>0, <1>5, <1>9, <1>12 DEF Calm, Undisturbed, OneHello, Fewer
<1> QED
    BY <1>0, <1>5, <1>11, <1>12, <1>13 DEF Calm, AsksAreOwn, AnswerIsOwn, Fewer

(* The server reads what is not a request. *)
LEMMA PeerReadsCalm ==
    ASSUME Patient, MapInv, Calm, TypeOK', ServerPeerStep
    PROVE  Calm'
<1> USE DEF flagVars, callVars, localVars
<1>1. CASE PeerGoesAway
    BY <1>1 DEF PeerGoesAway, Patient
<1>2. CASE PeerReads /\ Head(toPeer).op # "Request"
    <2> DEFINE m == Head(toPeer)
    <2>0. /\ UNCHANGED <<sock, terminateCh, remoteClosed, ready, shake, mySeq, held, call, result,
                         response, todo, go, peer>>
          /\ Out \in Seq(Msg) /\ fromPeer \in Seq(Msg)
        BY <1>2, OutType DEF MapInv, TypeOK, PeerReads
    <2>1. Out # <<>> /\ Out' = Tail(Out) /\ Head(Out) = m /\ m \in Msg /\ m.seq \in SeqId
        BY <1>2, OutRead, QueueTypes DEF PeerReads, MapInv, TypeOK, Msg
    <2>2. PICK q \in Replies(m) : fromPeer' = fromPeer \o q
        BY <1>2 DEF PeerReads
    <2>3. \A x \in Msg : fromPeer \o <<x>> = Append(fromPeer, x)
        BY <2>0, AppendIsConcat
    <2> HIDE DEF m
    <2>4. CASE m.op = "Hello"
        <3> DEFINE a == Plain("HelloAck")
        <3>1. q = <<a>>
            BY <2>4 DEF Replies, Patient
        <3>2. a \in Msg /\ a.op = "HelloAck" /\ fromPeer' = Append(fromPeer, a)
            BY <2>2, <2>3, <3>1, FramesBuilt
        <3> HIDE DEF a
        <3>3. NoneOf(Out', Out, {"Hello"}) /\ NoneOf(fromPeer', fromPeer, {"HelloAck"})
            BY <2>0, <2>1, <3>2, NoneOfFacts
        <3>4. Shakes
            BY <2>0, <3>3 DEF Shakes
        <3>5. /\ ~Hits(Out', Hellos) /\ Once(Out', Hellos)
              /\ Hits(Out, Hellos) /\ ~Hits(fromPeer, Acks) /\ Once(fromPeer, Acks)
            BY <2>0, <2>1, <2>4, HitsTail, Kinds DEF Calm, OneHello
        <3>6. Once(fromPeer', Acks)
            BY <2>0, <3>2, <3>5, HitsAppend
        <3>7. OneHello'
            BY <2>0, <3>5, <3>6 DEF Calm, OneHello
        <3> QED
            BY <3>4, <3>7, ShakesCalm
    <2>5. CASE m.op # "Hello"
        <3>1. NoneOf(Out', Out, OutOther)
            BY <2>0, <2>1, NoneOfFacts
        <3>2. NoneOf(fromPeer', fromPeer, InOther)
            <4>1. CASE m.op = "Ping"
                <5> DEFINE p == Frame("Pong", m.seq, None)
                <5>1. q = <<p>>
                    BY <4>1 DEF Replies
                <5>2. p \in Msg /\ p.op = "Pong" /\ fromPeer' = Append(fromPeer, p)
                    BY <2>1, <2>2, <2>3, <5>1, FramesBuilt
                <5> HIDE DEF p
                <5> QED
                    BY <2>0, <5>2, NoneOfFacts DEF InOther
            <4>2. CASE m.op # "Ping"
                <5>1. q = <<>>
                    BY <2>5, <4>2 DEF Replies
                <5>2. fromPeer' = fromPeer
                    BY <2>0, <2>2, <5>1, ConcatEmptySeq
                <5> QED
                    BY <2>0, <5>2, NoneOfFacts
            <4> QED
                BY <4>1, <4>2
        <3>3. Quietly
            BY <2>0 DEF Quietly, Calm, Undisturbed
        <3> QED
            BY <3>1, <3>2, <3>3, QuietStep
    <2> QED
        BY <2>4, <2>5
<1> QED
    BY <1>1, <1>2, PeerTakesRequest, PeerAnswersCalm DEF ServerPeerStep

(* Nobody ends a patient connection. *)
LEMMA NobodyTerminates ==
    ASSUME Patient, Calm, NEW g \in Terminator
    PROVE  ~TerminateStep(g) /\ ~UserCalls(g)
<1>1. go[g] \in {"run", "complete", "afterSend", "interval"}
    BY DEF Calm, Undisturbed, Terminator
<1> QED
    BY <1>1 DEF TerminateStep, UserCalls, CloseCheck, CloseSet, WriteGoAway, TermCheck, CloseCh, Lock,
                SweepEnds, Patient

(* A server makes no calls. *)
ServerIsIdle == ~IsClient => shake = "start" /\ \A r \in Req : call[r] = "idle" /\ result[r].kind = "none"

LEMMA IdleStep ==
    ASSUME TypeInv, ServerIsIdle, [Next]_vars
    PROVE  ServerIsIdle'
<1> SUFFICES ASSUME ~IsClient, shake = "start", scenario' = scenario,
                    \A r \in Req : call[r] = "idle" /\ result[r].kind = "none"
             PROVE  shake' = shake /\ call' = call /\ result' = result
    BY StepCases DEF ServerIsIdle, IsClient, vars
<1> USE DEF flagVars, callVars, peerVars, connVars, localVars, workerRest
<1>1. \A r \in Req : ~CallStep(r) /\ ~TimerFires(r)
    BY DEF CallStep, Start, WritePush, Acquire, Register, WriteRequest, Release, Receive, TimerFires
<1>2. ~Shake
    BY DEF Shake, ShakeSend, ShakeReturn
<1>3. CASE UNCHANGED vars
    BY <1>3 DEF vars
<1>4. CASE AnyReadStep \/ \E g \in Terminator : TerminateStep(g) \/ UserCalls(g)
    BY <1>4 DEF AnyReadStep, ReadPing, ReadPong, ReadGoAway, ReadError, TerminateStep, UserCalls,
                CloseCheck, CloseSet, WriteGoAway, TermCheck, CloseCh, Lock, SweepEnds
<1>5. CASE PingStep \/ WriteStep \/ PeerStep
    BY <1>5 DEF PingStep, WriteStep, PeerStep, PingStart, PingInterval, PingExit, WriteTake,
                WriteFlush, WriteExit, PeerPings, PeerCloses
<1>6. CASE ServerReadStep
    BY <1>6 DEF ServerReadStep, ReadHello, ReadInvalid, ReadErrorFrame, ReadWork, Put
<1>7. CASE ServeStep \/ ClientSends \/ ClientReads \/ \E w \in Worker : WorkerStep(w)
    BY <1>7 DEF ServeStep, ServeRegister, ServeStart, ServeWaits, ServeEnds, ServeUnregister, ServeGoes,
                ClientSends, ClientReads, WorkerStep, WorkerReturns, WorkerPanics, WorkerGoes,
                WorkerWrites, WorkerExits
<1> QED
    BY <1>1, <1>2, <1>3, <1>4, <1>5, <1>6, <1>7, StepCases

LEMMA PatientStep ==
    ASSUME TypeInv, MapInv, PatientInv, [Next]_vars
    PROVE  PatientInv'
<1>0. TypeOK /\ TypeOK' /\ scenario' = scenario
    BY TypeStep, StepCases DEF TypeInv, vars
<1>1. ServerIsIdle'
    BY IdleStep DEF PatientInv, ServerIsIdle
<1>2. ASSUME Patient PROVE Calm'
    <2>0. Calm /\ IsClient
        BY <1>2 DEF PatientInv, Calm, Patient
    <2>1. CASE UNCHANGED vars
        BY <2>0, <2>1 DEF vars, connVars, flagVars, callVars, peerVars, Calm, Undisturbed, OneHello,
                          AsksAreOwn, OneAsk, Open, Completing, AnswerIsOwn, Out
    <2>2. CASE \E r \in Req : CallStep(r) \/ TimerFires(r)
        BY <1>0, <1>2, <2>0, <2>2, CallCalm
    <2>3. CASE ClientReadStep \/ AnyReadStep
        BY <1>0, <1>2, <2>0, <2>3, ReadCalm
    <2>4. CASE \E g \in Terminator : TerminateStep(g) \/ UserCalls(g)
        BY <1>2, <2>0, <2>4, NobodyTerminates
    <2>5. CASE PingStep \/ WriteStep \/ Shake \/ PeerStep
        BY <1>0, <1>2, <2>0, <2>5, LoopCalm, ShakeSendCalm DEF Shake
    <2>6. CASE ServerPeerStep
        BY <1>0, <1>2, <2>0, <2>6, PeerReadsCalm
    <2> QED
        BY <2>0, <2>1, <2>2, <2>3, <2>4, <2>5, <2>6, StepCases
<1>3. Patient' => Patient
    BY <1>0 DEF Patient, IsClient
<1> QED
    BY <1>1, <1>2, <1>3 DEF PatientInv, ServerIsIdle, Calm

LEMMA InitPatient == Init => PatientInv
<1> SUFFICES ASSUME Init PROVE PatientInv
    OBVIOUS
<1> USE DEF Init, ConnInit
<1>1. ServerIsIdle
    BY DEF ServerIsIdle
<1>2. Out = <<>>
    BY DEF Out
<1>3. \A r : ~Completing(r) /\ ~Open(r)
    BY DEF Completing, Open, Goroutine, Terminator
<1>4. Undisturbed
    BY <1>3, HitsEmpty DEF Undisturbed, Goroutine, Terminator
<1>5. OneHello
    BY <1>2, HitsEmpty DEF OneHello
<1>6. \A r \in Req : OneAsk(r)
    BY <1>2, <1>3, HitsEmpty DEF OneAsk, Open
<1>7. AsksAreOwn
    BY <1>2, <1>6, HitsEmpty DEF AsksAreOwn, AnswerIsOwn
<1> QED
    BY <1>1, <1>4, <1>5, <1>7 DEF PatientInv, ServerIsIdle

(* The answer that RequestTimeout returns is to that very call, for any number *)
(* of concurrent calls, pushes and pings and whatever order the server answers *)
(* in, as long as ids do not wrap, no timer fires and nobody ends the          *)
(* connection.  With timers it is false (the run go_crosstalk).                *)
THEOREM PatientCallsGetTheirAnswer == ASSUME IdsDoNotWrap PROVE Spec => []PatientAnswerIsOwn
<1> DEFINE Inv == TypeInv /\ MapInv /\ PatientInv
<1>1. Init => Inv
    BY InitType, InitMap, InitPatient
<1>2. Inv /\ [Next]_vars => Inv'
    BY TypeStep, MapStep, PatientStep
<1>3. Inv => PatientAnswerIsOwn
    <2> SUFFICES ASSUME Inv, ~scenario.timeouts, scenario.closers = {} PROVE AnswerIsOwn
        BY DEF PatientAnswerIsOwn
    <2>1. CASE IsClient
        BY <2>1 DEF Patient, PatientInv, AsksAreOwn
    <2>2. CASE ~IsClient
        BY <2>2 DEF PatientInv, AnswerIsOwn
    <2> QED
        BY <2>1, <2>2
<1> QED
    BY <1>1, <1>2, <1>3, PTL DEF Spec
-----------------------------------------------------------------------------
(* The requests that a server works on.                                    *)

(* The steps of a server: it makes no calls. *)
LEMMA ServerCases ==
    ASSUME ServerIsIdle, ~IsClient, [Next]_vars
    PROVE  \/ UNCHANGED vars
           \/ /\ UNCHANGED <<scenario, serveVars>>
              /\ \/ AnyReadStep \/ PingStep \/ WriteStep \/ PeerStep
                 \/ \E g \in Terminator : TerminateStep(g) \/ UserCalls(g)
           \/ /\ UNCHANGED scenario
              /\ \/ ServerReadStep \/ ServeStep \/ ClientSends \/ ClientReads
                 \/ \E w \in Worker : WorkerStep(w)
<1>1. \A r \in Req : ~CallStep(r) /\ ~TimerFires(r)
    BY DEF ServerIsIdle, CallStep, Start, WritePush, Acquire, Register, WriteRequest, Release, Receive,
           TimerFires
<1>2. ~Shake
    BY DEF ServerIsIdle, Shake, ShakeSend, ShakeReturn
<1> QED
    BY <1>1, <1>2, StepCases

LEMMA EndingStep ==
    ASSUME TypeInv, ServerIsIdle, ~IsClient, Ending, [Next]_vars
    PROVE  Ending'
<1> USE DEF flagVars, callVars, peerVars, connVars, localVars, workerRest, serveVars, Goto
<1>0. /\ go \in [Goroutine -> GoState] /\ Terminator \subseteq Goroutine /\ "read" \in Terminator
      /\ Goroutine = Terminator \cup {"write"}
    BY DEF TypeInv, TypeOK, Goroutine, Terminator
<1>1. CASE UNCHANGED vars
    BY <1>1 DEF vars, Ending
<1>2. CASE UNCHANGED serveVars /\ AnyReadStep
    BY <1>0, <1>2 DEF AnyReadStep, ReadPing, ReadPong, ReadGoAway, ReadError, TakeFrame, Ending
<1>3. CASE UNCHANGED serveVars /\ (PingStep \/ WriteStep \/ PeerStep)
    <2>1. /\ UNCHANGED <<sock, terminated, readErrCh>> /\ go'["read"] = go["read"]
          /\ \A g \in Terminator : go'[g] \in {"lock", "sweep"} => go[g] \in {"lock", "sweep"}
        BY <1>0, <1>3
           DEF PingStep, WriteStep, PeerStep, PingStart, PingInterval, PingExit, WriteTake,
               WriteFlush, WriteExit, PeerPings, PeerCloses, Terminator
    <2> QED
        BY <1>3, <2>1 DEF Ending
<1>4. ASSUME UNCHANGED serveVars, NEW g \in Terminator, TerminateStep(g) \/ UserCalls(g)
      PROVE  Ending'
    <2>1. \A h \in Terminator : h # g => go'[h] = go[h]
        BY <1>0, <1>4 DEF TerminateStep, UserCalls, CloseCheck, CloseSet, WriteGoAway, TermCheck,
                          CloseCh, Lock, SweepEnds
    <2>2. UNCHANGED readErrCh /\ (terminated => terminated') /\ go[g] # "put"
        BY <1>0, <1>4 DEF TerminateStep, UserCalls, CloseCheck, CloseSet, WriteGoAway, TermCheck,
                          CloseCh, Lock, SweepEnds
    <2>3. sock' = "closed" => terminated'
        BY <1>0, <1>4, <2>2 DEF TerminateStep, UserCalls, CloseCheck, CloseSet, WriteGoAway, TermCheck,
                                CloseCh, Lock, SweepEnds, Ending
    <2>4. go'[g] \in {"lock", "sweep"} => terminated'
        BY <1>0, <1>4, <2>2 DEF TerminateStep, UserCalls, CloseCheck, CloseSet, WriteGoAway, TermCheck,
                                CloseCh, Lock, SweepEnds, Ending, AfterClose, AfterTerminate
    <2>5. g = "read" /\ readErrCh => go'[g] \in {"check", "closeCh", "lock", "sweep", "done"}
        BY <1>0, <1>4 DEF TerminateStep, UserCalls, CloseCheck, CloseSet, WriteGoAway, TermCheck,
                          CloseCh, Lock, SweepEnds, Ending, AfterClose, AfterTerminate
    <2> QED
        BY <1>0, <1>4, <2>1, <2>2, <2>3, <2>4, <2>5 DEF Ending
<1>5. CASE ServerReadStep
    <2>1. \A m : <<m>> # <<>>
        OBVIOUS
    <2>2. /\ UNCHANGED <<sock, terminated, readErrCh, serve>> /\ go["read"] \in {"run", "put"}
          /\ go'["read"] \notin {"lock", "sweep"}
          /\ \A g \in Terminator : g # "read" => go'[g] = go[g]
        BY <1>0, <1>5 DEF ServerReadStep, ReadHello, ReadInvalid, ReadErrorFrame, ReadWork, Put, TakeFrame
    <2>3. putting' # <<>> => go'["read"] = "put"
        BY <1>0, <1>5 DEF ServerReadStep, ReadHello, ReadInvalid, ReadErrorFrame, ReadWork, Put,
                          TakeFrame, Ending
    <2> QED
        BY <1>0, <2>2, <2>3 DEF Ending
<1>6. CASE ServeStep \/ ClientSends \/ ClientReads \/ \E w \in Worker : WorkerStep(w)
    <2>1. /\ UNCHANGED <<sock, terminated, readErrCh, go, putting>>
          /\ serve' \in {"delete", "returned"} => serve \in {"delete", "returned"} \/ readErrCh
        BY <1>6 DEF ServeStep, ServeRegister, ServeStart, ServeWaits, ServeEnds, ServeUnregister,
                    ServeGoes, ClientSends, ClientReads, WorkerStep, WorkerReturns, WorkerPanics,
                    WorkerGoes, WorkerWrites, WorkerExits
    <2> QED
        BY <2>1 DEF Ending
<1> QED
    BY <1>1, <1>2, <1>3, <1>4, <1>5, <1>6, ServerCases

(* p has frames of a kind if q has. *)
Same(p, q, M) == (Hits(p, M) <=> Hits(q, M)) /\ (Once(q, M) => Once(p, M))

LEMMA SameFacts ==
    ASSUME NEW q \in Seq(Msg), NEW M
    PROVE  /\ Same(q, q, M)
           /\ q # <<>> /\ Head(q) \notin M => Same(Tail(q), q, M)
           /\ \A m \in Msg : m \notin M => Same(Append(q, m), q, M)
BY HitsTail, HitsAppend DEF Same

(* The request s stays where it is, or is lost with the connection. *)
Standing(s) ==
    /\ Same(client'.todo, client.todo, For(s)) /\ Same(fromPeer', fromPeer, For(s))
    /\ Same(putting', putting, For(s)) /\ Fewer(Out', Out, For(s))
    /\ Hits(Out, For(s)) => Hits(Out', For(s)) \/ terminated' \/ peer'.closed
    /\ \A w \in Worker : IsOf(worker'[w].ctx, s) <=> IsOf(worker[w].ctx, s)
    /\ client'.answers[s] = client.answers[s] /\ (s \in client'.sent <=> s \in client.sent)
    /\ (terminated => terminated') /\ (peer.closed => peer'.closed)

LEMMA StandingIsOne ==
    ASSUME NEW s \in SeqId, OnePlace(s), Standing(s)
    PROVE  OnePlace(s)'
<1>1. /\ Asked(s)' <=> Asked(s)
      /\ Coming(s)' <=> Coming(s)
      /\ Handing(s)' <=> Handing(s)
      /\ Working(s)' <=> Working(s)
      /\ Answered(s)' <=> Answered(s)
      /\ Going(s)' => Going(s)
      /\ Going(s) => Going(s)' \/ terminated' \/ peer'.closed
    BY DEF Standing, Same, Fewer, Asked, Coming, Handing, Working, Answered, Going
<1>2. /\ Once(client'.todo, For(s)) /\ Once(fromPeer', For(s)) /\ Once(Out', For(s))
      /\ client'.answers[s] <= 1
      /\ \A v, w \in Worker : IsOf(worker'[v].ctx, s) /\ IsOf(worker'[w].ctx, s) => v = w
      /\ (s \in client'.sent <=> s \in client.sent)
      /\ (terminated => terminated') /\ (peer.closed => peer'.closed)
    BY DEF Standing, Same, Fewer, OnePlace
<1> QED
    BY <1>1, <1>2 DEF OnePlace

(* What is a request, or its answer. *)
LEMMA ForFacts ==
    ASSUME NEW m \in Msg
    PROVE  /\ \A s : m \in For(s) <=> m.seq = s /\ m.op \in {"Request", "Response", "Error"}
           /\ m \in Odd <=> m.op \in {"Response", "Error", "Push"} /\ m.seq # 0
           /\ m \in Requests <=> m.op = "Request"
BY DEF For, IsOf, Odd, Requests

(* Steps by which no frame of a request moves: they touch the queues only     *)
(* with other frames, or lose frames with the connection.                    *)
Other == {"Hello", "BadHello", "HelloAck", "Ping", "Pong", "GoAway"}

Idling ==
    /\ worker' = worker /\ client' = client /\ putting' = putting
    /\ serve' \in {"register", "start"} => serve \in {"register", "start"}
    /\ \/ fromPeer' = fromPeer
       \/ fromPeer # <<>> /\ Head(fromPeer).op \in Other \cup {"Response", "Error", "Push"}
                          /\ fromPeer' = Tail(fromPeer)
       \/ \E m \in Msg : m.op \in Other /\ fromPeer' = Append(fromPeer, m)
    /\ \/ Out' = Out
       \/ \E m \in Msg : m.op \in Other /\ Out' = Append(Out, m)
    /\ (terminated => terminated') /\ (peer.closed => peer'.closed)

LEMMA IdlingKeeps ==
    ASSUME TypeInv, Plumbing, Idling
    PROVE  Plumbing' /\ \A s \in SeqId \ {0} : OnePlace(s) => OnePlace(s)'
<1>0. /\ fromPeer \in Seq(Msg) /\ Out \in Seq(Msg) /\ putting \in Seq(Msg) /\ client.todo \in Seq(Msg)
    BY OutType DEF TypeInv, TypeOK, ServeTypeOK
<1>1. ASSUME NEW s \in SeqId \ {0} PROVE Standing(s)
    <2>1. Same(fromPeer', fromPeer, For(s))
        <3>1. CASE fromPeer' = fromPeer
            BY <1>0, <3>1, SameFacts
        <3>2. CASE fromPeer # <<>> /\ Head(fromPeer).op \in Other \cup {"Response", "Error", "Push"}
                                   /\ fromPeer' = Tail(fromPeer)
            <4>1. Head(fromPeer) \in Msg /\ Head(fromPeer) \notin Odd
                BY <1>0, <3>2, QueueTypes, HitsTail DEF Plumbing
            <4>2. Head(fromPeer) \notin For(s)
                BY <3>2, <4>1, ForFacts DEF Other
            <4> QED
                BY <1>0, <3>2, <4>2, SameFacts
        <3>3. ASSUME NEW m \in Msg, m.op \in Other, fromPeer' = Append(fromPeer, m)
              PROVE  Same(fromPeer', fromPeer, For(s))
            <4>1. m \notin For(s)
                BY <3>3, ForFacts DEF Other
            <4> QED
                BY <1>0, <3>3, <4>1, SameFacts
        <3> QED
            BY <3>1, <3>2, <3>3 DEF Idling
    <2>2. Same(Out', Out, For(s))
        <3>1. ASSUME NEW m \in Msg, m.op \in Other, Out' = Append(Out, m) PROVE Same(Out', Out, For(s))
            <4>1. m \notin For(s)
                BY <3>1, ForFacts DEF Other
            <4> QED
                BY <1>0, <3>1, <4>1, SameFacts
        <3> QED
            BY <1>0, <3>1, SameFacts DEF Idling
    <2>3. Same(client'.todo, client.todo, For(s)) /\ Same(putting', putting, For(s))
        BY <1>0, SameFacts DEF Idling
    <2> QED
        BY <2>1, <2>2, <2>3 DEF Standing, Same, Fewer, Idling
<1>2. Plumbing'
    <2>1. ~Hits(fromPeer', Odd)
        <3>0. ~Hits(fromPeer, Odd)
            BY DEF Plumbing
        <3>1. ASSUME NEW m \in Msg, m.op \in Other, fromPeer' = Append(fromPeer, m)
              PROVE  ~Hits(fromPeer', Odd)
            <4>1. m \notin Odd
                BY <3>1, ForFacts DEF Other
            <4> QED
                BY <1>0, <3>0, <3>1, <4>1, HitsAppend
        <3>2. CASE fromPeer # <<>> /\ fromPeer' = Tail(fromPeer)
            BY <1>0, <3>0, <3>2, HitsTail
        <3> QED
            BY <3>0, <3>1, <3>2 DEF Idling
    <2>2. ~Hits(Out', Requests)
        <3>0. ~Hits(Out, Requests)
            BY DEF Plumbing
        <3>1. ASSUME NEW m \in Msg, m.op \in Other, Out' = Append(Out, m) PROVE ~Hits(Out', Requests)
            <4>1. m \notin Requests
                BY <3>1, ForFacts DEF Other
            <4> QED
                BY <1>0, <3>0, <3>1, <4>1, HitsAppend
        <3> QED
            BY <3>0, <3>1 DEF Idling
    <2> QED
        BY <2>1, <2>2 DEF Plumbing, Idling
<1> QED
    BY <1>1, <1>2, StandingIsOne

(* Where the loops, Close and Terminate, and Serve are idling. *)
LEMMA LoopsIdle ==
    ASSUME TypeInv, [Next]_vars, UNCHANGED serveVars,
           \/ AnyReadStep \/ PingStep \/ PeerStep \/ WriteTake \/ WriteExit
           \/ WriteFlush /\ sock = "open" /\ ~peer.closed
           \/ \E g \in Terminator : TerminateStep(g) \/ UserCalls(g)
    PROVE  Idling
<1> USE DEF flagVars, callVars, peerVars, localVars
<1>0. TypeOK /\ fromPeer \in Seq(Msg) /\ 1 \in SeqId /\ seq \in SeqId
    BY SizeAssumption DEF TypeInv, TypeOK, SeqId
<1>1. worker' = worker /\ client' = client /\ putting' = putting /\ serve' = serve
    BY DEF serveVars
<1>2. ASSUME NEW m \in Msg, m.op \in Other, Enqueue(m), UNCHANGED <<toPeer, flushing>>
      PROVE  \E n \in Msg : n.op \in Other /\ Out' = Append(Out, n)
    BY <1>0, <1>2, OutEnqueue
<1>3. ASSUME NEW op \in {"Hello", "HelloAck", "Ping", "Pong", "GoAway"}, NEW t \in SeqId
      PROVE  Frame(op, t, None) \in Msg /\ Frame(op, t, None).op \in Other /\ Plain(op) \in Msg
             /\ Plain(op).op \in Other
    BY FramesBuilt DEF Other
<1>4. CASE ReadPing
    <2>1. Head(fromPeer) \in Msg /\ Head(fromPeer).seq \in SeqId
        BY <1>0, <1>4, QueueTypes DEF ReadPing, TakeFrame, Msg
    <2>2. \E n \in Msg : n.op \in Other /\ Out' = Append(Out, n)
        BY <1>2, <1>3, <1>4, <2>1 DEF ReadPing, TakeFrame
    <2> QED
        BY <1>1, <1>4, <2>2 DEF ReadPing, TakeFrame, Idling, Other
<1>5. CASE ReadPong \/ ReadGoAway
    BY <1>1, <1>5 DEF ReadPong, ReadGoAway, TakeFrame, Idling, Other, Out
<1>6. CASE ReadError
    BY <1>1, <1>6 DEF ReadError, Idling, Out
<1>7. CASE PingStart
    <2>1. \E n \in Msg : n.op \in Other /\ Out' = Append(Out, n)
        BY <1>0, <1>2, <1>3, <1>7, NextSeqType DEF PingStart
    <2> QED
        BY <1>1, <1>7, <2>1 DEF PingStart, Idling
<1>8. CASE PingInterval \/ PingExit
    BY <1>1, <1>8 DEF PingInterval, PingExit, Idling, Out
<1>9. CASE WriteTake \/ WriteExit \/ (WriteFlush /\ sock = "open" /\ ~peer.closed)
    <2>1. Out' = Out
        BY <1>0, <1>9, OutTake, OutFlush DEF WriteExit, Out
    <2> QED
        BY <1>1, <1>9, <2>1 DEF WriteTake, WriteExit, WriteFlush, Idling
<1>10. CASE PeerPings
    <2>1. peer'.closed = peer.closed
        BY <1>0, <1>10 DEF PeerPings, TypeOK
    <2>2. \E n \in Msg : n.op \in Other /\ fromPeer' = Append(fromPeer, n)
        BY <1>0, <1>3, <1>10 DEF PeerPings
    <2> QED
        BY <1>1, <1>10, <2>1, <2>2 DEF PeerPings, Idling, Out
<1>11. CASE PeerCloses
    <2>1. peer'.closed
        BY <1>0, <1>11 DEF PeerCloses, TypeOK
    <2> QED
        BY <1>1, <1>11, <2>1 DEF PeerCloses, Idling, Out
<1>12. ASSUME NEW g \in Terminator, TerminateStep(g) \/ UserCalls(g) PROVE Idling
    <2>1. CASE WriteGoAway(g)
        <3>1. \E n \in Msg : n.op \in Other /\ Out' = Append(Out, n)
            BY <1>0, <1>2, <1>3, <2>1 DEF WriteGoAway
        <3> QED
            BY <1>1, <2>1, <3>1 DEF WriteGoAway, Idling
    <2>2. CASE ~WriteGoAway(g)
        BY <1>1, <1>12, <2>2 DEF TerminateStep, UserCalls, CloseCheck, CloseSet, TermCheck, CloseCh, Lock,
                                 SweepEnds, Idling, Out
    <2> QED
        BY <2>1, <2>2
<1> QED
    BY <1>4, <1>5, <1>6, <1>7, <1>8, <1>9, <1>10, <1>11, <1>12 DEF AnyReadStep, PingStep, PeerStep

(* The write loop fails to flush: the connection has ended. *)
LEMMA FlushLoses ==
    ASSUME TypeInv, Ending, Plumbing, UNCHANGED serveVars, WriteFlush, ~(sock = "open" /\ ~peer.closed)
    PROVE  Plumbing' /\ \A s \in SeqId \ {0} : OnePlace(s) => OnePlace(s)'
<1> USE DEF flagVars, callVars, peerVars
<1>0. /\ TypeOK /\ toPeer \in Seq(Msg) /\ flushing \in Seq(Msg) /\ writeCh \in Seq(Msg)
      /\ toPeer \o flushing \in Seq(Msg) /\ Out = (toPeer \o flushing) \o writeCh
      /\ putting \in Seq(Msg) /\ client.todo \in Seq(Msg) /\ fromPeer \in Seq(Msg)
    BY OutType DEF TypeInv, Out, TypeOK, ServeTypeOK
<1>1. Out' = toPeer \o writeCh /\ UNCHANGED <<peer, terminated, fromPeer>>
    BY <1>0, OutFlush DEF WriteFlush
<1>2. UNCHANGED <<serve, putting, worker, client>>
    BY DEF serveVars
<1>3. terminated \/ peer.closed
    BY <1>0 DEF Ending, TypeOK
<1>4. ASSUME NEW M PROVE Fewer(Out', Out, M)
    <2>1. /\ Hits(Out, M) <=> Hits(toPeer \o flushing, M) \/ Hits(writeCh, M)
          /\ Once(Out, M) => /\ Once(toPeer \o flushing, M) /\ Once(writeCh, M)
                             /\ ~(Hits(toPeer \o flushing, M) /\ Hits(writeCh, M))
        BY <1>0, HitsConcat
    <2>2. /\ Hits(toPeer \o flushing, M) <=> Hits(toPeer, M) \/ Hits(flushing, M)
          /\ Once(toPeer \o flushing, M) => Once(toPeer, M)
        BY <1>0, HitsConcat
    <2>3. /\ Hits(toPeer \o writeCh, M) <=> Hits(toPeer, M) \/ Hits(writeCh, M)
          /\ Once(toPeer, M) /\ Once(writeCh, M) /\ ~(Hits(toPeer, M) /\ Hits(writeCh, M)) =>
                Once(toPeer \o writeCh, M)
        BY <1>0, HitsConcat
    <2> QED
        BY <1>1, <2>1, <2>2, <2>3 DEF Fewer
<1>5. \A s \in SeqId \ {0} : Standing(s)
    BY <1>0, <1>1, <1>2, <1>3, <1>4, SameFacts DEF Standing
<1>6. Plumbing'
    BY <1>1, <1>2, <1>4 DEF Plumbing, Fewer
<1> QED
    BY <1>5, <1>6, StandingIsOne

(* A queue of one frame. *)
LEMMA HitsOne ==
    ASSUME NEW m, NEW M
    PROVE  (Hits(<<m>>, M) <=> m \in M) /\ Once(<<m>>, M)
BY DEF Hits, Once

(* The read loop takes work, and hands it to a worker. *)
LEMMA ReadWorkKeeps ==
    ASSUME TypeInv, Ending, Plumbing, ReadWork
    PROVE  Plumbing' /\ \A s \in SeqId \ {0} : OnePlace(s) => OnePlace(s)'
<1> USE DEF flagVars, callVars, peerVars
<1> DEFINE m == Head(fromPeer)
<1>0. /\ fromPeer \in Seq(Msg) /\ fromPeer # <<>> /\ fromPeer' = Tail(fromPeer) /\ m \in Msg
      /\ m.op \in {"Request", "Push"} /\ putting = <<>> /\ putting' = <<m>>
      /\ UNCHANGED <<serve, worker, client, terminated, peer>> /\ Out' = Out /\ Out \in Seq(Msg)
      /\ client.todo \in Seq(Msg)
    BY QueueTypes, OutType DEF ReadWork, TakeFrame, Ending, TypeInv, TypeOK, ServeTypeOK, Out
<1>1. m \notin Odd /\ ~Hits(fromPeer', Odd)
    BY <1>0, HitsTail DEF Plumbing
<1>2. Plumbing'
    <2>1. IsWork(m)
        BY <1>0, <1>1, ForFacts DEF IsWork
    <2>2. \A k \in 1 .. Len(putting') : IsWork(putting'[k])
        BY <1>0, <2>1
    <2> QED
        BY <1>0, <1>1, <2>2 DEF Plumbing
<1> HIDE DEF m
<1>3. ASSUME NEW s \in SeqId \ {0}, OnePlace(s) PROVE OnePlace(s)'
    <2>1. CASE m \notin For(s)
        <3>1. Same(fromPeer', fromPeer, For(s))
            BY <1>0, <2>1, SameFacts DEF m
        <3>2. Same(putting', putting, For(s))
            BY <1>0, <2>1, HitsOne, HitsEmpty DEF Same
        <3>3. Standing(s)
            BY <1>0, <3>1, <3>2, SameFacts, FewerFacts DEF Standing
        <3> QED
            BY <1>3, <3>3, StandingIsOne
    <2>2. CASE m \in For(s)
        <3>1. Coming(s) /\ ~Coming(s)' /\ Once(fromPeer', For(s))
            BY <1>0, <1>3, <2>2, HitsTail DEF Coming, OnePlace, m
        <3>2. Handing(s)'
            BY <1>0, <2>2, HitsOne DEF Handing
        <3>3. /\ Asked(s)' <=> Asked(s)
              /\ Working(s)' <=> Working(s)
              /\ Going(s)' <=> Going(s)
              /\ Answered(s)' <=> Answered(s)
            BY <1>0 DEF Asked, Working, Going, Answered
        <3> QED
            BY <1>0, <1>3, <3>1, <3>2, <3>3 DEF OnePlace
    <2> QED
        BY <2>1, <2>2
<1> QED
    BY <1>2, <1>3

LEMMA PutKeeps ==
    ASSUME TypeInv, Ending, Plumbing, Put
    PROVE  Plumbing' /\ \A s \in SeqId \ {0} : OnePlace(s) => OnePlace(s)'
<1> USE DEF flagVars, callVars, peerVars
<1> DEFINE m == Head(putting)
<1>1a. putting \in Seq(Msg) /\ putting # <<>> /\ Len(putting) <= 1
    BY DEF Put, PutHolds, TypeInv, ServeTypeOK
<1>1b. putting = <<m>> /\ m \in Msg
    <2>1. Len(putting) = 1 /\ putting[1] = m /\ m \in Msg
        BY <1>1a
    <2> QED
        BY <1>1a, <2>1
<1>0. /\ putting \in Seq(Msg) /\ putting # <<>> /\ putting = <<m>> /\ putting' = <<>> /\ m \in Msg
      /\ worker \in [Worker -> [at : {"none", "idle", "handle", "write"}, ctx : Msg]]
      /\ UNCHANGED <<serve, client, terminated, peer, fromPeer>> /\ Out' = Out /\ Out \in Seq(Msg)
      /\ client.todo \in Seq(Msg) /\ fromPeer \in Seq(Msg)
    BY <1>1a, <1>1b, OutType DEF Put, TypeInv, TypeOK, ServeTypeOK, Out
<1>1. PICK u \in Worker : /\ worker[u].at = "idle"
                          /\ worker' = [worker EXCEPT ![u] = [at |-> "handle", ctx |-> m]]
    BY DEF Put
<1>2. worker[u].ctx = NoContext /\ IsWork(m) /\ serve \notin {"register", "start"}
    BY <1>0, <1>1 DEF Plumbing
<1> HIDE DEF m
<1>3. worker'[u].ctx = m /\ worker'[u].at = "handle" /\ \A w \in Worker \ {u} : worker'[w] = worker[w]
    BY <1>0, <1>1
<1>4. Plumbing'
    BY <1>0, <1>2, <1>3 DEF Plumbing
<1>5. ASSUME NEW s \in SeqId \ {0}, OnePlace(s) PROVE OnePlace(s)'
    <2>0. ~IsOf(worker[u].ctx, s) /\ (IsOf(m, s) <=> m \in For(s))
        BY <1>0, <1>2 DEF IsOf, NoContext, Plain, Frame, For
    <2>1. CASE m \notin For(s)
        <3>1. Same(putting', putting, For(s))
            BY <1>0, <2>1, HitsOne, HitsEmpty DEF Same
        <3>2. \A w \in Worker : IsOf(worker'[w].ctx, s) <=> IsOf(worker[w].ctx, s)
            BY <1>3, <2>0, <2>1
        <3>3. Standing(s)
            BY <1>0, <3>1, <3>2, SameFacts, FewerFacts DEF Standing
        <3> QED
            BY <1>5, <3>3, StandingIsOne
    <2>2. CASE m \in For(s)
        <3>1. Handing(s) /\ ~Handing(s)'
            BY <1>0, <2>2, HitsOne, HitsEmpty DEF Handing
        <3>2. ~Working(s)
            BY <1>5, <3>1 DEF OnePlace
        <3>3. /\ Working(s)'
              /\ \A w \in Worker : IsOf(worker'[w].ctx, s) => w = u
            BY <1>3, <2>0, <2>2, <3>2 DEF Working
        <3>4. /\ Asked(s)' <=> Asked(s)
              /\ Coming(s)' <=> Coming(s)
              /\ Going(s)' <=> Going(s)
              /\ Answered(s)' <=> Answered(s)
            BY <1>0 DEF Asked, Coming, Going, Answered
        <3> QED
            BY <1>0, <1>5, <3>1, <3>3, <3>4 DEF OnePlace
    <2> QED
        BY <2>1, <2>2
<1> QED
    BY <1>4, <1>5

(* Every step of a server's read loop. *)
LEMMA ServerReadKeeps ==
    ASSUME TypeInv, Ending, Plumbing, ServerReadStep
    PROVE  Plumbing' /\ \A s \in SeqId \ {0} : OnePlace(s) => OnePlace(s)'
<1> USE DEF flagVars, callVars, peerVars, serveVars
<1>1. ReadHello \/ ReadInvalid \/ ReadErrorFrame => Idling
    <2>1. TypeOK
        BY DEF TypeInv
    <2>2. Plain("HelloAck") \in Msg /\ Plain("HelloAck").op = "HelloAck"
        BY FramesBuilt
    <2>3. CASE ReadHello
        <3>1. Out' = Out \/ Out' = Append(Out, Plain("HelloAck"))
            BY <2>1, <2>2, <2>3, OutEnqueue DEF ReadHello, TakeFrame, Out
        <3> QED
            BY <2>2, <2>3, <3>1 DEF ReadHello, TakeFrame, Idling, Other
    <2>4. CASE ReadInvalid
        BY <2>4 DEF ReadInvalid, TakeFrame, Idling, Other, Out
    <2>5. CASE ReadErrorFrame
        BY <2>5 DEF ReadErrorFrame, TakeFrame, Idling, Other, Out
    <2> QED
        BY <2>3, <2>4, <2>5
<1> QED
    BY <1>1, IdlingKeeps, ReadWorkKeeps, PutKeeps DEF ServerReadStep

(* Serve, and what its workers do. *)
LEMMA ServeKeeps ==
    ASSUME TypeInv, Plumbing, ServeStep
    PROVE  Plumbing' /\ \A s \in SeqId \ {0} : OnePlace(s) => OnePlace(s)'
<1> USE DEF flagVars, callVars, peerVars, connVars
<1>1. CASE ServeStart
    <2>0. /\ UNCHANGED <<client, terminated, peer, fromPeer, putting>> /\ Out' = Out /\ Out \in Seq(Msg)
          /\ client.todo \in Seq(Msg) /\ fromPeer \in Seq(Msg) /\ putting \in Seq(Msg)
          /\ serve = "start" /\ serve' = "started"
          /\ worker \in [Worker -> [at : {"none", "idle", "handle", "write"}, ctx : Msg]]
        BY <1>1, OutType DEF ServeStart, ServeGoes, TypeInv, TypeOK, ServeTypeOK, Out
    <2>1. \A w \in Worker : worker'[w].ctx = worker[w].ctx /\ worker'[w].at \in {"none", "idle"}
        BY <1>1, <2>0 DEF ServeStart, Plumbing
    <2>2. \A w \in Worker : worker'[w].ctx = NoContext
        BY <2>0, <2>1 DEF Plumbing
    <2>3. Plumbing'
        BY <2>0, <2>1, <2>2 DEF Plumbing
    <2>4. \A s \in SeqId \ {0} : Standing(s)
        BY <2>0, <2>1, SameFacts, FewerFacts DEF Standing
    <2> QED
        BY <2>3, <2>4, StandingIsOne
<1>2. CASE ~ServeStart
    <2>1. Idling
        BY <1>2 DEF ServeStep, ServeRegister, ServeWaits, ServeEnds, ServeUnregister, ServeGoes, Idling,
                    Out
    <2> QED
        BY <2>1, IdlingKeeps
<1> QED
    BY <1>1, <1>2

LEMMA WorkerKeeps ==
    ASSUME TypeInv, Plumbing, NEW u \in Worker, WorkerStep(u)
    PROVE  Plumbing' /\ \A s \in SeqId \ {0} : OnePlace(s) => OnePlace(s)'
<1> USE DEF flagVars, callVars, peerVars, workerRest
<1> DEFINE c == worker[u].ctx
<1>0. /\ UNCHANGED <<client, terminated, peer, fromPeer, putting, serve, toPeer, flushing>>
      /\ Out \in Seq(Msg) /\ client.todo \in Seq(Msg) /\ fromPeer \in Seq(Msg) /\ putting \in Seq(Msg)
      /\ worker \in [Worker -> [at : {"none", "idle", "handle", "write"}, ctx : Msg]]
      /\ c \in Msg /\ c.seq \in SeqId /\ TypeOK
    BY OutType DEF WorkerStep, WorkerReturns, WorkerPanics, WorkerGoes, WorkerWrites, WorkerExits,
                   TypeInv, TypeOK, ServeTypeOK, Msg
<1>1. \A s \in SeqId \ {0} : ~IsOf(NoContext, s)
    BY DEF IsOf, NoContext, Plain, Frame
<1>2. CASE WorkerWrites(u)
    <2>0. /\ worker[u].at = "write" /\ Enqueue(c)
          /\ worker' = [worker EXCEPT ![u] = [at |-> "idle", ctx |-> NoContext]]
        BY <1>2 DEF WorkerWrites
    <2>1. Out' = Append(Out, c)
        BY <1>0, <2>0, OutEnqueue
    <2>2. c.op \in {"Response", "Error"} /\ serve \notin {"register", "start"}
        BY <2>0 DEF Plumbing
    <2>3. /\ worker'[u].ctx = NoContext /\ worker'[u].at = "idle"
          /\ \A w \in Worker \ {u} : worker'[w] = worker[w]
        BY <1>0, <2>0
    <2> HIDE DEF c
    <2>4. Plumbing'
        <3>1. c \notin Requests
            BY <1>0, <2>2, ForFacts
        <3>2. ~Hits(Out', Requests)
            BY <1>0, <2>1, <3>1, HitsAppend DEF Plumbing
        <3> QED
            BY <1>0, <2>2, <2>3, <3>2 DEF Plumbing
    <2>5. ASSUME NEW s \in SeqId \ {0}, OnePlace(s) PROVE OnePlace(s)'
        <3>0. (IsOf(c, s) <=> c \in For(s)) /\ ~IsOf(worker'[u].ctx, s)
            BY <1>0, <1>1, <2>3 DEF For
        <3>1. CASE c \notin For(s)
            <4>1. Same(Out', Out, For(s))
                BY <1>0, <2>1, <3>1, SameFacts
            <4>2. \A w \in Worker : IsOf(worker'[w].ctx, s) <=> IsOf(worker[w].ctx, s)
                BY <2>3, <3>0, <3>1 DEF c
            <4>3. Standing(s)
                BY <1>0, <4>1, <4>2, SameFacts DEF Standing, Same, Fewer
            <4> QED
                BY <2>5, <4>3, StandingIsOne
        <3>2. CASE c \in For(s)
            <4>1. Working(s)
                BY <3>0, <3>2 DEF Working, c
            <4>2. ~Working(s)'
                BY <2>3, <2>5, <3>0, <3>2 DEF Working, OnePlace, c
            <4>3. Going(s)' /\ ~Going(s)
                BY <1>0, <2>1, <2>5, <3>2, <4>1, HitsAppend DEF Going, OnePlace
            <4>4. Once(Out', For(s))
                BY <1>0, <2>1, <2>5, <4>3, HitsAppend DEF Going, OnePlace
            <4>5. /\ Asked(s)' <=> Asked(s)
                  /\ Coming(s)' <=> Coming(s)
                  /\ Handing(s)' <=> Handing(s)
                  /\ Answered(s)' <=> Answered(s)
                BY <1>0 DEF Asked, Coming, Handing, Answered
            <4>6. \A v, w \in Worker : IsOf(worker'[v].ctx, s) /\ IsOf(worker'[w].ctx, s) => v = w
                BY <4>2 DEF Working
            <4> QED
                BY <1>0, <2>5, <4>1, <4>2, <4>3, <4>4, <4>5, <4>6 DEF OnePlace
        <3> QED
            BY <3>1, <3>2
    <2> QED
        BY <2>4, <2>5
<1>3. ASSUME NEW at \in {"none", "idle", "write"}, NEW x \in Msg,
             worker[u].at \in {"idle", "handle"}, writeCh' = writeCh,
             worker' = [worker EXCEPT ![u] = [at |-> at, ctx |-> x]],
             at \in {"none", "idle"} => x = NoContext, at = "write" => x.op \in {"Response", "Error"},
             \A s \in SeqId \ {0} : IsOf(x, s) <=> IsOf(c, s)
      PROVE  Plumbing' /\ \A s \in SeqId \ {0} : OnePlace(s) => OnePlace(s)'
    <2>1. Out' = Out /\ serve \notin {"register", "start"}
        BY <1>0, <1>3 DEF Out, Plumbing
    <2>2. /\ worker'[u].ctx = x /\ worker'[u].at = at
          /\ \A w \in Worker \ {u} : worker'[w] = worker[w]
        BY <1>0, <1>3
    <2>3. Plumbing'
        BY <1>0, <1>3, <2>1, <2>2 DEF Plumbing
    <2>4. ASSUME NEW s \in SeqId \ {0} PROVE Standing(s)
        <3>1. \A w \in Worker : IsOf(worker'[w].ctx, s) <=> IsOf(worker[w].ctx, s)
            BY <1>3, <2>2
        <3> QED
            BY <1>0, <2>1, <3>1, SameFacts, FewerFacts DEF Standing
    <2> QED
        BY <2>3, <2>4, StandingIsOne
<1>4. CASE WorkerExits(u)
    <2>1. worker[u].at = "idle" /\ writeCh' = writeCh /\ c = NoContext
        BY <1>4 DEF WorkerExits, Plumbing
    <2>2. worker' = [worker EXCEPT ![u] = [at |-> "none", ctx |-> c]]
        <3>1. worker[u] \in [at : {"none", "idle", "handle", "write"}, ctx : Msg]
            BY <1>0
        <3>2. [worker[u] EXCEPT !.at = "none"] = [at |-> "none", ctx |-> c]
            BY <3>1
        <3> QED
            BY <1>4, <3>2 DEF WorkerExits
    <2> QED
        BY <1>0, <1>3, <2>1, <2>2
<1>5. CASE WorkerReturns(u) \/ WorkerPanics(u)
    <2>1. worker[u].at = "handle" /\ writeCh' = writeCh /\ IsWork(c)
        BY <1>5 DEF WorkerReturns, WorkerPanics, WorkerGoes, Plumbing
    <2>2. PICK x : \/ /\ c.seq = 0 /\ x = NoContext
                      /\ worker' = [worker EXCEPT ![u] = [at |-> "idle", ctx |-> x]]
                   \/ /\ \E op \in {"Response", "Error"} : x = Frame(op, c.seq, None)
                      /\ worker' = [worker EXCEPT ![u] = [at |-> "write", ctx |-> x]]
        BY <1>5 DEF WorkerReturns, WorkerPanics, WorkerGoes
    <2>3. CASE c.seq = 0 /\ x = NoContext /\ worker' = [worker EXCEPT ![u] = [at |-> "idle", ctx |-> x]]
        <3>1. x \in Msg
            BY <2>3, FramesBuilt DEF NoContext
        <3>2. \A s \in SeqId \ {0} : IsOf(x, s) <=> IsOf(c, s)
            BY <1>1, <2>3 DEF IsOf
        <3> QED
            BY <1>3, <2>1, <2>3, <3>1, <3>2
    <2>4. ASSUME NEW op \in {"Response", "Error"}, x = Frame(op, c.seq, None),
                 worker' = [worker EXCEPT ![u] = [at |-> "write", ctx |-> x]]
          PROVE  Plumbing' /\ \A s \in SeqId \ {0} : OnePlace(s) => OnePlace(s)'
        <3>1. x \in Msg /\ x.op = op /\ x.seq = c.seq
            BY <1>0, <2>4, FramesBuilt
        <3>2. \A s \in SeqId \ {0} : IsOf(x, s) <=> IsOf(c, s)
            BY <2>1, <3>1 DEF IsOf, IsWork
        <3> QED
            BY <1>3, <2>1, <2>4, <3>1, <3>2
    <2> QED
        BY <2>2, <2>3, <2>4
<1> QED
    BY <1>2, <1>4, <1>5 DEF WorkerStep

(* The client sends what it has to, and reads what comes. *)
LEMMA ClientSendsKeeps ==
    ASSUME TypeInv, Plumbing, ClientSends
    PROVE  Plumbing' /\ \A s \in SeqId \ {0} : OnePlace(s) => OnePlace(s)'
<1> USE DEF flagVars, callVars, localVars
<1> DEFINE m == Head(client.todo)
<1>0. /\ UNCHANGED <<terminated, peer, putting, serve, worker>> /\ Out' = Out
      /\ Out \in Seq(Msg) /\ fromPeer \in Seq(Msg) /\ putting \in Seq(Msg)
      /\ client \in [todo : Seq(Msg), acked : BOOLEAN, sent : SUBSET SeqId, answers : [SeqId -> Nat]]
      /\ client.todo # <<>> /\ fromPeer' = Append(fromPeer, m)
      /\ client' = [client EXCEPT !.todo = Tail(@), !.sent = IF m.op = "Request" THEN @ \cup {m.seq} ELSE @]
    BY OutType DEF ClientSends, TypeInv, TypeOK, ServeTypeOK, Out
<1>1. /\ client.todo \in Seq(Msg) /\ m \in Msg /\ client'.todo = Tail(client.todo)
      /\ client'.answers = client.answers
      /\ m.op = "Request" => client'.sent = client.sent \cup {m.seq}
      /\ m.op # "Request" => client'.sent = client.sent
    BY <1>0, QueueTypes
<1>2. m \notin Odd /\ ~Hits(client'.todo, Odd)
    BY <1>0, <1>1, HitsTail DEF Plumbing
<1> HIDE DEF m
<1>3. Plumbing'
    <2>1. ~Hits(fromPeer', Odd)
        BY <1>0, <1>1, <1>2, HitsAppend DEF Plumbing
    <2> QED
        BY <1>0, <1>2, <2>1 DEF Plumbing
<1>4. ASSUME NEW s \in SeqId \ {0}, OnePlace(s) PROVE OnePlace(s)'
    <2>1. CASE m \notin For(s)
        <3>1. Same(client'.todo, client.todo, For(s)) /\ Same(fromPeer', fromPeer, For(s))
            BY <1>0, <1>1, <2>1, SameFacts DEF m
        <3>2. s \in client'.sent <=> s \in client.sent
            BY <1>1, <2>1, ForFacts
        <3>3. Standing(s)
            BY <1>0, <1>1, <3>1, <3>2, SameFacts, FewerFacts DEF Standing
        <3> QED
            BY <1>4, <3>3, StandingIsOne
    <2>2. CASE m \in For(s)
        <3>1. m.op = "Request" /\ m.seq = s
            BY <1>1, <1>2, <2>2, ForFacts
        <3>2. Asked(s) /\ ~Asked(s)' /\ Once(client'.todo, For(s))
            BY <1>0, <1>1, <1>4, <2>2, HitsTail DEF Asked, OnePlace, m
        <3>3. ~Coming(s) /\ Coming(s)' /\ Once(fromPeer', For(s))
            BY <1>0, <1>1, <1>4, <2>2, <3>2, HitsAppend DEF Coming, OnePlace
        <3>4. s \in client'.sent
            BY <1>1, <3>1
        <3>5. /\ Handing(s)' <=> Handing(s)
              /\ Working(s)' <=> Working(s)
              /\ Going(s)' <=> Going(s)
              /\ Answered(s)' <=> Answered(s)
            BY <1>0, <1>1 DEF Handing, Working, Going, Answered
        <3> QED
            BY <1>0, <1>1, <1>4, <3>2, <3>3, <3>4, <3>5 DEF OnePlace
    <2> QED
        BY <2>1, <2>2
<1> QED
    BY <1>3, <1>4

LEMMA ClientReadsKeeps ==
    ASSUME TypeInv, Plumbing, ClientReads
    PROVE  Plumbing' /\ \A s \in SeqId \ {0} : OnePlace(s) => OnePlace(s)'
<1> USE DEF flagVars, callVars, localVars
<1> DEFINE m == Head(toPeer)
           answer == m.op \in {"Response", "Error"}
           p == Frame("Pong", m.seq, None)
<1>0. /\ UNCHANGED <<terminated, peer, putting, serve, worker>> /\ TypeOK
      /\ Out \in Seq(Msg) /\ fromPeer \in Seq(Msg) /\ putting \in Seq(Msg) /\ client.todo \in Seq(Msg)
      /\ client \in [todo : Seq(Msg), acked : BOOLEAN, sent : SUBSET SeqId, answers : [SeqId -> Nat]]
    BY OutType DEF ClientReads, TypeInv, TypeOK, ServeTypeOK
<1>1. Out # <<>> /\ Out' = Tail(Out) /\ Head(Out) = m /\ m \in Msg /\ m.seq \in SeqId
    BY <1>0, OutRead, QueueTypes DEF ClientReads, TypeOK, Msg
<1>2. /\ client'.todo = client.todo /\ client'.sent = client.sent
      /\ ~answer => client'.answers = client.answers
      /\ answer => client'.answers = [client.answers EXCEPT ![m.seq] = @ + 1]
    BY <1>0 DEF ClientReads
<1>3. fromPeer' = fromPeer \/ fromPeer' = Append(fromPeer, p)
    BY DEF ClientReads
<1>4. p \in Msg /\ p.op = "Pong"
    BY <1>1, FramesBuilt
<1>5. m \notin Requests /\ ~Hits(Out', Requests)
    BY <1>0, <1>1, HitsTail DEF Plumbing
<1>6. m.op # "Request"
    BY <1>1, <1>5, ForFacts
<1> HIDE DEF m, p
<1>7. Plumbing'
    <2>1. p \notin Odd
        BY <1>4, ForFacts
    <2>2. ~Hits(fromPeer', Odd)
        <3>1. ~Hits(Append(fromPeer, p), Odd) /\ ~Hits(fromPeer, Odd)
            BY <1>0, <1>4, <2>1, HitsAppend DEF Plumbing
        <3> QED
            BY <1>3, <3>1
    <2> QED
        BY <1>0, <1>2, <1>5, <2>2 DEF Plumbing
<1>8. ASSUME NEW s \in SeqId \ {0}, OnePlace(s) PROVE OnePlace(s)'
    <2>0. Same(fromPeer', fromPeer, For(s))
        <3>1. p \notin For(s)
            BY <1>4, ForFacts
        <3>2. Same(Append(fromPeer, p), fromPeer, For(s)) /\ Same(fromPeer, fromPeer, For(s))
            BY <1>0, <1>4, <3>1, SameFacts
        <3> QED
            BY <1>3, <3>2
    <2>1. CASE m \notin For(s)
        <3>1. Same(Out', Out, For(s))
            BY <1>0, <1>1, <2>1, SameFacts
        <3>2. client'.answers[s] = client.answers[s]
            BY <1>0, <1>1, <1>2, <2>1, ForFacts
        <3>3. Standing(s)
            BY <1>0, <1>2, <2>0, <3>1, <3>2, SameFacts DEF Standing, Same, Fewer
        <3> QED
            BY <1>8, <3>3, StandingIsOne
    <2>2. CASE m \in For(s)
        <3>1. answer /\ m.seq = s
            BY <1>1, <1>6, <2>2, ForFacts
        <3>2. Going(s) /\ ~Going(s)' /\ Once(Out', For(s))
            BY <1>0, <1>1, <1>8, <2>2, HitsTail DEF Going, OnePlace
        <3>3. ~Answered(s) /\ client.answers[s] \in Nat
            BY <1>0, <1>8, <3>2 DEF OnePlace
        <3>4. client'.answers[s] = 1 /\ Answered(s)'
            BY <1>0, <1>2, <3>1, <3>3 DEF Answered
        <3>5. /\ Asked(s)' <=> Asked(s)
              /\ Handing(s)' <=> Handing(s)
              /\ Working(s)' <=> Working(s)
              /\ Coming(s)' <=> Coming(s)
              /\ Once(fromPeer', For(s))
            BY <1>0, <1>2, <1>8, <2>0 DEF Handing, Working, Asked, Coming, Same, OnePlace
        <3> QED
            BY <1>0, <1>2, <1>8, <3>2, <3>4, <3>5 DEF OnePlace
    <2> QED
        BY <2>1, <2>2
<1> QED
    BY <1>7, <1>8

LEMMA ServeInvStep ==
    ASSUME TypeInv, ServerIsIdle, ServeInv, [Next]_vars
    PROVE  ServeInv'
<1>0. scenario' = scenario
    BY StepCases DEF vars
<1>1. CASE IsClient
    BY <1>0, <1>1, StepCases DEF ServeInv, serveVars, vars, IsClient
<1>2. CASE ~IsClient
    <2>0. Ending /\ Plumbing /\ \A s \in SeqId \ {0} : OnePlace(s)
        BY <1>2 DEF ServeInv
    <2>1. Ending'
        BY <1>2, <2>0, EndingStep
    <2>2. Plumbing' /\ \A s \in SeqId \ {0} : OnePlace(s) => OnePlace(s)'
        <3>1. CASE UNCHANGED vars
            BY <2>0, <3>1 DEF vars, connVars, flagVars, callVars, peerVars, serveVars, Plumbing, OnePlace,
                              Asked, Coming, Handing, Working, Going, Answered, Out
        <3>2. CASE /\ UNCHANGED serveVars
                   /\ \/ AnyReadStep \/ PingStep \/ WriteStep \/ PeerStep
                      \/ \E g \in Terminator : TerminateStep(g) \/ UserCalls(g)
            BY <2>0, <3>2, LoopsIdle, IdlingKeeps, FlushLoses DEF WriteStep
        <3>3. CASE \/ ServerReadStep \/ ServeStep \/ ClientSends \/ ClientReads
                   \/ \E w \in Worker : WorkerStep(w)
            BY <2>0, <3>3, ServerReadKeeps, ServeKeeps, ClientSendsKeeps, ClientReadsKeeps, WorkerKeeps
        <3> QED
            BY <1>2, <3>1, <3>2, <3>3, ServerCases
    <2> QED
        BY <1>0, <1>2, <2>0, <2>1, <2>2 DEF ServeInv, IsClient
<1> QED
    BY <1>1, <1>2

LEMMA InitServe == ASSUME ScriptsAreSound PROVE Init => ServeInv
<1> SUFFICES ASSUME Init PROVE ServeInv
    OBVIOUS
<1>0. /\ Out = <<>> /\ fromPeer = <<>> /\ putting = <<>> /\ client.todo = scenario.script
      /\ client.sent = {} /\ client.answers = [s \in SeqId |-> 0]
      /\ worker = [w \in Worker |-> [at |-> "none", ctx |-> NoContext]]
      /\ ~IsClient => serve = "register"
    BY DEF Init, ConnInit, Out
<1>1. scenario \in Scenarios /\ scenario.script \in Seq(Msg)
    BY ScenarioAssumption DEF Init, ConnInit, Surroundings
<1>2. ~IsClient => Ending
    BY <1>0 DEF Ending, Init, ConnInit, Goroutine, Terminator
<1>3. /\ \A k \in 1 .. Len(client.todo) : client.todo[k] \in Msg
      /\ ~Hits(client.todo, Odd)
    BY <1>0, <1>1 DEF ScriptsAreSound, Hits, Odd
<1>4. Plumbing
    <2>1. \A k \in 1 .. Len(putting) : IsWork(putting[k])
        BY <1>0
    <2>2. \A w \in Worker : worker[w].at = "none" /\ worker[w].ctx = NoContext
        BY <1>0
    <2> QED
        BY <1>0, <1>3, <2>1, <2>2, HitsEmpty DEF Plumbing
<1>5. ASSUME NEW s \in SeqId \ {0} PROVE OnePlace(s)
    <2>1. Once(client.todo, For(s))
        <3> SUFFICES ASSUME NEW j \in 1 .. Len(client.todo), NEW k \in 1 .. Len(client.todo),
                            client.todo[j] \in For(s), client.todo[k] \in For(s)
                     PROVE  j = k
            BY DEF Once
        <3>1. /\ client.todo[j].op = "Request" /\ client.todo[j].seq = s
              /\ client.todo[k].op = "Request" /\ client.todo[k].seq = s
            BY <1>3, ForFacts DEF Hits
        <3> QED
            BY <1>0, <1>1, <3>1 DEF ScriptsAreSound
    <2>2. ~IsOf(NoContext, s)
        BY DEF IsOf, NoContext, Plain, Frame
    <2>3. ~Coming(s) /\ ~Handing(s) /\ ~Working(s) /\ ~Going(s) /\ ~Answered(s) /\ client.answers[s] = 0
        BY <1>0, <2>2, HitsEmpty DEF Coming, Handing, Working, Going, Answered
    <2> QED
        BY <1>0, <2>1, <2>2, <2>3, HitsEmpty DEF OnePlace
<1> QED
    BY <1>0, <1>2, <1>4, <1>5 DEF ServeInv

(* The places of a request, one by one. *)
LEMMA OnePlaceIsOne ==
    ASSUME TypeInv, NEW s \in SeqId \ {0}, OnePlace(s), s \in client.sent
    PROVE  /\ \A x, y \in Occurrences(s) : x = y
           /\ Occurrences(s) = {} => terminated \/ peer.closed
<1> DEFINE W == {w \in Worker : IsOf(worker[w].ctx, s)}
           A == 1 .. client.answers[s]
<1>0. /\ fromPeer \in Seq(Msg) /\ putting \in Seq(Msg) /\ Len(putting) <= 1
      /\ toPeer \in Seq(Msg) /\ flushing \in Seq(Msg) /\ writeCh \in Seq(Msg)
      /\ toPeer \o flushing \in Seq(Msg) /\ Out = (toPeer \o flushing) \o writeCh
      /\ client.answers[s] \in Nat
    BY OutType DEF TypeInv, TypeOK, ServeTypeOK, Out
<1>1. ASSUME NEW q \in Seq(Msg)
      PROVE  /\ At(q, s) # {} <=> Hits(q, For(s))
             /\ Once(q, For(s)) => \A j, k \in At(q, s) : j = k
    BY DEF At, Hits, Once, For
<1>2. /\ Going(s) <=> Hits(toPeer, For(s)) \/ Hits(flushing, For(s)) \/ Hits(writeCh, For(s))
      /\ Once(toPeer, For(s)) /\ Once(flushing, For(s)) /\ Once(writeCh, For(s))
      /\ ~(Hits(toPeer, For(s)) /\ Hits(flushing, For(s)))
      /\ ~(Hits(toPeer, For(s)) /\ Hits(writeCh, For(s)))
      /\ ~(Hits(flushing, For(s)) /\ Hits(writeCh, For(s)))
    <2>1. Once(Out, For(s))
        BY DEF OnePlace
    <2>2. /\ Hits(Out, For(s)) <=> Hits(toPeer \o flushing, For(s)) \/ Hits(writeCh, For(s))
          /\ Once(toPeer \o flushing, For(s)) /\ Once(writeCh, For(s))
          /\ ~(Hits(toPeer \o flushing, For(s)) /\ Hits(writeCh, For(s)))
        BY <1>0, <2>1, HitsConcat
    <2>3. /\ Hits(toPeer \o flushing, For(s)) <=> Hits(toPeer, For(s)) \/ Hits(flushing, For(s))
          /\ Once(toPeer, For(s)) /\ Once(flushing, For(s))
          /\ ~(Hits(toPeer, For(s)) /\ Hits(flushing, For(s)))
        BY <1>0, <2>2, HitsConcat
    <2> QED
        BY <2>2, <2>3 DEF Going
<1>3. /\ At(fromPeer, s) # {} <=> Coming(s)
      /\ At(putting, s) # {} <=> Handing(s)
      /\ W # {} <=> Working(s)
      /\ A # {} <=> Answered(s)
      /\ Going(s) <=> At(toPeer, s) # {} \/ At(flushing, s) # {} \/ At(writeCh, s) # {}
    <2>1. (At(fromPeer, s) # {} <=> Coming(s)) /\ (At(putting, s) # {} <=> Handing(s))
        BY <1>0, <1>1 DEF Coming, Handing
    <2>2. (W # {} <=> Working(s)) /\ (A # {} <=> Answered(s))
        <3>1. W # {} <=> Working(s)
            BY DEF Working
        <3>2. A = {} => client.answers[s] = 0
            <4>1. client.answers[s] # 0 => 1 \in A
                BY <1>0
            <4> QED
                BY <4>1
        <3>3. client.answers[s] = 0 => A = {}
            OBVIOUS
        <3> QED
            BY <3>1, <3>2, <3>3 DEF Answered
    <2>3. Going(s) <=> At(toPeer, s) # {} \/ At(flushing, s) # {} \/ At(writeCh, s) # {}
        BY <1>0, <1>1, <1>2
    <2> QED
        BY <2>1, <2>2, <2>3
<1>4. /\ \A j, k \in At(fromPeer, s) : j = k
      /\ \A j, k \in At(putting, s) : j = k
      /\ \A j, k \in W : j = k
      /\ \A j, k \in A : j = k
      /\ \A j, k \in At(toPeer, s) : j = k
      /\ \A j, k \in At(flushing, s) : j = k
      /\ \A j, k \in At(writeCh, s) : j = k
    <2>1. \A j, k \in At(putting, s) : j = k
        BY <1>0 DEF At
    <2>2. (\A j, k \in W : j = k) /\ (\A j, k \in A : j = k)
        BY <1>0 DEF OnePlace
    <2>3. \A j, k \in At(fromPeer, s) : j = k
        BY <1>0, <1>1 DEF OnePlace
    <2> QED
        BY <1>0, <1>1, <1>2, <2>1, <2>2, <2>3
<1> DEFINE X(tag, I) == {tag} \X I
           O == Occurrences(s)
<1>5. O = X("fromPeer", At(fromPeer, s)) \cup X("putting", At(putting, s)) \cup X("worker", W)
            \cup X("writeCh", At(writeCh, s)) \cup X("flushing", At(flushing, s))
            \cup X("toPeer", At(toPeer, s)) \cup X("answered", A)
    BY DEF Occurrences
<1>6. \A tag, I : /\ (I = {} => X(tag, I) = {}) /\ (I # {} => X(tag, I) # {})
                  /\ (\A j, k \in I : j = k) => \A x, y \in X(tag, I) : x = y
    <2> SUFFICES ASSUME NEW tag, NEW I
                 PROVE  /\ (I = {} => X(tag, I) = {}) /\ (I # {} => X(tag, I) # {})
                        /\ (\A j, k \in I : j = k) => \A x, y \in X(tag, I) : x = y
        OBVIOUS
    <2>1. \A x \in X(tag, I) : \E k \in I : x = <<tag, k>>
        OBVIOUS
    <2>2. \A k \in I : <<tag, k>> \in X(tag, I)
        OBVIOUS
    <2> HIDE DEF X
    <2> QED
        BY <2>1, <2>2
<1>7. /\ ~(Going(s) /\ Coming(s)) /\ ~(Going(s) /\ Handing(s)) /\ ~(Going(s) /\ Working(s))
      /\ ~(Going(s) /\ Answered(s)) /\ ~(Coming(s) /\ Handing(s)) /\ ~(Coming(s) /\ Working(s))
      /\ ~(Coming(s) /\ Answered(s)) /\ ~(Handing(s) /\ Working(s)) /\ ~(Handing(s) /\ Answered(s))
      /\ ~(Working(s) /\ Answered(s))
    BY DEF OnePlace
<1>8. /\ At(toPeer, s) = {} \/ At(flushing, s) = {}
      /\ At(toPeer, s) = {} \/ At(writeCh, s) = {}
      /\ At(flushing, s) = {} \/ At(writeCh, s) = {}
    BY <1>0, <1>1, <1>2
<1> HIDE DEF X, O, W, A
<1>9. ASSUME NEW x \in O, NEW y \in O PROVE x = y
    <2>1. CASE Coming(s)
        <3>1. O = X("fromPeer", At(fromPeer, s))
            BY <1>3, <1>5, <1>6, <1>7, <2>1
        <3> QED
            BY <1>4, <1>6, <1>9, <3>1
    <2>2. CASE Handing(s)
        <3>1. O = X("putting", At(putting, s))
            BY <1>3, <1>5, <1>6, <1>7, <2>2
        <3> QED
            BY <1>4, <1>6, <1>9, <3>1
    <2>3. CASE Working(s)
        <3>1. O = X("worker", W)
            BY <1>3, <1>5, <1>6, <1>7, <2>3
        <3> QED
            BY <1>4, <1>6, <1>9, <3>1
    <2>4. CASE Answered(s)
        <3>1. O = X("answered", A)
            BY <1>3, <1>5, <1>6, <1>7, <2>4
        <3> QED
            BY <1>4, <1>6, <1>9, <3>1
    <2>5. CASE Going(s)
        <3>1. O = X("toPeer", At(toPeer, s)) \/ O = X("flushing", At(flushing, s))
              \/ O = X("writeCh", At(writeCh, s))
            BY <1>3, <1>5, <1>6, <1>7, <1>8, <2>5
        <3> QED
            BY <1>4, <1>6, <1>9, <3>1
    <2>6. CASE ~Coming(s) /\ ~Handing(s) /\ ~Working(s) /\ ~Answered(s) /\ ~Going(s)
        <3>1. O = {}
            BY <1>3, <1>5, <1>6, <2>6
        <3> QED
            BY <3>1
    <2> QED
        BY <2>1, <2>2, <2>3, <2>4, <2>5, <2>6
<1>10. O = {} => ~Coming(s) /\ ~Handing(s) /\ ~Working(s) /\ ~Answered(s) /\ ~Going(s)
    BY <1>3, <1>5, <1>6
<1> QED
    BY <1>9, <1>10 DEF O, OnePlace

(* A request is in one place at a time from the client through the pool and    *)
(* back, and lost only with the connection, for any number of workers and       *)
(* requests, however workers return or panic and whoever ends the connection;    *)
(* nothing is put into a pool that is closed.                                  *)
THEOREM NoRequestIsLost == ASSUME ScriptsAreSound PROVE Spec => []RequestsConserved
<1> DEFINE Inv == TypeInv /\ ServerIsIdle /\ ServeInv
<1>1. Init => Inv
    <2>1. Init => ServerIsIdle
        BY DEF Init, ConnInit, ServerIsIdle
    <2> QED
        BY <2>1, InitType, InitServe
<1>2. Inv /\ [Next]_vars => Inv'
    BY TypeStep, IdleStep, ServeInvStep
<1>3. Inv => RequestsConserved
    <2> SUFFICES ASSUME Inv PROVE RequestsConserved
        OBVIOUS
    <2>1. CASE IsClient
        BY <2>1 DEF ServeInv, RequestsConserved
    <2>2. CASE ~IsClient
        <3>1. putting # <<>> => serve \notin {"delete", "returned"}
            BY <2>2 DEF ServeInv, Ending
        <3>2. client.sent \subseteq SeqId
            BY DEF TypeInv, ServeTypeOK
        <3> QED
            BY <2>2, <3>1, <3>2, OnePlaceIsOne DEF ServeInv, RequestsConserved
    <2> QED
        BY <2>1, <2>2
<1> QED
    BY <1>1, <1>2, <1>3, PTL DEF Spec
=============================================================================
